----------------------------- MODULE PoboxProofs ----------------------------
(***************************************************************************)
(* Proofs about Pobox, for any number of threads, keys, values, functions  *)
(* and calls.                                                              *)
(*                                                                         *)
(* None of the safety invariants is inductive by itself.  A walk does not  *)
(* stray because every node is whole, except the one that the lock's       *)
(* holder is writing (OfficeInv); the stores of the holder hit the node it *)
(* found or linked (NodeInv); and that nobody else is looking meanwhile is *)
(* mutual exclusion, which in turn needs that the three functions are      *)
(* entered through the lock only.  IInv is the conjunction.                *)
(***************************************************************************)
EXTENDS Pobox, Integers, SequenceTheorems, TLAPS

\* A call in progress is one of Calls, and only the operations that take a step get to it.
CallInv == \A t \in Threads :
  /\ pc[t] # "idle" => call[t] \in Calls
  /\ pc[t] \in {"walk", "copy"} => call[t].op \in {"get", "update"}
  /\ pc[t] \in {"call", "reenter"} => call[t].op = "update"
  /\ pc[t] \in {"put", "key", "val", "len"} => call[t].op \in {"make", "update"}

\* The buffer holds a real value from the copy or the call's arguments to the last store.
RegInv == \A t \in Threads :
  pc[t] \in {"call", "put", "key", "val", "len"} => reg[t] \in Values

\* The two ways out that keep the lock.
RetInv == \A t \in Threads : pc[t] = "ret" => res[t] \in {Missing, Raise}

\* A node that nobody is writing.
Whole(n) == /\ n.k \in Keys \cup {NoKey}
            /\ n.k \in Keys => n.v \in Values
            /\ n.vlen = n.v
            /\ n.ends

BeingWritten(i) == lock \in Threads /\ pc[lock] \in Writing /\ node[lock] = i

OfficeInv == \A i \in DOMAIN office : BeingWritten(i) \/ Whole(office[i])

\* Where the pointer of each thread points.
NodeInv == \A t \in Threads :
  /\ pc[t] \in {"copy", "key", "val", "len"} => node[t] \in DOMAIN office
  /\ pc[t] \in {"copy", "val", "len"} => office[node[t]].k = call[t].k
  /\ pc[t] = "key" => /\ office[node[t]].k = Junk
                      /\ \A i \in DOMAIN office : office[i].k # call[t].k
  /\ pc[t] = "len" => office[node[t]].v = reg[t]

IInv == /\ TypeOK
        /\ MutualExclusion
        /\ CallInv
        /\ RegInv
        /\ RetInv
        /\ LockLeftTaken
        /\ OfficeInv
        /\ NodeInv
        /\ OneNodePerKey
        /\ NoWildRead

-----------------------------------------------------------------------------
\* A store to one node leaves the list and all other nodes alone.
LEMMA StoreNode ==
  ASSUME NEW s \in Seq(Node), NEW i \in DOMAIN s, NEW n \in Node
  PROVE  /\ [s EXCEPT ![i] = n] \in Seq(Node)
         /\ DOMAIN [s EXCEPT ![i] = n] = DOMAIN s
         /\ Len([s EXCEPT ![i] = n]) = Len(s)
         /\ [s EXCEPT ![i] = n][i] = n
         /\ \A j \in DOMAIN s : j # i => [s EXCEPT ![i] = n][j] = s[j]
BY ExceptSeq

\* The calls and their parts.
LEMMA CallParts ==
  ASSUME NEW c \in Calls
  PROVE  /\ c.k \in Keys
         /\ c.op \in {"make", "get", "update"}
         /\ c.op = "make" => c.v \in Values
         /\ c.op = "update" => c.f \in Funs
BY CallAssumption DEF MakeCalls, GetCalls, UpdateCalls

\* What a function given to update can answer.
LEMMA FunResult ==
  ASSUME NEW f \in Funs, NEW v \in Values
  PROVE  f[v] \in Outcomes
BY FunAssumption

\* The office after the main VM has started: the sentinel, then the premade boxes.
LEMMA StartNodes ==
  ASSUME Init
  PROVE  /\ office \in Seq(Node)
         /\ \A i \in DOMAIN office :
              \/ i = 1 /\ office[i] = Sentinel
              \/ /\ i # 1 /\ i - 1 \in DOMAIN Premade
                 /\ office[i] = NewNode(Premade[i - 1][1], Premade[i - 1][2])
         /\ \A i \in DOMAIN Premade :
              i + 1 \in DOMAIN office /\ office[i + 1] = NewNode(Premade[i][1], Premade[i][2])
<1> DEFINE P == [i \in DOMAIN Premade |-> NewNode(Premade[i][1], Premade[i][2])]
<1>1. /\ \A i \in DOMAIN Premade : Premade[i][1] \in Keys /\ Premade[i][2] \in Values
      /\ DOMAIN Premade = 1 .. Len(Premade) /\ Len(Premade) \in Nat
  BY PremadeAssumption
<1>2. Sentinel \in Node
  BY DEF Sentinel, NewNode, Node
<1>3. \A i \in DOMAIN Premade : NewNode(Premade[i][1], Premade[i][2]) \in Node
  BY <1>1 DEF NewNode, Node
<1>4. P \in Seq(Node) /\ Len(P) = Len(Premade)
  BY <1>1, <1>3
<1>5. <<Sentinel>> \in Seq(Node) /\ Len(<<Sentinel>>) = 1 /\ <<Sentinel>>[1] = Sentinel
  BY <1>2
<1>6. office = <<Sentinel>> \o P
  BY DEF Init
<1>7. /\ office \in Seq(Node)
      /\ Len(office) = 1 + Len(Premade)
      /\ \A i \in 1 .. 1 + Len(Premade) : office[i] = IF i <= 1 THEN <<Sentinel>>[i] ELSE P[i - 1]
  BY <1>4, <1>5, <1>6, ConcatProperties
<1>8. \A i \in DOMAIN Premade : P[i] = NewNode(Premade[i][1], Premade[i][2])
  OBVIOUS
<1> HIDE DEF P
<1>9. ASSUME NEW i \in DOMAIN office
      PROVE  \/ i = 1 /\ office[i] = Sentinel
             \/ /\ i # 1 /\ i - 1 \in DOMAIN Premade
                /\ office[i] = NewNode(Premade[i - 1][1], Premade[i - 1][2])
  <2>1. i \in 1 .. 1 + Len(Premade)
    BY <1>7
  <2>2. CASE i = 1
    BY <1>5, <1>7, <2>1, <2>2
  <2>3. CASE i # 1
    <3>1. ~(i <= 1) /\ i - 1 \in DOMAIN Premade
      BY <1>1, <2>1, <2>3
    <3> QED
      BY <1>7, <1>8, <2>1, <2>3, <3>1
  <2> QED
    BY <2>2, <2>3
<1>10. ASSUME NEW i \in DOMAIN Premade
       PROVE  i + 1 \in DOMAIN office /\ office[i + 1] = NewNode(Premade[i][1], Premade[i][2])
  <2>1. i + 1 \in 1 .. 1 + Len(Premade) /\ ~(i + 1 <= 1) /\ (i + 1) - 1 = i
    BY <1>1
  <2>2. office[i + 1] = P[(i + 1) - 1]
    BY <1>7, <2>1
  <2> QED
    BY <1>7, <1>8, <2>1, <2>2
<1> QED
  BY <1>7, <1>9, <1>10

\* At the start every node is whole and no key has two.
LEMMA StartOffice ==
  ASSUME Init
  PROVE  /\ office \in Seq(Node)
         /\ \A i \in DOMAIN office : Whole(office[i])
         /\ OneNodePerKey
<1>1. \A i \in DOMAIN Premade : Premade[i][1] \in Keys /\ Premade[i][2] \in Values
  BY PremadeAssumption
<1>2. ASSUME NEW i \in DOMAIN office PROVE Whole(office[i])
  BY <1>1, StartNodes, KeyAssumption DEF Whole, Sentinel, NewNode
<1>3. OneNodePerKey
  <2> SUFFICES ASSUME NEW i \in DOMAIN office, NEW j \in DOMAIN office, office[i].k = office[j].k
               PROVE  i = j
    BY DEF OneNodePerKey
  <2>1. i \in Int /\ j \in Int
    BY StartNodes
  <2>2. i = 1 <=> j = 1
    BY <1>1, StartNodes, KeyAssumption DEF Sentinel, NewNode
  <2>3. CASE i # 1 /\ j # 1
    <3>1. i - 1 \in DOMAIN Premade /\ j - 1 \in DOMAIN Premade
      BY <2>3, StartNodes
    <3>2. Premade[i - 1][1] = Premade[j - 1][1]
      BY <2>3, StartNodes DEF NewNode
    <3>3. i - 1 = j - 1
      BY <3>1, <3>2, PremadeAssumption
    <3> QED
      BY <2>1, <3>3
  <2> QED
    BY <2>2, <2>3
<1> QED
  BY <1>2, <1>3, StartNodes

\* The invariant holds when the main VM has loaded pobox and starts the threads.
LEMMA InitIInv == Init => IInv
<1> SUFFICES ASSUME Init PROVE IInv
  OBVIOUS
<1>1. TypeOK
  BY StartOffice, BoundAssumption DEF Init, TypeOK, Labels, Answers
<1>2. MutualExclusion /\ CallInv /\ RegInv /\ RetInv /\ NodeInv
  BY DEF Init, MutualExclusion, CallInv, RegInv, RetInv, NodeInv, InCall, Labels
<1>3. LockLeftTaken
  BY ThreadAssumption DEF Init, LockLeftTaken
<1>4. OfficeInv /\ OneNodePerKey
  BY StartOffice DEF OfficeInv
<1>5. NoWildRead
  BY ValueAssumption DEF Init, NoWildRead
<1> QED
  BY <1>1, <1>2, <1>3, <1>4, <1>5 DEF IInv

-----------------------------------------------------------------------------
\* Entering make, get or update from Janet, before the lock.
LEMMA InvokeIInv ==
  ASSUME IInv, NEW t \in Threads, NEW c \in Calls, Invoke(t, c)
  PROVE  IInv'
<1> USE DEF IInv, Invoke, At, Goto
<1>1. TypeOK'
  BY BoundAssumption DEF TypeOK, Labels
<1>2. MutualExclusion' /\ LockLeftTaken'
  BY DEF TypeOK, MutualExclusion, LockLeftTaken, InCall, Labels
<1>3. CallInv' /\ RegInv' /\ RetInv'
  BY DEF TypeOK, CallInv, RegInv, RetInv
<1>4. OfficeInv' /\ OneNodePerKey'
  BY DEF TypeOK, OfficeInv, BeingWritten, Writing, OneNodePerKey
<1>5. NodeInv' /\ NoWildRead'
  BY DEF TypeOK, NodeInv, NoWildRead
<1> QED
  BY <1>1, <1>2, <1>3, <1>4, <1>5

\* pthread_spin_lock: the thread that gets in finds the lock free, so nobody is inside.
LEMMA LockIInv ==
  ASSUME IInv, NEW t \in Threads, Lock(t)
  PROVE  IInv'
<1> USE DEF IInv, Lock, At, Goto
<1>1. TypeOK' /\ RegInv'
  BY CallParts DEF TypeOK, Labels, RegInv, CallInv
<1>2. MutualExclusion' /\ LockLeftTaken'
  BY ThreadAssumption DEF TypeOK, MutualExclusion, LockLeftTaken, InCall, Labels
<1>3. CallInv' /\ RetInv'
  BY CallParts DEF TypeOK, CallInv, RetInv
<1>4. OfficeInv' /\ OneNodePerKey'
  BY ThreadAssumption DEF TypeOK, OfficeInv, BeingWritten, Writing, OneNodePerKey, Whole
<1>5. NodeInv' /\ NoWildRead'
  BY DEF TypeOK, NodeInv, NoWildRead
<1> QED
  BY <1>1, <1>2, <1>3, <1>4, <1>5

\* Before it starts to store, the holder of the lock finds every node whole ...
LEMMA AllWhole ==
  ASSUME IInv, NEW t \in Threads, pc[t] \in InCall \ Writing
  PROVE  lock = t /\ \A i \in DOMAIN office : Whole(office[i])
BY DEF IInv, MutualExclusion, OfficeInv, BeingWritten

\* ... so its walk does not stray.
LEMMA NoStray ==
  ASSUME IInv, NEW t \in Threads, pc[t] \in InCall \ Writing, NEW k \in Keys
  PROVE  ~Strays(k)
BY AllWhole, KeyAssumption DEF Strays, Passes, Whole

\* table_get of get_wrapped and update_wrapped: a hit, a miss that returns with the
\* lock, and the NULL dereference of an update without a box.
LEMMA WalkIInv ==
  ASSUME IInv, NEW t \in Threads, Walk(t)
  PROVE  IInv'
<1> USE DEF IInv, Walk, At, Goto
<1>1. /\ call[t] \in Calls /\ call[t].k \in Keys
      /\ pc[t] = "walk" /\ lock = t
      /\ ~Strays(call[t].k)
  BY CallParts, AllWhole, NoStray DEF CallInv, InCall, Labels, Writing
<1>2. CASE \E i \in DOMAIN office :
             /\ Finds(call[t].k, i)
             /\ node' = [node EXCEPT ![t] = i]
             /\ Goto(t, "copy")
             /\ UNCHANGED <<office, lock, call, reg, res, left, fault>>
  <2>1. PICK i \in DOMAIN office : /\ office[i].k = call[t].k
                                  /\ node' = [node EXCEPT ![t] = i]
                                  /\ pc' = [pc EXCEPT ![t] = "copy"]
                                  /\ UNCHANGED <<office, lock, call, reg, res, left, fault>>
    BY <1>2 DEF Finds
  <2>2. i \in Nat
    BY <2>1 DEF TypeOK
  <2>3. TypeOK' /\ MutualExclusion' /\ LockLeftTaken'
    BY <1>1, <2>1, <2>2 DEF TypeOK, Labels, MutualExclusion, LockLeftTaken, InCall
  <2>4. CallInv' /\ RegInv' /\ RetInv' /\ NoWildRead'
    BY <1>1, <2>1 DEF TypeOK, CallInv, RegInv, RetInv, NoWildRead
  <2>5. OfficeInv' /\ OneNodePerKey'
    BY <1>1, <2>1 DEF TypeOK, OfficeInv, BeingWritten, Writing, OneNodePerKey, Whole
  <2>6. NodeInv'
    BY <1>1, <2>1 DEF TypeOK, NodeInv
  <2> QED
    BY <2>3, <2>4, <2>5, <2>6
<1>3. CASE /\ res' = [res EXCEPT ![t] = Missing]
           /\ Goto(t, "ret")
           /\ UNCHANGED <<office, lock, call, node, reg, left, fault>>
  <2>1. TypeOK' /\ MutualExclusion' /\ LockLeftTaken'
    BY <1>1, <1>3 DEF TypeOK, Labels, Answers, MutualExclusion, LockLeftTaken, InCall
  <2>2. CallInv' /\ RegInv' /\ RetInv' /\ NoWildRead'
    BY <1>1, <1>3, ValueAssumption DEF TypeOK, CallInv, RegInv, RetInv, NoWildRead
  <2>3. OfficeInv' /\ OneNodePerKey' /\ NodeInv'
    BY <1>1, <1>3 DEF TypeOK, OfficeInv, BeingWritten, Writing, OneNodePerKey, Whole, NodeInv
  <2> QED
    BY <2>1, <2>2, <2>3
<1>4. CASE Crash("null")
  BY <1>4 DEF Crash, TypeOK, MutualExclusion, CallInv, RegInv, RetInv, LockLeftTaken, OfficeInv,
              BeingWritten, NodeInv, OneNodePerKey, NoWildRead
<1> QED
  BY <1>1, <1>2, <1>3, <1>4

\* The copy out of the found node is a real value, since no other thread is storing.
LEMMA CopyIInv ==
  ASSUME IInv, NEW t \in Threads, Copy(t)
  PROVE  IInv'
<1> USE DEF IInv, Copy, At, Goto
<1> DEFINE x == Content(office[node[t]])
<1>1. /\ call[t] \in Calls /\ call[t].k \in Keys /\ call[t].op \in {"get", "update"}
      /\ pc[t] = "copy" /\ lock = t
      /\ \A i \in DOMAIN office : Whole(office[i])
  BY CallParts, AllWhole DEF CallInv, InCall, Labels, Writing
<1>2. x \in Values
  BY <1>1 DEF NodeInv, Content, Whole
<1> HIDE DEF x
<1>3. CASE /\ call[t].op = "get"
           /\ res' = [res EXCEPT ![t] = x]
           /\ pc' = [pc EXCEPT ![t] = "unlock"]
           /\ UNCHANGED <<office, lock, call, node, reg, left, fault>>
  <2>1. TypeOK' /\ MutualExclusion' /\ LockLeftTaken'
    BY <1>1, <1>2, <1>3 DEF TypeOK, Labels, Answers, MutualExclusion, LockLeftTaken, InCall
  <2>2. CallInv' /\ RegInv' /\ RetInv' /\ NoWildRead'
    BY <1>1, <1>2, <1>3, ValueAssumption DEF TypeOK, CallInv, RegInv, RetInv, NoWildRead
  <2>3. OfficeInv' /\ OneNodePerKey' /\ NodeInv'
    BY <1>1, <1>3 DEF TypeOK, OfficeInv, BeingWritten, Writing, OneNodePerKey, Whole, NodeInv
  <2> QED
    BY <2>1, <2>2, <2>3
<1>4. CASE /\ call[t].op = "update"
           /\ reg' = [reg EXCEPT ![t] = x]
           /\ pc' = [pc EXCEPT ![t] = "call"]
           /\ UNCHANGED <<office, lock, call, node, res, left, fault>>
  <2>1. TypeOK' /\ MutualExclusion' /\ LockLeftTaken'
    BY <1>1, <1>2, <1>4 DEF TypeOK, Labels, MutualExclusion, LockLeftTaken, InCall
  <2>2. CallInv' /\ RegInv' /\ RetInv' /\ NoWildRead'
    BY <1>1, <1>2, <1>4 DEF TypeOK, CallInv, RegInv, RetInv, NoWildRead
  <2>3. OfficeInv' /\ OneNodePerKey' /\ NodeInv'
    BY <1>1, <1>4 DEF TypeOK, OfficeInv, BeingWritten, Writing, OneNodePerKey, Whole, NodeInv
  <2> QED
    BY <2>1, <2>2, <2>3
<1> QED
  BY <1>1, <1>3, <1>4 DEF x

\* The caller's function: its value goes to table_put, its error leaves with the lock.
LEMMA CallFunIInv ==
  ASSUME IInv, NEW t \in Threads, CallFun(t)
  PROVE  IInv'
<1> USE DEF IInv, CallFun, At, Goto
<1>1. /\ call[t] \in Calls /\ call[t].k \in Keys /\ call[t].op = "update"
      /\ pc[t] = "call" /\ lock = t
  BY CallParts, AllWhole DEF CallInv, InCall, Labels, Writing
<1>2. MutualExclusion' /\ OfficeInv' /\ OneNodePerKey' /\ NodeInv'
  BY <1>1 DEF TypeOK, MutualExclusion, OfficeInv, BeingWritten, Writing, OneNodePerKey, Whole, NodeInv,
              InCall, Labels
<1>3. TypeOK'
  BY <1>1 DEF TypeOK, Labels, Answers
<1>4. CallInv' /\ RegInv' /\ RetInv' /\ LockLeftTaken'
  BY <1>1 DEF TypeOK, CallInv, RegInv, RetInv, LockLeftTaken, InCall, Labels
<1>5. NoWildRead'
  BY <1>1, ValueAssumption DEF TypeOK, NoWildRead
<1> QED
  BY <1>2, <1>3, <1>4, <1>5

\* table_put links a raw node, or frees the value of the node it found: from then
\* on the node is the holder's to write.
LEMMA TablePutIInv ==
  ASSUME IInv, NEW t \in Threads, TablePut(t)
  PROVE  IInv'
<1> USE DEF IInv, At, Goto
<1>1. /\ call[t] \in Calls /\ call[t].k \in Keys /\ call[t].op \in {"make", "update"}
      /\ pc[t] = "put" /\ lock = t /\ reg[t] \in Values
      /\ ~Strays(call[t].k)
      /\ \A i \in DOMAIN office : Whole(office[i])
      /\ \A u \in Threads : u # t => pc[u] \notin InCall
  BY CallParts, AllWhole, NoStray DEF TablePut, CallInv, RegInv, MutualExclusion, InCall, Labels, Writing
<1>2. CASE \E i \in DOMAIN office :
             /\ Finds(call[t].k, i)
             /\ office' = [office EXCEPT ![i].v = Junk]
             /\ node' = [node EXCEPT ![t] = i]
             /\ Goto(t, "val")
             /\ UNCHANGED <<lock, call, reg, res, left, fault>>
  <2>1. PICK i \in DOMAIN office : /\ office[i].k = call[t].k
                                  /\ office' = [office EXCEPT ![i] = [office[i] EXCEPT !.v = Junk]]
                                  /\ node' = [node EXCEPT ![t] = i]
                                  /\ pc' = [pc EXCEPT ![t] = "val"]
                                  /\ UNCHANGED <<lock, call, reg, res, left, fault>>
    BY <1>2 DEF Finds
  <2>2. i \in Nat /\ office[i] \in Node
    BY <2>1 DEF TypeOK
  <2>3. /\ [office[i] EXCEPT !.v = Junk] \in Node
        /\ [office[i] EXCEPT !.v = Junk].k = call[t].k
    BY <2>1, <2>2 DEF Node
  <2>4. /\ office' \in Seq(Node) /\ DOMAIN office' = DOMAIN office
        /\ office'[i].k = call[t].k
        /\ \A j \in DOMAIN office : j # i => office'[j] = office[j]
    BY <2>1, <2>3, StoreNode DEF TypeOK
  <2>5. TypeOK' /\ MutualExclusion' /\ LockLeftTaken'
    BY <1>1, <2>1, <2>2, <2>4 DEF TypeOK, Labels, MutualExclusion, LockLeftTaken, InCall
  <2>6. CallInv' /\ RegInv' /\ RetInv' /\ NoWildRead'
    BY <1>1, <2>1 DEF TypeOK, CallInv, RegInv, RetInv, NoWildRead
  <2>7. OfficeInv'
    BY <1>1, <2>1, <2>4 DEF TypeOK, OfficeInv, BeingWritten, Writing, Whole
  <2>8. OneNodePerKey'
    BY <1>1, <2>1, <2>4 DEF OneNodePerKey
  <2>9. NodeInv'
    BY <1>1, <2>1, <2>4 DEF TypeOK, NodeInv, InCall, Labels
  <2> QED
    BY <2>5, <2>6, <2>7, <2>8, <2>9
<1>3. CASE /\ Misses(call[t].k)
           /\ office' = Append(office, RawNode)
           /\ node' = [node EXCEPT ![t] = Len(office) + 1]
           /\ Goto(t, "key")
           /\ UNCHANGED <<lock, call, reg, res, left, fault>>
  <2> DEFINE new == Len(office) + 1
  <2>1. RawNode \in Node /\ RawNode.k = Junk
    BY DEF RawNode, Node
  <2>2. /\ office' \in Seq(Node) /\ DOMAIN office' = DOMAIN office \cup {new}
        /\ new \in Nat /\ new \notin DOMAIN office
        /\ office'[new] = RawNode
        /\ \A j \in DOMAIN office : office'[j] = office[j]
    BY <1>3, <2>1, AppendProperties DEF TypeOK
  <2>3. /\ pc' = [pc EXCEPT ![t] = "key"] /\ node' = [node EXCEPT ![t] = new]
        /\ UNCHANGED <<lock, call, reg, res, left, fault>>
    BY <1>3
  <2>4. \A j \in DOMAIN office : office[j].k # call[t].k
    BY <1>3 DEF Misses, Passes
  <2> HIDE DEF new
  <2>5. TypeOK' /\ MutualExclusion' /\ LockLeftTaken'
    BY <1>1, <2>2, <2>3 DEF TypeOK, Labels, MutualExclusion, LockLeftTaken, InCall
  <2>6. CallInv' /\ RegInv' /\ RetInv' /\ NoWildRead'
    BY <1>1, <2>3 DEF TypeOK, CallInv, RegInv, RetInv, NoWildRead
  <2>7. OfficeInv'
    BY <1>1, <2>2, <2>3 DEF TypeOK, OfficeInv, BeingWritten, Writing, Whole
  <2>8. OneNodePerKey'
    BY <1>1, <2>1, <2>2 DEF OneNodePerKey
  <2>9. NodeInv'
    BY <1>1, <2>1, <2>2, <2>3, <2>4, KeyAssumption DEF TypeOK, NodeInv, InCall, Labels
  <2> QED
    BY <2>5, <2>6, <2>7, <2>8, <2>9
<1> QED
  BY <1>1, <1>2, <1>3 DEF TablePut

\* The store of the key into the node just linked, which no other node has.
LEMMA FillKeyIInv ==
  ASSUME IInv, NEW t \in Threads, FillKey(t)
  PROVE  IInv'
<1> USE DEF IInv, At, Goto
<1> DEFINE i == node[t]
           n == [office[i] EXCEPT !.k = call[t].k]
<1>1. /\ call[t] \in Calls /\ call[t].k \in Keys /\ pc[t] = "key" /\ lock = t
      /\ \A u \in Threads : u # t => pc[u] \notin InCall
      /\ i \in DOMAIN office /\ \A j \in DOMAIN office : office[j].k # call[t].k
      /\ office[i] \in Node
  BY CallParts DEF FillKey, CallInv, MutualExclusion, InCall, Labels, NodeInv, TypeOK
<1>2. n \in Node /\ n.k = call[t].k
  BY <1>1 DEF Node
<1>3. /\ office' = [office EXCEPT ![i] = n]
      /\ pc' = [pc EXCEPT ![t] = "val"]
      /\ UNCHANGED <<lock, call, node, reg, res, left, fault>>
  BY DEF FillKey
<1> HIDE DEF n
<1>4. /\ office' \in Seq(Node) /\ DOMAIN office' = DOMAIN office
      /\ office'[i].k = call[t].k
      /\ \A j \in DOMAIN office : j # i => office'[j] = office[j]
  BY <1>1, <1>2, <1>3, StoreNode DEF TypeOK
<1>5. TypeOK' /\ MutualExclusion' /\ LockLeftTaken'
  BY <1>1, <1>3, <1>4 DEF TypeOK, Labels, MutualExclusion, LockLeftTaken, InCall
<1>6. CallInv' /\ RegInv' /\ RetInv' /\ NoWildRead'
  BY <1>1, <1>3 DEF TypeOK, CallInv, RegInv, RetInv, NoWildRead
<1>7. OfficeInv'
  BY <1>1, <1>3, <1>4 DEF TypeOK, OfficeInv, BeingWritten, Writing, Whole
<1>8. OneNodePerKey'
  BY <1>1, <1>4 DEF OneNodePerKey
<1>9. NodeInv'
  <2>1. pc'[t] = "val" /\ \A u \in Threads : u # t => pc'[u] \notin InCall
    BY <1>1, <1>3 DEF TypeOK
  <2>2. node'[t] = i /\ call'[t] = call[t]
    BY <1>3
  <2> HIDE DEF i
  <2> QED
    BY <1>1, <1>4, <2>1, <2>2 DEF NodeInv, InCall, Labels
<1> QED
  BY <1>5, <1>6, <1>7, <1>8, <1>9

\* The store of the value, into the node of the call's key.
LEMMA FillValueIInv ==
  ASSUME IInv, NEW t \in Threads, FillValue(t)
  PROVE  IInv'
<1> USE DEF IInv, At, Goto
<1> DEFINE i == node[t]
           n == [office[i] EXCEPT !.v = reg[t]]
<1>1. /\ call[t] \in Calls /\ pc[t] = "val" /\ lock = t /\ reg[t] \in Values
      /\ \A u \in Threads : u # t => pc[u] \notin InCall
      /\ i \in DOMAIN office /\ office[i].k = call[t].k
      /\ office[i] \in Node
  BY DEF FillValue, CallInv, RegInv, MutualExclusion, InCall, Labels, NodeInv, TypeOK
<1>2. n \in Node /\ n.k = call[t].k /\ n.v = reg[t]
  BY <1>1 DEF Node
<1>3. /\ office' = [office EXCEPT ![i] = n]
      /\ pc' = [pc EXCEPT ![t] = "len"]
      /\ UNCHANGED <<lock, call, node, reg, res, left, fault>>
  BY DEF FillValue
<1> HIDE DEF n
<1>4. /\ office' \in Seq(Node) /\ DOMAIN office' = DOMAIN office
      /\ office'[i].k = call[t].k /\ office'[i].v = reg[t]
      /\ \A j \in DOMAIN office : j # i => office'[j] = office[j]
  BY <1>1, <1>2, <1>3, StoreNode DEF TypeOK
<1>5. TypeOK' /\ MutualExclusion' /\ LockLeftTaken'
  BY <1>1, <1>3, <1>4 DEF TypeOK, Labels, MutualExclusion, LockLeftTaken, InCall
<1>6. CallInv' /\ RegInv' /\ RetInv' /\ NoWildRead'
  BY <1>1, <1>3 DEF TypeOK, CallInv, RegInv, RetInv, NoWildRead
<1>7. OfficeInv'
  BY <1>1, <1>3, <1>4 DEF TypeOK, OfficeInv, BeingWritten, Writing, Whole
<1>8. OneNodePerKey'
  BY <1>1, <1>4 DEF OneNodePerKey
<1>9. NodeInv'
  BY <1>1, <1>3, <1>4 DEF TypeOK, NodeInv, InCall, Labels
<1> QED
  BY <1>5, <1>6, <1>7, <1>8, <1>9

\* The store of the length makes the node whole again.
LEMMA FillLengthIInv ==
  ASSUME IInv, NEW t \in Threads, FillLength(t)
  PROVE  IInv'
<1> USE DEF IInv, At, Goto
<1> DEFINE i == node[t]
           n == [office[i] EXCEPT !.vlen = reg[t], !.ends = TRUE]
<1>1. /\ call[t] \in Calls /\ call[t].k \in Keys /\ pc[t] = "len" /\ lock = t /\ reg[t] \in Values
      /\ \A u \in Threads : u # t => pc[u] \notin InCall
      /\ i \in DOMAIN office /\ office[i].k = call[t].k /\ office[i].v = reg[t]
      /\ office[i] \in Node
  BY CallParts DEF FillLength, CallInv, RegInv, MutualExclusion, InCall, Labels, NodeInv, TypeOK
<1>2. n \in Node /\ n.k = call[t].k /\ Whole(n)
  BY <1>1 DEF Node, Whole
<1>3. /\ office' = [office EXCEPT ![i] = n]
      /\ pc' = [pc EXCEPT ![t] = "unlock"]
      /\ UNCHANGED <<lock, call, node, reg, res, left, fault>>
  BY DEF FillLength
<1> HIDE DEF n
<1>4. /\ office' \in Seq(Node) /\ DOMAIN office' = DOMAIN office
      /\ office'[i].k = call[t].k /\ office'[i] = n
      /\ \A j \in DOMAIN office : j # i => office'[j] = office[j]
  BY <1>1, <1>2, <1>3, StoreNode DEF TypeOK
<1>5. TypeOK' /\ MutualExclusion' /\ LockLeftTaken'
  BY <1>1, <1>3, <1>4 DEF TypeOK, Labels, MutualExclusion, LockLeftTaken, InCall
<1>6. CallInv' /\ RegInv' /\ RetInv' /\ NoWildRead'
  BY <1>1, <1>3 DEF TypeOK, CallInv, RegInv, RetInv, NoWildRead
<1>7. OfficeInv'
  BY <1>1, <1>2, <1>3, <1>4 DEF TypeOK, OfficeInv, BeingWritten, Writing, Whole
<1>8. OneNodePerKey'
  BY <1>1, <1>4 DEF OneNodePerKey
<1>9. NodeInv'
  BY <1>1, <1>3, <1>4 DEF TypeOK, NodeInv, InCall, Labels
<1> QED
  BY <1>5, <1>6, <1>7, <1>8, <1>9

\* pthread_spin_unlock: every node is whole when the holder lets go.
LEMMA UnlockIInv ==
  ASSUME IInv, NEW t \in Threads, Unlock(t)
  PROVE  IInv'
<1> USE DEF IInv, Unlock, At, Goto
<1>1. /\ pc[t] = "unlock" /\ lock = t
      /\ \A u \in Threads : u # t => pc[u] \notin InCall
      /\ \A i \in DOMAIN office : Whole(office[i])
  BY AllWhole DEF MutualExclusion, InCall, Labels, Writing
<1>2. TypeOK' /\ MutualExclusion' /\ LockLeftTaken'
  BY <1>1, ThreadAssumption DEF TypeOK, Labels, Answers, MutualExclusion, LockLeftTaken, InCall
<1>3. CallInv' /\ RegInv' /\ RetInv'
  BY <1>1 DEF TypeOK, CallInv, RegInv, RetInv, InCall, Labels
<1>4. NoWildRead'
  BY <1>1, ValueAssumption DEF TypeOK, NoWildRead
<1>5. OfficeInv' /\ OneNodePerKey' /\ NodeInv'
  BY <1>1 DEF TypeOK, OfficeInv, OneNodePerKey, Whole, NodeInv
<1> QED
  BY <1>2, <1>3, <1>4, <1>5

\* The exits that skip the unlock: the lock stays taken, behind a nil or an error.
LEMMA LeaveIInv ==
  ASSUME IInv, NEW t \in Threads, Leave(t)
  PROVE  IInv'
<1> USE DEF IInv, Leave, At, Goto
<1>1. /\ pc[t] = "ret" /\ lock = t /\ res[t] \in {Missing, Raise}
      /\ \A i \in DOMAIN office : Whole(office[i])
  BY AllWhole DEF MutualExclusion, InCall, Labels, Writing, RetInv
<1>2. TypeOK' /\ MutualExclusion' /\ LockLeftTaken'
  BY <1>1 DEF TypeOK, Labels, MutualExclusion, LockLeftTaken, InCall
<1>3. CallInv' /\ RegInv' /\ RetInv' /\ NoWildRead'
  BY <1>1 DEF TypeOK, CallInv, RegInv, RetInv, NoWildRead
<1>4. OfficeInv' /\ OneNodePerKey' /\ NodeInv'
  BY <1>1 DEF TypeOK, OfficeInv, OneNodePerKey, Whole, NodeInv
<1> QED
  BY <1>2, <1>3, <1>4

\* Every step of the program, and every step outside it, keeps the invariant.
LEMMA NextIInv == IInv /\ [Next]_vars => IInv'
<1> SUFFICES ASSUME IInv, [Next]_vars PROVE IInv'
  OBVIOUS
<1>1. CASE UNCHANGED vars
  BY <1>1 DEF vars, IInv, TypeOK, MutualExclusion, CallInv, RegInv, RetInv, LockLeftTaken, OfficeInv,
              BeingWritten, Whole, NodeInv, OneNodePerKey, NoWildRead
<1>2. ASSUME NEW t \in Threads, Step(t) PROVE IInv'
  BY <1>2, LockIInv, WalkIInv, CopyIInv, CallFunIInv, TablePutIInv, FillKeyIInv, FillValueIInv,
     FillLengthIInv, UnlockIInv, LeaveIInv DEF Step
<1> QED
  BY <1>1, <1>2, InvokeIInv DEF Next

\* The inductive invariant holds in every reachable state.
THEOREM Invariance == Spec => []IInv
BY InitIInv, NextIInv, PTL DEF Spec

\* Every variable of the pobox model keeps its type.
THEOREM TypeCorrect == Spec => []TypeOK
<1>1. IInv => TypeOK
  BY DEF IInv
<1> QED
  BY <1>1, Invariance, PTL

\* At most one thread is between pthread_spin_lock and the return of a pobox function.
THEOREM LockExcludes == Spec => []MutualExclusion
<1>1. IInv => MutualExclusion
  BY DEF IInv
<1> QED
  BY <1>1, Invariance, PTL

\* No walk meets a node that table_put has linked and not filled, and no torn or freed
\* value is returned by get or handed to the function of an update.
THEOREM NeverWild == Spec => []NoWildRead
<1>1. IInv => NoWildRead
  BY DEF IInv
<1> QED
  BY <1>1, Invariance, PTL

\* table_put never gives a key a second node.
THEOREM UniqueNodes == Spec => []OneNodePerKey
<1>1. IInv => OneNodePerKey
  BY DEF IInv
<1> QED
  BY <1>1, Invariance, PTL

\* The lock outlives a call only behind get's nil for a missing key or update's error.
THEOREM LockLeaks == Spec => []LockLeftTaken
<1>1. IInv => LockLeftTaken
  BY DEF IInv
<1> QED
  BY <1>1, Invariance, PTL

-----------------------------------------------------------------------------
(***************************************************************************)
(* Pobox implements AtomSpec.  On top of IInv the proof needs that the     *)
(* value on its way from the copy to table_put still is what the box       *)
(* holds, or the function of it: that is FlowInv, and with it no update is *)
(* lost.                                                                   *)
(***************************************************************************)

\* thread t, in the midst of an update, knows where the box it updates is
OnBox(t) == node[t] \in DOMAIN office /\ office[node[t]].k = call[t].k

\* What the value buffer holds before the first store.
FlowInv == \A t \in Threads :
  /\ pc[t] = "call" => OnBox(t) /\ reg[t] = office[node[t]].v
  /\ pc[t] = "put" /\ call[t].op = "make" => reg[t] = call[t].v
  /\ pc[t] = "put" /\ call[t].op = "update" =>
       OnBox(t) /\ reg[t] = call[t].f[office[node[t]].v]

-----------------------------------------------------------------------------
\* Only the holder of the lock has a value on its way, and it keeps the boxes as they
\* are until table_put: FlowInv is kept by every step.
LEMMA StepFlow ==
  ASSUME IInv, FlowInv, NEW t \in Threads, Step(t)
  PROVE  FlowInv'
<1> USE DEF IInv, At, Goto
<1>1. \A u \in Threads : u # t /\ pc[t] \in InCall => pc[u] \notin InCall
  BY DEF MutualExclusion
<1>2. CASE Lock(t)
  BY <1>2 DEF Lock, FlowInv, OnBox, TypeOK, MutualExclusion, InCall, Labels
<1>3. CASE Walk(t)
  BY <1>3 DEF Walk, Crash, FlowInv, OnBox, TypeOK
<1>4. CASE Copy(t)
  <2>1. /\ node[t] \in DOMAIN office /\ office[node[t]].k = call[t].k
        /\ Content(office[node[t]]) = office[node[t]].v
    BY <1>4, AllWhole DEF Copy, NodeInv, Content, Whole, InCall, Labels, Writing
  <2> QED
    BY <1>4, <2>1 DEF Copy, FlowInv, OnBox, TypeOK
<1>5. CASE CallFun(t)
  BY <1>5 DEF CallFun, Outcome, FlowInv, OnBox, TypeOK, CallInv, RegInv
<1>6. ASSUME pc[t] \in {"put", "key", "val", "len"}, \A u \in Threads : u # t => pc'[u] = pc[u],
             pc'[t] \notin {"call", "put"}
      PROVE  FlowInv'
  BY <1>1, <1>6 DEF FlowInv, InCall, Labels
<1>7. CASE TablePut(t) /\ pc' # pc
  BY <1>6, <1>7 DEF TablePut, Crash, TypeOK
<1>8. CASE TablePut(t) /\ pc' = pc
  <2>1. ~Strays(call[t].k)
    BY <1>8, CallParts, NoStray DEF TablePut, CallInv, InCall, Labels, Writing
  <2> QED
    BY <1>8, <2>1 DEF TablePut, TypeOK
<1>9. CASE FillKey(t)
  BY <1>6, <1>9 DEF FillKey, TypeOK
<1>10. CASE FillValue(t)
  BY <1>6, <1>10 DEF FillValue, TypeOK
<1>11. CASE FillLength(t)
  BY <1>6, <1>11 DEF FillLength, TypeOK
<1>12. CASE Unlock(t) \/ Leave(t)
  BY <1>12 DEF Unlock, Leave, FlowInv, OnBox, TypeOK
<1> QED
  BY <1>2, <1>3, <1>4, <1>5, <1>7, <1>8, <1>9, <1>10, <1>11, <1>12 DEF Step

\* FlowInv holds at the start and is kept by every step of the program.
LEMMA FlowInvariance == Spec => [](IInv /\ FlowInv)
<1>1. Init => FlowInv
  BY DEF Init, FlowInv
<1>2. IInv /\ FlowInv /\ [Next]_vars => FlowInv'
  <2> SUFFICES ASSUME IInv, FlowInv, [Next]_vars PROVE FlowInv'
    OBVIOUS
  <2>1. ASSUME NEW t \in Threads, NEW c \in Calls, Invoke(t, c) PROVE FlowInv'
    BY <2>1 DEF Invoke, At, Goto, FlowInv, OnBox, IInv, TypeOK
  <2>2. CASE UNCHANGED vars
    BY <2>2 DEF vars, FlowInv, OnBox
  <2> QED
    BY <2>1, <2>2, StepFlow DEF Next
<1> QED
  BY <1>1, <1>2, Invariance, PTL DEF Spec

-----------------------------------------------------------------------------
\* the holder of the lock is storing into the box of k
WritingBox(k) == lock \in Threads /\ pc[lock] \in Writing /\ call[lock].k = k

\* What an observer believes box k to hold: one node per key makes it well defined.
LEMMA BoxOf ==
  ASSUME IInv, NEW k \in Keys
  PROVE  /\ WritingBox(k) => Boxes[k] = reg[lock]
         /\ ~WritingBox(k) => \A i \in DOMAIN office : office[i].k = k => Boxes[k] = office[i].v
         /\ ~WritingBox(k) /\ (\A i \in DOMAIN office : office[i].k # k) => Boxes[k] = Missing
<1>1. k # Junk
  BY KeyAssumption
<1>2. ASSUME NEW i \in DOMAIN office, office[i].k = k
      PROVE  (CHOOSE j \in DOMAIN office : office[j].k = k) = i
  BY <1>1, <1>2 DEF IInv, OneNodePerKey
<1> QED
  BY <1>2 DEF Boxes, WritingBox

\* The same in the next state.
LEMMA BoxOfNext ==
  ASSUME IInv', NEW k \in Keys
  PROVE  /\ WritingBox(k)' => Boxes'[k] = reg'[lock']
         /\ ~WritingBox(k)' => \A i \in DOMAIN office' : office'[i].k = k => Boxes'[k] = office'[i].v
         /\ ~WritingBox(k)' /\ (\A i \in DOMAIN office' : office'[i].k # k) => Boxes'[k] = Missing
<1>1. k # Junk
  BY KeyAssumption
<1>2. ASSUME NEW i \in DOMAIN office', office'[i].k = k
      PROVE  (CHOOSE j \in DOMAIN office' : office'[j].k = k) = i
  BY <1>1, <1>2 DEF IInv, OneNodePerKey
<1> QED
  BY <1>2 DEF Boxes, WritingBox

\* Boxes is a function on the keys, now and in the next state.
LEMMA BoxesDomain ==
  /\ Boxes = [k \in Keys |-> Boxes[k]]
  /\ Boxes' = [k \in Keys |-> Boxes'[k]]
BY DEF Boxes

\* nobody is storing
Quiet == ~(lock \in Threads /\ pc[lock] \in Writing)

\* Boxes change only while somebody stores.
LEMMA BoxesKept ==
  ASSUME Quiet, Quiet', UNCHANGED office
  PROVE  Boxes' = Boxes
BY DEF Boxes, Quiet

\* what AtomSpec may do in one step
AtomStep == Atom!ANext \/ UNCHANGED <<Boxes, Phase, call, Answer>>

\* A call enters: the abstract call becomes pending.
LEMMA InvokeRefines ==
  ASSUME IInv, NEW t \in Threads, NEW c \in Calls, Invoke(t, c)
  PROVE  AtomStep
<1> USE DEF IInv, Invoke, At, Goto
<1>1. Boxes' = Boxes
  BY BoxesKept DEF Quiet, Boxes, TypeOK, Writing
<1>2. Phase[t] = "idle" /\ Phase' = [Phase EXCEPT ![t] = "pending"]
  BY DEF Phase, TypeOK, Writing
<1>3. Answer' = Answer
  BY DEF Answer, TypeOK, Writing
<1> QED
  BY <1>1, <1>2, <1>3 DEF AtomStep, Atom!ANext, Atom!AInvoke

\* Taking the lock is invisible.
LEMMA LockRefines ==
  ASSUME IInv, NEW t \in Threads, Lock(t)
  PROVE  AtomStep
<1> USE DEF IInv, Lock, At, Goto
<1>1. Boxes' = Boxes
  BY BoxesKept, ThreadAssumption DEF Quiet, TypeOK, Writing
<1>2. Phase' = Phase /\ Answer' = Answer
  BY DEF Phase, Answer, TypeOK, Writing
<1> QED
  BY <1>1, <1>2 DEF AtomStep

\* A hit is invisible; a get that misses takes effect there; a crash changes nothing.
LEMMA WalkRefines ==
  ASSUME IInv, NEW t \in Threads, Walk(t)
  PROVE  AtomStep
<1> USE DEF IInv, At, Goto
<1>1. pc[t] = "walk" /\ lock = t /\ call[t] \in Calls /\ call[t].k \in Keys
  BY CallParts DEF Walk, MutualExclusion, InCall, Labels, CallInv
<1>2. Boxes' = Boxes
  BY <1>1, BoxesKept DEF Walk, Crash, Quiet, TypeOK, Writing
<1>3. CASE pc' = pc
  <2>1. res' = res /\ call' = call
    BY <1>1, <1>3 DEF Walk, Crash, TypeOK
  <2>2. Phase' = Phase /\ Answer' = Answer
    BY <1>3, <2>1 DEF Phase, Answer
  <2> QED
    BY <1>2, <2>1, <2>2 DEF AtomStep
<1>4. CASE pc' = [pc EXCEPT ![t] = "copy"] /\ UNCHANGED <<call, res>>
  BY <1>1, <1>2, <1>4 DEF AtomStep, Phase, Answer, TypeOK, Writing
<1>5. CASE /\ Misses(call[t].k) /\ call[t].op = "get"
           /\ res' = [res EXCEPT ![t] = Missing]
           /\ pc' = [pc EXCEPT ![t] = "ret"]
           /\ UNCHANGED call
  <2>1. Boxes[call[t].k] = Missing
    BY <1>1, <1>5, BoxOf DEF Misses, Passes, WritingBox, Writing
  <2>2. Boxes = [Boxes EXCEPT ![call[t].k] = Missing]
    BY <2>1 DEF Boxes
  <2>3. Phase[t] = "pending" /\ Phase' = [Phase EXCEPT ![t] = "done"]
    BY <1>1, <1>5 DEF Phase, TypeOK, Writing
  <2>4. Answer' = [Answer EXCEPT ![t] = Missing]
    BY <1>1, <1>5 DEF Answer, TypeOK, Writing
  <2> QED
    BY <1>2, <1>5, <2>1, <2>2, <2>3, <2>4 DEF AtomStep, Atom!ANext, Atom!AGet, Atom!AEffect
<1> QED
  BY <1>3, <1>4, <1>5 DEF Walk, Crash

\* A get takes effect when it copies the box; for an update the copy is invisible.
LEMMA CopyRefines ==
  ASSUME IInv, NEW t \in Threads, Copy(t)
  PROVE  AtomStep
<1> USE DEF IInv, At, Goto
<1> DEFINE x == Content(office[node[t]])
<1>1. /\ pc[t] = "copy" /\ lock = t /\ call[t] \in Calls /\ call[t].k \in Keys
      /\ UNCHANGED <<call, lock, office>>
  BY CallParts DEF Copy, MutualExclusion, InCall, Labels, CallInv
<1>2. Boxes[call[t].k] = x
  <2>1. x = office[node[t]].v /\ node[t] \in DOMAIN office /\ office[node[t]].k = call[t].k
    BY <1>1, AllWhole DEF NodeInv, Content, Whole, InCall, Labels, Writing
  <2> HIDE DEF x
  <2> QED
    BY <1>1, <2>1, BoxOf DEF WritingBox, Writing
<1>3. Boxes' = Boxes
  BY <1>1, BoxesKept DEF Copy, Quiet, TypeOK, Writing
<1>4. CASE call[t].op = "get"
  <2>1. res' = [res EXCEPT ![t] = x] /\ pc' = [pc EXCEPT ![t] = "unlock"]
    BY <1>4 DEF Copy
  <2> HIDE DEF x
  <2>2. Boxes = [Boxes EXCEPT ![call[t].k] = x]
    BY <1>2 DEF Boxes
  <2>3. Phase[t] = "pending" /\ Phase' = [Phase EXCEPT ![t] = "done"]
    BY <1>1, <2>1 DEF Phase, TypeOK, Writing
  <2>4. Answer' = [Answer EXCEPT ![t] = x]
    BY <1>1, <1>4, <2>1 DEF Answer, TypeOK, Writing
  <2> QED
    BY <1>1, <1>2, <1>3, <1>4, <2>2, <2>3, <2>4 DEF AtomStep, Atom!ANext, Atom!AGet, Atom!AEffect
<1>5. CASE call[t].op # "get"
  BY <1>1, <1>3, <1>5 DEF Copy, AtomStep, Phase, Answer, TypeOK, Writing
<1> QED
  BY <1>4, <1>5

\* An update whose function raises takes effect there and changes nothing.
LEMMA CallFunRefines ==
  ASSUME IInv, FlowInv, NEW t \in Threads, CallFun(t)
  PROVE  AtomStep
<1> USE DEF IInv, At, Goto
<1>1. /\ pc[t] = "call" /\ lock = t /\ call[t] \in Calls /\ call[t].k \in Keys
      /\ call[t].op = "update" /\ reg[t] \in Values
      /\ UNCHANGED <<call, lock, office>>
  BY CallParts DEF CallFun, MutualExclusion, InCall, Labels, CallInv, RegInv
<1>2. Boxes[call[t].k] = reg[t]
  BY <1>1, BoxOf DEF FlowInv, OnBox, WritingBox, Writing
<1>3. Boxes' = Boxes
  BY <1>1, BoxesKept DEF CallFun, Quiet, TypeOK, Writing
<1>4. CASE /\ call[t].f[reg[t]] = Raise
           /\ res' = [res EXCEPT ![t] = Raise]
           /\ pc' = [pc EXCEPT ![t] = "ret"]
  <2>1. Boxes = [Boxes EXCEPT ![call[t].k] = reg[t]]
    BY <1>2 DEF Boxes
  <2>2. Phase[t] = "pending" /\ Phase' = [Phase EXCEPT ![t] = "done"]
    BY <1>1, <1>4 DEF Phase, TypeOK, Writing
  <2>3. Answer' = [Answer EXCEPT ![t] = Raise]
    BY <1>1, <1>4 DEF Answer, TypeOK, Writing
  <2>4. Atom!AUpdate(t)
    BY <1>1, <1>2, <1>3, <1>4, <2>1, <2>2, <2>3 DEF Atom!AUpdate, Atom!AEffect
  <2> QED
    BY <2>4 DEF AtomStep, Atom!ANext
<1>5. CASE pc' \in {[pc EXCEPT ![t] = "put"], [pc EXCEPT ![t] = "reenter"]} /\ UNCHANGED res
  BY <1>1, <1>3, <1>5 DEF AtomStep, Phase, Answer, TypeOK, Writing
<1> QED
  BY <1>1, <1>4, <1>5 DEF CallFun, Outcome

\* The first store of table_put is where make and update take effect: from here to the
\* unlock an observer believes in the value that is being stored.
LEMMA TablePutRefines ==
  ASSUME IInv, IInv', FlowInv, NEW t \in Threads, TablePut(t)
  PROVE  AtomStep
<1> USE DEF IInv, At, Goto
<1> DEFINE k == call[t].k
<1>1. /\ pc[t] = "put" /\ lock = t /\ call[t] \in Calls /\ k \in Keys
      /\ call[t].op \in {"make", "update"} /\ reg[t] \in Values
      /\ ~Strays(k)
  BY CallParts, NoStray DEF TablePut, MutualExclusion, InCall, Labels, Writing, CallInv, RegInv
<1>2. /\ UNCHANGED <<lock, call, reg, res>>
      /\ pc' \in {[pc EXCEPT ![t] = "val"], [pc EXCEPT ![t] = "key"]}
  BY <1>1 DEF TablePut
<1>3. pc'[t] \in Writing /\ \A u \in Threads : u # t => pc'[u] = pc[u]
  BY <1>2 DEF TypeOK, Writing
<1>4. Boxes' = [Boxes EXCEPT ![k] = reg[t]]
  <2>1. Boxes'[k] = reg[t]
    BY <1>1, <1>2, <1>3, BoxOfNext DEF WritingBox
  <2>2. ASSUME NEW j \in Keys, j # k PROVE Boxes'[j] = Boxes[j]
    <3>1. ~WritingBox(j) /\ ~WritingBox(j)'
      BY <1>1, <1>2, <2>2 DEF WritingBox, Writing
    <3>2. CASE \E i \in DOMAIN office : office[i].k = j
      <4>1. PICK i \in DOMAIN office : office[i].k = j
        BY <3>2
      <4>2. i \in DOMAIN office' /\ office'[i] = office[i]
        <5>1. CASE \E n \in DOMAIN office : Finds(k, n) /\ office' = [office EXCEPT ![n].v = Junk]
          BY <2>2, <4>1, <5>1 DEF Finds, TypeOK
        <5>2. CASE office' = Append(office, RawNode)
          BY <4>1, <5>2, AppendProperties DEF TypeOK, RawNode, Node
        <5> QED
          BY <1>1, <5>1, <5>2 DEF TablePut
      <4> QED
        BY <3>1, <4>1, <4>2, BoxOf, BoxOfNext
    <3>3. CASE \A i \in DOMAIN office : office[i].k # j
      <4>1. \A i \in DOMAIN office' : office'[i].k # j
        <5>1. CASE \E n \in DOMAIN office : Finds(k, n) /\ office' = [office EXCEPT ![n].v = Junk]
          <6>1. PICK n \in DOMAIN office : office' = [office EXCEPT ![n] = [office[n] EXCEPT !.v = Junk]]
            BY <5>1
          <6>2. DOMAIN office' = DOMAIN office /\ \A i \in DOMAIN office : office'[i].k = office[i].k
            BY <6>1 DEF TypeOK, Node
          <6> QED
            BY <3>3, <6>2
        <5>2. CASE office' = Append(office, RawNode)
          <6>1. RawNode \in Node /\ RawNode.k = Junk /\ j # Junk
            BY KeyAssumption DEF RawNode, Node
          <6>2. \A i \in DOMAIN office' : \/ i \in DOMAIN office /\ office'[i] = office[i]
                                          \/ office'[i] = RawNode
            BY <5>2, <6>1, AppendProperties DEF TypeOK
          <6> QED
            BY <3>3, <6>1, <6>2
        <5> QED
          BY <1>1, <5>1, <5>2 DEF TablePut
      <4> QED
        BY <3>1, <3>3, <4>1, BoxOf, BoxOfNext
    <3> QED
      BY <3>2, <3>3
  <2>3. [Boxes EXCEPT ![k] = reg[t]] = [j \in Keys |-> IF j = k THEN reg[t] ELSE Boxes[j]]
    BY <1>1, BoxesDomain
  <2>4. \A j \in Keys : Boxes'[j] = IF j = k THEN reg[t] ELSE Boxes[j]
    BY <2>1, <2>2
  <2> HIDE DEF k
  <2> QED
    BY <2>3, <2>4, BoxesDomain
<1>5. Phase[t] = "pending" /\ Phase' = [Phase EXCEPT ![t] = "done"]
  BY <1>1, <1>2, <1>3 DEF Phase, TypeOK, Writing
<1>6. Answer' = [Answer EXCEPT ![t] = True]
  BY <1>1, <1>2, <1>3 DEF Answer, TypeOK, Writing
<1>7. CASE call[t].op = "make"
  <2>1. reg[t] = call[t].v
    BY <1>1, <1>7 DEF FlowInv
  <2>2. Atom!AMake(t)
    BY <1>2, <1>4, <1>5, <1>6, <1>7, <2>1 DEF Atom!AMake, Atom!AEffect
  <2> QED
    BY <2>2 DEF AtomStep, Atom!ANext
<1>8. CASE call[t].op = "update"
  <2>1. OnBox(t) /\ reg[t] = call[t].f[office[node[t]].v]
    BY <1>1, <1>8 DEF FlowInv
  <2>2. office[node[t]].v \in Values
    BY <1>1, <2>1, AllWhole DEF OnBox, Whole, InCall, Labels, Writing
  <2>3. Boxes[k] = office[node[t]].v
    BY <1>1, <2>1, BoxOf DEF OnBox, WritingBox, Writing
  <2>4. Atom!AUpdate(t)
    BY <1>1, <1>2, <1>4, <1>5, <1>6, <1>8, <2>1, <2>2, <2>3 DEF Atom!AUpdate, Atom!AEffect
  <2> QED
    BY <2>4 DEF AtomStep, Atom!ANext
<1> QED
  BY <1>1, <1>7, <1>8

\* The later stores are invisible: they make true what the observer already believes.
LEMMA FillRefines ==
  ASSUME IInv, IInv', NEW t \in Threads, FillKey(t) \/ FillValue(t) \/ FillLength(t)
  PROVE  AtomStep
<1> USE DEF IInv, At, Goto
<1> DEFINE k == call[t].k
<1>1. /\ pc[t] \in Writing /\ lock = t /\ call[t] \in Calls /\ k \in Keys
      /\ call[t].op \in {"make", "update"}
      /\ node[t] \in DOMAIN office
      /\ office[node[t]].k \in {k, Junk}
  BY CallParts DEF FillKey, FillValue, FillLength, MutualExclusion, InCall, Labels, Writing, CallInv, NodeInv
<1>2. /\ UNCHANGED <<lock, call, reg, res, node>>
      /\ pc' \in {[pc EXCEPT ![t] = "val"], [pc EXCEPT ![t] = "len"], [pc EXCEPT ![t] = "unlock"]}
  BY DEF FillKey, FillValue, FillLength
<1>3. /\ DOMAIN office' = DOMAIN office
      /\ \A i \in DOMAIN office : i # node[t] => office'[i] = office[i]
      /\ office'[node[t]].k = k
  <2>1. office[node[t]] \in Node
    BY <1>1 DEF TypeOK
  <2>2. \E n \in Node : n.k = k /\ office' = [office EXCEPT ![node[t]] = n]
    <3>1. CASE FillKey(t)
      <4>1. office' = [office EXCEPT ![node[t]] = [office[node[t]] EXCEPT !.k = k]]
        BY <3>1 DEF FillKey
      <4>2. [office[node[t]] EXCEPT !.k = k] \in Node /\ [office[node[t]] EXCEPT !.k = k].k = k
        BY <1>1, <2>1 DEF Node
      <4> QED
        BY <4>1, <4>2
    <3>2. CASE FillValue(t)
      <4>1. office' = [office EXCEPT ![node[t]] = [office[node[t]] EXCEPT !.v = reg[t]]]
        BY <3>2 DEF FillValue
      <4>2. /\ [office[node[t]] EXCEPT !.v = reg[t]] \in Node
            /\ [office[node[t]] EXCEPT !.v = reg[t]].k = k
        BY <1>1, <2>1, <3>2 DEF FillValue, NodeInv, TypeOK, Node
      <4> QED
        BY <4>1, <4>2
    <3>3. CASE FillLength(t)
      <4>1. office' = [office EXCEPT ![node[t]] = [office[node[t]] EXCEPT !.vlen = reg[t], !.ends = TRUE]]
        BY <3>3 DEF FillLength
      <4>2. /\ [office[node[t]] EXCEPT !.vlen = reg[t], !.ends = TRUE] \in Node
            /\ [office[node[t]] EXCEPT !.vlen = reg[t], !.ends = TRUE].k = k
        BY <1>1, <2>1, <3>3 DEF FillLength, NodeInv, TypeOK, Node
      <4> QED
        BY <4>1, <4>2
    <3> QED
      BY <3>1, <3>2, <3>3
  <2> QED
    BY <1>1, <2>2, StoreNode DEF TypeOK
<1>4. Boxes' = Boxes
  <2>1. Boxes[k] = reg[t]
    BY <1>1, BoxOf DEF WritingBox
  <2>2. Boxes'[k] = reg[t]
    <3>1. CASE pc'[t] \in Writing
      BY <1>1, <1>2, <3>1, BoxOfNext DEF WritingBox
    <3>2. CASE pc'[t] \notin Writing
      <4>1. FillLength(t)
        BY <3>2 DEF FillKey, FillValue, TypeOK, Writing
      <4>2. office'[node[t]].v = reg[t]
        BY <1>1, <4>1 DEF FillLength, NodeInv, TypeOK, Node
      <4> QED
        BY <1>1, <1>2, <1>3, <3>2, <4>2, BoxOfNext DEF WritingBox
    <3> QED
      BY <3>1, <3>2
  <2>3. ASSUME NEW j \in Keys, j # k PROVE Boxes'[j] = Boxes[j]
    <3>1. ~WritingBox(j) /\ ~WritingBox(j)' /\ j # Junk
      BY <1>1, <1>2, <2>3, KeyAssumption DEF WritingBox
    <3>2. \A i \in DOMAIN office : (office'[i].k = j) = (office[i].k = j)
      BY <1>1, <1>3, <2>3, <3>1
    <3>3. CASE \E i \in DOMAIN office : office[i].k = j
      <4>1. PICK i \in DOMAIN office : office[i].k = j
        BY <3>3
      <4>2. office'[i] = office[i] /\ office'[i].k = j /\ i \in DOMAIN office'
        BY <1>1, <1>3, <2>3, <3>1, <4>1
      <4> QED
        BY <3>1, <4>1, <4>2, BoxOf, BoxOfNext
    <3>4. CASE \A i \in DOMAIN office : office[i].k # j
      BY <1>3, <3>1, <3>2, <3>4, BoxOf, BoxOfNext
    <3> QED
      BY <3>3, <3>4
  <2>4. \A j \in Keys : Boxes'[j] = Boxes[j]
    BY <2>1, <2>2, <2>3
  <2> QED
    BY <2>4, BoxesDomain
<1>5. Phase' = Phase /\ Answer' = Answer
  BY <1>1, <1>2 DEF Phase, Answer, TypeOK, Writing
<1> QED
  BY <1>2, <1>4, <1>5 DEF AtomStep

\* Leaving a call, with or without the unlock, is the abstract return.
LEMMA ReturnRefines ==
  ASSUME IInv, NEW t \in Threads, Unlock(t) \/ Leave(t)
  PROVE  AtomStep
<1> USE DEF IInv, At, Goto
<1>1. /\ pc[t] \in {"unlock", "ret"} /\ lock = t /\ pc' = [pc EXCEPT ![t] = "idle"]
      /\ UNCHANGED <<call, office>> /\ lock' \in {t, NoThread}
  BY DEF Unlock, Leave, MutualExclusion, InCall, Labels
<1>2. Boxes' = Boxes
  BY <1>1, BoxesKept, ThreadAssumption DEF Quiet, TypeOK, Writing
<1>3. Phase[t] = "done" /\ Phase' = [Phase EXCEPT ![t] = "idle"]
  BY <1>1 DEF Phase, TypeOK, Writing
<1>4. Answer' = Answer
  BY <1>1 DEF Unlock, Leave, Answer, TypeOK, Writing
<1> QED
  BY <1>1, <1>2, <1>3, <1>4 DEF AtomStep, Atom!ANext, Atom!AReturn

\* Every step of Pobox is a step of AtomSpec or changes nothing it can see.
LEMMA NextRefines == IInv /\ IInv' /\ FlowInv /\ [Next]_vars => [Atom!ANext]_(Atom!avars)
<1> SUFFICES ASSUME IInv, IInv', FlowInv, [Next]_vars PROVE AtomStep
  BY DEF AtomStep, Atom!avars
<1>1. CASE UNCHANGED vars
  BY <1>1 DEF vars, AtomStep, Boxes, Phase, Answer
<1>2. ASSUME NEW t \in Threads, Step(t) PROVE AtomStep
  BY <1>2, LockRefines, WalkRefines, CopyRefines, CallFunRefines, TablePutRefines, FillRefines,
     ReturnRefines DEF Step
<1> QED
  BY <1>1, <1>2, InvokeRefines DEF Next

\* Pobox starts with the boxes of AtomSpec.
LEMMA InitRefines == Init => Atom!AInit
<1> SUFFICES ASSUME Init PROVE Atom!AInit
  OBVIOUS
<1>1. Phase = [t \in Threads |-> "idle"] /\ Answer = [t \in Threads |-> Missing]
  BY DEF Init, Phase, Answer, Writing
<1>2. IInv /\ lock = NoThread
  BY InitIInv DEF Init
<1>3. ASSUME NEW k \in Keys PROVE Boxes[k] = BoxesAtStart[k]
  <2>1. ~WritingBox(k)
    BY <1>2, ThreadAssumption DEF WritingBox
  <2>2. CASE \E i \in DOMAIN Premade : Premade[i][1] = k
    <3>1. PICK i \in DOMAIN Premade : Premade[i][1] = k
      BY <2>2
    <3>2. BoxesAtStart[k] = Premade[i][2]
      BY <3>1, PremadeAssumption DEF BoxesAtStart
    <3>3. i + 1 \in DOMAIN office /\ office[i + 1] = NewNode(Premade[i][1], Premade[i][2])
      BY StartNodes
    <3>4. office[i + 1].k = k /\ office[i + 1].v = Premade[i][2]
      BY <3>1, <3>3 DEF NewNode
    <3> QED
      BY <1>2, <2>1, <3>2, <3>3, <3>4, BoxOf
  <2>3. CASE \A i \in DOMAIN Premade : Premade[i][1] # k
    <3>1. BoxesAtStart[k] = Missing
      BY <2>3 DEF BoxesAtStart
    <3>2. \A i \in DOMAIN office : office[i].k # k
      BY <2>3, StartNodes, KeyAssumption DEF NewNode, Sentinel
    <3> QED
      BY <1>2, <2>1, <3>1, <3>2, BoxOf
  <2> QED
    BY <2>2, <2>3
<1>4. Boxes = BoxesAtStart
  <2>1. BoxesAtStart = [k \in Keys |-> BoxesAtStart[k]]
    BY DEF BoxesAtStart
  <2> QED
    BY <1>3, <2>1, BoxesDomain
<1> QED
  BY <1>1, <1>4 DEF Init, Atom!AInit

\* The list behind the spinlock is a map of boxes with atomic make, get and update.
THEOREM Refinement == Spec => AtomicBoxes
BY InitRefines, NextRefines, FlowInvariance, PTL DEF Spec, AtomicBoxes, Atom!ASpec
=============================================================================
