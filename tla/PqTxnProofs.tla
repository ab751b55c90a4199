---------------------------- MODULE PqTxnProofs -----------------------------
(***************************************************************************)
(* Proofs about PqTxn, for any bounds, any nesting and any failures.       *)
(*                                                                         *)
(* The properties speak of a transaction that is over, the code acts on    *)
(* one in progress.  Own connects the two: the statements of the innermost *)
(* call, if its body has not nested another, are in the open transaction   *)
(* and not durable, or lost, or (once an error of "commit" is on its way)  *)
(* all durable.  Past says the same of the call that ended last: only one  *)
(* that was left by a signal may still have statements in the open         *)
(* transaction.  Discarded says it of the attempts that were retried.      *)
(***************************************************************************)
EXTENDS PqTxn, Integers, SequenceTheorems, TLAPS

Old(n) == 1 .. n

\* Only an open transaction has work in it, and only on a working connection.
Tight(d) ==
  /\ d.trans # "intrans" => d.work = {}
  /\ d.conn # "ok" => d.trans = "idle"

Server == Tight(db) /\ db.saved \cup db.work \subseteq Old(stmts)

\* A call with another one inside it is marked.
Inner == \A i \in 1 .. Len(stack) - 1 : stack[i].nest

InBody == {"body", "commit", "rollback", "abort"}

\* Where the statements of a call in progress are.
Own(f, d, n) == ~f.nest =>
  /\ f.mine \subseteq Old(n)
  /\ f.pc = "begin" => f.mine = {}
  /\ f.pc \in InBody => /\ f.mine \cap d.saved = {}
                        /\ d.conn = "ok" => d.trans # "idle"
                        /\ d.conn = "ok" /\ ~f.bad => d.trans = "intrans"
  /\ d.trans = "intrans" => f.mine \subseteq d.work
  /\ f.pc = "catch" => \/ f.mine \cap d.saved = {}
                       \/ f.err = "torn" /\ d.conn = "bad" /\ f.mine \subseteq d.saved
  /\ f.pc = "catch" /\ f.err = "40001" => f.mine \cap d.saved = {} /\ d.trans # "intrans"

OwnTop == stack # <<>> => Own(Top, db, stmts)

\* The ends of a call that must leave nothing behind.
Undone == {"raised", "rolled", "signalled"}

\* Where the statements of the call that ended last are.
PastOf(f, d, n) == ~f.nest =>
  /\ f.mine \subseteq Old(n)
  /\ \/ f.mine \cap d.work = {}
     \/ f.how = "left" /\ f.mine \subseteq d.work /\ f.mine \cap d.saved = {}
  /\ f.mine \cap d.saved = {} \/ f.mine \subseteq d.saved
  /\ f.how = "value" /\ ~f.bad => f.mine \subseteq d.saved
  /\ f.how \in Undone /\ f.err # "torn" => f.mine \cap d.saved = {}

Past == PastOf(last, db, stmts)

Discarded == retried \subseteq Old(stmts) /\ retried \cap (db.work \cup db.saved) = {}

Clean == stack = <<>> /\ last.how # "left" => db.trans = "idle"

IInv == TypeOK /\ Server /\ Inner /\ OwnTop /\ Past /\ Discarded /\ Clean

-----------------------------------------------------------------------------
(* What the server answers. *)

\* The states that the answers are made of.
LEMMA States ==
  ASSUME NEW d \in Db
  PROVE /\ d.conn \in {"ok", "bad", "closed"} /\ d.trans \in {"idle", "intrans", "inerror"}
        /\ /\ Idle(d) \in Db /\ Idle(d).conn = d.conn /\ Idle(d).trans = "idle"
           /\ Idle(d).work = {} /\ Idle(d).saved = d.saved
        /\ /\ Failed(d) \in Db /\ Failed(d).conn = d.conn /\ Failed(d).trans = "inerror"
           /\ Failed(d).work = {} /\ Failed(d).saved = d.saved
        /\ /\ Cut(d) \in Db /\ Cut(d).conn = "bad" /\ Cut(d).trans = "idle"
           /\ Cut(d).work = {} /\ Cut(d).saved = d.saved
        /\ /\ Durable(d) \in Db /\ Durable(d).conn = d.conn /\ Durable(d).trans = d.trans
           /\ Durable(d).work = d.work /\ Durable(d).saved = d.saved \cup d.work
<1>1. /\ Idle(d) \in Db /\ Idle(d).conn = d.conn /\ Idle(d).trans = "idle"
      /\ Idle(d).work = {} /\ Idle(d).saved = d.saved
  BY DEF Idle, Db
<1>2. /\ Failed(d) \in Db /\ Failed(d).conn = d.conn /\ Failed(d).trans = "inerror"
      /\ Failed(d).work = {} /\ Failed(d).saved = d.saved
  BY DEF Failed, Db
<1>3. /\ Cut(d) \in Db /\ Cut(d).conn = "bad" /\ Cut(d).trans = "idle"
      /\ Cut(d).work = {} /\ Cut(d).saved = d.saved
  BY DEF Cut, Idle, Db
<1>4. /\ Durable(d) \in Db /\ Durable(d).conn = d.conn /\ Durable(d).trans = d.trans
      /\ Durable(d).work = d.work /\ Durable(d).saved = d.saved \cup d.work
  BY DEF Durable, Db
<1>5. d.conn \in {"ok", "bad", "closed"} /\ d.trans \in {"idle", "intrans", "inerror"}
  BY DEF Db
<1> QED
  BY <1>1, <1>2, <1>3, <1>4, <1>5

\* "begin" opens a transaction or fails, and makes nothing durable.
LEMMA BeginAnswer ==
  ASSUME NEW d \in Db, Tight(d), NEW r \in Begin(d)
  PROVE /\ r[1] \in {"done", "25P02", "other", "lost"} /\ r[2] \in Db /\ Tight(r[2])
        /\ r[2].saved = d.saved /\ r[2].work \in {{}, d.work}
        /\ r[1] = "done" => r[2].conn = "ok" /\ r[2].trans = "intrans"
<1> DEFINE e == [d EXCEPT !.trans = "intrans"]
<1>1. e \in Db /\ e.conn = d.conn /\ e.trans = "intrans" /\ e.work = d.work /\ e.saved = d.saved
  BY DEF Db
<1>2. \/ r = <<"lost", d>> \/ r = <<"lost", Cut(d)>> \/ r = <<"25P02", d>>
      \/ r = <<"other", d>>
      \/ d.conn = "ok" /\ r = <<"other", Failed(d)>>
      \/ d.conn = "ok" /\ r = <<"done", e>>
  BY DEF Begin, Exec
<1> HIDE DEF e
<1>3. CASE r = <<"lost", d>> \/ r = <<"25P02", d>> \/ r = <<"other", d>>
  BY <1>3
<1>6. CASE d.conn = "ok" /\ r = <<"other", Failed(d)>>
  BY <1>6, States DEF Tight
<1>4. CASE r = <<"lost", Cut(d)>>
  BY <1>4, States DEF Tight
<1>5. CASE d.conn = "ok" /\ r = <<"done", e>>
  BY <1>1, <1>5 DEF Tight
<1> QED
  BY <1>2, <1>3, <1>4, <1>5, <1>6

\* A statement is in the transaction, durable at once if there is none, or it fails
\* and the transaction with it.
LEMMA StatementAnswer ==
  ASSUME NEW d \in Db, Tight(d), NEW s \in Stmts, NEW r \in Statement(d, s)
  PROVE /\ r[1] \in Errors \cup {"done"} /\ r[2] \in Db /\ Tight(r[2])
        /\ r[1] = "done" =>
             /\ r[2].conn = "ok" /\ r[2].trans = d.trans
             /\ \/ /\ d.trans = "intrans"
                   /\ r[2].work = d.work \cup {s} /\ r[2].saved = d.saved
                \/ /\ d.trans = "idle"
                   /\ r[2].work = d.work /\ r[2].saved = d.saved \cup {s}
        /\ r[1] # "done" =>
             /\ r[2].saved = d.saved /\ r[2].work = {} /\ r[2].trans # "intrans"
             /\ r[2].conn = "ok" => d.conn = "ok" /\ (d.trans # "idle" => r[2].trans # "idle")
<1> DEFINE e == [d EXCEPT !.work = @ \cup {s}]
           f == [d EXCEPT !.saved = @ \cup {s}]
<1>1. /\ e \in Db /\ e.conn = d.conn /\ e.trans = d.trans /\ e.work = d.work \cup {s} /\ e.saved = d.saved
      /\ f \in Db /\ f.conn = d.conn /\ f.trans = d.trans /\ f.work = d.work /\ f.saved = d.saved \cup {s}
  BY DEF Db
<1>2. \/ d.conn # "ok" /\ r = <<"lost", d>>
      \/ d.conn = "ok" /\ r = <<"lost", Cut(d)>>
      \/ d.conn = "ok" /\ d.trans = "inerror" /\ r = <<"25P02", d>>
      \/ d.conn = "ok" /\ d.trans = "intrans" /\ r = <<"done", e>>
      \/ d.conn = "ok" /\ d.trans = "intrans" /\ r \in {<<"40001", Failed(d)>>, <<"other", Failed(d)>>}
      \/ d.conn = "ok" /\ d.trans = "idle" /\ r = <<"done", f>>
      \/ d.conn = "ok" /\ d.trans = "idle" /\ r = <<"other", d>>
  BY States DEF Statement, Exec
<1> HIDE DEF e, f
<1> USE DEF Tight, Errors
<1>3. CASE d.conn # "ok" /\ r = <<"lost", d>>
  BY <1>3
<1>4. CASE d.conn = "ok" /\ r = <<"lost", Cut(d)>>
  BY <1>4, States
<1>5. CASE d.conn = "ok" /\ d.trans = "inerror" /\ r = <<"25P02", d>>
  BY <1>5
<1>6. CASE d.conn = "ok" /\ d.trans = "intrans" /\ r = <<"done", e>>
  BY <1>1, <1>6
<1>7. CASE d.conn = "ok" /\ d.trans = "intrans" /\ r \in {<<"40001", Failed(d)>>, <<"other", Failed(d)>>}
  BY <1>7, States
<1>8. CASE d.conn = "ok" /\ d.trans = "idle" /\ r = <<"done", f>>
  BY <1>1, <1>8
<1>9. CASE d.conn = "ok" /\ d.trans = "idle" /\ r = <<"other", d>>
  BY <1>9
<1> QED
  BY <1>2, <1>3, <1>4, <1>5, <1>6, <1>7, <1>8, <1>9

\* "commit" ends the transaction; only a lost connection leaves its outcome open.
LEMMA CommitAnswer ==
  ASSUME NEW d \in Db, Tight(d), NEW r \in Commit(d)
  PROVE /\ r[1] \in Errors \cup {"done"} /\ r[2] \in Db /\ Tight(r[2])
        /\ r[2].trans = "idle" /\ r[2].work = {}
        /\ \/ r[2].saved = d.saved
           \/ d.trans = "intrans" /\ r[2].saved = d.saved \cup d.work
        /\ r[1] = "done" => d.conn = "ok" /\ (d.trans = "intrans" => r[2].saved = d.saved \cup d.work)
        /\ r[1] \notin {"done", "torn"} => r[2].saved = d.saved
        /\ r[1] = "torn" => r[2].conn = "bad"
<1>1. \/ d.conn # "ok" /\ r = <<"lost", d>>
      \/ d.conn = "ok" /\ r = <<"torn", Cut(d)>>
      \/ d.conn = "ok" /\ d.trans = "intrans" /\ r = <<"done", Idle(Durable(d))>>
      \/ d.conn = "ok" /\ d.trans = "intrans" /\ r = <<"torn", Cut(Durable(d))>>
      \/ d.conn = "ok" /\ d.trans = "intrans" /\ r \in {<<"40001", Idle(d)>>, <<"other", Idle(d)>>}
      \/ d.conn = "ok" /\ d.trans # "intrans" /\ r = <<"done", Idle(d)>>
  BY DEF Commit
<1> USE DEF Tight, Errors
<1>2. CASE d.conn # "ok" /\ r = <<"lost", d>>
  BY <1>2
<1>3. CASE d.conn = "ok" /\ r = <<"torn", Cut(d)>>
  BY <1>3, States
<1>4. CASE d.conn = "ok" /\ d.trans = "intrans" /\ r = <<"done", Idle(Durable(d))>>
  <2>1. Durable(d) \in Db /\ Durable(d).conn = "ok" /\ Durable(d).saved = d.saved \cup d.work
    BY <1>4, States
  <2>2. /\ Idle(Durable(d)) \in Db /\ Idle(Durable(d)).trans = "idle" /\ Idle(Durable(d)).work = {}
        /\ Idle(Durable(d)).saved = d.saved \cup d.work
    BY <2>1, States
  <2> QED
    BY <1>4, <2>2
<1>5. CASE d.conn = "ok" /\ d.trans = "intrans" /\ r = <<"torn", Cut(Durable(d))>>
  <2>1. Durable(d) \in Db /\ Durable(d).conn = "ok" /\ Durable(d).saved = d.saved \cup d.work
    BY <1>5, States
  <2>2. /\ Cut(Durable(d)) \in Db /\ Cut(Durable(d)).trans = "idle" /\ Cut(Durable(d)).work = {}
        /\ Cut(Durable(d)).saved = d.saved \cup d.work /\ Cut(Durable(d)).conn = "bad"
    BY <2>1, States
  <2> QED
    BY <1>5, <2>2
<1>6. CASE d.conn = "ok" /\ d.trans = "intrans" /\ r \in {<<"40001", Idle(d)>>, <<"other", Idle(d)>>}
  BY <1>6, States
<1>7. CASE d.conn = "ok" /\ d.trans # "intrans" /\ r = <<"done", Idle(d)>>
  BY <1>7, States
<1> QED
  BY <1>1, <1>2, <1>3, <1>4, <1>5, <1>6, <1>7

\* "rollback" ends the transaction and makes nothing durable.
LEMMA RollbackAnswer ==
  ASSUME NEW d \in Db, Tight(d), NEW r \in Rollback(d)
  PROVE /\ r[1] \in {"done", "lost"} /\ r[2] \in Db /\ Tight(r[2])
        /\ r[2].trans = "idle" /\ r[2].work = {} /\ r[2].saved = d.saved
        /\ r[1] = "lost" => r[2].conn # "ok"
<1>1. \/ d.conn # "ok" /\ r = <<"lost", d>>
      \/ d.conn = "ok" /\ r = <<"lost", Cut(d)>>
      \/ d.conn = "ok" /\ r = <<"done", Idle(d)>>
  BY DEF Rollback, Exec
<1>2. CASE d.conn # "ok" /\ r = <<"lost", d>>
  BY <1>2 DEF Tight
<1>3. CASE d.conn = "ok" /\ r = <<"lost", Cut(d)>>
  BY <1>3, States DEF Tight
<1>4. CASE d.conn = "ok" /\ r = <<"done", Idle(d)>>
  BY <1>4, States DEF Tight
<1> QED
  BY <1>1, <1>2, <1>3, <1>4

-----------------------------------------------------------------------------
(* The stack of calls. *)

\* The innermost call is a frame, and the calls around it are the rest.
LEMMA TopOuter ==
  ASSUME stack \in Seq(Frame), stack # <<>>
  PROVE /\ Len(stack) \in Nat \ {0} /\ Top \in Frame
        /\ Outer \in Seq(Frame) /\ Len(Outer) = Len(stack) - 1
        /\ \A i \in 1 .. Len(stack) - 1 : Outer[i] = stack[i]
<1>1. Len(stack) \in Nat \ {0} /\ Top \in Frame
  BY EmptySeq, LenProperties DEF Top
<1>2. \A i \in 1 .. Len(stack) - 1 : stack[i] \in Frame
  BY <1>1, LenProperties
<1> DEFINE k == Len(stack) - 1
<1> HIDE DEF k
<1>3. k \in Nat /\ 1 \in Int /\ \A i \in 1 .. k : stack[i] \in Frame
  BY <1>1, <1>2 DEF k
<1>4. /\ SubSeq(stack, 1, k) \in Seq(Frame)
      /\ Len(SubSeq(stack, 1, k)) = IF 1 <= k THEN k - 1 + 1 ELSE 0
      /\ \A i \in 1 .. k - 1 + 1 : SubSeq(stack, 1, k)[i] = stack[1 + i - 1]
  BY <1>3, SubSeqProperties
<1>5. /\ Len(SubSeq(stack, 1, k)) = k
      /\ \A i \in 1 .. k : SubSeq(stack, 1, k)[i] = stack[i]
  BY <1>3, <1>4
<1> QED
  BY <1>1, <1>4, <1>5 DEF Outer, k

\* Replacing the innermost frame.
LEMMA SetFrame ==
  ASSUME stack \in Seq(Frame), stack # <<>>, Inner, NEW f \in Frame, Set(f)
  PROVE stack' \in Seq(Frame) /\ stack' # <<>> /\ Top' = f /\ Inner'
<1>1. stack' = Append(Outer, f)
  BY DEF Set
<1>2. /\ stack' \in Seq(Frame) /\ Len(stack') = Len(stack) /\ stack'[Len(stack)] = f
      /\ \A i \in 1 .. Len(stack) - 1 : stack'[i] = stack[i]
  BY <1>1, TopOuter, AppendProperties
<1>3. stack' # <<>> /\ Top' = f
  BY <1>2, TopOuter, EmptySeq DEF Top
<1> QED
  BY <1>2, <1>3 DEF Inner

\* How a call ends: for its caller, or into the body of a call that is marked.
LEMMA FinishFrame ==
  ASSUME stack \in Seq(Frame), stack # <<>>, Inner,
         NEW how \in Ends, NEW e \in Errors \cup {"none"}, Finish(how, e)
  PROVE \/ /\ stack' = <<>>
           /\ last' = [how |-> how, mine |-> Top.mine, bad |-> Top.bad, owed |-> Top.owed,
                       nest |-> Top.nest, err |-> e]
           /\ last' \in End
        \/ /\ stack' \in Seq(Frame) /\ stack' # <<>> /\ Inner' /\ Top'.nest
           /\ UNCHANGED last
<1>1. CASE Len(stack) = 1
  <2>1. Top \in Frame
    BY TopOuter
  <2> QED
    BY <1>1, <2>1 DEF Finish, Frame, End
<1>2. CASE Len(stack) # 1
  <2> DEFINE n == Len(stack) - 1
  <2>1. n \in Nat \ {0} /\ Len(Outer) = n /\ Outer \in Seq(Frame) /\ \A i \in 1 .. n : Outer[i] = stack[i]
    BY <1>2, TopOuter
  <2>2. Outer[n] \in Frame /\ Outer[n].nest
    BY <2>1, LenProperties DEF Inner
  <2>3. PICK g : /\ g \in {Outer[n], [Outer[n] EXCEPT !.pc = "catch", !.err = e],
                           [Outer[n] EXCEPT !.bad = TRUE], [Outer[n] EXCEPT !.pc = "abort"]}
                 /\ stack' = [Outer EXCEPT ![n] = g] /\ UNCHANGED last
    BY <1>2, <2>1 DEF Finish, Ends
  <2>4. g \in Frame /\ g.nest
    BY <2>2, <2>3 DEF Frame, Pcs
  <2>5. /\ stack' \in Seq(Frame) /\ Len(stack') = n /\ stack'[n] = g
        /\ \A i \in 1 .. n - 1 : stack'[i] = Outer[i]
    BY <2>1, <2>3, <2>4, ExceptSeq
  <2>6. stack' # <<>> /\ Top' = g
    BY <2>1, <2>5, EmptySeq DEF Top
  <2>7. Inner'
    <3>1. \A i \in 1 .. n - 1 : stack'[i].nest
      <4> SUFFICES ASSUME NEW i \in 1 .. n - 1 PROVE stack'[i].nest
        OBVIOUS
      <4>1. i \in 1 .. n
        BY <2>1
      <4> QED
        BY <2>1, <2>5, <4>1 DEF Inner
    <3> QED
      BY <2>5, <3>1 DEF Inner
  <2> QED
    BY <2>3, <2>4, <2>5, <2>6, <2>7
<1> QED
  BY <1>1, <1>2

-----------------------------------------------------------------------------
\* What a step does to the server: a statement enters the transaction or is durable at
\* once, or the transaction ends, as a whole.
Moves(d, e, N) ==
  \/ e.work = {} /\ e.saved \in {d.saved, d.saved \cup d.work}
  \/ e.work \in {d.work, d.work \cup N} /\ e.saved \in {d.saved, d.saved \cup N}

\* What is said of the past stays true when the open transaction becomes durable or is
\* dropped, and when a new statement is sent.
LEMMA PastStays ==
  ASSUME TypeOK, Server, Past, Discarded, NEW N,
         \/ N = {} /\ stmts' = stmts
         \/ N = {stmts + 1} /\ stmts' = stmts + 1,
         Moves(db, db', N)
  PROVE /\ db'.saved \cup db'.work \subseteq Old(stmts')
        /\ PastOf(last, db', stmts')
        /\ retried \subseteq Old(stmts') /\ retried \cap (db'.work \cup db'.saved) = {}
<1>1. stmts \in Nat
  BY DEF TypeOK
<1>2. Old(stmts) \cup N \subseteq Old(stmts') /\ Old(stmts) \cap N = {}
  BY <1>1 DEF Old
<1>3. CASE db'.work = {} /\ db'.saved \in {db.saved, db.saved \cup db.work}
  <2>1. /\ db'.saved \cup db'.work \subseteq Old(stmts')
        /\ retried \subseteq Old(stmts') /\ retried \cap (db'.work \cup db'.saved) = {}
    BY <1>2, <1>3 DEF Server, Discarded
  <2>2. PastOf(last, db', stmts')
    <3> SUFFICES ASSUME ~last.nest PROVE PastOf(last, db', stmts')
      BY DEF PastOf
    <3>1. last.mine \subseteq Old(stmts') /\ last.mine \cap db'.work = {}
      BY <1>2, <1>3 DEF Past, PastOf
    <3>2. CASE last.mine \cap db.work = {}
      <4>1. last.mine \cap db'.saved = last.mine \cap db.saved /\ db.saved \subseteq db'.saved
        BY <1>3, <3>2
      <4> QED
        BY <3>1, <4>1 DEF Past, PastOf
    <3>3. CASE last.how = "left" /\ last.mine \subseteq db.work /\ last.mine \cap db.saved = {}
      <4>1. last.mine \cap db'.saved = {} \/ last.mine \subseteq db'.saved
        BY <1>3, <3>3
      <4> QED
        BY <3>1, <3>3, <4>1 DEF PastOf, Undone
    <3> QED
      BY <3>2, <3>3 DEF Past, PastOf
  <2> QED
    BY <2>1, <2>2
<1>4. CASE db'.work \in {db.work, db.work \cup N} /\ db'.saved \in {db.saved, db.saved \cup N}
  <2>1. /\ db'.saved \cup db'.work \subseteq Old(stmts')
        /\ retried \subseteq Old(stmts') /\ retried \cap (db'.work \cup db'.saved) = {}
    BY <1>2, <1>4 DEF Server, Discarded
  <2>2. PastOf(last, db', stmts')
    <3> SUFFICES ASSUME ~last.nest PROVE PastOf(last, db', stmts')
      BY DEF PastOf
    <3>1. last.mine \subseteq Old(stmts) /\ last.mine \cap N = {} /\ last.mine \subseteq Old(stmts')
      BY <1>2 DEF Past, PastOf
    <3>2. last.mine \cap db'.saved = last.mine \cap db.saved /\ db.saved \subseteq db'.saved
      BY <1>4, <3>1
    <3>3. last.mine \cap db'.work = last.mine \cap db.work /\ db.work \subseteq db'.work
      BY <1>4, <3>1
    <3> QED
      BY <3>1, <3>2, <3>3 DEF Past, PastOf
  <2> QED
    BY <2>1, <2>2
<1> QED
  BY <1>3, <1>4 DEF Moves

\* A step that leaves the innermost call in progress.
LEMMA SetStep ==
  ASSUME IInv, stack # <<>>, NEW f \in Frame, Set(f), Own(f, db', stmts'),
         UNCHANGED <<last, retried, txns>>, db' \in Db, Tight(db'),
         stmts' \in 0 .. MaxStmts, fails' \in 0 .. MaxFails, NEW N,
         \/ N = {} /\ stmts' = stmts
         \/ N = {stmts + 1} /\ stmts' = stmts + 1,
         Moves(db, db', N)
  PROVE IInv'
<1>1. TypeOK /\ Server /\ Inner /\ Past /\ Discarded
  BY DEF IInv
<1>2. stack' \in Seq(Frame) /\ stack' # <<>> /\ Top' = f /\ Inner'
  BY <1>1, SetFrame DEF TypeOK
<1>3. TypeOK'
  BY <1>1, <1>2 DEF TypeOK
<1>4. Server' /\ Past' /\ Discarded'
  <2>1. /\ db'.saved \cup db'.work \subseteq Old(stmts')
        /\ PastOf(last, db', stmts')
        /\ retried \subseteq Old(stmts') /\ retried \cap (db'.work \cup db'.saved) = {}
    BY <1>1, PastStays
  <2> QED
    BY <2>1 DEF Server, Past, Discarded
<1>5. OwnTop' /\ Clean'
  BY <1>2 DEF OwnTop, Clean
<1> QED
  BY <1>2, <1>3, <1>4, <1>5 DEF IInv

\* A step that ends the innermost call.
LEMMA FinishStep ==
  ASSUME IInv, stack # <<>>, NEW how \in Ends, NEW e \in Errors \cup {"none"}, Finish(how, e),
         UNCHANGED <<retried, stmts, txns>>, fails' \in 0 .. MaxFails,
         db' \in Db, Tight(db'), db'.trans = "idle", db'.work = {},
         db'.saved \in {db.saved, db.saved \cup db.work},
         ~Top.nest =>
           /\ Top.mine \cap db'.saved = {} \/ Top.mine \subseteq db'.saved
           /\ how = "value" /\ ~Top.bad => Top.mine \subseteq db'.saved
           /\ how \in Undone /\ e # "torn" => Top.mine \cap db'.saved = {}
  PROVE IInv'
<1>1. TypeOK /\ Server /\ Inner /\ OwnTop /\ Past /\ Discarded
  BY DEF IInv
<1>2. /\ db'.saved \cup db'.work \subseteq Old(stmts')
      /\ PastOf(last, db', stmts')
      /\ retried \subseteq Old(stmts') /\ retried \cap (db'.work \cup db'.saved) = {}
  <2> DEFINE N == {}
  <2>1. N = {} /\ stmts' = stmts /\ Moves(db, db', N)
    BY DEF Moves
  <2> HIDE DEF N
  <2> QED
    BY <1>1, <2>1, PastStays
<1>3. Server' /\ Discarded'
  BY <1>2 DEF Server, Discarded
<1> DEFINE end == [how |-> how, mine |-> Top.mine, bad |-> Top.bad, owed |-> Top.owed,
                   nest |-> Top.nest, err |-> e]
<1>4. CASE stack' = <<>> /\ last' = end /\ last' \in End
  <2>1. stack' \in Seq(Frame) /\ Len(stack') = 0
    BY <1>4, EmptySeq
  <2>2. TypeOK'
    BY <1>1, <1>4, <2>1 DEF TypeOK
  <2>3. /\ end.how = how /\ end.mine = Top.mine /\ end.bad = Top.bad
        /\ end.nest = Top.nest /\ end.err = e
    OBVIOUS
  <2> HIDE DEF end
  <2>4. ~Top.nest => Top.mine \subseteq Old(stmts)
    BY <1>1 DEF OwnTop, Own
  <2>5. PastOf(end, db', stmts')
    BY <2>3, <2>4 DEF PastOf
  <2>6. Past'
    BY <1>4, <2>5 DEF Past
  <2>7. Inner' /\ OwnTop' /\ Clean'
    BY <1>4, <2>1 DEF Inner, OwnTop, Clean
  <2> QED
    BY <1>3, <2>2, <2>6, <2>7 DEF IInv
<1>5. CASE stack' \in Seq(Frame) /\ stack' # <<>> /\ Inner' /\ Top'.nest /\ UNCHANGED last
  <2>1. TypeOK'
    BY <1>1, <1>5 DEF TypeOK
  <2>2. Past' /\ OwnTop' /\ Clean'
    BY <1>2, <1>5 DEF Past, OwnTop, Own, Clean
  <2> QED
    BY <1>3, <1>5, <2>1, <2>2 DEF IInv
<1> QED
  BY <1>1, <1>4, <1>5, FinishFrame DEF TypeOK

-----------------------------------------------------------------------------
(* The steps. *)

\* txn* is called, from outside or by a body.
LEMMA CallIInv == ASSUME IInv, CallTxn \/ BodyNest PROVE IInv'
<1>1. TypeOK /\ Server /\ Inner /\ OwnTop /\ Past /\ Discarded
  BY DEF IInv
<1>2. Fresh \in Frame /\ ~Fresh.nest /\ Fresh.mine = {} /\ Fresh.pc = "begin"
  BY DEF Fresh, Frame, Pcs
<1>3. Own(Fresh, db, stmts)
  BY <1>2 DEF Own, InBody
<1>4. CASE CallTxn
  <2>1. stack' = <<Fresh>> /\ stack' \in Seq(Frame) /\ Len(stack') = 1 /\ stack' # <<>> /\ Top' = Fresh
    BY <1>2, <1>4 DEF CallTxn, Top
  <2>2. TypeOK'
    BY <1>1, <1>4, <2>1, BoundsAssumption DEF CallTxn, TypeOK
  <2>3. Server' /\ Past' /\ Discarded'
    BY <1>1, <1>4 DEF CallTxn, Server, Past, Discarded
  <2>4. Inner' /\ OwnTop' /\ Clean'
    BY <1>3, <1>4, <2>1 DEF CallTxn, Inner, OwnTop, Clean
  <2> QED
    BY <2>2, <2>3, <2>4 DEF IInv
<1>5. CASE BodyNest
  <2>1. stack # <<>>
    BY <1>5 DEF BodyNest, Running
  <2> DEFINE f == [Top EXCEPT !.nest = TRUE]
             s == Append(Outer, f)
             n == Len(stack)
  <2>2. /\ n \in Nat \ {0} /\ Top \in Frame /\ Outer \in Seq(Frame) /\ Len(Outer) = n - 1
        /\ \A i \in 1 .. n - 1 : Outer[i] = stack[i]
    BY <1>1, <2>1, TopOuter DEF TypeOK
  <2>3. f \in Frame /\ f.nest
    BY <2>2 DEF Frame
  <2> HIDE DEF f
  <2>4. /\ s \in Seq(Frame) /\ Len(s) = n /\ s[n] = f
        /\ \A i \in 1 .. n - 1 : s[i] = stack[i]
    BY <2>2, <2>3, AppendProperties
  <2>5. \A i \in 1 .. n : s[i].nest
    <3> SUFFICES ASSUME NEW i \in 1 .. n PROVE s[i].nest
      OBVIOUS
    <3>1. CASE i = n
      BY <2>3, <2>4, <3>1
    <3>2. CASE i # n
      <4>1. i \in 1 .. n - 1
        BY <2>2, <3>2
      <4> QED
        BY <1>1, <2>4, <4>1 DEF Inner
    <3> QED
      BY <3>1, <3>2
  <2>6. stack' = Append(s, Fresh)
    BY <1>5 DEF BodyNest, f
  <2> HIDE DEF s
  <2>7. /\ stack' \in Seq(Frame) /\ Len(stack') = n + 1 /\ stack'[n + 1] = Fresh
        /\ \A i \in 1 .. n : stack'[i] = s[i]
    BY <1>2, <2>2, <2>4, <2>6, AppendProperties
  <2>8. stack' # <<>> /\ Top' = Fresh
    BY <2>2, <2>7, EmptySeq DEF Top
  <2>9. Inner'
    BY <2>2, <2>5, <2>7 DEF Inner
  <2>10. TypeOK'
    BY <1>1, <1>5, <2>7 DEF BodyNest, TypeOK
  <2>11. Server' /\ Past' /\ Discarded'
    BY <1>1, <1>5 DEF BodyNest, Server, Past, Discarded
  <2>12. OwnTop' /\ Clean'
    BY <1>3, <1>5, <2>8 DEF BodyNest, OwnTop, Clean
  <2> QED
    BY <2>9, <2>10, <2>11, <2>12 DEF IInv
<1> QED
  BY <1>4, <1>5

\* What holds of the innermost call whenever it takes a step.
LEMMA InCall ==
  ASSUME IInv, stack # <<>>
  PROVE /\ Top \in Frame /\ Own(Top, db, stmts) /\ db \in Db /\ Tight(db)
        /\ stmts \in 0 .. MaxStmts /\ fails \in 0 .. MaxFails
BY TopOuter DEF IInv, TypeOK, Server, OwnTop

\* An error on its way to the handler.
LEMMA ThrownFrame ==
  ASSUME NEW f \in Frame, NEW e \in Errors
  PROVE LET h == [f EXCEPT !.pc = "catch", !.err = e]
        IN h \in Frame /\ h.pc = "catch" /\ h.mine = f.mine /\ h.nest = f.nest /\ h.err = e
BY DEF Frame, Pcs

\* "begin"
LEMMA BeginIInv == ASSUME IInv, ExecBegin PROVE IInv'
<1>1. stack # <<>> /\ Top.pc = "begin" /\ UNCHANGED <<last, retried, stmts, txns>>
  BY DEF ExecBegin, Running
<1>2. /\ Top \in Frame /\ Own(Top, db, stmts) /\ db \in Db /\ Tight(db)
      /\ stmts \in 0 .. MaxStmts /\ fails \in 0 .. MaxFails
  BY <1>1, InCall
<1>3. PICK r \in Begin(db) :
        /\ db' = r[2]
        /\ Counted(r)
        /\ IF r[1] = "done" THEN Set([Top EXCEPT !.pc = "body", !.owed = FALSE])
                            ELSE Throw(Top, r[1])
  BY DEF ExecBegin
<1>4. /\ r[1] \in {"done", "25P02", "other", "lost"} /\ db' \in Db /\ Tight(db')
      /\ db'.saved = db.saved /\ db'.work \in {{}, db.work}
      /\ r[1] = "done" => db'.conn = "ok" /\ db'.trans = "intrans"
  BY <1>2, <1>3, BeginAnswer
<1> DEFINE g == [Top EXCEPT !.pc = "body", !.owed = FALSE]
           h == [Top EXCEPT !.pc = "catch", !.err = r[1]]
<1>5. g \in Frame /\ g.pc = "body" /\ g.mine = Top.mine /\ g.nest = Top.nest /\ g.bad = Top.bad
  BY <1>2 DEF Frame, Pcs
<1>6. r[1] # "done" => h \in Frame /\ h.pc = "catch" /\ h.mine = Top.mine /\ h.nest = Top.nest /\ h.err = r[1]
  <2>1. r[1] # "done" => r[1] \in Errors
    BY <1>4 DEF Errors
  <2> QED
    BY <1>2, <2>1, ThrownFrame
<1>7. r[1] = "done" => Set(g)
  BY <1>3
<1>8. r[1] # "done" => Set(h)
  BY <1>3 DEF Throw
<1> HIDE DEF g, h
<1>9. r[1] = "done" => Own(g, db', stmts')
  BY <1>1, <1>2, <1>4, <1>5 DEF Own, InBody
<1>10. r[1] # "done" => Own(h, db', stmts')
  BY <1>1, <1>2, <1>4, <1>6 DEF Own, InBody
<1>11. ASSUME NEW f \in Frame, Set(f), Own(f, db', stmts') PROVE IInv'
  <2> DEFINE N == {}
  <2>1. N = {} /\ Moves(db, db', N)
    BY <1>4 DEF Moves
  <2>2. fails' \in 0 .. MaxFails
    BY <1>2, <1>3, BoundsAssumption DEF Counted
  <2> HIDE DEF N
  <2> QED
    BY <1>1, <1>2, <1>4, <1>11, <2>1, <2>2, SetStep
<1> QED
  BY <1>5, <1>6, <1>7, <1>8, <1>9, <1>10, <1>11

\* A statement of the body, whose error the body may catch.
LEMMA BodyExecIInv == ASSUME IInv, BodyExec PROVE IInv'
<1>1. stack # <<>> /\ Top.pc = "body" /\ stmts < MaxStmts /\ UNCHANGED <<last, retried, txns>>
  BY DEF BodyExec, Running
<1>2. /\ Top \in Frame /\ Own(Top, db, stmts) /\ db \in Db /\ Tight(db)
      /\ stmts \in 0 .. MaxStmts /\ fails \in 0 .. MaxFails
  BY <1>1, InCall
<1> DEFINE s == stmts + 1
<1>3. PICK r \in Statement(db, s) :
        /\ db' = r[2]
        /\ Counted(r)
        /\ IF r[1] = "done"
             THEN stmts' = s /\ Set([Top EXCEPT !.mine = @ \cup {s}])
             ELSE /\ UNCHANGED stmts
                  /\ \/ Throw([Top EXCEPT !.bad = TRUE], r[1])
                     \/ Set([Top EXCEPT !.bad = TRUE])
  BY DEF BodyExec
<1>4. s \in Stmts /\ s \notin Old(stmts) /\ Old(stmts) \cup {s} \subseteq Old(s)
  BY <1>1, <1>2, BoundsAssumption DEF Stmts, Old
<1>5. db.saved \subseteq Old(stmts)
  BY DEF IInv, Server
<1>6. fails' \in 0 .. MaxFails
  BY <1>2, <1>3, BoundsAssumption DEF Counted
<1>7. CASE r[1] = "done"
  <2>1. /\ db' \in Db /\ Tight(db') /\ db'.conn = "ok" /\ db'.trans = db.trans
        /\ \/ db.trans = "intrans" /\ db'.work = db.work \cup {s} /\ db'.saved = db.saved
           \/ db.trans = "idle" /\ db'.work = db.work /\ db'.saved = db.saved \cup {s}
    BY <1>2, <1>3, <1>4, <1>7, StatementAnswer
  <2>2. db.trans = "idle" => Top.nest
    <3>1. db.conn = "ok"
      BY <1>2, <1>3, <1>7 DEF Statement, Exec
    <3> QED
      BY <1>1, <1>2, <3>1 DEF Own, InBody
  <2> DEFINE g == [Top EXCEPT !.mine = @ \cup {s}]
  <2>3. /\ g \in Frame /\ g.pc = "body" /\ g.mine = Top.mine \cup {s}
        /\ g.nest = Top.nest /\ g.bad = Top.bad
    BY <1>1, <1>2, <1>4 DEF Frame
  <2>4. Set(g) /\ stmts' = s
    BY <1>3, <1>7
  <2> HIDE DEF g
  <2>5. Own(g, db', stmts')
    BY <1>1, <1>2, <1>4, <1>5, <2>1, <2>2, <2>3, <2>4 DEF Own, InBody
  <2> DEFINE N == {s}
  <2>6. N = {stmts + 1} /\ Moves(db, db', N)
    BY <2>1 DEF Moves
  <2>7. stmts' \in 0 .. MaxStmts
    BY <1>1, <1>2, <2>4, BoundsAssumption
  <2> HIDE DEF N
  <2> QED
    BY <1>1, <1>6, <2>1, <2>3, <2>4, <2>5, <2>6, <2>7, SetStep
<1>8. CASE r[1] # "done"
  <2>1. /\ r[1] \in Errors /\ db' \in Db /\ Tight(db')
        /\ db'.saved = db.saved /\ db'.work = {} /\ db'.trans # "intrans"
        /\ db'.conn = "ok" => db.conn = "ok" /\ (db.trans # "idle" => db'.trans # "idle")
    BY <1>2, <1>3, <1>4, <1>8, StatementAnswer
  <2> DEFINE g == [Top EXCEPT !.bad = TRUE]
  <2>2. /\ g \in Frame /\ g.pc = "body" /\ g.mine = Top.mine /\ g.nest = Top.nest /\ g.bad
    BY <1>1, <1>2 DEF Frame
  <2>3. stmts' = stmts /\ (Set(g) \/ Throw(g, r[1]))
    BY <1>3, <1>8
  <2> HIDE DEF g
  <2> DEFINE h == [g EXCEPT !.pc = "catch", !.err = r[1]]
  <2>4. h \in Frame /\ h.pc = "catch" /\ h.mine = g.mine /\ h.nest = g.nest
    BY <2>1, <2>2, ThrownFrame
  <2>5. Set(g) \/ Set(h)
    BY <2>3 DEF Throw
  <2> HIDE DEF h
  <2>6. Own(g, db', stmts') /\ Own(h, db', stmts')
    BY <1>1, <1>2, <2>1, <2>2, <2>3, <2>4 DEF Own, InBody
  <2> DEFINE N == {}
  <2>7. N = {} /\ Moves(db, db', N)
    BY <2>1 DEF Moves
  <2> HIDE DEF N
  <2>8. ASSUME NEW f \in Frame, Set(f), Own(f, db', stmts') PROVE IInv'
    BY <1>1, <1>2, <1>6, <2>1, <2>3, <2>7, <2>8, SetStep
  <2> QED
    BY <2>2, <2>4, <2>5, <2>6, <2>8
<1> QED
  BY <1>7, <1>8

\* The body raises, closes the connection, or ends.
LEMMA BodyIInv == ASSUME IInv, BodyRaise \/ BodyClose \/ BodyEnds PROVE IInv'
<1>1. /\ stack # <<>> /\ Top.pc = "body"
      /\ UNCHANGED <<last, retried, stmts, fails, txns>>
  BY DEF BodyRaise, BodyClose, BodyEnds, Running
<1>2. /\ Top \in Frame /\ Own(Top, db, stmts) /\ db \in Db /\ Tight(db)
      /\ stmts \in 0 .. MaxStmts /\ fails \in 0 .. MaxFails
  BY <1>1, InCall
<1> DEFINE N == {}
<1>3. N = {} /\ (db' = db => Moves(db, db', N))
  BY DEF Moves
<1> HIDE DEF N
<1>4. CASE BodyRaise
  <2> DEFINE h == [Top EXCEPT !.pc = "catch", !.err = "user"]
  <2>1. /\ h \in Frame /\ h.pc = "catch" /\ h.mine = Top.mine /\ h.nest = Top.nest
        /\ h.err = "user"
    BY <1>2, ThrownFrame DEF Errors
  <2>2. Set(h) /\ db' = db
    BY <1>4 DEF BodyRaise, Throw
  <2> HIDE DEF h
  <2>3. Own(h, db', stmts')
    BY <1>1, <1>2, <2>1, <2>2 DEF Own, InBody
  <2> QED
    BY <1>1, <1>2, <1>3, <2>1, <2>2, <2>3, SetStep
<1>5. CASE BodyEnds
  <2>1. PICK q \in {"commit", "rollback", "abort"} : Set([Top EXCEPT !.pc = q])
    BY <1>5 DEF BodyEnds
  <2> DEFINE h == [Top EXCEPT !.pc = q]
  <2>2. h \in Frame /\ h.pc = q /\ h.mine = Top.mine /\ h.nest = Top.nest /\ h.bad = Top.bad
    BY <1>2 DEF Frame, Pcs
  <2>3. Set(h) /\ db' = db
    BY <1>5, <2>1 DEF BodyEnds
  <2> HIDE DEF h
  <2>4. Own(h, db', stmts')
    BY <1>1, <1>2, <2>2, <2>3 DEF Own, InBody
  <2> QED
    BY <1>1, <1>2, <1>3, <2>2, <2>3, <2>4, SetStep
<1>6. CASE BodyClose
  <2>1. db' = [Idle(db) EXCEPT !.conn = "closed"] /\ stack' = stack
    BY <1>6 DEF BodyClose
  <2>2. /\ db' \in Db /\ db'.conn = "closed" /\ db'.trans = "idle" /\ db'.work = {}
        /\ db'.saved = db.saved
    BY <1>2, <2>1 DEF Db, Idle
  <2>3. Tight(db')
    BY <2>2 DEF Tight
  <2>4. Own(Top, db', stmts')
    BY <1>1, <1>2, <2>2 DEF Own, InBody
  <2>5. TypeOK /\ Server /\ Inner /\ Past /\ Discarded
    BY DEF IInv
  <2>6. /\ db'.saved \cup db'.work \subseteq Old(stmts')
        /\ PastOf(last, db', stmts')
        /\ retried \subseteq Old(stmts') /\ retried \cap (db'.work \cup db'.saved) = {}
    <3>1. Moves(db, db', N)
      BY <2>2 DEF Moves
    <3> QED
      BY <1>1, <1>3, <2>5, <3>1, PastStays
  <2>7. TypeOK'
    BY <1>1, <2>1, <2>2, <2>5 DEF TypeOK
  <2>8. Server' /\ Past' /\ Discarded'
    BY <1>1, <2>3, <2>6 DEF Server, Past, Discarded
  <2>9. Inner' /\ OwnTop' /\ Clean'
    BY <1>1, <2>1, <2>4, <2>5 DEF Inner, OwnTop, Top, Clean
  <2> QED
    BY <2>7, <2>8, <2>9 DEF IInv
<1> QED
  BY <1>4, <1>5, <1>6

\* A signal that txn* does not mask leaves some of the calls.
LEMMA LeavesIInv == ASSUME IInv, BodyLeaves PROVE IInv'
<1>1. stack # <<>> /\ Top.pc = "body" /\ UNCHANGED <<db, retried, stmts, fails, txns>>
  BY DEF BodyLeaves, Running
<1>2. TypeOK /\ Server /\ Inner /\ OwnTop /\ Past /\ Discarded /\ stack \in Seq(Frame)
  BY DEF IInv, TypeOK
<1> DEFINE n == Len(stack)
<1>3. n \in Nat \ {0} /\ DOMAIN stack = 1 .. n /\ \A i \in 1 .. n : stack[i] \in Frame
  BY <1>1, <1>2, EmptySeq, LenProperties
<1> DEFINE end == [how |-> "left", mine |-> stack[1].mine, bad |-> stack[1].bad,
                   owed |-> stack[1].owed, nest |-> stack[1].nest, err |-> "none"]
<1>4. PICK k \in 1 .. n : stack' = SubSeq(stack, 1, k - 1) /\ last' = IF k > 1 THEN last ELSE end
  BY <1>3 DEF BodyLeaves
<1>5. Server' /\ Discarded'
  BY <1>1, <1>2 DEF Server, Discarded
<1>6. CASE k = 1
  <2>1. stack' = <<>> /\ last' = end /\ stack' \in Seq(Frame) /\ Len(stack') = 0
    BY <1>3, <1>4, <1>6, EmptySeq
  <2>2. stack[1] \in Frame
    BY <1>3
  <2>3. end \in End
    BY <2>2 DEF Frame, End, Ends
  <2>4. end.how = "left" /\ end.mine = stack[1].mine /\ end.nest = stack[1].nest
    OBVIOUS
  <2> HIDE DEF end
  <2>5. TypeOK'
    BY <1>1, <1>2, <2>1, <2>3 DEF TypeOK
  <2>6. ~stack[1].nest => stack[1] = Top
    <3> SUFFICES ASSUME ~stack[1].nest PROVE n = 1
      BY DEF Top
    <3>1. 1 \notin 1 .. n - 1
      BY <1>2 DEF Inner
    <3> QED
      BY <1>3, <3>1
  <2>7. ~Top.nest => /\ Top.mine \subseteq Old(stmts) /\ Top.mine \cap db.saved = {}
                     /\ db.trans = "intrans" => Top.mine \subseteq db.work
                     /\ db.trans # "intrans" => db.work = {}
    BY <1>1, <1>2 DEF OwnTop, Own, InBody, Server, Tight
  <2>8. PastOf(end, db', stmts')
    BY <1>1, <2>4, <2>6, <2>7 DEF PastOf, Undone
  <2>9. Past' /\ Inner' /\ OwnTop' /\ Clean'
    BY <2>1, <2>4, <2>8 DEF Past, Inner, OwnTop, Clean
  <2> QED
    BY <1>5, <2>5, <2>9 DEF IInv
<1>7. CASE k # 1
  <2> DEFINE m == k - 1
  <2>1. m \in 1 .. n - 1 /\ k > 1
    BY <1>3, <1>4, <1>7
  <2>2. stack' = SubSeq(stack, 1, m) /\ last' = last
    BY <1>4, <2>1
  <2> HIDE DEF m
  <2>3. 1 \in Int /\ m \in Nat /\ \A i \in 1 .. m : stack[i] \in Frame
    BY <1>3, <2>1
  <2>4. /\ SubSeq(stack, 1, m) \in Seq(Frame)
        /\ Len(SubSeq(stack, 1, m)) = IF 1 <= m THEN m - 1 + 1 ELSE 0
        /\ \A i \in 1 .. m - 1 + 1 : SubSeq(stack, 1, m)[i] = stack[1 + i - 1]
    BY <2>3, SubSeqProperties
  <2>5. /\ stack' \in Seq(Frame) /\ Len(stack') = m
        /\ \A i \in 1 .. m : stack'[i] = stack[i]
    BY <2>1, <2>2, <2>3, <2>4
  <2>6. \A i \in 1 .. m : stack'[i].nest
    <3> SUFFICES ASSUME NEW i \in 1 .. m PROVE stack'[i].nest
      OBVIOUS
    <3>1. i \in 1 .. n - 1
      BY <1>3, <2>1
    <3> QED
      BY <1>2, <2>5, <3>1 DEF Inner
  <2>7. stack' # <<>> /\ Top'.nest
    BY <2>1, <2>5, <2>6, EmptySeq DEF Top
  <2>8. Inner' /\ OwnTop' /\ Clean'
    BY <2>1, <2>5, <2>6, <2>7 DEF Inner, OwnTop, Own, Clean
  <2>9. TypeOK' /\ Past'
    BY <1>1, <1>2, <2>2, <2>5 DEF TypeOK, Past
  <2> QED
    BY <1>5, <2>8, <2>9 DEF IInv
<1> QED
  BY <1>6, <1>7

\* "commit"
LEMMA CommitIInv == ASSUME IInv, ExecCommit PROVE IInv'
<1>1. stack # <<>> /\ Top.pc = "commit" /\ UNCHANGED <<retried, stmts, txns>>
  BY DEF ExecCommit, Running
<1>2. /\ Top \in Frame /\ Own(Top, db, stmts) /\ db \in Db /\ Tight(db)
      /\ stmts \in 0 .. MaxStmts /\ fails \in 0 .. MaxFails
  BY <1>1, InCall
<1>3. PICK r \in Commit(db) :
        /\ db' = r[2]
        /\ Counted(r)
        /\ IF r[1] = "done" THEN Finish("value", "none")
                            ELSE Throw(Top, r[1]) /\ UNCHANGED last
  BY DEF ExecCommit
<1>4. /\ r[1] \in Errors \cup {"done"} /\ db' \in Db /\ Tight(db')
      /\ db'.trans = "idle" /\ db'.work = {}
      /\ \/ db'.saved = db.saved
         \/ db.trans = "intrans" /\ db'.saved = db.saved \cup db.work
      /\ r[1] = "done" => db.conn = "ok" /\ (db.trans = "intrans" => db'.saved = db.saved \cup db.work)
      /\ r[1] \notin {"done", "torn"} => db'.saved = db.saved
      /\ r[1] = "torn" => db'.conn = "bad"
  BY <1>2, <1>3, CommitAnswer
<1>5. fails' \in 0 .. MaxFails
  BY <1>2, <1>3, BoundsAssumption DEF Counted
<1>6. CASE r[1] = "done"
  <2>1. /\ Finish("value", "none") /\ "value" \in Ends /\ "none" \in Errors \cup {"none"}
        /\ "value" \notin Undone
    BY <1>3, <1>6 DEF Ends, Undone
  <2>2. ~Top.nest => /\ Top.mine \cap db'.saved = {} \/ Top.mine \subseteq db'.saved
                     /\ ~Top.bad => Top.mine \subseteq db'.saved
    BY <1>1, <1>2, <1>4, <1>6 DEF Own, InBody
  <2> QED
    BY <1>1, <1>4, <1>5, <2>1, <2>2, FinishStep
<1>7. CASE r[1] # "done"
  <2> DEFINE h == [Top EXCEPT !.pc = "catch", !.err = r[1]]
  <2>1. /\ h \in Frame /\ h.pc = "catch" /\ h.mine = Top.mine /\ h.nest = Top.nest
        /\ h.err = r[1]
    BY <1>2, <1>4, <1>7, ThrownFrame
  <2>2. Set(h) /\ UNCHANGED last
    BY <1>3, <1>7 DEF Throw
  <2> HIDE DEF h
  <2>3. Own(h, db', stmts')
    BY <1>1, <1>2, <1>4, <1>7, <2>1 DEF Own, InBody
  <2> DEFINE N == {}
  <2>4. N = {} /\ Moves(db, db', N)
    BY <1>4 DEF Moves
  <2> HIDE DEF N
  <2> QED
    BY <1>1, <1>2, <1>4, <1>5, <2>1, <2>2, <2>3, <2>4, SetStep
<1> QED
  BY <1>6, <1>7

\* "rollback", for a body that asked for it or gave a signal
LEMMA RollbackIInv == ASSUME IInv, ExecRollback PROVE IInv'
<1>1. PICK q \in {"rollback", "abort"} :
        /\ Running(q)
        /\ \E r \in Rollback(db) :
             /\ db' = r[2]
             /\ IF r[1] = "done"
                  THEN Finish(IF q = "rollback" THEN "rolled" ELSE "signalled", "none")
                  ELSE Throw(Top, r[1]) /\ UNCHANGED last
  BY DEF ExecRollback
<1>2. stack # <<>> /\ Top.pc = q /\ UNCHANGED <<retried, stmts, fails, txns>>
  BY <1>1 DEF ExecRollback, Running
<1>3. /\ Top \in Frame /\ Own(Top, db, stmts) /\ db \in Db /\ Tight(db)
      /\ stmts \in 0 .. MaxStmts /\ fails \in 0 .. MaxFails
  BY <1>2, InCall
<1>4. PICK r \in Rollback(db) :
        /\ db' = r[2]
        /\ IF r[1] = "done"
             THEN Finish(IF q = "rollback" THEN "rolled" ELSE "signalled", "none")
             ELSE Throw(Top, r[1]) /\ UNCHANGED last
  BY <1>1
<1>5. /\ r[1] \in {"done", "lost"} /\ db' \in Db /\ Tight(db')
      /\ db'.trans = "idle" /\ db'.work = {} /\ db'.saved = db.saved
      /\ r[1] = "lost" => db'.conn # "ok"
  BY <1>3, <1>4, RollbackAnswer
<1>6. ~Top.nest => Top.mine \cap db'.saved = {} /\ Top.mine \subseteq Old(stmts)
  BY <1>2, <1>3, <1>5 DEF Own, InBody
<1>7. CASE r[1] = "done"
  <2> DEFINE how == IF q = "rollback" THEN "rolled" ELSE "signalled"
  <2>1. how \in Ends /\ how # "value" /\ Finish(how, "none") /\ "none" \in Errors \cup {"none"}
    BY <1>4, <1>7 DEF Ends
  <2> HIDE DEF how
  <2> QED
    BY <1>2, <1>3, <1>5, <1>6, <2>1, FinishStep
<1>8. CASE r[1] # "done"
  <2> DEFINE h == [Top EXCEPT !.pc = "catch", !.err = r[1]]
  <2>1. /\ h \in Frame /\ h.pc = "catch" /\ h.mine = Top.mine /\ h.nest = Top.nest
        /\ h.err = r[1]
    <3>1. r[1] \in Errors
      BY <1>5, <1>8 DEF Errors
    <3> QED
      BY <1>3, <3>1, ThrownFrame
  <2>2. Set(h) /\ UNCHANGED last
    BY <1>4, <1>8 DEF Throw
  <2> HIDE DEF h
  <2>3. Own(h, db', stmts')
    BY <1>2, <1>5, <1>6, <1>8, <2>1 DEF Own, InBody
  <2> DEFINE N == {}
  <2>4. N = {} /\ Moves(db, db', N)
    BY <1>5 DEF Moves
  <2> HIDE DEF N
  <2> QED
    BY <1>2, <1>3, <1>5, <2>1, <2>2, <2>3, <2>4, SetStep
<1> QED
  BY <1>7, <1>8

\* The handler runs the body again.
LEMMA AgainIInv == ASSUME IInv, Again PROVE IInv'
<1>1. /\ stack # <<>> /\ Top.pc = "catch" /\ Top.err = "40001"
      /\ UNCHANGED <<db, last, stmts, fails, txns>>
      /\ retried' = retried \cup (IF Top.nest THEN {} ELSE Top.mine)
  BY DEF Again, Running
<1>2. /\ Top \in Frame /\ Own(Top, db, stmts) /\ db \in Db /\ Tight(db)
      /\ stmts \in 0 .. MaxStmts /\ fails \in 0 .. MaxFails
  BY <1>1, InCall
<1>3. TypeOK /\ Server /\ Inner /\ Past /\ Discarded
  BY DEF IInv
<1> DEFINE f == [Fresh EXCEPT !.owed = TRUE]
<1>4. f \in Frame /\ ~f.nest /\ f.mine = {} /\ f.pc = "begin"
  BY DEF Fresh, Frame, Pcs
<1>5. Set(f)
  BY DEF Again
<1> HIDE DEF f
<1>6. stack' \in Seq(Frame) /\ stack' # <<>> /\ Top' = f /\ Inner'
  BY <1>1, <1>3, <1>4, <1>5, SetFrame DEF TypeOK
<1>7. Own(f, db', stmts')
  BY <1>4 DEF Own, InBody
<1>8. ~Top.nest => Top.mine \subseteq Old(stmts) /\ Top.mine \cap (db.work \cup db.saved) = {}
  BY <1>1, <1>2 DEF Own, Tight
<1>9. Discarded'
  BY <1>1, <1>3, <1>8 DEF Discarded
<1>10. retried' \subseteq Stmts
  BY <1>1, <1>2, <1>3 DEF TypeOK, Frame
<1>11. TypeOK'
  BY <1>1, <1>3, <1>6, <1>10 DEF TypeOK
<1>12. Server' /\ Past' /\ OwnTop' /\ Clean'
  BY <1>1, <1>3, <1>6, <1>7 DEF Server, Past, OwnTop, Clean
<1> QED
  BY <1>6, <1>9, <1>11, <1>12 DEF IInv

\* The handler rolls back and raises.
LEMMA GiveUpIInv == ASSUME IInv, GiveUp PROVE IInv'
<1>1. stack # <<>> /\ Top.pc = "catch" /\ UNCHANGED <<retried, stmts, fails, txns>>
  BY DEF GiveUp, Running
<1>2. /\ Top \in Frame /\ Own(Top, db, stmts) /\ db \in Db /\ Tight(db)
      /\ stmts \in 0 .. MaxStmts /\ fails \in 0 .. MaxFails
  BY <1>1, InCall
<1>3. "raised" \in Ends /\ "raised" # "value" /\ Top.err \in Errors \cup {"none"}
        /\ "lost" \in Errors \cup {"none"}
  BY <1>2 DEF Ends, Errors, Frame
<1>4. ~Top.nest => \/ Top.mine \cap db.saved = {}
                   \/ Top.err = "torn" /\ db.conn = "bad" /\ Top.mine \subseteq db.saved
  BY <1>1, <1>2 DEF Own
<1>5. CASE db.conn = "ok"
  <2>1. PICK r \in Rollback(db) :
          db' = r[2] /\ Finish("raised", IF r[1] = "done" THEN Top.err ELSE r[1])
    BY <1>5 DEF GiveUp
  <2>2. /\ r[1] \in {"done", "lost"} /\ db' \in Db /\ Tight(db')
        /\ db'.trans = "idle" /\ db'.work = {} /\ db'.saved = db.saved
    BY <1>2, <2>1, RollbackAnswer
  <2> DEFINE e == IF r[1] = "done" THEN Top.err ELSE r[1]
  <2>3. e \in Errors \cup {"none"} /\ Finish("raised", e)
    BY <1>3, <2>1, <2>2
  <2> HIDE DEF e
  <2>4. ~Top.nest => Top.mine \cap db'.saved = {}
    BY <1>4, <1>5, <2>2
  <2> QED
    BY <1>1, <1>2, <1>3, <2>2, <2>3, <2>4, FinishStep
<1>6. CASE db.conn # "ok"
  <2> DEFINE e == IF db.conn = "closed" THEN "lost" ELSE Top.err
  <2>1. e \in Errors \cup {"none"} /\ Finish("raised", e) /\ db' = db
    BY <1>3, <1>6 DEF GiveUp
  <2>2. db.trans = "idle" /\ db.work = {}
    BY <1>2, <1>6 DEF Tight
  <2>3. e # "torn" /\ Top.err = "torn" => db.conn # "bad"
    OBVIOUS
  <2> HIDE DEF e
  <2>4. ~Top.nest => /\ Top.mine \cap db'.saved = {} \/ Top.mine \subseteq db'.saved
                     /\ e # "torn" => Top.mine \cap db'.saved = {}
    BY <1>4, <2>1, <2>3
  <2> QED
    BY <1>1, <1>2, <1>3, <2>1, <2>2, <2>4, FinishStep
<1> QED
  BY <1>5, <1>6

-----------------------------------------------------------------------------
\* Initially nothing has happened.
LEMMA InitIInv == Init => IInv
<1> SUFFICES ASSUME Init PROVE IInv
  OBVIOUS
<1>1. stack = <<>> /\ stack \in Seq(Frame) /\ Len(stack) = 0
  BY EmptySeq DEF Init
<1>2. /\ db \in Db /\ db.conn = "ok" /\ db.trans = "idle" /\ db.work = {} /\ db.saved = {}
  BY DEF Init, Db
<1>3. last \in End /\ last.mine = {}
  BY DEF Init, End, Ends
<1>4. TypeOK
  BY <1>1, <1>2, <1>3, BoundsAssumption DEF Init, TypeOK
<1>5. Server /\ Past /\ Discarded
  BY <1>2, <1>3 DEF Init, Server, Tight, Past, PastOf, Discarded
<1>6. Inner /\ OwnTop /\ Clean
  BY <1>1, <1>2 DEF Inner, OwnTop, Clean
<1> QED
  BY <1>4, <1>5, <1>6 DEF IInv

\* The invariant is inductive.
LEMMA NextIInv == IInv /\ [Next]_vars => IInv'
<1> SUFFICES ASSUME IInv, [Next]_vars PROVE IInv'
  OBVIOUS
<1>1. CASE UNCHANGED vars
  BY <1>1 DEF vars, IInv, TypeOK, Server, Inner, OwnTop, Top, Past, Discarded, Clean
<1>2. CASE Next
  BY <1>2, CallIInv, BeginIInv, BodyExecIInv, BodyIInv, LeavesIInv, CommitIInv, RollbackIInv, AgainIInv,
     GiveUpIInv DEF Next
<1> QED
  BY <1>1, <1>2

\* The inductive invariant of txn*.
THEOREM TxnInvariance == Spec => []IInv
BY InitIInv, NextIInv, PTL DEF Spec

\* The variables keep their types, for any nesting.
THEOREM TxnTypeCorrect == Spec => []TypeOK
<1>1. IInv => TypeOK
  BY DEF IInv
<1> QED
  BY <1>1, TxnInvariance, PTL

\* The statements of an attempt become durable together or not at all, for any number
\* of statements, failures and nested calls.
THEOREM TxnAllOrNothing == Spec => []AllOrNothing
<1>1. IInv => AllOrNothing
  <2> SUFFICES ASSUME IInv, NEW f \in Plain PROVE f.mine \cap db.saved \in {{}, f.mine}
    BY DEF AllOrNothing
  <2>1. CASE f = last
    BY <2>1 DEF IInv, Past, PastOf, Plain
  <2>2. CASE f # last
    <3>1. PICK i \in DOMAIN stack : f = stack[i] /\ ~f.nest
      BY <2>2 DEF Plain
    <3>2. stack \in Seq(Frame) /\ Inner /\ OwnTop
      BY DEF IInv, TypeOK
    <3>3. Len(stack) \in Nat /\ i \in 1 .. Len(stack) /\ stack # <<>>
      BY <3>1, <3>2, LenProperties, EmptySeq
    <3>4. i = Len(stack)
      BY <3>1, <3>2, <3>3 DEF Inner
    <3>5. f = Top /\ Own(f, db, stmts) /\ f \in Frame
      BY <3>1, <3>2, <3>3, <3>4, TopOuter DEF Top, OwnTop
    <3>6. f.pc \in {"begin", "catch"} \cup InBody
      BY <3>5 DEF Frame, Pcs, InBody
    <3> QED
      BY <3>1, <3>5, <3>6 DEF Own
  <2> QED
    BY <2>1, <2>2
<1> QED
  BY <1>1, TxnInvariance, PTL

\* A call that ends by an error, by a rollback or by a signal that txn* handles has left
\* nothing behind, wherever the connection was lost, unless that was under its "commit".
THEOREM TxnRaises == Spec => []RaisedMeansRolledBack
<1>1. IInv => RaisedMeansRolledBack
  BY DEF IInv, Past, PastOf, Undone, RaisedMeansRolledBack
<1> QED
  BY <1>1, TxnInvariance, PTL

\* A call that returns a value has made all its statements durable, unless its body
\* caught the error of one.
THEOREM TxnReturns == Spec => []ValueMeansCommitted
<1>1. IInv => ValueMeansCommitted
  BY DEF IInv, Past, PastOf, ValueMeansCommitted
<1> QED
  BY <1>1, TxnInvariance, PTL

\* No transaction is left open between calls of txn, on any path out of it but a signal
\* that the body's fiber does not mask.
THEOREM TxnCloses == Spec => []NothingLeftOpen
<1>1. IInv => NothingLeftOpen
  BY DEF IInv, Clean, NothingLeftOpen
<1> QED
  BY <1>1, TxnInvariance, PTL

\* What an attempt did before a retry never becomes durable.
THEOREM TxnRetries == Spec => []RetriedWorkDiscarded
<1>1. IInv => RetriedWorkDiscarded
  BY DEF IInv, Discarded, RetriedWorkDiscarded
<1> QED
  BY <1>1, TxnInvariance, PTL
=============================================================================
