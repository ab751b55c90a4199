------------------------------- MODULE Pobox --------------------------------
(***************************************************************************)
(* The shared boxes of com.ahungry.conc.atom: src/pobox.c behind           *)
(* lib/com.ahungry.conc.atom.janet.  Every Janet thread of the process     *)
(* calls make, get and update; the C code keeps all boxes in one linked    *)
(* list, office, and guards it with one global pthread spinlock, lock.     *)
(*                                                                         *)
(* The model keeps the steps of the C code one by one: taking the spinlock *)
(* (which does not fail, and is not re-entrant), walking the list, copying *)
(* a value out, running the caller's function, the single stores that link *)
(* a new node before it is filled or free a value before it is replaced,   *)
(* the unlock, and the early exits that skip the unlock.  Keys and values  *)
(* are the byte strings that marshal produces, so a key is equal to        *)
(* another exactly when bytecmp says so; Funs are the functions on bytes   *)
(* that atom/update builds from the caller's function.                     *)
(***************************************************************************)
EXTENDS Naturals, Sequences

CONSTANTS
  Threads,    \* Janet threads (one VM each) that share the process
  NoThread,   \* the value of a free lock
  Keys,       \* marshalled keys
  NoKey,      \* the empty key "" of the sentinel node
  Values,     \* marshalled values
  Junk,       \* uninitialised, freed or half-replaced memory
  Missing,    \* nil: no such box
  True,       \* janet_wrap_true
  Raise,      \* a Janet error leaving a call
  Reenter,    \* the caller's function calls make, get or update itself
  NoCall,     \* a thread that has not called yet
  Funs,       \* the functions given to update
  Calls,      \* the calls the threads may make
  Premade,    \* <<key, value>> pairs made before the threads started
  MaxCalls    \* bound: calls per thread

MakeCalls == [op : {"make"}, k : Keys, v : Values]
GetCalls == [op : {"get"}, k : Keys]
UpdateCalls == [op : {"update"}, k : Keys, f : Funs]

Outcomes == Values \cup {Raise, Reenter}
Answers == Values \cup {Missing, Junk, True, Raise}

ASSUME ThreadAssumption == NoThread \notin Threads
ASSUME KeyAssumption == NoKey \notin Keys /\ Junk \notin Keys /\ Junk # NoKey
ASSUME ValueAssumption ==
  /\ {Junk, Missing, True, Raise, Reenter} \cap Values = {}
  /\ Raise # Reenter
  /\ Junk \notin {Missing, True, Raise}
  /\ True \notin {Missing, Raise}
ASSUME FunAssumption == Funs \subseteq [Values -> Outcomes]
ASSUME CallAssumption == /\ Calls \subseteq MakeCalls \cup GetCalls \cup UpdateCalls
                         /\ NoCall \notin Calls
ASSUME BoundAssumption == MaxCalls \in Nat
ASSUME PremadeAssumption ==
  /\ Premade \in Seq(Keys \X Values)
  /\ \A i, j \in DOMAIN Premade : Premade[i][1] = Premade[j][1] => i = j

VARIABLES
  office,  \* the list: a sequence of nodes, office[1] is the sentinel
  lock,    \* the spinlock: the thread that took it, or NoThread
  pc,      \* per thread: the next step
  call,    \* per thread: the latest call, with its arguments
  node,    \* per thread: the list position t, node or nnode points to
  reg,     \* per thread: the value buffer (kv, buf, vb)
  res,     \* per thread: what its latest finished call returned
  left,    \* per thread: calls it may still make
  fault    \* "none", or why the whole process died

vars == <<office, lock, pc, call, node, reg, res, left, fault>>

(***************************************************************************)
(* A node.  vlen is the value whose length the field vlen holds: a reader  *)
(* that finds v and vlen of two different values copies garbage.  ends     *)
(* says that the next pointer is initialised.                              *)
(***************************************************************************)
Node == [k : Keys \cup {NoKey, Junk}, v : Values \cup {NoKey, Junk},
         vlen : Values \cup {NoKey, Junk}, ends : BOOLEAN]

NewNode(k, v) == [k |-> k, v |-> v, vlen |-> v, ends |-> TRUE]
Sentinel == NewNode(NoKey, NoKey)
RawNode == [k |-> Junk, v |-> Junk, vlen |-> Junk, ends |-> FALSE]

\* bytecmp of the walk passes over node n when looking for k and goes on to next
Passes(n, k) == n.k \notin {k, Junk} /\ n.ends

\* table_get and the walk of table_put: they stop at node i, at the end, ...
Finds(k, i) == /\ i \in DOMAIN office
               /\ office[i].k = k
               /\ \A j \in 1 .. i - 1 : Passes(office[j], k)
Misses(k) == \A i \in DOMAIN office : Passes(office[i], k)
\* ... or they read an uninitialised key or follow an uninitialised next pointer
Strays(k) == \E i \in DOMAIN office : /\ office[i].k # k
                                      /\ ~Passes(office[i], k)
                                      /\ \A j \in 1 .. i - 1 : Passes(office[j], k)

Labels == {"idle", "spin", "walk", "copy", "call", "reenter",
           "put", "key", "val", "len", "unlock", "ret"}

\* thread t of a live process is about to take step l
At(t, l) == fault = "none" /\ pc[t] = l
Goto(t, l) == pc' = [pc EXCEPT ![t] = l]

(***************************************************************************)
(* The main VM has loaded the native module (ensure_office) and made the   *)
(* Premade boxes before it starts the threads.                             *)
(***************************************************************************)
Init ==
  /\ office = <<Sentinel>> \o [i \in DOMAIN Premade |-> NewNode(Premade[i][1], Premade[i][2])]
  /\ lock = NoThread
  /\ pc = [t \in Threads |-> "idle"]
  /\ call = [t \in Threads |-> NoCall]
  /\ node = [t \in Threads |-> 0]
  /\ reg = [t \in Threads |-> Junk]
  /\ res = [t \in Threads |-> Missing]
  /\ left = [t \in Threads |-> MaxCalls]
  /\ fault = "none"

\* atom/make, atom/get, atom/update: the arguments are marshalled, the C function entered
Invoke(t, c) ==
  /\ At(t, "idle") /\ left[t] > 0
  /\ Goto(t, "spin")
  /\ call' = [call EXCEPT ![t] = c]
  /\ left' = [left EXCEPT ![t] = @ - 1]
  /\ UNCHANGED <<office, lock, node, reg, res, fault>>

\* variant: pthread_spin_trylock with its result ignored
LockWithoutWaiting(t) ==
  /\ At(t, "spin")
  /\ lock' = t
  /\ IF call[t].op = "make"
       THEN Goto(t, "put") /\ reg' = [reg EXCEPT ![t] = call[t].v]
       ELSE Goto(t, "walk") /\ UNCHANGED reg
  /\ UNCHANGED <<office, call, node, res, left, fault>>

\* pthread_spin_lock returns; make goes on to table_put, the others to table_get
Lock(t) ==
  /\ At(t, "spin") /\ lock = NoThread
  /\ lock' = t
  /\ IF call[t].op = "make"
       THEN Goto(t, "put") /\ reg' = [reg EXCEPT ![t] = call[t].v]
       ELSE Goto(t, "walk") /\ UNCHANGED reg
  /\ UNCHANGED <<office, call, node, res, left, fault>>

\* a walk that strays reads wild memory: the process dies
Crash(why) ==
  /\ fault' = why
  /\ UNCHANGED <<office, lock, pc, call, node, reg, res, left>>

\* variant: the walk starts over when an update finds no box
WalkWithoutEnd(t) ==
  /\ At(t, "walk")
  /\ \/ \E i \in DOMAIN office :
          /\ Finds(call[t].k, i)
          /\ node' = [node EXCEPT ![t] = i]
          /\ Goto(t, "copy")
          /\ UNCHANGED <<office, lock, call, reg, res, left, fault>>
     \/ /\ Misses(call[t].k) /\ call[t].op = "get"
        /\ res' = [res EXCEPT ![t] = Missing]
        /\ Goto(t, "ret")
        /\ UNCHANGED <<office, lock, call, node, reg, left, fault>>
     \/ Strays(call[t].k) /\ Crash("stray")

\* table_get of get_wrapped and update_wrapped
Walk(t) ==
  /\ At(t, "walk")
  /\ \/ \E i \in DOMAIN office :
          /\ Finds(call[t].k, i)
          /\ node' = [node EXCEPT ![t] = i]
          /\ Goto(t, "copy")
          /\ UNCHANGED <<office, lock, call, reg, res, left, fault>>
     \/ /\ Misses(call[t].k) /\ call[t].op = "get"  \* returns nil, lock still taken
        /\ res' = [res EXCEPT ![t] = Missing]
        /\ Goto(t, "ret")
        /\ UNCHANGED <<office, lock, call, node, reg, left, fault>>
     \/ /\ Misses(call[t].k) /\ call[t].op = "update"  \* t->v with t NULL
        /\ Crash("null")
     \/ Strays(call[t].k) /\ Crash("stray")

Content(n) == IF n.v = n.vlen THEN n.v ELSE Junk

\* variant: the caller's function runs without the lock
CopyAndRelease(t) ==
  /\ At(t, "copy")
  /\ IF call[t].op = "get"
       THEN /\ res' = [res EXCEPT ![t] = Content(office[node[t]])]
            /\ Goto(t, "unlock")
            /\ UNCHANGED <<lock, reg>>
       ELSE /\ reg' = [reg EXCEPT ![t] = Content(office[node[t]])]
            /\ Goto(t, "call")
            /\ lock' = NoThread
            /\ UNCHANGED res
  /\ UNCHANGED <<office, call, node, left, fault>>

\* vlen bytes of v go to a Janet buffer: get's result, or the function's argument
Copy(t) ==
  /\ At(t, "copy")
  /\ IF call[t].op = "get"
       THEN /\ res' = [res EXCEPT ![t] = Content(office[node[t]])]
            /\ Goto(t, "unlock")
            /\ UNCHANGED reg
       ELSE /\ reg' = [reg EXCEPT ![t] = Content(office[node[t]])]
            /\ Goto(t, "call")
            /\ UNCHANGED res
  /\ UNCHANGED <<office, lock, call, node, left, fault>>

\* unmarshal of garbage raises
Outcome(t) == IF reg[t] \in Values THEN call[t].f[reg[t]] ELSE Raise

\* variant: the error of the function is taken for its value
CallFunStoresError(t) ==
  /\ At(t, "call")
  /\ Outcome(t) # Reenter
  /\ reg' = [reg EXCEPT ![t] = Outcome(t)]
  /\ Goto(t, "put")
  /\ UNCHANGED <<office, lock, call, node, res, left, fault>>

\* janet_call runs the caller's function with the spinlock taken
CallFun(t) ==
  /\ At(t, "call")
  /\ \/ /\ Outcome(t) \in Values
        /\ reg' = [reg EXCEPT ![t] = Outcome(t)]
        /\ Goto(t, "put")
        /\ UNCHANGED res
     \/ /\ Outcome(t) = Raise       \* janet_panicv jumps over the unlock
        /\ res' = [res EXCEPT ![t] = Raise]
        /\ Goto(t, "ret")
        /\ UNCHANGED reg
     \/ /\ Outcome(t) = Reenter     \* it spins on the lock it holds itself
        /\ Goto(t, "reenter")
        /\ UNCHANGED <<reg, res>>
  /\ UNCHANGED <<office, lock, call, node, left, fault>>

\* variant: table_put adds a node without looking for the key
TablePutAdds(t) ==
  /\ At(t, "put")
  /\ office' = Append(office, RawNode)
  /\ node' = [node EXCEPT ![t] = Len(office) + 1]
  /\ Goto(t, "key")
  /\ UNCHANGED <<lock, call, reg, res, left, fault>>

\* table_put: free the old value in place, or link a node that is not filled yet
TablePut(t) ==
  /\ At(t, "put")
  /\ \/ \E i \in DOMAIN office :
          /\ Finds(call[t].k, i)
          /\ office' = [office EXCEPT ![i].v = Junk]
          /\ node' = [node EXCEPT ![t] = i]
          /\ Goto(t, "val")
          /\ UNCHANGED <<lock, call, reg, res, left, fault>>
     \/ /\ Misses(call[t].k)
        /\ office' = Append(office, RawNode)
        /\ node' = [node EXCEPT ![t] = Len(office) + 1]
        /\ Goto(t, "key")
        /\ UNCHANGED <<lock, call, reg, res, left, fault>>
     \/ Strays(call[t].k) /\ Crash("stray")

FillKey(t) ==
  /\ At(t, "key")
  /\ office' = [office EXCEPT ![node[t]].k = call[t].k]
  /\ Goto(t, "val")
  /\ UNCHANGED <<lock, call, node, reg, res, left, fault>>

FillValue(t) ==
  /\ At(t, "val")
  /\ office' = [office EXCEPT ![node[t]].v = reg[t]]
  /\ Goto(t, "len")
  /\ UNCHANGED <<lock, call, node, reg, res, left, fault>>

\* variant: the next pointer of a new node is not set
FillLengthOnly(t) ==
  /\ At(t, "len")
  /\ office' = [office EXCEPT ![node[t]].vlen = reg[t]]
  /\ Goto(t, "unlock")
  /\ UNCHANGED <<lock, call, node, reg, res, left, fault>>

\* vlen, and in a new node next = NULL
FillLength(t) ==
  /\ At(t, "len")
  /\ office' = [office EXCEPT ![node[t]].vlen = reg[t], ![node[t]].ends = TRUE]
  /\ Goto(t, "unlock")
  /\ UNCHANGED <<lock, call, node, reg, res, left, fault>>

\* variant: update_wrapped returns without the unlock
UnlockNotUpdate(t) ==
  /\ At(t, "unlock")
  /\ lock' = IF call[t].op = "update" THEN lock ELSE NoThread
  /\ res' = IF call[t].op = "get" THEN res ELSE [res EXCEPT ![t] = True]
  /\ Goto(t, "idle")
  /\ UNCHANGED <<office, call, node, reg, left, fault>>

\* pthread_spin_unlock and the return
Unlock(t) ==
  /\ At(t, "unlock")
  /\ lock' = NoThread
  /\ res' = IF call[t].op = "get" THEN res ELSE [res EXCEPT ![t] = True]
  /\ Goto(t, "idle")
  /\ UNCHANGED <<office, call, node, reg, left, fault>>

\* the exits of Walk and CallFun that leave without unlocking
Leave(t) ==
  /\ At(t, "ret")
  /\ Goto(t, "idle")
  /\ UNCHANGED <<office, lock, call, node, reg, res, left, fault>>

Step(t) == \/ Lock(t)
           \/ Walk(t)
           \/ Copy(t)
           \/ CallFun(t)
           \/ TablePut(t)
           \/ FillKey(t)
           \/ FillValue(t)
           \/ FillLength(t)
           \/ Unlock(t)
           \/ Leave(t)

Next == \E t \in Threads : \/ \E c \in Calls : Invoke(t, c)
                           \/ Step(t)

Spec == Init /\ [][Next]_vars

\* A thread inside a call keeps running; nothing obliges it to make calls, and a
\* spinlock promises no order among the threads that spin on it.
FairSpec == Spec /\ \A t \in Threads : WF_vars(Step(t))

-----------------------------------------------------------------------------
TypeOK ==
  /\ office \in Seq(Node)
  /\ lock \in Threads \cup {NoThread}
  /\ pc \in [Threads -> Labels]
  /\ call \in [Threads -> Calls \cup {NoCall}]
  /\ node \in [Threads -> Nat]
  /\ reg \in [Threads -> Values \cup {NoKey, Junk}]
  /\ res \in [Threads -> Answers]
  /\ left \in [Threads -> 0 .. MaxCalls]
  /\ fault \in {"none", "null", "stray"}

InCall == Labels \ {"idle", "spin"}
Writing == {"key", "val", "len"}

\* The spinlock works as a lock: no two threads are between pthread_spin_lock and
\* the return of get_wrapped, update_wrapped or make_wrapped at the same time.
MutualExclusion == \A t \in Threads : pc[t] \in InCall => lock = t

\* Although table_put links a node before it fills it and frees a value before it
\* stores the new one, no walk meets uninitialised memory and no get returns, and
\* no caller's function receives, a half-replaced value.
NoWildRead ==
  /\ fault # "stray"
  /\ \A t \in Threads : res[t] # Junk /\ (pc[t] = "call" => reg[t] \in Values)

\* No key has two nodes in the office, so that a later make or update cannot be
\* hidden from table_get by an older node.
OneNodePerKey == \A i, j \in DOMAIN office :
                   office[i].k = office[j].k /\ office[i].k # Junk => i = j

\* When the lock stays taken by a thread that is not inside a call, that thread's
\* latest call returned nil for a missing key or raised: every other way out of
\* the three functions releases it.
LockLeftTaken ==
  lock \in Threads => pc[lock] \in InCall \/ res[lock] \in {Missing, Raise}

\* A thread has left a call without releasing the lock, a caller's function spins
\* on the lock its own update holds, or the process has died.
Wedged == \/ fault # "none"
          \/ lock \in Threads /\ pc[lock] \in {"idle", "spin", "reenter"}

\* Every call that was made returns, or the boxes are wedged: nothing else keeps a
\* thread waiting, whatever the other threads do.
ReturnsOrWedged == \A t \in Threads : pc[t] = "spin" ~> (pc[t] = "idle" \/ Wedged)

-----------------------------------------------------------------------------
(***************************************************************************)
(* The boxes an outside observer may believe in.  make and update take     *)
(* effect when table_put starts: from then on the lock keeps everybody     *)
(* else away until the value is in place.                                  *)
(***************************************************************************)
Boxes ==
  [k \in Keys |->
     IF lock \in Threads /\ pc[lock] \in Writing /\ call[lock].k = k THEN reg[lock]
     ELSE IF \E i \in DOMAIN office : office[i].k = k
     THEN office[CHOOSE i \in DOMAIN office : office[i].k = k].v
     ELSE Missing]

Phase == [t \in Threads |->
            CASE pc[t] = "idle" -> "idle"
              [] pc[t] \in Writing \cup {"unlock", "ret"} -> "done"
              [] OTHER -> "pending"]

Answer == [t \in Threads |->
             IF pc[t] \in Writing \/ (pc[t] = "unlock" /\ call[t].op # "get")
             THEN True ELSE res[t]]

BoxesAtStart ==
  [k \in Keys |->
     IF \E i \in DOMAIN Premade : Premade[i][1] = k
     THEN Premade[CHOOSE i \in DOMAIN Premade : Premade[i][1] = k][2]
     ELSE Missing]

Atom == INSTANCE AtomSpec
          WITH boxes <- Boxes, phase <- Phase, acall <- call, answer <- Answer

\* The linked list behind the spinlock is a map of boxes with atomic make, get and
\* update: no lost update, no stale or torn get, no effect of a raising update.
AtomicBoxes == Atom!ASpec
=============================================================================
