----------------------------- MODULE OfficeLoad -----------------------------
(***************************************************************************)
(* How the boxes of src/pobox.c come into being.  Every Janet VM that      *)
(* imports com.ahungry.conc.atom runs the entry point of the native module *)
(* and with it ensure_office, on globals that all VMs of the process       *)
(* share.  The HTTP server starts one VM per connection, and each imports  *)
(* the handler anew (janet_universal_cb), so that imports run at the same  *)
(* time as one another and as the calls of VMs that are past theirs.       *)
(*                                                                         *)
(* Every VM imports the module, makes one box (atom/make, with the stores  *)
(* of table_put reduced to the one that links the node) and ends.  Pobox   *)
(* starts where this module says "settled".                                *)
(***************************************************************************)
EXTENDS Naturals, Sequences

CONSTANTS
  VMs,     \* the VMs that import the module, each with a box of its own to make
  NoVM,    \* NULL, and the value of a free lock
  Nobody   \* a zeroed lock where pthread_spin_init stores something else than 0

ASSUME VMAssumption == NoVM \notin VMs /\ Nobody \notin VMs /\ NoVM # Nobody

VARIABLES
  office,   \* the VM whose malloc the global points to, or NoVM
  raw,      \* the offices allocated and not filled: next is uninitialised
  list,     \* per office: the boxes behind the sentinel
  lock,     \* the spinlock: its holder, NoVM if free, or Nobody
  pc,       \* per VM: the next step
  seen,     \* per VM in table_put: the office its walk started at ...
  last,     \* ... and last_node: the VM whose box it is, NoVM for the sentinel
  crashed,  \* a walk followed an uninitialised pointer
  raced     \* a VM came past the NULL check while another was inside it

vars == <<office, raw, list, lock, pc, seen, last, crashed, raced>>

Labels == {"away", "check", "alloc", "fill", "init", "spin", "walk", "link", "unlock", "done"}
Inside == {"alloc", "fill", "init"}
Holding == {"walk", "link", "unlock"}

At(v, l) == ~crashed /\ pc[v] = l
Goto(v, l) == pc' = [pc EXCEPT ![v] = l]

\* The lock is zeroed memory until the first pthread_spin_init: free or taken,
\* depending on the C library.
Init ==
  /\ office = NoVM
  /\ raw = {}
  /\ list = [v \in VMs |-> <<>>]
  /\ lock \in {NoVM, Nobody}
  /\ pc = [v \in VMs |-> "away"]
  /\ seen = [v \in VMs |-> NoVM]
  /\ last = [v \in VMs |-> NoVM]
  /\ crashed = FALSE
  /\ raced = FALSE

\* import: the entry point of the module is called
Import(v) ==
  /\ At(v, "away")
  /\ Goto(v, "check")
  /\ UNCHANGED <<office, raw, list, lock, seen, last, crashed, raced>>

Others(v) == \E w \in VMs \ {v} : pc[w] \in Inside

\* variant: the office is set up whatever the pointer says
CheckAlways(v) ==
  /\ At(v, "check")
  /\ Goto(v, "alloc")
  /\ raced' = (raced \/ Others(v))
  /\ UNCHANGED <<office, raw, list, lock, seen, last, crashed>>

\* if (NULL == office)
Check(v) ==
  /\ At(v, "check")
  /\ Goto(v, IF office = NoVM THEN "alloc" ELSE "spin")
  /\ raced' = (raced \/ Others(v))
  /\ UNCHANGED <<office, raw, list, lock, seen, last, crashed>>

\* office = malloc (...): visible to everybody before it is filled
Alloc(v) ==
  /\ At(v, "alloc")
  /\ office' = v
  /\ raw' = raw \cup {v}
  /\ Goto(v, "fill")
  /\ UNCHANGED <<list, lock, seen, last, crashed, raced>>

\* variant: the next pointer is left as malloc gave it
FillNotNext(v) ==
  /\ At(v, "fill")
  /\ Goto(v, "init")
  /\ UNCHANGED <<office, raw, list, lock, seen, last, crashed, raced>>

\* The stores to the fields go through the global, the last one is next = NULL: it
\* cuts off what others have linked there.
Fill(v) ==
  /\ At(v, "fill")
  /\ raw' = raw \ {office}
  /\ list' = [list EXCEPT ![office] = <<>>]
  /\ Goto(v, "init")
  /\ UNCHANGED <<office, lock, seen, last, crashed, raced>>

\* variant: the lock is not initialised
SpinInitNot(v) ==
  /\ At(v, "init")
  /\ Goto(v, "spin")
  /\ UNCHANGED <<office, raw, list, lock, seen, last, crashed, raced>>

\* pthread_spin_init, whoever holds the lock; the VM's import is over
SpinInit(v) ==
  /\ At(v, "init")
  /\ lock' = NoVM
  /\ Goto(v, "spin")
  /\ UNCHANGED <<office, raw, list, seen, last, crashed, raced>>

-----------------------------------------------------------------------------
(* atom/make with a new key *)

SpinLock(v) ==
  /\ At(v, "spin") /\ lock = NoVM
  /\ lock' = v
  /\ Goto(v, "walk")
  /\ UNCHANGED <<office, raw, list, seen, last, crashed, raced>>

LastNode(s) == IF s = <<>> THEN NoVM ELSE s[Len(s)]

\* table_put goes through to the last node
Walk(v) ==
  /\ At(v, "walk")
  /\ IF office \in raw
       THEN crashed' = TRUE /\ UNCHANGED <<seen, last, pc>>
       ELSE /\ seen' = [seen EXCEPT ![v] = office]
            /\ last' = [last EXCEPT ![v] = LastNode(list[office])]
            /\ Goto(v, "link")
            /\ UNCHANGED crashed
  /\ UNCHANGED <<office, raw, list, lock, raced>>

\* s after last_node->next = nnode: what another VM linked there meanwhile is lost,
\* and nothing changes when last_node itself has been cut off
Linked(s, node, v) ==
  IF node = NoVM THEN <<v>>
  ELSE IF \E i \in DOMAIN s : s[i] = node
  THEN Append(SubSeq(s, 1, CHOOSE i \in DOMAIN s : s[i] = node), v)
  ELSE s

Link(v) ==
  /\ At(v, "link")
  /\ list' = [list EXCEPT ![seen[v]] = Linked(@, last[v], v)]
  /\ Goto(v, "unlock")
  /\ UNCHANGED <<office, raw, lock, seen, last, crashed, raced>>

\* variant: the release stores a zero instead of the value of a free lock
UnlockStoresZero(v) ==
  /\ At(v, "unlock")
  /\ lock' = 0
  /\ Goto(v, "done")
  /\ UNCHANGED <<office, raw, list, seen, last, crashed, raced>>

Unlock(v) ==
  /\ At(v, "unlock")
  /\ lock' = NoVM
  /\ Goto(v, "done")
  /\ UNCHANGED <<office, raw, list, seen, last, crashed, raced>>

Step(v) == \/ Check(v)
           \/ Alloc(v)
           \/ Fill(v)
           \/ SpinInit(v)
           \/ SpinLock(v)
           \/ Walk(v)
           \/ Link(v)
           \/ Unlock(v)

Next == \E v \in VMs : Import(v) \/ Step(v)

Spec == Init /\ [][Next]_vars

\* A VM that has begun its import keeps running.
FairSpec == Spec /\ \A v \in VMs : WF_vars(Step(v))

-----------------------------------------------------------------------------
TypeOK ==
  /\ office \in VMs \cup {NoVM}
  /\ raw \subseteq VMs
  /\ list \in [VMs -> Seq(VMs)]
  /\ lock \in VMs \cup {NoVM, Nobody}
  /\ pc \in [VMs -> Labels]
  /\ seen \in [VMs -> VMs \cup {NoVM}]
  /\ last \in [VMs -> VMs \cup {NoVM}]
  /\ crashed \in BOOLEAN
  /\ raced \in BOOLEAN

\* One VM has gone through ensure_office and none is inside it.
Settled == /\ office # NoVM
           /\ \A v \in VMs : pc[v] \notin Inside

Reachable(v) == office # NoVM /\ \E i \in DOMAIN list[office] : list[office][i] = v

\* When the first import was over before any other VM came to the NULL check, every
\* box that was made can be found, no two VMs are in the list at the same time, and
\* none follows an uninitialised pointer, however later imports and calls interleave.
BoxesKept ==
  ~raced => /\ ~crashed
            /\ \A v, w \in VMs : pc[v] \in Holding /\ pc[w] \in Holding => v = w
            /\ \A v \in VMs : pc[v] \in {"unlock", "done"} => Reachable(v)

\* Once settled, the office is settled for good: no later import enters the body of
\* ensure_office or replaces the list, and a lock that was taken is freed by the
\* VM that holds it and by no import.
LoadedOnce ==
  [][Settled => /\ Settled' /\ office' = office
                /\ (~raced /\ lock \in VMs /\ lock' # lock) => pc[lock] = "unlock"]_vars

\* Every VM that begins its import gets its box made and ends, or the process has
\* died: also when imports race, and also where zeroed memory is a taken lock,
\* nobody is left waiting for a lock that nobody will free.
EveryImportEnds == \A v \in VMs : pc[v] = "check" ~> (pc[v] = "done" \/ crashed)
=============================================================================
