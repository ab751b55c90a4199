-------------------------- MODULE OfficeLoadProofs --------------------------
(***************************************************************************)
(* Proofs about OfficeLoad, for any number of VMs.                         *)
(*                                                                         *)
(* BoxesKept is not inductive: that a node is linked at the end of the     *)
(* list that everybody sees needs that the walk that found that end was in *)
(* the same office and that nobody has linked since, which needs the lock, *)
(* which in turn needs that no import resets it under its holder.  Alone,  *)
(* Held, Cut, Found and Listed say so, for the behaviours in which no VM   *)
(* came to the NULL check while another was behind it.                     *)
(***************************************************************************)
EXTENDS OfficeLoad, Integers, SequenceTheorems, TLAPS

\* Before the first malloc nobody is past it.
Opened == office = NoVM => \A v \in VMs : pc[v] \in {"away", "check", "alloc"}

\* While one VM is inside ensure_office, no other is past the NULL check.
Alone ==
  /\ \A v, w \in VMs : pc[v] \in Inside /\ w # v => pc[w] \in {"away", "check"}
  /\ \A v \in VMs : pc[v] = "alloc" => office = NoVM

\* A VM that is in the list holds the lock.
Held == \A v \in VMs : pc[v] \in Holding => lock = v

\* The only office without its fields is the one that is being filled.
Cut == \A v \in raw : pc[v] = "fill" /\ office = v

\* Between walk and link, last_node is the end of the list that everybody sees.
Found == \A v \in VMs :
  pc[v] = "link" => seen[v] = office /\ last[v] = LastNode(list[office])

\* The list holds the boxes that were linked, each once.
Listed ==
  /\ office # NoVM =>
       /\ \A i \in DOMAIN list[office] : pc[list[office][i]] \in {"unlock", "done"}
       /\ \A i, j \in DOMAIN list[office] : list[office][i] = list[office][j] => i = j
  /\ \A v \in VMs : pc[v] \in {"unlock", "done"} => Reachable(v)

\* There is nothing behind a sentinel that nobody sees.
Bare == \A v \in VMs : v # office => list[v] = <<>>

Calm == ~crashed /\ Alone /\ Held /\ Cut /\ Found /\ Listed /\ Bare

IInv == TypeOK /\ Opened /\ (~raced => Calm)

-----------------------------------------------------------------------------
\* Linking behind a node keeps a sequence of VMs.
LEMMA LinkedType ==
  ASSUME NEW s \in Seq(VMs), NEW n, NEW v \in VMs
  PROVE Linked(s, n, v) \in Seq(VMs)
<1>1. CASE n = NoVM
  BY <1>1 DEF Linked
<1>2. CASE n # NoVM /\ \E i \in DOMAIN s : s[i] = n
  <2> DEFINE k == CHOOSE i \in DOMAIN s : s[i] = n
  <2>1. k \in DOMAIN s
    BY <1>2
  <2>2. k \in 1 .. Len(s)
    BY <2>1
  <2> HIDE DEF k
  <2>3. SubSeq(s, 1, k) \in Seq(VMs)
    <3>1. k \in Int /\ \A i \in 1 .. k : s[i] \in VMs
      BY <2>2, LenProperties
    <3> QED
      BY <3>1, SubSeqProperties
  <2>4. Append(SubSeq(s, 1, k), v) \in Seq(VMs)
    BY <2>3, AppendProperties
  <2> QED
    BY <1>2, <2>4 DEF Linked, k
<1>3. CASE n # NoVM /\ ~\E i \in DOMAIN s : s[i] = n
  BY <1>3 DEF Linked
<1> QED
  BY <1>1, <1>2, <1>3

\* In a list without repetitions, a box linked behind the last node is appended.
LEMMA LinkedLast ==
  ASSUME NEW s \in Seq(VMs), NEW v \in VMs,
         \A i, j \in DOMAIN s : s[i] = s[j] => i = j
  PROVE Linked(s, LastNode(s), v) = Append(s, v)
<1> USE VMAssumption
<1>1. CASE s = <<>>
  BY <1>1 DEF Linked, LastNode
<1>2. CASE s # <<>>
  <2>1. Len(s) \in DOMAIN s /\ s[Len(s)] \in VMs
    BY <1>2, EmptySeq, LenProperties
  <2>2. LastNode(s) = s[Len(s)] /\ s[Len(s)] # NoVM
    BY <1>2, <2>1 DEF LastNode
  <2> DEFINE k == CHOOSE i \in DOMAIN s : s[i] = s[Len(s)]
  <2>3. k \in DOMAIN s /\ s[k] = s[Len(s)]
    BY <2>1
  <2>4. k = Len(s)
    BY <2>1, <2>3
  <2>5. SubSeq(s, 1, Len(s)) = s
    BY SubSeqFull
  <2> HIDE DEF k
  <2>6. Linked(s, LastNode(s), v) = Append(SubSeq(s, 1, k), v)
    BY <2>1, <2>2 DEF Linked, k
  <2> QED
    BY <2>4, <2>5, <2>6
<1> QED
  BY <1>1, <1>2

-----------------------------------------------------------------------------
\* Initially nothing is loaded.
LEMMA InitIInv == Init => IInv
<1> SUFFICES ASSUME Init PROVE IInv
  OBVIOUS
<1>1. TypeOK
  <2>1. <<>> \in Seq(VMs)
    BY EmptySeq
  <2> QED
    BY <2>1 DEF Init, TypeOK, Labels
<1>2. Opened /\ Calm
  BY DEF Init, Opened, Calm, Alone, Held, Cut, Found, Listed, Bare, Inside, Holding
<1> QED
  BY <1>1, <1>2 DEF IInv

\* Types survive every step, and nobody gets past ensure_office without an office.
LEMMA NextTypeOK == TypeOK /\ Opened /\ [Next]_vars => TypeOK' /\ Opened'
<1> SUFFICES ASSUME TypeOK, Opened, [Next]_vars PROVE TypeOK' /\ Opened'
  OBVIOUS
<1> USE VMAssumption DEF TypeOK, Labels, At, Goto
<1>1. CASE UNCHANGED vars
  BY <1>1 DEF vars, Opened
<1>2. ASSUME NEW v \in VMs, Import(v) \/ Step(v) PROVE TypeOK' /\ Opened'
  <2>1. CASE Import(v)
    BY <2>1 DEF Import, Opened
  <2>5. CASE Check(v)
    <3>1. raced' \in BOOLEAN
      BY <2>5 DEF Check
    <3>2. pc' \in [VMs -> Labels] /\ UNCHANGED <<office, raw, list, lock, seen, last, crashed>>
      BY <2>5 DEF Check
    <3>3. Opened'
      BY <2>5 DEF Check, Opened
    <3> QED
      BY <3>1, <3>2, <3>3
  <2>6. CASE Alloc(v)
    BY <2>6 DEF Alloc, Opened
  <2>7. CASE SpinInit(v) \/ SpinLock(v)
    BY <2>7 DEF SpinInit, SpinLock, Opened
  <2>8. CASE Unlock(v)
    BY <2>8 DEF Unlock, Opened
  <2>2. CASE Fill(v)
    <3>1. <<>> \in Seq(VMs)
      BY EmptySeq
    <3> QED
      BY <2>2, <3>1 DEF Fill, Opened
  <2>3. CASE Walk(v)
    <3>1. office \in VMs
      BY <2>3 DEF Walk, Opened
    <3>2. LastNode(list[office]) \in VMs \cup {NoVM}
      <4>1. list[office] \in Seq(VMs)
        BY <3>1
      <4> QED
        BY <4>1, EmptySeq, LenProperties DEF LastNode
    <3>3. CASE office \in raw
      BY <2>3, <3>1, <3>3 DEF Walk, Opened
    <3>4. CASE office \notin raw
      <4>1. /\ seen' = [seen EXCEPT ![v] = office]
            /\ last' = [last EXCEPT ![v] = LastNode(list[office])]
            /\ pc' = [pc EXCEPT ![v] = "link"]
            /\ UNCHANGED <<office, raw, list, lock, crashed, raced>>
        BY <2>3, <3>4 DEF Walk
      <4> QED
        BY <3>1, <3>2, <4>1 DEF Opened
    <3> QED
      BY <3>3, <3>4
  <2>4. CASE Link(v)
    <3>1. list' \in [VMs -> Seq(VMs)]
      BY <2>4, LinkedType DEF Link
    <3> QED
      BY <2>4, <3>1 DEF Link, Opened
  <2> QED
    BY <1>2, <2>1, <2>2, <2>3, <2>4, <2>5, <2>6, <2>7, <2>8 DEF Step
<1> QED
  BY <1>1, <1>2 DEF Next

-----------------------------------------------------------------------------
(* The steps of a behaviour without a race. *)

\* The import of the module and the NULL check.
LEMMA CheckCalm ==
  ASSUME IInv, NEW v \in VMs, Import(v) \/ Check(v), ~raced'
  PROVE Calm'
<1> USE VMAssumption DEF At, Goto, Inside, Holding
<1>1. Calm /\ TypeOK /\ Opened
  BY DEF IInv, Import, Check, TypeOK
<1>2. pc[v] \in {"away", "check"} /\ ~crashed' /\ UNCHANGED <<office, raw, list, lock, seen, last>>
  BY DEF Import, Check
<1>3. \A w \in VMs \ {v} : pc'[w] = pc[w]
  BY <1>1 DEF Import, Check, TypeOK
<1>4. pc'[v] \in {"check", "alloc", "spin"} /\ (pc'[v] = "alloc" => office = NoVM)
        /\ (pc'[v] = "spin" => office # NoVM)
        /\ (pc'[v] # "check" => \A w \in VMs \ {v} : pc[w] \notin Inside)
  BY <1>1 DEF Import, Check, TypeOK, Others
<1>5. Alone'
  BY <1>1, <1>2, <1>3, <1>4 DEF Calm, Alone, Opened
<1>6. Held' /\ Found'
  BY <1>1, <1>2, <1>3, <1>4 DEF Calm, Held, Found
<1>7. Cut'
  BY <1>1, <1>2, <1>3, <1>4 DEF Calm, Cut, TypeOK
<1>8. Listed'
  <2>1. office # NoVM => \A i \in DOMAIN list[office] : list[office][i] \in VMs
    BY <1>1, LenProperties DEF TypeOK
  <2> QED
    BY <1>1, <1>2, <1>3, <1>4, <2>1 DEF Calm, Listed, Reachable
<1>9. Bare'
  BY <1>1, <1>2 DEF Calm, Bare
<1> QED
  BY <1>2, <1>5, <1>6, <1>7, <1>8, <1>9 DEF Calm

\* The body of ensure_office.
LEMMA InsideCalm ==
  ASSUME IInv, NEW v \in VMs, Alloc(v) \/ Fill(v) \/ SpinInit(v), ~raced'
  PROVE Calm'
<1> USE VMAssumption DEF At, Goto, Inside, Holding
<1>1. Calm /\ TypeOK /\ Opened
  BY DEF IInv, Alloc, Fill, SpinInit, TypeOK
<1>2. \A w \in VMs \ {v} : pc[w] \in {"away", "check"} /\ pc'[w] = pc[w]
  BY <1>1 DEF Alloc, Fill, SpinInit, TypeOK, Calm, Alone
<1>3. pc'[v] \in {"fill", "init", "spin"} /\ ~crashed'
  BY <1>1 DEF Alloc, Fill, SpinInit, TypeOK
<1>4. Alone' /\ Held' /\ Found'
  BY <1>2, <1>3 DEF Alone, Held, Found
<1>5. Cut'
  <2>1. CASE Alloc(v)
    BY <1>1, <1>2, <2>1 DEF Alloc, Calm, Cut, TypeOK
  <2>2. CASE Fill(v) \/ SpinInit(v)
    BY <1>1, <1>2, <2>2 DEF Fill, SpinInit, Calm, Cut, TypeOK
  <2> QED
    BY <2>1, <2>2
<1>6. office' # NoVM => \A i \in DOMAIN list'[office'] : FALSE
  <2>1. CASE Alloc(v)
    BY <1>1, <2>1 DEF Alloc, TypeOK, Calm, Alone, Bare
  <2>2. CASE Fill(v)
    BY <1>1, <2>2 DEF Fill, TypeOK
  <2>3. CASE SpinInit(v)
    <3> SUFFICES ASSUME office # NoVM, NEW i \in DOMAIN list[office] PROVE FALSE
      BY <2>3 DEF SpinInit
    <3>1. list[office][i] \in VMs
      BY <1>1, LenProperties DEF TypeOK
    <3>2. pc[list[office][i]] \in {"unlock", "done"}
      BY <1>1 DEF Calm, Listed
    <3> QED
      BY <1>2, <2>3, <3>1, <3>2 DEF SpinInit
  <2> QED
    BY <2>1, <2>2, <2>3
<1>7. Listed'
  BY <1>2, <1>3, <1>6 DEF Listed
<1>8. Bare'
  BY <1>1 DEF Alloc, Fill, SpinInit, TypeOK, Calm, Alone, Bare
<1> QED
  BY <1>3, <1>4, <1>5, <1>7, <1>8 DEF Calm

\* Taking and releasing the lock.
LEMMA LockCalm ==
  ASSUME IInv, NEW v \in VMs, SpinLock(v) \/ Unlock(v), ~raced'
  PROVE Calm'
<1> USE VMAssumption DEF At, Goto, Inside, Holding
<1>1. Calm /\ TypeOK
  BY DEF IInv, SpinLock, Unlock
<1>2. /\ \/ pc[v] = "spin" /\ pc'[v] = "walk"
         \/ pc[v] = "unlock" /\ pc'[v] = "done"
      /\ \A w \in VMs \ {v} : pc'[w] = pc[w]
      /\ UNCHANGED <<office, raw, list, seen, last, crashed>>
  BY <1>1 DEF SpinLock, Unlock, TypeOK
<1>3. Alone' /\ Found' /\ Bare'
  BY <1>1, <1>2 DEF Calm, Alone, Found, Bare
<1>4. Held'
  <2>1. CASE SpinLock(v)
    BY <1>1, <1>2, <2>1 DEF SpinLock, Calm, Held
  <2>2. CASE Unlock(v)
    BY <1>1, <1>2, <2>2 DEF Unlock, Calm, Held
  <2> QED
    BY <2>1, <2>2
<1>5. Cut'
  BY <1>1, <1>2 DEF Calm, Cut, TypeOK
<1>6. Listed'
  <2>1. office # NoVM => \A i \in DOMAIN list[office] : list[office][i] \in VMs
    BY <1>1, LenProperties DEF TypeOK
  <2> QED
    BY <1>1, <1>2, <2>1 DEF Calm, Listed, Reachable
<1> QED
  BY <1>1, <1>2, <1>3, <1>4, <1>5, <1>6 DEF Calm

\* The walk: it starts at a filled office, since nobody is inside ensure_office.
LEMMA WalkCalm ==
  ASSUME IInv, NEW v \in VMs, Walk(v), ~raced'
  PROVE Calm'
<1> USE VMAssumption DEF At, Goto, Inside, Holding
<1>1. Calm /\ TypeOK /\ Opened /\ pc[v] = "walk"
  BY DEF IInv, Walk
<1>2. office \in VMs /\ office \notin raw
  BY <1>1 DEF TypeOK, Opened, Calm, Cut, Alone
<1>3. /\ pc'[v] = "link" /\ seen'[v] = office /\ last'[v] = LastNode(list[office])
      /\ \A w \in VMs \ {v} : pc'[w] = pc[w]
      /\ UNCHANGED <<office, raw, list, lock, crashed>>
  BY <1>1, <1>2 DEF Walk, TypeOK
<1>4. Alone' /\ Held' /\ Bare'
  BY <1>1, <1>3 DEF Calm, Alone, Held, Bare
<1>5. Cut'
  BY <1>1, <1>3 DEF Calm, Cut, TypeOK
<1>6. \A w \in VMs \ {v} : pc'[w] # "link"
  BY <1>1, <1>3 DEF Calm, Held
<1>7. Found'
  BY <1>3, <1>6 DEF Found
<1>8. Listed'
  <2>1. \A i \in DOMAIN list[office] : list[office][i] \in VMs
    BY <1>1, <1>2, LenProperties DEF TypeOK
  <2> QED
    BY <1>1, <1>3, <2>1 DEF Calm, Listed, Reachable
<1> QED
  BY <1>1, <1>3, <1>4, <1>5, <1>7, <1>8 DEF Calm

\* The store that links the node: it is appended, and nothing is lost.
LEMMA LinkCalm ==
  ASSUME IInv, NEW v \in VMs, Link(v), ~raced'
  PROVE Calm'
<1> USE VMAssumption DEF At, Goto, Inside, Holding
<1>1. Calm /\ TypeOK /\ Opened /\ pc[v] = "link"
  BY DEF IInv, Link
<1>2. office \in VMs /\ seen[v] = office /\ last[v] = LastNode(list[office])
  BY <1>1 DEF TypeOK, Opened, Calm, Found
<1> DEFINE s == list[office]
<1>3. s \in Seq(VMs) /\ \A i \in DOMAIN s : s[i] \in VMs /\ s[i] # v
  <2>1. s \in Seq(VMs)
    BY <1>1, <1>2 DEF TypeOK
  <2>2. \A i \in DOMAIN s : s[i] \in VMs
    BY <2>1, LenProperties
  <2>3. \A i \in DOMAIN s : pc[s[i]] # "link"
    BY <1>1, <1>2 DEF Calm, Listed
  <2> QED
    BY <1>1, <2>1, <2>2, <2>3
<1>4. \A i, j \in DOMAIN s : s[i] = s[j] => i = j
  BY <1>1, <1>2 DEF Calm, Listed
<1>5. Linked(s, LastNode(s), v) = Append(s, v)
  BY <1>3, <1>4, LinkedLast
<1>6. /\ pc'[v] = "unlock" /\ \A w \in VMs \ {v} : pc'[w] = pc[w]
      /\ list'[office] = Append(s, v)
      /\ \A w \in VMs : w # office => list'[w] = list[w]
      /\ UNCHANGED <<office, raw, lock, seen, last, crashed>>
  BY <1>1, <1>2, <1>5 DEF Link, TypeOK
<1>7. Alone' /\ Held' /\ Bare'
  BY <1>1, <1>6 DEF Calm, Alone, Held, Bare
<1>8. Cut'
  BY <1>1, <1>6 DEF Calm, Cut, TypeOK
<1>9. Found'
  <2>1. \A w \in VMs : pc'[w] # "link"
    BY <1>1, <1>6 DEF Calm, Held
  <2> QED
    BY <2>1 DEF Found
<1>10. /\ DOMAIN Append(s, v) = (DOMAIN s) \cup {Len(s) + 1}
       /\ Append(s, v)[Len(s) + 1] = v
       /\ \A i \in DOMAIN s : Append(s, v)[i] = s[i]
  <2>1. DOMAIN s = 1 .. Len(s) /\ Len(s) \in Nat
    BY <1>3, LenProperties
  <2> QED
    BY <1>3, <2>1, AppendProperties
<1> DEFINE t == Append(s, v)
<1>11. \A i \in DOMAIN t : pc'[t[i]] \in {"unlock", "done"}
  BY <1>1, <1>2, <1>3, <1>6, <1>10 DEF Calm, Listed
<1>12. \A i, j \in DOMAIN t : t[i] = t[j] => i = j
  BY <1>3, <1>4, <1>10
<1>13. \A w \in VMs : pc'[w] \in {"unlock", "done"} => Reachable(w)'
  <2> SUFFICES ASSUME NEW w \in VMs, pc'[w] \in {"unlock", "done"}
               PROVE \E i \in DOMAIN t : t[i] = w
    BY <1>2, <1>6 DEF Reachable
  <2>1. CASE w = v
    BY <2>1, <1>10
  <2>2. CASE w # v
    <3>1. Reachable(w)
      BY <1>1, <1>6, <2>2 DEF Calm, Listed
    <3>2. PICK i \in DOMAIN s : s[i] = w
      BY <3>1 DEF Reachable
    <3> QED
      BY <3>2, <1>10
  <2> QED
    BY <2>1, <2>2
<1>14. Listed'
  <2>1. list'[office'] = t
    BY <1>6
  <2> HIDE DEF t
  <2> QED
    BY <2>1, <1>11, <1>12, <1>13 DEF Listed
<1> QED
  BY <1>1, <1>6, <1>7, <1>8, <1>9, <1>14 DEF Calm

-----------------------------------------------------------------------------
\* The invariant is inductive.
LEMMA NextIInv == IInv /\ [Next]_vars => IInv'
<1> SUFFICES ASSUME IInv, [Next]_vars PROVE IInv'
  OBVIOUS
<1>1. TypeOK' /\ Opened'
  BY NextTypeOK DEF IInv
<1>2. ASSUME ~raced' PROVE Calm'
  <2>1. CASE UNCHANGED vars
    BY <1>2, <2>1 DEF vars, IInv, Calm, Alone, Held, Cut, Found, Listed, Bare, Reachable
  <2>2. ASSUME NEW v \in VMs, Import(v) \/ Step(v) PROVE Calm'
    BY <1>2, <2>2, CheckCalm, InsideCalm, LockCalm, WalkCalm, LinkCalm DEF Step
  <2> QED
    BY <2>1, <2>2 DEF Next
<1> QED
  BY <1>1, <1>2 DEF IInv

\* The inductive invariant holds throughout.
THEOREM LoadInvariance == Spec => []IInv
BY InitIInv, NextIInv, PTL DEF Spec

\* The variables keep their types, for any number of VMs.
THEOREM LoadTypeCorrect == Spec => []TypeOK
<1>1. IInv => TypeOK
  BY DEF IInv
<1> QED
  BY <1>1, LoadInvariance, PTL

\* When no VM comes to the NULL check of ensure_office while another is behind it, no
\* box is lost, the list is used by one VM at a time and no walk goes astray, for any
\* number of VMs.
THEOREM BoxesStay == Spec => []BoxesKept
<1>1. IInv => BoxesKept
  <2> SUFFICES ASSUME IInv, ~raced PROVE BoxesKept
    BY DEF BoxesKept
  <2>1. Calm
    BY DEF IInv
  <2>2. \A v, w \in VMs : pc[v] \in Holding /\ pc[w] \in Holding => v = w
    BY <2>1 DEF Calm, Held
  <2> QED
    BY <2>1, <2>2 DEF BoxesKept, Calm, Listed
<1> QED
  BY <1>1, LoadInvariance, PTL

\* The office is set up once, and no import frees a lock that a VM holds, for any
\* number of VMs.
THEOREM LoadsOnce == Spec => LoadedOnce
<1>1. IInv /\ [Next]_vars =>
        [Settled => /\ Settled' /\ office' = office
                    /\ (~raced /\ lock \in VMs /\ lock' # lock) => pc[lock] = "unlock"]_vars
  <2> SUFFICES ASSUME IInv, NEW v \in VMs, Import(v) \/ Step(v), Settled
               PROVE /\ Settled' /\ office' = office
                     /\ (~raced /\ lock \in VMs /\ lock' # lock) => pc[lock] = "unlock"
    BY DEF Next
  <2> USE VMAssumption DEF At, Goto, Inside, Settled
  <2>1. TypeOK
    BY DEF IInv
  <2>2. CASE Import(v) \/ Check(v)
    BY <2>1, <2>2 DEF Import, Check, TypeOK
  <2>3. CASE Alloc(v) \/ Fill(v) \/ SpinInit(v)
    BY <2>3 DEF Alloc, Fill, SpinInit
  <2>4. CASE SpinLock(v) \/ Walk(v) \/ Link(v)
    BY <2>1, <2>4 DEF SpinLock, Walk, Link, TypeOK
  <2>5. CASE Unlock(v)
    <3>1. ~raced => lock = v
      BY <2>5 DEF Unlock, IInv, Calm, Held, Holding
    <3> QED
      BY <2>1, <2>5, <3>1 DEF Unlock, TypeOK
  <2> QED
    BY <2>2, <2>3, <2>4, <2>5 DEF Step
<1> QED
  BY <1>1, LoadInvariance, PTL DEF Spec, LoadedOnce
=============================================================================
