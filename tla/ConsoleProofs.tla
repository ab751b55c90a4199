--------------------------- MODULE ConsoleProofs ----------------------------
(***************************************************************************)
(* Proofs about Console (IoTerm and Udp in one process), for any number of *)
(* threads, keys, datagrams and starts.                                    *)
(*                                                                         *)
(* ModeRestored: a terminal in raw mode has a call of wait-for-key in its  *)
(* loop and a handler registered that would put it back (Guarded).         *)
(* KeyIsFresh: once a call is in its loop, no key that was typed before it *)
(* began is left in the terminal (Flushed).  HearsItsOwn: what a listen    *)
(* has stored of its datagram is in world until its result is made, unless *)
(* another listen stored anything meanwhile (Stored).  TypeOK: the handlers that    *)
(* calls have yet to register are counted with those registered (Room).    *)
(***************************************************************************)
EXTENDS Console, SequenceTheorems, FiniteSetTheorems, WellFoundedInduction, TLAPS

Key == SUBSET Readers

\* The variables of the terminal and of the process.
Forms ==
  /\ proc \in {"running", "exiting", "gone"} /\ handlers \in Nat
  /\ mode \in {"line", "raw"} /\ saved \in {"unset", "line", "raw"}
  /\ line \in Seq(Key) /\ ready \in Seq(Key)
  /\ at \in [Readers -> Steps]
  /\ got \in [Readers -> Key]
  /\ amiss \in [Readers -> SUBSET {"shared", "refused"}]

\* A process that is gone makes no calls.
Over == proc = "gone" => \A r \in Readers : at[r] = "idle"

Unspoilt == spoilt = "no"

\* Who puts the terminal back.
Guarded == Unspoilt =>
  /\ \A r, q \in Readers : at[r] \in Waiting /\ at[q] \in Waiting => r = q
  /\ mode = "raw" => handlers > 0 /\ \E r \in Readers : at[r] \in {"poll", "restore"}
  /\ \A r \in Readers : at[r] \in {"register", "raw", "poll", "restore"} => saved = "line"
  /\ handlers > 0 => saved = "line"
  /\ saved # "raw"
  /\ proc = "running" => \A r \in Readers : at[r] \in {"raw", "poll", "restore"} => handlers > 0

\* Which keys a call in its loop can still read, if its tcsetattr flushed them.
Flushed == \A r \in Readers : "refused" \notin amiss[r] =>
  /\ at[r] = "poll" => /\ \A i \in DOMAIN line : r \notin line[i]
                       /\ \A i \in DOMAIN ready : r \notin ready[i]
  /\ r \notin got[r]

TermInv == Forms /\ Over /\ Guarded /\ Flushed

-----------------------------------------------------------------------------
(* The terminal. *)

\* A step of src/udp.c leaves the process as it is or ends it.
LEMMA UdpEndsOnly == UdpNext => UNCHANGED <<proc, handlers, starts>> \/ Exit
BY DEF UdpNext, Send, SendDies, Vanishes, Arrives, ListenStep, Listen, Receive, CopyByte,
   StoreLength, StoreNul, Close, Result, TakeByte, CallF, Again, Raises, ListenDies, ReceiveFails,
   procVars

\* Marking keys changes nothing but the mark.
LEMMA Marked ==
  ASSUME NEW q \in Seq(Key), NEW r \in Readers
  PROVE /\ Mark(r, q) \in Seq(Key) /\ DOMAIN Mark(r, q) = DOMAIN q
        /\ \A i \in DOMAIN q : Mark(r, q)[i] = q[i] \cup {r}
<1>1. \A i \in DOMAIN q : q[i] \cup {r} \in Key
  BY LenProperties DEF Key
<1>2. DOMAIN q = 1 .. Len(q) /\ Len(q) \in Nat
  BY LenProperties
<1>3. Mark(r, q) \in [1 .. Len(q) -> Key]
  BY <1>1, <1>2 DEF Mark
<1>4. Mark(r, q) \in Seq(Key)
  BY <1>2, <1>3, SeqDef
<1> QED
  BY <1>4 DEF Mark

\* A call begins.
LEMMA BeginsTerm ==
  ASSUME TermInv, NEW r \in Readers, WaitForKey(r) \/ ReadKey(r)
  PROVE TermInv'
<1> USE DEF Goto
<1>1. Forms /\ Over /\ Guarded /\ Flushed
  BY DEF TermInv
<1>2. /\ Alive /\ at[r] = "idle" /\ UNCHANGED <<mode, saved, procVars>>
      /\ \A q \in Readers \ {r} : at'[q] = at[q] /\ got'[q] = got[q]
      /\ at' \in [Readers -> Steps]
      /\ at'[r] \in {"save", "read"}
  BY <1>1 DEF WaitForKey, ReadKey, Begins, Forms, Steps, Waiting
<1>3. \/ /\ line' = Mark(r, line) /\ ready' = Mark(r, ready) /\ got' = [got EXCEPT ![r] = NoKey]
         /\ amiss'[r] \in {{}, {"shared"}}
      \/ line' = line /\ ready' = ready /\ got' = got /\ amiss'[r] = amiss[r]
  BY DEF WaitForKey, ReadKey, Begins
<1>4. /\ amiss' \in [Readers -> SUBSET {"shared", "refused"}]
      /\ \A q \in Readers \ {r} : "refused" \in amiss[q] => "refused" \in amiss'[q]
  <2>1. PICK mine \in SUBSET {"shared", "refused"} :
          amiss' = [q \in Readers |-> IF q = r THEN mine
                                     ELSE IF at[q] \in Waiting THEN amiss[q] \cup {"shared"}
                                     ELSE amiss[q]]
    <3>1. amiss[r] \in SUBSET {"shared", "refused"}
      BY <1>1 DEF Forms
    <3>2. CASE WaitForKey(r)
      BY <3>2 DEF WaitForKey, Begins
    <3>3. CASE ReadKey(r)
      BY <3>1, <3>3 DEF ReadKey, Begins
    <3> QED
      BY <3>2, <3>3
  <2>2. amiss \in [Readers -> SUBSET {"shared", "refused"}]
    BY <1>1 DEF Forms
  <2> QED
    BY <2>1, <2>2
<1>5. Forms'
  <2>1. line' \in Seq(Key) /\ ready' \in Seq(Key)
    BY <1>1, <1>3, Marked DEF Forms
  <2>2. got' \in [Readers -> Key]
    BY <1>1, <1>3 DEF Forms, Key, NoKey
  <2> QED
    BY <1>1, <1>2, <1>4, <2>1, <2>2 DEF Forms, procVars
<1>6. Over'
  BY <1>1, <1>2 DEF Over, Alive, procVars, Forms
<1>7. Guarded'
  <2> SUFFICES ASSUME Unspoilt' PROVE Guarded!2'
    BY DEF Guarded
  <2>1. Unspoilt /\ (at'[r] = "save" => \A q \in Readers : at[q] \notin Waiting)
    BY <1>1 DEF WaitForKey, ReadKey, Begins, Spoils, Unspoilt, Forms
  <2> QED
    BY <1>1, <1>2, <2>1 DEF Guarded, Waiting, procVars
<1>8. Flushed'
  <2>1. "refused" \notin amiss'[r] => r \notin got'[r]
    BY <1>1, <1>3 DEF Flushed, NoKey, Forms
  <2>2. ASSUME NEW q \in Readers, at'[q] = "poll", "refused" \notin amiss'[q]
        PROVE /\ \A i \in DOMAIN line' : q \notin line'[i]
              /\ \A i \in DOMAIN ready' : q \notin ready'[i]
    <3>1. q # r /\ at[q] = "poll" /\ "refused" \notin amiss[q]
      BY <1>2, <1>4, <2>2
    <3>2. /\ \A i \in DOMAIN line : q \notin line[i]
          /\ \A i \in DOMAIN ready : q \notin ready[i]
      BY <1>1, <3>1 DEF Flushed
    <3>3. CASE line' = line /\ ready' = ready
      BY <3>2, <3>3
    <3>4. CASE line' = Mark(r, line) /\ ready' = Mark(r, ready)
      <4>1. DOMAIN line' = DOMAIN line /\ \A i \in DOMAIN line : line'[i] = line[i] \cup {r}
        BY <1>1, <3>4, Marked DEF Forms
      <4>2. DOMAIN ready' = DOMAIN ready /\ \A i \in DOMAIN ready : ready'[i] = ready[i] \cup {r}
        BY <1>1, <3>4, Marked DEF Forms
      <4> QED
        BY <3>1, <3>2, <4>1, <4>2
    <3> QED
      BY <1>3, <3>3, <3>4
  <2> QED
    BY <1>1, <1>2, <1>4, <2>1, <2>2 DEF Flushed
<1> QED
  BY <1>5, <1>6, <1>7, <1>8 DEF TermInv

\* enable_raw_mode, one lemma for each of its three calls: tcgetattr ...
LEMMA SaveTerm ==
  ASSUME TermInv, NEW r \in Readers, Save(r) \/ SaveFails(r)
  PROVE TermInv'
<1>1. Forms /\ Over /\ Guarded /\ Flushed
  BY DEF TermInv
<1>2. /\ at[r] = "save" /\ at' = [at EXCEPT ![r] = "register"] /\ at' \in [Readers -> Steps]
      /\ UNCHANGED <<mode, line, ready, got, amiss, proc, handlers>> /\ proc # "gone"
      /\ \/ saved' = mode /\ spoilt' = spoilt
         \/ saved' = saved /\ (Unspoilt' => Unspoilt /\ saved # "unset")
  BY <1>1 DEF Save, SaveFails, Spoils, Unspoilt, Goto, Alive, procVars, Forms, Steps, Waiting
<1>3. Forms' /\ Over'
  BY <1>1, <1>2 DEF Forms, Over
<1>4. Guarded'
  BY <1>1, <1>2 DEF Guarded, Unspoilt, Waiting, Forms
<1>5. Flushed'
  BY <1>1, <1>2 DEF Flushed, Forms
<1> QED
  BY <1>3, <1>4, <1>5 DEF TermInv

\* ... atexit ...
LEMMA RegisterTerm ==
  ASSUME TermInv, NEW r \in Readers, Register(r)
  PROVE TermInv'
<1>1. Forms /\ Over /\ Guarded /\ Flushed
  BY DEF TermInv
<1>2. /\ at[r] = "register" /\ at' = [at EXCEPT ![r] = "raw"] /\ at' \in [Readers -> Steps]
      /\ handlers' = handlers + 1 /\ UNCHANGED <<mode, saved, line, ready, got, amiss, spoilt, proc>>
      /\ proc # "gone"
  BY <1>1 DEF Register, Goto, Alive, Forms, Steps, Waiting
<1>3. Forms' /\ Over'
  BY <1>1, <1>2 DEF Forms, Over
<1>4. Guarded'
  BY <1>1, <1>2 DEF Guarded, Unspoilt, Waiting, Forms
<1>5. Flushed'
  BY <1>1, <1>2 DEF Flushed, Forms
<1> QED
  BY <1>3, <1>4, <1>5 DEF TermInv

\* ... and tcsetattr.
LEMMA EnterRawTerm ==
  ASSUME TermInv, NEW r \in Readers, EnterRaw(r)
  PROVE TermInv'
<1>1. Forms /\ Over /\ Guarded /\ Flushed
  BY DEF TermInv
<1>2. /\ at[r] = "raw" /\ at' = [at EXCEPT ![r] = "poll"] /\ at' \in [Readers -> Steps]
      /\ mode' = "raw" /\ line' = <<>> /\ ready' = <<>>
      /\ UNCHANGED <<saved, got, amiss, proc, handlers>> /\ proc # "gone"
  BY <1>1 DEF EnterRaw, SetMode, ModeOf, Goto, Alive, procVars, Forms, Steps, Waiting
<1>3. Forms' /\ Over'
  BY <1>1, <1>2, EmptySeq DEF Forms, Over
<1>4. Guarded'
  <2> SUFFICES ASSUME Unspoilt' PROVE Guarded!2'
    BY DEF Guarded
  <2>1. Unspoilt /\ proc = "running"
    BY <1>1, <1>2 DEF EnterRaw, Spoils, Unspoilt, Forms
  <2> QED
    BY <1>1, <1>2, <2>1 DEF Guarded, Waiting, Forms
<1>5. Flushed'
  BY <1>1, <1>2, EmptySeq DEF Flushed, Forms
<1> QED
  BY <1>3, <1>4, <1>5 DEF TermInv

\* tcsetattr fails: the loop begins in the old mode, with the old keys.
LEMMA EnterRawFailsTerm ==
  ASSUME TermInv, NEW r \in Readers, EnterRawFails(r)
  PROVE TermInv'
<1>1. Forms /\ Over /\ Guarded /\ Flushed
  BY DEF TermInv
<1>2. /\ at[r] = "raw" /\ at' = [at EXCEPT ![r] = "poll"] /\ at' \in [Readers -> Steps]
      /\ UNCHANGED <<mode, saved, line, ready, got, spoilt, proc, handlers>> /\ proc # "gone"
      /\ amiss' = [amiss EXCEPT ![r] = amiss[r] \cup {"refused"}]
  BY <1>1 DEF EnterRawFails, SetModeFails, Goto, Alive, Forms, Steps, Waiting
<1>3. Forms' /\ Over'
  BY <1>1, <1>2 DEF Forms, Over
<1>4. Guarded'
  BY <1>1, <1>2 DEF Guarded, Unspoilt, Waiting, Forms
<1>5. Flushed'
  BY <1>1, <1>2 DEF Flushed, Forms
<1> QED
  BY <1>3, <1>4, <1>5 DEF TermInv

\* A key is read: by wait-for-key, which then puts the terminal back, or by read-key.
LEMMA ReadByteTerm ==
  ASSUME TermInv, NEW r \in Readers, ReadByte(r)
  PROVE TermInv'
<1>1. Forms /\ Over /\ Guarded /\ Flushed
  BY DEF TermInv
<1>2. /\ ready # <<>> /\ ready' = Tail(ready) /\ UNCHANGED <<mode, saved, line, amiss, spoilt, proc, handlers>>
      /\ proc # "gone"
  BY DEF ReadByte, Alive, procVars
<1>3. /\ at' \in [Readers -> Steps]
      /\ \/ at[r] = "poll" /\ at' = [at EXCEPT ![r] = "restore"] /\ got' = [got EXCEPT ![r] = Head(ready)]
         \/ at[r] = "read" /\ at' = [at EXCEPT ![r] = "idle"] /\ got' = got
  BY <1>1 DEF ReadByte, Goto, Forms, Steps, Waiting
<1>4. /\ Head(ready) \in Key /\ ready' \in Seq(Key)
      /\ Head(ready) = ready[1] /\ 1 \in DOMAIN ready
      /\ \A i \in DOMAIN ready' : i + 1 \in DOMAIN ready /\ ready'[i] = ready[i + 1]
  BY <1>1, <1>2, HeadTailProperties, LenProperties DEF Forms
<1>5. Forms' /\ Over'
  BY <1>1, <1>2, <1>3, <1>4 DEF Forms, Over
<1>6. Guarded'
  BY <1>1, <1>2, <1>3 DEF Guarded, Unspoilt, Waiting, Forms
<1>7. Flushed'
  BY <1>1, <1>2, <1>3, <1>4 DEF Flushed, Forms
<1> QED
  BY <1>5, <1>6, <1>7 DEF TermInv

\* disable_raw_mode, at the end of a call ...
LEMMA RestoreTerm ==
  ASSUME TermInv, NEW r \in Readers, Restore(r) \/ RestoreFails(r)
  PROVE TermInv'
<1>1. Forms /\ Over /\ Guarded /\ Flushed
  BY DEF TermInv
<1>2. /\ at[r] = "restore" /\ at' = [at EXCEPT ![r] = "idle"] /\ at' \in [Readers -> Steps]
      /\ UNCHANGED <<saved, got, amiss, proc, handlers>> /\ proc # "gone"
      /\ \/ mode' = ModeOf(saved) /\ line' = <<>> /\ ready' = <<>> /\ spoilt' = spoilt
         \/ UNCHANGED <<mode, line, ready>> /\ (Unspoilt' => Unspoilt /\ mode # "raw")
  BY <1>1 DEF Restore, RestoreFails, SetMode, SetModeFails, Spoils, Unspoilt, Goto, Alive, procVars, Forms,
     Steps, Waiting
<1>3. Forms' /\ Over'
  BY <1>1, <1>2, EmptySeq DEF Forms, Over, ModeOf
<1>4. Guarded'
  BY <1>1, <1>2 DEF Guarded, Unspoilt, Waiting, Forms, ModeOf
<1>5. Flushed'
  BY <1>1, <1>2, EmptySeq DEF Flushed, Forms
<1> QED
  BY <1>3, <1>4, <1>5 DEF TermInv

\* ... and as a handler of exit.
LEMMA RunHandlerTerm ==
  ASSUME TermInv, RunHandler \/ RunHandlerFails
  PROVE TermInv'
<1>1. Forms /\ Over /\ Guarded /\ Flushed
  BY DEF TermInv
<1>2. /\ handlers > 0 /\ handlers' = handlers - 1 /\ proc = "exiting"
      /\ UNCHANGED <<saved, at, got, amiss, proc>>
      /\ \/ mode' = ModeOf(saved) /\ line' = <<>> /\ ready' = <<>> /\ spoilt' = spoilt
         \/ UNCHANGED <<mode, line, ready>> /\ (Unspoilt' => Unspoilt /\ mode # "raw")
  BY DEF RunHandler, RunHandlerFails, SetMode, SetModeFails, Spoils, Unspoilt
<1>3. Forms' /\ Over'
  <2>1. mode' \in {"line", "raw"} /\ line' \in Seq(Key) /\ ready' \in Seq(Key)
    BY <1>1, <1>2, EmptySeq DEF Forms, ModeOf
  <2>2. handlers' \in Nat
    BY <1>1, <1>2 DEF Forms
  <2> QED
    BY <1>1, <1>2, <2>1, <2>2 DEF Forms, Over
<1>4. Guarded'
  BY <1>1, <1>2 DEF Guarded, Unspoilt, Waiting, Forms, ModeOf
<1>5. Flushed'
  BY <1>1, <1>2, EmptySeq DEF Flushed, Forms
<1> QED
  BY <1>3, <1>4, <1>5 DEF TermInv

\* The user types: a new key was typed before no call.
LEMMA TypeTerm ==
  ASSUME TermInv, NEW k \in Keys, Type(k)
  PROVE TermInv'
<1> DEFINE typed == {}
<1>1. Forms /\ Over /\ Guarded /\ Flushed
  BY DEF TermInv
<1>2. /\ UNCHANGED <<mode, saved, at, got, amiss, spoilt, proc, handlers>>
      /\ \/ ready' = Append(ready, typed) /\ line' = line
         \/ ready' = ready \o Append(line, typed) /\ line' = <<>>
         \/ line' = Append(line, typed) /\ ready' = ready
  BY DEF Type, procVars
<1>3. typed \in Key /\ typed = {}
  BY DEF Key
<1> DEFINE Free(r, q) == \A i \in DOMAIN q : r \notin q[i]
<1>4. ASSUME NEW q \in Seq(Key)
      PROVE /\ Append(q, typed) \in Seq(Key)
            /\ \A r \in Readers : Free(r, q) => Free(r, Append(q, typed))
  <2>1. /\ Append(q, typed) \in Seq(Key) /\ DOMAIN Append(q, typed) = 1 .. Len(q) + 1
        /\ DOMAIN q = 1 .. Len(q) /\ Len(q) \in Nat
        /\ \A i \in 1 .. Len(q) : Append(q, typed)[i] = q[i]
        /\ Append(q, typed)[Len(q) + 1] = typed
    BY <1>3, AppendProperties, LenProperties
  <2>2. \A i \in DOMAIN Append(q, typed) : i \in DOMAIN q \/ i = Len(q) + 1
    BY <2>1
  <2> HIDE DEF typed
  <2> QED
    BY <1>3, <2>1, <2>2
<1> HIDE DEF typed
<1>5. ASSUME NEW p \in Seq(Key), NEW q \in Seq(Key)
      PROVE /\ p \o q \in Seq(Key)
            /\ \A r \in Readers : Free(r, p) /\ Free(r, q) => Free(r, p \o q)
  <2>1. /\ p \o q \in Seq(Key) /\ Len(p \o q) = Len(p) + Len(q) /\ Len(p) \in Nat /\ Len(q) \in Nat
        /\ \A i \in 1 .. Len(p) + Len(q) :
             (p \o q)[i] = IF i <= Len(p) THEN p[i] ELSE q[i - Len(p)]
    BY ConcatProperties, LenProperties
  <2>2. DOMAIN p = 1 .. Len(p) /\ DOMAIN q = 1 .. Len(q) /\ DOMAIN (p \o q) = 1 .. Len(p) + Len(q)
    BY <2>1, LenProperties
  <2> SUFFICES ASSUME NEW r \in Readers, Free(r, p), Free(r, q), NEW i \in 1 .. Len(p) + Len(q)
               PROVE r \notin (p \o q)[i]
    BY <2>1, <2>2
  <2>3. CASE i <= Len(p)
    BY <2>1, <2>2, <2>3
  <2>4. CASE ~(i <= Len(p))
    BY <2>1, <2>2, <2>4
  <2> QED
    BY <2>3, <2>4
<1>6. line \in Seq(Key) /\ ready \in Seq(Key) /\ <<>> \in Seq(Key) /\ \A r \in Readers : Free(r, <<>>)
  BY <1>1, EmptySeq DEF Forms
<1>7. /\ line' \in Seq(Key) /\ ready' \in Seq(Key)
      /\ \A r \in Readers : Free(r, line) /\ Free(r, ready) => Free(r, line') /\ Free(r, ready')
  <2> HIDE DEF Free
  <2>1. CASE ready' = Append(ready, typed) /\ line' = line
    BY <1>4, <1>6, <2>1
  <2>2. CASE ready' = ready \o Append(line, typed) /\ line' = <<>>
    BY <1>4, <1>5, <1>6, <2>2
  <2>3. CASE line' = Append(line, typed) /\ ready' = ready
    BY <1>4, <1>6, <2>3
  <2> QED
    BY <1>2, <2>1, <2>2, <2>3
<1>8. Forms' /\ Over'
  BY <1>1, <1>2, <1>7 DEF Forms, Over
<1>9. Guarded'
  BY <1>1, <1>2 DEF Guarded, Unspoilt
<1>10. Flushed'
  BY <1>1, <1>2, <1>7 DEF Flushed
<1> QED
  BY <1>8, <1>9, <1>10 DEF TermInv

-----------------------------------------------------------------------------
(* The process. *)

\* The process ends, and with it every call; the terminal stays as it is.
LEMMA EndsTerm ==
  ASSUME TermInv, Kill \/ End
  PROVE TermInv'
<1>1. Forms /\ Over /\ Guarded /\ Flushed
  BY DEF TermInv
<1>2. /\ proc' = "gone" /\ handlers' = 0 /\ saved' = "unset" /\ UNCHANGED <<mode, line, ready>>
      /\ at' = [r \in Readers |-> "idle"] /\ got' = [r \in Readers |-> NoKey]
      /\ amiss' = [r \in Readers |-> {}]
  BY <1>1 DEF Kill, End, Killed, ExitEnds, IoKilled, IoGone, Forms
<1>3. Forms' /\ Over'
  BY <1>1, <1>2 DEF Forms, Over, Steps, Key, NoKey
<1>4. Guarded'
  <2> SUFFICES ASSUME Unspoilt' PROVE Guarded!2'
    BY DEF Guarded
  <2>1. mode = "line"
    <3>1. CASE Kill
      BY <1>1, <3>1 DEF Kill, IoKilled, Spoils, Unspoilt, Forms
    <3>2. CASE End
      BY <1>1, <3>2 DEF End, ExitEnds, Unspoilt, Guarded, Forms
    <3> QED
      BY <3>1, <3>2
  <2> QED
    BY <1>2, <2>1 DEF Waiting
<1>5. Flushed'
  BY <1>2 DEF Flushed, NoKey
<1> QED
  BY <1>3, <1>4, <1>5 DEF TermInv

\* It is started again, or a step of src/udp.c goes by or calls exit.
LEMMA ElsewhereTerm ==
  ASSUME TermInv, UNCHANGED ioVars, UNCHANGED <<proc, handlers, starts>> \/ Exit \/ Started
  PROVE TermInv'
<1>1. Forms /\ Over /\ Guarded /\ Flushed
  BY DEF TermInv
<1>2. /\ UNCHANGED <<mode, saved, line, ready, at, got, amiss, spoilt, handlers>>
      /\ \/ proc' = proc
         \/ proc' = "exiting"
         \/ proc' = "running" /\ proc = "gone"
  BY DEF ioVars, Exit, Started
<1>3. Forms' /\ Over'
  BY <1>1, <1>2 DEF Forms, Over
<1>4. Guarded'
  BY <1>1, <1>2 DEF Guarded, Unspoilt, Over
<1>5. Flushed'
  BY <1>1, <1>2 DEF Flushed
<1> QED
  BY <1>3, <1>4, <1>5 DEF TermInv

\* The terminal's invariant holds in every reachable state of the program.
THEOREM TermInvariance == Spec => []TermInv
<1>1. Init => TermInv
  <2> SUFFICES ASSUME Init PROVE TermInv
    OBVIOUS
  <2>1. Forms /\ Over
    BY EmptySeq DEF Init, IoInit, ProcessInit, Forms, Over, Steps, Key, NoKey
  <2>2. Guarded /\ Flushed
    BY EmptySeq DEF Init, IoInit, ProcessInit, Guarded, Flushed, Waiting, NoKey
  <2> QED
    BY <2>1, <2>2 DEF TermInv
<1>2. TermInv /\ [Next]_vars => TermInv'
  <2> SUFFICES ASSUME TermInv, [Next]_vars PROVE TermInv'
    OBVIOUS
  <2>1. CASE UdpNext /\ UNCHANGED ioVars
    BY <2>1, UdpEndsOnly, ElsewhereTerm
  <2>2. CASE IoNext
    <3>1. ASSUME NEW r \in Readers, IoStep(r) PROVE TermInv'
      BY <3>1, BeginsTerm, SaveTerm, RegisterTerm, EnterRawTerm, EnterRawFailsTerm, ReadByteTerm,
         RestoreTerm DEF IoStep
    <3> QED
      BY <2>2, <3>1, RunHandlerTerm, TypeTerm DEF IoNext
  <2>3. CASE Kill \/ End
    BY <2>3, EndsTerm
  <2>4. CASE Start
    BY <2>4, ElsewhereTerm DEF Start
  <2>5. CASE UNCHANGED vars
    BY <2>5, ElsewhereTerm DEF vars, procVars
  <2> QED
    BY <2>1, <2>2, <2>3, <2>4, <2>5 DEF Next
<1> QED
  BY <1>1, <1>2, PTL DEF Spec

\* ModeRestored, for any number of threads: whenever no wait-for-key is in
\* progress, and after the process has ended, the terminal is in line mode,
\* whatever failures there were to enter raw mode, unless two calls overlapped,
\* a signal came in a call, a call went raw while exit was running, tcgetattr
\* had never succeeded, or the tcsetattr that was to end raw mode failed.
THEOREM TermRestored == Spec => []ModeRestored
<1>1. TermInv => ModeRestored
  <2> SUFFICES ASSUME TermInv, Unspoilt, proc = "gone" \/ \A r \in Readers : at[r] \notin Waiting
               PROVE mode = "line"
    BY DEF ModeRestored, Unspoilt
  <2>1. \A r \in Readers : at[r] \notin {"poll", "restore"}
    BY DEF TermInv, Over, Waiting
  <2> QED
    BY <2>1 DEF TermInv, Guarded, Forms
<1> QED
  BY <1>1, TermInvariance, PTL

\* KeyIsFresh, for any number of threads and any terminal queue: a wait-for-key
\* whose own tcsetattr did not fail never returns a key that was typed before it
\* was called.
THEOREM TermFresh == Spec => []KeyIsFresh
<1>1. TermInv => KeyIsFresh
  BY DEF TermInv, Flushed, KeyIsFresh
<1> QED
  BY <1>1, TermInvariance, PTL

-----------------------------------------------------------------------------
(* The datagrams. *)

Data == {d \in Seq(Byte) : Len(d) + 2 <= BufLen}

\* The variables of src/udp.c.
Shapes ==
  /\ net \subseteq Data
  /\ queue \in [Listeners -> Seq(Data)]
  /\ bufin \in [Listeners -> Data \cup {NoDatagram}]
  /\ ul \in [Listeners -> {"socket", "recv", "copy", "nul", "close", "result", "take", "f", "ended"}]
  /\ world \in [bytes : [1 .. BufLen -> Byte], len : 0 .. BufLen]
  /\ todo \in [Listeners -> SUBSET (1 .. BufLen)]
  /\ heard \in [Listeners -> Seq(Byte)]

\* A listen has a datagram from recvfrom on, and none before.  What it has yet
\* to copy is of the datagram, and what it has yet to take has its place in the
\* string.
Fetched == \A l \in Listeners :
  /\ ul[l] \in {"socket", "recv"} => bufin[l] = NoDatagram
  /\ ul[l] \in {"copy", "nul"} => bufin[l] \in Data
  /\ ul[l] = "copy" => todo[l] \subseteq 1 .. Len(bufin[l])
  /\ ul[l] = "take" => todo[l] \subseteq 1 .. Len(heard[l])

\* world holds the datagram d: the bytes of it that are not in s, all of it.
HoldsBut(d, s) == \A i \in 1 .. Len(d) : i \notin s => world.bytes[i] = d[i]
Holds(d) == HoldsBut(d, {}) /\ world.len = Len(d)

\* What was taken of the datagram d is in its place in the string h.
Took(h, d, s) == Len(h) = Len(d) /\ \A i \in 1 .. Len(d) : i \notin s => h[i] = d[i]

\* From its first store until its string is made, a listen finds in world what
\* it has stored there.
Stored == \A l \in Listeners :
  l \notin mixed /\ bufin[l] # NoDatagram =>
    /\ ul[l] = "copy" => HoldsBut(bufin[l], todo[l])
    /\ ul[l] \in {"nul", "close", "result", "take"} => Holds(bufin[l])
    /\ ul[l] = "take" => Took(heard[l], bufin[l], todo[l])

UdpInv == Shapes /\ Fetched /\ Stored /\ HearsItsOwn

\* strlen finds the end of a string: what is sent is a prefix of it, without a 0.
LEMMA CBytesData ==
  ASSUME NEW s \in Strings
  PROVE CBytes(s) \in Data /\ \A i \in DOMAIN CBytes(s) : CBytes(s)[i] # 0
<1> DEFINE Ends(n) == (\A i \in 1 .. n : s[i] # 0) /\ (n < Len(s) => s[n + 1] = 0)
<1>1. s \in Seq(Byte) /\ Len(s) \in Nat /\ Len(s) + 2 <= BufLen /\ BufLen \in Nat
  BY StringsAssumption, LenProperties
<1>2. \E n \in 0 .. Len(s) : Ends(n)
  <2> DEFINE T == {n \in 0 .. Len(s) : n < Len(s) => s[n + 1] = 0}
  <2>1. T \subseteq Nat /\ Len(s) \in T
    BY <1>1
  <2>2. PICK n \in T : \A m \in T : <<m, n>> \notin OpToRel(<, Nat)
    BY <2>1, NatLessThanWellFounded, WFMin
  <2>3. \A m \in T : ~(m < n)
    BY <2>1, <2>2 DEF OpToRel
  <2>4. \A i \in 1 .. n : s[i] # 0
    <3> SUFFICES ASSUME NEW i \in 1 .. n, s[i] = 0 PROVE FALSE
      OBVIOUS
    <3>1. i - 1 \in T /\ i - 1 < n
      BY <1>1, <2>1
    <3> QED
      BY <2>3, <3>1
  <2> QED
    BY <2>4
<1>3. PICK n \in 0 .. Len(s) : Ends(n) /\ CBytes(s) = SubSeq(s, 1, n)
  BY <1>2 DEF CBytes
<1>4. \A i \in 1 .. n : s[i] \in Byte
  BY <1>1, ElementOfSeq
<1>5. /\ SubSeq(s, 1, n) \in Seq(Byte) /\ Len(SubSeq(s, 1, n)) = n
      /\ \A i \in 1 .. n : SubSeq(s, 1, n)[i] = s[i]
  BY <1>1, <1>4, SubSeqProperties
<1>6. DOMAIN SubSeq(s, 1, n) = 1 .. n
  BY <1>5, LenProperties
<1> QED
  BY <1>1, <1>3, <1>5, <1>6 DEF Data

\* One store of a listen into world: a byte, the length, or the 0 behind the end.
LEMMA StoresUdp ==
  ASSUME UdpInv, NEW l \in Listeners, CopyByte(l) \/ StoreLength(l) \/ StoreNul(l)
  PROVE UdpInv'
<1>1. Shapes /\ Fetched /\ Stored /\ HearsItsOwn
  BY DEF UdpInv
<1> DEFINE d == bufin[l]
<1>2. /\ ul[l] \in {"copy", "nul"} /\ UNCHANGED <<net, queue, bufin, heard>>
      /\ d \in Seq(Byte) /\ Len(d) \in Nat /\ Len(d) + 2 <= BufLen /\ BufLen \in Nat
      /\ \A i \in 1 .. Len(d) : d[i] \in Byte
  <2>1. ul[l] \in {"copy", "nul"} /\ UNCHANGED <<net, queue, bufin, heard>>
    BY DEF CopyByte, StoreLength, StoreNul
  <2>2. d \in Data
    BY <1>1, <2>1 DEF Fetched
  <2> QED
    BY <2>1, <2>2, StringsAssumption, LenProperties, ElementOfSeq DEF Data
<1>3. \/ /\ ul[l] = "copy" /\ ul' = ul
         /\ \E i \in todo[l] : /\ world' = [world EXCEPT !.bytes[i] = d[i]]
                               /\ todo' = [todo EXCEPT ![l] = todo[l] \ {i}]
      \/ /\ ul[l] = "copy" /\ todo[l] = {} /\ ul' = [ul EXCEPT ![l] = "nul"] /\ todo' = todo
         /\ world' = [world EXCEPT !.len = Len(d)]
      \/ /\ ul[l] = "nul" /\ ul' = [ul EXCEPT ![l] = "close"] /\ todo' = todo
         /\ world' = [world EXCEPT !.bytes[Len(d) + 2] = 0]
  BY DEF CopyByte, StoreLength, StoreNul, Stores, Goes
<1>4. mixed \subseteq mixed' /\ Under \ {l} \subseteq mixed'
  BY DEF CopyByte, StoreLength, StoreNul, Stores
<1>5. \A m \in Listeners \ {l} : ul'[m] = ul[m] /\ todo'[m] = todo[m]
  BY <1>1, <1>3 DEF Shapes
<1>6. world \in [bytes : [1 .. BufLen -> Byte], len : 0 .. BufLen] /\ todo[l] \subseteq 1 .. BufLen
  BY <1>1 DEF Shapes
<1>7. /\ world' \in [bytes : [1 .. BufLen -> Byte], len : 0 .. BufLen]
      /\ ul[l] = "copy" /\ ul'[l] = "copy" /\ HoldsBut(d, todo[l]) =>
           \A i \in 1 .. Len(d) : i \notin todo'[l] => world'.bytes[i] = d[i]
      /\ ul[l] = "copy" /\ ul'[l] = "nul" /\ HoldsBut(d, todo[l]) =>
           world'.len = Len(d) /\ \A i \in 1 .. Len(d) : world'.bytes[i] = d[i]
      /\ ul[l] = "nul" /\ Holds(d) =>
           world'.len = Len(d) /\ \A i \in 1 .. Len(d) : world'.bytes[i] = d[i]
  <2> HIDE DEF d
  <2>1. ASSUME NEW i \in todo[l], world' = [world EXCEPT !.bytes[i] = d[i]], ul[l] = "copy", ul' = ul,
               todo' = [todo EXCEPT ![l] = todo[l] \ {i}]
        PROVE <1>7
    <3>1. i \in 1 .. BufLen /\ d[i] \in Byte
      BY <1>1, <1>2, <1>6, <2>1 DEF Fetched, d
    <3>2. world'.bytes = [world.bytes EXCEPT ![i] = d[i]] /\ world'.len = world.len
      BY <1>6, <2>1
    <3>3. world' \in [bytes : [1 .. BufLen -> Byte], len : 0 .. BufLen]
      BY <1>6, <2>1, <3>1
    <3>4. \A j \in 1 .. Len(d) : world'.bytes[j] = IF j = i THEN d[j] ELSE world.bytes[j]
      BY <1>2, <1>6, <3>1, <3>2
    <3>5. todo'[l] = todo[l] \ {i}
      BY <1>1, <2>1 DEF Shapes
    <3> QED
      BY <2>1, <3>3, <3>4, <3>5 DEF HoldsBut
  <2>2. CASE ul[l] = "copy" /\ todo[l] = {} /\ ul' = [ul EXCEPT ![l] = "nul"]
             /\ world' = [world EXCEPT !.len = Len(d)]
    <3>1. Len(d) \in 0 .. BufLen /\ ul'[l] = "nul"
      BY <1>1, <1>2, <2>2 DEF Shapes
    <3>2. world'.bytes = world.bytes /\ world'.len = Len(d)
      BY <1>6, <2>2
    <3>3. world' \in [bytes : [1 .. BufLen -> Byte], len : 0 .. BufLen]
      BY <1>6, <2>2, <3>1
    <3> QED
      BY <2>2, <3>1, <3>2, <3>3 DEF HoldsBut
  <2>3. CASE ul[l] = "nul" /\ ul' = [ul EXCEPT ![l] = "close"]
             /\ world' = [world EXCEPT !.bytes[Len(d) + 2] = 0]
    <3>1. Len(d) + 2 \in 1 .. BufLen /\ 0 \in Byte
      BY <1>2 DEF Byte
    <3>2. world'.bytes = [world.bytes EXCEPT ![Len(d) + 2] = 0] /\ world'.len = world.len
      BY <1>6, <2>3
    <3>3. world' \in [bytes : [1 .. BufLen -> Byte], len : 0 .. BufLen]
      BY <1>6, <2>3, <3>1
    <3>4. \A j \in 1 .. Len(d) : world'.bytes[j] = world.bytes[j]
      BY <1>2, <1>6, <3>2
    <3> QED
      BY <2>3, <3>2, <3>3, <3>4 DEF Holds, HoldsBut
  <2> QED
    BY <1>3, <2>1, <2>2, <2>3 DEF d
<1>8. Shapes'
  <2>1. todo' \in [Listeners -> SUBSET (1 .. BufLen)]
    BY <1>1, <1>3 DEF Shapes
  <2>2. ul' \in [Listeners -> {"socket", "recv", "copy", "nul", "close", "result", "take", "f", "ended"}]
    BY <1>1, <1>3 DEF Shapes
  <2> QED
    BY <1>1, <1>2, <1>7, <2>1, <2>2 DEF Shapes
<1>9. Fetched'
  <2>1. ul'[l] \in {"copy", "nul", "close"} /\ todo'[l] \subseteq todo[l]
    BY <1>1, <1>3 DEF Shapes
  <2>2. ul'[l] \in {"copy", "nul"} => ul[l] = "copy"
    BY <1>1, <1>3 DEF Shapes
  <2> QED
    BY <1>1, <1>2, <1>5, <2>1, <2>2 DEF Fetched
<1>10. Stored'
  <2> SUFFICES ASSUME NEW m \in Listeners, m \notin mixed', bufin[m] # NoDatagram
               PROVE /\ ul'[m] = "copy" => HoldsBut(bufin[m], todo[m])'
                     /\ ul'[m] \in {"nul", "close", "result", "take"} => Holds(bufin[m])'
                     /\ ul'[m] = "take" => Took(heard[m], bufin[m], todo[m])'
    BY <1>2 DEF Stored, Holds, HoldsBut, Took
  <2>1. CASE m # l
    <3>1. m \notin Under
      BY <1>4, <2>1
    <3>2. /\ ul'[m] = "copy" => todo'[m] = 1 .. Len(bufin[m])
          /\ ul'[m] \notin {"nul", "close", "result", "take"}
      BY <1>5, <2>1, <3>1 DEF Under
    <3> QED
      BY <1>2, <3>2 DEF HoldsBut
  <2>2. CASE m = l
    <3>1. /\ ul[l] = "copy" => HoldsBut(d, todo[l])
          /\ ul[l] = "nul" => Holds(d)
      BY <1>1, <1>4, <2>2 DEF Stored
    <3>2. ul'[l] # "take" /\ (ul'[l] = "copy" => ul[l] = "copy")
          /\ (ul'[l] \in {"nul", "close", "result", "take"} =>
                ul[l] = "nul" \/ (ul[l] = "copy" /\ ul'[l] = "nul"))
      BY <1>1, <1>3 DEF Shapes
    <3>3. CASE ul'[l] = "copy"
      BY <1>2, <1>7, <2>2, <3>1, <3>2, <3>3 DEF HoldsBut
    <3>4. CASE ul'[l] # "copy"
      BY <1>2, <1>7, <2>2, <3>1, <3>2, <3>4 DEF Holds, HoldsBut
    <3> QED
      BY <3>3, <3>4
  <2> QED
    BY <2>1, <2>2
<1>11. HearsItsOwn'
  <2>1. ul'[l] # "f"
    BY <1>1, <1>3 DEF Shapes
  <2> QED
    BY <1>1, <1>2, <1>4, <1>5, <2>1 DEF HearsItsOwn
<1> QED
  BY <1>8, <1>9, <1>10, <1>11 DEF UdpInv

\* A listen makes a string of the length it finds in world.
LEMMA ResultUdp ==
  ASSUME UdpInv, NEW l \in Listeners, Result(l)
  PROVE UdpInv'
<1>1. Shapes /\ Fetched /\ Stored /\ HearsItsOwn
  BY DEF UdpInv
<1> DEFINE h == [i \in 1 .. world.len |-> 0]
<1>2. /\ ul[l] = "result" /\ ul' = [ul EXCEPT ![l] = "take"] /\ heard' = [heard EXCEPT ![l] = h]
      /\ todo' = [todo EXCEPT ![l] = 1 .. world.len]
      /\ UNCHANGED <<net, queue, bufin, world, mixed>>
  BY DEF Result, Goes
<1>3. world.len \in 0 .. BufLen /\ BufLen \in Nat
  BY <1>1, StringsAssumption DEF Shapes
<1>4. h \in Seq(Byte) /\ Len(h) = world.len
  <2>1. h \in [1 .. world.len -> Byte] /\ world.len \in Nat
    BY <1>3 DEF Byte
  <2>2. h \in Seq(Byte)
    BY <2>1, SeqDef
  <2> QED
    BY <2>1, <2>2, LenProperties
<1> HIDE DEF h
<1>5. /\ ul'[l] = "take" /\ heard'[l] = h /\ todo'[l] = 1 .. world.len
      /\ \A m \in Listeners \ {l} : ul'[m] = ul[m] /\ heard'[m] = heard[m] /\ todo'[m] = todo[m]
  BY <1>1, <1>2 DEF Shapes
<1>6. Shapes'
  <2>1. 1 .. world.len \in SUBSET (1 .. BufLen)
    BY <1>3
  <2> QED
    BY <1>1, <1>2, <1>4, <2>1 DEF Shapes
<1>7. Fetched'
  BY <1>1, <1>2, <1>4, <1>5 DEF Fetched
<1>8. Stored'
  <2> SUFFICES ASSUME NEW m \in Listeners, m \notin mixed, bufin[m] # NoDatagram
               PROVE /\ ul'[m] = "copy" => HoldsBut(bufin[m], todo'[m])
                     /\ ul'[m] \in {"nul", "close", "result", "take"} => Holds(bufin[m])
                     /\ ul'[m] = "take" => Took(heard'[m], bufin[m], todo'[m])
    BY <1>2 DEF Stored, Holds, HoldsBut, Took
  <2>1. CASE m # l
    BY <1>1, <1>5, <2>1 DEF Stored
  <2>2. CASE m = l
    <3>1. Holds(bufin[l])
      BY <1>1, <1>2, <2>2 DEF Stored
    <3> QED
      BY <1>4, <1>5, <2>2, <3>1 DEF Took, Holds
  <2> QED
    BY <2>1, <2>2
<1>9. HearsItsOwn'
  BY <1>1, <1>2, <1>5 DEF HearsItsOwn
<1> QED
  BY <1>6, <1>7, <1>8, <1>9 DEF UdpInv

\* A listen takes a byte of its string from world.
LEMMA TakesUdp ==
  ASSUME UdpInv, NEW l \in Listeners, TakeByte(l)
  PROVE UdpInv'
<1>1. Shapes /\ Fetched /\ Stored /\ HearsItsOwn
  BY DEF UdpInv
<1>2. PICK i \in todo[l] :
        /\ ul[l] = "take" /\ heard' = [heard EXCEPT ![l][i] = world.bytes[i]]
        /\ todo' = [todo EXCEPT ![l] = todo[l] \ {i}]
        /\ UNCHANGED <<net, queue, ul, bufin, world, mixed>>
  BY DEF TakeByte
<1> DEFINE h == [heard[l] EXCEPT ![i] = world.bytes[i]]
<1>3. /\ heard' = [heard EXCEPT ![l] = h] /\ heard'[l] = h /\ todo'[l] = todo[l] \ {i}
      /\ \A m \in Listeners \ {l} : heard'[m] = heard[m] /\ todo'[m] = todo[m]
  BY <1>1, <1>2 DEF Shapes
<1>4. /\ heard[l] \in Seq(Byte) /\ i \in 1 .. Len(heard[l]) /\ world.bytes[i] \in Byte
      /\ DOMAIN heard[l] = 1 .. Len(heard[l])
  <2>1. heard[l] \in Seq(Byte) /\ i \in 1 .. BufLen
    BY <1>1, <1>2 DEF Shapes
  <2> QED
    BY <1>1, <1>2, <2>1, LenProperties DEF Shapes, Fetched
<1>5. h \in Seq(Byte) /\ Len(h) = Len(heard[l])
      /\ \A j \in 1 .. Len(heard[l]) : h[j] = IF j = i THEN world.bytes[i] ELSE heard[l][j]
  BY <1>4, ExceptSeq
<1> HIDE DEF h
<1>6. Shapes'
  <2>1. todo[l] \ {i} \in SUBSET (1 .. BufLen)
    BY <1>1 DEF Shapes
  <2> QED
    BY <1>1, <1>2, <1>3, <1>5, <2>1 DEF Shapes
<1>7. Fetched'
  BY <1>1, <1>2, <1>3, <1>5 DEF Fetched
<1>8. Stored'
  <2> SUFFICES ASSUME NEW m \in Listeners, m \notin mixed, bufin[m] # NoDatagram
               PROVE /\ ul[m] = "copy" => HoldsBut(bufin[m], todo'[m])
                     /\ ul[m] \in {"nul", "close", "result", "take"} => Holds(bufin[m])
                     /\ ul[m] = "take" => Took(heard'[m], bufin[m], todo'[m])
    BY <1>2 DEF Stored, Holds, HoldsBut, Took
  <2>1. CASE m # l
    BY <1>1, <1>3, <2>1 DEF Stored
  <2>2. CASE m = l
    <3>1. Holds(bufin[l]) /\ Took(heard[l], bufin[l], todo[l])
      BY <1>1, <1>2, <2>2 DEF Stored
    <3>2. Took(h, bufin[l], todo[l] \ {i})
      BY <1>5, <3>1 DEF Took, Holds, HoldsBut
    <3> QED
      BY <1>2, <1>3, <2>2, <3>1, <3>2
  <2> QED
    BY <2>1, <2>2
<1>9. HearsItsOwn'
  BY <1>1, <1>2, <1>3 DEF HearsItsOwn
<1> QED
  BY <1>6, <1>7, <1>8, <1>9 DEF UdpInv

\* f is called with the string once all its bytes are there.
LEMMA CallsUdp ==
  ASSUME UdpInv, NEW l \in Listeners, CallF(l)
  PROVE UdpInv'
<1>1. Shapes /\ Fetched /\ Stored /\ HearsItsOwn
  BY DEF UdpInv
<1>2. /\ ul[l] = "take" /\ todo[l] = {} /\ ul' = [ul EXCEPT ![l] = "f"]
      /\ UNCHANGED <<net, queue, bufin, world, todo, heard, mixed>>
  BY DEF CallF, Goes
<1>3. ul'[l] = "f" /\ \A m \in Listeners \ {l} : ul'[m] = ul[m]
  BY <1>1, <1>2 DEF Shapes
<1>4. Shapes' /\ Fetched'
  BY <1>1, <1>2, <1>3 DEF Shapes, Fetched
<1>5. Stored'
  BY <1>1, <1>2, <1>3 DEF Stored, Holds, HoldsBut, Took
<1>6. ASSUME l \notin mixed, bufin[l] # NoDatagram PROVE heard[l] = bufin[l]
  <2>1. Took(heard[l], bufin[l], {})
    BY <1>1, <1>2, <1>6 DEF Stored
  <2>2. heard[l] \in Seq(Byte) /\ bufin[l] \in Seq(Byte)
    BY <1>1, <1>6 DEF Shapes, Data
  <2> QED
    BY <2>1, <2>2, SeqEqual DEF Took
<1>7. HearsItsOwn'
  BY <1>1, <1>2, <1>3, <1>6 DEF HearsItsOwn
<1> QED
  BY <1>4, <1>5, <1>7 DEF UdpInv

\* The other steps of a listen, and its failures, leave world and what others hold alone.
LEMMA StepsUdp ==
  ASSUME UdpInv, NEW l \in Listeners,
         Listen(l) \/ Receive(l) \/ Close(l) \/ Again(l) \/ Raises(l) \/ ListenDies(l) \/ ReceiveFails(l)
  PROVE UdpInv'
<1>1. Shapes /\ Fetched /\ Stored /\ HearsItsOwn
  BY DEF UdpInv
<1>2. UNCHANGED <<net, world>> /\ \A m \in Listeners \ {l} : m \notin mixed' => m \notin mixed
  BY DEF Listen, Receive, Close, Again, Raises, ListenDies, ReceiveFails
<1>3. \/ ul[l] = "socket" /\ ul' = [ul EXCEPT ![l] = "recv"] /\ UNCHANGED <<queue, bufin, todo, heard, mixed>>
      \/ ul[l] = "socket" /\ ul' = [ul EXCEPT ![l] = "ended"] /\ UNCHANGED <<queue, bufin, todo, heard, mixed>>
      \/ ul[l] = "recv" /\ ul' = [ul EXCEPT ![l] = "close"] /\ UNCHANGED <<queue, bufin, todo, heard, mixed>>
      \/ ul[l] = "recv" /\ ul' = [ul EXCEPT ![l] = "copy"] /\ UNCHANGED <<heard, mixed>>
         /\ queue[l] # <<>> /\ bufin' = [bufin EXCEPT ![l] = Head(queue[l])]
         /\ queue' = [queue EXCEPT ![l] = Tail(queue[l])]
         /\ todo' = [todo EXCEPT ![l] = 1 .. Len(Head(queue[l]))]
      \/ ul[l] = "close" /\ ul' = [ul EXCEPT ![l] = "result"] /\ UNCHANGED <<bufin, todo, heard, mixed>>
         /\ queue' = [queue EXCEPT ![l] = <<>>]
      \/ ul[l] = "f" /\ ul' = [ul EXCEPT ![l] = "socket"] /\ UNCHANGED <<queue, todo>>
         /\ heard' = [heard EXCEPT ![l] = <<>>] /\ bufin' = [bufin EXCEPT ![l] = NoDatagram]
      \/ ul[l] = "f" /\ ul' = [ul EXCEPT ![l] = "ended"] /\ UNCHANGED <<queue, bufin, todo, heard, mixed>>
  BY DEF Listen, Receive, Close, Again, Raises, ListenDies, ReceiveFails, Goes
<1>4. queue[l] # <<>> => /\ Head(queue[l]) \in Data /\ Tail(queue[l]) \in Seq(Data)
                         /\ 1 .. Len(Head(queue[l])) \subseteq 1 .. BufLen
  <2>1. queue[l] \in Seq(Data)
    BY <1>1 DEF Shapes
  <2>2. queue[l] # <<>> => Head(queue[l]) \in Data /\ Tail(queue[l]) \in Seq(Data)
    BY <2>1, HeadTailProperties
  <2>3. \A d \in Data : 1 .. Len(d) \subseteq 1 .. BufLen
    BY StringsAssumption, LenProperties DEF Data
  <2> QED
    BY <2>2, <2>3
<1>5. \A m \in Listeners \ {l} : /\ ul'[m] = ul[m] /\ bufin'[m] = bufin[m]
                                 /\ todo'[m] = todo[m] /\ heard'[m] = heard[m]
  BY <1>1, <1>3 DEF Shapes
<1>6. Shapes'
  <2>1. net \subseteq Data /\ world \in [bytes : [1 .. BufLen -> Byte], len : 0 .. BufLen]
    BY <1>1 DEF Shapes
  <2>2. queue' \in [Listeners -> Seq(Data)]
    <3>1. queue \in [Listeners -> Seq(Data)] /\ <<>> \in Seq(Data)
      BY <1>1, EmptySeq DEF Shapes
    <3>2. queue' = queue \/ \E q \in Seq(Data) : queue' = [queue EXCEPT ![l] = q]
      BY <1>3, <1>4, <3>1
    <3> QED
      BY <3>1, <3>2
  <2>3. bufin' \in [Listeners -> Data \cup {NoDatagram}]
    BY <1>1, <1>3, <1>4 DEF Shapes
  <2>4. ul' \in [Listeners -> {"socket", "recv", "copy", "nul", "close", "result", "take", "f", "ended"}]
    BY <1>1, <1>3 DEF Shapes
  <2>5. heard' \in [Listeners -> Seq(Byte)]
    <3>1. heard \in [Listeners -> Seq(Byte)] /\ <<>> \in Seq(Byte)
      BY <1>1, EmptySeq DEF Shapes
    <3>2. heard' = heard \/ heard' = [heard EXCEPT ![l] = <<>>]
      BY <1>3
    <3> QED
      BY <3>1, <3>2
  <2>6. todo' \in [Listeners -> SUBSET (1 .. BufLen)]
    BY <1>1, <1>3, <1>4 DEF Shapes
  <2> QED
    BY <1>2, <2>1, <2>2, <2>3, <2>4, <2>5, <2>6 DEF Shapes
<1>7. Fetched'
  <2>1. /\ ul'[l] \in {"socket", "recv"} => bufin'[l] = NoDatagram
        /\ ul'[l] \in {"copy", "nul"} => bufin'[l] \in Data
        /\ ul'[l] = "copy" => todo'[l] \subseteq 1 .. Len(bufin'[l])
        /\ ul'[l] # "take"
    BY <1>1, <1>3, <1>4 DEF Fetched, Shapes
  <2> QED
    BY <1>1, <1>5, <2>1 DEF Fetched
<1>8. Stored'
  <2> SUFFICES ASSUME NEW m \in Listeners, m \notin mixed', bufin'[m] # NoDatagram
               PROVE /\ ul'[m] = "copy" => HoldsBut(bufin'[m], todo'[m])
                     /\ ul'[m] \in {"nul", "close", "result", "take"} => Holds(bufin'[m])
                     /\ ul'[m] = "take" => Took(heard'[m], bufin'[m], todo'[m])
    BY <1>2 DEF Stored, Holds, HoldsBut, Took
  <2>1. CASE m # l
    BY <1>1, <1>2, <1>5, <2>1 DEF Stored
  <2>2. CASE m = l
    <3>1. /\ ul'[l] = "copy" => todo'[l] = 1 .. Len(bufin'[l])
          /\ ul'[l] \in {"nul", "close", "result", "take"} =>
               \/ ul'[l] = "result" /\ ul[l] = "close" /\ bufin'[l] = bufin[l] /\ mixed' = mixed
               \/ ul'[l] = "close" /\ ul[l] = "recv" /\ bufin'[l] = NoDatagram
      BY <1>1, <1>3 DEF Shapes, Fetched
    <3>2. HoldsBut(bufin'[l], 1 .. Len(bufin'[l]))
      BY DEF HoldsBut
    <3> QED
      BY <1>1, <2>2, <3>1, <3>2 DEF Stored
  <2> QED
    BY <2>1, <2>2
<1>9. HearsItsOwn'
  BY <1>1, <1>2, <1>3, <1>5 DEF HearsItsOwn, Shapes
<1> QED
  BY <1>6, <1>7, <1>8, <1>9 DEF UdpInv

\* The network moves datagrams and invents none.
LEMMA NetUdp ==
  ASSUME UdpInv,
         \/ \E s \in Strings : Send(s)
         \/ SendDies
         \/ \E d \in net : Vanishes(d) \/ \E l \in Listeners : Arrives(d, l)
  PROVE UdpInv'
<1>1. Shapes /\ Fetched /\ Stored /\ HearsItsOwn
  BY DEF UdpInv
<1>2. UNCHANGED <<ul, bufin, world, todo, heard, mixed>>
  BY DEF Send, SendDies, Vanishes, Arrives
<1>3. net' \subseteq Data
  BY <1>1, CBytesData DEF Send, SendDies, Vanishes, Arrives, Shapes
<1>4. queue' \in [Listeners -> Seq(Data)]
  <2>1. ASSUME NEW d \in net, NEW l \in Listeners, Arrives(d, l)
        PROVE queue' \in [Listeners -> Seq(Data)]
    <3>1. queue \in [Listeners -> Seq(Data)] /\ d \in Data
      BY <1>1, <2>1 DEF Shapes
    <3>2. Append(queue[l], d) \in Seq(Data) /\ queue' = [queue EXCEPT ![l] = Append(queue[l], d)]
      BY <2>1, <3>1, AppendProperties DEF Arrives
    <3> QED
      BY <3>1, <3>2
  <2> QED
    BY <1>1, <2>1 DEF Send, SendDies, Vanishes, Shapes
<1>5. Shapes' /\ Fetched'
  BY <1>1, <1>2, <1>3, <1>4 DEF Shapes, Fetched
<1>6. Stored' /\ HearsItsOwn'
  BY <1>1, <1>2 DEF Stored, HearsItsOwn, Holds, HoldsBut, Took
<1> QED
  BY <1>5, <1>6 DEF UdpInv

\* A new process has no sockets and a zero world.
LEMMA GoneUdp ==
  ASSUME UdpInv, UdpGone
  PROVE UdpInv'
<1>1. Shapes' /\ Fetched'
  <2>1. /\ net' \subseteq Data /\ ul' = [l \in Listeners |-> "socket"]
        /\ queue' = [l \in Listeners |-> <<>>] /\ bufin' = [l \in Listeners |-> NoDatagram]
        /\ world' = [bytes |-> [i \in 1 .. BufLen |-> 0], len |-> 0]
        /\ todo' = [l \in Listeners |-> {}] /\ heard' = [l \in Listeners |-> <<>>]
    BY DEF UdpGone, UdpInv, Shapes
  <2>2. world' \in [bytes : [1 .. BufLen -> Byte], len : 0 .. BufLen]
    BY <2>1, StringsAssumption DEF Byte
  <2> QED
    BY <2>1, <2>2, EmptySeq DEF Shapes, Fetched
<1>2. Stored' /\ HearsItsOwn'
  BY DEF UdpGone, Stored, HearsItsOwn
<1> QED
  BY <1>1, <1>2 DEF UdpInv

\* The invariant of the datagrams holds in every reachable state.
LEMMA UdpInvariance == Spec => []UdpInv
<1>1. Init => UdpInv
  <2> SUFFICES ASSUME Init PROVE UdpInv
    OBVIOUS
  <2>1. world \in [bytes : [1 .. BufLen -> Byte], len : 0 .. BufLen]
    BY StringsAssumption DEF Init, UdpInit, Byte
  <2>2. Shapes /\ Fetched
    BY <2>1, EmptySeq DEF Init, UdpInit, Shapes, Fetched
  <2>3. Stored /\ HearsItsOwn
    BY DEF Init, UdpInit, Stored, HearsItsOwn
  <2> QED
    BY <2>2, <2>3 DEF UdpInv
<1>2. UdpInv /\ [Next]_vars => UdpInv'
  <2> SUFFICES ASSUME UdpInv, [Next]_vars PROVE UdpInv'
    OBVIOUS
  <2>1. CASE UdpNext
    <3>1. ASSUME NEW l \in Listeners, ListenStep(l) \/ ListenDies(l) \/ ReceiveFails(l) \/ Raises(l)
          PROVE UdpInv'
      BY <3>1, StoresUdp, ResultUdp, TakesUdp, CallsUdp, StepsUdp DEF ListenStep
    <3> QED
      BY <2>1, <3>1, NetUdp DEF UdpNext
  <2>2. CASE UNCHANGED udpVars
    BY <2>2 DEF udpVars, UdpInv, Shapes, Fetched, Stored, Holds, HoldsBut, Took, HearsItsOwn
  <2>3. CASE Kill \/ End
    BY <2>3, GoneUdp DEF Kill, End
  <2> QED
    BY <2>1, <2>2, <2>3 DEF Next, Start, vars
<1> QED
  BY <1>1, <1>2, PTL DEF Spec

\* HearsItsOwn, for any number of listeners and any strings that fit the
\* buffer, with both copies going byte by byte in any order: f gets the datagram
\* its own listen received, unless recvfrom failed or another thread stored into
\* world between the call's first store there and the last byte it took.
THEOREM UdpOwn == Spec => []HearsItsOwn
<1>1. UdpInv => HearsItsOwn
  BY DEF UdpInv
<1> QED
  BY <1>1, UdpInvariance, PTL

-----------------------------------------------------------------------------
(* Types and bounds. *)

\* The calls that have yet to register their handler.
Comers == {q \in Readers : at[q] \in {"save", "register"}}

\* Every call that began has room for its handler.
Room == handlers + Cardinality(Comers) <= MaxHandlers

\* The terminal's queue.
Fits == Len(line) + Len(ready) <= QueueLen

\* What is sent has no 0 in it.
NoZeros == \A d \in net : \A i \in DOMAIN d : d[i] # 0

Counted ==
  /\ starts \in 0 .. MaxStarts /\ sends \in 0 .. MaxSends /\ fails \in 0 .. MaxFails
  /\ spoilt \in {"no", "overlap", "late", "killed", "failed"} /\ mixed \subseteq Listeners

Limits == Room /\ Fits /\ NoZeros /\ Counted

\* The calls that have yet to register are finitely many.
LEMMA ComersFinite == IsFiniteSet(Comers) /\ Cardinality(Comers) \in Nat
BY TerminalAssumption, FS_Subset, FS_CardinalityType DEF Comers

\* A step of a reader keeps room for the handlers.
LEMMA ReaderRoom ==
  ASSUME TermInv, Room, NEW r \in Readers, IoStep(r)
  PROVE Room'
<1> USE DEF Goto
<1>1. at \in [Readers -> Steps] /\ handlers \in Nat /\ MaxHandlers \in Nat
  BY ProcessAssumption DEF TermInv, Forms
<1>2. IsFiniteSet(Comers) /\ Cardinality(Comers) \in Nat
  BY ComersFinite
<1>3. CASE WaitForKey(r)
  <2>1. Comers' = Comers \cup {r} /\ r \notin Comers /\ handlers' = handlers
    BY <1>1, <1>3 DEF WaitForKey, Begins, Comers, procVars
  <2>2. Cardinality(Comers') = Cardinality(Comers) + 1
    BY <1>2, <2>1, FS_AddElement
  <2>3. handlers + Cardinality(Comers) < MaxHandlers
    BY <1>3 DEF WaitForKey, Comers
  <2> QED
    BY <1>1, <1>2, <2>1, <2>2, <2>3 DEF Room
<1>4. CASE Register(r)
  <2>1. Comers' = Comers \ {r} /\ r \in Comers /\ handlers' = handlers + 1
    BY <1>1, <1>4 DEF Register, Comers
  <2>2. Cardinality(Comers') = Cardinality(Comers) - 1
    BY <1>2, <2>1, FS_RemoveElement
  <2> QED
    BY <1>1, <1>2, <2>1, <2>2 DEF Room
<1>5. CASE \/ ReadKey(r) \/ Save(r) \/ EnterRaw(r) \/ ReadByte(r) \/ Restore(r)
           \/ SaveFails(r) \/ EnterRawFails(r) \/ RestoreFails(r)
  <2>1. /\ \A q \in Readers \ {r} : at'[q] = at[q]
        /\ at[r] \in {"save", "register"} <=> at'[r] \in {"save", "register"}
        /\ handlers' = handlers
    BY <1>1, <1>5 DEF ReadKey, Begins, Save, EnterRaw, ReadByte, Restore, SaveFails,
       EnterRawFails, RestoreFails, procVars
  <2>2. Comers' = Comers
    BY <2>1 DEF Comers
  <2> QED
    BY <2>1, <2>2 DEF Room
<1> QED
  BY <1>3, <1>4, <1>5 DEF IoStep

\* Every step keeps room for the handlers.
LEMMA NextRoom == TermInv /\ Room /\ [Next]_vars => Room'
<1> SUFFICES ASSUME TermInv, Room, [Next]_vars PROVE Room'
  OBVIOUS
<1>1. handlers \in Nat /\ MaxHandlers \in Nat /\ Cardinality(Comers) \in Nat
  BY ProcessAssumption, ComersFinite DEF TermInv, Forms
<1>2. ASSUME UNCHANGED at, handlers' = handlers \/ handlers' = handlers - 1 PROVE Room'
  <2>1. Comers' = Comers
    BY <1>2 DEF Comers
  <2> QED
    BY <1>1, <1>2, <2>1 DEF Room
<1>3. CASE UdpNext /\ UNCHANGED ioVars
  BY <1>2, <1>3, UdpEndsOnly DEF ioVars, procVars, Exit
<1>4. CASE IoNext
  <2>1. CASE RunHandler \/ RunHandlerFails
    BY <1>2, <2>1 DEF RunHandler, RunHandlerFails
  <2>2. ASSUME NEW k \in Keys, Type(k) PROVE Room'
    BY <1>2, <2>2 DEF Type, procVars
  <2> QED
    BY <1>4, <2>1, <2>2, ReaderRoom DEF IoNext
<1>5. CASE Kill \/ End
  <2>1. handlers' = 0 /\ at' = [r \in Readers |-> "idle"]
    BY <1>5 DEF Kill, End, Killed, ExitEnds, IoKilled, IoGone
  <2>2. Comers' = {}
    BY <2>1 DEF Comers
  <2> QED
    BY <1>1, <2>1, <2>2, FS_EmptySet DEF Room
<1>6. CASE Start
  BY <1>2, <1>6 DEF Start, Started, ioVars
<1>7. CASE UNCHANGED vars
  BY <1>2, <1>7 DEF vars, ioVars, procVars
<1> QED
  BY <1>3, <1>4, <1>5, <1>6, <1>7 DEF Next

\* The terminal keeps no more keys than its queue holds.
LEMMA NextFits == TermInv /\ Fits /\ [Next]_vars => Fits'
<1> SUFFICES ASSUME TermInv, Fits, [Next]_vars PROVE Fits'
  OBVIOUS
<1>1. line \in Seq(Key) /\ ready \in Seq(Key) /\ Len(line) \in Nat /\ Len(ready) \in Nat /\ QueueLen \in Nat
  BY TerminalAssumption, LenProperties DEF TermInv, Forms
<1>2. CASE UNCHANGED <<line, ready>>
  BY <1>2 DEF Fits
<1>3. CASE line' = <<>> /\ ready' = <<>>
  BY <1>1, <1>3, EmptySeq DEF Fits
<1>4. ASSUME NEW r \in Readers, WaitForKey(r) PROVE Fits'
  <2>1. line' = Mark(r, line) /\ ready' = Mark(r, ready)
    BY <1>4 DEF WaitForKey
  <2>2. Mark(r, line) \in Seq(Key) /\ DOMAIN Mark(r, line) = DOMAIN line
    BY <1>1, Marked
  <2>3. Mark(r, ready) \in Seq(Key) /\ DOMAIN Mark(r, ready) = DOMAIN ready
    BY <1>1, Marked
  <2>4. Len(line') = Len(line) /\ Len(ready') = Len(ready)
    BY <1>1, <2>1, <2>2, <2>3, LenProperties
  <2> QED
    BY <2>4 DEF Fits
<1>5. ASSUME NEW r \in Readers, ReadByte(r) PROVE Fits'
  <2>1. ready # <<>> /\ ready' = Tail(ready) /\ line' = line
    BY <1>5 DEF ReadByte
  <2>2. Len(ready') = Len(ready) - 1
    BY <1>1, <2>1, HeadTailProperties
  <2> QED
    BY <1>1, <2>1, <2>2 DEF Fits
<1>6. ASSUME NEW k \in Keys, Type(k) PROVE Fits'
  <2> DEFINE typed == {}
  <2>1. /\ Len(line) + Len(ready) < QueueLen
        /\ \/ ready' = Append(ready, typed) /\ line' = line
           \/ ready' = ready \o Append(line, typed) /\ line' = <<>>
           \/ line' = Append(line, typed) /\ ready' = ready
    BY <1>6 DEF Type
  <2>2. typed \in Key
    BY DEF Key
  <2> HIDE DEF typed
  <2>3. /\ Append(line, typed) \in Seq(Key) /\ Len(Append(line, typed)) = Len(line) + 1
        /\ Len(Append(ready, typed)) = Len(ready) + 1
    BY <1>1, <2>2, AppendProperties
  <2>4. Len(ready \o Append(line, typed)) = Len(ready) + Len(line) + 1
    BY <1>1, <2>3, ConcatProperties
  <2> QED
    BY <1>1, <2>1, <2>3, <2>4, EmptySeq DEF Fits
<1>7. CASE IoNext
  BY <1>2, <1>3, <1>4, <1>5, <1>6, <1>7
     DEF IoNext, IoStep, ReadKey, Save, Register, EnterRaw, Restore, RunHandler, SetMode,
         SaveFails, EnterRawFails, RestoreFails, RunHandlerFails, SetModeFails
<1> QED
  BY <1>2, <1>7 DEF Next, Kill, End, Start, IoKilled, IoGone, ioVars, vars

\* Zeros are never sent, and the counters stay in their bounds.
LEMMA NextCounted == UdpInv /\ NoZeros /\ Counted /\ [Next]_vars => (NoZeros /\ Counted)'
<1> SUFFICES ASSUME UdpInv, NoZeros, Counted, [Next]_vars PROVE (NoZeros /\ Counted)'
  OBVIOUS
<1> USE UdpBoundAssumption, ProcessAssumption
<1>1. ASSUME UNCHANGED <<spoilt, starts>>, UdpNext PROVE (NoZeros /\ Counted)'
  <2>1. NoZeros'
    <3>1. ASSUME NEW s \in Strings, Send(s) PROVE NoZeros'
      <4>1. net' = net \cup {CBytes(s)} /\ \A i \in DOMAIN CBytes(s) : CBytes(s)[i] # 0
        BY <3>1, CBytesData DEF Send
      <4> QED
        BY <4>1 DEF NoZeros
    <3>2. CASE net' \subseteq net
      BY <3>2 DEF NoZeros
    <3> QED
      BY <1>1, <3>1, <3>2 DEF UdpNext, SendDies, Vanishes, Arrives, ListenStep, ListenDies, ReceiveFails,
         Listen, Receive, CopyByte, StoreLength, StoreNul, Close, Result, TakeByte, CallF, Again, Raises
  <2>2. sends' \in 0 .. MaxSends /\ fails' \in 0 .. MaxFails
    <3>1. ASSUME NEW l \in Listeners, ListenStep(l) \/ ListenDies(l) \/ ReceiveFails(l) \/ Raises(l)
          PROVE sends' = sends /\ (fails' = fails \/ Fails)
      BY <3>1 DEF ListenStep, ListenDies, ReceiveFails, Listen, Receive, CopyByte, StoreLength, StoreNul,
         Close, Result, TakeByte, CallF, Again, Raises, Exit, procVars
    <3>2. \/ sends' = sends /\ (fails' = fails \/ Fails)
          \/ sends < MaxSends /\ sends' = sends + 1 /\ fails' = fails
      BY <1>1, <3>1 DEF UdpNext, Send, SendDies, Vanishes, Arrives, Exit, procVars
    <3> QED
      BY <3>2 DEF Counted, Fails
  <2>3. mixed' \subseteq Listeners
    BY <1>1 DEF Counted, UdpNext, Send, SendDies, Vanishes, Arrives, ListenStep, ListenDies, ReceiveFails,
       Listen, Receive, CopyByte, StoreLength, StoreNul, Stores, Close, Result, TakeByte, CallF, Again, Raises, Under
  <2> QED
    BY <1>1, <2>1, <2>2, <2>3 DEF Counted
<1>2. CASE UdpNext /\ UNCHANGED ioVars
  BY <1>1, <1>2, UdpEndsOnly DEF ioVars, procVars, Exit
<1>3. CASE IoNext /\ UNCHANGED udpVars
  <2>1. /\ starts' = starts /\ (fails' = fails \/ Fails)
        /\ spoilt' = spoilt \/ spoilt' \in {"overlap", "late", "failed"}
    BY <1>3 DEF IoNext, IoStep, WaitForKey, ReadKey, Begins, Save, Register, EnterRaw, ReadByte,
       Restore, RunHandler, SaveFails, EnterRawFails, RestoreFails, RunHandlerFails, SetModeFails, Spoils,
       Type, procVars
  <2>2. fails' \in 0 .. MaxFails
    BY <2>1 DEF Counted, Fails
  <2> QED
    BY <1>3, <2>1, <2>2 DEF Counted, NoZeros, udpVars
<1>4. CASE Kill
  BY <1>4 DEF Kill, Killed, UdpGone, IoKilled, Spoils, Counted, NoZeros
<1>5. CASE End
  BY <1>5 DEF End, ExitEnds, UdpGone, IoGone, Counted, NoZeros
<1>6. CASE Start
  BY <1>6 DEF Start, Started, udpVars, ioVars, Counted, NoZeros
<1>7. CASE UNCHANGED vars
  BY <1>7 DEF vars, procVars, udpVars, ioVars, Counted, NoZeros
<1> QED
  BY <1>2, <1>3, <1>4, <1>5, <1>6, <1>7 DEF Next

\* The variables of the process, of src/udp.c and of the terminal keep their types and
\* their bounds: no call finds the list of handlers full, for any number of threads.
THEOREM ConsoleTypeCorrect == Spec => []TypeOK
<1>1. Init => Limits
  <2> SUFFICES ASSUME Init PROVE Limits
    OBVIOUS
  <2>1. Comers = {} /\ handlers = 0
    BY DEF Init, IoInit, ProcessInit, Comers
  <2>2. Room /\ Fits
    BY <2>1, FS_EmptySet, EmptySeq, ProcessAssumption, TerminalAssumption DEF Room, Fits, Init, IoInit
  <2>3. NoZeros /\ Counted
    BY UdpBoundAssumption, ProcessAssumption
       DEF NoZeros, Counted, Init, ProcessInit, UdpInit, IoInit
  <2> QED
    BY <2>2, <2>3 DEF Limits
<1>2. TermInv /\ UdpInv /\ Limits /\ [Next]_vars => Limits'
  BY NextRoom, NextFits, NextCounted DEF Limits
<1>3. TermInv /\ UdpInv /\ Limits => TypeOK
  <2> SUFFICES ASSUME TermInv, UdpInv, Limits PROVE TypeOK
    OBVIOUS
  <2>1. ProcessTypeOK
    <3>1. handlers <= MaxHandlers
      BY ComersFinite, ProcessAssumption DEF Limits, Room, TermInv, Forms
    <3> QED
      BY <3>1, ProcessAssumption DEF ProcessTypeOK, TermInv, Forms, Limits, Counted
  <2>2. UdpTypeOK
    <3>1. \A d \in net : \A i \in DOMAIN d : d[i] \in Byte \ {0}
      <4> SUFFICES ASSUME NEW d \in net, NEW i \in DOMAIN d PROVE d[i] \in Byte \ {0}
        OBVIOUS
      <4>1. d \in Seq(Byte)
        BY DEF UdpInv, Shapes, Data
      <4>2. d[i] \in Byte
        BY <4>1, LenProperties
      <4> QED
        BY <4>2 DEF Limits, NoZeros
    <3>2. world.bytes \in [1 .. BufLen -> Byte] /\ world.len \in 0 .. BufLen
      BY DEF UdpInv, Shapes
    <3> QED
      BY <3>1, <3>2 DEF UdpTypeOK, UdpInv, Shapes, Limits, Counted
  <2>3. IoTypeOK
    <3>1. (\A i \in DOMAIN line : line[i] \in Key) /\ (\A i \in DOMAIN ready : ready[i] \in Key)
      BY LenProperties DEF TermInv, Forms
    <3> QED
      BY <3>1 DEF IoTypeOK, TermInv, Forms, Limits, Fits, Counted, Key
  <2> QED
    BY <2>1, <2>2, <2>3 DEF TypeOK
<1> QED
  BY <1>1, <1>2, <1>3, TermInvariance, UdpInvariance, PTL DEF Spec
=============================================================================
