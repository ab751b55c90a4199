------------------------------- MODULE IoTerm -------------------------------
(***************************************************************************)
(* wait-for-key and read-key (src/com_ahungry_io.c) on a terminal.  The    *)
(* terminal outlives the process, and so does the mode it is left in.      *)
(*                                                                         *)
(* In line mode keys are readable once Enter is pressed; in raw mode at    *)
(* once.  Both calls of tcsetattr say TCSAFLUSH, which drops what was      *)
(* typed and not read.  Which key it is matters when it is typed; from     *)
(* then on a key stands for the set of the calls that began after it.      *)
(* tcgetattr and tcsetattr can fail, each call of each of them: the code   *)
(* says so on stderr and goes on.                                          *)
(***************************************************************************)
EXTENDS Process, Sequences, FiniteSets

CONSTANTS
  Readers,    \* threads that ask for keys
  QueueLen    \* keys the terminal keeps; it drops what is typed beyond

ASSUME TerminalAssumption == IsFiniteSet(Readers) /\ QueueLen \in Nat

VARIABLES
  mode,     \* of the terminal: "line" or "raw"
  saved,    \* world.orig_termios: a mode, or "unset"
  line,     \* keys typed in line mode, before Enter
  ready,    \* keys that read would return
  at,       \* per reader: the next step
  got,      \* per reader: the key its last wait-for-key returned
  amiss,    \* per reader: what happened to its last wait-for-key
  spoilt    \* what was the first to happen that no call here undoes, or "no"

ioVars == <<mode, saved, line, ready, at, got, amiss, spoilt>>

Keys == {"key", "enter"}
NoKey == {}

Waiting == {"save", "register", "raw", "poll", "restore"}
Steps == Waiting \cup {"idle", "read"}

IoInit ==
  /\ mode = "line"
  /\ saved = "unset"
  /\ line = <<>>
  /\ ready = <<>>
  /\ at = [r \in Readers |-> "idle"]
  /\ got = [r \in Readers |-> NoKey]
  /\ amiss = [r \in Readers |-> {}]
  /\ spoilt = "no"

\* what the process held is gone: a new one has zero globals and the old terminal
IoGone ==
  /\ saved' = "unset"
  /\ at' = [r \in Readers |-> "idle"]
  /\ got' = [r \in Readers |-> NoKey]
  /\ amiss' = [r \in Readers |-> {}]
  /\ UNCHANGED <<mode, line, ready>>

Goto(r, s) == at' = [at EXCEPT ![r] = s]

\* the mode that a termios sets: one that is all zeros has no ICANON
ModeOf(t) == IF t = "unset" THEN "raw" ELSE t

\* variant: TCSANOW
SetModeNow(t) == mode' = ModeOf(t) /\ UNCHANGED <<line, ready>>

\* tcsetattr (STDIN_FILENO, TCSAFLUSH, ...)
SetMode(t) == mode' = ModeOf(t) /\ line' = <<>> /\ ready' = <<>>

\* it fails: nothing is set, and nothing is flushed
SetModeFails == Fails /\ UNCHANGED <<mode, line, ready>>

\* wait-for-key begins: every key typed so far was typed before it
Mark(r, q) == [i \in DOMAIN q |-> q[i] \cup {r}]

\* another call is in progress
Shared(r) == \E q \in Readers \ {r} : at[q] # "idle"

\* a call begins, and the others in progress are no longer alone
Begins(r, s, mine) ==
  /\ Alive
  /\ at[r] = "idle"
  /\ Goto(r, s)
  /\ amiss' = [q \in Readers |-> IF q = r THEN mine
                                  ELSE IF at[q] \in Waiting THEN amiss[q] \cup {"shared"}
                                  ELSE amiss[q]]
  /\ UNCHANGED <<mode, saved, procVars>>

\* something happens, and what is one of the things that can leave raw mode on
Spoils(what, holds) == spoilt' = IF spoilt = "no" /\ holds THEN what ELSE spoilt

WaitForKey(r) ==
  /\ handlers + Cardinality({q \in Readers : at[q] \in {"save", "register"}}) < MaxHandlers
  /\ Begins(r, "save", IF Shared(r) THEN {"shared"} ELSE {})
  /\ line' = Mark(r, line)
  /\ ready' = Mark(r, ready)
  /\ got' = [got EXCEPT ![r] = NoKey]
  /\ Spoils("overlap", \E q \in Readers : at[q] \in Waiting)

ReadKey(r) ==
  /\ Begins(r, "read", amiss[r])
  /\ UNCHANGED <<line, ready, got, spoilt>>

\* enable_raw_mode: tcgetattr, atexit and tcsetattr, in this order
Save(r) ==
  /\ Alive /\ at[r] = "save"
  /\ saved' = mode
  /\ Goto(r, "register")
  /\ UNCHANGED <<mode, line, ready, got, amiss, spoilt, procVars>>

\* what is saved is what an earlier call has saved, if any did
SaveFails(r) ==
  /\ Alive /\ at[r] = "save"
  /\ Fails
  /\ Goto(r, "register")
  /\ Spoils("failed", saved = "unset")
  /\ UNCHANGED <<mode, saved, line, ready, got, amiss, proc, handlers, starts>>

\* variant: nothing is left to do at exit
RegisterNot(r) ==
  /\ Alive /\ at[r] = "register"
  /\ Goto(r, "raw")
  /\ UNCHANGED <<mode, saved, line, ready, got, amiss, spoilt, procVars>>

Register(r) ==
  /\ Alive /\ at[r] = "register"
  /\ handlers' = handlers + 1
  /\ Goto(r, "raw")
  /\ UNCHANGED <<mode, saved, line, ready, got, amiss, spoilt, proc, starts, fails>>

\* variant: ICANON is left on
EnterRawNot(r) ==
  /\ Alive /\ at[r] = "raw"
  /\ SetMode("line")
  /\ Goto(r, "poll")
  /\ UNCHANGED <<saved, got, amiss, spoilt, procVars>>

EnterRaw(r) ==
  /\ Alive /\ at[r] = "raw"
  /\ SetMode("raw")
  /\ Goto(r, "poll")
  /\ Spoils("late", proc = "exiting")
  /\ UNCHANGED <<saved, got, amiss, procVars>>

EnterRawFails(r) ==
  /\ Alive /\ at[r] = "raw"
  /\ SetModeFails
  /\ Goto(r, "poll")
  /\ amiss' = [amiss EXCEPT ![r] = @ \cup {"refused"}]
  /\ UNCHANGED <<saved, got, spoilt, proc, handlers, starts>>

\* read returns 1: the loop ends.  While it returns 0 or -1 the loop goes on.
ReadByte(r) ==
  /\ Alive /\ at[r] \in {"poll", "read"}
  /\ ready # <<>>
  /\ ready' = Tail(ready)
  /\ IF at[r] = "poll"
       THEN Goto(r, "restore") /\ got' = [got EXCEPT ![r] = Head(ready)]
       ELSE Goto(r, "idle") /\ UNCHANGED got
  /\ UNCHANGED <<mode, saved, line, amiss, spoilt, procVars>>

\* disable_raw_mode: as the last step of wait-for-key ...
Restore(r) ==
  /\ Alive /\ at[r] = "restore"
  /\ SetMode(saved)
  /\ Goto(r, "idle")
  /\ UNCHANGED <<saved, got, amiss, spoilt, procVars>>

RestoreFails(r) ==
  /\ Alive /\ at[r] = "restore"
  /\ SetModeFails
  /\ Goto(r, "idle")
  /\ Spoils("failed", mode = "raw")
  /\ UNCHANGED <<saved, got, amiss, proc, handlers, starts>>

\* ... and as a handler of exit
RunHandler ==
  /\ proc = "exiting"
  /\ handlers > 0
  /\ SetMode(saved)
  /\ handlers' = handlers - 1
  /\ UNCHANGED <<saved, at, got, amiss, spoilt, proc, starts, fails>>

RunHandlerFails ==
  /\ proc = "exiting"
  /\ handlers > 0
  /\ SetModeFails
  /\ handlers' = handlers - 1
  /\ Spoils("failed", mode = "raw")
  /\ UNCHANGED <<saved, at, got, amiss, proc, starts>>

\* the terminal's part of a signal
IoKilled ==
  /\ IoGone
  /\ Spoils("killed", mode = "raw")

\* the user types; Enter ends a line
Type(k) ==
  /\ Len(line) + Len(ready) < QueueLen
  /\ IF mode = "raw"
       THEN ready' = Append(ready, {}) /\ UNCHANGED line
       ELSE IF k = "enter"
         THEN ready' = ready \o Append(line, {}) /\ line' = <<>>
         ELSE line' = Append(line, {}) /\ UNCHANGED ready
  /\ UNCHANGED <<mode, saved, at, got, amiss, spoilt, procVars>>

IoStep(r) ==
  \/ WaitForKey(r) \/ ReadKey(r)
  \/ Save(r) \/ Register(r) \/ EnterRaw(r) \/ ReadByte(r) \/ Restore(r)
  \/ SaveFails(r) \/ EnterRawFails(r) \/ RestoreFails(r)

IoNext ==
  \/ \E r \in Readers : IoStep(r)
  \/ RunHandler
  \/ RunHandlerFails
  \/ \E k \in Keys : Type(k)

-----------------------------------------------------------------------------

IoTypeOK ==
  /\ mode \in {"line", "raw"}
  /\ saved \in {"unset", "line", "raw"}
  /\ Len(line) + Len(ready) <= QueueLen
  /\ \A i \in DOMAIN line : line[i] \subseteq Readers
  /\ \A i \in DOMAIN ready : ready[i] \subseteq Readers
  /\ at \in [Readers -> Steps]
  /\ got \in [Readers -> SUBSET Readers]
  /\ amiss \in [Readers -> SUBSET {"shared", "refused"}]
  /\ spoilt \in {"no", "overlap", "late", "killed", "failed"}

\* Whenever no wait-for-key is in progress, and after the process has ended,
\* the terminal is back in line mode: after any number of calls, of normal
\* ends, of exits that another part of the program asks for in the middle of a
\* call, and of failures to enter raw mode.  Except when two calls overlapped,
\* when a signal ended the process in a call, when a call went raw while exit
\* was running, or when the terminal could not be put back: tcgetattr failed
\* before it had ever succeeded, or the tcsetattr that was to end raw mode did.
ModeRestored ==
  (spoilt = "no" /\ (proc = "gone" \/ \A r \in Readers : at[r] \notin Waiting))
  => mode = "line"

\* wait-for-key returns a key typed after it was called, never the newline
\* that read-key left behind or what was typed ahead, whoever else is reading,
\* unless its own tcsetattr failed, and with it the flush.
KeyIsFresh ==
  \A r \in Readers : "refused" \notin amiss[r] => r \notin got[r]

\* If the user keeps typing, wait-for-key ends, without Enter, unless the
\* process ends, its own tcsetattr failed, or another call was in progress at
\* the same time: that may put the terminal back into line mode, or take the
\* keys.  What happened to earlier calls is no excuse.
WaitEnds ==
  \A r \in Readers :
    (at[r] = "poll") ~> (at[r] # "poll" \/ proc # "running" \/ amiss[r] # {})
=============================================================================
