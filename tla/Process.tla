------------------------------ MODULE Process -------------------------------
(***************************************************************************)
(* The life of one process of the program, as far as its C modules share   *)
(* it: exit runs the handlers registered with atexit, on the thread that   *)
(* called it, while the other threads go on; a signal ends the process     *)
(* without them.                                                           *)
(***************************************************************************)
EXTENDS Naturals

CONSTANTS
  MaxHandlers,   \* bound on the handlers registered in one process
  MaxStarts,     \* bound on the times the program is started again
  MaxFails       \* bound on the system calls that fail

ASSUME ProcessAssumption == MaxHandlers \in Nat /\ MaxStarts \in Nat /\ MaxFails \in Nat

VARIABLES
  proc,       \* "running", "exiting" or "gone"
  handlers,   \* number of handlers registered and not run
  starts,     \* times the program was started again
  fails       \* number of system calls that failed

procVars == <<proc, handlers, starts, fails>>

Alive == proc # "gone"

ProcessInit == proc = "running" /\ handlers = 0 /\ starts = 0 /\ fails = 0

\* a system call fails
Fails == fails < MaxFails /\ fails' = fails + 1

\* a system call fails, and the code calls exit(status)
Exit ==
  /\ proc = "running"
  /\ proc' = "exiting"
  /\ Fails
  /\ UNCHANGED <<handlers, starts>>

\* the last handler has run
ExitEnds ==
  /\ proc = "exiting"
  /\ handlers = 0
  /\ proc' = "gone"
  /\ UNCHANGED <<handlers, starts, fails>>

\* a signal, such as the one of Ctrl-C
Killed ==
  /\ Alive
  /\ proc' = "gone"
  /\ handlers' = 0
  /\ UNCHANGED <<starts, fails>>

Started ==
  /\ proc = "gone"
  /\ starts < MaxStarts
  /\ proc' = "running"
  /\ starts' = starts + 1
  /\ UNCHANGED <<handlers, fails>>

ProcessTypeOK ==
  /\ proc \in {"running", "exiting", "gone"}
  /\ handlers \in 0 .. MaxHandlers
  /\ starts \in 0 .. MaxStarts
  /\ fails \in 0 .. MaxFails
=============================================================================
