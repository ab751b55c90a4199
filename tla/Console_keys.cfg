\* Two threads that ask for keys in a process that exits,
\* is killed and is started again; a send that fails makes it exit.
SPECIFICATION FairSpec
CONSTANTS
  l1 = l1
  l2 = l2
  r1 = r1
  r2 = r2
  Listeners = {}
  Readers = {r1, r2}
  Strings <- MCStrings
  BufLen = 5
  SockLen = 1
  QueueLen = 2
  MaxSends = 0
  MaxFails = 2
  MaxHandlers = 2
  MaxStarts = 1
INVARIANTS
  ModeRestored
  KeyIsFresh
PROPERTIES
  WaitEnds
\* after the last start the process may end
CHECK_DEADLOCK FALSE
