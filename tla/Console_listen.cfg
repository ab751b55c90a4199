\* Two threads that listen for datagrams, in a process that exits or
\* is killed.
SPECIFICATION FairSpec
CONSTANTS
  l1 = l1
  l2 = l2
  r1 = r1
  r2 = r2
  Listeners = {l1, l2}
  Readers = {}
  Strings <- MCStrings
  BufLen = 5
  SockLen = 1
  QueueLen = 0
  MaxSends = 2
  MaxFails = 1
  MaxHandlers = 0
  MaxStarts = 0
INVARIANTS
  TypeOK
  HearsItsOwn
PROPERTIES
  ReceivedIsHeard
\* the process may end
CHECK_DEADLOCK FALSE
