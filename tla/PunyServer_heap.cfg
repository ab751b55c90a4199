\* Two requests; freed memory is given to others before its last use.
SPECIFICATION Spec
CONSTANTS
  c1 = c1
  c2 = c2
  c3 = c3
  Clients = {c1, c2}
  Request <- Gets
  BodyLen = 2
  Misread = {}
  Chunk = 3
  MaxEnqueued = 2
  MaxThreads = 2
  MayHangUp = FALSE
  HeapReuse = TRUE
INVARIANT
  OwnAnswer
\* a served or dead server stops
CHECK_DEADLOCK FALSE
