\* Three connections: a body, a request with the fence of a long string inside, and one
\* with a byte 0.  atoi may read 9 for the length; clients may hang up at any time, and
\* the process can start two threads only.
SPECIFICATION FairSpec
CONSTANTS
  c1 = c1
  c2 = c2
  c3 = c3
  Clients = {c1, c2, c3}
  Request <- Mixed
  BodyLen = 1
  Misread = {9}
  Chunk = 3
  MaxEnqueued = 2
  MaxThreads = 2
  MayHangUp = TRUE
  HeapReuse = FALSE
INVARIANTS
  TypeOK
  WholeRequest
  ParsesRequests
PROPERTY
  AnsweredOrExcused
\* a served, abandoned or dead server stops
CHECK_DEADLOCK FALSE
