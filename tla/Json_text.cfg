\* Every value, buffer and text of MCJson; the recursion guard and
\* the C stack are scaled down.
SPECIFICATION FairSpec
CONSTANTS
  Janet <- MCJanet
  Values <- MCValues
  Buffers <- MCBuffers
  Foreign <- MCForeign
  Guard = 2
  CStack = 3
INVARIANTS
  CallerTextKept
  RoundTripExactly
  AcceptsExactly
PROPERTIES
  EveryCallEnds
\* one encode and one decode, then the caller stops
CHECK_DEADLOCK FALSE
