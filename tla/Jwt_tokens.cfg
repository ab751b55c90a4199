\* Two threads that make and verify tokens, ours and node's, changed or not.
SPECIFICATION Spec
CONSTANTS
  t1 = t1
  t2 = t2
  k1 = k1
  k2 = k2
  Threads = {t1, t2}
  Secrets = {k1, k2}
  Header <- MCHeader
  Payloads <- MCPayloads
  Macs <- MCMacs
  SigLen = 2
  MaxCalls = 2
SYMMETRY Symmetry
INVARIANTS
  TypeOK
  VerdictRight
  GenuineTokensVerify
  PayloadReturned
\* the callers may stop
CHECK_DEADLOCK FALSE
