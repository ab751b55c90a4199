\* One txn call with :retry; the server reports a conflict in the body.
SPECIFICATION Spec
CONSTANTS
  Retry = TRUE
  MaxStmts = 4
  MaxFails = 3
  MaxTxns = 1
  MaxDepth = 1
INVARIANT
  RetryRunsBody
\* the calls are used up, or the connection is closed
CHECK_DEADLOCK FALSE
