\* Two txn calls in turn with :retry, and txn nested in txn: three statements that succeed and two failures.
SPECIFICATION Spec
CONSTANTS
  Retry = TRUE
  MaxStmts = 3
  MaxFails = 2
  MaxTxns = 2
  MaxDepth = 2
INVARIANTS
  TypeOK
  AllOrNothing
  RaisedMeansRolledBack
  ValueMeansCommitted
  NothingLeftOpen
  RetriedWorkDiscarded
\* the calls are used up, or the connection is closed
CHECK_DEADLOCK FALSE
