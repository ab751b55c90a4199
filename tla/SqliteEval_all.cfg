\* Scripts of up to three statements over one table, each with every number of
\* parameters; two evals in turn.
SPECIFICATION Spec
CONSTANTS
  Tables = {"t"}
  Absent = Absent
  Scripts <- MCScripts
  Values <- MCValues
  Numerals <- MCNumerals
  Half = 8
  NaNInt <- MCNaNInt
  MaxParams = 1
  MaxEvals = 2
INVARIANTS
  TypeOK
  AllFinalised
  RunsInOrder
  RowsMeansAll
PROPERTY
  ClosedOnce
\* the evals are used up
CHECK_DEADLOCK FALSE
