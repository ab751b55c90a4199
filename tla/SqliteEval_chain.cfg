\* Scripts of up to three statements over one table, without parameters;
\* two evals in turn.
SPECIFICATION Spec
CONSTANTS
  Tables = {"t"}
  Absent = Absent
  Scripts <- MCScripts
  Values <- MCValues
  Numerals <- MCNumerals
  Half = 8
  NaNInt <- MCNaNInt
  MaxParams = 0
  MaxEvals = 2
INVARIANT
  ChainsRun
\* the evals are used up
CHECK_DEADLOCK FALSE
