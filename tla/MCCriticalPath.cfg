SPECIFICATION Spec
CONSTANT Inputs <- MCInputs
INVARIANTS
  LongestExact
  PathIsChain
  ReportsHeaviest
\* The call returns: no step follows "done".
CHECK_DEADLOCK FALSE
