SPECIFICATION AnalyzeSpec
CONSTANTS
  Access <- MCAccess
  Programs = {}
  FileSets <- MCFileSets
  NameOrder <- MCNameOrder
INVARIANTS
  ProgramWellFormed
  NoAccessMissedSilently
  ExactWhereResolved
  DeltasAddUp
\* The analysis returns.
CHECK_DEADLOCK FALSE
