SPECIFICATION AnalyzeSpec
CONSTANTS
  Access <- MCAccess
  Programs = {}
  FileSets <- MCFileSets
  NameOrder <- MCNameOrder
INVARIANT NeverSilentlyDropped
CHECK_DEADLOCK FALSE
