SPECIFICATION Spec
CONSTANTS
  Access <- MCAccess
  Programs <- MCPrograms
INVARIANT EveryRootExact
CHECK_DEADLOCK FALSE
