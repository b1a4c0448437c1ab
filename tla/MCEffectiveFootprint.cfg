SPECIFICATION Spec
CONSTANTS
  Access <- MCAccess
  Programs <- MCPrograms
INVARIANTS
  SimpleChain
  MemoSound
  ExactOffCycles
  FreshRootsExact
PROPERTIES
  MemoFinal
  Terminates
\* The analysis returns once every function is reported.
CHECK_DEADLOCK FALSE
