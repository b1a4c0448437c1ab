SPECIFICATION Spec
CONSTANTS
  Key <- MCKey
  Inputs <- MCInputs
  Assignments <- MCAssignments
INVARIANTS
  PartitionKept
  LanesValid
  ConflictsAccounted
  LanesOrdered
PROPERTY NoPartialSchedule
\* The call returns, or panics on a vector of the wrong length.
CHECK_DEADLOCK FALSE
