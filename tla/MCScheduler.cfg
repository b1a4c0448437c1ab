SPECIFICATION Spec
CONSTANTS
  Key <- MCKey
  Inputs <- MCInputs
INVARIANTS
  EdgeConservation
  GraphExact
  ValidatorsAccept
  ReturnsScheduleOf
  StagesIsolated
  FiguresBoundOneAnother
  ConflictsCountedAlike
  HotKeysRanked
PROPERTY ImplementsAssignment
\* The call returns once every transaction is placed.
CHECK_DEADLOCK FALSE
