SPECIFICATION GreedySpec
CONSTANT Graphs <- MCGraphs
INVARIANTS
  ExactlyOnce
  EarliestStage
  StageBound
PROPERTIES
  ImplementsAssignment
\* The call returns once every transaction is placed.
CHECK_DEADLOCK FALSE
