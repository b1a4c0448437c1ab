SPECIFICATION VisitorSpec
CONSTANTS
  FunctionNames = {"f", "g"}
  Statements <- MCStatements
  AccessesIn <- AccessesOf
  CallsIn <- CallsOf
  MaxNodes = 5
INVARIANTS
  StatementsRecorded
  EffectsRecorded
  PatternsFound
\* The walk ends with the file.
CHECK_DEADLOCK FALSE
