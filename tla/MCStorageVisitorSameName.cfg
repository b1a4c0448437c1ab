SPECIFICATION VisitorSpec
CONSTANTS
  FunctionNames = {"f", "g"}
  Statements <- MCStatements
  AccessesIn <- AccessesOf
  CallsIn <- CallsOf
  MaxNodes = 5
INVARIANT
  SharedKeysFound
\* The walk ends with the file.
CHECK_DEADLOCK FALSE
