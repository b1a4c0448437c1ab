SPECIFICATION Spec
CONSTANTS
  Histories <- MCHistories
  LastLedger = 4
  StartLedger = 2
  EndLedger = 3
  MaxTx = 3
  PageSize = 2
  Attempts = 4
INVARIANTS
  CapturedPrefix
  DocumentComplete
PROPERTY Settles
\* The tool ends.
CHECK_DEADLOCK FALSE
