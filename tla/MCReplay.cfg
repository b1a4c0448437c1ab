SPECIFICATION ReplaySpec
CONSTANTS
  Documents <- MCDocuments
  ValidUtf8 <- MCValidUtf8
INVARIANTS
  DecodesFaithfully
  CutDocumentsRejected
  EntriesDecideConflicts
\* The decoder returns.
CHECK_DEADLOCK FALSE
