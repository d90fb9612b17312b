SPECIFICATION Spec
CONSTANTS
  c1 = c1
  c2 = c2
  k1 = k1
  NoProc = NoProc
  Conn <- MCConn1
  Writers <- MCConn1
  Checkpointer <- MCCheckpointer
  NPages = 2
  NSlots = 1
  MaxTx = 2
  Sync = "any"
  WholeRuns = FALSE
  PagersCheckpoint = TRUE
  EarlyCheckpoint = FALSE
  Immediate = FALSE
  PowerFails = TRUE

INVARIANTS DatabaseIsTheLog
PROPERTIES BackfillNeverRetreats
