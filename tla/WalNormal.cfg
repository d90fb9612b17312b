SPECIFICATION Spec
CONSTANTS
  c1 = c1
  c2 = c2
  k1 = k1
  NoProc = NoProc
  Conn <- MCConn1
  Writers <- MCConn1
  Checkpointer <- MCNobody
  NPages = 2
  NSlots = 1
  MaxTx = 2
  Sync = "any"
  WholeRuns = TRUE
  PagersCheckpoint = FALSE
  EarlyCheckpoint = FALSE
  Immediate = FALSE
  PowerFails = FALSE

PROPERTIES WholeTransactions

