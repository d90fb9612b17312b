SPECIFICATION Spec
CONSTANTS
  c1 = c1
  c2 = c2
  k1 = k1
  NoProc = NoProc
  Conn <- MCConn
  Writers <- MCConn1
  Checkpointer <- MCCheckpointer
  NPages = 2
  NSlots = 2
  MaxTx = 2
  Sync = "full"
  WholeRuns = TRUE
  PagersCheckpoint = FALSE
  EarlyCheckpoint = FALSE
  Immediate = FALSE
  PowerFails = FALSE

INVARIANTS SnapshotKept

