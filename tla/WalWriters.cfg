SPECIFICATION Spec
CONSTANTS
  c1 = c1
  c2 = c2
  k1 = k1
  NoProc = NoProc
  Conn <- MCConn
  Writers <- MCConn
  Checkpointer <- MCNobody
  NPages = 2
  NSlots = 2
  MaxTx = 2
  Sync = "full"
  WholeRuns = TRUE
  PagersCheckpoint = FALSE
  EarlyCheckpoint = FALSE
  Immediate = TRUE
  PowerFails = TRUE
SYMMETRY Symmetric
INVARIANTS SingleWriter HintAgrees
PROPERTIES WholeTransactions
