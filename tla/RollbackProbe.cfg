SPECIFICATION Spec
CONSTANTS
  c1 = c1
  c2 = c2
  c3 = c3
  Conn <- MCConn2
  NPages = 2
  InitPages = 2
  MaxTx = 1
  Sync = "full"
  DurableUnlink = TRUE
  IOErrors = FALSE
  CrashInOpen = TRUE
INVARIANTS ReadersSeeCommitted
