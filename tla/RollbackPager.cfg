SPECIFICATION Spec
CONSTANTS
  c1 = c1
  c2 = c2
  c3 = c3
  Conn <- MCConn2
  NPages = 3
  InitPages = 2
  MaxTx = 2
  Sync = "full"
  DurableUnlink = TRUE
  IOErrors = FALSE
  CrashInOpen = FALSE
INVARIANTS ReadersSeeCommitted CacheCoherent NoMissingPage
PROPERTIES AtomicDurable
