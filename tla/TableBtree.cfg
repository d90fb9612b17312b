SPECIFICATION Spec
CONSTANTS
  PageLen = 56
  FileHeader = 20
  PayloadLen <- MCLen
  Root = 2
  Rowid <- MCRowid
  Probe <- MCProbe
  Start <- MCStart
  MaxWrites = 2
INVARIANTS PagesOwnedOnce SearchTree
PROPERTIES RefinesRowStore
CHECK_DEADLOCK FALSE
