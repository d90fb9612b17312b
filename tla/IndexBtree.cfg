SPECIFICATION Spec
CONSTANTS
  PageLen = 136
  FileHeader = 100
  PayloadLen <- MCLen
  Root = 2
  Edit = {1, 9, 10, 20, 24, 25, 45}
  Probe = {0, 10, 22}
  Start <- MCStart
  MaxWrites = 2
INVARIANTS PagesOwnedOnce
PROPERTIES RefinesRowStore
CHECK_DEADLOCK FALSE
