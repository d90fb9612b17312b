SPECIFICATION Spec
CONSTANTS
  PageLen = 512
  FileHeader = 100
  PayloadLen <- MixedLen
  Root = 2
  Edit = {15}
  Probe = {}
  Start <- MixedStart
  MaxWrites = 1
PROPERTIES RefinesRowStore
CHECK_DEADLOCK FALSE
