SPECIFICATION Spec
CONSTANTS
  MaxPages = 6
  MaxLeaves = 2
  DoubleFree = FALSE
INVARIANTS NothingLeaks ChecksOk
PROPERTY AllocatesPages
