SPECIFICATION Spec
CONSTANTS
  p1 = p1
  p2 = p2
  p3 = p3
  r1 = r1
  r2 = r2
  b1 = b1
  b2 = b2
  b3 = b3
  b4 = b4
  Page <- MCPage
  Reader <- MCReader
  Buffer <- MCBuffer
  NoBuffer = NoBuffer
  Capacity = 2
  HeapLimit = 3
  MaxTick = 8
SYMMETRY Symmetric
INVARIANTS EvictionFindsVictim NobodySeesRecycling
PROPERTY EvictsLeastRecent
CHECK_DEADLOCK FALSE
