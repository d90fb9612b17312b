SPECIFICATION FairSpec
CONSTANTS
  c1 = c1
  c2 = c2
  c3 = c3
  Conn <- MCConn3
  Process <- MCConn3
  ProcOf <- OwnProcess
INVARIANTS MutualExclusion LevelMatchesLocks ReservedProbeExact
PROPERTIES LadderSpec RefusalIsContention SetLevelReturns
