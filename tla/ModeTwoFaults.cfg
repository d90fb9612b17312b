SPECIFICATION ModeSpec
CONSTANTS
  NPages = 2
  MaxTx = 3
  MaxFaults = 2
  UnderPager = FALSE
  OtherReader = TRUE
INVARIANT LogCopiedFirst
