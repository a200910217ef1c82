SPECIFICATION FairSpec
CONSTANTS
  Blocks = 2
  Percent = 1
  LineLen = 1
  MaxEnters = 2
  MaxFaults = 1
INVARIANTS ImageIntact 
PROPERTY BlockedEnds
CHECK_DEADLOCK FALSE
