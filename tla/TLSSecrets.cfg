SPECIFICATION FairSpec
CONSTANTS
  MaxRuns = 3
  MaxUserOps = 1
  MaxFaults = 1
INVARIANTS TypeOK PairsMatch
PROPERTIES TLSSettles
CHECK_DEADLOCK FALSE
