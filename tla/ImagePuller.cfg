SPECIFICATION FairSpec
CONSTANTS
  MaxChannel = 2
  MaxUserOps = 2
  MaxMishaps = 1
INVARIANTS TypeOK
PROPERTIES FinalizerGuards InstallCompletes UninstallCompletes
CHECK_DEADLOCK FALSE
