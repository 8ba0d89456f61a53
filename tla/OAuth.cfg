SPECIFICATION FairSpec
CONSTANTS
  MaxSecrets = 3
  MaxUserOps = 6
  MaxFailures = 2
  MaxRestarts = 1
INVARIANTS TypeOK NoOrphanClient CredentialsAgree
PROPERTIES ToggleTakesEffect
CHECK_DEADLOCK FALSE
