SPECIFICATION FairSpec
CONSTANTS
  Configurations = {"github"}
  Legacy = {"legacy"}
  Unmountable = {"unnamed"}
  MaxUserOps = 3
  MaxMishaps = 1
INVARIANTS TypeOK
PROPERTIES GitHubFollows
CHECK_DEADLOCK FALSE
