SPECIFICATION FairSpec
CONSTANTS
  Properties = {"v1"}
  BitBucket = {"b1", "b2"}
  Mounted = {"token"}
  None = None
  MaxEvents = 2
INVARIANTS TypeOK
PROPERTIES ServerFollows SettingKept
CHECK_DEADLOCK FALSE
