SPECIFICATION FairSpec
CONSTANTS
  Components <- MCComponents
  Dashboard = "dashboard"
  FirstCRs <- MCFirstCRs
  MaxUserOps = 1
  MaxMishaps = 1
INVARIANTS TypeOK
PROPERTIES AddressesAnswer NoSecondWay
CHECK_DEADLOCK FALSE
