SPECIFICATION FairSpec
CONSTANTS
  c1 = c1
  c2 = c2
  CheClusters <- MCCheClusters
  Namespaces <- MCNamespaces
  Files <- MCFiles
  Items <- MCItems
  Manager = "devworkspace-che"
  ManagerCRD = "chemanagers"
  MaxVersion = 2
  MaxUserOps = 1
  MaxMishaps = 1
INVARIANTS TypeOK NoFight
PROPERTIES Converges
CHECK_DEADLOCK FALSE
