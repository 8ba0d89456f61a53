SPECIFICATION FairSpec
CONSTANTS
  cheWorkspaces = cheWorkspaces
  namespacesEditor = namespacesEditor
  r1 = r1
  Permissions <- MCPermissions
  ProvisionOrder <- MCProvisionOrder
  CleanupOrder <- MCCleanupOrder
  Roles <- MCRoles
  RoleLists <- MCRoleLists
  GetMayFail = FALSE
  MaxCreations = 2
  MaxUserOps = 2
  MaxSpecWrites = 1
  MaxFaults = 1
INVARIANTS TypeOK
PROPERTIES HeldUntilGone GoneMeansClean DeletionCompletes DeletionCleansUp
CHECK_DEADLOCK FALSE
