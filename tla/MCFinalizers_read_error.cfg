SPECIFICATION Spec
CONSTANTS
  cheWorkspaces = cheWorkspaces
  namespacesEditor = namespacesEditor
  r1 = r1
  Permissions <- MCPermissions
  ProvisionOrder <- MCProvisionOrder
  CleanupOrder <- MCCleanupOrder
  Roles <- MCRoles
  RoleLists <- MCRoleLists
  GetMayFail = TRUE
  MaxCreations = 1
  MaxUserOps = 1
  MaxSpecWrites = 0
  MaxFaults = 1
PROPERTIES HeldUntilGone
CHECK_DEADLOCK FALSE
