---------------------------- MODULE MCFinalizers ----------------------------
(* Two permission groups, the first created being the last removed as in   *)
(* reconcileWorkspacePermissions, and one optional cluster role.           *)
EXTENDS Finalizers

CONSTANTS cheWorkspaces, namespacesEditor, r1

MCPermissions    == {cheWorkspaces, namespacesEditor}
MCProvisionOrder == <<cheWorkspaces, namespacesEditor>>
MCCleanupOrder   == <<namespacesEditor, cheWorkspaces>>
MCRoles          == {r1}
MCRoleLists      == {<<>>, <<r1>>}
=============================================================================
