------------------------------- MODULE Authority -------------------------------
(***************************************************************************)
(* Who may do what: packages/domain/src/identity/roles.ts.                 *)
(***************************************************************************)
ROLES == {"OWNER", "ADMIN", "MANAGER", "CREATOR", "VIEWER", "BILLING"}

CONTENT_WORK ==
  {"property.view", "property.create", "property.edit", "property.delete", "asset.upload",
   "asset.delete", "analysis.review", "video.view", "video.generate", "video.regenerate",
   "video.download", "disclosure.change", "unit.consume", "unit.view"}

MANAGEMENT ==
  {"organization.view", "organization.manage", "member.view", "member.manage", "group.view",
   "group.manage", "permission.manage", "billing.view", "audit.view", "audit.export"}

PERMISSIONS ==
  CONTENT_WORK \cup MANAGEMENT \cup {"disclosure.none", "billing.manage", "video.share"}

ROLE_PERMISSIONS(role) ==
  CASE role = "OWNER"   -> MANAGEMENT \cup CONTENT_WORK \cup {"billing.manage"}
    [] role = "ADMIN"   -> MANAGEMENT \cup CONTENT_WORK
    [] role = "MANAGER" -> {"organization.view", "member.view", "group.view"} \cup CONTENT_WORK
    [] role = "CREATOR" -> {"organization.view"} \cup CONTENT_WORK
    [] role = "VIEWER"  -> {"organization.view", "property.view", "video.view", "video.download"}
    [] role = "BILLING" ->
         {"organization.view", "member.view", "unit.view", "billing.view", "billing.manage"}

OWNER_ONLY_ROLES == {"OWNER", "ADMIN", "BILLING"}

mayAssignRole(actorRole, role) ==
  \/ actorRole = "OWNER"
  \/ actorRole = "ADMIN" /\ role \notin OWNER_ONLY_ROLES

GRANTABLE_PERMISSIONS       == PERMISSIONS \ {"video.share"}
PROTECTED_PERMISSIONS       == {"permission.manage", "billing.manage", "disclosure.none"}
GROUP_GRANTABLE_PERMISSIONS == GRANTABLE_PERMISSIONS \ {"disclosure.none"}
CANNOT_CREATE_PROPERTY      == {"VIEWER", "BILLING"}

effectivePermissions(role, granted, fromGroups) ==
  {p \in ROLE_PERMISSIONS(role) \cup granted \cup (fromGroups \cap GROUP_GRANTABLE_PERMISSIONS) :
     ~ (p = "property.create" /\ role \in CANNOT_CREATE_PROPERTY)}

\* delegationRefusal answers null: an owner delegates anything, another what it
\* holds and nothing protected.
MayDelegate(actor, permission) ==
  \/ actor.role = "OWNER"
  \/ permission \notin PROTECTED_PERMISSIONS /\ permission \in actor.permissions

\* grantRefusal answers null.
MayGrant(actor, targetRole, permission) ==
  /\ permission \in GRANTABLE_PERMISSIONS
  /\ mayAssignRole(actor.role, targetRole)
  /\ MayDelegate(actor, permission)
  /\ ~ (permission = "property.create" /\ targetRole \in CANNOT_CREATE_PROPERTY)

MayRevoke(actor, targetRole, permission) ==
  /\ permission \in GRANTABLE_PERMISSIONS
  /\ mayAssignRole(actor.role, targetRole)
  /\ MayDelegate(actor, permission)

\* groupGrantRefusal answers null.
MayGrantToGroup(actor, permission) ==
  permission \in GROUP_GRANTABLE_PERMISSIONS /\ MayDelegate(actor, permission)
===============================================================================
