------------------------------ MODULE Membership ------------------------------
(***************************************************************************)
(* The members of one organization, their roles, invitations, grants and   *)
(* groups, and the assignments of its properties, changed by several calls *)
(* at once: packages/domain/src/identity with the repositories of          *)
(* packages/database/src/repositories.ts and group-repository.ts.          *)
(*                                                                         *)
(* A call reads its actor's authority once and acts later, whatever became *)
(* of the actor meanwhile.  A transaction that locks is a step per lock    *)
(* and one for its writes and commit; one without a lock that matters is a *)
(* single step.  What a call holds is in its own record: a membership row  *)
(* under FOR UPDATE, which foreign keys wait for, or a group's row under   *)
(* FOR UPDATE or FOR SHARE.                                                *)
(*                                                                         *)
(* Names, e-mail addresses and tokens are left out; a user's identifier is *)
(* a number, for the order the owners' rows are locked in.                 *)
(***************************************************************************)
EXTENDS Authority, Naturals

CONSTANTS
  User,       \* a set of positive numbers
  Group, Property, Invitation,
  Permission, \* the permissions calls hand out
  Call        \* calls being served at once

NONE == "NONE"
NoUser == 0
NoGroup == "no group"

VARIABLES
  role,        \* memberships: a user's role, or NONE
  granted,     \* permission_grants
  invitation,  \* invitations
  groups,      \* the groups there are
  inGroup,     \* group_members
  carries,     \* group_permissions
  assigned,    \* a property's responsible user, group and status
  mfaRequired, \* organizations.mfaRequired
  call         \* what each call is doing, with what it read and holds

members    == <<role, granted, invitation>>
groupRows  == <<groups, inGroup, carries>>
vars == <<members, groupRows, assigned, mfaRequired, call>>

Idle == [at |-> "IDLE"]
At(c, phase) == call[c].at = phase
Goes(c, to)  == call' = [call EXCEPT ![c] = to]
Ends(c)      == Goes(c, Idle)

--------------------------------------------------------------------------------
(* Authority, as a call reads it when it begins.                                *)

groupPermissionsForMember(u) == UNION {carries[g] : g \in {h \in groups : u \in inGroup[h]}}

authorizeOrganization(u) ==
  [user |-> u, role |-> role[u],
   permissions |-> effectivePermissions(role[u], granted[u], groupPermissionsForMember(u))]

Holds(u, permission) == role[u] # NONE /\ permission \in authorizeOrganization(u).permissions

mayReassign(u) == role[u] \in {"OWNER", "ADMIN"}

--------------------------------------------------------------------------------
(* Locks.                                                                       *)

\* Calls that lock membership rows, and the rows each has.
LocksMembers(c) == call[c].at \in {"LOCK_OWNERS", "CHANGE", "LOCK_MEMBER", "REMOVE"}
HoldsMember(c, u) == LocksMembers(c) /\ u \in call[c].held
FreeFor(c, u) == \A d \in Call \ {c} : ~ HoldsMember(d, u)

SHARING == {"ADD", "TAKE"}
HoldsGroup(c, g) == At(c, "WRITE_GROUP") /\ call[c].group = g
ExclusiveFor(c, g) == \A d \in Call \ {c} : ~ HoldsGroup(d, g)
SharedFor(c, g) == \A d \in Call \ {c} : HoldsGroup(d, g) => call[d].op \in SHARING

\* What a foreign key asks of the row it names.
MemberReferable(c, u) == u # NoUser => FreeFor(c, u)
GroupReferable(c, g)  == g # NoGroup => SharedFor(c, g)
MemberThere(u) == u = NoUser \/ role[u] # NONE
GroupThere(g)  == g = NoGroup \/ g \in groups

--------------------------------------------------------------------------------
(* Joining.                                                                     *)

Invite(c, u, i, r) ==
  /\ At(c, "IDLE")
  /\ Holds(u, "member.manage") /\ mayAssignRole(role[u], r)
  /\ Goes(c, [at |-> "INVITE", invitation |-> i, role |-> r, by |-> u])
  /\ UNCHANGED <<members, groupRows, assigned, mfaRequired>>

CreateInvitation(c) ==
  /\ At(c, "INVITE")
  /\ invitation[call[c].invitation].status = NONE
  /\ invitation' = [invitation EXCEPT ![call[c].invitation] =
       [status |-> "PENDING", role |-> call[c].role, by |-> call[c].by]]
  /\ Ends(c)
  /\ UNCHANGED <<role, granted, groupRows, assigned, mfaRequired>>

ExpireInvitation(i) ==
  /\ invitation[i].status = "PENDING"
  /\ invitation' = [invitation EXCEPT ![i].status = "EXPIRED"]
  /\ UNCHANGED <<role, granted, groupRows, assigned, mfaRequired, call>>

\* acceptInvitation: the inviter must still be able to assign the role.
AcceptInvitation(c, u, i) ==
  LET by == invitation[i].by
  IN  /\ At(c, "IDLE")
      /\ invitation[i].status = "PENDING"
      /\ role[u] = NONE
      /\ Holds(by, "member.manage") /\ mayAssignRole(role[by], invitation[i].role)
      /\ Goes(c, [at |-> "JOIN", invitation |-> i, user |-> u])
      /\ UNCHANGED <<members, groupRows, assigned, mfaRequired>>

\* accept: the invitation and the membership in one commit; an invitation used
\* meanwhile, or a membership that is there, leaves both as they are.
Join(c) ==
  LET i == call[c].invitation
      u == call[c].user
  IN  /\ At(c, "JOIN")
      /\ IF invitation[i].status = "PENDING" /\ role[u] = NONE
         THEN /\ invitation' = [invitation EXCEPT ![i].status = "ACCEPTED"]
              /\ role' = [role EXCEPT ![u] = invitation[i].role]
         ELSE UNCHANGED <<invitation, role>>
      /\ Ends(c)
      /\ UNCHANGED <<granted, groupRows, assigned, mfaRequired>>

--------------------------------------------------------------------------------
(* Changing a role and removing a member.                                       *)

Begun(phase, target, was, to) ==
  [at |-> phase, target |-> target, was |-> was, to |-> to, left |-> {}, held |-> {}]

ChangeRole(c, u, target, to) ==
  /\ At(c, "IDLE")
  /\ Holds(u, "permission.manage")
  /\ role[target] # NONE
  /\ mayAssignRole(role[u], role[target]) /\ mayAssignRole(role[u], to)
  /\ Goes(c, Begun(IF role[target] = "OWNER" /\ to # "OWNER" THEN "COUNT_OWNERS" ELSE "CHANGE",
                   target, role[target], to))
  /\ UNCHANGED <<members, groupRows, assigned, mfaRequired>>

RemoveMember(c, u, target) ==
  /\ At(c, "IDLE")
  /\ Holds(u, "member.manage")
  /\ role[target] # NONE
  /\ mayAssignRole(role[u], role[target])
  /\ Goes(c, Begun(IF role[target] = "OWNER" THEN "COUNT_OWNERS" ELSE "LOCK_MEMBER",
                   target, role[target], NONE))
  /\ UNCHANGED <<members, groupRows, assigned, mfaRequired>>

\* ownerLossRefusal: the owners as the statement sees them, locked one by one in
\* the order of their identifiers; a row that is no owner's any more drops out.
CountOwners(c) ==
  /\ At(c, "COUNT_OWNERS")
  /\ Goes(c, [call[c] EXCEPT !.at = "LOCK_OWNERS", !.left = {u \in User : role[u] = "OWNER"}])
  /\ UNCHANGED <<members, groupRows, assigned, mfaRequired>>

LockOwner(c, u) ==
  /\ At(c, "LOCK_OWNERS")
  /\ u \in call[c].left /\ \A v \in call[c].left : u <= v
  /\ FreeFor(c, u)
  /\ Goes(c, [call[c] EXCEPT
       !.left = @ \ {u},
       !.held = IF role[u] = "OWNER" THEN @ \cup {u} ELSE @])
  /\ UNCHANGED <<members, groupRows, assigned, mfaRequired>>

\* STALE when the target is no owner, LAST_OWNER when it is the only one.
OwnersLocked(c) ==
  /\ At(c, "LOCK_OWNERS") /\ call[c].left = {}
  /\ IF call[c].target \in call[c].held /\ call[c].held # {call[c].target}
     THEN Goes(c, [call[c] EXCEPT !.at = IF call[c].to = NONE THEN "LOCK_MEMBER" ELSE "CHANGE"])
     ELSE Ends(c)
  /\ UNCHANGED <<members, groupRows, assigned, mfaRequired>>

\* changeRole's update, by compare and set on the role that was read.
Change(c) ==
  LET target == call[c].target
  IN  /\ At(c, "CHANGE")
      /\ FreeFor(c, target)
      /\ role' = IF role[target] = call[c].was THEN [role EXCEPT ![target] = call[c].to] ELSE role
      /\ Ends(c)
      /\ UNCHANGED <<granted, invitation, groupRows, assigned, mfaRequired>>

LockMember(c) ==
  LET target == call[c].target
  IN  /\ At(c, "LOCK_MEMBER")
      /\ FreeFor(c, target)
      /\ IF role[target] = call[c].was
         THEN Goes(c, [call[c] EXCEPT !.at = "REMOVE", !.held = @ \cup {target}])
         ELSE Ends(c)
      /\ UNCHANGED <<members, groupRows, assigned, mfaRequired>>

\* The member's properties are released, the membership deleted, and its grants
\* and group memberships with it.
Remove(c) ==
  LET target == call[c].target
  IN  /\ At(c, "REMOVE")
      /\ assigned' = [p \in Property |->
           IF assigned[p].responsible = target
           THEN [assigned[p] EXCEPT !.responsible = NoUser] ELSE assigned[p]]
      /\ role' = [role EXCEPT ![target] = NONE]
      /\ granted' = [granted EXCEPT ![target] = {}]
      /\ inGroup' = [g \in Group |-> inGroup[g] \ {target}]
      /\ Ends(c)
      /\ UNCHANGED <<invitation, groups, carries, mfaRequired>>

--------------------------------------------------------------------------------
(* Individual grants.                                                           *)

GrantToMember(c, u, target, permission) ==
  /\ At(c, "IDLE")
  /\ Holds(u, "permission.manage")
  /\ role[target] # NONE
  /\ MayGrant(authorizeOrganization(u), role[target], permission)
  /\ Goes(c, [at |-> "GRANT", target |-> target, permission |-> permission])
  /\ UNCHANGED <<members, groupRows, assigned, mfaRequired>>

\* insertIfAbsent: the foreign key waits for the membership, and needs it there.
InsertGrant(c) ==
  LET target == call[c].target
  IN  /\ At(c, "GRANT")
      /\ FreeFor(c, target)
      /\ granted' = IF role[target] # NONE
                    THEN [granted EXCEPT ![target] = @ \cup {call[c].permission}] ELSE granted
      /\ Ends(c)
      /\ UNCHANGED <<role, invitation, groupRows, assigned, mfaRequired>>

RevokeFromMember(c, u, target, permission) ==
  /\ At(c, "IDLE")
  /\ Holds(u, "permission.manage")
  /\ role[target] # NONE
  /\ MayRevoke(authorizeOrganization(u), role[target], permission)
  /\ Goes(c, [at |-> "REVOKE", target |-> target, permission |-> permission])
  /\ UNCHANGED <<members, groupRows, assigned, mfaRequired>>

DeleteGrant(c) ==
  /\ At(c, "REVOKE")
  /\ granted' = [granted EXCEPT ![call[c].target] = @ \ {call[c].permission}]
  /\ Ends(c)
  /\ UNCHANGED <<role, invitation, groupRows, assigned, mfaRequired>>

--------------------------------------------------------------------------------
(* Groups.                                                                      *)

BeginCreateGroup(c, u, g) ==
  /\ At(c, "IDLE")
  /\ Holds(u, "group.manage")
  /\ Goes(c, [at |-> "CREATE_GROUP", group |-> g])
  /\ UNCHANGED <<members, groupRows, assigned, mfaRequired>>

CreateGroup(c) ==
  /\ At(c, "CREATE_GROUP")
  /\ groups' = groups \cup {call[c].group}
  /\ Ends(c)
  /\ UNCHANGED <<members, inGroup, carries, assigned, mfaRequired>>

GroupChange(op, actor, g, u, permission) ==
  [at |-> "LOCK_GROUP", op |-> op, actor |-> actor, group |-> g, user |-> u, permission |-> permission]

\* authorizeMemberChange
BeginMemberChange(c, u, op, g, target) ==
  /\ At(c, "IDLE")
  /\ Holds(u, "group.manage")
  /\ g \in groups
  /\ role[target] # NONE /\ mayAssignRole(role[u], role[target])
  /\ Goes(c, GroupChange(op, authorizeOrganization(u), g, target, NONE))
  /\ UNCHANGED <<members, groupRows, assigned, mfaRequired>>

\* authorizePermissionChange
BeginPermissionChange(c, u, op, g, permission) ==
  /\ At(c, "IDLE")
  /\ Holds(u, "permission.manage")
  /\ g \in groups
  /\ MayGrantToGroup(authorizeOrganization(u), permission)
  /\ Goes(c, GroupChange(op, authorizeOrganization(u), g, NoUser, permission))
  /\ UNCHANGED <<members, groupRows, assigned, mfaRequired>>

BeginDeleteGroup(c, u, g) ==
  /\ At(c, "IDLE")
  /\ Holds(u, "group.manage") /\ role[u] \in {"OWNER", "ADMIN"}
  /\ Goes(c, GroupChange("DELETE", authorizeOrganization(u), g, NoUser, NONE))
  /\ UNCHANGED <<members, groupRows, assigned, mfaRequired>>

permissionCeiling(actor, permissions) == \A p \in permissions : MayGrantToGroup(actor, p)
memberCeiling(actor, g) == \A u \in inGroup[g] : mayAssignRole(actor.role, role[u])

\* The check each change runs on what it locked.
Allowed(change) ==
  CASE change.op \in SHARING ->
         permissionCeiling(change.actor, carries[change.group])
    [] change.op \in {"GRANT", "REVOKE"} ->
         memberCeiling(change.actor, change.group)
    [] OTHER ->
         /\ permissionCeiling(change.actor, carries[change.group])
         /\ carries[change.group] # {} => memberCeiling(change.actor, change.group)

lockGroup(c) ==
  LET g == call[c].group
  IN  /\ At(c, "LOCK_GROUP")
      /\ IF call[c].op \in SHARING THEN SharedFor(c, g) ELSE ExclusiveFor(c, g)
      /\ IF g \in groups /\ Allowed(call[c])
         THEN Goes(c, [call[c] EXCEPT !.at = "WRITE_GROUP"])
         ELSE Ends(c)
      /\ UNCHANGED <<members, groupRows, assigned, mfaRequired>>

Writes(c, op) == At(c, "WRITE_GROUP") /\ call[c].op = op /\ Ends(c)

AddMember(c) ==
  LET u == call[c].user
      g == call[c].group
  IN  /\ Writes(c, "ADD")
      /\ FreeFor(c, u)
      /\ inGroup' = IF role[u] # NONE THEN [inGroup EXCEPT ![g] = @ \cup {u}] ELSE inGroup
      /\ UNCHANGED <<members, groups, carries, assigned, mfaRequired>>

TakeMember(c) ==
  /\ Writes(c, "TAKE")
  /\ inGroup' = [inGroup EXCEPT ![call[c].group] = @ \ {call[c].user}]
  /\ UNCHANGED <<members, groups, carries, assigned, mfaRequired>>

GrantToGroup(c) ==
  /\ Writes(c, "GRANT")
  /\ carries' = [carries EXCEPT ![call[c].group] = @ \cup {call[c].permission}]
  /\ UNCHANGED <<members, groups, inGroup, assigned, mfaRequired>>

RevokeFromGroup(c) ==
  /\ Writes(c, "REVOKE")
  /\ carries' = [carries EXCEPT ![call[c].group] = @ \ {call[c].permission}]
  /\ UNCHANGED <<members, groups, inGroup, assigned, mfaRequired>>

DeleteGroup(c) ==
  LET g == call[c].group
  IN  /\ Writes(c, "DELETE")
      /\ assigned' = [p \in Property |->
           IF assigned[p].group = g THEN [assigned[p] EXCEPT !.group = NoGroup] ELSE assigned[p]]
      /\ inGroup' = [inGroup EXCEPT ![g] = {}]
      /\ carries' = [carries EXCEPT ![g] = {}]
      /\ groups' = groups \ {g}
      /\ UNCHANGED <<members, mfaRequired>>

--------------------------------------------------------------------------------
(* Properties and whom they are assigned to.                                    *)

requireEligible(u) == u # NoUser => role[u] \notin {NONE, "BILLING"}

\* What u may give a new property: an owner or admin anyone eligible, a manager
\* itself and one of its groups, the others themselves.
initialAssignment(u, responsible, group) ==
  IF mayReassign(u) THEN requireEligible(responsible) /\ GroupThere(group)
  ELSE /\ responsible = u
       /\ IF role[u] = "MANAGER" THEN group \in groups /\ u \in inGroup[group] ELSE group = NoGroup

BeginCreateProperty(c, u, p, responsible, group) ==
  /\ At(c, "IDLE")
  /\ Holds(u, "property.create")
  /\ initialAssignment(u, responsible, group)
  /\ Goes(c, [at |-> "CREATE_PROPERTY", property |-> p, responsible |-> responsible, group |-> group])
  /\ UNCHANGED <<members, groupRows, assigned, mfaRequired>>

\* The foreign keys wait for a removal or a deletion, and refuse what is gone.
CreateProperty(c) ==
  LET new == call[c]
  IN  /\ At(c, "CREATE_PROPERTY")
      /\ assigned[new.property].status = NONE
      /\ MemberReferable(c, new.responsible) /\ GroupReferable(c, new.group)
      /\ assigned' = IF MemberThere(new.responsible) /\ GroupThere(new.group)
                     THEN [assigned EXCEPT ![new.property] = [status |-> "ACTIVE",
                            responsible |-> new.responsible, group |-> new.group]]
                     ELSE assigned
      /\ Ends(c)
      /\ UNCHANGED <<members, groupRows, mfaRequired>>

BeginAssign(c, u, p, responsible, group) ==
  /\ At(c, "IDLE")
  /\ mayReassign(u)
  /\ assigned[p].status = "ACTIVE"
  /\ assigned[p].responsible # responsible => requireEligible(responsible)
  /\ assigned[p].group # group => GroupThere(group)
  /\ Goes(c, [at |-> "ASSIGN", property |-> p, was |-> assigned[p],
              responsible |-> responsible, group |-> group])
  /\ UNCHANGED <<members, groupRows, assigned, mfaRequired>>

\* assign: while the property is assigned as it was read; only a key that
\* changes is looked up.
Assign(c) ==
  LET new == call[c]
      responsible == IF new.responsible = new.was.responsible THEN NoUser ELSE new.responsible
      group == IF new.group = new.was.group THEN NoGroup ELSE new.group
  IN  /\ At(c, "ASSIGN")
      /\ MemberReferable(c, responsible) /\ GroupReferable(c, group)
      /\ assigned' = IF /\ assigned[new.property] = new.was
                        /\ MemberThere(responsible) /\ GroupThere(group)
                     THEN [assigned EXCEPT ![new.property] = [status |-> "ACTIVE",
                            responsible |-> new.responsible, group |-> new.group]]
                     ELSE assigned
      /\ Ends(c)
      /\ UNCHANGED <<members, groupRows, mfaRequired>>

\* Whoever may delete it; its assignment stays on the row.
DeleteProperty(p) ==
  /\ assigned[p].status = "ACTIVE"
  /\ assigned' = [assigned EXCEPT ![p].status = "DELETED"]
  /\ UNCHANGED <<members, groupRows, mfaRequired, call>>

--------------------------------------------------------------------------------
(* The organization's MFA requirement.                                          *)

setMfaRequirement(c, u) ==
  /\ At(c, "IDLE")
  /\ role[u] \in {"OWNER", "ADMIN"}
  /\ Goes(c, [at |-> "SET_MFA", actor |-> authorizeOrganization(u), expected |-> mfaRequired])
  /\ UNCHANGED <<members, groupRows, assigned, mfaRequired>>

\* The actor's role is read again, share-locked, and must be what it was.
setMfaRequired(c) ==
  LET actor == call[c].actor
  IN  /\ At(c, "SET_MFA")
      /\ FreeFor(c, actor.user)
      /\ mfaRequired' = IF role[actor.user] = actor.role /\ mfaRequired = call[c].expected
                        THEN ~ mfaRequired ELSE mfaRequired
      /\ Ends(c)
      /\ UNCHANGED <<members, groupRows, assigned>>

--------------------------------------------------------------------------------
NoInvitation == [status |-> NONE, role |-> NONE, by |-> NoUser]

\* createOrganization: one owner.
Init ==
  /\ \E owner \in User : role = [u \in User |-> IF u = owner THEN "OWNER" ELSE NONE]
  /\ granted = [u \in User |-> {}]
  /\ invitation = [i \in Invitation |-> NoInvitation]
  /\ groups = {}
  /\ inGroup = [g \in Group |-> {}]
  /\ carries = [g \in Group |-> {}]
  /\ assigned = [p \in Property |-> [status |-> NONE, responsible |-> NoUser, group |-> NoGroup]]
  /\ mfaRequired = FALSE
  /\ call = [c \in Call |-> Idle]

\* A statement fails, a check refuses, the process dies: the transaction is undone.
CallEnds(c) == ~ At(c, "IDLE") /\ Ends(c) /\ UNCHANGED <<members, groupRows, assigned, mfaRequired>>

MemberCall(c, u) ==
  \/ \E i \in Invitation : AcceptInvitation(c, u, i) \/ \E r \in ROLES : Invite(c, u, i, r)
  \/ \E target \in User :
       \/ RemoveMember(c, u, target)
       \/ \E r \in ROLES : ChangeRole(c, u, target, r)
       \/ \E p \in Permission : GrantToMember(c, u, target, p) \/ RevokeFromMember(c, u, target, p)
  \/ setMfaRequirement(c, u)

GroupCall(c, u) ==
  \E g \in Group :
    \/ BeginCreateGroup(c, u, g)
    \/ BeginDeleteGroup(c, u, g)
    \/ \E op \in SHARING, target \in User : BeginMemberChange(c, u, op, g, target)
    \/ \E op \in {"GRANT", "REVOKE"}, p \in Permission : BeginPermissionChange(c, u, op, g, p)

PropertyCall(c, u) ==
  \E p \in Property, responsible \in User \cup {NoUser}, group \in Group \cup {NoGroup} :
    \/ BeginCreateProperty(c, u, p, responsible, group)
    \/ BeginAssign(c, u, p, responsible, group)

MembersChange(c) ==
  \/ CreateInvitation(c)
  \/ Join(c)
  \/ CountOwners(c)
  \/ \E u \in User : LockOwner(c, u)
  \/ OwnersLocked(c)
  \/ Change(c)
  \/ LockMember(c)
  \/ Remove(c)
  \/ InsertGrant(c)
  \/ DeleteGrant(c)
  \/ setMfaRequired(c)

GroupsChange(c) ==
  \/ CreateGroup(c)
  \/ lockGroup(c)
  \/ AddMember(c)
  \/ TakeMember(c)
  \/ GrantToGroup(c)
  \/ RevokeFromGroup(c)
  \/ DeleteGroup(c)

PropertiesChange(c) == CreateProperty(c) \/ Assign(c)

Next ==
  \/ \E c \in Call :
       \/ MembersChange(c)
       \/ GroupsChange(c)
       \/ PropertiesChange(c)
       \/ CallEnds(c)
       \/ \E u \in User : MemberCall(c, u) \/ GroupCall(c, u) \/ PropertyCall(c, u)
  \/ \E i \in Invitation : ExpireInvitation(i)
  \/ \E p \in Property : DeleteProperty(p)

Spec == Init /\ [][Next]_vars
===============================================================================
