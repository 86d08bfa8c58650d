--------------------------- MODULE MembershipProofs ---------------------------
(***************************************************************************)
(* Proofs about Authority and Membership, for every set of users, groups,  *)
(* properties, permissions and calls.                                      *)
(***************************************************************************)
EXTENDS MembershipProperties, TLAPS

-----------------------------------------------------------------------------
(***************************************************************************)
(* Authority.                                                              *)
(***************************************************************************)

\* A role is given nothing that is not a permission.
LEMMA RolesGivePermissions ==
  ASSUME NEW r \in ROLES
  PROVE  ROLE_PERMISSIONS(r) \subseteq PERMISSIONS
<1>1. {"organization.view", "member.view", "group.view"} \cup CONTENT_WORK \subseteq PERMISSIONS
  BY DEF PERMISSIONS, MANAGEMENT
<1>2. {"organization.view"} \cup CONTENT_WORK \subseteq PERMISSIONS
  BY DEF PERMISSIONS, MANAGEMENT
<1>3. {"organization.view", "property.view", "video.view", "video.download"} \subseteq PERMISSIONS
  BY DEF PERMISSIONS, MANAGEMENT, CONTENT_WORK
<1>4. {"organization.view", "member.view", "unit.view", "billing.view", "billing.manage"}
         \subseteq PERMISSIONS
  BY DEF PERMISSIONS, MANAGEMENT, CONTENT_WORK
<1>5. /\ MANAGEMENT \cup CONTENT_WORK \cup {"billing.manage"} \subseteq PERMISSIONS
      /\ MANAGEMENT \cup CONTENT_WORK \subseteq PERMISSIONS
  BY DEF PERMISSIONS
<1>6. CASE r = "OWNER"   BY <1>5, <1>6 DEF ROLE_PERMISSIONS
<1>7. CASE r = "ADMIN"   BY <1>5, <1>7 DEF ROLE_PERMISSIONS
<1>8. CASE r = "MANAGER" BY <1>1, <1>8 DEF ROLE_PERMISSIONS
<1>9. CASE r = "CREATOR" BY <1>2, <1>9 DEF ROLE_PERMISSIONS
<1>10. CASE r = "VIEWER"  BY <1>3, <1>10 DEF ROLE_PERMISSIONS
<1>11. CASE r = "BILLING" BY <1>4, <1>11 DEF ROLE_PERMISSIONS
<1>12. QED BY <1>6, <1>7, <1>8, <1>9, <1>10, <1>11 DEF ROLES

\* Giving a role is no way around the ceiling on grants: whoever may assign a role
\* without being an owner could have granted every permission that comes with it,
\* and none of them is protected (mayAssignRole and delegationRefusal, roles.ts).
THEOREM AssigningIsDelegating ==
  ASSUME NEW actorRole \in ROLES, actorRole # "OWNER",
         NEW r \in ROLES, mayAssignRole(actorRole, r),
         NEW permissions, ROLE_PERMISSIONS(actorRole) \subseteq permissions
  PROVE  \A p \in ROLE_PERMISSIONS(r) :
           MayDelegate([role |-> actorRole, permissions |-> permissions], p)
<1>1. actorRole = "ADMIN" /\ r \in {"MANAGER", "CREATOR", "VIEWER"}
  BY DEF mayAssignRole, OWNER_ONLY_ROLES, ROLES
<1>2. MANAGEMENT \cup CONTENT_WORK \subseteq permissions
  BY <1>1 DEF ROLE_PERMISSIONS
<1>3. CONTENT_WORK \cap PROTECTED_PERMISSIONS = {}
  BY DEF CONTENT_WORK, PROTECTED_PERMISSIONS
<1>4. {"organization.view", "member.view", "group.view"} \subseteq MANAGEMENT \ PROTECTED_PERMISSIONS
  BY DEF MANAGEMENT, PROTECTED_PERMISSIONS
<1>5. {"property.view", "video.view", "video.download"} \subseteq CONTENT_WORK
  BY DEF CONTENT_WORK
<1>6. ROLE_PERMISSIONS(r) \subseteq (MANAGEMENT \cup CONTENT_WORK) \ PROTECTED_PERMISSIONS
  <2>1. CASE r = "MANAGER" BY <1>3, <1>4, <2>1 DEF ROLE_PERMISSIONS
  <2>2. CASE r = "CREATOR" BY <1>3, <1>4, <2>2 DEF ROLE_PERMISSIONS
  <2>3. CASE r = "VIEWER"  BY <1>3, <1>4, <1>5, <2>3 DEF ROLE_PERMISSIONS
  <2>4. QED BY <1>1, <2>1, <2>2, <2>3
<1>7. QED BY <1>2, <1>6 DEF MayDelegate

\* A viewer or a billing member never holds what creates a property, whatever is
\* granted to it or to its groups (effectivePermissions, roles.ts), and no group
\* hands out what may not be granted to groups.
THEOREM EffectivePermissionsAreBounded ==
  ASSUME NEW r \in ROLES, NEW direct, NEW fromGroups
  PROVE  LET held == effectivePermissions(r, direct, fromGroups)
         IN  /\ r \in CANNOT_CREATE_PROPERTY => "property.create" \notin held
             /\ held \subseteq ROLE_PERMISSIONS(r) \cup direct \cup GROUP_GRANTABLE_PERMISSIONS
BY DEF effectivePermissions

-----------------------------------------------------------------------------
(***************************************************************************)
(* The inductive invariant.                                                *)
(***************************************************************************)

Owners == {u \in User : role[u] = "OWNER"}

\* A call that takes an owner away has another owner's row locked.
KeepsAnOwner(c) ==
  (call[c].at \in {"CHANGE", "LOCK_MEMBER", "REMOVE"} /\ call[c].was = "OWNER" /\ call[c].to # "OWNER")
    => \E u \in call[c].held : u # call[c].target

MemberLocks ==
  \A c \in Call :
    /\ \A d \in Call : \A u \in User : HoldsMember(c, u) /\ HoldsMember(d, u) => c = d
    /\ LocksMembers(c) => \A u \in call[c].held :
         role[u] = "OWNER" \/ (At(c, "REMOVE") /\ u = call[c].target)
    /\ At(c, "REMOVE") => call[c].target \in call[c].held /\ role[call[c].target] = call[c].was
    /\ At(c, "CHANGE") => call[c].to # NONE
    /\ KeepsAnOwner(c)

\* A group's row is locked by one call that writes what it carries, or by calls
\* that change its members; what each checked under the lock still holds.
GroupLocks ==
  /\ \A c \in Call :
       At(c, "WRITE_GROUP") =>
         /\ call[c].group \in groups
         /\ call[c].op \in SHARING \cup {"DELETE"} =>
              permissionCeiling(call[c].actor, carries[call[c].group])
         /\ \A d \in Call \ {c} :
              HoldsGroup(d, call[c].group) => call[c].op \in SHARING /\ call[d].op \in SHARING

Requests ==
  \A c \in Call :
    /\ call[c].at \in {"LOCK_GROUP", "WRITE_GROUP"} =>
         /\ call[c].op \in SHARING => call[c].user \in User
         /\ call[c].op \in {"GRANT", "REVOKE"} => call[c].permission \in Permission
    /\ At(c, "SET_MFA") => call[c].actor.role \in {"OWNER", "ADMIN"}
    /\ At(c, "COUNT_OWNERS") => call[c].held = {}
    /\ call[c].at \in {"LOCK_MEMBER", "REMOVE"} => call[c].to = NONE

IInv ==
  TypeOK /\ Requests /\ MemberLocks /\ GroupLocks /\ OwnerRemains /\ NothingOutlivesItsOwner

\* The kinds of calls, by the phase they are in.
Phases(r) ==
  /\ r.at \in {"IDLE", "COUNT_OWNERS", "LOCK_OWNERS", "CHANGE", "LOCK_MEMBER", "REMOVE", "LOCK_GROUP",
               "WRITE_GROUP", "GRANT", "REVOKE", "INVITE", "JOIN", "CREATE_GROUP",
               "CREATE_PROPERTY", "ASSIGN", "SET_MFA"}
  /\ r.at \in {"COUNT_OWNERS", "LOCK_OWNERS", "CHANGE", "LOCK_MEMBER", "REMOVE"} => r \in Losing
  /\ r.at \in {"LOCK_GROUP", "WRITE_GROUP"} => r \in GroupChanges
  /\ r.at \in {"GRANT", "REVOKE"} => r \in Granting
  /\ r.at = "INVITE" => r \in Inviting
  /\ r.at = "JOIN" => r \in Joining
  /\ r.at = "CREATE_GROUP" => r \in NewGroup
  /\ r.at = "CREATE_PROPERTY" => r \in Creating
  /\ r.at = "ASSIGN" => r \in Assigning
  /\ r.at = "SET_MFA" => r \in SettingMfa

Calls == {Idle} \cup Losing \cup GroupChanges \cup Granting \cup Inviting
         \cup Joining \cup NewGroup \cup Creating \cup Assigning \cup SettingMfa

\* A call's phase tells what it is for.
LEMMA PhaseTells == ASSUME NEW r \in Calls PROVE Phases(r)
<1>1. CASE r = Idle BY <1>1 DEF Idle, Phases
<1>2. CASE r \in Losing BY <1>2 DEF Losing, Phases
<1>3. CASE r \in GroupChanges BY <1>3 DEF GroupChanges, Phases
<1>4. CASE r \in Granting BY <1>4 DEF Granting, Phases
<1>5. CASE r \in Inviting BY <1>5 DEF Inviting, Phases
<1>6. CASE r \in Joining BY <1>6 DEF Joining, Phases
<1>7. CASE r \in NewGroup BY <1>7 DEF NewGroup, Phases
<1>8. CASE r \in Creating BY <1>8 DEF Creating, Phases
<1>9. CASE r \in Assigning BY <1>9 DEF Assigning, Phases
<1>10. CASE r \in SettingMfa BY <1>10 DEF SettingMfa, Phases
<1>11. QED
  BY <1>1, <1>2, <1>3, <1>4, <1>5, <1>6, <1>7, <1>8, <1>9, <1>10 DEF Calls

\* Every call is one of them.
LEMMA CallTyped ==
  ASSUME TypeOK, NEW c \in Call
  PROVE  call[c] \in Calls /\ Phases(call[c])
BY PhaseTells DEF TypeOK, Calls

\* The actor as authorizeOrganization reads it.
LEMMA ActorTyped ==
  ASSUME TypeOK, NEW u \in User, role[u] # NONE
  PROVE  authorizeOrganization(u) \in Actors
<1>1. role[u] \in ROLES
  BY DEF TypeOK, Ranks
<1>2. granted[u] \subseteq Permission
  BY DEF TypeOK
<1>3. effectivePermissions(role[u], granted[u], groupPermissionsForMember(u))
        \subseteq PERMISSIONS \cup Permission
  BY <1>1, <1>2, RolesGivePermissions DEF effectivePermissions, GROUP_GRANTABLE_PERMISSIONS, GRANTABLE_PERMISSIONS
<1>4. QED BY <1>1, <1>3 DEF authorizeOrganization, Actors

-----------------------------------------------------------------------------
(***************************************************************************)
(* Steps that only move a call, and steps that write and end it.           *)
(***************************************************************************)

Locking == {"LOCK_OWNERS", "CHANGE", "LOCK_MEMBER", "REMOVE"}

\* What a call may become without a write to the database.
MayBecome(c, r) ==
  /\ r \in Calls
  /\ r.at \in Locking => \A u \in r.held :
       FreeFor(c, u) /\ (role[u] = "OWNER" \/ (r.at = "REMOVE" /\ u = r.target))
  /\ r.at = "REMOVE" => r.target \in r.held /\ role[r.target] = r.was
  /\ r.at = "CHANGE" => r.to # NONE
  /\ (r.at \in {"CHANGE", "LOCK_MEMBER", "REMOVE"} /\ r.was = "OWNER" /\ r.to # "OWNER")
       => \E u \in r.held : u # r.target
  /\ r.at = "WRITE_GROUP" =>
       /\ r.group \in groups
       /\ r.op \in SHARING \cup {"DELETE"} => permissionCeiling(r.actor, carries[r.group])
       /\ IF r.op \in SHARING THEN SharedFor(c, r.group) ELSE ExclusiveFor(c, r.group)
  /\ r.at \in {"LOCK_GROUP", "WRITE_GROUP"} =>
       /\ r.op \in SHARING => r.user \in User
       /\ r.op \in {"GRANT", "REVOKE"} => r.permission \in Permission
  /\ r.at = "SET_MFA" => r.actor.role \in {"OWNER", "ADMIN"}
  /\ r.at = "COUNT_OWNERS" => r.held = {}
  /\ r.at \in {"LOCK_MEMBER", "REMOVE"} => r.to = NONE

\* A step that only moves a call keeps the invariant.
LEMMA CallMoves ==
  ASSUME IInv, NEW c \in Call, NEW r, MayBecome(c, r), Goes(c, r),
         UNCHANGED <<members, groupRows, assigned, mfaRequired>>
  PROVE  IInv'
<1> USE DEF members, groupRows
<1>1. /\ call'[c] = r
      /\ \A d \in Call : d # c => call'[d] = call[d]
  BY DEF Goes, IInv, TypeOK
<1>2. TypeOK'
  BY DEF IInv, TypeOK, Goes, MayBecome, Calls
<1>3. Requests'
  BY <1>1 DEF IInv, Requests, MayBecome, At
<1>4. MemberLocks'
  <2> SUFFICES ASSUME NEW d \in Call
               PROVE  /\ \A e \in Call : \A u \in User : (HoldsMember(d, u) /\ HoldsMember(e, u))' => d = e
                      /\ (LocksMembers(d) => \A u \in call[d].held :
                            role[u] = "OWNER" \/ (At(d, "REMOVE") /\ u = call[d].target))'
                      /\ (At(d, "REMOVE") => call[d].target \in call[d].held /\ role[call[d].target] = call[d].was)'
                      /\ (At(d, "CHANGE") => call[d].to # NONE)'
                      /\ KeepsAnOwner(d)'
    BY DEF MemberLocks
  <2>1. \A e \in Call : \A u \in User : (HoldsMember(d, u) /\ HoldsMember(e, u))' => d = e
    BY <1>1 DEF IInv, MemberLocks, MayBecome, Locking, HoldsMember, LocksMembers, FreeFor
  <2>2. CASE d = c
    BY <1>1, <2>1, <2>2 DEF MayBecome, Locking, LocksMembers, At, KeepsAnOwner
  <2>3. CASE d # c
    BY <1>1, <2>1, <2>3 DEF IInv, MemberLocks, LocksMembers, At, KeepsAnOwner
  <2>4. QED BY <2>2, <2>3
<1>5. GroupLocks'
  <2> SUFFICES ASSUME NEW d \in Call, At(d, "WRITE_GROUP")'
               PROVE  /\ call'[d].group \in groups
                      /\ call'[d].op \in SHARING \cup {"DELETE"} =>
                           permissionCeiling(call'[d].actor, carries[call'[d].group])
                      /\ \A e \in Call \ {d} :
                           HoldsGroup(e, call[d].group)' => call'[d].op \in SHARING /\ call'[e].op \in SHARING
    BY DEF GroupLocks, permissionCeiling
  <2>1. CASE d = c
    BY <1>1, <2>1 DEF MayBecome, At, HoldsGroup, SharedFor, ExclusiveFor
  <2>2. CASE d # c
    BY <1>1, <2>2 DEF IInv, GroupLocks, MayBecome, At, HoldsGroup, SharedFor, ExclusiveFor
  <2>3. QED BY <2>1, <2>2
<1>6. OwnerRemains' /\ NothingOutlivesItsOwner'
  BY DEF IInv, OwnerRemains, NothingOutlivesItsOwner, MemberThere, GroupThere
<1>7. QED BY <1>2, <1>3, <1>4, <1>5, <1>6 DEF IInv

\* A call that ends lets go of its rows; what the others hold stays as it was if
\* it wrote none of the rows they have locked.
LEMMA CallEndsHolding ==
  ASSUME IInv, NEW c \in Call, Ends(c),
         \A d \in Call \ {c} : LocksMembers(d) => \A u \in call[d].held : role'[u] = role[u],
         \A d \in Call \ {c} : At(d, "WRITE_GROUP") =>
           call[d].group \in groups' /\ carries'[call[d].group] = carries[call[d].group]
  PROVE  call' \in [Call -> Calls] /\ Requests' /\ MemberLocks' /\ GroupLocks'
<1>1. /\ call'[c] = Idle
      /\ \A d \in Call : d # c => call'[d] = call[d]
  BY DEF Ends, Goes, IInv, TypeOK
<1>2. call' \in [Call -> Calls]
  BY DEF IInv, TypeOK, Ends, Goes, Calls
<1>3. Requests'
  BY <1>1 DEF IInv, Requests, At, Idle
<1>4. MemberLocks'
  <2> SUFFICES ASSUME NEW d \in Call
               PROVE  /\ \A e \in Call : \A u \in User : (HoldsMember(d, u) /\ HoldsMember(e, u))' => d = e
                      /\ (LocksMembers(d) => \A u \in call[d].held :
                            role[u] = "OWNER" \/ (At(d, "REMOVE") /\ u = call[d].target))'
                      /\ (At(d, "REMOVE") => call[d].target \in call[d].held /\ role[call[d].target] = call[d].was)'
                      /\ (At(d, "CHANGE") => call[d].to # NONE)'
                      /\ KeepsAnOwner(d)'
    BY DEF MemberLocks
  <2>1. \A e \in Call : \A u \in User : (HoldsMember(d, u) /\ HoldsMember(e, u))' => d = e
    BY <1>1 DEF IInv, MemberLocks, HoldsMember, LocksMembers, Idle
  <2>2. CASE d = c
    BY <1>1, <2>1, <2>2 DEF Idle, LocksMembers, At, KeepsAnOwner
  <2>3. CASE d # c
    BY <1>1, <2>1, <2>3 DEF IInv, MemberLocks, LocksMembers, At, KeepsAnOwner
  <2>4. QED BY <2>2, <2>3
<1>5. GroupLocks'
  <2> SUFFICES ASSUME NEW d \in Call, At(d, "WRITE_GROUP")'
               PROVE  /\ call'[d].group \in groups'
                      /\ call'[d].op \in SHARING \cup {"DELETE"} =>
                           permissionCeiling(call'[d].actor, carries'[call'[d].group])
                      /\ \A e \in Call \ {d} :
                           HoldsGroup(e, call[d].group)' => call'[d].op \in SHARING /\ call'[e].op \in SHARING
    BY DEF GroupLocks, permissionCeiling
  <2>1. d # c
    BY <1>1 DEF At, Idle
  <2>2. QED
    BY <1>1, <2>1 DEF IInv, GroupLocks, At, HoldsGroup, Idle
<1>6. QED BY <1>2, <1>3, <1>4, <1>5

-----------------------------------------------------------------------------
(***************************************************************************)
(* A call that begins.                                                     *)
(***************************************************************************)

LEMMA MemberCallKeeps ==
  ASSUME IInv, NEW c \in Call, NEW u \in User, MemberCall(c, u)
  PROVE  IInv'
<1> USE DEF Calls
<1>1. ASSUME NEW i \in Invitation, AcceptInvitation(c, u, i) PROVE IInv'
  <2> DEFINE r == [at |-> "JOIN", invitation |-> i, user |-> u]
  <2>1. MayBecome(c, r)
    BY DEF MayBecome, Locking, Joining
  <2>2. Goes(c, r)
    BY <1>1 DEF AcceptInvitation
  <2>3. QED BY <1>1, <2>1, <2>2, CallMoves DEF AcceptInvitation
<1>2. ASSUME NEW i \in Invitation, NEW to \in ROLES, Invite(c, u, i, to) PROVE IInv'
  <2> DEFINE r == [at |-> "INVITE", invitation |-> i, role |-> to, by |-> u]
  <2>1. MayBecome(c, r)
    BY DEF MayBecome, Locking, Inviting
  <2>2. Goes(c, r)
    BY <1>2 DEF Invite
  <2>3. QED BY <1>2, <2>1, <2>2, CallMoves DEF Invite
<1>3. ASSUME NEW target \in User, RemoveMember(c, u, target) PROVE IInv'
  <2> DEFINE r == Begun(IF role[target] = "OWNER" THEN "COUNT_OWNERS" ELSE "LOCK_MEMBER",
                        target, role[target], NONE)
  <2>1. role[target] \in ROLES
    BY <1>3 DEF RemoveMember, IInv, TypeOK, Ranks
  <2>2. r \in Losing
    BY <2>1 DEF Begun, Losing, Ranks
  <2>3. MayBecome(c, r)
    BY <2>2 DEF MayBecome, Locking, Begun
  <2>4. QED BY <1>3, <2>3, CallMoves DEF RemoveMember
<1>4. ASSUME NEW target \in User, NEW to \in ROLES, ChangeRole(c, u, target, to) PROVE IInv'
  <2> DEFINE r == Begun(IF role[target] = "OWNER" /\ to # "OWNER" THEN "COUNT_OWNERS" ELSE "CHANGE",
                        target, role[target], to)
  <2>1. role[target] \in ROLES /\ to # NONE
    BY <1>4 DEF ChangeRole, IInv, TypeOK, Ranks, ROLES, NONE
  <2>2. r \in Losing
    BY <2>1 DEF Begun, Losing, Ranks
  <2>3. MayBecome(c, r)
    BY <2>1, <2>2 DEF MayBecome, Locking, Begun
  <2>4. QED BY <1>4, <2>3, CallMoves DEF ChangeRole
<1>5. ASSUME NEW target \in User, NEW p \in Permission, GrantToMember(c, u, target, p) PROVE IInv'
  <2> DEFINE r == [at |-> "GRANT", target |-> target, permission |-> p]
  <2>1. MayBecome(c, r)
    BY DEF MayBecome, Locking, Granting
  <2>2. Goes(c, r)
    BY <1>5 DEF GrantToMember
  <2>3. QED BY <1>5, <2>1, <2>2, CallMoves DEF GrantToMember
<1>6. ASSUME NEW target \in User, NEW p \in Permission, RevokeFromMember(c, u, target, p) PROVE IInv'
  <2> DEFINE r == [at |-> "REVOKE", target |-> target, permission |-> p]
  <2>1. MayBecome(c, r)
    BY DEF MayBecome, Locking, Granting
  <2>2. Goes(c, r)
    BY <1>6 DEF RevokeFromMember
  <2>3. QED BY <1>6, <2>1, <2>2, CallMoves DEF RevokeFromMember
<1>7. ASSUME setMfaRequirement(c, u) PROVE IInv'
  <2> DEFINE r == [at |-> "SET_MFA", actor |-> authorizeOrganization(u), expected |-> mfaRequired]
  <2>1. authorizeOrganization(u) \in Actors
    BY <1>7, ActorTyped DEF setMfaRequirement, IInv, NONE
  <2>2. r \in SettingMfa /\ authorizeOrganization(u).role = role[u]
    BY <2>1 DEF SettingMfa, IInv, TypeOK, authorizeOrganization
  <2>3. MayBecome(c, r)
    BY <1>7, <2>2 DEF MayBecome, Locking, setMfaRequirement
  <2>4. Goes(c, r)
    BY <1>7 DEF setMfaRequirement
  <2>5. QED BY <1>7, <2>3, <2>4, CallMoves DEF setMfaRequirement
<1>8. QED
  BY <1>1, <1>2, <1>3, <1>4, <1>5, <1>6, <1>7 DEF MemberCall

LEMMA GroupCallKeeps ==
  ASSUME IInv, NEW c \in Call, NEW u \in User, GroupCall(c, u)
  PROVE  IInv'
<1> USE DEF Calls
<1>1. PICK g \in Group :
        \/ BeginCreateGroup(c, u, g)
        \/ BeginDeleteGroup(c, u, g)
        \/ \E op \in SHARING, target \in User : BeginMemberChange(c, u, op, g, target)
        \/ \E op \in {"GRANT", "REVOKE"}, p \in Permission : BeginPermissionChange(c, u, op, g, p)
  BY DEF GroupCall
<1>2. CASE BeginCreateGroup(c, u, g)
  <2> DEFINE r == [at |-> "CREATE_GROUP", group |-> g]
  <2>1. MayBecome(c, r)
    BY DEF MayBecome, Locking, NewGroup
  <2>2. Goes(c, r)
    BY <1>2 DEF BeginCreateGroup
  <2>3. QED BY <1>2, <2>1, <2>2, CallMoves DEF BeginCreateGroup
<1>3. ASSUME Holds(u, "group.manage") \/ Holds(u, "permission.manage"),
             NEW op \in {"ADD", "TAKE", "GRANT", "REVOKE", "DELETE"}, NEW v \in User \cup {NoUser},
             NEW p \in Permission \cup {NONE},
             op \in SHARING => v \in User, op \in {"GRANT", "REVOKE"} => p \in Permission
      PROVE  MayBecome(c, GroupChange(op, authorizeOrganization(u), g, v, p))
  <2>1. authorizeOrganization(u) \in Actors
    BY <1>3, ActorTyped DEF Holds, IInv
  <2>2. GroupChange(op, authorizeOrganization(u), g, v, p) \in GroupChanges
    BY <2>1 DEF GroupChange, GroupChanges
  <2>3. QED BY <1>3, <2>2 DEF MayBecome, Locking, GroupChange
<1>4. CASE BeginDeleteGroup(c, u, g)
  <2>1. MayBecome(c, GroupChange("DELETE", authorizeOrganization(u), g, NoUser, NONE))
    BY <1>3, <1>4 DEF BeginDeleteGroup, SHARING
  <2>2. QED BY <1>4, <2>1, CallMoves DEF BeginDeleteGroup
<1>5. ASSUME NEW op \in SHARING, NEW target \in User, BeginMemberChange(c, u, op, g, target)
      PROVE  IInv'
  <2>1. MayBecome(c, GroupChange(op, authorizeOrganization(u), g, target, NONE))
    BY <1>3, <1>5 DEF BeginMemberChange, SHARING
  <2>2. QED BY <1>5, <2>1, CallMoves DEF BeginMemberChange
<1>6. ASSUME NEW op \in {"GRANT", "REVOKE"}, NEW p \in Permission, BeginPermissionChange(c, u, op, g, p)
      PROVE  IInv'
  <2>1. MayBecome(c, GroupChange(op, authorizeOrganization(u), g, NoUser, p))
    BY <1>3, <1>6 DEF BeginPermissionChange, SHARING
  <2>2. QED BY <1>6, <2>1, CallMoves DEF BeginPermissionChange
<1>7. QED BY <1>1, <1>2, <1>4, <1>5, <1>6

LEMMA PropertyCallKeeps ==
  ASSUME IInv, NEW c \in Call, NEW u \in User, PropertyCall(c, u)
  PROVE  IInv'
<1> USE DEF Calls
<1>1. PICK p \in Property, responsible \in User \cup {NoUser}, group \in Group \cup {NoGroup} :
        BeginCreateProperty(c, u, p, responsible, group) \/ BeginAssign(c, u, p, responsible, group)
  BY DEF PropertyCall
<1>2. CASE BeginCreateProperty(c, u, p, responsible, group)
  <2> DEFINE r == [at |-> "CREATE_PROPERTY", property |-> p, responsible |-> responsible, group |-> group]
  <2>1. MayBecome(c, r)
    BY DEF MayBecome, Locking, Creating
  <2>2. Goes(c, r)
    BY <1>2 DEF BeginCreateProperty
  <2>3. QED BY <1>2, <2>1, <2>2, CallMoves DEF BeginCreateProperty
<1>3. CASE BeginAssign(c, u, p, responsible, group)
  <2> DEFINE r == [at |-> "ASSIGN", property |-> p, was |-> assigned[p],
                   responsible |-> responsible, group |-> group]
  <2>1. r \in Assigning
    BY DEF Assigning, IInv, TypeOK
  <2>2. MayBecome(c, r)
    BY <2>1 DEF MayBecome, Locking
  <2>3. Goes(c, r)
    BY <1>3 DEF BeginAssign
  <2>4. QED BY <1>3, <2>2, <2>3, CallMoves DEF BeginAssign
<1>4. QED BY <1>1, <1>2, <1>3

-----------------------------------------------------------------------------
(***************************************************************************)
(* A call that locks.                                                      *)
(***************************************************************************)

\* A call that gives up.
LEMMA CallEndsKeeps ==
  ASSUME IInv, NEW c \in Call, Ends(c), UNCHANGED <<members, groupRows, assigned, mfaRequired>>
  PROVE  IInv'
<1>1. MayBecome(c, Idle)
  BY DEF MayBecome, Idle, Calls, Locking
<1>2. QED BY <1>1, CallMoves DEF Ends

LEMMA CountOwnersKeeps ==
  ASSUME IInv, NEW c \in Call, CountOwners(c)
  PROVE  IInv'
<1> DEFINE r == [call[c] EXCEPT !.at = "LOCK_OWNERS", !.left = {u \in User : role[u] = "OWNER"}]
<1>1. call[c] \in Losing
  BY CallTyped DEF CountOwners, At, IInv, Phases
<1>2. r \in Losing /\ r.at = "LOCK_OWNERS" /\ r.held = call[c].held
  BY <1>1 DEF Losing
<1>3. MayBecome(c, r)
  <2>1. call[c].held = {}
    BY DEF CountOwners, IInv, Requests
  <2>2. QED BY <1>2, <2>1 DEF MayBecome, Calls, Locking
<1>4. QED BY <1>3, CallMoves DEF CountOwners

LEMMA LockOwnerKeeps ==
  ASSUME IInv, NEW c \in Call, NEW u \in User, LockOwner(c, u)
  PROVE  IInv'
<1> DEFINE r == [call[c] EXCEPT
                   !.left = @ \ {u},
                   !.held = IF role[u] = "OWNER" THEN @ \cup {u} ELSE @]
<1>1. call[c] \in Losing /\ call[c].at = "LOCK_OWNERS"
  BY CallTyped DEF LockOwner, At, IInv, Phases
<1>2. /\ r \in Losing /\ r.at = "LOCK_OWNERS"
      /\ r.held = IF role[u] = "OWNER" THEN call[c].held \cup {u} ELSE call[c].held
  BY <1>1 DEF Losing
<1>3. \A v \in r.held : FreeFor(c, v) /\ role[v] = "OWNER"
  BY <1>1, <1>2 DEF LockOwner, IInv, MemberLocks, LocksMembers, HoldsMember, FreeFor, At, Losing
<1>4. MayBecome(c, r)
  BY <1>2, <1>3 DEF MayBecome, Calls, Locking
<1>5. QED BY <1>4, CallMoves DEF LockOwner

LEMMA OwnersLockedKeeps ==
  ASSUME IInv, NEW c \in Call, OwnersLocked(c)
  PROVE  IInv'
<1> DEFINE r == [call[c] EXCEPT !.at = IF call[c].to = NONE THEN "LOCK_MEMBER" ELSE "CHANGE"]
<1>1. call[c] \in Losing /\ call[c].at = "LOCK_OWNERS"
  BY CallTyped DEF OwnersLocked, At, IInv, Phases
<1>2. /\ r \in Losing /\ r.at = IF call[c].to = NONE THEN "LOCK_MEMBER" ELSE "CHANGE"
      /\ r.held = call[c].held /\ r.to = call[c].to /\ r.target = call[c].target
  BY <1>1 DEF Losing
<1>3. CASE call[c].target \in call[c].held /\ call[c].held # {call[c].target}
  <2>1. \A v \in r.held : FreeFor(c, v) /\ role[v] = "OWNER"
    BY <1>1, <1>2 DEF IInv, MemberLocks, LocksMembers, HoldsMember, FreeFor, At, Losing
  <2>2. MayBecome(c, r)
    BY <1>2, <1>3, <2>1 DEF MayBecome, Calls, Locking
  <2>3. QED BY <1>3, <2>2, CallMoves DEF OwnersLocked
<1>4. CASE ~ (call[c].target \in call[c].held /\ call[c].held # {call[c].target})
  BY <1>4, CallEndsKeeps DEF OwnersLocked
<1>5. QED BY <1>3, <1>4

LEMMA LockMemberKeeps ==
  ASSUME IInv, NEW c \in Call, LockMember(c)
  PROVE  IInv'
<1> DEFINE target == call[c].target
           r == [call[c] EXCEPT !.at = "REMOVE", !.held = @ \cup {target}]
<1>1. call[c] \in Losing /\ call[c].at = "LOCK_MEMBER"
  BY CallTyped DEF LockMember, At, IInv, Phases
<1>2. /\ r \in Losing /\ r.at = "REMOVE" /\ r.held = call[c].held \cup {target}
      /\ r.target = target /\ r.was = call[c].was /\ r.to = call[c].to
  BY <1>1 DEF Losing
<1>3. CASE role[target] = call[c].was
  <2>1. \A v \in r.held : FreeFor(c, v) /\ (role[v] = "OWNER" \/ v = target)
    BY <1>1, <1>2 DEF LockMember, IInv, MemberLocks, LocksMembers, HoldsMember, FreeFor, At, Losing
  <2>2. /\ call[c].was = "OWNER" /\ call[c].to # "OWNER" => \E v \in call[c].held : v # target
        /\ call[c].to = NONE
    BY <1>1 DEF IInv, MemberLocks, KeepsAnOwner, Requests
  <2>3. MayBecome(c, r)
    BY <1>2, <1>3, <2>1, <2>2 DEF MayBecome, Calls, Locking
  <2>4. QED BY <1>3, <2>3, CallMoves DEF LockMember
<1>4. CASE role[target] # call[c].was
  BY <1>4, CallEndsKeeps DEF LockMember
<1>5. QED BY <1>3, <1>4

LEMMA LockGroupKeeps ==
  ASSUME IInv, NEW c \in Call, lockGroup(c)
  PROVE  IInv'
<1> DEFINE r == [call[c] EXCEPT !.at = "WRITE_GROUP"]
<1>1. call[c] \in GroupChanges /\ call[c].at = "LOCK_GROUP"
  BY CallTyped DEF lockGroup, At, IInv, Phases
<1>2. /\ r \in GroupChanges /\ r.at = "WRITE_GROUP" /\ r.group = call[c].group /\ r.op = call[c].op
      /\ r.actor = call[c].actor /\ r.user = call[c].user /\ r.permission = call[c].permission
  BY <1>1 DEF GroupChanges
<1>3. CASE call[c].group \in groups /\ Allowed(call[c])
  <2>1. call[c].op \in SHARING \cup {"DELETE"} => permissionCeiling(call[c].actor, carries[call[c].group])
    BY <1>3 DEF Allowed, SHARING
  <2>2. /\ call[c].op \in SHARING => call[c].user \in User
        /\ call[c].op \in {"GRANT", "REVOKE"} => call[c].permission \in Permission
    BY <1>1 DEF IInv, Requests
  <2>3. MayBecome(c, r)
    BY <1>2, <1>3, <2>1, <2>2 DEF MayBecome, Calls, Locking, lockGroup
  <2>4. QED BY <1>3, <2>3, CallMoves DEF lockGroup
<1>4. CASE ~ (call[c].group \in groups /\ Allowed(call[c]))
  BY <1>4, CallEndsKeeps DEF lockGroup
<1>5. QED BY <1>3, <1>4

-----------------------------------------------------------------------------
(***************************************************************************)
(* A call that writes and ends.                                            *)
(***************************************************************************)

LEMMA CreateInvitationKeeps ==
  ASSUME IInv, NEW c \in Call, CreateInvitation(c)
  PROVE  IInv'
<1>1. call[c] \in Inviting
  BY CallTyped DEF CreateInvitation, At, IInv, Phases
<1>2. /\ Ends(c) /\ UNCHANGED <<role, granted, groups, inGroup, carries, assigned, mfaRequired>>
  BY DEF CreateInvitation, groupRows
<1>3. call' \in [Call -> Calls] /\ Requests' /\ MemberLocks' /\ GroupLocks'
  BY <1>2, CallEndsHolding DEF IInv, GroupLocks
<1>4. TypeOK'
  BY <1>1, <1>2, <1>3 DEF CreateInvitation, IInv, TypeOK, Calls, Inviting, Ranks
<1>5. OwnerRemains' /\ NothingOutlivesItsOwner'
  BY <1>2 DEF IInv, OwnerRemains, NothingOutlivesItsOwner, MemberThere, GroupThere
<1>6. QED BY <1>3, <1>4, <1>5 DEF IInv

LEMMA ExpireInvitationKeeps ==
  ASSUME IInv, NEW i \in Invitation, ExpireInvitation(i)
  PROVE  IInv'
<1>1. UNCHANGED <<role, granted, groups, inGroup, carries, assigned, mfaRequired, call>>
  BY DEF ExpireInvitation, groupRows
<1>2. TypeOK'
  BY <1>1 DEF ExpireInvitation, IInv, TypeOK
<1>3. Requests' /\ MemberLocks' /\ GroupLocks' /\ OwnerRemains' /\ NothingOutlivesItsOwner'
  BY <1>1 DEF IInv, Requests, MemberLocks, GroupLocks, OwnerRemains, NothingOutlivesItsOwner,
     MemberThere, GroupThere, At, HoldsMember, LocksMembers, HoldsGroup, KeepsAnOwner, permissionCeiling
<1>4. QED BY <1>2, <1>3 DEF IInv

\* Nothing that hangs on a member is lost while no member leaves.
LEMMA NobodyLeaves ==
  ASSUME IInv, \A u \in User : role'[u] = NONE => role[u] = NONE,
         UNCHANGED <<granted, groups, inGroup, carries, assigned>>
  PROVE  NothingOutlivesItsOwner'
<1>1. \A u \in User : role'[u] = NONE => granted'[u] = {} /\ \A g \in Group : u \notin inGroup'[g]
  BY DEF IInv, NothingOutlivesItsOwner
<1>2. \A g \in Group \ groups' : inGroup'[g] = {} /\ carries'[g] = {}
  BY DEF IInv, NothingOutlivesItsOwner
<1>3. ASSUME NEW p \in Property
      PROVE  MemberThere(assigned[p].responsible)' /\ GroupThere(assigned[p].group)'
  <2>1. assigned[p].responsible \in User \cup {NoUser}
    BY DEF IInv, TypeOK, Assignments
  <2>2. QED BY <2>1 DEF IInv, NothingOutlivesItsOwner, MemberThere, GroupThere
<1>4. QED BY <1>1, <1>2, <1>3 DEF NothingOutlivesItsOwner

\* A new member takes nobody's place: the rows that are locked are of members.
LEMMA JoinKeeps ==
  ASSUME IInv, NEW c \in Call, Join(c)
  PROVE  IInv'
<1> DEFINE i == call[c].invitation
           u == call[c].user
<1>1. call[c] \in Joining
  BY CallTyped DEF Join, At, IInv, Phases
<1>2. i \in Invitation /\ u \in User
  BY <1>1 DEF Joining
<1>3. Ends(c) /\ UNCHANGED <<granted, groups, inGroup, carries, assigned, mfaRequired>>
  BY DEF Join, groupRows
<1>4. /\ \A v \in User : role[v] # NONE => role'[v] = role[v]
      /\ role' \in [User -> Ranks]
  BY <1>2 DEF Join, IInv, TypeOK
<1>5. \A d \in Call \ {c} : LocksMembers(d) => \A v \in call[d].held : role'[v] = role[v]
  <2> SUFFICES ASSUME NEW d \in Call \ {c}, LocksMembers(d), NEW v \in call[d].held
               PROVE  role'[v] = role[v]
    OBVIOUS
  <2>1. call[d] \in Losing
    BY CallTyped DEF LocksMembers, IInv, Phases
  <2>2. v \in User /\ call[d].was \in ROLES
    BY <2>1 DEF Losing
  <2>3. role[v] # NONE
    BY <2>2 DEF IInv, MemberLocks, At, ROLES, NONE
  <2>4. QED BY <1>4, <2>2, <2>3
<1>6. call' \in [Call -> Calls] /\ Requests' /\ MemberLocks' /\ GroupLocks'
  BY <1>3, <1>5, CallEndsHolding DEF IInv, GroupLocks
<1>7. TypeOK'
  BY <1>2, <1>3, <1>4, <1>6 DEF Join, IInv, TypeOK, Calls
<1>8. OwnerRemains'
  BY <1>4 DEF IInv, OwnerRemains, NONE
<1>9. NothingOutlivesItsOwner'
  BY <1>3, <1>4, NobodyLeaves
<1>10. QED BY <1>6, <1>7, <1>8, <1>9 DEF IInv

\* What another call has locked, this call does not write.
LEMMA OthersRows ==
  ASSUME IInv, NEW c \in Call, NEW target \in User, FreeFor(c, target),
         NEW d \in Call \ {c}, LocksMembers(d)
  PROVE  target \notin call[d].held
BY DEF FreeFor, HoldsMember

\* A demoted owner leaves another owner, whose row the call has locked.
LEMMA ChangeKeeps ==
  ASSUME IInv, NEW c \in Call, Change(c)
  PROVE  IInv'
<1> DEFINE target == call[c].target
<1>1. call[c] \in Losing /\ call[c].at = "CHANGE"
  BY CallTyped DEF Change, At, IInv, Phases
<1>2. target \in User /\ call[c].to \in ROLES /\ call[c].held \subseteq User
  BY <1>1 DEF Losing, Ranks, IInv, MemberLocks, At
<1>3. Ends(c) /\ UNCHANGED <<granted, invitation, groups, inGroup, carries, assigned, mfaRequired>>
  BY DEF Change, groupRows
<1>4. /\ role' \in [User -> Ranks]
      /\ \A v \in User : v # target => role'[v] = role[v]
      /\ role'[target] # role[target] => role[target] = call[c].was /\ role'[target] = call[c].to
  BY <1>2 DEF Change, IInv, TypeOK, Ranks
<1>5. \A d \in Call \ {c} : LocksMembers(d) => \A v \in call[d].held : role'[v] = role[v]
  <2> SUFFICES ASSUME NEW d \in Call \ {c}, LocksMembers(d), NEW v \in call[d].held
               PROVE  role'[v] = role[v]
    OBVIOUS
  <2>1. call[d] \in Losing
    BY CallTyped DEF LocksMembers, IInv, Phases
  <2>2. v \in User
    BY <2>1 DEF Losing
  <2>3. v # target
    BY <1>2, OthersRows DEF Change
  <2>4. QED BY <1>4, <2>2, <2>3
<1>6. call' \in [Call -> Calls] /\ Requests' /\ MemberLocks' /\ GroupLocks'
  BY <1>3, <1>5, CallEndsHolding DEF IInv, GroupLocks
<1>7. TypeOK'
  BY <1>3, <1>4, <1>6 DEF IInv, TypeOK, Calls
<1>8. OwnerRemains'
  <2>1. CASE role'[target] # role[target] /\ role[target] = "OWNER"
    <3>1. PICK v \in call[c].held : v # target
      BY <1>1, <1>4, <2>1 DEF IInv, MemberLocks, KeepsAnOwner
    <3>2. v \in User /\ role[v] = "OWNER"
      BY <1>1, <1>2, <3>1 DEF IInv, MemberLocks, LocksMembers, At
    <3>3. QED BY <1>4, <3>1, <3>2 DEF OwnerRemains
  <2>2. CASE ~ (role'[target] # role[target] /\ role[target] = "OWNER")
    BY <1>4, <2>2 DEF IInv, OwnerRemains
  <2>3. QED BY <2>1, <2>2
<1>9. NothingOutlivesItsOwner'
  <2>1. \A v \in User : role'[v] = NONE => role[v] = NONE
    BY <1>2, <1>4 DEF NONE, ROLES
  <2>2. QED BY <1>3, <2>1, NobodyLeaves
<1>10. QED BY <1>6, <1>7, <1>8, <1>9 DEF IInv

\* Whom a removal takes, everything of it goes with.
LEMMA RemoveKeeps ==
  ASSUME IInv, NEW c \in Call, Remove(c)
  PROVE  IInv'
<1> DEFINE target == call[c].target
<1>1. call[c] \in Losing /\ call[c].at = "REMOVE"
  BY CallTyped DEF Remove, At, IInv, Phases
<1>2. target \in User /\ call[c].held \subseteq User
  BY <1>1 DEF Losing
<1>3. Ends(c) /\ UNCHANGED <<invitation, groups, carries, mfaRequired>>
  BY DEF Remove
<1>4. /\ role' = [role EXCEPT ![target] = NONE]
      /\ granted' = [granted EXCEPT ![target] = {}]
      /\ inGroup' = [g \in Group |-> inGroup[g] \ {target}]
      /\ assigned' = [p \in Property |->
           IF assigned[p].responsible = target
           THEN [assigned[p] EXCEPT !.responsible = NoUser] ELSE assigned[p]]
  BY DEF Remove
<1>5. /\ role' \in [User -> Ranks]
      /\ role'[target] = NONE
      /\ \A v \in User : v # target => role'[v] = role[v]
  BY <1>2, <1>4 DEF IInv, TypeOK, Ranks
<1>6. \A d \in Call \ {c} : LocksMembers(d) => \A v \in call[d].held : role'[v] = role[v]
  <2> SUFFICES ASSUME NEW d \in Call \ {c}, LocksMembers(d), NEW v \in call[d].held
               PROVE  role'[v] = role[v]
    OBVIOUS
  <2>1. call[d] \in Losing
    BY CallTyped DEF LocksMembers, IInv, Phases
  <2>2. v \in User
    BY <2>1 DEF Losing
  <2>3. HoldsMember(c, target) /\ HoldsMember(d, v)
    BY <1>1 DEF IInv, MemberLocks, HoldsMember, LocksMembers, At
  <2>4. v # target
    BY <1>2, <2>3 DEF IInv, MemberLocks
  <2>5. QED BY <1>5, <2>2, <2>4
<1>7. call' \in [Call -> Calls] /\ Requests' /\ MemberLocks' /\ GroupLocks'
  BY <1>3, <1>6, CallEndsHolding DEF IInv, GroupLocks
<1>8. TypeOK'
  <2>1. granted' \in [User -> SUBSET Permission] /\ inGroup' \in [Group -> SUBSET User]
    BY <1>2, <1>4 DEF IInv, TypeOK
  <2>2. assigned' \in [Property -> Assignments]
    BY <1>4 DEF IInv, TypeOK, Assignments
  <2>3. QED BY <1>3, <1>5, <1>7, <2>1, <2>2 DEF IInv, TypeOK, Calls
<1>9. OwnerRemains'
  <2>1. CASE role[target] = "OWNER"
    <3>1. call[c].was = "OWNER" /\ call[c].to # "OWNER"
      BY <1>1, <2>1 DEF IInv, MemberLocks, Requests, At, NONE
    <3>2. PICK v \in call[c].held : v # target
      BY <1>1, <3>1 DEF IInv, MemberLocks, KeepsAnOwner
    <3>3. v \in User /\ role[v] = "OWNER"
      BY <1>1, <1>2, <3>2 DEF IInv, MemberLocks, LocksMembers, At
    <3>4. QED BY <1>5, <3>2, <3>3 DEF OwnerRemains
  <2>2. CASE role[target] # "OWNER"
    BY <1>5, <2>2 DEF IInv, OwnerRemains
  <2>3. QED BY <2>1, <2>2
<1>10. NothingOutlivesItsOwner'
  <2>1. \A v \in User : role'[v] = NONE => granted'[v] = {} /\ \A g \in Group : v \notin inGroup'[g]
    BY <1>2, <1>4, <1>5 DEF IInv, TypeOK, NothingOutlivesItsOwner
  <2>2. \A g \in Group \ groups' : inGroup'[g] = {} /\ carries'[g] = {}
    BY <1>3, <1>4 DEF IInv, NothingOutlivesItsOwner
  <2>3. ASSUME NEW p \in Property
        PROVE  MemberThere(assigned[p].responsible)' /\ GroupThere(assigned[p].group)'
    <3>1. /\ assigned[p] \in Assignments
          /\ MemberThere(assigned[p].responsible) /\ GroupThere(assigned[p].group)
      BY DEF IInv, TypeOK, NothingOutlivesItsOwner
    <3>2. /\ assigned'[p].group = assigned[p].group
          /\ assigned'[p].responsible = NoUser \/
               (assigned'[p].responsible = assigned[p].responsible /\ assigned[p].responsible # target)
      BY <1>4, <3>1 DEF Assignments
    <3>3. QED BY <1>3, <1>5, <3>1, <3>2 DEF MemberThere, GroupThere, Assignments
  <2>4. QED BY <2>1, <2>2, <2>3 DEF NothingOutlivesItsOwner
<1>11. QED BY <1>7, <1>8, <1>9, <1>10 DEF IInv

LEMMA InsertGrantKeeps ==
  ASSUME IInv, NEW c \in Call, InsertGrant(c)
  PROVE  IInv'
<1> DEFINE target == call[c].target
<1>1. target \in User /\ call[c].permission \in Permission
  BY CallTyped DEF InsertGrant, At, IInv, Phases, Granting
<1>2. Ends(c) /\ UNCHANGED <<role, invitation, groups, inGroup, carries, assigned, mfaRequired>>
  BY DEF InsertGrant, groupRows
<1>3. call' \in [Call -> Calls] /\ Requests' /\ MemberLocks' /\ GroupLocks'
  BY <1>2, CallEndsHolding DEF IInv, GroupLocks
<1>4. granted' \in [User -> SUBSET Permission] /\ \A u \in User : role[u] = NONE => granted'[u] = granted[u]
  BY <1>1 DEF InsertGrant, IInv, TypeOK
<1>5. TypeOK'
  BY <1>2, <1>3, <1>4 DEF IInv, TypeOK, Calls
<1>6. OwnerRemains' /\ NothingOutlivesItsOwner'
  BY <1>2, <1>4 DEF IInv, OwnerRemains, NothingOutlivesItsOwner, MemberThere, GroupThere
<1>7. QED BY <1>3, <1>5, <1>6 DEF IInv

LEMMA DeleteGrantKeeps ==
  ASSUME IInv, NEW c \in Call, DeleteGrant(c)
  PROVE  IInv'
<1>1. call[c].target \in User
  BY CallTyped DEF DeleteGrant, At, IInv, Phases, Granting
<1>2. Ends(c) /\ UNCHANGED <<role, invitation, groups, inGroup, carries, assigned, mfaRequired>>
  BY DEF DeleteGrant, groupRows
<1>3. call' \in [Call -> Calls] /\ Requests' /\ MemberLocks' /\ GroupLocks'
  BY <1>2, CallEndsHolding DEF IInv, GroupLocks
<1>4. granted' \in [User -> SUBSET Permission] /\ \A u \in User : granted'[u] \subseteq granted[u]
  BY <1>1 DEF DeleteGrant, IInv, TypeOK
<1>5. TypeOK'
  BY <1>2, <1>3, <1>4 DEF IInv, TypeOK, Calls
<1>6. OwnerRemains' /\ NothingOutlivesItsOwner'
  BY <1>2, <1>4 DEF IInv, OwnerRemains, NothingOutlivesItsOwner, MemberThere, GroupThere
<1>7. QED BY <1>3, <1>5, <1>6 DEF IInv

LEMMA SetMfaRequiredKeeps ==
  ASSUME IInv, NEW c \in Call, setMfaRequired(c)
  PROVE  IInv'
<1>1. Ends(c) /\ UNCHANGED <<role, granted, invitation, groups, inGroup, carries, assigned>>
  BY DEF setMfaRequired, members, groupRows
<1>2. call' \in [Call -> Calls] /\ Requests' /\ MemberLocks' /\ GroupLocks'
  BY <1>1, CallEndsHolding DEF IInv, GroupLocks
<1>3. TypeOK'
  BY <1>1, <1>2 DEF setMfaRequired, IInv, TypeOK, Calls
<1>4. OwnerRemains' /\ NothingOutlivesItsOwner'
  BY <1>1 DEF IInv, OwnerRemains, NothingOutlivesItsOwner, MemberThere, GroupThere
<1>5. QED BY <1>2, <1>3, <1>4 DEF IInv

-----------------------------------------------------------------------------
(***************************************************************************)
(* Groups.                                                                 *)
(***************************************************************************)

\* A call that is about to write a group.
LEMMA WritingGroup ==
  ASSUME IInv, NEW c \in Call, At(c, "WRITE_GROUP")
  PROVE  /\ call[c].group \in groups /\ call[c].group \in Group
         /\ call[c].op \in SHARING => call[c].user \in User
         /\ call[c].op \in {"GRANT", "REVOKE"} => call[c].permission \in Permission
         /\ call[c].op \notin SHARING =>
              \A d \in Call \ {c} : At(d, "WRITE_GROUP") => call[d].group # call[c].group
BY DEF IInv, TypeOK, Requests, GroupLocks, At, HoldsGroup

LEMMA CreateGroupKeeps ==
  ASSUME IInv, NEW c \in Call, CreateGroup(c)
  PROVE  IInv'
<1>1. call[c].group \in Group
  BY CallTyped DEF CreateGroup, At, IInv, Phases, NewGroup
<1>2. /\ Ends(c) /\ groups' = groups \cup {call[c].group}
      /\ UNCHANGED <<role, granted, invitation, inGroup, carries, assigned, mfaRequired>>
  BY DEF CreateGroup, members
<1>3. call' \in [Call -> Calls] /\ Requests' /\ MemberLocks' /\ GroupLocks'
  BY <1>2, CallEndsHolding DEF IInv, GroupLocks
<1>4. TypeOK'
  BY <1>1, <1>2, <1>3 DEF IInv, TypeOK, Calls
<1>5. OwnerRemains' /\ NothingOutlivesItsOwner'
  BY <1>2 DEF IInv, OwnerRemains, NothingOutlivesItsOwner, MemberThere, GroupThere
<1>6. QED BY <1>3, <1>4, <1>5 DEF IInv

\* Who comes into a group is a member, its row share-locked by the foreign key.
LEMMA AddMemberKeeps ==
  ASSUME IInv, NEW c \in Call, AddMember(c)
  PROVE  IInv'
<1> DEFINE u == call[c].user
           g == call[c].group
<1>1. g \in groups /\ g \in Group /\ u \in User
  BY WritingGroup DEF AddMember, Writes, SHARING
<1>2. Ends(c) /\ UNCHANGED <<role, granted, invitation, groups, carries, assigned, mfaRequired>>
  BY DEF AddMember, Writes, members
<1>3. call' \in [Call -> Calls] /\ Requests' /\ MemberLocks' /\ GroupLocks'
  BY <1>2, CallEndsHolding DEF IInv, GroupLocks
<1>4. /\ inGroup' \in [Group -> SUBSET User]
      /\ \A h \in Group : h # g => inGroup'[h] = inGroup[h]
      /\ inGroup'[g] \subseteq inGroup[g] \cup {v \in User : role[v] # NONE}
  BY <1>1 DEF AddMember, IInv, TypeOK
<1>5. TypeOK'
  BY <1>2, <1>3, <1>4 DEF IInv, TypeOK, Calls
<1>6. OwnerRemains' /\ NothingOutlivesItsOwner'
  <2>1. \A v \in User : role[v] = NONE => \A h \in Group : v \notin inGroup'[h]
    BY <1>1, <1>4 DEF IInv, NothingOutlivesItsOwner
  <2>2. QED
    BY <1>1, <1>2, <1>4, <2>1 DEF IInv, OwnerRemains, NothingOutlivesItsOwner, MemberThere, GroupThere
<1>7. QED BY <1>3, <1>5, <1>6 DEF IInv

LEMMA TakeMemberKeeps ==
  ASSUME IInv, NEW c \in Call, TakeMember(c)
  PROVE  IInv'
<1>1. call[c].group \in Group
  BY WritingGroup DEF TakeMember, Writes
<1>2. Ends(c) /\ UNCHANGED <<role, granted, invitation, groups, carries, assigned, mfaRequired>>
  BY DEF TakeMember, Writes, members
<1>3. call' \in [Call -> Calls] /\ Requests' /\ MemberLocks' /\ GroupLocks'
  BY <1>2, CallEndsHolding DEF IInv, GroupLocks
<1>4. /\ inGroup' \in [Group -> SUBSET User]
      /\ \A h \in Group : inGroup'[h] \subseteq inGroup[h]
  BY <1>1 DEF TakeMember, IInv, TypeOK
<1>5. TypeOK'
  BY <1>2, <1>3, <1>4 DEF IInv, TypeOK, Calls
<1>6. OwnerRemains' /\ NothingOutlivesItsOwner'
  BY <1>2, <1>4 DEF IInv, OwnerRemains, NothingOutlivesItsOwner, MemberThere, GroupThere
<1>7. QED BY <1>3, <1>5, <1>6 DEF IInv

\* What a group carries changes while no other call holds the group.
LEMMA PermissionChangeKeeps ==
  ASSUME IInv, NEW c \in Call, GrantToGroup(c) \/ RevokeFromGroup(c)
  PROVE  IInv'
<1> DEFINE g == call[c].group
<1>1. /\ g \in groups /\ g \in Group /\ call[c].permission \in Permission
      /\ \A d \in Call \ {c} : At(d, "WRITE_GROUP") => call[d].group # g
  BY WritingGroup DEF GrantToGroup, RevokeFromGroup, Writes, SHARING
<1>2. Ends(c) /\ UNCHANGED <<role, granted, invitation, groups, inGroup, assigned, mfaRequired>>
  BY DEF GrantToGroup, RevokeFromGroup, Writes, members
<1>3. /\ carries' \in [Group -> SUBSET Permission]
      /\ \A h \in Group : h # g => carries'[h] = carries[h]
  BY <1>1 DEF GrantToGroup, RevokeFromGroup, IInv, TypeOK
<1>4. \A d \in Call \ {c} : At(d, "WRITE_GROUP") =>
        call[d].group \in groups' /\ carries'[call[d].group] = carries[call[d].group]
  BY <1>1, <1>2, <1>3, WritingGroup
<1>5. call' \in [Call -> Calls] /\ Requests' /\ MemberLocks' /\ GroupLocks'
  BY <1>2, <1>4, CallEndsHolding
<1>6. TypeOK'
  BY <1>2, <1>3, <1>5 DEF IInv, TypeOK, Calls
<1>7. OwnerRemains' /\ NothingOutlivesItsOwner'
  BY <1>1, <1>2, <1>3 DEF IInv, TypeOK, OwnerRemains, NothingOutlivesItsOwner, MemberThere, GroupThere
<1>8. QED BY <1>5, <1>6, <1>7 DEF IInv

\* A group goes with everything in it, and no other call is writing it.
LEMMA DeleteGroupKeeps ==
  ASSUME IInv, NEW c \in Call, DeleteGroup(c)
  PROVE  IInv'
<1> DEFINE g == call[c].group
<1>1. /\ g \in Group
      /\ \A d \in Call \ {c} : At(d, "WRITE_GROUP") => call[d].group # g
  BY WritingGroup DEF DeleteGroup, Writes, SHARING
<1>2. /\ Ends(c) /\ groups' = groups \ {g}
      /\ inGroup' = [inGroup EXCEPT ![g] = {}] /\ carries' = [carries EXCEPT ![g] = {}]
      /\ assigned' = [p \in Property |->
           IF assigned[p].group = g THEN [assigned[p] EXCEPT !.group = NoGroup] ELSE assigned[p]]
      /\ UNCHANGED <<role, granted, invitation, mfaRequired>>
  BY DEF DeleteGroup, Writes, members
<1>3. \A d \in Call \ {c} : At(d, "WRITE_GROUP") =>
        call[d].group \in groups' /\ carries'[call[d].group] = carries[call[d].group]
  <2> SUFFICES ASSUME NEW d \in Call \ {c}, At(d, "WRITE_GROUP")
               PROVE  call[d].group \in groups' /\ carries'[call[d].group] = carries[call[d].group]
    OBVIOUS
  <2>1. call[d].group \in groups /\ call[d].group # g
    BY <1>1, WritingGroup
  <2>2. QED BY <1>2, <2>1 DEF IInv, TypeOK
<1>4. call' \in [Call -> Calls] /\ Requests' /\ MemberLocks' /\ GroupLocks'
  BY <1>2, <1>3, CallEndsHolding
<1>5. TypeOK'
  <2>1. /\ groups' \in SUBSET Group /\ inGroup' \in [Group -> SUBSET User]
        /\ carries' \in [Group -> SUBSET Permission]
    BY <1>2 DEF IInv, TypeOK
  <2>2. assigned' \in [Property -> Assignments]
    <3>1. \A p \in Property : assigned[p] \in Assignments
      BY DEF IInv, TypeOK
    <3>2. \A p \in Property : [assigned[p] EXCEPT !.group = NoGroup] \in Assignments
      BY <3>1 DEF Assignments
    <3>3. QED BY <1>2, <3>1, <3>2
  <2>3. UNCHANGED <<role, granted, invitation, mfaRequired>>
    BY <1>2
  <2>4. TypeOK
    BY DEF IInv
  <2>5. QED BY <1>4, <2>1, <2>2, <2>3, <2>4 DEF TypeOK, Calls
<1>6. OwnerRemains'
  BY <1>2 DEF IInv, OwnerRemains
<1>7. NothingOutlivesItsOwner'
  <2>1. \A v \in User : role'[v] = NONE => granted'[v] = {} /\ \A h \in Group : v \notin inGroup'[h]
    BY <1>1, <1>2 DEF IInv, TypeOK, NothingOutlivesItsOwner
  <2>2. \A h \in Group \ groups' : inGroup'[h] = {} /\ carries'[h] = {}
    BY <1>1, <1>2 DEF IInv, TypeOK, NothingOutlivesItsOwner
  <2>3. ASSUME NEW p \in Property
        PROVE  MemberThere(assigned[p].responsible)' /\ GroupThere(assigned[p].group)'
    <3>1. /\ assigned[p] \in Assignments
          /\ MemberThere(assigned[p].responsible) /\ GroupThere(assigned[p].group)
      BY DEF IInv, TypeOK, NothingOutlivesItsOwner
    <3>2. /\ assigned'[p].responsible = assigned[p].responsible
          /\ assigned'[p].group = NoGroup \/
               (assigned'[p].group = assigned[p].group /\ assigned[p].group # g)
      BY <1>2, <3>1 DEF Assignments
    <3>3. QED BY <1>2, <3>1, <3>2 DEF MemberThere, GroupThere
  <2>4. QED BY <2>1, <2>2, <2>3 DEF NothingOutlivesItsOwner
<1>8. QED BY <1>4, <1>5, <1>6, <1>7 DEF IInv

-----------------------------------------------------------------------------
(***************************************************************************)
(* Properties.                                                             *)
(***************************************************************************)

LEMMA DeletePropertyKeeps ==
  ASSUME IInv, NEW p \in Property, DeleteProperty(p)
  PROVE  IInv'
<1>1. /\ UNCHANGED <<role, granted, invitation, groups, inGroup, carries, mfaRequired, call>>
      /\ assigned' = [assigned EXCEPT ![p].status = "DELETED"]
  BY DEF DeleteProperty, members, groupRows
<1>2. assigned' \in [Property -> Assignments]
  BY <1>1 DEF IInv, TypeOK, Assignments
<1>3. TypeOK'
  BY <1>1, <1>2 DEF IInv, TypeOK
<1>4. Requests' /\ MemberLocks' /\ GroupLocks' /\ OwnerRemains'
  BY <1>1 DEF IInv, Requests, MemberLocks, GroupLocks, OwnerRemains, At, HoldsMember, LocksMembers,
     HoldsGroup, KeepsAnOwner, permissionCeiling
<1>5. NothingOutlivesItsOwner'
  <2>1. \A q \in Property : /\ assigned'[q].responsible = assigned[q].responsible
                            /\ assigned'[q].group = assigned[q].group
    BY <1>1 DEF IInv, TypeOK, Assignments
  <2>2. QED
    BY <1>1, <2>1 DEF IInv, NothingOutlivesItsOwner, MemberThere, GroupThere
<1>6. QED BY <1>3, <1>4, <1>5 DEF IInv

\* A property is assigned to whom and to what is there, or keeps what it had.
LEMMA AssignmentKeeps ==
  ASSUME IInv, NEW c \in Call, Ends(c), UNCHANGED <<members, groupRows, mfaRequired>>,
         NEW p \in Property, NEW responsible \in User \cup {NoUser}, NEW g \in Group \cup {NoGroup},
         assigned' = [assigned EXCEPT ![p] =
                        [status |-> "ACTIVE", responsible |-> responsible, group |-> g]],
         MemberThere(responsible), GroupThere(g)
  PROVE  IInv'
<1>1. UNCHANGED <<role, granted, invitation, groups, inGroup, carries, mfaRequired>>
  BY DEF members, groupRows
<1>2. call' \in [Call -> Calls] /\ Requests' /\ MemberLocks' /\ GroupLocks'
  BY <1>1, CallEndsHolding DEF IInv, GroupLocks
<1>3. assigned' \in [Property -> Assignments]
  BY DEF IInv, TypeOK, Assignments
<1>4. TypeOK'
  BY <1>1, <1>2, <1>3 DEF IInv, TypeOK, Calls
<1>5. OwnerRemains'
  BY <1>1 DEF IInv, OwnerRemains
<1>6. NothingOutlivesItsOwner'
  <2>1. \A q \in Property : q # p => assigned'[q] = assigned[q]
    BY DEF IInv, TypeOK
  <2>2. assigned'[p].responsible = responsible /\ assigned'[p].group = g
    BY DEF IInv, TypeOK
  <2>3. QED
    BY <1>1, <2>1, <2>2 DEF IInv, NothingOutlivesItsOwner, MemberThere, GroupThere
<1>7. QED BY <1>2, <1>4, <1>5, <1>6 DEF IInv

LEMMA PropertiesChangeKeeps ==
  ASSUME IInv, NEW c \in Call, PropertiesChange(c)
  PROVE  IInv'
<1>1. CASE CreateProperty(c)
  <2> DEFINE new == call[c]
  <2>1. new \in Creating
    BY <1>1, CallTyped DEF CreateProperty, At, IInv, Phases
  <2>2. CASE MemberThere(new.responsible) /\ GroupThere(new.group)
    BY <1>1, <2>1, <2>2, AssignmentKeeps DEF CreateProperty, Creating
  <2>3. CASE ~ (MemberThere(new.responsible) /\ GroupThere(new.group))
    BY <1>1, <2>3, CallEndsKeeps DEF CreateProperty
  <2>4. QED BY <2>2, <2>3
<1>2. CASE Assign(c)
  <2> DEFINE new == call[c]
             responsible == IF new.responsible = new.was.responsible THEN NoUser ELSE new.responsible
             g == IF new.group = new.was.group THEN NoGroup ELSE new.group
             accepted == /\ assigned[new.property] = new.was
                         /\ MemberThere(responsible) /\ GroupThere(g)
  <2>1. new \in Assigning
    BY <1>2, CallTyped DEF Assign, At, IInv, Phases
  <2>2. new.property \in Property
    BY <2>1 DEF Assigning
  <2>3. CASE accepted
    <3>1. MemberThere(new.responsible) /\ GroupThere(new.group)
      BY <2>2, <2>3 DEF IInv, NothingOutlivesItsOwner, MemberThere, GroupThere
    <3>2. assigned' = [assigned EXCEPT ![new.property] =
            [status |-> "ACTIVE", responsible |-> new.responsible, group |-> new.group]]
      BY <1>2, <2>3 DEF Assign
    <3>3. Ends(c) /\ UNCHANGED <<members, groupRows, mfaRequired>>
      BY <1>2 DEF Assign
    <3>4. QED BY <2>1, <2>2, <3>1, <3>2, <3>3, AssignmentKeeps DEF Assigning
  <2>4. CASE ~ accepted
    <3>1. Ends(c) /\ UNCHANGED <<members, groupRows, assigned, mfaRequired>>
      BY <1>2, <2>4 DEF Assign
    <3>2. QED BY <3>1, CallEndsKeeps
  <2>5. QED BY <2>3, <2>4
<1>3. QED BY <1>1, <1>2 DEF PropertiesChange

-----------------------------------------------------------------------------
(***************************************************************************)
(* The theorems.                                                           *)
(***************************************************************************)

LEMMA InitHolds == Init => IInv
<1> SUFFICES ASSUME Init PROVE IInv
  OBVIOUS
<1>1. TypeOK
  BY DEF Init, TypeOK, NoInvitation, Ranks, ROLES, Assignments
<1>2. \A c \in Call : call[c].at = "IDLE"
  BY DEF Init, Idle
<1>3. Requests /\ MemberLocks /\ GroupLocks
  BY <1>2 DEF Requests, MemberLocks, GroupLocks, At, HoldsMember, LocksMembers, KeepsAnOwner
<1>4. OwnerRemains /\ NothingOutlivesItsOwner
  BY DEF Init, OwnerRemains, NothingOutlivesItsOwner, MemberThere, GroupThere
<1>5. QED BY <1>1, <1>3, <1>4 DEF IInv

LEMMA StepKeeps == IInv /\ [Next]_vars => IInv'
<1> SUFFICES ASSUME IInv, [Next]_vars PROVE IInv'
  OBVIOUS
<1>1. CASE UNCHANGED vars
  BY <1>1 DEF vars, members, groupRows, IInv, TypeOK, Requests, MemberLocks, GroupLocks, OwnerRemains,
     NothingOutlivesItsOwner, MemberThere, GroupThere, At, HoldsMember, LocksMembers, HoldsGroup,
     KeepsAnOwner, permissionCeiling
<1>2. ASSUME NEW c \in Call, MembersChange(c) PROVE IInv'
  BY <1>2, CreateInvitationKeeps, JoinKeeps, CountOwnersKeeps, LockOwnerKeeps, OwnersLockedKeeps,
     ChangeKeeps, LockMemberKeeps, RemoveKeeps, InsertGrantKeeps, DeleteGrantKeeps, SetMfaRequiredKeeps
     DEF MembersChange
<1>3. ASSUME NEW c \in Call, GroupsChange(c) PROVE IInv'
  BY <1>3, CreateGroupKeeps, LockGroupKeeps, AddMemberKeeps, TakeMemberKeeps, PermissionChangeKeeps,
     DeleteGroupKeeps DEF GroupsChange
<1>4. ASSUME NEW c \in Call, CallEnds(c) PROVE IInv'
  BY <1>4, CallEndsKeeps DEF CallEnds
<1>5. ASSUME NEW c \in Call, NEW u \in User, MemberCall(c, u) \/ GroupCall(c, u) \/ PropertyCall(c, u)
      PROVE  IInv'
  BY <1>5, MemberCallKeeps, GroupCallKeeps, PropertyCallKeeps
<1>6. QED
  BY <1>1, <1>2, <1>3, <1>4, <1>5, PropertiesChangeKeeps, ExpireInvitationKeeps, DeletePropertyKeeps DEF Next

\* The variables keep their types, and the invariant holds throughout.
THEOREM Invariant == Spec => []IInv
<1>1. QED BY InitHolds, StepKeeps, PTL DEF Spec

\* An organization never loses its last owner, whatever the number of owners and
\* of calls that demote and remove them at once (ownerLossRefusal, repositories.ts).
THEOREM OwnerAlwaysRemains == Spec => []OwnerRemains
<1>1. IInv => OwnerRemains
  BY DEF IInv
<1>2. QED BY <1>1, Invariant, PTL

\* Nothing refers to a member who left or to a group that was deleted: grants,
\* places in groups, what groups carry, and the assignments of properties
\* (releaseProperties, the deletes of repositories.ts and group-repository.ts).
THEOREM NothingIsLeftBehind == Spec => []NothingOutlivesItsOwner
<1>1. IInv => NothingOutlivesItsOwner
  BY DEF IInv
<1>2. QED BY <1>1, Invariant, PTL

\* Every change of a group's members by an actor keeps under the actor's ceiling
\* at the moment it commits (lockGroup, group-service.ts).
THEOREM CeilingHolds == Spec => CeilingIsRespected
<1> DEFINE Kept == \A g \in Group, c \in Call :
                     (inGroup'[g] # inGroup[g] /\ HoldsGroup(c, g) /\ ~ HoldsGroup(c, g)')
                       => permissionCeiling(call[c].actor, carries[g])
<1>1. IInv /\ [Next]_vars => [Kept]_vars
  <2> SUFFICES ASSUME IInv, Next, NEW g \in Group, NEW c \in Call,
                      inGroup'[g] # inGroup[g], HoldsGroup(c, g), ~ HoldsGroup(c, g)'
               PROVE  permissionCeiling(call[c].actor, carries[g])
    BY DEF vars
  <2>1. call[c].op \in SHARING \cup {"DELETE"} => permissionCeiling(call[c].actor, carries[g])
    BY DEF IInv, GroupLocks, HoldsGroup
  <2>2. \A d \in Call : Ends(d) => d = c
    BY DEF IInv, TypeOK, Ends, Goes, HoldsGroup, At
  <2>3. ~ UNCHANGED inGroup
    OBVIOUS
  <2>4. PICK d \in Call : Remove(d) \/ AddMember(d) \/ TakeMember(d) \/ DeleteGroup(d)
    <3>1. ASSUME NEW e \in Call, NEW u \in User, MemberCall(e, u) PROVE UNCHANGED inGroup
      BY <3>1 DEF MemberCall, groupRows, AcceptInvitation, Invite, RemoveMember, ChangeRole,
         GrantToMember, RevokeFromMember, setMfaRequirement
    <3>2. ASSUME NEW e \in Call, NEW u \in User, GroupCall(e, u) \/ PropertyCall(e, u)
          PROVE  UNCHANGED inGroup
      BY <3>2 DEF GroupCall, PropertyCall, groupRows, BeginCreateGroup, BeginDeleteGroup,
         BeginMemberChange, BeginPermissionChange, BeginCreateProperty, BeginAssign
    <3>3. ASSUME NEW e \in Call, MembersChange(e), ~ Remove(e) PROVE UNCHANGED inGroup
      BY <3>3 DEF MembersChange, groupRows, CreateInvitation, Join, CountOwners, LockOwner, OwnersLocked,
         Change, LockMember, InsertGrant, DeleteGrant, setMfaRequired
    <3>4. ASSUME NEW e \in Call, GroupsChange(e), ~ AddMember(e), ~ TakeMember(e), ~ DeleteGroup(e)
          PROVE  UNCHANGED inGroup
      BY <3>4 DEF GroupsChange, groupRows, CreateGroup, lockGroup, GrantToGroup, RevokeFromGroup
    <3>5. ASSUME NEW e \in Call, PropertiesChange(e) \/ CallEnds(e) PROVE UNCHANGED inGroup
      BY <3>5 DEF PropertiesChange, CallEnds, groupRows, CreateProperty, Assign
    <3>6. /\ \A i \in Invitation : ExpireInvitation(i) => UNCHANGED inGroup
          /\ \A p \in Property : DeleteProperty(p) => UNCHANGED inGroup
      BY DEF ExpireInvitation, DeleteProperty, groupRows
    <3>7. QED BY <2>3, <3>1, <3>2, <3>3, <3>4, <3>5, <3>6 DEF Next
  <2>5. d = c
    BY <2>2, <2>4 DEF Remove, AddMember, TakeMember, DeleteGroup, Writes
  <2>6. call[c].op \in SHARING \cup {"DELETE"}
    BY <2>4, <2>5 DEF Remove, AddMember, TakeMember, DeleteGroup, Writes, HoldsGroup, At, SHARING
  <2>7. QED BY <2>1, <2>6
<1>2. QED BY <1>1, Invariant, PTL DEF CeilingIsRespected, Spec

\* The MFA requirement changes only at the hands of an owner or an admin, as the
\* actor is when it changes (setMfaRequired, repositories.ts).
THEOREM MfaIsManaged == Spec => MfaChangedByAManager
<1> DEFINE Managed == mfaRequired' # mfaRequired =>
             \E c \in Call : At(c, "SET_MFA") /\ role[call[c].actor.user] \in {"OWNER", "ADMIN"}
<1>1. IInv /\ [Next]_vars => [Managed]_vars
  <2> SUFFICES ASSUME IInv, Next, ~ UNCHANGED mfaRequired
               PROVE  \E c \in Call : At(c, "SET_MFA") /\ role[call[c].actor.user] \in {"OWNER", "ADMIN"}
    BY DEF vars
  <2>1. PICK c \in Call : setMfaRequired(c)
    <3>1. ASSUME NEW e \in Call, NEW u \in User, MemberCall(e, u) PROVE UNCHANGED mfaRequired
      BY <3>1 DEF MemberCall, AcceptInvitation, Invite, RemoveMember, ChangeRole,
         GrantToMember, RevokeFromMember, setMfaRequirement
    <3>2. ASSUME NEW e \in Call, NEW u \in User, GroupCall(e, u) \/ PropertyCall(e, u)
          PROVE  UNCHANGED mfaRequired
      BY <3>2 DEF GroupCall, PropertyCall, BeginCreateGroup, BeginDeleteGroup,
         BeginMemberChange, BeginPermissionChange, BeginCreateProperty, BeginAssign
    <3>3. ASSUME NEW e \in Call, MembersChange(e), ~ setMfaRequired(e) PROVE UNCHANGED mfaRequired
      BY <3>3 DEF MembersChange, CreateInvitation, Join, CountOwners, LockOwner, OwnersLocked,
         Change, LockMember, Remove, InsertGrant, DeleteGrant
    <3>4. ASSUME NEW e \in Call, GroupsChange(e) PROVE UNCHANGED mfaRequired
      BY <3>4 DEF GroupsChange, CreateGroup, lockGroup, AddMember, TakeMember, GrantToGroup,
         RevokeFromGroup, DeleteGroup
    <3>5. ASSUME NEW e \in Call, PropertiesChange(e) \/ CallEnds(e) PROVE UNCHANGED mfaRequired
      BY <3>5 DEF PropertiesChange, CallEnds, CreateProperty, Assign
    <3>6. /\ \A i \in Invitation : ExpireInvitation(i) => UNCHANGED mfaRequired
          /\ \A p \in Property : DeleteProperty(p) => UNCHANGED mfaRequired
      BY DEF ExpireInvitation, DeleteProperty
    <3>7. QED BY <3>1, <3>2, <3>3, <3>4, <3>5, <3>6 DEF Next
  <2>2. call[c].actor.role \in {"OWNER", "ADMIN"}
    BY <2>1 DEF setMfaRequired, IInv, Requests
  <2>3. At(c, "SET_MFA") /\ role[call[c].actor.user] = call[c].actor.role
    BY <2>1 DEF setMfaRequired
  <2>4. QED BY <2>2, <2>3
<1>2. QED BY <1>1, Invariant, PTL DEF MfaChangedByAManager, Spec
===============================================================================
