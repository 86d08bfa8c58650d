-------------------------- MODULE MembershipProperties --------------------------
(***************************************************************************)
(* What must hold of an organization's members, groups and assignments.    *)
(***************************************************************************)
EXTENDS Membership

Ranks == ROLES \cup {NONE}
Actors == [user : User, role : ROLES, permissions : SUBSET (PERMISSIONS \cup Permission)]
Assignments ==
  [status : {NONE, "ACTIVE", "DELETED"}, responsible : User \cup {NoUser}, group : Group \cup {NoGroup}]

\* A call, by what it is for.
Losing ==
  [at : {"COUNT_OWNERS", "LOCK_OWNERS", "CHANGE", "LOCK_MEMBER", "REMOVE"},
   target : User, was : ROLES, to : Ranks, left : SUBSET User, held : SUBSET User]
GroupChanges ==
  [at : {"LOCK_GROUP", "WRITE_GROUP"}, op : {"ADD", "TAKE", "GRANT", "REVOKE", "DELETE"},
   actor : Actors, group : Group, user : User \cup {NoUser}, permission : Permission \cup {NONE}]
Granting == [at : {"GRANT", "REVOKE"}, target : User, permission : Permission]
Inviting == [at : {"INVITE"}, invitation : Invitation, role : ROLES, by : User]
Joining  == [at : {"JOIN"}, invitation : Invitation, user : User]
NewGroup == [at : {"CREATE_GROUP"}, group : Group]
Creating ==
  [at : {"CREATE_PROPERTY"}, property : Property,
   responsible : User \cup {NoUser}, group : Group \cup {NoGroup}]
Assigning ==
  [at : {"ASSIGN"}, property : Property, was : Assignments,
   responsible : User \cup {NoUser}, group : Group \cup {NoGroup}]
SettingMfa == [at : {"SET_MFA"}, actor : Actors, expected : BOOLEAN]

\* What the variables hold: the rows of the tables, and what each call is doing.
TypeOK ==
  /\ role \in [User -> Ranks]
  /\ granted \in [User -> SUBSET Permission]
  /\ invitation \in [Invitation ->
       [status : {NONE, "PENDING", "EXPIRED", "ACCEPTED"}, role : Ranks, by : User \cup {NoUser}]]
  /\ groups \in SUBSET Group
  /\ inGroup \in [Group -> SUBSET User]
  /\ carries \in [Group -> SUBSET Permission]
  /\ assigned \in [Property -> Assignments]
  /\ mfaRequired \in BOOLEAN
  /\ call \in [Call -> {Idle} \cup Losing \cup GroupChanges \cup Granting \cup Inviting
                 \cup Joining \cup NewGroup \cup Creating \cup Assigning \cup SettingMfa]

\* An organization always has an owner, however many owners demote and remove
\* each other and themselves at once (ownerLossRefusal of repositories.ts).
OwnerRemains == \E u \in User : role[u] = "OWNER"

\* Nothing outlives what it hangs on: a grant, a place in a group and a
\* responsibility belong to a member, and what a group carries, whom it has and
\* the properties in it to a group that is there, although assignments, removals
\* and deletions run side by side (releaseProperties, the foreign keys).
NothingOutlivesItsOwner ==
  /\ \A u \in User : role[u] = NONE =>
       granted[u] = {} /\ \A g \in Group : u \notin inGroup[g]
  /\ \A g \in Group \ groups : inGroup[g] = {} /\ carries[g] = {}
  /\ \A p \in Property :
       MemberThere(assigned[p].responsible) /\ GroupThere(assigned[p].group)

\* A member comes into a group, or leaves it by hand, only by an actor who may
\* delegate everything the group carries at that very moment, however permissions
\* are granted to it meanwhile; so is a group deleted (group-service.ts, lockGroup).
CeilingIsRespected ==
  [][\A g \in Group, c \in Call :
       (inGroup'[g] # inGroup[g] /\ HoldsGroup(c, g) /\ ~ HoldsGroup(c, g)')
         => permissionCeiling(call[c].actor, carries[g])]_vars

\* The MFA requirement changes only by a call whose actor is an owner or an admin
\* as it changes (setMfaRequired of repositories.ts).
MfaChangedByAManager ==
  [][mfaRequired' # mfaRequired =>
       \E c \in Call : At(c, "SET_MFA") /\ role[call[c].actor.user] \in {"OWNER", "ADMIN"}]_vars
===============================================================================
