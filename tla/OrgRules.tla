------------------------------ MODULE OrgRules ------------------------------
(***************************************************************************)
(* The pure decisions of internal/org and internal/auth: the ranking of    *)
(* organisation roles, the permissions a role grants and the member cap of *)
(* an organisation.  No state; the state machines of the organisation      *)
(* extend this module.                                                     *)
(***************************************************************************)
EXTENDS Integers

CONSTANTS
  Plan,         (* orgs.plan of the organisation under study               *)
  MaxMembers,   (* orgs.max_members, or NoOverride when the column is NULL *)
  NoOverride,
  Roles         (* the roles in use: all or some of validRoles             *)

ASSUME MaxMembersAssumption ==
  /\ MaxMembers \in Int \cup {NoOverride}
  /\ NoOverride \notin Int

-----------------------------------------------------------------------------
(* Roles *)

roleRank ==
  [owner |-> 5, admin |-> 4, editor |-> 3, viewer |-> 2, member |-> 1]

validRoles == {"owner", "admin", "editor", "viewer", "member"}

ASSUME RolesAssumption == Roles \subseteq validRoles

HasAtLeastRole(actual, required) == roleRank[actual] >= roleRank[required]

(* The rows of rolePermissions the organisation code asks about.  A role   *)
(* without a row has no permission at all.                                 *)
rolePermissions ==
  [owner |-> {"members:manage", "members:roles", "org:settings", "org:delete"},
   admin |-> {"members:manage", "members:roles", "org:settings"},
   editor |-> {},
   viewer |-> {}]

Can(role, perm) ==
  /\ role \in DOMAIN rolePermissions
  /\ perm \in rolePermissions[role]

-----------------------------------------------------------------------------
(* Limits *)

planLimits == [personal |-> 1, pro |-> 1, teams |-> 25, enterprise |-> 0]

LimitsFor(plan) ==
  IF plan \in DOMAIN planLimits THEN planLimits[plan] ELSE planLimits["personal"]

(* Zero means unlimited. *)
CheckMemberLimit(plan, current) ==
  \/ LimitsFor(plan) = 0
  \/ current < LimitsFor(plan)

(* Mutant of RoomFor: <= for <. *)
RoomForInclusive(current) ==
  IF MaxMembers # NoOverride
  THEN current <= MaxMembers
  ELSE CheckMemberLimit(Plan, current)

(* The two branches of Service.AddMember: orgs.max_members, when it is set,*)
(* replaces the cap of the plan.                                           *)
RoomFor(current) ==
  IF MaxMembers # NoOverride
  THEN current < MaxMembers
  ELSE CheckMemberLimit(Plan, current)

Capped == MaxMembers # NoOverride \/ LimitsFor(Plan) # 0

Cap == IF MaxMembers # NoOverride THEN MaxMembers ELSE LimitsFor(Plan)
=============================================================================
