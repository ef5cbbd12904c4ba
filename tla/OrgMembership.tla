---------------------------- MODULE OrgMembership ---------------------------
(***************************************************************************)
(* The organisation service (internal/org: handler.go, service_impl.go,    *)
(* repository_pg.go, db/queries/org.sql) serving concurrent HTTP requests  *)
(* about one organisation.                                                 *)
(*                                                                         *)
(* A worker is the goroutine net/http runs a request on.  Every repository *)
(* call is one SQL statement on the pool, outside any transaction, so each *)
(* statement is an atomic step and between two statements of a request the *)
(* other workers may run.  pc[w] names the statement worker w issues next; *)
(* what Go code does between two statements belongs to the first of them.  *)
(* A request remembers nothing of the rows it read but the outcome of the  *)
(* checks it has passed, and pc holds that.                                *)
(***************************************************************************)
EXTENDS OrgRules, FiniteSets

CONSTANTS
  Users,      (* accounts that exist (rows of users)                       *)
  Names,      (* names an organisation may have                            *)
  Workers,    (* request goroutines                                        *)
  Kinds       (* the operations clients send                               *)

BadRole == "no such role"
NoName  == ""

ASSUME SetsAssumption ==
  /\ IsFiniteSet(Users)
  /\ IsFiniteSet(Workers) /\ Workers # {}
  /\ NoName \notin Names

VARIABLES
  org,        (* the row of orgs: deleted_at IS NULL (live), and its name  *)
  members,    (* the rows of org_members: a role for each user, or NoRow   *)
  pc,
  req,        (* the request each worker serves                            *)
  reply,      (* the answer each worker gave last                          *)
  overlapped  (* history: another worker has changed org or members since
                 this worker's request arrived                             *)

dbVars == <<org, members>>
vars   == <<org, members, pc, req, reply, overlapped>>

Atomic == INSTANCE OrgAtomic

NoRow   == Atomic!NoRow
Members == Atomic!Members
Owners  == Atomic!Owners
AtLeast(c, role) == Atomic!AtLeast(c, role)

-----------------------------------------------------------------------------
(* Requests *)

AddRequest    == [kind : {"AddMember"}, target : Users, role : Roles \cup {BadRole}]
RoleRequest   == [kind : {"UpdateMemberRole"}, caller : Users, target : Users,
                  role : Roles \cup {BadRole}]
RemoveRequest == [kind : {"RemoveMember"}, caller : Users, target : Users]
UpdateRequest == [kind : {"Update"}, caller : Users, name : Names \cup {NoName}]
DeleteRequest == [kind : {"Delete"}, caller : Users]

Request == AddRequest \cup RoleRequest \cup RemoveRequest \cup UpdateRequest
             \cup DeleteRequest

NoRequest == [kind |-> "none"]

Statements ==
  {"FindOrgBySlug", "FindOrgByID", "CountOrgMembers", "FindCaller", "FindTarget",
   "ListOrgMembers", "Write"}

Replies == {"none", "ok", "not found", "invalid", "forbidden", "plan limit", "internal"}

Idle(w) == pc[w] = "idle"

Serving(w, kind, statement) == pc[w] = statement /\ req[w].kind = kind

(* The request would leave its target without the owner role. *)
TakesOwnership(q) ==
  \/ q.kind = "RemoveMember"
  \/ q.kind = "UpdateMemberRole" /\ q.role # "owner"

Proceed(w, statement) ==
  /\ pc' = [pc EXCEPT ![w] = statement]
  /\ UNCHANGED <<org, members, req, reply, overlapped>>

(* The worker answers and forgets the request. *)
Answered(w, code) ==
  /\ pc'    = [pc EXCEPT ![w] = "idle"]
  /\ req'   = [req EXCEPT ![w] = NoRequest]
  /\ reply' = [reply EXCEPT ![w] = code]

Refuse(w, code) ==
  /\ Answered(w, code)
  /\ overlapped' = [overlapped EXCEPT ![w] = FALSE]
  /\ UNCHANGED dbVars

-----------------------------------------------------------------------------
Init ==
  /\ Atomic!Init
  /\ pc         = [w \in Workers |-> "idle"]
  /\ req        = [w \in Workers |-> NoRequest]
  /\ reply      = [w \in Workers |-> "none"]
  /\ overlapped = [w \in Workers |-> FALSE]

(* A request arrives.  Service.Delete has no route: its callers hold the   *)
(* organisation's id already and skip the lookup by slug.                  *)
Receive(w, q) ==
  /\ Idle(w)
  /\ q.kind \in Kinds
  /\ req'   = [req EXCEPT ![w] = q]
  /\ reply' = [reply EXCEPT ![w] = "none"]
  /\ pc'    = [pc EXCEPT ![w] = IF q.kind = "Delete" THEN "FindCaller" ELSE "FindOrgBySlug"]
  /\ UNCHANGED <<org, members, overlapped>>

(* requireRole comes first; AddMember has none, and leaving needs none. *)
FirstCheck(q) ==
  CASE q.kind = "AddMember" -> "FindOrgByID"
    [] q.kind = "RemoveMember" /\ q.target = q.caller -> "FindTarget"
    [] OTHER -> "FindCaller"

(* Mutant of FindOrgBySlug: deleted_at IS NULL is forgotten. *)
FindDeletedOrgBySlug(w) ==
  /\ pc[w] = "FindOrgBySlug"
  /\ LET bad == req[w].kind \in {"AddMember", "UpdateMemberRole"}
                  /\ req[w].role \notin validRoles IN
     \/ bad /\ Refuse(w, "invalid")
     \/ ~bad /\ Proceed(w, FirstCheck(req[w]))

(* Service.Get, then what the service method does before its first         *)
(* statement: role validation.                                             *)
FindOrgBySlug(w) ==
  /\ pc[w] = "FindOrgBySlug"
  /\ LET invalid == /\ req[w].kind \in {"AddMember", "UpdateMemberRole"}
                    /\ req[w].role \notin validRoles IN
     \/ ~org.live /\ Refuse(w, "not found")
     \/ org.live /\ invalid /\ Refuse(w, "invalid")
     \/ org.live /\ ~invalid /\ Proceed(w, FirstCheck(req[w]))

(* AddMember reads the organisation again, by id, for its plan and cap.    *)
FindOrgByID(w) ==
  /\ pc[w] = "FindOrgByID"
  /\ \/ ~org.live /\ Refuse(w, "not found")
     \/ org.live /\ Proceed(w, "CountOrgMembers")

(* The count and the limit check on it; the insert comes later. *)
CountOrgMembers(w) ==
  /\ pc[w] = "CountOrgMembers"
  /\ \/ ~RoomFor(Cardinality(Members)) /\ Refuse(w, "plan limit")
     \/ RoomFor(Cardinality(Members)) /\ Proceed(w, "Write")

RequiredRole(q) == IF q.kind = "Delete" THEN "owner" ELSE "admin"

(* Mutant of RequireRole: the caller is looked up, the role not compared. *)
RequireMember(w) ==
  /\ pc[w] = "FindCaller"
  /\ LET q == req[w] IN
     \/ members[q.caller] = NoRow /\ Refuse(w, "forbidden")
     \/ /\ members[q.caller] # NoRow
        /\ q.kind = "Update" /\ q.name = NoName
        /\ Refuse(w, "invalid")
     \/ /\ members[q.caller] # NoRow
        /\ q.kind = "Delete" \/ (q.kind = "Update" /\ q.name # NoName)
        /\ Proceed(w, "Write")
     \/ /\ members[q.caller] # NoRow
        /\ q.kind \in {"UpdateMemberRole", "RemoveMember"}
        /\ Proceed(w, "FindTarget")

(* requireRole on the caller; Update then rejects an empty name. *)
RequireRole(w) ==
  /\ pc[w] = "FindCaller"
  /\ LET q == req[w]
         allowed == AtLeast(q.caller, RequiredRole(q)) IN
     \/ ~allowed /\ Refuse(w, "forbidden")
     \/ /\ allowed
        /\ q.kind = "Update" /\ q.name = NoName
        /\ Refuse(w, "invalid")
     \/ /\ allowed
        /\ q.kind = "Delete" \/ (q.kind = "Update" /\ q.name # NoName)
        /\ Proceed(w, "Write")
     \/ /\ allowed
        /\ q.kind \in {"UpdateMemberRole", "RemoveMember"}
        /\ Proceed(w, "FindTarget")

(* Mutant of FindTarget: the target need not be a member. *)
FindTargetUnasked(w) ==
  /\ pc[w] = "FindTarget"
  /\ LET ownerAtRisk == members[req[w].target] = "owner" /\ TakesOwnership(req[w]) IN
     \/ ownerAtRisk /\ Proceed(w, "ListOrgMembers")
     \/ ~ownerAtRisk /\ Proceed(w, "Write")

(* Mutant of FindTarget: only a removal is checked against other owners. *)
FindTargetToRemove(w) ==
  /\ pc[w] = "FindTarget"
  /\ LET q == req[w]
         ownerAtRisk == members[q.target] = "owner" /\ q.kind = "RemoveMember" IN
     \/ members[q.target] = NoRow /\ Refuse(w, "not found")
     \/ members[q.target] # NoRow /\ ownerAtRisk /\ Proceed(w, "ListOrgMembers")
     \/ members[q.target] # NoRow /\ ~ownerAtRisk /\ Proceed(w, "Write")

(* FindMember on the target: an owner about to lose the role is checked    *)
(* against the other owners, anyone else is written at once.               *)
FindTarget(w) ==
  /\ pc[w] = "FindTarget"
  /\ LET q == req[w]
         ownerAtRisk == members[q.target] = "owner" /\ TakesOwnership(q) IN
     \/ members[q.target] = NoRow /\ Refuse(w, "not found")
     \/ members[q.target] # NoRow /\ ownerAtRisk /\ Proceed(w, "ListOrgMembers")
     \/ members[q.target] # NoRow /\ ~ownerAtRisk /\ Proceed(w, "Write")

(* Mutant of EnsureNotLastOwner: < for <=. *)
EnsureSomeOwner(w) ==
  /\ pc[w] = "ListOrgMembers"
  /\ \/ Cardinality(Owners) < 1 /\ Refuse(w, "invalid")
     \/ Cardinality(Owners) >= 1 /\ Proceed(w, "Write")

(* ensureNotLastOwner: counts owners, whoever they are. *)
EnsureNotLastOwner(w) ==
  /\ pc[w] = "ListOrgMembers"
  /\ \/ Cardinality(Owners) <= 1 /\ Refuse(w, "invalid")
     \/ Cardinality(Owners) > 1 /\ Proceed(w, "Write")

-----------------------------------------------------------------------------
(* The writing statements.  A statement that was executed may still be     *)
(* answered with an error: the connection or the client is gone.           *)

Commit(w, codes) ==
  /\ \E code \in codes : Answered(w, code)
  /\ overlapped' = [v \in Workers |->
                      /\ v # w
                      /\ \/ overlapped[v]
                         \/ ~Idle(v) /\ dbVars' # dbVars]

(* INSERT ... ON CONFLICT DO NOTHING *)
AddOrgMember(w) ==
  /\ Serving(w, "AddMember", "Write")
  /\ members' = IF members[req[w].target] = NoRow
                THEN [members EXCEPT ![req[w].target] = req[w].role]
                ELSE members
  /\ org' = org
  /\ Commit(w, {"ok", "internal"})

(* UPDATE ... WHERE org_id AND user_id: no row, no change, no error. *)
UpdateOrgMemberRole(w) ==
  /\ Serving(w, "UpdateMemberRole", "Write")
  /\ members' = IF members[req[w].target] # NoRow
                THEN [members EXCEPT ![req[w].target] = req[w].role]
                ELSE members
  /\ org' = org
  /\ Commit(w, {"ok", "internal"})

RemoveOrgMember(w) ==
  /\ Serving(w, "RemoveMember", "Write")
  /\ members' = [members EXCEPT ![req[w].target] = NoRow]
  /\ org' = org
  /\ Commit(w, {"ok", "internal"})

(* UPDATE ... WHERE deleted_at IS NULL RETURNING: without a row to return  *)
(* the statement fails, and the failure is not mapped to "not found".      *)
UpdateOrg(w) ==
  /\ Serving(w, "Update", "Write")
  /\ org' = IF org.live THEN [org EXCEPT !.name = req[w].name] ELSE org
  /\ members' = members
  /\ Commit(w, IF org.live THEN {"ok", "internal"} ELSE {"internal"})

SoftDeleteOrg(w) ==
  /\ Serving(w, "Delete", "Write")
  /\ org' = [org EXCEPT !.live = FALSE]
  /\ members' = members
  /\ Commit(w, {"ok", "internal"})

(* A statement fails, the request's context is cancelled, or the process   *)
(* dies under the request: nothing of it is undone and nothing follows.    *)
Fail(w) == ~Idle(w) /\ Refuse(w, "internal")

Step(w) ==
  \/ FindOrgBySlug(w)
  \/ FindOrgByID(w)
  \/ CountOrgMembers(w)
  \/ RequireRole(w)
  \/ FindTarget(w)
  \/ EnsureNotLastOwner(w)
  \/ AddOrgMember(w)
  \/ UpdateOrgMemberRole(w)
  \/ RemoveOrgMember(w)
  \/ UpdateOrg(w)
  \/ SoftDeleteOrg(w)

Next == \E w \in Workers :
  \/ \E q \in Request : Receive(w, q)
  \/ Step(w)
  \/ Fail(w)

Spec == Init /\ [][Next]_vars

-----------------------------------------------------------------------------
(* Properties *)

(* Which requests can be about to issue which statement.                   *)
Stage(w) ==
  /\ req[w] \in Request
  /\ pc[w] \in {"FindOrgByID", "CountOrgMembers"} => req[w].kind = "AddMember"
  /\ pc[w] = "FindCaller" => req[w].kind # "AddMember"
  /\ pc[w] \in {"FindTarget", "ListOrgMembers"} => req[w].kind \in {"UpdateMemberRole", "RemoveMember"}
  /\ pc[w] = "ListOrgMembers" => TakesOwnership(req[w])
  /\ pc[w] # "FindOrgBySlug" /\ req[w].kind \in {"AddMember", "UpdateMemberRole"}
       => req[w].role \in Roles
  /\ pc[w] = "Write" /\ req[w].kind = "Update" => req[w].name \in Names

(* Every variable keeps its type: the statement a worker is at fits its    *)
(* request, an idle worker has none.                                       *)
TypeOK ==
  /\ org \in [live : BOOLEAN, name : Names]
  /\ members \in [Users -> Roles \cup {NoRow}]
  /\ pc \in [Workers -> Statements \cup {"idle"}]
  /\ req \in [Workers -> Request \cup {NoRequest}]
  /\ reply \in [Workers -> Replies]
  /\ overlapped \in [Workers -> BOOLEAN]
  /\ \A w \in Workers : IF Idle(w) THEN req[w] = NoRequest /\ ~overlapped[w] ELSE Stage(w)

(* The organisation was found: every request but Delete looks it up.       *)
OrgChecked(w) == pc[w] # "FindOrgBySlug" /\ req[w].kind # "Delete"

(* The caller passed requireRole. *)
CallerChecked(w) ==
  /\ pc[w] \in {"FindTarget", "ListOrgMembers", "Write"}
  /\ req[w].kind # "AddMember"
  /\ req[w].kind = "RemoveMember" => req[w].target # req[w].caller

(* The target was found to be a member. *)
TargetChecked(w) ==
  /\ pc[w] \in {"ListOrgMembers", "Write"}
  /\ req[w].kind \in {"UpdateMemberRole", "RemoveMember"}

(* What a request has checked is still so when it writes, unless another   *)
(* request's write came in between: org live (service Get), caller's role  *)
(* (requireRole), target a member and, if it is to lose ownership, not the *)
(* last owner (ensureNotLastOwner), room under the cap (AddMember).        *)
ChecksHold(w) ==
  /\ OrgChecked(w) => org.live
  /\ CallerChecked(w) => AtLeast(req[w].caller, RequiredRole(req[w]))
  /\ TargetChecked(w) => members[req[w].target] # NoRow
  /\ Serving(w, "AddMember", "Write") => RoomFor(Cardinality(Members))
  /\ /\ TargetChecked(w)
     /\ pc[w] = "Write"
     /\ TakesOwnership(req[w])
     => Atomic!NotLastOwner(req[w].target)

ChecksHoldUnlessOverlapped ==
  \A w \in Workers : ~Idle(w) /\ ~overlapped[w] => ChecksHold(w)

(* A write no other write overlapped is a step of the atomic service: the  *)
(* check-then-write requests of service_impl.go are correct one by one.    *)
UnoverlappedWritesAreAtomic ==
  [][\A w \in Workers :
       pc[w] = "Write" /\ pc'[w] = "idle" /\ ~overlapped[w] => [Atomic!Next]_dbVars]_vars

(* An organisation that has an owner loses its last one only to a request  *)
(* that was overlapped by another's write after its own checks began       *)
(* (ensureNotLastOwner, service_impl.go:128).                              *)
LockoutNeedsOverlap ==
  [][Owners # {} /\ Owners' = {} =>
       \E w \in Workers : pc[w] = "Write" /\ pc'[w] = "idle" /\ overlapped[w]]_vars

(* The soft-deleted organisation's members and name change only by requests *)
(* that were under way when it was deleted (FindOrgBySlug hides it).       *)
DeletedOrgOnlyFinishes ==
  [][~org.live /\ dbVars' # dbVars =>
       \E w \in Workers : pc[w] = "Write" /\ pc'[w] = "idle" /\ overlapped[w]]_vars

(* Requests counted but not inserted yet. *)
Inserting == {w \in Workers : Serving(w, "AddMember", "Write")}

(* AddMember counts in one statement and inserts in another, so concurrent *)
(* requests can pass the cap (limits.go:34), but by no more than the other *)
(* requests that may be in flight: one worker alone never exceeds it.      *)
OvershootBounded ==
  Capped => Cardinality(Members) + Cardinality(Inserting) <= Cap - 1 + Cardinality(Workers)

(* UPDATE and DELETE do not say whether they found a row, yet the service  *)
(* answers 204: a change of role acknowledged to a request nothing         *)
(* overlapped did take effect.                                             *)
AcknowledgedRoleChangeHolds ==
  [][\A w \in Workers :
       /\ Serving(w, "UpdateMemberRole", "Write")
       /\ reply'[w] = "ok"
       /\ ~overlapped[w]
       => members'[req[w].target] = req[w].role]_vars

(* One request at a time, the service is the atomic service. *)
ImplementsAtomic == Atomic!Spec

(* features/102-rbac/README.md:297: the last owner cannot go. *)
OwnersKept == [][Owners # {} => Owners' # {}]_members

(* limits.go:34: adding a member does not exceed the cap. *)
CapRespected == Capped => Cardinality(Members) <= Cap
=============================================================================
