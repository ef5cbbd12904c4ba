------------------------- MODULE OrgMembershipProofs ------------------------
(***************************************************************************)
(* Proofs about OrgMembership, for any sets of users, names and workers,   *)
(* any plan and any max_members.                                           *)
(***************************************************************************)
EXTENDS OrgMembership, FiniteSetTheorems, TLAPS

(* The fields a request of each kind has. *)
LEMMA RequestFields ==
  ASSUME NEW q \in Request
  PROVE  /\ q.kind \in {"AddMember", "UpdateMemberRole", "RemoveMember", "Update", "Delete"}
         /\ q.kind \in {"AddMember", "UpdateMemberRole"} => q.role \in Roles \cup {BadRole}
         /\ q.kind \in {"AddMember", "UpdateMemberRole", "RemoveMember"} => q.target \in Users
         /\ q.kind # "AddMember" => q.caller \in Users
         /\ q.kind = "Update" => q.name \in Names \cup {NoName}
  BY DEF Request, AddRequest, RoleRequest, RemoveRequest, UpdateRequest, DeleteRequest

LEMMA ValidRoleArguments ==
  ASSUME NEW role \in Roles \cup {BadRole}, role \in validRoles
  PROVE  role \in Roles
  BY DEF validRoles, BadRole

LEMMA NoRequestIsNotARequest == NoRequest.kind = "none" /\ NoRequest \notin Request
  BY RequestFields DEF NoRequest

-----------------------------------------------------------------------------
(* Type correctness *)

LEMMA InitType == Init => TypeOK
<1> SUFFICES ASSUME Init
             PROVE  TypeOK
  OBVIOUS
<1>1. org \in [live : BOOLEAN, name : Names] /\ members \in [Users -> Roles \cup {NoRow}]
  <2>1. org \in [live : {TRUE}, name : Names] /\ members \in [Users -> Roles \cup {Atomic!NoRow}]
    BY DEF Init, Atomic!Init
  <2>2. Atomic!NoRow = NoRow
    BY DEF NoRow, Atomic!NoRow
  <2>3. QED
    BY <2>1, <2>2
<1>2. /\ pc \in [Workers -> Statements \cup {"idle"}]
      /\ req \in [Workers -> Request \cup {NoRequest}]
      /\ reply \in [Workers -> Replies]
      /\ overlapped \in [Workers -> BOOLEAN]
  BY DEF Init, Replies
<1>3. \A w \in Workers : Idle(w) /\ req[w] = NoRequest /\ ~overlapped[w]
  BY DEF Init, Idle
<1>4. QED
  BY <1>1, <1>2, <1>3 DEF TypeOK

(* The three ways a step ends: the worker answers without writing, goes on *)
(* to its next statement, or answers after a write.                        *)
LEMMA RefuseType ==
  ASSUME TypeOK, NEW w \in Workers, NEW code \in Replies, Refuse(w, code)
  PROVE  TypeOK'
  BY DEF TypeOK, Refuse, Answered, dbVars, Idle, Stage

LEMMA ProceedType ==
  ASSUME TypeOK, NEW w \in Workers, NEW s \in Statements, Proceed(w, s), Stage(w)'
  PROVE  TypeOK'
<1>1. s # "idle"
  BY DEF Statements
<1>2. ASSUME NEW v \in Workers
      PROVE  (IF Idle(v) THEN req[v] = NoRequest /\ ~overlapped[v] ELSE Stage(v))'
  <2>1. CASE v = w
    BY <1>1, <2>1 DEF TypeOK, Proceed, Idle
  <2>2. CASE v # w
    BY <2>2 DEF TypeOK, Proceed, Idle, Stage
  <2>3. QED
    BY <2>1, <2>2
<1>3. QED
  BY <1>1, <1>2 DEF TypeOK, Proceed

LEMMA CommitType ==
  ASSUME TypeOK, NEW w \in Workers, NEW codes \in SUBSET Replies, Commit(w, codes),
         org' \in [live : BOOLEAN, name : Names],
         members' \in [Users -> Roles \cup {NoRow}]
  PROVE  TypeOK'
  BY DEF TypeOK, Commit, Answered, Idle, Stage

LEMMA ReceiveType ==
  ASSUME TypeOK, NEW w \in Workers, NEW q \in Request, Receive(w, q)
  PROVE  TypeOK'
<1>1. pc'[w] \in {"FindCaller", "FindOrgBySlug"} /\ req'[w] = q
  BY DEF Receive, TypeOK
<1>2. pc'[w] = "FindCaller" => q.kind = "Delete"
  BY DEF Receive, TypeOK
<1>3. Stage(w)'
  BY <1>1, <1>2 DEF Stage
<1>4. ASSUME NEW v \in Workers
      PROVE  (IF Idle(v) THEN req[v] = NoRequest /\ ~overlapped[v] ELSE Stage(v))'
  <2>1. CASE v = w
    BY <1>1, <1>3, <2>1 DEF Idle
  <2>2. CASE v # w
    BY <2>2 DEF TypeOK, Receive, Idle, Stage
  <2>3. QED
    BY <2>1, <2>2
<1>5. QED
  BY <1>4 DEF TypeOK, Receive, Statements, Replies

-----------------------------------------------------------------------------
(* The reading statements.  Each refuses, or goes on to a statement that   *)
(* fits the request, keeping the checks already made and adding its own.   *)

Reads(w) ==
  \/ FindOrgBySlug(w) \/ FindOrgByID(w) \/ CountOrgMembers(w)
  \/ RequireRole(w) \/ FindTarget(w) \/ EnsureNotLastOwner(w)

Advance(w) ==
  \E s \in Statements : Proceed(w, s) /\ Stage(w)' /\ (ChecksHold(w) => ChecksHold(w)')

ReadOutcome(w) == Advance(w) \/ \E code \in Replies : Refuse(w, code)

LEMMA ProceedKeeps ==
  ASSUME TypeOK, NEW w \in Workers, NEW s \in Statements, Proceed(w, s)
  PROVE  /\ pc'[w] = s /\ req'[w] = req[w]
         /\ org' = org /\ members' = members
         /\ Members' = Members
         /\ \A c, role : AtLeast(c, role)' <=> AtLeast(c, role)
         /\ \A t : Atomic!NotLastOwner(t)' <=> Atomic!NotLastOwner(t)
  BY DEF TypeOK, Proceed, Members, Atomic!Members, AtLeast, Atomic!AtLeast,
         Atomic!NotLastOwner

LEMMA FindOrgBySlugReads ==
  ASSUME TypeOK, NEW w \in Workers, FindOrgBySlug(w)
  PROVE  ReadOutcome(w)
<1>1. Stage(w) /\ req[w] \in Request
  BY DEF TypeOK, FindOrgBySlug, Idle, Stage
<1>2. CASE \E code \in Replies : Refuse(w, code)
  BY <1>2 DEF ReadOutcome
<1>3. CASE ~\E code \in Replies : Refuse(w, code)
  <2> DEFINE s == FirstCheck(req[w])
  <2>0. /\ s \in {"FindOrgByID", "FindTarget", "FindCaller"}
        /\ s = "FindOrgByID" <=> req[w].kind = "AddMember"
        /\ s = "FindTarget" => req[w].kind = "RemoveMember" /\ req[w].target = req[w].caller
    BY DEF FirstCheck
  <2>1. /\ org.live
        /\ Proceed(w, s)
        /\ req[w].kind \in {"AddMember", "UpdateMemberRole"} => req[w].role \in validRoles
    BY <1>3 DEF FindOrgBySlug, Replies
  <2> HIDE DEF s
  <2>2. s \in Statements
    BY <2>0 DEF Statements
  <2>3. Stage(w)'
    BY <1>1, <2>0, <2>1, <2>2, ProceedKeeps, RequestFields, ValidRoleArguments DEF Stage
  <2>4. ChecksHold(w)'
    BY <1>1, <2>0, <2>1, <2>2, ProceedKeeps, RequestFields
    DEF ChecksHold, OrgChecked, CallerChecked, TargetChecked, Serving
  <2>5. QED
    BY <2>1, <2>2, <2>3, <2>4 DEF ReadOutcome, Advance
<1>4. QED
  BY <1>2, <1>3

LEMMA FindOrgByIDReads ==
  ASSUME TypeOK, NEW w \in Workers, FindOrgByID(w)
  PROVE  ReadOutcome(w)
<1>1. Stage(w) /\ req[w] \in Request /\ req[w].kind = "AddMember" /\ req[w].role \in Roles
  BY DEF TypeOK, FindOrgByID, Idle, Stage
<1>2. CASE Refuse(w, "not found")
  BY <1>2 DEF ReadOutcome, Replies
<1>3. CASE org.live /\ Proceed(w, "CountOrgMembers")
  <2>1. "CountOrgMembers" \in Statements
    BY DEF Statements
  <2>2. Stage(w)'
    BY <1>1, <1>3, <2>1, ProceedKeeps DEF Stage
  <2>3. ChecksHold(w)'
    BY <1>1, <1>3, <2>1, ProceedKeeps
    DEF ChecksHold, OrgChecked, CallerChecked, TargetChecked, Serving
  <2>4. QED
    BY <1>3, <2>1, <2>2, <2>3 DEF ReadOutcome, Advance
<1>4. QED
  BY <1>2, <1>3 DEF FindOrgByID

LEMMA CountOrgMembersReads ==
  ASSUME TypeOK, NEW w \in Workers, CountOrgMembers(w)
  PROVE  ReadOutcome(w)
<1>1. Stage(w) /\ req[w] \in Request /\ req[w].kind = "AddMember" /\ req[w].role \in Roles
      /\ pc[w] = "CountOrgMembers"
  BY DEF TypeOK, CountOrgMembers, Idle, Stage
<1>2. CASE Refuse(w, "plan limit")
  BY <1>2 DEF ReadOutcome, Replies
<1>3. CASE RoomFor(Cardinality(Members)) /\ Proceed(w, "Write")
  <2>1. "Write" \in Statements
    BY DEF Statements
  <2>2. Stage(w)'
    BY <1>1, <1>3, <2>1, ProceedKeeps DEF Stage
  <2>3. Members' = Members
    BY <1>3, <2>1, ProceedKeeps
  <2>4. RoomFor(Cardinality(Members))'
    BY <1>3, <2>3 DEF RoomFor, CheckMemberLimit, LimitsFor
  <2>5. ChecksHold(w) => ChecksHold(w)'
    BY <1>1, <1>3, <2>1, <2>4, ProceedKeeps
    DEF ChecksHold, OrgChecked, CallerChecked, TargetChecked, Serving
  <2>6. QED
    BY <1>3, <2>1, <2>2, <2>5 DEF ReadOutcome, Advance
<1>4. QED
  BY <1>2, <1>3 DEF CountOrgMembers

LEMMA RequireRoleReads ==
  ASSUME TypeOK, NEW w \in Workers, RequireRole(w)
  PROVE  ReadOutcome(w)
<1>1. Stage(w) /\ req[w] \in Request /\ pc[w] = "FindCaller" /\ req[w].kind # "AddMember"
  BY DEF TypeOK, RequireRole, Idle, Stage
<1>2. CASE \E code \in Replies : Refuse(w, code)
  BY <1>2 DEF ReadOutcome
<1>3. CASE ~\E code \in Replies : Refuse(w, code)
  <2>1. PICK s \in {"Write", "FindTarget"} :
             /\ AtLeast(req[w].caller, RequiredRole(req[w]))
             /\ Proceed(w, s)
             /\ s = "FindTarget" => req[w].kind \in {"UpdateMemberRole", "RemoveMember"}
             /\ s = "Write" => \/ req[w].kind = "Delete"
                               \/ req[w].kind = "Update" /\ req[w].name # NoName
    BY <1>3 DEF RequireRole, Replies
  <2>2. s \in Statements
    BY DEF Statements
  <2>3. Stage(w)'
    BY <1>1, <2>1, <2>2, ProceedKeeps, RequestFields DEF Stage
  <2>4. ChecksHold(w) => ChecksHold(w)'
    BY <1>1, <2>1, <2>2, ProceedKeeps, RequestFields
    DEF ChecksHold, OrgChecked, CallerChecked, TargetChecked, Serving, RequiredRole
  <2>5. QED
    BY <2>1, <2>2, <2>3, <2>4 DEF ReadOutcome, Advance
<1>4. QED
  BY <1>2, <1>3

LEMMA FindTargetReads ==
  ASSUME TypeOK, NEW w \in Workers, FindTarget(w)
  PROVE  ReadOutcome(w)
<1>1. Stage(w) /\ req[w] \in Request /\ pc[w] = "FindTarget"
      /\ req[w].kind \in {"UpdateMemberRole", "RemoveMember"}
  BY DEF TypeOK, FindTarget, Idle, Stage
<1>2. CASE Refuse(w, "not found")
  BY <1>2 DEF ReadOutcome, Replies
<1>3. CASE ~Refuse(w, "not found")
  <2>1. PICK s \in {"Write", "ListOrgMembers"} :
             /\ members[req[w].target] # NoRow
             /\ Proceed(w, s)
             /\ s = "ListOrgMembers" => TakesOwnership(req[w])
             /\ s = "Write" => ~(members[req[w].target] = "owner" /\ TakesOwnership(req[w]))
    BY <1>3 DEF FindTarget
  <2>2. s \in Statements
    BY DEF Statements
  <2>3. Stage(w)'
    BY <1>1, <2>1, <2>2, ProceedKeeps, RequestFields DEF Stage, TakesOwnership
  <2>4. ChecksHold(w) => ChecksHold(w)'
    <3>1. pc'[w] = "Write" /\ TakesOwnership(req[w]) => Atomic!NotLastOwner(req[w].target)
      BY <2>1, <2>2, ProceedKeeps DEF Atomic!NotLastOwner
    <3>2. QED
      BY <1>1, <2>1, <2>2, <3>1, ProceedKeeps, RequestFields
      DEF ChecksHold, OrgChecked, CallerChecked, TargetChecked, Serving, RequiredRole,
          TakesOwnership
  <2>5. QED
    BY <2>1, <2>2, <2>3, <2>4 DEF ReadOutcome, Advance
<1>4. QED
  BY <1>2, <1>3

(* Two owners are enough for everyone not to be the last one. *)
LEMMA TwoOwners ==
  ASSUME TypeOK, Cardinality(Owners) > 1, NEW t
  PROVE  Atomic!NotLastOwner(t)
<1>1. Owners \subseteq Users /\ IsFiniteSet(Owners)
  BY SetsAssumption, FS_Subset DEF Owners, Atomic!Owners
<1>2. ~(Owners \subseteq {t})
  <2>1. SUFFICES ASSUME Owners \subseteq {t}
                 PROVE  FALSE
    OBVIOUS
  <2>2. IsFiniteSet({t}) /\ Cardinality({t}) = 1
    BY FS_Singleton
  <2>3. Cardinality(Owners) <= 1
    BY <2>1, <2>2, FS_Subset
  <2>4. Cardinality(Owners) \in Nat
    BY <1>1, FS_CardinalityType
  <2>5. QED
    BY <2>3, <2>4
<1>3. PICK u \in Owners : u # t
  BY <1>2
<1>4. QED
  BY <1>1, <1>3 DEF Owners, Atomic!Owners, Atomic!NotLastOwner

LEMMA EnsureNotLastOwnerReads ==
  ASSUME TypeOK, NEW w \in Workers, EnsureNotLastOwner(w)
  PROVE  ReadOutcome(w)
<1>1. Stage(w) /\ req[w] \in Request /\ pc[w] = "ListOrgMembers"
      /\ req[w].kind \in {"UpdateMemberRole", "RemoveMember"}
  BY DEF TypeOK, EnsureNotLastOwner, Idle, Stage
<1>2. CASE Refuse(w, "invalid")
  BY <1>2 DEF ReadOutcome, Replies
<1>3. CASE Cardinality(Owners) > 1 /\ Proceed(w, "Write")
  <2>1. "Write" \in Statements
    BY DEF Statements
  <2>2. Stage(w)'
    BY <1>1, <1>3, <2>1, ProceedKeeps, RequestFields DEF Stage
  <2>3. Atomic!NotLastOwner(req[w].target)
    BY <1>3, TwoOwners
  <2>4. ChecksHold(w) => ChecksHold(w)'
    BY <1>1, <1>3, <2>1, <2>3, ProceedKeeps, RequestFields
    DEF ChecksHold, OrgChecked, CallerChecked, TargetChecked, Serving, RequiredRole,
        TakesOwnership
  <2>5. QED
    BY <1>3, <2>1, <2>2, <2>4 DEF ReadOutcome, Advance
<1>4. QED
  BY <1>2, <1>3 DEF EnsureNotLastOwner

LEMMA ReadsOutcome ==
  ASSUME TypeOK, NEW w \in Workers, Reads(w)
  PROVE  ReadOutcome(w)
  BY FindOrgBySlugReads, FindOrgByIDReads, CountOrgMembersReads, RequireRoleReads,
     FindTargetReads, EnsureNotLastOwnerReads
  DEF Reads

-----------------------------------------------------------------------------
(* The writing statements.  Each ends the request and, when the checks it  *)
(* rests on still hold, is a step of the atomic service.                   *)

Writes(w) ==
  \/ AddOrgMember(w) \/ UpdateOrgMemberRole(w) \/ RemoveOrgMember(w)
  \/ UpdateOrg(w) \/ SoftDeleteOrg(w)

(* OrgAtomic brings FiniteSets in through its instance. *)
LEMMA SameCardinality == \A S : Atomic!Cardinality(S) = Cardinality(S)
  BY DEF Cardinality, Atomic!Cardinality

LEMMA WriteOutcome ==
  ASSUME TypeOK, NEW w \in Workers, Writes(w)
  PROVE  /\ pc[w] = "Write"
         /\ \E codes \in SUBSET Replies : Commit(w, codes)
         /\ org' \in [live : BOOLEAN, name : Names]
         /\ members' \in [Users -> Roles \cup {NoRow}]
         /\ ChecksHold(w) => [Atomic!Next]_dbVars
<1>1. pc[w] = "Write" /\ Stage(w) /\ req[w] \in Request
  BY DEF TypeOK, Writes, AddOrgMember, UpdateOrgMemberRole, RemoveOrgMember, UpdateOrg,
         SoftDeleteOrg, Serving, Idle, Stage
<1>2. {"ok", "internal"} \in SUBSET Replies /\ {"internal"} \in SUBSET Replies
  BY DEF Replies
<1> USE DEF ChecksHold, OrgChecked, CallerChecked, TargetChecked, RequiredRole, Serving,
            TakesOwnership
<1>3. CASE AddOrgMember(w)
  <2>1. req[w].kind = "AddMember" /\ req[w].target \in Users /\ req[w].role \in Roles
    BY <1>1, <1>3, RequestFields DEF AddOrgMember, Stage
  <2>2. org' = org /\ members' \in [Users -> Roles \cup {NoRow}]
    BY <1>3, <2>1 DEF AddOrgMember, TypeOK
  <2>3. ASSUME ChecksHold(w), dbVars' # dbVars
        PROVE  Atomic!Admit(req[w].target, req[w].role)
    <3>1. RoomFor(Cardinality(Members)) /\ org.live
      BY <1>1, <2>1, <2>3
    <3>2. Atomic!RoomFor(Atomic!Cardinality(Atomic!Members))
      BY <3>1, SameCardinality
      DEF Members, RoomFor, Atomic!RoomFor, CheckMemberLimit, Atomic!CheckMemberLimit,
          LimitsFor, Atomic!LimitsFor, planLimits, Atomic!planLimits
    <3>3. members[req[w].target] = NoRow
      BY <1>3, <2>2, <2>3 DEF AddOrgMember, dbVars
    <3>4. QED
      BY <1>3, <3>1, <3>2, <3>3 DEF AddOrgMember, Atomic!Admit, NoRow
  <2>4. ChecksHold(w) => [Atomic!Next]_dbVars
    BY <2>1, <2>3 DEF Atomic!Next
  <2>5. QED
    BY <1>1, <1>2, <1>3, <2>2, <2>4 DEF AddOrgMember, TypeOK
<1>4. CASE UpdateOrgMemberRole(w)
  <2>1. /\ req[w].kind = "UpdateMemberRole" /\ req[w].target \in Users
        /\ req[w].caller \in Users /\ req[w].role \in Roles
    BY <1>1, <1>4, RequestFields DEF UpdateOrgMemberRole, Stage
  <2>2. org' = org /\ members' \in [Users -> Roles \cup {NoRow}]
    BY <1>4, <2>1 DEF UpdateOrgMemberRole, TypeOK
  <2>3. ASSUME ChecksHold(w)
        PROVE  Atomic!Reassign(req[w].caller, req[w].target, req[w].role)
    BY <1>1, <1>4, <2>1, <2>3 DEF UpdateOrgMemberRole, Atomic!Reassign, NoRow, AtLeast
  <2>4. ChecksHold(w) => [Atomic!Next]_dbVars
    BY <2>1, <2>3 DEF Atomic!Next
  <2>5. QED
    BY <1>1, <1>2, <1>4, <2>2, <2>4 DEF UpdateOrgMemberRole, TypeOK
<1>5. CASE RemoveOrgMember(w)
  <2>1. req[w].kind = "RemoveMember" /\ req[w].target \in Users /\ req[w].caller \in Users
    BY <1>1, <1>5, RequestFields DEF RemoveOrgMember
  <2>2. org' = org /\ members' \in [Users -> Roles \cup {NoRow}]
    BY <1>5, <2>1 DEF RemoveOrgMember, TypeOK
  <2>3. ASSUME ChecksHold(w)
        PROVE  Atomic!Expel(req[w].caller, req[w].target)
    BY <1>1, <1>5, <2>1, <2>3 DEF RemoveOrgMember, Atomic!Expel, NoRow, AtLeast
  <2>4. ChecksHold(w) => [Atomic!Next]_dbVars
    BY <2>1, <2>3 DEF Atomic!Next
  <2>5. QED
    BY <1>1, <1>2, <1>5, <2>2, <2>4 DEF RemoveOrgMember, TypeOK
<1>6. CASE UpdateOrg(w)
  <2>1. req[w].kind = "Update" /\ req[w].caller \in Users /\ req[w].name \in Names
    BY <1>1, <1>6, RequestFields DEF UpdateOrg, Stage
  <2>2. org' \in [live : BOOLEAN, name : Names] /\ members' = members
    BY <1>6, <2>1 DEF UpdateOrg, TypeOK
  <2>3. ASSUME ChecksHold(w)
        PROVE  Atomic!Rename(req[w].caller, req[w].name)
    BY <1>1, <1>6, <2>1, <2>3 DEF UpdateOrg, Atomic!Rename, AtLeast
  <2>4. ChecksHold(w) => [Atomic!Next]_dbVars
    BY <2>1, <2>3 DEF Atomic!Next
  <2>5. \E codes \in SUBSET Replies : Commit(w, codes)
    BY <1>2, <1>6 DEF UpdateOrg
  <2>6. QED
    BY <1>1, <2>2, <2>4, <2>5 DEF TypeOK
<1>7. CASE SoftDeleteOrg(w)
  <2>1. req[w].kind = "Delete" /\ req[w].caller \in Users
    BY <1>1, <1>7, RequestFields DEF SoftDeleteOrg
  <2>2. org' \in [live : BOOLEAN, name : Names] /\ members' = members
    BY <1>7 DEF SoftDeleteOrg, TypeOK
  <2>3. ASSUME ChecksHold(w)
        PROVE  Atomic!Dissolve(req[w].caller)
    BY <1>1, <1>7, <2>1, <2>3 DEF SoftDeleteOrg, Atomic!Dissolve, AtLeast
  <2>4. ChecksHold(w) => [Atomic!Next]_dbVars
    BY <2>1, <2>3 DEF Atomic!Next
  <2>5. QED
    BY <1>1, <1>2, <1>7, <2>2, <2>4 DEF SoftDeleteOrg, TypeOK
<1>8. QED
  BY <1>3, <1>4, <1>5, <1>6, <1>7 DEF Writes

-----------------------------------------------------------------------------

LEMMA NextCases ==
  ASSUME Next
  PROVE  \E w \in Workers :
           \/ \E q \in Request : Receive(w, q)
           \/ Reads(w)
           \/ Writes(w)
           \/ Fail(w)
  BY DEF Next, Step, Reads, Writes

LEMMA NextType == TypeOK /\ [Next]_vars => TypeOK'
<1> SUFFICES ASSUME TypeOK, [Next]_vars
             PROVE  TypeOK'
  OBVIOUS
<1>1. CASE UNCHANGED vars
  BY <1>1 DEF TypeOK, vars, Idle, Stage
<1>2. ASSUME NEW w \in Workers, NEW q \in Request, Receive(w, q)
      PROVE  TypeOK'
  BY <1>2, ReceiveType
<1>3. ASSUME NEW w \in Workers, Reads(w)
      PROVE  TypeOK'
  BY <1>3, ReadsOutcome, RefuseType, ProceedType DEF ReadOutcome, Advance
<1>4. ASSUME NEW w \in Workers, Writes(w)
      PROVE  TypeOK'
  BY <1>4, WriteOutcome, CommitType
<1>5. ASSUME NEW w \in Workers, Fail(w)
      PROVE  TypeOK'
  BY <1>5, RefuseType DEF Fail, Replies
<1>6. QED
  BY <1>1, <1>2, <1>3, <1>4, <1>5, NextCases

(* Every variable keeps its type, and the statement a worker is at fits    *)
(* its request, in every reachable state.                                  *)
THEOREM TypeCorrect == Spec => []TypeOK
<1>1. Init => TypeOK
  BY InitType
<1>2. TypeOK /\ [Next]_vars => TypeOK'
  BY NextType
<1>3. QED
  BY <1>1, <1>2, PTL DEF Spec

-----------------------------------------------------------------------------
(* Checks hold until another request writes *)

LEMMA ChecksHoldElsewhere ==
  ASSUME TypeOK, NEW v \in Workers, ChecksHold(v),
         pc'[v] = pc[v], req'[v] = req[v], dbVars' = dbVars
  PROVE  ChecksHold(v)'
<1>1. org' = org /\ members' = members
  BY DEF dbVars
<1>2. Members' = Members
  BY <1>1 DEF Members, Atomic!Members
<1>3. RoomFor(Cardinality(Members)) => RoomFor(Cardinality(Members))'
  BY <1>2 DEF RoomFor, CheckMemberLimit, LimitsFor
<1>4. QED
  BY <1>1, <1>3
  DEF ChecksHold, OrgChecked, CallerChecked, TargetChecked, Serving, RequiredRole,
      TakesOwnership, AtLeast, Atomic!AtLeast, Atomic!NotLastOwner

LEMMA RefuseChecks ==
  ASSUME TypeOK, ChecksHoldUnlessOverlapped, NEW w \in Workers, NEW code, Refuse(w, code)
  PROVE  ChecksHoldUnlessOverlapped'
<1> SUFFICES ASSUME NEW v \in Workers, ~Idle(v)', ~overlapped'[v]
             PROVE  ChecksHold(v)'
  BY DEF ChecksHoldUnlessOverlapped
<1>1. v # w
  BY DEF Refuse, Answered, TypeOK, Idle
<1>2. /\ pc'[v] = pc[v] /\ req'[v] = req[v] /\ dbVars' = dbVars
      /\ ~Idle(v) /\ ~overlapped[v]
  BY <1>1 DEF Refuse, Answered, TypeOK, Idle
<1>3. QED
  BY <1>2, ChecksHoldElsewhere DEF ChecksHoldUnlessOverlapped

LEMMA AdvanceChecks ==
  ASSUME TypeOK, ChecksHoldUnlessOverlapped, NEW w \in Workers, ~Idle(w), Advance(w)
  PROVE  ChecksHoldUnlessOverlapped'
<1> SUFFICES ASSUME NEW v \in Workers, ~Idle(v)', ~overlapped'[v]
             PROVE  ChecksHold(v)'
  BY DEF ChecksHoldUnlessOverlapped
<1>1. PICK s \in Statements : Proceed(w, s) /\ (ChecksHold(w) => ChecksHold(w)')
  BY DEF Advance
<1>2. CASE v = w
  BY <1>1, <1>2 DEF Proceed, ChecksHoldUnlessOverlapped
<1>3. CASE v # w
  <2>1. /\ pc'[v] = pc[v] /\ req'[v] = req[v] /\ dbVars' = dbVars
        /\ ~Idle(v) /\ ~overlapped[v]
    BY <1>1, <1>3 DEF Proceed, TypeOK, Idle, dbVars
  <2>2. QED
    BY <2>1, ChecksHoldElsewhere DEF ChecksHoldUnlessOverlapped
<1>4. QED
  BY <1>2, <1>3

LEMMA ReceiveChecks ==
  ASSUME TypeOK, ChecksHoldUnlessOverlapped, NEW w \in Workers, NEW q \in Request,
         Receive(w, q)
  PROVE  ChecksHoldUnlessOverlapped'
<1> SUFFICES ASSUME NEW v \in Workers, ~Idle(v)', ~overlapped'[v]
             PROVE  ChecksHold(v)'
  BY DEF ChecksHoldUnlessOverlapped
<1>1. CASE v = w
  <2>1. req'[w] = q /\ pc'[w] = IF q.kind = "Delete" THEN "FindCaller" ELSE "FindOrgBySlug"
    BY DEF Receive, TypeOK
  <2>2. QED
    BY <1>1, <2>1 DEF ChecksHold, OrgChecked, CallerChecked, TargetChecked, Serving
<1>2. CASE v # w
  <2>1. /\ pc'[v] = pc[v] /\ req'[v] = req[v] /\ dbVars' = dbVars
        /\ ~Idle(v) /\ ~overlapped[v]
    BY <1>2 DEF Receive, TypeOK, Idle, dbVars
  <2>2. QED
    BY <2>1, ChecksHoldElsewhere DEF ChecksHoldUnlessOverlapped
<1>3. QED
  BY <1>1, <1>2

LEMMA CommitChecks ==
  ASSUME TypeOK, ChecksHoldUnlessOverlapped, NEW w \in Workers, NEW codes, Commit(w, codes)
  PROVE  ChecksHoldUnlessOverlapped'
<1> SUFFICES ASSUME NEW v \in Workers, ~Idle(v)', ~overlapped'[v]
             PROVE  ChecksHold(v)'
  BY DEF ChecksHoldUnlessOverlapped
<1>1. v # w
  BY DEF Commit, Answered, TypeOK, Idle
<1>2. /\ pc'[v] = pc[v] /\ req'[v] = req[v]
      /\ ~Idle(v) /\ ~overlapped[v]
  BY <1>1 DEF Commit, Answered, TypeOK, Idle
<1>3. dbVars' = dbVars
  BY <1>1, <1>2 DEF Commit
<1>4. QED
  BY <1>2, <1>3, ChecksHoldElsewhere DEF ChecksHoldUnlessOverlapped

LEMMA ReadsAreBusy ==
  ASSUME TypeOK, NEW w \in Workers, Reads(w)
  PROVE  ~Idle(w)
  BY DEF Reads, FindOrgBySlug, FindOrgByID, CountOrgMembers, RequireRole, FindTarget,
         EnsureNotLastOwner, Idle

LEMMA NextChecks ==
  TypeOK /\ ChecksHoldUnlessOverlapped /\ [Next]_vars => ChecksHoldUnlessOverlapped'
<1> SUFFICES ASSUME TypeOK, ChecksHoldUnlessOverlapped, [Next]_vars
             PROVE  ChecksHoldUnlessOverlapped'
  OBVIOUS
<1>1. CASE UNCHANGED vars
  BY <1>1, ChecksHoldElsewhere DEF vars, dbVars, ChecksHoldUnlessOverlapped, Idle
<1>2. ASSUME NEW w \in Workers, NEW q \in Request, Receive(w, q)
      PROVE  ChecksHoldUnlessOverlapped'
  BY <1>2, ReceiveChecks
<1>3. ASSUME NEW w \in Workers, Reads(w)
      PROVE  ChecksHoldUnlessOverlapped'
  BY <1>3, ReadsOutcome, ReadsAreBusy, RefuseChecks, AdvanceChecks DEF ReadOutcome
<1>4. ASSUME NEW w \in Workers, Writes(w)
      PROVE  ChecksHoldUnlessOverlapped'
  BY <1>4, WriteOutcome, CommitChecks
<1>5. ASSUME NEW w \in Workers, Fail(w)
      PROVE  ChecksHoldUnlessOverlapped'
  BY <1>5, RefuseChecks DEF Fail
<1>6. QED
  BY <1>1, <1>2, <1>3, <1>4, <1>5, NextCases

(* What a request of the organisation service has checked is still true    *)
(* when it writes, unless another request wrote in between.                *)
THEOREM ChecksHoldInvariant == Spec => []ChecksHoldUnlessOverlapped
<1>1. Init => ChecksHoldUnlessOverlapped
  BY DEF Init, ChecksHoldUnlessOverlapped, Idle
<1>2. TypeOK /\ ChecksHoldUnlessOverlapped /\ [Next]_vars => ChecksHoldUnlessOverlapped'
  BY NextChecks
<1>3. QED
  BY <1>1, <1>2, TypeCorrect, PTL DEF Spec

-----------------------------------------------------------------------------
(* What follows for the writes *)

(* Which steps touch the database, and whose they are. *)
LEMMA OnlyWritesWrite ==
  ASSUME TypeOK, [Next]_vars, dbVars' # dbVars
  PROVE  \E w \in Workers : Writes(w)
<1>1. Next
  BY DEF vars, dbVars
<1>2. ASSUME NEW w \in Workers, NEW q \in Request, Receive(w, q)
      PROVE  FALSE
  BY <1>2 DEF Receive, dbVars
<1>3. ASSUME NEW w \in Workers, Reads(w)
      PROVE  FALSE
  BY <1>3, ReadsOutcome DEF ReadOutcome, Advance, Proceed, Refuse, dbVars
<1>4. ASSUME NEW w \in Workers, Fail(w)
      PROVE  FALSE
  BY <1>4 DEF Fail, Refuse
<1>5. QED
  BY <1>1, <1>2, <1>3, <1>4, NextCases

LEMMA WriteEndsRequest ==
  ASSUME TypeOK, NEW w \in Workers, Writes(w)
  PROVE  /\ pc[w] = "Write" /\ pc'[w] = "idle"
         /\ \A v \in Workers \ {w} : pc'[v] = pc[v]
  BY WriteOutcome DEF Commit, Answered, TypeOK

LEMMA UnoverlappedWrite ==
  ASSUME TypeOK, ChecksHoldUnlessOverlapped, NEW w \in Workers, Writes(w), ~overlapped[w]
  PROVE  [Atomic!Next]_dbVars
<1>1. ~Idle(w)
  BY WriteOutcome DEF Idle
<1>2. QED
  BY <1>1, WriteOutcome DEF ChecksHoldUnlessOverlapped

UnoverlappedAreAtomic ==
  \A w \in Workers :
    pc[w] = "Write" /\ pc'[w] = "idle" /\ ~overlapped[w] => [Atomic!Next]_dbVars

LEMMA AtomicStep ==
  TypeOK /\ ChecksHoldUnlessOverlapped /\ [Next]_vars => UnoverlappedAreAtomic
<1> SUFFICES ASSUME TypeOK, ChecksHoldUnlessOverlapped, [Next]_vars, NEW w \in Workers,
                    pc[w] = "Write", pc'[w] = "idle", ~overlapped[w], dbVars' # dbVars
             PROVE  Atomic!Next
  BY DEF UnoverlappedAreAtomic
<1>1. PICK v \in Workers : Writes(v)
  BY OnlyWritesWrite
<1>2. v = w
  BY <1>1, WriteEndsRequest
<1>3. QED
  BY <1>1, <1>2, UnoverlappedWrite

(* A write that no other request's write overlapped is a step of the       *)
(* atomic service.                                                         *)
THEOREM AtomicWrites == Spec => UnoverlappedWritesAreAtomic
  BY AtomicStep, TypeCorrect, ChecksHoldInvariant, PTL
  DEF Spec, UnoverlappedWritesAreAtomic, UnoverlappedAreAtomic

(* No step of the atomic service takes the last owner. *)
LEMMA AtomicKeepsOwners ==
  ASSUME TypeOK, [Atomic!Next]_dbVars, Owners # {}
  PROVE  Owners' # {}
<1> USE DEF Owners, Atomic!Owners
<1>1. PICK u \in Users : members[u] = "owner"
  OBVIOUS
<1>2. CASE UNCHANGED members
  BY <1>1, <1>2
<1>3. ASSUME NEW t \in Users, NEW role \in Roles, Atomic!Admit(t, role)
      PROVE  Owners' # {}
  <2>1. u # t
    BY <1>1, <1>3 DEF Atomic!Admit, Atomic!NoRow
  <2>2. QED
    BY <1>1, <1>3, <2>1 DEF Atomic!Admit, TypeOK
<1>4. ASSUME NEW c \in Users, NEW t \in Users, NEW role \in Roles, Atomic!Reassign(c, t, role)
      PROVE  Owners' # {}
  <2>1. CASE role = "owner"
    <3>1. members'[t] = "owner"
      BY <1>4, <2>1 DEF Atomic!Reassign, TypeOK
    <3>2. QED
      BY <3>1
  <2>2. CASE role # "owner"
    <3>1. PICK v \in Users \ {t} : members[v] = "owner"
      BY <1>1, <1>4, <2>2 DEF Atomic!Reassign, Atomic!NotLastOwner
    <3>2. members'[v] = "owner"
      BY <1>4, <3>1 DEF Atomic!Reassign, TypeOK
    <3>3. QED
      BY <3>2
  <2>3. QED
    BY <2>1, <2>2
<1>5. ASSUME NEW c \in Users, NEW t \in Users, Atomic!Expel(c, t)
      PROVE  Owners' # {}
  <2>1. PICK v \in Users \ {t} : members[v] = "owner"
    BY <1>1, <1>5 DEF Atomic!Expel, Atomic!NotLastOwner
  <2>2. members'[v] = "owner"
    BY <1>5, <2>1 DEF Atomic!Expel, TypeOK
  <2>3. QED
    BY <2>2
<1>6. QED
  BY <1>2, <1>3, <1>4, <1>5 DEF Atomic!Next, Atomic!Rename, Atomic!Dissolve, dbVars

(* A write by a request that another's write overlapped. *)
OverlappedWrite ==
  \E w \in Workers : pc[w] = "Write" /\ pc'[w] = "idle" /\ overlapped[w]

LEMMA LockoutStep ==
  ASSUME TypeOK, ChecksHoldUnlessOverlapped, [Next]_vars, Owners # {}, Owners' = {}
  PROVE  OverlappedWrite
<1>1. dbVars' # dbVars
  BY DEF dbVars, Owners, Atomic!Owners
<1>2. PICK w \in Workers : Writes(w)
  BY <1>1, OnlyWritesWrite
<1>3. pc[w] = "Write" /\ pc'[w] = "idle"
  BY <1>2, WriteEndsRequest
<1>4. overlapped[w]
  BY <1>2, UnoverlappedWrite, AtomicKeepsOwners
<1>5. QED
  BY <1>3, <1>4 DEF OverlappedWrite

(* The last owner goes only in a write that another request's write        *)
(* overlapped.                                                             *)
THEOREM LockoutOnlyByOverlap == Spec => LockoutNeedsOverlap
<1>1. TypeOK /\ ChecksHoldUnlessOverlapped /\ [Next]_vars =>
        (Owners # {} /\ Owners' = {} =>
           \E w \in Workers : pc[w] = "Write" /\ pc'[w] = "idle" /\ overlapped[w])
  BY LockoutStep DEF OverlappedWrite
<1>2. QED
  BY <1>1, TypeCorrect, ChecksHoldInvariant, PTL DEF Spec, LockoutNeedsOverlap

(* The atomic service never touches a deleted organisation. *)
LEMMA AtomicLeavesDeleted ==
  ASSUME TypeOK, Atomic!Next, ~org.live
  PROVE  dbVars' = dbVars
<1>1. PICK c \in Users : Atomic!Dissolve(c)
  BY DEF Atomic!Next, Atomic!Admit, Atomic!Reassign, Atomic!Expel, Atomic!Rename
<1>2. org.live = FALSE /\ org \in [live : BOOLEAN, name : Names]
  BY DEF TypeOK
<1>3. org' = org /\ members' = members
  BY <1>1, <1>2 DEF Atomic!Dissolve
<1>4. QED
  BY <1>3 DEF dbVars

LEMMA DeletedStep ==
  ASSUME TypeOK, ChecksHoldUnlessOverlapped, [Next]_vars, ~org.live, dbVars' # dbVars
  PROVE  OverlappedWrite
<1>1. PICK w \in Workers : Writes(w)
  BY OnlyWritesWrite
<1>2. pc[w] = "Write" /\ pc'[w] = "idle"
  BY <1>1, WriteEndsRequest
<1>3. overlapped[w]
  BY <1>1, UnoverlappedWrite, AtomicLeavesDeleted
<1>4. QED
  BY <1>2, <1>3 DEF OverlappedWrite

(* Once deleted, an organisation changes only by requests that were under  *)
(* way when it was.                                                        *)
THEOREM DeletedOrgFrozen == Spec => DeletedOrgOnlyFinishes
<1>1. TypeOK /\ ChecksHoldUnlessOverlapped /\ [Next]_vars =>
        (~org.live /\ dbVars' # dbVars =>
           \E w \in Workers : pc[w] = "Write" /\ pc'[w] = "idle" /\ overlapped[w])
  BY DeletedStep DEF OverlappedWrite
<1>2. QED
  BY <1>1, TypeCorrect, ChecksHoldInvariant, PTL DEF Spec, DeletedOrgOnlyFinishes

-----------------------------------------------------------------------------
(* Acknowledgements *)

(* A request that is being served has not been answered. *)
BusyUnanswered == \A w \in Workers : ~Idle(w) => reply[w] = "none"

LEMMA NextUnanswered == TypeOK /\ BusyUnanswered /\ [Next]_vars => BusyUnanswered'
<1> SUFFICES ASSUME TypeOK, BusyUnanswered, [Next]_vars
             PROVE  BusyUnanswered'
  OBVIOUS
<1> USE DEF BusyUnanswered, Idle, TypeOK
<1>1. CASE UNCHANGED vars
  BY <1>1 DEF vars
<1>2. ASSUME NEW w \in Workers, NEW q \in Request, Receive(w, q)
      PROVE  BusyUnanswered'
  BY <1>2 DEF Receive
<1>3. ASSUME NEW w \in Workers, Reads(w)
      PROVE  BusyUnanswered'
  BY <1>3, ReadsOutcome, ReadsAreBusy DEF ReadOutcome, Advance, Proceed, Refuse, Answered
<1>4. ASSUME NEW w \in Workers, Writes(w)
      PROVE  BusyUnanswered'
  BY <1>4, WriteOutcome DEF Commit, Answered
<1>5. ASSUME NEW w \in Workers, Fail(w)
      PROVE  BusyUnanswered'
  BY <1>5 DEF Fail, Refuse, Answered
<1>6. QED
  BY <1>1, <1>2, <1>3, <1>4, <1>5, NextCases

(* Whose step it is when a request gets its answer. *)
LEMMA AnswerIsOwn ==
  ASSUME TypeOK, BusyUnanswered, [Next]_vars, NEW w \in Workers,
         pc[w] = "Write", reply'[w] = "ok"
  PROVE  Writes(w)
<1>1. reply[w] = "none"
  BY DEF BusyUnanswered, Idle
<1>2. Next
  BY <1>1 DEF vars
<1>3. PICK v \in Workers : (\E q \in Request : Receive(v, q)) \/ Reads(v) \/ Writes(v) \/ Fail(v)
  BY <1>2, NextCases
<1>4. v = w
  <2>1. v # w => reply'[w] = reply[w]
    BY <1>3, ReadsOutcome, WriteOutcome
    DEF Receive, ReadOutcome, Advance, Proceed, Refuse, Answered, Commit, Fail, TypeOK
  <2>2. QED
    BY <1>1, <2>1
<1>5. ~Reads(w)
  BY DEF Reads, FindOrgBySlug, FindOrgByID, CountOrgMembers, RequireRole, FindTarget,
         EnsureNotLastOwner
<1>6. ~Fail(w) /\ ~ \E q \in Request : Receive(w, q)
  BY DEF Fail, Refuse, Answered, TypeOK, Receive, Idle
<1>7. QED
  BY <1>3, <1>4, <1>5, <1>6

AcknowledgedHold ==
  \A w \in Workers :
    /\ Serving(w, "UpdateMemberRole", "Write")
    /\ reply'[w] = "ok"
    /\ ~overlapped[w]
    => members'[req[w].target] = req[w].role

LEMMA AcknowledgedStep ==
  TypeOK /\ ChecksHoldUnlessOverlapped /\ BusyUnanswered /\ [Next]_vars => AcknowledgedHold
<1> SUFFICES ASSUME TypeOK, ChecksHoldUnlessOverlapped, BusyUnanswered, [Next]_vars,
                    NEW w \in Workers, Serving(w, "UpdateMemberRole", "Write"),
                    reply'[w] = "ok", ~overlapped[w]
             PROVE  members'[req[w].target] = req[w].role
  BY DEF AcknowledgedHold
<1>1. pc[w] = "Write" /\ req[w].kind = "UpdateMemberRole"
  BY DEF Serving
<1>2. UpdateOrgMemberRole(w)
  <2>1. Writes(w)
    BY <1>1, AnswerIsOwn
  <2>2. QED
    BY <1>1, <2>1 DEF Writes, AddOrgMember, RemoveOrgMember, UpdateOrg, SoftDeleteOrg, Serving
<1>3. req[w].target \in Users
  <2>1. req[w] \in Request
    BY <1>1 DEF TypeOK, Idle, Stage
  <2>2. QED
    BY <1>1, <2>1, RequestFields
<1>4. members[req[w].target] # NoRow
  BY <1>1 DEF ChecksHoldUnlessOverlapped, ChecksHold, TargetChecked, Idle
<1>5. QED
  BY <1>2, <1>3, <1>4 DEF UpdateOrgMemberRole, TypeOK

(* UPDATE org_members does not say whether it found a row; a change of     *)
(* role that UpdateMemberRole acknowledges has taken effect nevertheless,  *)
(* unless another request wrote since the target was looked up.            *)
THEOREM AcknowledgedChangesHold == Spec => AcknowledgedRoleChangeHolds
<1>1. Init => BusyUnanswered
  BY DEF Init, BusyUnanswered, Idle
<1>2. QED
  BY <1>1, AcknowledgedStep, NextUnanswered, TypeCorrect, ChecksHoldInvariant, PTL
  DEF Spec, AcknowledgedRoleChangeHolds, AcknowledgedHold

-----------------------------------------------------------------------------
(* One request at a time *)

(* Served one request at a time, the organisation service implements the   *)
(* atomic service.                                                         *)
THEOREM SerialImplementsAtomic ==
  ASSUME NEW w0, Workers = {w0}
  PROVE  Spec => ImplementsAtomic
<1> DEFINE Alone == \A w \in Workers : ~overlapped[w]
<1>1. Init => Alone
  BY DEF Init
<1>2. TypeOK /\ Alone /\ [Next]_vars => Alone'
  <2> SUFFICES ASSUME TypeOK, Alone, [Next]_vars
               PROVE  ~overlapped'[w0]
    OBVIOUS
  <2>1. CASE UNCHANGED vars
    BY <2>1 DEF vars
  <2>2. ASSUME NEW q, Receive(w0, q)
        PROVE  ~overlapped'[w0]
    BY <2>2 DEF Receive
  <2>3. ASSUME Reads(w0)
        PROVE  ~overlapped'[w0]
    BY <2>3, ReadsOutcome DEF ReadOutcome, Advance, Proceed, Refuse, TypeOK
  <2>4. ASSUME Writes(w0)
        PROVE  ~overlapped'[w0]
    BY <2>4, WriteOutcome DEF Commit
  <2>5. ASSUME Fail(w0)
        PROVE  ~overlapped'[w0]
    BY <2>5 DEF Fail, Refuse, TypeOK
  <2>6. QED
    BY <2>1, <2>2, <2>3, <2>4, <2>5, NextCases
<1>3. Init => Atomic!Init
  BY DEF Init
<1>4. TypeOK /\ ChecksHoldUnlessOverlapped /\ Alone /\ [Next]_vars
        => [Atomic!Next]_Atomic!vars
  <2> SUFFICES ASSUME TypeOK, ChecksHoldUnlessOverlapped, Alone, [Next]_vars,
                      dbVars' # dbVars
               PROVE  Atomic!Next
    BY DEF Atomic!vars, dbVars
  <2>1. PICK w \in Workers : Writes(w)
    BY OnlyWritesWrite
  <2>2. QED
    BY <2>1, UnoverlappedWrite
<1>5. QED
  BY <1>1, <1>2, <1>3, <1>4, TypeCorrect, ChecksHoldInvariant, PTL
  DEF Spec, ImplementsAtomic, Atomic!Spec

(* Served one request at a time, an organisation never loses its last      *)
(* owner.                                                                  *)
THEOREM SerialKeepsOwners ==
  ASSUME NEW w0, Workers = {w0}
  PROVE  Spec => OwnersKept
<1>1. TypeOK /\ [Atomic!Next]_Atomic!vars => [Owners # {} => Owners' # {}]_members
  <2> SUFFICES ASSUME TypeOK, [Atomic!Next]_Atomic!vars, Owners # {}
               PROVE  Owners' # {}
    OBVIOUS
  <2>1. [Atomic!Next]_dbVars
    BY DEF Atomic!vars, dbVars
  <2>2. QED
    BY <2>1, AtomicKeepsOwners
<1>2. QED
  BY <1>1, SerialImplementsAtomic, TypeCorrect, PTL DEF OwnersKept, ImplementsAtomic, Atomic!Spec

-----------------------------------------------------------------------------
(* The member cap *)

LEMMA CapType == Cap \in Int
  BY MaxMembersAssumption DEF Cap, LimitsFor, planLimits

LEMMA FiniteCounts ==
  /\ IsFiniteSet(Members) /\ Cardinality(Members) \in Nat
  /\ IsFiniteSet(Inserting) /\ Cardinality(Inserting) \in Nat
  /\ Cardinality(Inserting) <= Cardinality(Workers)
  /\ Cardinality(Workers) \in Nat \ {0}
<1>1. Members \subseteq Users /\ Inserting \subseteq Workers
  BY DEF Members, Atomic!Members, Inserting
<1>2. QED
  BY <1>1, SetsAssumption, FS_Subset, FS_CardinalityType, FS_EmptySet

(* Members, with those counted for and not yet inserted. *)
Load == Cardinality(Members) + Cardinality(Inserting)

(* What a step of the membership requests does to it. *)
LoadOK == Load' <= Load \/ (Capped => Load' <= Cap - 1 + Cardinality(Workers))

(* A step that adds neither a member nor a pending insert. *)
LEMMA NothingAdded ==
  ASSUME Members' \subseteq Members, Inserting' \subseteq Inserting
  PROVE  Load' <= Load
<1>1. /\ Cardinality(Members') \in Nat /\ Cardinality(Members') <= Cardinality(Members)
      /\ Cardinality(Inserting') \in Nat
      /\ Cardinality(Inserting') <= Cardinality(Inserting)
  BY FiniteCounts, FS_Subset, FS_CardinalityType
<1>2. QED
  BY <1>1, FiniteCounts DEF Load

LEMMA CountBounds ==
  ASSUME TypeOK, NEW w \in Workers, CountOrgMembers(w)
  PROVE  LoadOK
<1>1. CASE Refuse(w, "plan limit")
  <2>1. Members' = Members /\ Inserting' \subseteq Inserting
    BY <1>1 DEF Refuse, Answered, dbVars, Members, Atomic!Members, Inserting, Serving, TypeOK
  <2>2. QED
    BY <2>1, NothingAdded DEF LoadOK
<1>2. CASE RoomFor(Cardinality(Members)) /\ Proceed(w, "Write")
  <2>1. Members' = Members
    BY <1>2 DEF Proceed, Members, Atomic!Members
  <2>2. Capped => Cardinality(Members) <= Cap - 1
    BY <1>2, FiniteCounts, MaxMembersAssumption
    DEF RoomFor, CheckMemberLimit, Capped, Cap, LimitsFor, planLimits
  <2>3. Inserting' \subseteq Workers
    BY DEF Inserting
  <2>4. Cardinality(Inserting') \in Nat /\ Cardinality(Inserting') <= Cardinality(Workers)
    BY <2>3, SetsAssumption, FS_Subset, FS_CardinalityType
  <2>5. QED
    BY <2>1, <2>2, <2>4, FiniteCounts, CapType DEF Load, LoadOK
<1>3. QED
  BY <1>1, <1>2 DEF CountOrgMembers

LEMMA OneMore ==
  ASSUME NEW S, IsFiniteSet(S), NEW x
  PROVE  IsFiniteSet(S \cup {x}) /\ Cardinality(S \cup {x}) <= Cardinality(S) + 1
<1>1. Cardinality(S) \in Nat
  BY FS_CardinalityType
<1>2. IsFiniteSet(S \cup {x})
  BY FS_AddElement
<1>3. Cardinality(S \cup {x}) = IF x \in S THEN Cardinality(S) ELSE Cardinality(S) + 1
  BY FS_AddElement
<1>4. QED
  BY <1>1, <1>2, <1>3

LEMMA InsertBounds ==
  ASSUME TypeOK, NEW w \in Workers, AddOrgMember(w)
  PROVE  Load' <= Load
<1>1. w \in Inserting /\ Inserting' \subseteq Inserting \ {w}
  BY DEF AddOrgMember, Commit, Answered, Inserting, Serving, TypeOK
<1>2. /\ Cardinality(Inserting') \in Nat
      /\ Cardinality(Inserting') <= Cardinality(Inserting) - 1
  BY <1>1, FiniteCounts, FS_Subset, FS_RemoveElement, FS_CardinalityType
<1>3. Members' \subseteq Members \cup {req[w].target}
  BY DEF AddOrgMember, Members, Atomic!Members, TypeOK
<1>4. /\ IsFiniteSet(Members \cup {req[w].target})
      /\ Cardinality(Members \cup {req[w].target}) <= Cardinality(Members) + 1
  BY FiniteCounts, OneMore
<1>5. /\ Cardinality(Members') \in Nat
      /\ Cardinality(Members') <= Cardinality(Members \cup {req[w].target})
      /\ Cardinality(Members \cup {req[w].target}) \in Nat
  BY <1>3, <1>4, FS_Subset, FS_CardinalityType
<1>6. QED
  BY <1>2, <1>4, <1>5, FiniteCounts DEF Load

(* No reading statement but the count brings a request to its insert.      *)
LEMMA OnlyTheCountLeadsToInserts ==
  ASSUME TypeOK, NEW w \in Workers, Reads(w), ~CountOrgMembers(w)
  PROVE  Inserting' \subseteq Inserting
<1> USE DEF Inserting, Serving
<1>1. Stage(w)
  BY ReadsAreBusy DEF TypeOK
<1>2. ASSUME NEW code \in Replies, Refuse(w, code)
      PROVE  Inserting' \subseteq Inserting
  BY <1>2 DEF Refuse, Answered, TypeOK
<1>3. ASSUME NEW s \in Statements, Proceed(w, s), s # "Write" \/ req[w].kind # "AddMember"
      PROVE  Inserting' \subseteq Inserting
  BY <1>3 DEF Proceed, TypeOK
<1> USE DEF Statements, Replies
<1>4. CASE FindOrgBySlug(w)
  <2>1. FirstCheck(req[w]) \in {"FindOrgByID", "FindTarget", "FindCaller"}
    BY DEF FirstCheck
  <2>2. QED
    BY <1>2, <1>3, <1>4, <2>1 DEF FindOrgBySlug
<1>5. CASE FindOrgByID(w)
  BY <1>2, <1>3, <1>5 DEF FindOrgByID
<1>6. CASE RequireRole(w)
  BY <1>1, <1>2, <1>3, <1>6 DEF RequireRole, Stage
<1>7. CASE FindTarget(w)
  <2>1. req[w].kind # "AddMember"
    BY <1>1, <1>7 DEF FindTarget, Stage
  <2>2. QED
    BY <1>2, <1>3, <1>7, <2>1 DEF FindTarget
<1>8. CASE EnsureNotLastOwner(w)
  <2>1. req[w].kind # "AddMember"
    BY <1>1, <1>8 DEF EnsureNotLastOwner, Stage
  <2>2. QED
    BY <1>2, <1>3, <1>8, <2>1 DEF EnsureNotLastOwner
<1>9. QED
  BY <1>4, <1>5, <1>6, <1>7, <1>8 DEF Reads

LEMMA NextLoad == TypeOK /\ [Next]_vars => LoadOK
<1> SUFFICES ASSUME TypeOK, [Next]_vars
             PROVE  LoadOK
  OBVIOUS
<1> USE DEF LoadOK, Members, Atomic!Members, Inserting, Serving
<1>1. CASE UNCHANGED vars
  BY <1>1, NothingAdded DEF vars
<1>2. ASSUME NEW w \in Workers, NEW q \in Request, Receive(w, q)
      PROVE  LoadOK
  <2>1. Members' = Members /\ Inserting' \subseteq Inserting
    BY <1>2 DEF Receive, TypeOK
  <2>2. QED
    BY <2>1, NothingAdded
<1>3. ASSUME NEW w \in Workers, Reads(w), ~CountOrgMembers(w)
      PROVE  LoadOK
  <2>1. Stage(w) /\ ~Idle(w)
    BY <1>3, ReadsAreBusy DEF TypeOK
  <2>2. Members' = Members
    BY <1>3, ReadsOutcome DEF ReadOutcome, Advance, Proceed, Refuse, dbVars
  <2>3. Inserting' \subseteq Inserting
    BY <1>3, OnlyTheCountLeadsToInserts
  <2>4. QED
    BY <2>2, <2>3, NothingAdded
<1>4. ASSUME NEW w \in Workers, Writes(w), ~AddOrgMember(w)
      PROVE  LoadOK
  <2>1. Stage(w) /\ req[w] \in Request
    BY <1>4, WriteOutcome DEF TypeOK, Idle, Stage
  <2>2. Inserting' \subseteq Inserting
    BY <1>4, WriteOutcome DEF Commit, Answered, TypeOK
  <2>3. Members' \subseteq Members
    <3>1. CASE UpdateOrgMemberRole(w)
      BY <3>1 DEF UpdateOrgMemberRole, TypeOK, NoRow
    <3>2. CASE RemoveOrgMember(w)
      BY <3>2 DEF RemoveOrgMember, TypeOK, NoRow
    <3>3. CASE UpdateOrg(w) \/ SoftDeleteOrg(w)
      BY <3>3 DEF UpdateOrg, SoftDeleteOrg
    <3>4. QED
      BY <1>4, <3>1, <3>2, <3>3 DEF Writes
  <2>4. QED
    BY <2>2, <2>3, NothingAdded
<1>5. ASSUME NEW w \in Workers, Fail(w)
      PROVE  LoadOK
  <2>1. Members' = Members /\ Inserting' \subseteq Inserting
    BY <1>5 DEF Fail, Refuse, Answered, dbVars, TypeOK
  <2>2. QED
    BY <2>1, NothingAdded
<1>6. QED
  BY <1>1, <1>2, <1>3, <1>4, <1>5, CountBounds, InsertBounds, NextCases

LEMMA NextBounds == TypeOK /\ OvershootBounded /\ [Next]_vars => OvershootBounded'
<1> SUFFICES ASSUME LoadOK, OvershootBounded
             PROVE  OvershootBounded'
  BY NextLoad
<1>1. Load \in Nat /\ Load' \in Nat
  <2>1. Members' \subseteq Users /\ Inserting' \subseteq Workers
    BY DEF Members, Atomic!Members, Inserting
  <2>2. Cardinality(Members') \in Nat /\ Cardinality(Inserting') \in Nat
    BY <2>1, SetsAssumption, FS_Subset, FS_CardinalityType
  <2>3. QED
    BY <2>2, FiniteCounts DEF Load
<1>2. OvershootBounded <=> (Capped => Load <= Cap - 1 + Cardinality(Workers))
  BY DEF OvershootBounded, Load
<1>3. OvershootBounded' <=> (Capped => Load' <= Cap - 1 + Cardinality(Workers))
  BY DEF OvershootBounded, Load, Capped, Cap, LimitsFor
<1>4. QED
  BY <1>1, <1>2, <1>3, FiniteCounts, CapType DEF LoadOK

LEMMA InitBounds == Init => OvershootBounded
<1> SUFFICES ASSUME Init
             PROVE  OvershootBounded
  OBVIOUS
<1>1. Inserting = {}
  BY DEF Init, Inserting, Serving
<1>2. Capped => Cardinality(Members) <= Cap
  BY SameCardinality DEF Init, Atomic!Init, Members, Capped, Atomic!Capped, Cap, Atomic!Cap,
     LimitsFor, Atomic!LimitsFor, planLimits, Atomic!planLimits
<1>3. QED
  BY <1>1, <1>2, FiniteCounts, FS_EmptySet, CapType DEF OvershootBounded

(* Concurrent AddMember requests exceed the member cap by at most the      *)
(* number of requests that can be in flight at once, minus one.            *)
THEOREM OvershootIsBounded == Spec => []OvershootBounded
<1>1. TypeOK /\ OvershootBounded /\ [Next]_vars => OvershootBounded'
  BY NextBounds
<1>2. QED
  BY <1>1, InitBounds, TypeCorrect, PTL DEF Spec

(* Served one request at a time, AddMember never exceeds the member cap.   *)
THEOREM SerialRespectsCap ==
  ASSUME NEW w0, Workers = {w0}
  PROVE  Spec => []CapRespected
<1>1. Cardinality(Workers) = 1
  BY FS_Singleton
<1>2. OvershootBounded => CapRespected
  BY <1>1, FiniteCounts, CapType DEF OvershootBounded, CapRespected
<1>3. QED
  BY <1>2, OvershootIsBounded, PTL
=============================================================================
