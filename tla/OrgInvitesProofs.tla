-------------------------- MODULE OrgInvitesProofs --------------------------
(***************************************************************************)
(* Proofs about OrgInvites, for any number of guests, workers, users and   *)
(* invites.                                                                *)
(***************************************************************************)
EXTENDS OrgInvites, OrgMembershipProofs

LEMMA JobFields ==
  ASSUME NEW j \in CreateJob \cup AcceptJob
  PROVE  /\ j.kind \in {"CreateInvite", "AcceptInvite"}
         /\ j.kind = "CreateInvite" => j.role \in Roles \cup {BadRole}
         /\ j.kind = "AcceptInvite" => j.invite \in Invites /\ j.user \in Users
         /\ j # NoRequest
<1>1. CASE j \in CreateJob
  BY <1>1 DEF CreateJob, NoRequest
<1>2. CASE j \in AcceptJob
  BY <1>2 DEF AcceptJob, NoRequest
<1>3. QED
  BY <1>1, <1>2

LEMMA NoInviteIsNoRow == NoInvite \notin InviteRow
<1>1. ASSUME NEW r \in InviteRow
      PROVE  r.role \in validRoles
  BY <1>1, RolesAssumption DEF InviteRow
<1>2. NoInvite.role \notin validRoles
  BY DEF NoInvite, validRoles
<1>3. QED
  BY <1>1, <1>2

-----------------------------------------------------------------------------
(* Type correctness *)

(* The part of InviteTypeOK about the guests. *)
GuestsOK ==
  /\ stage \in [Guests -> InviteStatements \cup {"idle"}]
  /\ job \in [Guests -> CreateJob \cup AcceptJob \cup {NoRequest}]
  /\ answer \in [Guests -> InviteAnswers]
  /\ \A g \in Guests : IF Free(g) THEN job[g] = NoRequest ELSE GuestStage(g)

LEMMA FinishType ==
  ASSUME GuestsOK, NEW g \in Guests, NEW code \in InviteAnswers, Finish(g, code),
         Issued \subseteq Issued'
  PROVE  GuestsOK'
  BY DEF GuestsOK, Finish, Free, GuestStage

LEMMA GoOnType ==
  ASSUME GuestsOK, NEW g \in Guests, NEW s \in InviteStatements, GoOn(g, s),
         GuestStage(g)', Issued \subseteq Issued'
  PROVE  GuestsOK'
<1>1. s # "idle"
  BY DEF InviteStatements
<1>2. ASSUME NEW h \in Guests
      PROVE  (IF Free(h) THEN job[h] = NoRequest ELSE GuestStage(h))'
  <2>1. CASE h = g
    BY <1>1, <2>1 DEF GuestsOK, GoOn, Free
  <2>2. CASE h # g
    BY <2>2 DEF GuestsOK, GoOn, Free, GuestStage
  <2>3. QED
    BY <2>1, <2>2
<1>3. QED
  BY <1>2 DEF GuestsOK, GoOn

LEMMA ArriveType ==
  ASSUME GuestsOK, NEW g \in Guests, NEW s \in {"OrgResolver", "FindOrgInviteByToken"},
         NEW j \in CreateJob \cup AcceptJob, Arrive(g, j, s),
         s = "FindOrgInviteByToken" => j.kind = "AcceptInvite",
         j.kind = "AcceptInvite" => j.invite \in Issued
  PROVE  GuestsOK'
<1>1. Issued' = Issued
  BY DEF Arrive, Unwritten, Issued
<1>2. GuestStage(g)' /\ ~Free(g)'
  BY <1>1 DEF Arrive, GuestStage, GuestsOK, Free
<1>3. ASSUME NEW h \in Guests, h # g
      PROVE  (IF Free(h) THEN job[h] = NoRequest ELSE GuestStage(h))'
  BY <1>1, <1>3 DEF GuestsOK, Arrive, Free, GuestStage
<1>4. QED
  BY <1>2, <1>3 DEF GuestsOK, Arrive, InviteStatements, InviteAnswers

(* The rows of org_invites and what is recorded about them. *)
RowsOK ==
  /\ invites \in [Invites -> InviteRow \cup {NoInvite}]
  /\ admitted \subseteq Issued \X Users
  /\ burned \subseteq Issued

LEMMA InviteTypeParts == InviteTypeOK <=> TypeOK /\ RowsOK /\ GuestsOK
  BY DEF InviteTypeOK, RowsOK, GuestsOK

LEMMA InviteInitType == InviteInit => InviteTypeOK
<1> SUFFICES ASSUME InviteInit
             PROVE  TypeOK /\ RowsOK /\ GuestsOK
  BY InviteTypeParts
<1>1. TypeOK
  BY InitType DEF InviteInit
<1>2. RowsOK /\ GuestsOK
  BY DEF InviteInit, RowsOK, GuestsOK, Free, InviteAnswers
<1>3. QED
  BY <1>1, <1>2

(* What the statements of a guest that only read leave alone. *)
(* The membership requests are where they were. *)
LEMMA UnchangedType == TypeOK /\ UNCHANGED vars => TypeOK'
<1> SUFFICES ASSUME TypeOK, UNCHANGED vars
             PROVE  TypeOK'
  OBVIOUS
<1>1. /\ org' = org /\ members' = members /\ pc' = pc /\ req' = req
      /\ reply' = reply /\ overlapped' = overlapped
  BY DEF vars
<1>2. \A w \in Workers : (Idle(w)' <=> Idle(w)) /\ (Stage(w)' <=> Stage(w))
  BY <1>1 DEF Idle, Stage
<1>3. QED
  BY <1>1, <1>2 DEF TypeOK

LEMMA UnwrittenType ==
  ASSUME TypeOK, RowsOK, Unwritten
  PROVE  TypeOK' /\ RowsOK' /\ Issued' = Issued
<1>1. TypeOK'
  BY UnchangedType DEF Unwritten
<1>2. QED
  BY <1>1 DEF Unwritten, RowsOK, Issued

(* A guest's step, an expiry, or a step of the membership requests. *)
LEMMA GuestType ==
  ASSUME TypeOK, RowsOK, GuestsOK, NEW g \in Guests, GuestStep(g)
  PROVE  TypeOK' /\ RowsOK' /\ GuestsOK'
<1> USE DEF InviteAnswers, InviteStatements
<1>1. CASE ReceiveCreate(g)
  <2>1. RowsOK' /\ TypeOK' /\ Issued' = Issued
    BY <1>1, UnwrittenType DEF ReceiveCreate, Arrive
  <2>2. CASE \E j \in CreateJob : Arrive(g, j, "OrgResolver")
    <3>1. PICK j \in CreateJob : Arrive(g, j, "OrgResolver")
      BY <2>2
    <3>2. j.kind = "CreateInvite"
      BY DEF CreateJob
    <3>3. GuestsOK'
      BY <3>1, <3>2, ArriveType
    <3>4. QED
      BY <2>1, <3>3
  <2>3. CASE Finish(g, "bad request")
    BY <2>1, <2>3, FinishType
  <2>4. QED
    BY <1>1, <2>2, <2>3 DEF ReceiveCreate
<1>2. CASE ReceiveAccept(g)
  <2>1. PICK j \in AcceptJob :
          /\ j.invite \in Issued
          /\ Arrive(g, j, IF j.subdomain THEN "OrgResolver" ELSE "FindOrgInviteByToken")
    BY <1>2 DEF ReceiveAccept
  <2>2. j.kind = "AcceptInvite"
    BY DEF AcceptJob
  <2>3. TypeOK' /\ RowsOK'
    BY <2>1, UnwrittenType DEF Arrive
  <2>4. GuestsOK'
    BY <2>1, <2>2, ArriveType
  <2>5. QED
    BY <2>3, <2>4
<1>3. CASE OrgResolver(g)
  <2>1. TypeOK' /\ RowsOK' /\ Issued' = Issued
    BY <1>3, UnwrittenType DEF OrgResolver
  <2>2. GuestStage(g)
    BY <1>3 DEF OrgResolver, GuestsOK, Free
  <2>3. CASE Finish(g, "not found") \/ Finish(g, "invalid")
    BY <2>1, <2>3, FinishType
  <2>4. CASE job[g].kind = "AcceptInvite" /\ GoOn(g, "FindOrgInviteByToken")
    <3>1. GuestStage(g)'
      BY <2>1, <2>2, <2>4 DEF GuestStage, GoOn, GuestsOK
    <3>2. QED
      BY <2>1, <2>4, <3>1, GoOnType
  <2>5. CASE /\ job[g].kind = "CreateInvite" /\ job[g].role \in validRoles
             /\ GoOn(g, "FindCaller")
    <3>1. job[g].role \in Roles
      BY <2>2, <2>5, JobFields, ValidRoleArguments DEF GuestStage
    <3>2. GuestStage(g)'
      BY <2>1, <2>2, <2>5, <3>1 DEF GuestStage, GoOn, GuestsOK
    <3>3. QED
      BY <2>1, <2>5, <3>2, GoOnType
  <2>6. QED
    BY <1>3, <2>3, <2>4, <2>5 DEF OrgResolver
<1>4. CASE RequireManageMembers(g)
  <2>1. TypeOK' /\ RowsOK' /\ Issued' = Issued
    BY <1>4, UnwrittenType DEF RequireManageMembers
  <2>2. CASE Finish(g, "forbidden")
    BY <2>1, <2>2, FinishType
  <2>3. CASE GoOn(g, "CreateOrgInvite")
    <3>1. GuestStage(g)'
      BY <1>4, <2>1, <2>3 DEF RequireManageMembers, GuestStage, GoOn, GuestsOK, Free
    <3>2. QED
      BY <2>1, <2>3, <3>1, GoOnType
  <2>4. QED
    BY <1>4, <2>2, <2>3 DEF RequireManageMembers
<1>5. CASE CreateOrgInvite(g)
  <2>1. PICK i \in Invites \ Issued, code \in {"ok", "internal"} :
          /\ invites' = [invites EXCEPT ![i] =
                          [role |-> job[g].role, accepted |-> FALSE, expired |-> FALSE]]
          /\ Finish(g, code)
    BY <1>5 DEF CreateOrgInvite
  <2>2. job[g].role \in Roles
    BY <1>5 DEF CreateOrgInvite, GuestsOK, GuestStage, Free
  <2>3. [role |-> job[g].role, accepted |-> FALSE, expired |-> FALSE] \in InviteRow
    BY <2>2 DEF InviteRow
  <2>4. invites' \in [Invites -> InviteRow \cup {NoInvite}] /\ Issued \subseteq Issued'
    BY <2>1, <2>3, NoInviteIsNoRow DEF RowsOK, Issued
  <2>5. TypeOK'
    BY <1>5, UnchangedType DEF CreateOrgInvite
  <2>6. QED
    <3>1. GuestsOK'
      BY <2>1, <2>4, FinishType
    <3>2. RowsOK'
      BY <1>5, <2>4 DEF CreateOrgInvite, RowsOK
    <3>3. QED
      BY <2>5, <3>1, <3>2
<1>6. CASE FindOrgInviteByToken(g)
  <2>1. TypeOK' /\ RowsOK' /\ Issued' = Issued
    BY <1>6, UnwrittenType DEF FindOrgInviteByToken
  <2>2. CASE Finish(g, "not found")
    BY <2>1, <2>2, FinishType
  <2>3. CASE GoOn(g, "AcceptOrgInvite")
    <3>1. GuestStage(g)'
      BY <1>6, <2>1, <2>3 DEF FindOrgInviteByToken, GuestStage, GoOn, GuestsOK, Free
    <3>2. QED
      BY <2>1, <2>3, <3>1, GoOnType
  <2>4. QED
    BY <1>6, <2>2, <2>3 DEF FindOrgInviteByToken
<1>7. CASE AcceptOrgInvite(g)
  <2>1. GuestStage(g) /\ job[g].invite \in Issued
    BY <1>7 DEF AcceptOrgInvite, GuestsOK, GuestStage, Free
  <2>2. TypeOK'
    BY <1>7 DEF AcceptOrgInvite, vars, TypeOK, Idle, Stage
  <2>3. CASE Finish(g, "conflict") /\ UNCHANGED invites
    BY <1>7, <2>2, <2>3, FinishType DEF AcceptOrgInvite, RowsOK, Issued
  <2>4. CASE /\ invites' = [invites EXCEPT ![job[g].invite].accepted = TRUE]
             /\ GoOn(g, "AddOrgMember")
    <3>1. invites[job[g].invite] \in InviteRow
      BY <2>1 DEF RowsOK, Issued
    <3>2. [invites[job[g].invite] EXCEPT !.accepted = TRUE] \in InviteRow
      BY <3>1 DEF InviteRow
    <3>3. invites' \in [Invites -> InviteRow \cup {NoInvite}] /\ Issued \subseteq Issued'
      BY <2>4, <3>2, NoInviteIsNoRow DEF RowsOK, Issued
    <3>4. GuestStage(g)'
      BY <1>7, <2>1, <2>4, <3>3 DEF AcceptOrgInvite, GuestStage, GoOn, GuestsOK
    <3>5. QED
      BY <1>7, <2>2, <2>4, <3>3, <3>4, GoOnType DEF AcceptOrgInvite, RowsOK
  <2>5. QED
    BY <1>7, <2>3, <2>4 DEF AcceptOrgInvite
<1>8. CASE AddInvitedMember(g)
  <2>1. GuestStage(g) /\ job[g].invite \in Issued /\ job[g].user \in Users
    BY <1>8, JobFields DEF AddInvitedMember, GuestsOK, GuestStage, Free
  <2>2. invites[job[g].invite].role \in Roles
    BY <2>1 DEF RowsOK, Issued, InviteRow
  <2>3. TypeOK'
    BY <1>8, <2>1, <2>2 DEF AddInvitedMember, TypeOK, Idle, Stage
  <2>4. Issued' = Issued
    BY <1>8 DEF AddInvitedMember, Issued
  <2>5. RowsOK'
    BY <1>8, <2>1, <2>4 DEF AddInvitedMember, RowsOK
  <2>6. GuestsOK'
    BY <1>8, <2>4, FinishType DEF AddInvitedMember
  <2>7. QED
    BY <2>3, <2>5, <2>6
<1>9. CASE FailInvite(g)
  <2>1. GuestStage(g) /\ Issued' = Issued
    BY <1>9 DEF FailInvite, GuestsOK, Issued
  <2>2. TypeOK'
    BY <1>9 DEF FailInvite, vars, TypeOK, Idle, Stage
  <2>3. RowsOK'
    BY <1>9, <2>1 DEF FailInvite, RowsOK, GuestStage
  <2>4. GuestsOK'
    BY <1>9, <2>1, FinishType DEF FailInvite
  <2>5. QED
    BY <2>2, <2>3, <2>4
<1>10. QED
  BY <1>1, <1>2, <1>3, <1>4, <1>5, <1>6, <1>7, <1>8, <1>9 DEF GuestStep

LEMMA ExpireType ==
  ASSUME TypeOK, RowsOK, GuestsOK, NEW i \in Invites, Expire(i)
  PROVE  TypeOK' /\ RowsOK' /\ GuestsOK'
<1>1. invites[i] \in InviteRow
  BY DEF Expire, RowsOK, Issued
<1>2. [invites[i] EXCEPT !.expired = TRUE] \in InviteRow
  BY <1>1 DEF InviteRow
<1>3. RowsOK' /\ Issued' = Issued
  BY <1>1, <1>2, NoInviteIsNoRow DEF Expire, RowsOK, Issued
<1>4. TypeOK'
  BY DEF Expire, vars, TypeOK, Idle, Stage
<1>5. GuestsOK'
  BY <1>3 DEF Expire, GuestsOK, Free, GuestStage
<1>6. QED
  BY <1>3, <1>4, <1>5

LEMMA InviteNextType == InviteTypeOK /\ [InviteNext]_allVars => InviteTypeOK'
<1> SUFFICES ASSUME TypeOK, RowsOK, GuestsOK, [InviteNext]_allVars
             PROVE  TypeOK' /\ RowsOK' /\ GuestsOK'
  BY DEF InviteTypeOK, RowsOK, GuestsOK
<1>1. CASE UNCHANGED inviteVars /\ [Next]_vars
  <2>1. TypeOK'
    BY <1>1, NextType
  <2>2. RowsOK' /\ GuestsOK'
    BY <1>1 DEF inviteVars, RowsOK, GuestsOK, Issued, Free, GuestStage
  <2>3. QED
    BY <2>1, <2>2
<1>2. ASSUME NEW g \in Guests, GuestStep(g)
      PROVE  TypeOK' /\ RowsOK' /\ GuestsOK'
  BY <1>2, GuestType
<1>3. ASSUME NEW i \in Invites, Expire(i)
      PROVE  TypeOK' /\ RowsOK' /\ GuestsOK'
  BY <1>3, ExpireType
<1>4. QED
  BY <1>1, <1>2, <1>3 DEF InviteNext, allVars

(* Type correctness of the invite flow beside the membership requests. *)
THEOREM InviteTypeCorrect == InviteSpec => []InviteTypeOK
<1>1. InviteInit => InviteTypeOK
  BY InviteInitType
<1>2. InviteTypeOK /\ [InviteNext]_allVars => InviteTypeOK'
  BY InviteNextType
<1>3. QED
  BY <1>1, <1>2, PTL DEF InviteSpec

-----------------------------------------------------------------------------
(* An invite is spent once *)

(* No guest has invite i in hand, nobody came in by it, nobody lost it.    *)
Untouched(i) ==
  /\ \A g \in Guests : ~Holds(g, i)
  /\ \A u \in Users : <<i, u>> \notin admitted
  /\ i \notin burned

LEMMA UnspentIsUntouched ==
  ASSUME SpentOnce, NEW i \in Invites
  PROVE  ~Spent(i) => Untouched(i)
  BY DEF SpentOnce, Untouched

(* Steps that move no invite on keep the bookkeeping. *)
LEMMA SpentOnceKept ==
  ASSUME SpentOnce, admitted' = admitted, burned' = burned,
         \A i \in Invites : Spent(i)' <=> Spent(i),
         \A g \in Guests, i \in Invites : Holds(g, i)' <=> Holds(g, i)
  PROVE  SpentOnce'
  BY DEF SpentOnce

LEMMA AcceptSpendsOnce ==
  ASSUME InviteTypeOK, SpentOnce, NEW g \in Guests, AcceptOrgInvite(g)
  PROVE  SpentOnce'
<1>0. PICK i \in Issued : i = job[g].invite
  BY DEF AcceptOrgInvite, InviteTypeOK, GuestStage, Free
<1>1. i \in Invites /\ stage[g] = "AcceptOrgInvite" /\ invites[i] \in InviteRow
  BY DEF AcceptOrgInvite, InviteTypeOK, Issued
<1>2. CASE invites[i].accepted /\ Finish(g, "conflict") /\ UNCHANGED invites
  <2>1. \A h \in Guests, k \in Invites : Holds(h, k)' <=> Holds(h, k)
    BY <1>1, <1>2 DEF Holds, Finish, InviteTypeOK
  <2>2. \A k \in Invites : Spent(k)' <=> Spent(k)
    BY <1>2 DEF Spent, Issued
  <2>3. QED
    BY <2>1, <2>2, SpentOnceKept DEF AcceptOrgInvite
<1>3. CASE /\ ~invites[i].accepted
           /\ invites' = [invites EXCEPT ![i].accepted = TRUE]
           /\ GoOn(g, "AddOrgMember")
  <2>1. Untouched(i)
    BY <1>1, <1>3, UnspentIsUntouched DEF Spent
  <2>2. \A h \in Guests, k \in Invites : Holds(h, k)' <=> Holds(h, k) \/ (h = g /\ k = i)
    BY <1>0, <1>1, <1>3 DEF Holds, GoOn, InviteTypeOK
  <2>3. [invites[i] EXCEPT !.accepted = TRUE] \in InviteRow
    BY <1>1 DEF InviteRow
  <2>4. Spent(i)'
    BY <1>1, <1>3, <2>3, NoInviteIsNoRow DEF Spent, Issued, InviteTypeOK, InviteRow
  <2>5. \A k \in Invites \ {i} : Spent(k)' <=> Spent(k)
    BY <1>3 DEF Spent, Issued, InviteTypeOK
  <2>6. admitted' = admitted /\ burned' = burned
    BY DEF AcceptOrgInvite
  <2>7. QED
    BY <1>1, <2>1, <2>2, <2>4, <2>5, <2>6 DEF SpentOnce, Untouched
<1>4. QED
  BY <1>0, <1>2, <1>3 DEF AcceptOrgInvite

(* The insert, or the failure in its place, settles the invite in hand.    *)
LEMMA SettlingSpendsOnce ==
  ASSUME InviteTypeOK, SpentOnce, NEW g \in Guests, stage[g] = "AddOrgMember",
         NEW code, Finish(g, code), UNCHANGED invites,
         \/ admitted' = admitted \cup {<<job[g].invite, job[g].user>>} /\ burned' = burned
         \/ admitted' = admitted /\ burned' = burned \cup {job[g].invite}
  PROVE  SpentOnce'
<1>0. PICK i \in Invites, u0 \in Users : i = job[g].invite /\ u0 = job[g].user
  BY JobFields DEF InviteTypeOK, GuestStage, Free
<1>1. Holds(g, i)
  BY <1>0 DEF Holds
<1>2. \A h \in Guests, k \in Invites : Holds(h, k)' <=> Holds(h, k) /\ h # g
  BY DEF Holds, Finish, InviteTypeOK
<1>3. \A h \in Guests, k \in Invites : k # i => (Holds(h, k)' <=> Holds(h, k))
  BY <1>0, <1>2 DEF Holds
<1>4. \A h \in Guests : ~Holds(h, i)'
  BY <1>1, <1>2 DEF SpentOnce
<1>5. \A k \in Invites : Spent(k)' <=> Spent(k)
  BY DEF Spent, Issued
<1>6. Spent(i) /\ i \notin burned /\ \A u \in Users : <<i, u>> \notin admitted
  BY <1>1 DEF SpentOnce
<1>7. \A k \in Invites \ {i} :
        /\ k \in burned' <=> k \in burned
        /\ \A u \in Users : <<k, u>> \in admitted' <=> <<k, u>> \in admitted
  BY <1>0
<1>8. \/ /\ i \notin burned'
         /\ <<i, u0>> \in admitted'
         /\ \A u \in Users : <<i, u>> \in admitted' => u = u0
      \/ i \in burned' /\ \A u \in Users : <<i, u>> \notin admitted'
  BY <1>0, <1>6
<1>9. QED
  BY <1>1, <1>3, <1>4, <1>5, <1>6, <1>7, <1>8 DEF SpentOnce

LEMMA NextSpentOnce ==
  InviteTypeOK /\ SpentOnce /\ [InviteNext]_allVars => SpentOnce'
<1> SUFFICES ASSUME InviteTypeOK, SpentOnce, [InviteNext]_allVars
             PROVE  SpentOnce'
  OBVIOUS
<1>1. CASE UNCHANGED inviteVars
  <2>1. /\ \A i \in Invites : Spent(i)' <=> Spent(i)
        /\ \A g \in Guests, i \in Invites : Holds(g, i)' <=> Holds(g, i)
    BY <1>1 DEF inviteVars, Spent, Issued, Holds
  <2>2. QED
    BY <1>1, <2>1, SpentOnceKept DEF inviteVars
<1>2. ASSUME NEW g \in Guests, GuestStep(g), stage[g] \notin {"AcceptOrgInvite", "AddOrgMember"}
      PROVE  SpentOnce'
  <2>1. \A h \in Guests, i \in Invites : Holds(h, i)' <=> Holds(h, i)
    BY <1>2
    DEF GuestStep, ReceiveCreate, ReceiveAccept, Arrive, OrgResolver, RequireManageMembers,
        CreateOrgInvite, FindOrgInviteByToken, AcceptOrgInvite, AddInvitedMember, FailInvite,
        GoOn, Finish, Holds, InviteTypeOK
  <2>2. admitted' = admitted /\ burned' = burned
    BY <1>2
    DEF GuestStep, ReceiveCreate, ReceiveAccept, Arrive, Unwritten, OrgResolver,
        RequireManageMembers, CreateOrgInvite, FindOrgInviteByToken, AcceptOrgInvite,
        AddInvitedMember, FailInvite
  <2>3. \A i \in Invites : Spent(i)' <=> Spent(i)
    <3>1. CASE CreateOrgInvite(g)
      BY <3>1, NoInviteIsNoRow DEF CreateOrgInvite, InviteTypeOK, Spent, Issued, NoInvite
    <3>2. CASE ~CreateOrgInvite(g)
      BY <1>2, <3>2
      DEF GuestStep, ReceiveCreate, ReceiveAccept, Arrive, Unwritten, OrgResolver,
          RequireManageMembers, FindOrgInviteByToken, AcceptOrgInvite,
          AddInvitedMember, FailInvite, Spent, Issued
    <3>3. QED
      BY <3>1, <3>2
  <2>4. QED
    BY <2>1, <2>2, <2>3, SpentOnceKept
<1>3. ASSUME NEW g \in Guests, AcceptOrgInvite(g)
      PROVE  SpentOnce'
  BY <1>3, AcceptSpendsOnce
<1>4. ASSUME NEW g \in Guests, AddInvitedMember(g)
      PROVE  SpentOnce'
  BY <1>4, SettlingSpendsOnce DEF AddInvitedMember
<1>5. ASSUME NEW g \in Guests, FailInvite(g), stage[g] = "AcceptOrgInvite"
      PROVE  SpentOnce'
  <2>1. \A h \in Guests, i \in Invites : Holds(h, i)' <=> Holds(h, i)
    BY <1>5 DEF FailInvite, Finish, Holds, InviteTypeOK
  <2>2. QED
    BY <1>5, <2>1, SpentOnceKept DEF FailInvite, Spent, Issued
<1>6. ASSUME NEW g \in Guests, FailInvite(g), stage[g] = "AddOrgMember"
      PROVE  SpentOnce'
  BY <1>6, SettlingSpendsOnce DEF FailInvite
<1>7. ASSUME NEW i \in Invites, Expire(i)
      PROVE  SpentOnce'
  <2>1. invites[i] \in InviteRow /\ [invites[i] EXCEPT !.expired = TRUE] \in InviteRow
    BY <1>7 DEF Expire, InviteTypeOK, Issued, InviteRow
  <2>2. \A k \in Invites : Spent(k)' <=> Spent(k)
    BY <1>7, <2>1, NoInviteIsNoRow DEF Expire, Spent, Issued, InviteTypeOK, InviteRow
  <2>3. \A h \in Guests, k \in Invites : Holds(h, k)' <=> Holds(h, k)
    BY <1>7 DEF Expire, Holds
  <2>4. QED
    BY <1>7, <2>2, <2>3, SpentOnceKept DEF Expire
<1>8. ASSUME NEW g \in Guests, GuestStep(g), stage[g] \in {"AcceptOrgInvite", "AddOrgMember"}
      PROVE  AcceptOrgInvite(g) \/ AddInvitedMember(g) \/ FailInvite(g)
  BY <1>8
  DEF GuestStep, ReceiveCreate, ReceiveAccept, Arrive, Free, OrgResolver,
      RequireManageMembers, CreateOrgInvite, FindOrgInviteByToken
<1>9. QED
  BY <1>1, <1>2, <1>3, <1>4, <1>5, <1>6, <1>7, <1>8 DEF InviteNext, allVars

(* An invite's token lets at most one user in, whatever the concurrency.   *)
THEOREM InviteSpentOnce == InviteSpec => []SpentOnce
<1>1. InviteInit => SpentOnce
  BY DEF InviteInit, SpentOnce, Spent, Issued, Holds
<1>2. InviteTypeOK /\ SpentOnce /\ [InviteNext]_allVars => SpentOnce'
  BY NextSpentOnce
<1>3. QED
  BY <1>1, <1>2, InviteTypeCorrect, PTL DEF InviteSpec

-----------------------------------------------------------------------------
(* A request that comes too late *)

Late(g) == ~Free(g) /\ job[g].kind = "AcceptInvite" /\ job[g].late

(* A late request has an expired invite and has not found it.              *)
LateIsRefused ==
  \A g \in Guests : Late(g) =>
    /\ stage[g] \in {"OrgResolver", "FindOrgInviteByToken"}
    /\ invites[job[g].invite].expired

(* An expired invite stays so. *)
LEMMA ExpiredForGood ==
  ASSUME InviteTypeOK, [InviteNext]_allVars, NEW i \in Issued
  PROVE  i \in Invites /\ (invites[i].expired => invites'[i].expired)
<1>1. i \in Invites /\ invites[i] \in InviteRow
  BY DEF Issued, InviteTypeOK
<1>2. CASE UNCHANGED invites
  BY <1>1, <1>2
<1>3. ASSUME NEW g \in Guests, CreateOrgInvite(g)
      PROVE  invites'[i] = invites[i]
  BY <1>1, <1>3 DEF CreateOrgInvite, InviteTypeOK
<1>4. ASSUME NEW g \in Guests, AcceptOrgInvite(g)
      PROVE  invites'[i].expired = invites[i].expired
  BY <1>1, <1>4 DEF AcceptOrgInvite, InviteTypeOK, InviteRow
<1>5. ASSUME NEW k \in Invites, Expire(k)
      PROVE  invites[i].expired => invites'[i].expired
  BY <1>1, <1>5 DEF Expire, InviteTypeOK, InviteRow
<1>6. ASSUME NEW g \in Guests, GuestStep(g), ~CreateOrgInvite(g), ~AcceptOrgInvite(g)
      PROVE  UNCHANGED invites
  BY <1>6
  DEF GuestStep, ReceiveCreate, ReceiveAccept, Arrive, Unwritten, OrgResolver,
      RequireManageMembers, FindOrgInviteByToken, AddInvitedMember, FailInvite
<1>7. QED
  BY <1>1, <1>2, <1>3, <1>4, <1>5, <1>6 DEF InviteNext, allVars, inviteVars

LEMMA LateStep ==
  InviteTypeOK /\ LateIsRefused /\ [InviteNext]_allVars => LateIsRefused'
<1> SUFFICES ASSUME InviteTypeOK, LateIsRefused, [InviteNext]_allVars,
                    NEW h \in Guests, Late(h)'
             PROVE  /\ stage'[h] \in {"OrgResolver", "FindOrgInviteByToken"}
                    /\ invites'[job'[h].invite].expired
  BY DEF LateIsRefused
<1>1. CASE stage'[h] = stage[h] /\ job'[h] = job[h]
  <2>1. Late(h) /\ job[h].invite \in Issued
    BY <1>1 DEF Late, Free, InviteTypeOK, GuestStage
  <2>2. invites[job[h].invite].expired
    BY <2>1 DEF LateIsRefused
  <2>3. invites'[job[h].invite].expired
    BY <2>1, <2>2, ExpiredForGood
  <2>4. QED
    BY <1>1, <2>1, <2>3 DEF LateIsRefused
<1>2. ASSUME GuestStep(h)
      PROVE  /\ stage'[h] \in {"OrgResolver", "FindOrgInviteByToken"}
             /\ invites'[job'[h].invite].expired
  <2> USE DEF Late, Free, InviteTypeOK
  <2>1. ASSUME NEW code, Finish(h, code) PROVE FALSE
    BY <2>1 DEF Finish
  <2>2. ASSUME NEW s, GoOn(h, s), s # "idle", stage[h] # "idle"
        PROVE  Late(h) /\ stage'[h] = s /\ job'[h] = job[h] /\ job[h].invite \in Issued
    BY <2>2 DEF GoOn, GuestStage
  <2>3. CASE ReceiveCreate(h)
    <3>1. PICK j \in CreateJob : job' = [job EXCEPT ![h] = j]
      BY <2>1, <2>3 DEF ReceiveCreate, Arrive
    <3>2. job'[h].kind = "CreateInvite"
      BY <3>1 DEF CreateJob
    <3>3. QED
      BY <3>2
  <2>4. CASE ReceiveAccept(h)
    <3>1. PICK j \in AcceptJob :
            /\ j.late = invites[j.invite].expired
            /\ Arrive(h, j, IF j.subdomain THEN "OrgResolver" ELSE "FindOrgInviteByToken")
      BY <2>4 DEF ReceiveAccept
    <3>2. job'[h] = j /\ UNCHANGED invites
      BY <3>1 DEF Arrive, Unwritten
    <3>3. stage'[h] \in {"OrgResolver", "FindOrgInviteByToken"}
      BY <3>1 DEF Arrive
    <3>4. QED
      BY <3>1, <3>2, <3>3
  <2>5. CASE OrgResolver(h)
    <3>1. GoOn(h, "FindOrgInviteByToken") /\ stage[h] = "OrgResolver" /\ UNCHANGED invites
      <4>1. CASE GoOn(h, "FindCaller") /\ job[h].kind = "CreateInvite"
        BY <4>1 DEF GoOn
      <4>2. QED
        BY <2>1, <2>5, <4>1 DEF OrgResolver, Unwritten
    <3>2. QED
      BY <2>2, <3>1 DEF LateIsRefused
  <2>6. CASE FindOrgInviteByToken(h)
    <3>1. /\ stage[h] = "FindOrgInviteByToken" /\ GoOn(h, "AcceptOrgInvite")
          /\ ~invites[job[h].invite].expired
      BY <2>1, <2>6 DEF FindOrgInviteByToken
    <3>2. QED
      BY <2>2, <3>1 DEF LateIsRefused
  <2>7. CASE RequireManageMembers(h)
    <3>1. job[h].kind = "CreateInvite" /\ UNCHANGED job
      BY <2>1, <2>7 DEF RequireManageMembers, GuestStage, GoOn
    <3>2. QED
      BY <3>1
  <2>8. CASE AcceptOrgInvite(h)
    <3>1. stage[h] = "AcceptOrgInvite" /\ GoOn(h, "AddOrgMember")
      BY <2>1, <2>8 DEF AcceptOrgInvite
    <3>2. QED
      BY <2>2, <3>1 DEF LateIsRefused
  <2>9. CASE CreateOrgInvite(h) \/ AddInvitedMember(h) \/ FailInvite(h)
    BY <2>1, <2>9 DEF CreateOrgInvite, AddInvitedMember, FailInvite
  <2>10. QED
    BY <1>2, <2>3, <2>4, <2>5, <2>6, <2>7, <2>8, <2>9 DEF GuestStep
<1>3. ASSUME NEW g \in Guests \ {h}, GuestStep(g)
      PROVE  stage'[h] = stage[h] /\ job'[h] = job[h]
  BY <1>3
  DEF GuestStep, ReceiveCreate, ReceiveAccept, Arrive, OrgResolver, RequireManageMembers,
      CreateOrgInvite, FindOrgInviteByToken, AcceptOrgInvite, AddInvitedMember, FailInvite,
      GoOn, Finish, InviteTypeOK
<1>4. QED
  BY <1>1, <1>2, <1>3 DEF InviteNext, Expire, allVars, inviteVars

(* A request that arrives after its invite has expired never spends it.    *)
THEOREM LateIsTooLate == InviteSpec => []LateNeverSpends
<1>1. InviteInit => LateIsRefused
  BY DEF InviteInit, LateIsRefused, Late, Free
<1>2. InviteTypeOK /\ LateIsRefused => LateNeverSpends
  BY DEF InviteTypeOK, GuestStage, LateIsRefused, Late, LateNeverSpends, Free
<1>3. QED
  BY <1>1, <1>2, LateStep, InviteTypeCorrect, PTL DEF InviteSpec

-----------------------------------------------------------------------------
(* The member cap, with invites *)

Held == {i \in Invites : \E g \in Guests : Holds(g, i)}

SpentInvites == {i \in Invites : Spent(i)}

(* An invite in hand may yet add a member and is spent already.            *)
InvitedLoadBounded ==
  Capped => Load + Cardinality(Held) <= Cap - 1 + Cardinality(Workers) + Cardinality(SpentInvites)

(* Sizes of sets of invites. *)
LEMMA InviteCounts ==
  ASSUME NEW S, S \subseteq Invites
  PROVE  /\ IsFiniteSet(S) /\ Cardinality(S) \in Nat
         /\ \A T : T \subseteq S => Cardinality(T) \in Nat /\ Cardinality(T) <= Cardinality(S)
<1>1. IsFiniteSet(S)
  BY GuestsAssumption, FS_Subset
<1>2. QED
  BY <1>1, FS_Subset, FS_CardinalityType

LEMMA HeldAreSpent == SpentOnce => Held \subseteq SpentInvites
  BY DEF SpentOnce, Held, SpentInvites

(* The terms of the bound are numbers, before a step and after it. *)
LEMMA LoadNumbers ==
  /\ Load \in Nat /\ Load' \in Nat
  /\ Cardinality(Held) \in Nat /\ Cardinality(Held') \in Nat
  /\ Cardinality(SpentInvites) \in Nat /\ Cardinality(SpentInvites') \in Nat
  /\ Cap \in Int /\ Cardinality(Workers) \in Nat
<1>1. Members' \subseteq Users /\ Inserting' \subseteq Workers
  BY DEF Members, Atomic!Members, Inserting
<1>2. Cardinality(Members') \in Nat /\ Cardinality(Inserting') \in Nat
  BY <1>1, SetsAssumption, FS_Subset, FS_CardinalityType
<1>3. /\ Held \subseteq Invites /\ Held' \subseteq Invites
      /\ SpentInvites \subseteq Invites /\ SpentInvites' \subseteq Invites
  BY DEF Held, SpentInvites
<1>4. QED
  BY <1>2, <1>3, InviteCounts, FiniteCounts, CapType DEF Load

LEMMA InvitedLoadStep ==
  InviteTypeOK /\ SpentOnce /\ InvitedLoadBounded /\ [InviteNext]_allVars => InvitedLoadBounded'
<1> SUFFICES ASSUME InviteTypeOK, SpentOnce, InvitedLoadBounded, [InviteNext]_allVars
             PROVE  InvitedLoadBounded'
  OBVIOUS
<1>0. /\ Held \subseteq Invites /\ SpentInvites \subseteq Invites
      /\ InvitedLoadBounded' <=>
           (Capped => Load' + Cardinality(Held')
                        <= Cap - 1 + Cardinality(Workers) + Cardinality(SpentInvites'))
  BY DEF Held, SpentInvites, InvitedLoadBounded, Capped, Cap, LimitsFor
<1>1. CASE UNCHANGED inviteVars /\ [Next]_vars
  <2>1. Held' = Held /\ SpentInvites' = SpentInvites
    BY <1>1 DEF inviteVars, Held, Holds, SpentInvites, Spent, Issued
  <2>2. Cardinality(Held) <= Cardinality(SpentInvites)
    BY <1>0, HeldAreSpent, InviteCounts
  <2>3. LoadOK
    BY <1>1, NextLoad DEF InviteTypeOK
  <2>4. CASE Load' <= Load
    BY <1>0, <2>1, <2>4, LoadNumbers DEF InvitedLoadBounded
  <2>5. CASE Capped => Load' <= Cap - 1 + Cardinality(Workers)
    BY <1>0, <2>1, <2>2, <2>5, LoadNumbers
  <2>6. QED
    BY <2>3, <2>4, <2>5 DEF LoadOK
<1>2. ASSUME UNCHANGED vars, Held' \subseteq Held, SpentInvites' = SpentInvites
      PROVE  InvitedLoadBounded'
  <2>1. Load' = Load
    BY <1>2 DEF vars, Load, Members, Atomic!Members, Inserting, Serving
  <2>2. Cardinality(Held') <= Cardinality(Held)
    BY <1>0, <1>2, InviteCounts
  <2>3. QED
    BY <1>0, <1>2, <2>1, <2>2, LoadNumbers DEF InvitedLoadBounded
<1>3. ASSUME NEW g \in Guests, AcceptOrgInvite(g), ~(UNCHANGED invites)
      PROVE  InvitedLoadBounded'
  <2>1. PICK i \in Issued : i = job[g].invite
    BY <1>3 DEF AcceptOrgInvite, InviteTypeOK, GuestStage, Free
  <2>2. /\ i \in Invites /\ invites[i] \in InviteRow /\ ~invites[i].accepted
        /\ invites' = [invites EXCEPT ![i].accepted = TRUE]
        /\ GoOn(g, "AddOrgMember")
    BY <1>3, <2>1 DEF AcceptOrgInvite, InviteTypeOK, Issued
  <2>3. /\ invites'[i] \in InviteRow /\ invites'[i].accepted
        /\ \A k \in Invites \ {i} : invites'[k] = invites[k]
    BY <2>2 DEF InviteTypeOK, InviteRow
  <2>4. i \notin SpentInvites /\ SpentInvites' = SpentInvites \cup {i}
    BY <2>2, <2>3, NoInviteIsNoRow DEF SpentInvites, Spent, Issued
  <2>5. Held' \subseteq Held \cup {i}
    BY <2>1, <2>2 DEF Held, Holds, GoOn, InviteTypeOK
  <2>6. Cardinality(SpentInvites') = Cardinality(SpentInvites) + 1
    BY <1>0, <2>4, InviteCounts, FS_AddElement
  <2>7. Cardinality(Held') <= Cardinality(Held) + 1
    <3>1. /\ IsFiniteSet(Held \cup {i})
          /\ Cardinality(Held \cup {i}) <= Cardinality(Held) + 1
      BY <1>0, InviteCounts, OneMore
    <3>2. Cardinality(Held') <= Cardinality(Held \cup {i}) /\ Cardinality(Held \cup {i}) \in Nat
      BY <2>5, <3>1, FS_Subset, FS_CardinalityType
    <3>3. QED
      BY <3>1, <3>2, LoadNumbers
  <2>8. Load' = Load
    BY <1>3 DEF AcceptOrgInvite, vars, Load, Members, Atomic!Members, Inserting, Serving
  <2>9. QED
    BY <1>0, <2>6, <2>7, <2>8, LoadNumbers DEF InvitedLoadBounded
<1>4. ASSUME NEW g \in Guests, AddInvitedMember(g)
      PROVE  InvitedLoadBounded'
  <2>1. PICK i \in Issued : i = job[g].invite
    BY <1>4 DEF AddInvitedMember, InviteTypeOK, GuestStage, Free
  <2>2. i \in Held /\ Holds(g, i)
    BY <1>4, <2>1 DEF AddInvitedMember, Held, Holds, Issued
  <2>3. Held' \subseteq Held \ {i}
    <3>1. \A h \in Guests, k \in Invites : Holds(h, k)' => Holds(h, k) /\ h # g
      BY <1>4 DEF AddInvitedMember, Finish, Holds, InviteTypeOK
    <3>2. \A h \in Guests : Holds(h, i) => h = g
      BY <2>1, <2>2 DEF SpentOnce, Issued
    <3>3. QED
      BY <3>1, <3>2 DEF Held
  <2>4. Cardinality(Held') <= Cardinality(Held) - 1
    <3>1. Cardinality(Held \ {i}) = Cardinality(Held) - 1
      BY <1>0, <2>2, InviteCounts, FS_RemoveElement
    <3>2. Held \ {i} \subseteq Invites
      BY <1>0
    <3>3. QED
      BY <2>3, <3>1, <3>2, InviteCounts
  <2>5. SpentInvites' = SpentInvites
    BY <1>4 DEF AddInvitedMember, SpentInvites, Spent, Issued
  <2>6. Members' \subseteq Members \cup {job[g].user} /\ Inserting' = Inserting
    BY <1>4 DEF AddInvitedMember, Members, Atomic!Members, Inserting, Serving, InviteTypeOK, TypeOK
  <2>7. /\ IsFiniteSet(Members \cup {job[g].user})
        /\ Cardinality(Members \cup {job[g].user}) <= Cardinality(Members) + 1
    BY FiniteCounts, OneMore
  <2>8. /\ Cardinality(Members') <= Cardinality(Members \cup {job[g].user})
        /\ Cardinality(Members') \in Nat /\ Cardinality(Members \cup {job[g].user}) \in Nat
    BY <2>6, <2>7, FS_Subset, FS_CardinalityType
  <2>9. Load' <= Load + 1
    BY <2>6, <2>7, <2>8, FiniteCounts DEF Load
  <2>10. QED
    BY <1>0, <2>4, <2>5, <2>9, LoadNumbers DEF InvitedLoadBounded
<1>5. ASSUME NEW g \in Guests, GuestStep(g), ~AddInvitedMember(g),
             ~(AcceptOrgInvite(g) /\ ~(UNCHANGED invites))
      PROVE  InvitedLoadBounded'
  <2>1. UNCHANGED vars
    BY <1>5
    DEF GuestStep, ReceiveCreate, ReceiveAccept, Arrive, Unwritten, OrgResolver,
        RequireManageMembers, CreateOrgInvite, FindOrgInviteByToken, AcceptOrgInvite, FailInvite
  <2>2. Held' \subseteq Held
    <3>1. CASE AcceptOrgInvite(g)
      <4>1. job[g].invite \in Invites /\ invites[job[g].invite] \in InviteRow
        BY <3>1 DEF AcceptOrgInvite, InviteTypeOK, GuestStage, Free, Issued
      <4>2. Finish(g, "conflict")
        BY <1>5, <3>1, <4>1 DEF AcceptOrgInvite, InviteTypeOK, InviteRow
      <4>3. \A h \in Guests, i \in Invites : Holds(h, i)' => Holds(h, i)
        BY <4>2 DEF Finish, Holds, InviteTypeOK
      <4>4. QED
        BY <4>3 DEF Held
    <3>2. CASE ~AcceptOrgInvite(g)
      <4>1. \A h \in Guests, i \in Invites : Holds(h, i)' => Holds(h, i)
        BY <1>5, <3>2
        DEF GuestStep, ReceiveCreate, ReceiveAccept, Arrive, Unwritten, OrgResolver,
            RequireManageMembers, CreateOrgInvite, FindOrgInviteByToken,
            FailInvite, GoOn, Finish, Holds, InviteTypeOK
      <4>2. QED
        BY <4>1 DEF Held
    <3>3. QED
      BY <3>1, <3>2
  <2>3. SpentInvites' = SpentInvites
    <3>1. CASE CreateOrgInvite(g)
      BY <3>1, NoInviteIsNoRow
      DEF CreateOrgInvite, InviteTypeOK, SpentInvites, Spent, Issued, NoInvite
    <3>2. CASE UNCHANGED invites
      BY <3>2 DEF SpentInvites, Spent, Issued
    <3>3. QED
      BY <1>5, <3>1, <3>2
      DEF GuestStep, ReceiveCreate, ReceiveAccept, Arrive, Unwritten, OrgResolver,
          RequireManageMembers, FindOrgInviteByToken, AcceptOrgInvite, FailInvite
  <2>4. QED
    BY <1>2, <2>1, <2>2, <2>3
<1>6. ASSUME NEW i \in Invites, Expire(i)
      PROVE  InvitedLoadBounded'
  <2>1. invites[i] \in InviteRow /\ [invites[i] EXCEPT !.expired = TRUE] \in InviteRow
    BY <1>6 DEF Expire, InviteTypeOK, Issued, InviteRow
  <2>2. SpentInvites' = SpentInvites
    BY <1>6, <2>1, NoInviteIsNoRow DEF Expire, SpentInvites, Spent, Issued, InviteTypeOK, InviteRow
  <2>3. Held' = Held
    BY <1>6 DEF Expire, Held, Holds
  <2>4. QED
    BY <1>2, <1>6, <2>2, <2>3 DEF Expire
<1>7. QED
  BY <1>1, <1>3, <1>4, <1>5, <1>6 DEF InviteNext, allVars

(* Invites get past the member cap, but each by one member at most.        *)
THEOREM InvitedOvershootIsBounded == InviteSpec => []InvitedOvershootBounded
<1>1. InviteInit => InvitedLoadBounded
  <2> SUFFICES ASSUME InviteInit
               PROVE  InvitedLoadBounded
    OBVIOUS
  <2>1. Held = {} /\ SpentInvites = {}
    BY DEF InviteInit, Held, Holds, SpentInvites, Spent, Issued
  <2>2. OvershootBounded
    BY InitBounds DEF InviteInit
  <2>3. QED
    BY <2>1, <2>2, FS_EmptySet, LoadNumbers DEF InvitedLoadBounded, OvershootBounded, Load
<1>2. InvitedLoadBounded => InvitedOvershootBounded
  BY LoadNumbers DEF InvitedLoadBounded, InvitedOvershootBounded, Load, SpentInvites
<1>3. InviteTypeOK /\ SpentOnce /\ InvitedLoadBounded /\ [InviteNext]_allVars => InvitedLoadBounded'
  BY InvitedLoadStep
<1>4. QED
  BY <1>1, <1>2, <1>3, InviteTypeCorrect, InviteSpentOnce, PTL DEF InviteSpec

-----------------------------------------------------------------------------
(* The membership checks, with invites *)

(* All a guest does to the organisation is to insert a member. *)
LEMMA InviteStepCases ==
  ASSUME [InviteNext]_allVars
  PROVE  [Next]_vars \/ \E g \in Guests : AddInvitedMember(g)
<1>1. ASSUME NEW g \in Guests, GuestStep(g), ~AddInvitedMember(g)
      PROVE  UNCHANGED vars
  BY <1>1
  DEF GuestStep, ReceiveCreate, ReceiveAccept, Arrive, Unwritten, OrgResolver,
      RequireManageMembers, CreateOrgInvite, FindOrgInviteByToken, AcceptOrgInvite, FailInvite
<1>2. ASSUME NEW i \in Invites, Expire(i)
      PROVE  UNCHANGED vars
  BY <1>2 DEF Expire
<1>3. QED
  BY <1>1, <1>2 DEF InviteNext, allVars

(* A member who comes in overlaps every request under way. *)
LEMMA InvitedChecks ==
  ASSUME TypeOK, ChecksHoldUnlessOverlapped, NEW g \in Guests, AddInvitedMember(g)
  PROVE  ChecksHoldUnlessOverlapped'
<1> SUFFICES ASSUME NEW v \in Workers, ~Idle(v)', ~overlapped'[v]
             PROVE  ChecksHold(v)'
  BY DEF ChecksHoldUnlessOverlapped
<1>1. pc' = pc /\ req' = req /\ org' = org
  BY DEF AddInvitedMember
<1>2. ~Idle(v) /\ ~overlapped[v] /\ members' = members
  BY <1>1 DEF AddInvitedMember, Idle
<1>3. QED
  BY <1>1, <1>2, ChecksHoldElsewhere DEF ChecksHoldUnlessOverlapped, dbVars

LEMMA InviteChecksStep ==
  InviteTypeOK /\ ChecksHoldUnlessOverlapped /\ [InviteNext]_allVars
    => ChecksHoldUnlessOverlapped'
  BY InviteStepCases, NextChecks, InvitedChecks DEF InviteTypeOK

(* What a membership request has checked is still true when it writes,     *)
(* unless a request or an invite wrote in between.                         *)
THEOREM InviteChecksHold == InviteSpec => []ChecksHoldUnlessOverlapped
<1>1. InviteInit => ChecksHoldUnlessOverlapped
  BY DEF InviteInit, Init, ChecksHoldUnlessOverlapped, Idle
<1>2. QED
  BY <1>1, InviteChecksStep, InviteTypeCorrect, PTL DEF InviteSpec

(* The members of a soft-deleted organisation change only by requests that *)
(* were under way when it was deleted, or by an invite that AcceptInvite   *)
(* had marked: nothing after its lookup looks at deleted_at.               *)
THEOREM DeletedTakesInvited == InviteSpec => DeletedOrgTakesOnlyInvited
<1>1. ASSUME InviteTypeOK, ChecksHoldUnlessOverlapped, [InviteNext]_allVars,
             ~org.live, members' # members
      PROVE  \/ \E w \in Workers : pc[w] = "Write" /\ pc'[w] = "idle" /\ overlapped[w]
             \/ \E g \in Guests : /\ Holds(g, job[g].invite)
                                  /\ <<job[g].invite, job[g].user>> \in admitted'
  <2>1. CASE [Next]_vars
    <3>1. OverlappedWrite
      BY <1>1, <2>1, DeletedStep DEF InviteTypeOK, dbVars
    <3>2. QED
      BY <3>1 DEF OverlappedWrite
  <2>2. ASSUME NEW g \in Guests, AddInvitedMember(g)
        PROVE  Holds(g, job[g].invite) /\ <<job[g].invite, job[g].user>> \in admitted'
    BY <2>2 DEF AddInvitedMember, Holds
  <2>3. QED
    BY <1>1, <2>1, <2>2, InviteStepCases
<1>2. InviteTypeOK /\ ChecksHoldUnlessOverlapped /\ [InviteNext]_allVars =>
        (~org.live /\ members' # members =>
           \/ \E w \in Workers : pc[w] = "Write" /\ pc'[w] = "idle" /\ overlapped[w]
           \/ \E g \in Guests : /\ Holds(g, job[g].invite)
                                /\ <<job[g].invite, job[g].user>> \in admitted')
  BY <1>1
<1>3. QED
  BY <1>2, InviteTypeCorrect, InviteChecksHold, PTL DEF InviteSpec, DeletedOrgTakesOnlyInvited

(* ensureNotLastOwner holds beside invites: accepting one never takes an   *)
(* owner (ON CONFLICT DO NOTHING), so the last owner still goes only by a  *)
(* request that another's write overlapped.                                *)
THEOREM InvitesLockNobodyOut == InviteSpec => InvitedLockoutNeedsOverlap
<1>1. ASSUME InviteTypeOK, ChecksHoldUnlessOverlapped, [InviteNext]_allVars,
             Owners # {}, Owners' = {}
      PROVE  \E w \in Workers : pc[w] = "Write" /\ pc'[w] = "idle" /\ overlapped[w]
  <2>1. ASSUME NEW g \in Guests, AddInvitedMember(g)
        PROVE  Owners \subseteq Owners'
    <3>1. members \in [Users -> Roles \cup {NoRow}]
      BY <1>1 DEF InviteTypeOK, TypeOK
    <3>2. \A u \in Users : members[u] # NoRow => members'[u] = members[u]
      BY <2>1, <3>1 DEF AddInvitedMember
    <3>3. "owner" # NoRow
      BY DEF NoRow, Atomic!NoRow
    <3>4. QED
      BY <3>2, <3>3 DEF Owners, Atomic!Owners
  <2>2. [Next]_vars
    BY <1>1, <2>1, InviteStepCases
  <2>3. OverlappedWrite
    BY <1>1, <2>2, LockoutStep DEF InviteTypeOK
  <2>4. QED
    BY <2>3 DEF OverlappedWrite
<1>2. InviteTypeOK /\ ChecksHoldUnlessOverlapped /\ [InviteNext]_allVars =>
        (Owners # {} /\ Owners' = {} =>
           \E w \in Workers : pc[w] = "Write" /\ pc'[w] = "idle" /\ overlapped[w])
  BY <1>1
<1>3. QED
  BY <1>2, InviteTypeCorrect, InviteChecksHold, PTL DEF InviteSpec, InvitedLockoutNeedsOverlap

(* An insert of a guest leaves the membership requests where they are. *)
LEMMA InvitedLeavesRequests ==
  ASSUME NEW g \in Guests, AddInvitedMember(g)
  PROVE  pc' = pc /\ req' = req /\ reply' = reply
  BY DEF AddInvitedMember

(* A membership request that nothing overlapped, neither another nor an    *)
(* invite, writes as the atomic service does.                              *)
THEOREM InviteAtomicWrites == InviteSpec => UnoverlappedWritesAreAtomic
<1>1. ASSUME InviteTypeOK, ChecksHoldUnlessOverlapped, [InviteNext]_allVars
      PROVE  UnoverlappedAreAtomic
  <2>1. ASSUME NEW g \in Guests, AddInvitedMember(g)
        PROVE  UnoverlappedAreAtomic
    BY <2>1, InvitedLeavesRequests DEF UnoverlappedAreAtomic
  <2>2. QED
    BY <1>1, <2>1, InviteStepCases, AtomicStep DEF InviteTypeOK
<1>2. InviteTypeOK /\ ChecksHoldUnlessOverlapped /\ [InviteNext]_allVars => UnoverlappedAreAtomic
  BY <1>1
<1>3. QED
  BY <1>2, InviteTypeCorrect, InviteChecksHold, PTL
  DEF InviteSpec, UnoverlappedWritesAreAtomic, UnoverlappedAreAtomic

(* A change of role that is acknowledged has taken effect, unless a request*)
(* wrote, or an accepted invite inserted, since the target was looked up.  *)
THEOREM InviteAcknowledgedHold == InviteSpec => AcknowledgedRoleChangeHolds
<1>1. InviteInit => BusyUnanswered
  BY DEF InviteInit, Init, BusyUnanswered, Idle
<1>2. ASSUME InviteTypeOK, ChecksHoldUnlessOverlapped, BusyUnanswered, [InviteNext]_allVars
      PROVE  AcknowledgedHold /\ BusyUnanswered'
  <2>1. ASSUME NEW g \in Guests, AddInvitedMember(g)
        PROVE  AcknowledgedHold /\ BusyUnanswered'
    <3>1. pc' = pc /\ req' = req /\ reply' = reply
      BY <2>1, InvitedLeavesRequests
    <3>2. BusyUnanswered'
      BY <1>2, <3>1 DEF BusyUnanswered, Idle
    <3>3. \A w \in Workers : pc[w] = "Write" => reply[w] = "none"
      BY <1>2 DEF BusyUnanswered, Idle
    <3>4. AcknowledgedHold
      BY <3>1, <3>3 DEF AcknowledgedHold, Serving
    <3>5. QED
      BY <3>2, <3>4
  <2>2. QED
    BY <1>2, <2>1, InviteStepCases, AcknowledgedStep, NextUnanswered DEF InviteTypeOK
<1>3. InviteTypeOK /\ ChecksHoldUnlessOverlapped /\ BusyUnanswered /\ [InviteNext]_allVars
        => AcknowledgedHold /\ BusyUnanswered'
  BY <1>2
<1>4. QED
  BY <1>1, <1>3, InviteTypeCorrect, InviteChecksHold, PTL
  DEF InviteSpec, AcknowledgedRoleChangeHolds, AcknowledgedHold
=============================================================================
