----------------------------- MODULE OrgInvites -----------------------------
(***************************************************************************)
(* The invite flow (internal/org: invite_handler.go,                       *)
(* invite_service_impl.go, invite_repository_pg.go, db/queries/rbac.sql)   *)
(* running beside the membership requests of OrgMembership on the same     *)
(* organisation.  Guests are the goroutines serving invite requests; as    *)
(* for Workers, each SQL statement is a step, outside any transaction.     *)
(*                                                                         *)
(* auth.Require stands before CreateInvite with the role in the caller's   *)
(* token.  That is users.role, which Register sets to "owner" and nothing  *)
(* changes, so it always passes; the role in org_members, which            *)
(* RequireManageMembers reads, is another.                                 *)
(***************************************************************************)
EXTENDS OrgMembership

CONSTANTS
  Guests,
  Invites     (* invites that can be issued: bounds CreateInvite           *)

ASSUME GuestsAssumption == IsFiniteSet(Guests) /\ IsFiniteSet(Invites)

VARIABLES
  invites,    (* rows of org_invites, NoInvite until inserted              *)
  stage,      (* the statement each guest issues next                      *)
  job,        (* the request each guest serves                             *)
  answer,     (* the answer each guest gave last                           *)
  admitted,   (* history: <<i, u>>, invite i inserted user u as a member   *)
  burned      (* history: invites marked accepted by a request that failed *)

inviteVars == <<invites, stage, job, answer, admitted, burned>>
allVars    == <<vars, inviteVars>>

(* expired: expires_at <= now(), seven days after the insert. *)
InviteRow == [role : Roles, accepted : BOOLEAN, expired : BOOLEAN]

NoInvite == [role |-> "none"]

Issued == {i \in Invites : invites[i] # NoInvite}

(* The request's host names the organisation as a subdomain, or does not.  *)
CreateJob == [kind : {"CreateInvite"}, subdomain : BOOLEAN, caller : Users,
              role : Roles \cup {BadRole}]

(* late: the invite was expired already when the request arrived.          *)
AcceptJob == [kind : {"AcceptInvite"}, subdomain : BOOLEAN, invite : Invites,
              user : Users, late : BOOLEAN]

InviteStatements ==
  {"OrgResolver", "FindCaller", "CreateOrgInvite", "FindOrgInviteByToken",
   "AcceptOrgInvite", "AddOrgMember"}

InviteAnswers == {"none", "ok", "bad request", "not found", "invalid", "forbidden",
                  "conflict", "internal"}

Free(g) == stage[g] = "idle"

GoOn(g, statement) ==
  /\ stage' = [stage EXCEPT ![g] = statement]
  /\ UNCHANGED <<job, answer>>

Finish(g, code) ==
  /\ stage'  = [stage EXCEPT ![g] = "idle"]
  /\ job'    = [job EXCEPT ![g] = NoRequest]
  /\ answer' = [answer EXCEPT ![g] = code]

Unwritten == UNCHANGED <<vars, invites, admitted, burned>>

-----------------------------------------------------------------------------
InviteInit ==
  /\ Init
  /\ invites  = [i \in Invites |-> NoInvite]
  /\ stage    = [g \in Guests |-> "idle"]
  /\ job      = [g \in Guests |-> NoRequest]
  /\ answer   = [g \in Guests |-> "none"]
  /\ admitted = {}
  /\ burned   = {}

Arrive(g, j, statement) ==
  /\ Free(g)
  /\ stage'  = [stage EXCEPT ![g] = statement]
  /\ job'    = [job EXCEPT ![g] = j]
  /\ answer' = [answer EXCEPT ![g] = "none"]
  /\ Unwritten

(* Without a subdomain the handler has no organisation: 400, no statement. *)
ReceiveCreate(g) ==
  \/ \E j \in CreateJob : j.subdomain /\ Arrive(g, j, "OrgResolver")
  \/ Free(g) /\ Finish(g, "bad request") /\ Unwritten

(* The service never asks which organisation the accepting request names.  *)
ReceiveAccept(g) ==
  \E j \in AcceptJob :
    /\ j.invite \in Issued
    /\ j.late = invites[j.invite].expired
    /\ Arrive(g, j, IF j.subdomain THEN "OrgResolver" ELSE "FindOrgInviteByToken")

(* The middleware's FindBySlug; then CreateInvite validates the role. *)
OrgResolver(g) ==
  /\ stage[g] = "OrgResolver"
  /\ \/ ~org.live /\ Finish(g, "not found")
     \/ org.live /\ job[g].kind = "AcceptInvite" /\ GoOn(g, "FindOrgInviteByToken")
     \/ /\ org.live /\ job[g].kind = "CreateInvite"
        /\ \/ job[g].role \notin validRoles /\ Finish(g, "invalid")
           \/ job[g].role \in validRoles /\ GoOn(g, "FindCaller")
  /\ Unwritten

MayInvite(c) == members[c] # NoRow /\ Can(members[c], "members:manage")

RequireManageMembers(g) ==
  /\ stage[g] = "FindCaller"
  /\ \/ ~MayInvite(job[g].caller) /\ Finish(g, "forbidden")
     \/ MayInvite(job[g].caller) /\ GoOn(g, "CreateOrgInvite")
  /\ Unwritten

CreateOrgInvite(g) ==
  /\ stage[g] = "CreateOrgInvite"
  /\ \E i \in Invites \ Issued, code \in {"ok", "internal"} :
       /\ invites' = [invites EXCEPT ![i] =
                        [role |-> job[g].role, accepted |-> FALSE, expired |-> FALSE]]
       /\ Finish(g, code)
  /\ UNCHANGED <<vars, admitted, burned>>

(* Mutant of FindOrgInviteByToken: expires_at > now() is forgotten. *)
FindOldInviteByToken(g) ==
  /\ stage[g] = "FindOrgInviteByToken"
  /\ LET i == invites[job[g].invite] IN
     \/ i.accepted /\ Finish(g, "not found")
     \/ ~i.accepted /\ GoOn(g, "AcceptOrgInvite")
  /\ Unwritten

(* WHERE expires_at > now() AND accepted_at IS NULL *)
FindOrgInviteByToken(g) ==
  /\ stage[g] = "FindOrgInviteByToken"
  /\ LET i == invites[job[g].invite] IN
     \/ (i.expired \/ i.accepted) /\ Finish(g, "not found")
     \/ ~i.expired /\ ~i.accepted /\ GoOn(g, "AcceptOrgInvite")
  /\ Unwritten

(* Mutant of AcceptOrgInvite: accepted_at IS NULL is forgotten. *)
AcceptSpentInvite(g) ==
  /\ stage[g] = "AcceptOrgInvite"
  /\ invites' = [invites EXCEPT ![job[g].invite].accepted = TRUE]
  /\ GoOn(g, "AddOrgMember")
  /\ UNCHANGED <<vars, admitted, burned>>

(* Mutant of AcceptOrgInvite: accepted_at is not set. *)
AcceptUnmarked(g) ==
  /\ stage[g] = "AcceptOrgInvite"
  /\ GoOn(g, "AddOrgMember")
  /\ UNCHANGED <<vars, invites, admitted, burned>>

(* WHERE accepted_at IS NULL: the second of two requests gets no row. *)
AcceptOrgInvite(g) ==
  /\ stage[g] = "AcceptOrgInvite"
  /\ LET i == job[g].invite IN
     \/ /\ invites[i].accepted
        /\ Finish(g, "conflict")
        /\ UNCHANGED invites
     \/ /\ ~invites[i].accepted
        /\ invites' = [invites EXCEPT ![i].accepted = TRUE]
        /\ GoOn(g, "AddOrgMember")
  /\ UNCHANGED <<vars, admitted, burned>>

(* Mutant of AddInvitedMember: ON CONFLICT DO UPDATE SET role. *)
UpsertInvitedMember(g) ==
  /\ stage[g] = "AddOrgMember"
  /\ members'  = [members EXCEPT ![job[g].user] = invites[job[g].invite].role]
  /\ admitted' = admitted \cup {<<job[g].invite, job[g].user>>}
  /\ overlapped' = [w \in Workers |-> overlapped[w] \/ (~Idle(w) /\ members' # members)]
  /\ \E code \in {"ok", "internal"} : Finish(g, code)
  /\ UNCHANGED <<org, pc, req, reply, invites, burned>>

(* The repository's AddMember, straight: no cap, no look at the            *)
(* organisation; an existing row keeps its role.                           *)
AddInvitedMember(g) ==
  /\ stage[g] = "AddOrgMember"
  /\ LET i == job[g].invite
         u == job[g].user IN
     /\ members' = IF members[u] = NoRow
                   THEN [members EXCEPT ![u] = invites[i].role]
                   ELSE members
     /\ admitted' = admitted \cup {<<i, u>>}
  /\ overlapped' = [w \in Workers |-> overlapped[w] \/ (~Idle(w) /\ members' # members)]
  /\ \E code \in {"ok", "internal"} : Finish(g, code)
  /\ UNCHANGED <<org, pc, req, reply, invites, burned>>

(* As for Fail: what was written stays written. *)
FailInvite(g) ==
  /\ ~Free(g)
  /\ burned' = IF stage[g] = "AddOrgMember" THEN burned \cup {job[g].invite} ELSE burned
  /\ Finish(g, "internal")
  /\ UNCHANGED <<vars, invites, admitted>>

(* Seven days pass. *)
Expire(i) ==
  /\ i \in Issued
  /\ ~invites[i].expired
  /\ invites' = [invites EXCEPT ![i].expired = TRUE]
  /\ UNCHANGED <<vars, stage, job, answer, admitted, burned>>

GuestStep(g) ==
  \/ ReceiveCreate(g)
  \/ ReceiveAccept(g)
  \/ OrgResolver(g)
  \/ RequireManageMembers(g)
  \/ CreateOrgInvite(g)
  \/ FindOrgInviteByToken(g)
  \/ AcceptOrgInvite(g)
  \/ AddInvitedMember(g)
  \/ FailInvite(g)

InviteNext ==
  \/ Next /\ UNCHANGED inviteVars
  \/ \E g \in Guests : GuestStep(g)
  \/ \E i \in Invites : Expire(i)

InviteSpec == InviteInit /\ [][InviteNext]_allVars

-----------------------------------------------------------------------------
(* Properties *)

GuestStage(g) ==
  /\ job[g] \in CreateJob \cup AcceptJob
  /\ stage[g] \in {"FindCaller", "CreateOrgInvite"} =>
       job[g].kind = "CreateInvite" /\ job[g].role \in Roles
  /\ stage[g] \in {"FindOrgInviteByToken", "AcceptOrgInvite", "AddOrgMember"} =>
       job[g].kind = "AcceptInvite"
  /\ job[g].kind = "AcceptInvite" => job[g].invite \in Issued

(* Every variable keeps its type; a guest at work holds a request that fits*)
(* its statement, and only issued invites can be asked for.                *)
InviteTypeOK ==
  /\ TypeOK
  /\ invites \in [Invites -> InviteRow \cup {NoInvite}]
  /\ stage \in [Guests -> InviteStatements \cup {"idle"}]
  /\ job \in [Guests -> CreateJob \cup AcceptJob \cup {NoRequest}]
  /\ answer \in [Guests -> InviteAnswers]
  /\ admitted \subseteq Issued \X Users
  /\ burned \subseteq Issued
  /\ \A g \in Guests : IF Free(g) THEN job[g] = NoRequest ELSE GuestStage(g)

(* The guest has marked invite i accepted and not yet inserted the member. *)
Holds(g, i) == stage[g] = "AddOrgMember" /\ job[g].invite = i

Spent(i) == i \in Issued /\ invites[i].accepted

(* An invite is spent exactly once: of all the requests presenting its     *)
(* token, one at most gets past AcceptOrgInvite; it then is either about to*)
(* insert its user, or has, or has failed in between and burned the invite *)
(* (invite_service_impl.go:57, the guard as the lock).                     *)
SpentOnce ==
  \A i \in Invites :
    /\ \A g, h \in Guests : Holds(g, i) /\ Holds(h, i) => g = h
    /\ \A u, v \in Users : <<i, u>> \in admitted /\ <<i, v>> \in admitted => u = v
    /\ \A g \in Guests, u \in Users : Holds(g, i) => <<i, u>> \notin admitted
    /\ i \in burned =>
         /\ \A g \in Guests : ~Holds(g, i)
         /\ \A u \in Users : <<i, u>> \notin admitted
    /\ Spent(i) <=> \/ \E g \in Guests : Holds(g, i)
                    \/ \E u \in Users : <<i, u>> \in admitted
                    \/ i \in burned

(* A request that arrived after the invite had expired never spends it: the*)
(* expiry is read once, by FindByToken, and that is enough for it.         *)
LateNeverSpends ==
  \A g \in Guests : stage[g] \in {"AcceptOrgInvite", "AddOrgMember"} => ~job[g].late

(* Invites bypass the member cap, but only one member each: the membership *)
(* exceeds the cap by no more than the requests in flight allow, plus the  *)
(* invites spent.                                                          *)
InvitedOvershootBounded ==
  Capped => Cardinality(Members) + Cardinality(Inserting)
              <= Cap - 1 + Cardinality(Workers) + Cardinality({i \in Invites : Spent(i)})

(* The members of a soft-deleted organisation change only by requests that *)
(* were under way when it was deleted, or by an invite: nothing on the way *)
(* to AddInvitedMember looks at deleted_at.                                *)
DeletedOrgTakesOnlyInvited ==
  [][~org.live /\ members' # members =>
       \/ \E w \in Workers : pc[w] = "Write" /\ pc'[w] = "idle" /\ overlapped[w]
       \/ \E g \in Guests : /\ Holds(g, job[g].invite)
                            /\ <<job[g].invite, job[g].user>> \in admitted']_allVars

(* The membership checks of OrgMembership survive the invites: the last    *)
(* owner still goes only by an overlapped request.                         *)
InvitedLockoutNeedsOverlap ==
  [][Owners # {} /\ Owners' = {} =>
       \E w \in Workers : pc[w] = "Write" /\ pc'[w] = "idle" /\ overlapped[w]]_allVars
=============================================================================
