---------------------------- MODULE AuthSessions ----------------------------
(***************************************************************************)
(* Accounts and refresh-token sessions (internal/auth: service_impl.go,    *)
(* repository_pg.go, db/queries/auth.sql) under concurrent requests.       *)
(*                                                                         *)
(* A worker is the goroutine of one HTTP request; pc[w] is the statement   *)
(* it issues next.  Register's four statements run in one transaction and  *)
(* are one step; every other statement commits on its own.  A refresh      *)
(* token is 32 random bytes and stands for its session row (the row holds  *)
(* the token's hash).                                                      *)
(***************************************************************************)
EXTENDS Integers, FiniteSets

CONSTANTS
  Emails,
  Slug,       (* slugifyEmail: the slug of each e-mail's personal org      *)
  Tokens,     (* refresh tokens that can be generated: bounds the sessions *)
  Workers

NoToken == "no such token"

ASSUME SetsAssumption ==
  /\ IsFiniteSet(Tokens) /\ IsFiniteSet(Workers)
  /\ NoToken \notin Tokens

VARIABLES
  accounts,   (* rows of users, by e-mail; each has its row of orgs        *)
  sessions,   (* the row of sessions each token has, or has had            *)
  known,      (* tokens that reached a client                              *)
  pc, req, reply,
  dead        (* history: the request's token was unusable on arrival      *)

vars == <<accounts, sessions, known, pc, req, reply, dead>>

(* parent is history: the token a session was refreshed from.  A row stays *)
(* in the table after expires_at: FindSessionByTokenHash overlooks it.     *)
Session == [status : {"live", "expired", "deleted"}, user : Emails,
            parent : Tokens \cup {NoToken}]

NoSession == [status |-> "none"]

Issued == {t \in Tokens : sessions[t] # NoSession}

Usable(t) == t \in Issued /\ sessions[t].status = "live"

(* valid: the fields are there and the password has eight characters.      *)
RegisterRequest == [kind : {"Register"}, email : Emails, valid : BOOLEAN]
LoginRequest    == [kind : {"Login"}, email : Emails, password : {"right", "wrong"}]
RefreshRequest  == [kind : {"Refresh"}, token : Tokens \cup {NoToken}]
LogoutRequest   == [kind : {"Logout"}, token : Tokens \cup {NoToken}]

Request   == RegisterRequest \cup LoginRequest \cup RefreshRequest \cup LogoutRequest
NoRequest == [kind |-> "none"]

Statements == {"Register", "FindUserByEmail", "FindSessionByTokenHash", "DeleteSession",
               "FindUserByID", "CreateSession"}

Replies == {"none", "ok", "invalid", "conflict", "unauthorized", "internal"}

Idle(w) == pc[w] = "idle"

Proceed(w, statement) ==
  /\ pc' = [pc EXCEPT ![w] = statement]
  /\ UNCHANGED <<req, reply, dead>>

Answer(w, code) ==
  /\ pc'    = [pc EXCEPT ![w] = "idle"]
  /\ req'   = [req EXCEPT ![w] = NoRequest]
  /\ reply' = [reply EXCEPT ![w] = code]
  /\ dead'  = [dead EXCEPT ![w] = FALSE]

Unwritten == UNCHANGED <<accounts, sessions, known>>

-----------------------------------------------------------------------------
Init ==
  /\ accounts = {}
  /\ sessions = [t \in Tokens |-> NoSession]
  /\ known = {}
  /\ pc    = [w \in Workers |-> "idle"]
  /\ req   = [w \in Workers |-> NoRequest]
  /\ reply = [w \in Workers |-> "none"]
  /\ dead  = [w \in Workers |-> FALSE]

FirstStatement(q) ==
  CASE q.kind = "Register" -> "Register"
    [] q.kind = "Login"    -> "FindUserByEmail"
    [] OTHER               -> "FindSessionByTokenHash"

(* Clients present tokens they were given, or something else (NoToken).    *)
Receive(w, q) ==
  /\ Idle(w)
  /\ q.kind \in {"Refresh", "Logout"} => q.token \in known \cup {NoToken}
  /\ \/ /\ q.kind = "Register" /\ ~q.valid
        /\ Answer(w, "invalid")
     \/ /\ q.kind = "Register" => q.valid
        /\ pc'    = [pc EXCEPT ![w] = FirstStatement(q)]
        /\ req'   = [req EXCEPT ![w] = q]
        /\ reply' = [reply EXCEPT ![w] = "none"]
        /\ dead'  = [dead EXCEPT ![w] = q.kind \in {"Refresh", "Logout"} /\ ~Usable(q.token)]
  /\ Unwritten

(* CreateOrg, CreateUser, CreateOrgUnit and Commit: the slug is unique, and*)
(* a violation is reported as the e-mail's being registered.               *)
Register(w) ==
  /\ pc[w] = "Register"
  /\ LET taken == \E e \in accounts : Slug[e] = Slug[req[w].email] IN
     \/ taken /\ Answer(w, "conflict") /\ UNCHANGED accounts
     \/ /\ ~taken
        /\ accounts' = accounts \cup {req[w].email}
        /\ Proceed(w, "CreateSession")
  /\ UNCHANGED <<sessions, known>>

(* ... and VerifyPassword: the same answer for both refusals. *)
FindUserByEmail(w) ==
  /\ pc[w] = "FindUserByEmail"
  /\ LET admitted == req[w].email \in accounts /\ req[w].password = "right" IN
     \/ ~admitted /\ Answer(w, "unauthorized")
     \/ admitted /\ Proceed(w, "CreateSession")
  /\ Unwritten

(* Mutant of FindSessionByTokenHash: expires_at > now() is forgotten. *)
FindOldSessionByTokenHash(w) ==
  /\ pc[w] = "FindSessionByTokenHash"
  /\ LET found == req[w].token \in Issued /\ sessions[req[w].token].status # "deleted" IN
     \/ ~found /\ req[w].kind = "Refresh" /\ Answer(w, "unauthorized")
     \/ ~found /\ req[w].kind = "Logout" /\ Answer(w, "ok")
     \/ found /\ Proceed(w, "DeleteSession")
  /\ Unwritten

FindSessionByTokenHash(w) ==
  /\ pc[w] = "FindSessionByTokenHash"
  /\ \/ ~Usable(req[w].token) /\ req[w].kind = "Refresh" /\ Answer(w, "unauthorized")
     \/ ~Usable(req[w].token) /\ req[w].kind = "Logout" /\ Answer(w, "ok")
     \/ Usable(req[w].token) /\ Proceed(w, "DeleteSession")
  /\ Unwritten

(* Mutant of DeleteSession: only a logout deletes the row. *)
DeleteOnLogout(w) ==
  /\ pc[w] = "DeleteSession"
  /\ \/ req[w].kind = "Refresh" /\ Proceed(w, "FindUserByID") /\ UNCHANGED sessions
     \/ /\ req[w].kind = "Logout" /\ \E code \in {"ok", "internal"} : Answer(w, code)
        /\ sessions' = [sessions EXCEPT ![req[w].token].status = "deleted"]
  /\ UNCHANGED <<accounts, known>>

(* DELETE ... WHERE id: whether it found the row is not asked. *)
DeleteSession(w) ==
  /\ pc[w] = "DeleteSession"
  /\ sessions' = [sessions EXCEPT ![req[w].token].status = "deleted"]
  /\ \/ req[w].kind = "Refresh" /\ Proceed(w, "FindUserByID")
     \/ req[w].kind = "Logout" /\ \E code \in {"ok", "internal"} : Answer(w, code)
  /\ UNCHANGED <<accounts, known>>

(* No code deletes users, so a session's user is found. *)
FindUserByID(w) ==
  /\ pc[w] = "FindUserByID"
  /\ sessions[req[w].token].user \in accounts
  /\ Proceed(w, "CreateSession")
  /\ Unwritten

(* issueTokenPair.  The token is lost when the answer is an error though   *)
(* the row was committed.                                                  *)
CreateSession(w) ==
  /\ pc[w] = "CreateSession"
  /\ \E t \in Tokens \ Issued, code \in {"ok", "internal"} :
       /\ sessions' = [sessions EXCEPT ![t] =
            IF req[w].kind = "Refresh"
            THEN [status |-> "live", user |-> sessions[req[w].token].user,
                  parent |-> req[w].token]
            ELSE [status |-> "live", user |-> req[w].email, parent |-> NoToken]]
       /\ known' = IF code = "ok" THEN known \cup {t} ELSE known
       /\ Answer(w, code)
  /\ UNCHANGED accounts

(* A statement fails, or the request's context ends, before the statement  *)
(* took effect.  Logout takes any failure to look the session up for its   *)
(* being gone already.                                                     *)
Fail(w) ==
  /\ ~Idle(w)
  /\ Answer(w, IF pc[w] = "FindSessionByTokenHash" /\ req[w].kind = "Logout"
               THEN "ok" ELSE "internal")
  /\ Unwritten

Expire(t) ==
  /\ Usable(t)
  /\ sessions' = [sessions EXCEPT ![t].status = "expired"]
  /\ UNCHANGED <<accounts, known, pc, req, reply, dead>>

Step(w) ==
  \/ Register(w)
  \/ FindUserByEmail(w)
  \/ FindSessionByTokenHash(w)
  \/ DeleteSession(w)
  \/ FindUserByID(w)
  \/ CreateSession(w)

Next ==
  \/ \E w \in Workers :
       \/ \E q \in Request : Receive(w, q)
       \/ Step(w)
       \/ Fail(w)
  \/ \E t \in Tokens : Expire(t)

Spec == Init /\ [][Next]_vars

-----------------------------------------------------------------------------
(* Properties *)

Stage(w) ==
  /\ req[w] \in Request
  /\ pc[w] = "Register" => req[w].kind = "Register"
  /\ pc[w] = "FindUserByEmail" => req[w].kind = "Login"
  /\ pc[w] \in {"FindSessionByTokenHash", "DeleteSession"} => req[w].kind \in {"Refresh", "Logout"}
  /\ pc[w] = "FindUserByID" => req[w].kind = "Refresh"
  /\ pc[w] = "CreateSession" => req[w].kind \in {"Register", "Login", "Refresh"}
  /\ pc[w] = "CreateSession" /\ req[w].kind # "Refresh" => req[w].email \in accounts
  /\ pc[w] \in {"DeleteSession", "FindUserByID", "CreateSession"}
       /\ req[w].kind \in {"Refresh", "Logout"} => req[w].token \in Issued

(* Every variable keeps its type; clients know issued tokens only, and     *)
(* every session belongs to an account (issueTokenPair's user is loaded).  *)
TypeOK ==
  /\ accounts \subseteq Emails
  /\ sessions \in [Tokens -> Session \cup {NoSession}]
  /\ known \subseteq Issued
  /\ \A t \in Issued : sessions[t].user \in accounts
  /\ pc \in [Workers -> Statements \cup {"idle"}]
  /\ req \in [Workers -> Request \cup {NoRequest}]
  /\ reply \in [Workers -> Replies]
  /\ dead \in [Workers -> BOOLEAN]
  /\ \A w \in Workers : IF Idle(w) THEN req[w] = NoRequest ELSE Stage(w)

(* Refreshes that have found session t, before and after they delete it.   *)
Deleting(t) == {w \in Workers : pc[w] = "DeleteSession" /\ req[w].kind = "Refresh"
                                 /\ req[w].token = t}
Replacing(t) == {w \in Workers : pc[w] \in {"FindUserByID", "CreateSession"}
                                  /\ req[w].kind = "Refresh" /\ req[w].token = t}
Children(t) == {c \in Issued : sessions[c].parent = t}

(* A token is revoked before a new one is issued for it and never comes    *)
(* back (service_impl.go:87).                                              *)
UsedIsRevoked ==
  \A t \in Tokens :
    Replacing(t) # {} \/ Children(t) # {} => t \in Issued /\ sessions[t].status = "deleted"

(* FindSessionByTokenHash and DeleteSession are two statements, so requests*)
(* racing on a token may each get a pair for it; but no more of them than  *)
(* were in flight together, however long the token stays around.           *)
BoundedReuse ==
  \A t \in Tokens :
    Cardinality(Children(t)) + Cardinality(Replacing(t)) + Cardinality(Deleting(t))
      <= Cardinality(Workers)

(* A refresh or logout that arrives after its token was revoked or expired *)
(* never gets past the lookup.                                             *)
DeadTokensRefused ==
  \A w \in Workers : ~Idle(w) /\ dead[w] => pc[w] = "FindSessionByTokenHash"

(* The step answers worker w's request, which presented token t. *)
Answered(w, t, code) ==
  ~Idle(w) /\ pc'[w] = "idle" /\ req[w].token = t /\ reply'[w] = code

(* An acknowledged refresh leaves its caller with one usable pair: the new *)
(* token is live, the presented one is not.                                *)
RefreshRotates ==
  [][\A w \in Workers, t \in Tokens :
       req[w].kind = "Refresh" /\ Answered(w, t, "ok") =>
         /\ ~Usable(t)'
         /\ \E c \in known' \ known : Usable(c)' /\ sessions'[c].parent = t]_vars

(* features/007-auth/README.md:44: a refresh token has a single use.       *)
SingleUse == \A t \in Tokens : Cardinality(Children(t)) <= 1
=============================================================================
