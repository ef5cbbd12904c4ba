---------------------------- MODULE AccessTokens ----------------------------
(***************************************************************************)
(* Access tokens (internal/auth: jwt.go, middleware.go, rbac.go and the    *)
(* authenticated handlers) beside the sessions they are issued with, under *)
(* a clock.                                                                *)
(*                                                                         *)
(* An access token is signed before the row of its session is inserted and *)
(* is good until it expires: nothing looks at the sessions again.  Of an   *)
(* account's access tokens only the time left of the longest-lived is kept:*)
(* clients may present that or one with less.                              *)
(***************************************************************************)
EXTENDS AuthSessions

CONSTANTS
  Visitors,   (* goroutines serving requests on authenticated routes       *)
  Lifetime    (* Signer.duration, in ticks                                 *)

ASSUME LifetimeAssumption == Lifetime \in Nat

VARIABLES
  signed,     (* time left of the token that each worker has yet to deliver*)
  held,       (* ... and of the longest-lived that clients of an account   *)
              (* hold; 0: none, or expired                                 *)
  visit,      (* what each visitor is at, or how it was last answered      *)
  since       (* history: ticks, up to Lifetime, since an account last had *)
              (* a live session or a request that had been let in          *)

accessVars == <<signed, held, visit, since>>
allVars    == <<vars, accessVars>>

(* The user issueTokenPair is called for. *)
UserOf(w) == IF req[w].kind = "Refresh" THEN sessions[req[w].token].user ELSE req[w].email

(* Its password was right, or its refresh token was found. *)
LetIn(w) ==
  \/ pc[w] = "CreateSession"
  \/ pc[w] \in {"DeleteSession", "FindUserByID"} /\ req[w].kind = "Refresh"

Entitled(e) ==
  \/ \E t \in Tokens : Usable(t) /\ sessions[t].user = e
  \/ \E w \in Workers : LetIn(w) /\ UserOf(w) = e

-----------------------------------------------------------------------------
(* Tokens and headers *)

(* users.role goes into the claims: Register writes "owner", and no         *)
(* statement updates it.                                                   *)
Claims == [user : Emails, role : {"owner"}]

(* ours: signed with the secret.  left is exp - now. *)
Token == [ours : BOOLEAN, claims : Claims, left : 0..Lifetime]

Header == [bearer : BOOLEAN, token : Token]

(* The time left of a new token. *)
Sign == Lifetime

(* Mutant of Verify: only the signature is verified. *)
VerifySignature(token) == token.ours

(* The signature, and that exp is still to come. *)
Verify(token) == token.ours /\ token.left > 0

(* The roles whose permissions include members:manage. *)
Managers == {"owner", "admin"}

Can(role) == role \in Managers

Query(e) == [at |-> "query", user |-> e]

Done(code) == [at |-> "idle", answer |-> code]

Visit == [at : {"query"}, user : Emails] \cup [at : {"idle"}, answer : {"none", "ok", "error"}]

-----------------------------------------------------------------------------
AccessInit ==
  /\ Init
  /\ signed = [w \in Workers |-> 0]
  /\ held = [e \in Emails |-> 0]
  /\ visit = [v \in Visitors |-> Done("none")]
  /\ since = [e \in Emails |-> Lifetime]

Observe == since' = [e \in Emails |-> IF Entitled(e)' THEN 0 ELSE since[e]]

(* The statement after which issueTokenPair signs the access token. *)
Issue(w) ==
  /\ Register(w) \/ FindUserByEmail(w) \/ FindUserByID(w)
  /\ signed' = IF pc'[w] = "CreateSession" THEN [signed EXCEPT ![w] = Sign] ELSE signed
  /\ Observe /\ UNCHANGED <<held, visit>>

(* ... and inserts the session, upon which both tokens are delivered.      *)
Deliver(w) ==
  /\ CreateSession(w)
  /\ signed' = [signed EXCEPT ![w] = 0]
  /\ held' = IF reply'[w] = "ok" /\ signed[w] > held[UserOf(w)]
             THEN [held EXCEPT ![UserOf(w)] = signed[w]]
             ELSE held
  /\ Observe /\ UNCHANGED visit

(* The rest of the sessions' steps issue no access token; a failure loses  *)
(* the one that was signed.                                                *)
Rest(w) ==
  /\ \/ \E q \in Request : Receive(w, q)
     \/ FindSessionByTokenHash(w)
     \/ DeleteSession(w)
     \/ Fail(w)
  /\ signed' = [signed EXCEPT ![w] = 0]
  /\ Observe /\ UNCHANGED <<held, visit>>

SessionExpires(t) ==
  /\ Expire(t)
  /\ Observe /\ UNCHANGED <<signed, held, visit>>

Tick ==
  LET Down(left) == IF left > 0 THEN left - 1 ELSE 0 IN
  /\ signed' = [w \in Workers |-> Down(signed[w])]
  /\ held' = [e \in Emails |-> Down(held[e])]
  /\ since' = [e \in Emails |->
       IF Entitled(e) THEN 0 ELSE IF since[e] < Lifetime THEN since[e] + 1 ELSE Lifetime]
  /\ UNCHANGED <<vars, visit>>

-----------------------------------------------------------------------------
(* Requests on authenticated routes: Auth, then the handler.               *)

(* Clients present what they hold, what they held, or something else.      *)
Presentable(h) ==
  h.token.ours => /\ h.token.claims.user \in accounts
                  /\ h.token.left <= held[h.token.claims.user]

Visited(v, outcome) ==
  /\ visit' = [visit EXCEPT ![v] = outcome]
  /\ UNCHANGED <<vars, signed, held, since>>

(* GET /me/permissions is answered out of the claims, and the statements of*)
(* the other handlers read what is theirs: FindUserByID and GetUserOrgs    *)
(* take the user of the claims.                                            *)
Authenticated(v, claims) ==
  \/ Visited(v, Query(claims.user))
  \/ Visited(v, Done("ok"))

(* Before POST /orgs/{slug}/invites. *)
Require(v, claims) == Visited(v, Done(IF Can(claims.role) THEN "ok" ELSE "error"))

Auth(v, h) ==
  /\ visit[v].at = "idle" /\ Presentable(h)
  /\ \/ ~(h.bearer /\ Verify(h.token)) /\ Visited(v, Done("error"))
     \/ /\ h.bearer /\ Verify(h.token)
        /\ Authenticated(v, h.token.claims) \/ Require(v, h.token.claims)

(* FindUserByID of Me, or GetUserOrgs of MyOrgs; either may fail. *)
Read(v) ==
  /\ visit[v].at = "query"
  /\ \/ visit[v].user \in accounts /\ Visited(v, Done("ok"))
     \/ Visited(v, Done("error"))

AccessNext ==
  \/ \E w \in Workers : Issue(w) \/ Deliver(w) \/ Rest(w)
  \/ \E t \in Tokens : SessionExpires(t)
  \/ Tick
  \/ \E v \in Visitors :
       \/ \E h \in Header : Auth(v, h)
       \/ Read(v)

AccessSpec == AccessInit /\ [][AccessNext]_allVars

-----------------------------------------------------------------------------
(* Properties *)

(* Every variable keeps its type, and only accounts have tokens. *)
AccessTypeOK ==
  /\ signed \in [Workers -> 0..Lifetime]
  /\ held \in [Emails -> 0..Lifetime]
  /\ \A e \in Emails : held[e] > 0 => e \in accounts
  /\ visit \in [Visitors -> Visit]
  /\ since \in [Emails -> 0..Lifetime]

(* Nothing revokes an access token, so a logout (or the end of the refresh *)
(* token) leaves it to its expiry; but no later than Lifetime after an     *)
(* account's last session and last request that was let in, no request in  *)
(* its name is (jwt.go:44, service_impl.go:149).                           *)
LockedOutInTime ==
  [][\A v \in Visitors :
       visit[v].at = "idle" /\ visit'[v].at # "idle" => since[visit'[v].user] < Lifetime]_allVars
=============================================================================
