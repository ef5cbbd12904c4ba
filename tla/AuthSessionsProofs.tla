------------------------- MODULE AuthSessionsProofs -------------------------
(***************************************************************************)
(* Proofs about AuthSessions and AccessTokens, which extends it: first the *)
(* sessions, for any finite sets of tokens and workers and any accounts;   *)
(* then the tokens, for any lifetime and any visitors besides.  What is    *)
(* proved of AuthSessions carries over.                                    *)
(***************************************************************************)
EXTENDS AccessTokens, FiniteSetTheorems, TLAPS

LEMMA RequestFields ==
  ASSUME NEW q \in Request
  PROVE  /\ q.kind \in {"Register", "Login", "Refresh", "Logout"}
         /\ q.kind \in {"Register", "Login"} => q.email \in Emails
         /\ q.kind \in {"Refresh", "Logout"} => q.token \in Tokens \cup {NoToken}
         /\ q # NoRequest
<1>1. q.kind \in {"Register", "Login", "Refresh", "Logout"}
  BY DEF Request, RegisterRequest, LoginRequest, RefreshRequest, LogoutRequest
<1>2. NoRequest.kind \notin {"Register", "Login", "Refresh", "Logout"}
  BY DEF NoRequest
<1>3. QED
  BY <1>1, <1>2 DEF Request, RegisterRequest, LoginRequest, RefreshRequest, LogoutRequest

LEMMA NoSessionIsNoRow == NoSession \notin Session
<1>1. NoSession.status \notin {"live", "expired", "deleted"}
  BY DEF NoSession
<1>2. ASSUME NEW s \in Session
      PROVE  s.status \in {"live", "expired", "deleted"}
  BY DEF Session
<1>3. QED
  BY <1>1, <1>2

LEMMA UsableTokens ==
  ASSUME TypeOK, NEW t, Usable(t)
  PROVE  t \in Issued /\ t \in Tokens /\ sessions[t] \in Session
  BY DEF TypeOK, Usable, Issued

-----------------------------------------------------------------------------
(* Type correctness, in two parts: the rows, and the workers.              *)

RowsOK ==
  /\ accounts \subseteq Emails
  /\ sessions \in [Tokens -> Session \cup {NoSession}]
  /\ known \subseteq Issued
  /\ \A t \in Issued : sessions[t].user \in accounts

WorkersOK ==
  /\ pc \in [Workers -> Statements \cup {"idle"}]
  /\ req \in [Workers -> Request \cup {NoRequest}]
  /\ reply \in [Workers -> Replies]
  /\ dead \in [Workers -> BOOLEAN]
  /\ \A w \in Workers : IF Idle(w) THEN req[w] = NoRequest ELSE Stage(w)

LEMMA AnswerType ==
  ASSUME WorkersOK, NEW w \in Workers, NEW code \in Replies, Answer(w, code),
         accounts \subseteq accounts', Issued \subseteq Issued'
  PROVE  WorkersOK'
  BY DEF WorkersOK, Answer, Idle, Stage

LEMMA ProceedType ==
  ASSUME WorkersOK, NEW w \in Workers, NEW s \in Statements, Proceed(w, s), Stage(w)',
         accounts \subseteq accounts', Issued \subseteq Issued'
  PROVE  WorkersOK'
<1>1. s # "idle"
  BY DEF Statements
<1>2. ASSUME NEW v \in Workers
      PROVE  (IF Idle(v) THEN req[v] = NoRequest ELSE Stage(v))'
  <2>1. CASE v = w
    BY <1>1, <2>1 DEF WorkersOK, Proceed, Idle
  <2>2. CASE v # w
    BY <2>2 DEF WorkersOK, Proceed, Idle, Stage
  <2>3. QED
    BY <2>1, <2>2
<1>3. QED
  BY <1>2 DEF WorkersOK, Proceed

LEMMA UnwrittenRows ==
  ASSUME RowsOK, Unwritten
  PROVE  RowsOK' /\ accounts' = accounts /\ Issued' = Issued
  BY DEF RowsOK, Unwritten, Issued

LEMMA StepType ==
  ASSUME RowsOK, WorkersOK, NEW w \in Workers, Step(w)
  PROVE  RowsOK' /\ WorkersOK'
<1> USE DEF Replies, Statements
<1>1. Stage(w) /\ req[w] \in Request
  BY DEF Step, Register, FindUserByEmail, FindSessionByTokenHash, DeleteSession, FindUserByID,
         CreateSession, WorkersOK, Idle, Stage
<1>2. CASE Register(w)
  <2>1. Issued' = Issued /\ req[w].kind = "Register" /\ req[w].email \in Emails
    BY <1>1, <1>2, RequestFields DEF Register, Issued, Stage
  <2>2. accounts \subseteq accounts' /\ accounts' \subseteq Emails
    BY <1>2, <2>1 DEF Register, RowsOK
  <2>3. RowsOK'
    BY <1>2, <2>1, <2>2 DEF Register, RowsOK
  <2>4. CASE Answer(w, "conflict")
    BY <2>1, <2>2, <2>3, <2>4, AnswerType
  <2>5. CASE accounts' = accounts \cup {req[w].email} /\ Proceed(w, "CreateSession")
    <3>1. Stage(w)'
      BY <1>1, <1>2, <2>1, <2>5 DEF Stage, Proceed, Register, WorkersOK
    <3>2. QED
      BY <2>1, <2>2, <2>3, <2>5, <3>1, ProceedType
  <2>6. QED
    BY <1>2, <2>4, <2>5 DEF Register
<1>3. CASE FindUserByEmail(w)
  <2>1. RowsOK' /\ accounts' = accounts /\ Issued' = Issued
    BY <1>3, UnwrittenRows DEF FindUserByEmail
  <2>2. CASE Answer(w, "unauthorized")
    BY <2>1, <2>2, AnswerType
  <2>3. CASE req[w].email \in accounts /\ Proceed(w, "CreateSession")
    <3>1. Stage(w)'
      BY <1>1, <1>3, <2>1, <2>3 DEF Stage, Proceed, FindUserByEmail, WorkersOK
    <3>2. QED
      BY <2>1, <2>3, <3>1, ProceedType
  <2>4. QED
    BY <1>3, <2>2, <2>3 DEF FindUserByEmail
<1>4. CASE FindSessionByTokenHash(w)
  <2>1. RowsOK' /\ accounts' = accounts /\ Issued' = Issued
    BY <1>4, UnwrittenRows DEF FindSessionByTokenHash
  <2>2. CASE Answer(w, "unauthorized") \/ Answer(w, "ok")
    BY <2>1, <2>2, AnswerType
  <2>3. CASE Usable(req[w].token) /\ Proceed(w, "DeleteSession")
    <3>1. Stage(w)'
      BY <1>1, <1>4, <2>1, <2>3 DEF Stage, Proceed, FindSessionByTokenHash, WorkersOK, Usable
    <3>2. QED
      BY <2>1, <2>3, <3>1, ProceedType
  <2>4. QED
    BY <1>4, <2>2, <2>3 DEF FindSessionByTokenHash
<1>5. CASE DeleteSession(w)
  <2>1. PICK t \in Issued : t = req[w].token
    BY <1>1, <1>5 DEF DeleteSession, Stage
  <2>2. t \in Tokens /\ sessions[t] \in Session
    BY DEF RowsOK, Issued
  <2>3. /\ [sessions[t] EXCEPT !.status = "deleted"] \in Session
        /\ [sessions[t] EXCEPT !.status = "deleted"].user = sessions[t].user
    BY <2>2 DEF Session
  <2>4. Issued' = Issued /\ RowsOK'
    BY <1>5, <2>1, <2>2, <2>3, NoSessionIsNoRow DEF DeleteSession, Issued, RowsOK
  <2>5. CASE req[w].kind = "Refresh" /\ Proceed(w, "FindUserByID")
    <3>1. Stage(w)'
      BY <1>1, <1>5, <2>4, <2>5 DEF Stage, Proceed, DeleteSession, WorkersOK
    <3>2. QED
      BY <1>5, <2>4, <2>5, <3>1, ProceedType DEF DeleteSession
  <2>6. CASE \E code \in {"ok", "internal"} : Answer(w, code)
    BY <1>5, <2>4, <2>6, AnswerType DEF DeleteSession
  <2>7. QED
    BY <1>5, <2>5, <2>6 DEF DeleteSession
<1>6. CASE FindUserByID(w)
  <2>1. RowsOK' /\ accounts' = accounts /\ Issued' = Issued
    BY <1>6, UnwrittenRows DEF FindUserByID
  <2>2. Stage(w)'
    BY <1>1, <1>6, <2>1 DEF Stage, Proceed, FindUserByID, WorkersOK
  <2>3. QED
    BY <1>6, <2>1, <2>2, ProceedType DEF FindUserByID
<1>7. CASE CreateSession(w)
  <2>1. PICK t \in Tokens \ Issued, code \in {"ok", "internal"} :
          /\ sessions' = [sessions EXCEPT ![t] =
               IF req[w].kind = "Refresh"
               THEN [status |-> "live", user |-> sessions[req[w].token].user,
                     parent |-> req[w].token]
               ELSE [status |-> "live", user |-> req[w].email, parent |-> NoToken]]
          /\ known' = IF code = "ok" THEN known \cup {t} ELSE known
          /\ Answer(w, code)
    BY <1>7 DEF CreateSession
  <2>2. /\ req[w].kind = "Refresh" => req[w].token \in Issued /\ req[w].token \in Tokens
        /\ req[w].kind # "Refresh" => req[w].email \in accounts
    BY <1>1, <1>7 DEF CreateSession, Stage, Issued
  <2>3. sessions'[t] \in Session /\ sessions'[t].user \in accounts
    BY <2>1, <2>2 DEF RowsOK, Session
  <2>4. Issued' = Issued \cup {t}
    BY <2>1, <2>3, NoSessionIsNoRow DEF Issued, RowsOK
  <2>5. RowsOK'
    BY <1>7, <2>1, <2>3, <2>4 DEF CreateSession, RowsOK
  <2>6. QED
    BY <1>7, <2>1, <2>4, <2>5, AnswerType DEF CreateSession
<1>8. QED
  BY <1>2, <1>3, <1>4, <1>5, <1>6, <1>7 DEF Step

LEMMA ReceiveType ==
  ASSUME RowsOK, WorkersOK, NEW w \in Workers, NEW q \in Request, Receive(w, q)
  PROVE  RowsOK' /\ WorkersOK'
<1>1. RowsOK' /\ accounts' = accounts /\ Issued' = Issued
  BY UnwrittenRows DEF Receive
<1>2. CASE Answer(w, "invalid")
  BY <1>1, <1>2, AnswerType DEF Replies
<1>3. CASE ~Answer(w, "invalid")
  <2>1. /\ pc' = [pc EXCEPT ![w] = FirstStatement(q)]
        /\ req' = [req EXCEPT ![w] = q]
        /\ reply' = [reply EXCEPT ![w] = "none"]
        /\ dead' = [dead EXCEPT ![w] = q.kind \in {"Refresh", "Logout"} /\ ~Usable(q.token)]
    BY <1>3 DEF Receive
  <2>2. FirstStatement(q) = IF q.kind = "Register" THEN "Register"
                            ELSE IF q.kind = "Login" THEN "FindUserByEmail"
                            ELSE "FindSessionByTokenHash"
    BY RequestFields DEF FirstStatement
  <2>3. pc'[w] = FirstStatement(q) /\ req'[w] = q
    BY <2>1 DEF WorkersOK
  <2>4. Stage(w)'
    BY <2>2, <2>3, RequestFields DEF Stage
  <2>5. ASSUME NEW v \in Workers
        PROVE  (IF Idle(v) THEN req[v] = NoRequest ELSE Stage(v))'
    <3>1. CASE v = w
      BY <2>2, <2>3, <2>4, <3>1 DEF Idle
    <3>2. CASE v # w
      BY <1>1, <2>1, <3>2 DEF WorkersOK, Idle, Stage
    <3>3. QED
      BY <3>1, <3>2
  <2>6. QED
    BY <1>1, <2>1, <2>2, <2>5 DEF WorkersOK, Statements, Replies
<1>4. QED
  BY <1>2, <1>3

LEMMA ExpireType ==
  ASSUME RowsOK, WorkersOK, NEW t \in Tokens, Expire(t)
  PROVE  RowsOK' /\ WorkersOK'
<1>1. t \in Issued /\ sessions[t] \in Session
  BY DEF Expire, Usable, Issued, RowsOK
<1>2. /\ [sessions[t] EXCEPT !.status = "expired"] \in Session
      /\ [sessions[t] EXCEPT !.status = "expired"].user = sessions[t].user
  BY <1>1 DEF Session
<1>3. Issued' = Issued
  BY <1>1, <1>2, NoSessionIsNoRow DEF Expire, Issued, RowsOK
<1>4. RowsOK'
  BY <1>1, <1>2, <1>3 DEF Expire, RowsOK
<1>5. WorkersOK'
  BY <1>3 DEF Expire, WorkersOK, Idle, Stage
<1>6. QED
  BY <1>4, <1>5

LEMMA NextType == TypeOK /\ [Next]_vars => TypeOK'
<1> SUFFICES ASSUME RowsOK, WorkersOK, [Next]_vars
             PROVE  RowsOK' /\ WorkersOK'
  BY DEF TypeOK, RowsOK, WorkersOK
<1>1. CASE UNCHANGED vars
  BY <1>1 DEF vars, RowsOK, WorkersOK, Issued, Idle, Stage
<1>2. ASSUME NEW w \in Workers, Fail(w)
      PROVE  RowsOK' /\ WorkersOK'
  <2>1. RowsOK' /\ accounts' = accounts /\ Issued' = Issued
    BY <1>2, UnwrittenRows DEF Fail
  <2>2. QED
    BY <1>2, <2>1, AnswerType DEF Fail, Replies
<1>3. QED
  BY <1>1, <1>2, StepType, ReceiveType, ExpireType DEF Next

(* Every variable keeps its type, for any number of workers and tokens.    *)
THEOREM TypeCorrect == Spec => []TypeOK
<1>1. Init => TypeOK
  BY DEF Init, TypeOK, Issued, Idle, Replies
<1>2. TypeOK /\ [Next]_vars => TypeOK'
  BY NextType
<1>3. QED
  BY <1>1, <1>2, PTL DEF Spec

-----------------------------------------------------------------------------
(* A used token is revoked for good *)

(* Steps that issue nothing and start no replacement.                      *)
LEMMA NothingUsed ==
  ASSUME UsedIsRevoked,
         \A t \in Tokens : Replacing(t)' \subseteq Replacing(t) /\ Children(t)' \subseteq Children(t),
         \A t \in Tokens : t \in Issued /\ sessions[t].status = "deleted"
           => t \in Issued' /\ sessions'[t].status = "deleted"
  PROVE  UsedIsRevoked'
<1> SUFFICES ASSUME NEW t \in Tokens, (Replacing(t) # {} \/ Children(t) # {})'
             PROVE  t \in Issued' /\ sessions'[t].status = "deleted"
  BY DEF UsedIsRevoked
<1>1. Replacing(t) # {} \/ Children(t) # {}
  OBVIOUS
<1>2. QED
  BY <1>1 DEF UsedIsRevoked

(* What an answer, and a request's arrival, do to the sets of refreshes.   *)
LEMMA AnswerSets ==
  ASSUME TypeOK, NEW w \in Workers, NEW code, Answer(w, code), NEW t
  PROVE  Replacing(t)' = Replacing(t) \ {w} /\ Deleting(t)' = Deleting(t) \ {w}
  BY DEF TypeOK, Answer, Replacing, Deleting

LEMMA ReceiveSets ==
  ASSUME TypeOK, NEW w \in Workers, NEW q \in Request, Receive(w, q), NEW t
  PROVE  /\ Replacing(t)' \subseteq Replacing(t) /\ Deleting(t)' \subseteq Deleting(t)
         /\ Children(t)' = Children(t)
<1>1. Children(t)' = Children(t)
  BY DEF Receive, Unwritten, Children, Issued
<1>2. CASE Answer(w, "invalid")
  BY <1>1, <1>2, AnswerSets
<1>3. CASE pc' = [pc EXCEPT ![w] = FirstStatement(q)] /\ req' = [req EXCEPT ![w] = q]
  <2>1. FirstStatement(q) \in {"Register", "FindUserByEmail", "FindSessionByTokenHash"}
    BY DEF FirstStatement
  <2>2. QED
    BY <1>1, <1>3, <2>1 DEF TypeOK, Replacing, Deleting
<1>4. QED
  BY <1>2, <1>3 DEF Receive

(* What each statement does to them. *)
LEMMA ReadSets ==
  ASSUME TypeOK, NEW w \in Workers, NEW t,
         Register(w) \/ FindUserByEmail(w) \/ FindUserByID(w) \/ Fail(w)
  PROVE  /\ Replacing(t)' \subseteq Replacing(t) /\ Deleting(t)' \subseteq Deleting(t)
         /\ Children(t)' = Children(t)
<1>1. Children(t)' = Children(t)
  BY DEF Register, FindUserByEmail, FindUserByID, Fail, Unwritten, Children, Issued
<1>2. CASE \E code \in Replies : Answer(w, code)
  BY <1>1, <1>2, AnswerSets
<1>3. CASE Register(w) \/ FindUserByEmail(w)
  <2>1. req[w].kind # "Refresh"
    BY <1>3, RequestFields DEF Register, FindUserByEmail, TypeOK, Stage, Idle
  <2>2. QED
    BY <1>1, <1>2, <1>3, <2>1
    DEF Register, FindUserByEmail, Proceed, TypeOK, Replacing, Deleting, Replies
<1>4. CASE FindUserByID(w)
  BY <1>1, <1>4 DEF FindUserByID, Proceed, TypeOK, Replacing, Deleting
<1>5. CASE Fail(w)
  BY <1>2, <1>5 DEF Fail, Replies
<1>6. QED
  BY <1>3, <1>4, <1>5

LEMMA FindSessionSets ==
  ASSUME TypeOK, NEW w \in Workers, FindSessionByTokenHash(w), NEW t
  PROVE  /\ Replacing(t)' \subseteq Replacing(t)
         /\ Deleting(t)' \subseteq Deleting(t) \/ Usable(t)
         /\ Children(t)' = Children(t)
<1>1. Children(t)' = Children(t)
  BY DEF FindSessionByTokenHash, Unwritten, Children, Issued
<1>2. CASE Answer(w, "unauthorized") \/ Answer(w, "ok")
  BY <1>1, <1>2, AnswerSets
<1>3. CASE Usable(req[w].token) /\ Proceed(w, "DeleteSession")
  BY <1>1, <1>3 DEF Proceed, TypeOK, Replacing, Deleting
<1>4. QED
  BY <1>2, <1>3 DEF FindSessionByTokenHash

LEMMA DeleteSets ==
  ASSUME TypeOK, NEW w \in Workers, DeleteSession(w), NEW t
  PROVE  /\ Children(t)' = Children(t)
         /\ \/ Replacing(t)' \subseteq Replacing(t) /\ Deleting(t)' \subseteq Deleting(t)
            \/ /\ req[w].token = t /\ w \in Deleting(t)
               /\ Replacing(t)' = Replacing(t) \cup {w}
               /\ Deleting(t)' = Deleting(t) \ {w}
<1>1. PICK d \in Issued : d = req[w].token /\ d \in Tokens /\ sessions[d] \in Session
  BY DEF DeleteSession, TypeOK, Stage, Idle, Issued
<1>2. /\ [sessions[d] EXCEPT !.status = "deleted"] \in Session
      /\ [sessions[d] EXCEPT !.status = "deleted"].parent = sessions[d].parent
  BY <1>1 DEF Session
<1>3. Issued' = Issued
  BY <1>1, <1>2, NoSessionIsNoRow DEF DeleteSession, Issued, TypeOK
<1>4. Children(t)' = Children(t)
  BY <1>1, <1>2, <1>3 DEF DeleteSession, Children, TypeOK, Issued
<1>5. CASE \E code \in {"ok", "internal"} : Answer(w, code)
  BY <1>4, <1>5, AnswerSets
<1>6. CASE req[w].kind = "Refresh" /\ Proceed(w, "FindUserByID")
  BY <1>4, <1>6 DEF DeleteSession, Proceed, TypeOK, Replacing, Deleting
<1>7. QED
  BY <1>5, <1>6 DEF DeleteSession

LEMMA CreateSets ==
  ASSUME TypeOK, NEW w \in Workers, CreateSession(w)
  PROVE  \E c \in Tokens \ Issued :
           /\ Issued' = Issued \cup {c}
           /\ \A t \in Issued : sessions'[t] = sessions[t]
           /\ \A t \in Tokens :
                /\ Deleting(t)' \subseteq Deleting(t)
                /\ Replacing(t)' = Replacing(t) \ {w}
                /\ \/ Children(t)' = Children(t)
                   \/ w \in Replacing(t) /\ Children(t)' = Children(t) \cup {c}
<1>1. PICK c \in Tokens \ Issued, code \in {"ok", "internal"} :
        /\ sessions' = [sessions EXCEPT ![c] =
             IF req[w].kind = "Refresh"
             THEN [status |-> "live", user |-> sessions[req[w].token].user,
                   parent |-> req[w].token]
             ELSE [status |-> "live", user |-> req[w].email, parent |-> NoToken]]
        /\ Answer(w, code)
  BY DEF CreateSession
<1>2. /\ sessions'[c].status = "live"
      /\ sessions'[c].parent = IF req[w].kind = "Refresh" THEN req[w].token ELSE NoToken
      /\ \A t \in Tokens \ {c} : sessions'[t] = sessions[t]
  BY <1>1 DEF TypeOK
<1>3. sessions'[c] # NoSession
  BY <1>2 DEF NoSession
<1>4. Issued' = Issued \cup {c}
  BY <1>2, <1>3 DEF Issued
<1>5. ASSUME NEW t \in Tokens
      PROVE  \/ Children(t)' = Children(t)
             \/ w \in Replacing(t) /\ Children(t)' = Children(t) \cup {c}
  <2>1. \A k \in Issued : k # c /\ sessions'[k].parent = sessions[k].parent
    BY <1>2 DEF Issued
  <2>2. CASE req[w].kind = "Refresh" /\ req[w].token = t
    BY <1>2, <1>4, <2>1, <2>2 DEF Children, Replacing, CreateSession
  <2>3. CASE ~(req[w].kind = "Refresh" /\ req[w].token = t)
    BY <1>2, <1>4, <2>1, <2>3, SetsAssumption DEF Children
  <2>4. QED
    BY <2>2, <2>3
<1>6. \A t \in Tokens : Deleting(t)' \subseteq Deleting(t) /\ Replacing(t)' = Replacing(t) \ {w}
  BY <1>1, AnswerSets
<1>7. QED
  BY <1>1, <1>2, <1>4, <1>5, <1>6 DEF Issued

LEMMA ExpireSets ==
  ASSUME TypeOK, NEW e \in Tokens, Expire(e), NEW t
  PROVE  Replacing(t)' = Replacing(t) /\ Deleting(t)' = Deleting(t) /\ Children(t)' = Children(t)
         /\ Issued' = Issued
<1>1. sessions[e] \in Session
  BY UsableTokens DEF Expire
<1>2. /\ [sessions[e] EXCEPT !.status = "expired"] \in Session
      /\ [sessions[e] EXCEPT !.status = "expired"].parent = sessions[e].parent
  BY <1>1 DEF Session
<1>3. Issued' = Issued
  BY <1>1, <1>2, NoSessionIsNoRow DEF Expire, Usable, Issued, TypeOK
<1>4. QED
  BY <1>2, <1>3 DEF Expire, Replacing, Deleting, Children, TypeOK, Issued

LEMMA NextUsedIsRevoked == TypeOK /\ UsedIsRevoked /\ [Next]_vars => UsedIsRevoked'
<1> SUFFICES ASSUME TypeOK, UsedIsRevoked, [Next]_vars
             PROVE  UsedIsRevoked'
  OBVIOUS
<1>1. CASE UNCHANGED vars
  BY <1>1 DEF vars, UsedIsRevoked, Replacing, Children, Issued
<1>2. ASSUME NEW w \in Workers, NEW q \in Request, Receive(w, q)
      PROVE  UsedIsRevoked'
  <2>1. Issued' = Issued /\ sessions' = sessions
    BY <1>2 DEF Receive, Unwritten, Issued
  <2>2. QED
    BY <1>2, <2>1, ReceiveSets, NothingUsed
<1>3. ASSUME NEW w \in Workers, Register(w) \/ FindUserByEmail(w) \/ FindUserByID(w) \/ Fail(w)
      PROVE  UsedIsRevoked'
  <2>1. Issued' = Issued /\ sessions' = sessions
    BY <1>3 DEF Register, FindUserByEmail, FindUserByID, Fail, Unwritten, Issued
  <2>2. QED
    BY <1>3, <2>1, ReadSets, NothingUsed
<1>4. ASSUME NEW w \in Workers, FindSessionByTokenHash(w)
      PROVE  UsedIsRevoked'
  <2>1. Issued' = Issued /\ sessions' = sessions
    BY <1>4 DEF FindSessionByTokenHash, Unwritten, Issued
  <2>2. QED
    BY <1>4, <2>1, FindSessionSets, NothingUsed
<1>5. ASSUME NEW w \in Workers, DeleteSession(w)
      PROVE  UsedIsRevoked'
  <2>1. PICK d \in Issued : d = req[w].token /\ d \in Tokens /\ sessions[d] \in Session
    BY <1>5 DEF DeleteSession, TypeOK, Stage, Idle, Issued
  <2>2. /\ [sessions[d] EXCEPT !.status = "deleted"] \in Session
        /\ [sessions[d] EXCEPT !.status = "deleted"].status = "deleted"
    BY <2>1 DEF Session
  <2>3. Issued' = Issued /\ sessions'[d].status = "deleted"
    BY <1>5, <2>1, <2>2, NoSessionIsNoRow DEF DeleteSession, Issued, TypeOK
  <2>4. \A t \in Tokens \ {d} : sessions'[t] = sessions[t]
    BY <1>5, <2>1 DEF DeleteSession, TypeOK
  <2>5. ASSUME NEW t \in Tokens \ {d}, (Replacing(t) # {} \/ Children(t) # {})'
        PROVE  t \in Issued' /\ sessions'[t].status = "deleted"
    <3>1. Replacing(t) # {} \/ Children(t) # {}
      BY <1>5, <2>1, <2>5, DeleteSets
    <3>2. QED
      BY <2>3, <2>4, <3>1 DEF UsedIsRevoked
  <2>6. QED
    BY <2>1, <2>3, <2>5 DEF UsedIsRevoked
<1>6. ASSUME NEW w \in Workers, CreateSession(w)
      PROVE  UsedIsRevoked'
  <2>1. PICK c \in Tokens \ Issued :
          /\ Issued' = Issued \cup {c}
          /\ \A t \in Issued : sessions'[t] = sessions[t]
          /\ \A t \in Tokens :
               /\ Replacing(t)' = Replacing(t) \ {w}
               /\ \/ Children(t)' = Children(t)
                  \/ w \in Replacing(t) /\ Children(t)' = Children(t) \cup {c}
    BY <1>6, CreateSets
  <2>2. ASSUME NEW t \in Tokens, (Replacing(t) # {} \/ Children(t) # {})'
        PROVE  t \in Issued' /\ sessions'[t].status = "deleted"
    <3>1. Replacing(t) # {} \/ Children(t) # {}
      BY <2>1, <2>2
    <3>2. t \in Issued /\ sessions[t].status = "deleted"
      BY <3>1 DEF UsedIsRevoked
    <3>3. QED
      BY <2>1, <3>2
  <2>3. QED
    BY <2>2 DEF UsedIsRevoked
<1>7. ASSUME NEW e \in Tokens, Expire(e)
      PROVE  UsedIsRevoked'
  <2>1. sessions[e].status = "live"
    BY <1>7 DEF Expire, Usable
  <2>2. \A t \in Tokens \ {e} : sessions'[t] = sessions[t]
    BY <1>7 DEF Expire, TypeOK
  <2>3. \A t \in Tokens : sessions[t].status = "deleted" => sessions'[t].status = "deleted"
    BY <2>1, <2>2
  <2>4. QED
    BY <1>7, <2>3, ExpireSets, NothingUsed
<1>8. QED
  BY <1>1, <1>2, <1>3, <1>4, <1>5, <1>6, <1>7 DEF Next, Step

(* Rotation revokes before it issues: a token that was exchanged, or is    *)
(* about to be, is deleted for good.                                       *)
THEOREM RevokedBeforeUse == Spec => []UsedIsRevoked
<1>1. Init => UsedIsRevoked
  BY DEF Init, UsedIsRevoked, Replacing, Children, Issued
<1>2. TypeOK /\ UsedIsRevoked /\ [Next]_vars => UsedIsRevoked'
  BY NextUsedIsRevoked
<1>3. QED
  BY <1>1, <1>2, TypeCorrect, PTL DEF Spec

-----------------------------------------------------------------------------
(* How often a token is used *)

LEMMA FiniteUses ==
  ASSUME NEW t
  PROVE  /\ IsFiniteSet(Children(t)) /\ Cardinality(Children(t)) \in Nat
         /\ IsFiniteSet(Replacing(t)) /\ Cardinality(Replacing(t)) \in Nat
         /\ IsFiniteSet(Deleting(t)) /\ Cardinality(Deleting(t)) \in Nat
         /\ Cardinality(Workers) \in Nat
<1>1. Children(t) \subseteq Tokens /\ Replacing(t) \subseteq Workers /\ Deleting(t) \subseteq Workers
  BY DEF Children, Issued, Replacing, Deleting
<1>2. QED
  BY <1>1, SetsAssumption, FS_Subset, FS_CardinalityType

LEMMA Smaller ==
  ASSUME NEW S, IsFiniteSet(S), NEW T, T \subseteq S
  PROVE  IsFiniteSet(T) /\ Cardinality(T) \in Nat /\ Cardinality(T) <= Cardinality(S)
  BY FS_Subset, FS_CardinalityType

LEMMA OneMore ==
  ASSUME NEW S, IsFiniteSet(S), NEW x
  PROVE  Cardinality(S \cup {x}) \in Nat /\ Cardinality(S \cup {x}) <= Cardinality(S) + 1
<1>1. Cardinality(S) \in Nat
  BY FS_CardinalityType
<1>2. IsFiniteSet(S \cup {x})
      /\ Cardinality(S \cup {x}) = IF x \in S THEN Cardinality(S) ELSE Cardinality(S) + 1
  BY FS_AddElement
<1>3. QED
  BY <1>1, <1>2

LEMMA OneLess ==
  ASSUME NEW S, IsFiniteSet(S), NEW x \in S
  PROVE  Cardinality(S \ {x}) \in Nat /\ Cardinality(S \ {x}) = Cardinality(S) - 1
<1>1. Cardinality(S) \in Nat
  BY FS_CardinalityType
<1>2. IsFiniteSet(S \ {x})
      /\ Cardinality(S \ {x}) = IF x \in S THEN Cardinality(S) - 1 ELSE Cardinality(S)
  BY FS_RemoveElement
<1>3. Cardinality(S \ {x}) \in Nat
  BY <1>2, FS_CardinalityType
<1>4. QED
  BY <1>1, <1>2, <1>3

Uses(t) == Cardinality(Children(t)) + Cardinality(Replacing(t)) + Cardinality(Deleting(t))

LEMMA NextReuse == TypeOK /\ UsedIsRevoked /\ BoundedReuse /\ [Next]_vars => BoundedReuse'
<1> SUFFICES ASSUME TypeOK, UsedIsRevoked, BoundedReuse, [Next]_vars, NEW t \in Tokens
             PROVE  Uses(t)' <= Cardinality(Workers)
  BY DEF BoundedReuse, Uses
<1>1. Uses(t) <= Cardinality(Workers) /\ Uses(t) \in Nat
  BY FiniteUses DEF BoundedReuse, Uses
<1>2. CASE /\ Replacing(t)' \subseteq Replacing(t)
           /\ Deleting(t)' \subseteq Deleting(t)
           /\ Children(t)' = Children(t)
  <2>1. Cardinality(Replacing(t)') \in Nat /\ Cardinality(Replacing(t)') <= Cardinality(Replacing(t))
    BY <1>2, FiniteUses, Smaller
  <2>2. Cardinality(Deleting(t)') \in Nat /\ Cardinality(Deleting(t)') <= Cardinality(Deleting(t))
    BY <1>2, FiniteUses, Smaller
  <2>3. QED
    BY <1>1, <1>2, <2>1, <2>2, FiniteUses DEF Uses
<1>3. ASSUME NEW w \in Workers, FindSessionByTokenHash(w), Usable(t)
      PROVE  Uses(t)' <= Cardinality(Workers)
  <2>1. Replacing(t) = {} /\ Children(t) = {}
    BY <1>3 DEF UsedIsRevoked, Usable
  <2>2. Replacing(t)' = {} /\ Children(t)' = {}
    BY <1>3, <2>1, FindSessionSets
  <2>3. Deleting(t)' \subseteq Workers
    BY DEF Deleting
  <2>4. Cardinality(Deleting(t)') \in Nat /\ Cardinality(Deleting(t)') <= Cardinality(Workers)
    BY <2>3, SetsAssumption, Smaller
  <2>5. QED
    BY <2>2, <2>4, FS_EmptySet, FiniteUses DEF Uses
<1>4. ASSUME NEW w \in Workers, DeleteSession(w), w \in Deleting(t),
             Replacing(t)' = Replacing(t) \cup {w}, Deleting(t)' = Deleting(t) \ {w}
      PROVE  Uses(t)' <= Cardinality(Workers)
  <2>1. Children(t)' = Children(t)
    BY <1>4, DeleteSets
  <2>2. Cardinality(Replacing(t)') \in Nat
        /\ Cardinality(Replacing(t)') <= Cardinality(Replacing(t)) + 1
    BY <1>4, FiniteUses, OneMore
  <2>3. Cardinality(Deleting(t)') \in Nat
        /\ Cardinality(Deleting(t)') = Cardinality(Deleting(t)) - 1
    BY <1>4, FiniteUses, OneLess
  <2>4. QED
    BY <1>1, <2>1, <2>2, <2>3, FiniteUses DEF Uses
<1>5. ASSUME NEW w \in Workers, NEW c, w \in Replacing(t), Deleting(t)' \subseteq Deleting(t),
             Replacing(t)' = Replacing(t) \ {w}, Children(t)' = Children(t) \cup {c}
      PROVE  Uses(t)' <= Cardinality(Workers)
  <2>1. Cardinality(Children(t)') \in Nat
        /\ Cardinality(Children(t)') <= Cardinality(Children(t)) + 1
    BY <1>5, FiniteUses, OneMore
  <2>2. Cardinality(Replacing(t)') \in Nat
        /\ Cardinality(Replacing(t)') = Cardinality(Replacing(t)) - 1
    BY <1>5, FiniteUses, OneLess
  <2>3. Cardinality(Deleting(t)') \in Nat /\ Cardinality(Deleting(t)') <= Cardinality(Deleting(t))
    BY <1>5, FiniteUses, Smaller
  <2>4. QED
    BY <1>1, <2>1, <2>2, <2>3, FiniteUses DEF Uses
<1>6. CASE UNCHANGED vars
  BY <1>2, <1>6 DEF vars, Replacing, Deleting, Children, Issued
<1>7. ASSUME NEW w \in Workers, Next,
             \/ \E q \in Request : Receive(w, q)
             \/ Register(w) \/ FindUserByEmail(w) \/ FindUserByID(w) \/ Fail(w)
      PROVE  Uses(t)' <= Cardinality(Workers)
  BY <1>2, <1>7, ReceiveSets, ReadSets
<1>8. ASSUME NEW w \in Workers, FindSessionByTokenHash(w)
      PROVE  Uses(t)' <= Cardinality(Workers)
  BY <1>2, <1>3, <1>8, FindSessionSets
<1>9. ASSUME NEW w \in Workers, DeleteSession(w)
      PROVE  Uses(t)' <= Cardinality(Workers)
  BY <1>2, <1>4, <1>9, DeleteSets
<1>10. ASSUME NEW w \in Workers, CreateSession(w)
       PROVE  Uses(t)' <= Cardinality(Workers)
  <2>1. PICK c \in Tokens :
          /\ Deleting(t)' \subseteq Deleting(t)
          /\ Replacing(t)' = Replacing(t) \ {w}
          /\ \/ Children(t)' = Children(t)
             \/ w \in Replacing(t) /\ Children(t)' = Children(t) \cup {c}
    BY <1>10, CreateSets
  <2>2. QED
    BY <1>2, <1>5, <2>1
<1>11. ASSUME NEW e \in Tokens, Expire(e)
       PROVE  Uses(t)' <= Cardinality(Workers)
  BY <1>2, <1>11, ExpireSets
<1>12. QED
  BY <1>6, <1>7, <1>8, <1>9, <1>10, <1>11 DEF Next, Step

(* A refresh token is exchanged at most as often as there are requests in  *)
(* flight at once.                                                         *)
THEOREM ReuseIsBounded == Spec => []BoundedReuse
<1>1. Init => BoundedReuse
  <2>1. SUFFICES ASSUME Init, NEW t \in Tokens
                 PROVE  Uses(t) <= Cardinality(Workers)
    BY DEF BoundedReuse, Uses
  <2>2. Children(t) = {} /\ Replacing(t) = {} /\ Deleting(t) = {}
    BY <2>1 DEF Init, Children, Replacing, Deleting, Issued
  <2>3. QED
    BY <2>2, FS_EmptySet, FiniteUses DEF Uses
<1>2. TypeOK /\ UsedIsRevoked /\ BoundedReuse /\ [Next]_vars => BoundedReuse'
  BY NextReuse
<1>3. QED
  BY <1>1, <1>2, TypeCorrect, RevokedBeforeUse, PTL DEF Spec

(* With one request at a time a refresh token has a single use, as the     *)
(* feature's document has it; the concurrent runs show why one at a time.  *)
THEOREM SerialSingleUse ==
  ASSUME NEW w0, Workers = {w0}
  PROVE  Spec => []SingleUse
<1>1. BoundedReuse => SingleUse
  <2>1. SUFFICES ASSUME BoundedReuse, NEW t \in Tokens
                 PROVE  Cardinality(Children(t)) <= 1
    BY DEF SingleUse
  <2>2. Cardinality(Workers) = 1
    BY FS_Singleton
  <2>3. QED
    BY <2>1, <2>2, FiniteUses DEF BoundedReuse
<1>2. QED
  BY <1>1, ReuseIsBounded, PTL
-----------------------------------------------------------------------------
(* Dead tokens *)

(* A token that was not usable on arrival stays so. *)
DeadStay ==
  \A w \in Workers : ~Idle(w) /\ dead[w] =>
    /\ pc[w] = "FindSessionByTokenHash"
    /\ req[w].token # NoToken =>
         req[w].token \in Issued /\ sessions[req[w].token].status # "live"

(* A row that is issued and not live stays so. *)
NoRevival ==
  \A t \in Issued : sessions[t].status # "live" =>
    t \in Issued' /\ sessions'[t].status # "live"

LEMMA NothingRevives == TypeOK /\ [Next]_vars => NoRevival
<1> SUFFICES ASSUME TypeOK, [Next]_vars PROVE NoRevival
  OBVIOUS
<1>1. CASE UNCHANGED sessions
  BY <1>1 DEF NoRevival, Issued
<1>2. CASE \E w \in Workers : DeleteSession(w)
  <2>1. PICK w \in Workers : DeleteSession(w)
    BY <1>2
  <2>2. PICK d \in Issued : d = req[w].token /\ d \in Tokens /\ sessions[d] \in Session
    BY <2>1 DEF DeleteSession, TypeOK, Stage, Idle, Issued
  <2>3. [sessions[d] EXCEPT !.status = "deleted"] \in Session
        /\ [sessions[d] EXCEPT !.status = "deleted"].status = "deleted"
    BY <2>2 DEF Session
  <2>4. sessions' = [sessions EXCEPT ![d] = [sessions[d] EXCEPT !.status = "deleted"]]
    BY <2>1, <2>2 DEF DeleteSession
  <2>5. QED
    BY <2>2, <2>3, <2>4, NoSessionIsNoRow DEF NoRevival, Issued, TypeOK
<1>3. CASE \E w \in Workers : CreateSession(w)
  BY <1>3, CreateSets DEF NoRevival, Issued
<1>4. CASE \E t \in Tokens : Expire(t)
  <2>1. PICK d \in Tokens : Expire(d)
    BY <1>4
  <2>2. d \in Issued /\ sessions[d] \in Session
    BY <2>1, UsableTokens DEF Expire
  <2>3. [sessions[d] EXCEPT !.status = "expired"] \in Session
        /\ [sessions[d] EXCEPT !.status = "expired"].status = "expired"
    BY <2>2 DEF Session
  <2>4. sessions' = [sessions EXCEPT ![d] = [sessions[d] EXCEPT !.status = "expired"]]
    BY <2>1 DEF Expire
  <2>5. QED
    BY <2>2, <2>3, <2>4, NoSessionIsNoRow DEF NoRevival, Issued, TypeOK
<1>5. QED
  BY <1>1, <1>2, <1>3, <1>4
  DEF Next, Step, vars, Receive, Register, FindUserByEmail, FindSessionByTokenHash,
      FindUserByID, Fail, Unwritten

LEMMA DeadAnswer ==
  ASSUME TypeOK, DeadStay, NoRevival, NEW w \in Workers, NEW code, Answer(w, code)
  PROVE  DeadStay'
<1> SUFFICES ASSUME NEW v \in Workers, ~Idle(v)', dead'[v]
             PROVE  /\ pc'[v] = "FindSessionByTokenHash"
                    /\ req'[v].token # NoToken =>
                         req'[v].token \in Issued' /\ sessions'[req'[v].token].status # "live"
  BY DEF DeadStay
<1>1. v # w /\ pc'[v] = pc[v] /\ req'[v] = req[v] /\ dead[v]
  BY DEF Answer, TypeOK, Idle
<1>2. QED
  BY <1>1 DEF DeadStay, NoRevival, Idle

(* No dead token is at a statement that lets its request proceed. *)
LEMMA DeadProceed ==
  ASSUME TypeOK, DeadStay, NoRevival, NEW w \in Workers, NEW s, Proceed(w, s), s # "idle",
         ~Idle(w), pc[w] # "FindSessionByTokenHash" \/ Usable(req[w].token)
  PROVE  DeadStay'
<1>1. ~dead[w]
  BY SetsAssumption DEF DeadStay, Usable, TypeOK, Issued
<1> SUFFICES ASSUME NEW v \in Workers, ~Idle(v)', dead'[v]
             PROVE  /\ pc'[v] = "FindSessionByTokenHash"
                    /\ req'[v].token # NoToken =>
                         req'[v].token \in Issued' /\ sessions'[req'[v].token].status # "live"
  BY DEF DeadStay
<1>2. v # w /\ pc'[v] = pc[v] /\ req'[v] = req[v] /\ dead[v]
  BY <1>1 DEF Proceed, TypeOK, Idle
<1>3. QED
  BY <1>2 DEF DeadStay, NoRevival, Idle

LEMMA DeadReceive ==
  ASSUME TypeOK, DeadStay, NEW w \in Workers, NEW q \in Request, Receive(w, q)
  PROVE  DeadStay'
<1>1. NoRevival /\ sessions' = sessions /\ Issued' = Issued
  BY DEF Receive, Unwritten, NoRevival, Issued
<1>2. CASE Answer(w, "invalid")
  BY <1>1, <1>2, DeadAnswer
<1>3. CASE ~Answer(w, "invalid")
  <2>1. /\ q.kind \in {"Refresh", "Logout"} => q.token \in known \cup {NoToken}
        /\ pc'  = [pc EXCEPT ![w] = FirstStatement(q)]
        /\ req' = [req EXCEPT ![w] = q]
        /\ dead' = [dead EXCEPT ![w] = q.kind \in {"Refresh", "Logout"} /\ ~Usable(q.token)]
    BY <1>3 DEF Receive
  <2> SUFFICES ASSUME NEW v \in Workers, ~Idle(v)', dead'[v]
               PROVE  /\ pc'[v] = "FindSessionByTokenHash"
                      /\ req'[v].token # NoToken =>
                           req'[v].token \in Issued' /\ sessions'[req'[v].token].status # "live"
    BY DEF DeadStay
  <2>2. CASE v # w
    BY <1>1, <2>1, <2>2 DEF DeadStay, TypeOK, Idle
  <2>3. CASE v = w
    <3>1. /\ q.kind \in {"Refresh", "Logout"} /\ ~Usable(q.token)
          /\ pc'[v] = FirstStatement(q) /\ req'[v] = q
      BY <2>1, <2>3 DEF TypeOK
    <3>2. FirstStatement(q) = "FindSessionByTokenHash"
      BY <3>1 DEF FirstStatement
    <3>3. q.token # NoToken => q.token \in Issued
      BY <2>1, <3>1 DEF TypeOK
    <3>4. QED
      BY <1>1, <3>1, <3>2, <3>3 DEF Usable
  <2>4. QED
    BY <2>2, <2>3
<1>4. QED
  BY <1>2, <1>3

LEMMA NextDead == TypeOK /\ DeadStay /\ [Next]_vars => DeadStay'
<1> SUFFICES ASSUME TypeOK, DeadStay, [Next]_vars PROVE DeadStay'
  OBVIOUS
<1>1. NoRevival
  BY NothingRevives
<1>2. CASE UNCHANGED <<pc, req, dead>>
  BY <1>1, <1>2 DEF DeadStay, NoRevival, Idle
<1>3. ASSUME NEW w \in Workers, Step(w)
      PROVE  DeadStay'
  <2>1. CASE \E code : Answer(w, code)
    BY <1>1, <2>1, DeadAnswer
  <2>2. CASE \E s \in {"CreateSession", "DeleteSession", "FindUserByID"} :
               Proceed(w, s) /\ ~Idle(w)
                 /\ (pc[w] # "FindSessionByTokenHash" \/ Usable(req[w].token))
    BY <1>1, <2>2, DeadProceed
  <2>3. QED
    BY <1>3, <2>1, <2>2
    DEF Step, Register, FindUserByEmail, FindSessionByTokenHash, DeleteSession, FindUserByID,
        CreateSession, Idle
<1>4. QED
  BY <1>1, <1>2, <1>3, DeadReceive, DeadAnswer DEF Next, vars, Expire, Fail

(* A token that was revoked or had expired when it was presented gets its  *)
(* request no further than the lookup (service_impl.go:76, :101).          *)
THEOREM DeadAreRefused == Spec => []DeadTokensRefused
<1>1. Init => DeadStay
  BY DEF Init, DeadStay, Idle
<1>2. DeadStay => DeadTokensRefused
  BY DEF DeadStay, DeadTokensRefused
<1>3. QED
  BY <1>1, <1>2, NextDead, TypeCorrect, PTL DEF Spec

LEMMA RefreshStep ==
  ASSUME TypeOK, UsedIsRevoked, [Next]_vars, NEW w \in Workers, NEW t \in Tokens,
         req[w].kind = "Refresh", Answered(w, t, "ok")
  PROVE  /\ ~Usable(t)'
         /\ \E c \in known' \ known : Usable(c)' /\ sessions'[c].parent = t
<1>1. ~Idle(w) /\ pc'[w] = "idle" /\ pc[w] # pc'[w] /\ reply'[w] = "ok" /\ req[w].token = t
  BY DEF Answered, Idle
<1>2. CASE CreateSession(w)
  <2>1. w \in Replacing(t)
    BY <1>1, <1>2 DEF CreateSession, Replacing
  <2>2. t \in Issued /\ sessions[t].status = "deleted"
    BY <2>1 DEF UsedIsRevoked
  <2> DEFINE row == [status |-> "live", user |-> sessions[t].user, parent |-> t]
  <2>3. PICK c \in Tokens \ Issued, code \in {"ok", "internal"} :
          /\ sessions' = [sessions EXCEPT ![c] = row]
          /\ known' = IF code = "ok" THEN known \cup {c} ELSE known
          /\ Answer(w, code)
    BY <1>1, <1>2 DEF CreateSession
  <2>4. row # NoSession /\ row.status = "live" /\ row.parent = t
    BY DEF NoSession
  <2> HIDE DEF row
  <2>5. code = "ok"
    BY <1>1, <2>3 DEF Answer, TypeOK
  <2>6. c # t /\ c \notin known /\ sessions'[t] = sessions[t] /\ sessions'[c] = row
    BY <2>2, <2>3 DEF TypeOK
  <2>7. QED
    BY <2>2, <2>3, <2>4, <2>5, <2>6 DEF Usable, Issued
<1>3. ASSUME NEW v \in Workers, v # w,
             (\E q \in Request : Receive(v, q)) \/ Step(v) \/ Fail(v)
      PROVE  FALSE
  <2>1. pc'[w] = pc[w]
    BY <1>3
    DEF Receive, Step, Register, FindUserByEmail, FindSessionByTokenHash, DeleteSession,
        FindUserByID, CreateSession, Fail, Answer, Proceed, TypeOK
  <2>2. QED
    BY <1>1, <2>1
<1>4. ASSUME Step(w) \/ Fail(w), ~CreateSession(w)
      PROVE  FALSE
  <2>1. \/ pc'[w] # "idle" \/ req[w].kind # "Refresh"
        \/ \E code \in Replies : code # "ok" /\ Answer(w, code)
    BY <1>1, <1>4
    DEF Step, Register, FindUserByEmail, FindSessionByTokenHash, DeleteSession,
        FindUserByID, Fail, Proceed, TypeOK, Replies
  <2>2. QED
    BY <1>1, <2>1 DEF Answer, TypeOK
<1>5. ASSUME NEW q \in Request, Receive(w, q)
      PROVE  FALSE
  BY <1>1, <1>5 DEF Receive
<1>6. CASE UNCHANGED pc
  BY <1>1, <1>6
<1>7. QED
  BY <1>2, <1>3, <1>4, <1>5, <1>6 DEF Next, vars, Expire

(* An acknowledged refresh exchanges one usable token for another          *)
(* (service_impl.go:76).                                                   *)
THEOREM RefreshExchanges == Spec => RefreshRotates
<1>1. ASSUME TypeOK, UsedIsRevoked, [Next]_vars
      PROVE  \A w \in Workers, t \in Tokens :
               req[w].kind = "Refresh" /\ Answered(w, t, "ok") =>
                 /\ ~Usable(t)'
                 /\ \E c \in known' \ known : Usable(c)' /\ sessions'[c].parent = t
  BY <1>1, RefreshStep
<1>2. QED
  BY <1>1, TypeCorrect, RevokedBeforeUse, PTL DEF Spec, RefreshRotates

-----------------------------------------------------------------------------
(* The access tokens: the types, and when an account whose sessions have   *)
(* ended is locked out.                                                    *)

(* Whoever may have a token is seen to, and the longer an account has been *)
(* without session and request, the less its tokens have left.             *)
EntitledNow == \A e \in Emails : Entitled(e) => since[e] = 0

HeldAges == \A e \in Emails : held[e] + since[e] <= Lifetime

AccessInv == TypeOK /\ AccessTypeOK /\ EntitledNow /\ HeldAges

LEMMA SessionSteps == [AccessNext]_allVars => [Next]_vars
  BY DEF AccessNext, allVars, Issue, Deliver, Rest, SessionExpires, Tick, Auth, Authenticated,
         Require, Visited, Read, Next, Step

(* A request that was let in is its account's. *)
LEMMA LetInUser ==
  ASSUME TypeOK, NEW w \in Workers, LetIn(w)
  PROVE  UserOf(w) \in accounts /\ UserOf(w) \in Emails
<1>1. ~Idle(w) /\ Stage(w)
  BY DEF TypeOK, LetIn, Idle
<1>2. CASE req[w].kind = "Refresh"
  BY <1>1, <1>2 DEF Stage, LetIn, UserOf, TypeOK
<1>3. CASE req[w].kind # "Refresh"
  BY <1>1, <1>3 DEF Stage, LetIn, UserOf, TypeOK
<1>4. QED
  BY <1>2, <1>3

LEMMA AccountsStay == TypeOK /\ [Next]_vars => accounts \subseteq accounts'
  BY DEF Next, vars, Receive, Step, Register, FindUserByEmail, FindSessionByTokenHash,
         DeleteSession, FindUserByID, CreateSession, Fail, Expire, Unwritten

LEMMA AccessInitInv == AccessInit => AccessInv
<1> SUFFICES ASSUME AccessInit PROVE AccessInv
  OBVIOUS
<1>1. TypeOK
  BY DEF AccessInit, Init, TypeOK, Issued, Idle, Replies
<1>2. AccessTypeOK
  BY LifetimeAssumption DEF AccessInit, AccessTypeOK, Visit, Done
<1>3. EntitledNow
  BY DEF AccessInit, Init, EntitledNow, Entitled, Usable, Issued, LetIn
<1>4. HeldAges
  BY LifetimeAssumption DEF AccessInit, HeldAges
<1>5. QED
  BY <1>1, <1>2, <1>3, <1>4 DEF AccessInv

(* After a step that observes who is entitled. *)
LEMMA Observed ==
  ASSUME AccessInv, Observe
  PROVE  /\ since' \in [Emails -> 0..Lifetime]
         /\ \A e \in Emails : since'[e] \in {0, since[e]}
         /\ EntitledNow'
  BY LifetimeAssumption DEF AccessInv, AccessTypeOK, Observe, EntitledNow

(* ... and leaves the tokens held alone. *)
LEMMA NothingDelivered ==
  ASSUME AccessInv, Observe, held' = held
  PROVE  HeldAges'
<1> SUFFICES ASSUME NEW e \in Emails PROVE held[e] + since'[e] <= Lifetime
  BY DEF HeldAges
<1>1. held[e] \in 0..Lifetime /\ since[e] \in 0..Lifetime /\ held[e] + since[e] <= Lifetime
  BY DEF AccessInv, AccessTypeOK, HeldAges
<1>2. since'[e] \in {0, since[e]}
  BY Observed
<1>3. QED
  BY <1>1, <1>2, LifetimeAssumption

LEMMA QuietStep ==
  ASSUME AccessInv, TypeOK', accounts \subseteq accounts', Observe, held' = held, visit' = visit,
         signed' \in [Workers -> 0..Lifetime]
  PROVE  AccessInv'
<1>1. AccessTypeOK'
  BY Observed DEF AccessInv, AccessTypeOK
<1>2. QED
  BY <1>1, Observed, NothingDelivered DEF AccessInv

LEMMA DeliverStep ==
  ASSUME AccessInv, TypeOK', accounts \subseteq accounts', NEW w \in Workers, Deliver(w)
  PROVE  AccessInv'
<1> DEFINE u == UserOf(w)
<1>1. u \in accounts /\ u \in Emails /\ since[u] = 0
  <2>1. LetIn(w)
    BY DEF Deliver, CreateSession, LetIn
  <2>2. QED
    BY <2>1, LetInUser DEF AccessInv, EntitledNow, Entitled
<1>2. signed[w] \in 0..Lifetime
  BY DEF AccessInv, AccessTypeOK
<1> HIDE DEF u
<1>3. Observe /\ visit' = visit /\ signed' = [signed EXCEPT ![w] = 0]
      /\ (held' = held \/ held' = [held EXCEPT ![u] = signed[w]])
  BY DEF Deliver, u
<1>4. AccessTypeOK'
  BY <1>1, <1>2, <1>3, Observed, LifetimeAssumption DEF AccessInv, AccessTypeOK
<1>5. HeldAges'
  <2>1. CASE held' = held
    BY <1>3, <2>1, NothingDelivered
  <2>2. CASE held' = [held EXCEPT ![u] = signed[w]]
    <3> SUFFICES ASSUME NEW e \in Emails PROVE held'[e] + since'[e] <= Lifetime
      BY DEF HeldAges
    <3>1. CASE e = u
      <4>1. held'[e] \in 0..Lifetime
        BY <1>4 DEF AccessTypeOK
      <4>2. since'[e] = 0
        BY <1>1, <1>3, <3>1, Observed
      <4>3. QED
        BY <4>1, <4>2, LifetimeAssumption
    <3>2. CASE e # u
      <4>1. held'[e] = held[e] /\ held[e] \in 0..Lifetime /\ since[e] \in 0..Lifetime
            /\ held[e] + since[e] <= Lifetime
        BY <2>2, <3>2 DEF AccessInv, AccessTypeOK, HeldAges
      <4>2. since'[e] \in {0, since[e]}
        BY <1>3, Observed
      <4>3. QED
        BY <4>1, <4>2, LifetimeAssumption
    <3>3. QED
      BY <3>1, <3>2
  <2>3. QED
    BY <1>3, <2>1, <2>2
<1>6. QED
  BY <1>3, <1>4, <1>5, Observed DEF AccessInv

LEMMA TickStep ==
  ASSUME AccessInv, Tick
  PROVE  AccessInv'
<1> DEFINE Down(left) == IF left > 0 THEN left - 1 ELSE 0
           Later(e) == IF Entitled(e) THEN 0
                       ELSE IF since[e] < Lifetime THEN since[e] + 1 ELSE Lifetime
<1>1. /\ signed' = [w \in Workers |-> Down(signed[w])]
      /\ held' = [e \in Emails |-> Down(held[e])]
      /\ since' = [e \in Emails |-> Later(e)]
      /\ visit' = visit
  BY DEF Tick
<1>2. /\ accounts' = accounts /\ TypeOK'
      /\ \A e : Entitled(e)' <=> Entitled(e)
  BY DEF Tick, vars, AccessInv, TypeOK, Entitled, Usable, Issued, LetIn, UserOf, Idle, Stage
<1>3. \A l \in 0..Lifetime : Down(l) \in 0..Lifetime
  BY LifetimeAssumption
<1>4. ASSUME NEW e \in Emails
      PROVE  /\ Later(e) \in 0..Lifetime /\ Down(held[e]) + Later(e) <= Lifetime
             /\ Down(held[e]) > 0 => held[e] > 0
  <2>1. held[e] \in 0..Lifetime /\ since[e] \in 0..Lifetime /\ held[e] + since[e] <= Lifetime
    BY DEF AccessInv, AccessTypeOK, HeldAges
  <2>2. QED
    BY <2>1, LifetimeAssumption
<1>5. \A w \in Workers : signed[w] \in 0..Lifetime
  BY DEF AccessInv, AccessTypeOK
<1>6. \A e \in Emails : held[e] \in 0..Lifetime
  BY DEF AccessInv, AccessTypeOK
<1>7. \A e \in Emails : Entitled(e) => Later(e) = 0
  OBVIOUS
<1> HIDE DEF Down, Later
<1>8. AccessTypeOK'
  BY <1>1, <1>2, <1>3, <1>4, <1>5, <1>6 DEF AccessInv, AccessTypeOK
<1>9. EntitledNow' /\ HeldAges'
  BY <1>1, <1>2, <1>4, <1>7 DEF EntitledNow, HeldAges
<1>10. QED
  BY <1>2, <1>8, <1>9 DEF AccessInv

(* What a visit leaves as it was. *)
LEMMA VisitStep ==
  ASSUME AccessInv, NEW v \in Visitors, NEW outcome \in Visit, Visited(v, outcome)
  PROVE  AccessInv'
<1>1. TypeOK' /\ AccessTypeOK'
  BY DEF Visited, vars, AccessInv, AccessTypeOK, TypeOK, Issued, Idle, Stage
<1>2. EntitledNow' /\ HeldAges'
  BY DEF Visited, vars, AccessInv, EntitledNow, HeldAges, Entitled, Usable, Issued, LetIn, UserOf
<1>3. QED
  BY <1>1, <1>2 DEF AccessInv

LEMMA Outcomes ==
  ASSUME NEW v \in Visitors, (\E h \in Header : Auth(v, h)) \/ Read(v)
  PROVE  \E outcome \in Visit : Visited(v, outcome)
<1>1. Done("ok") \in Visit /\ Done("error") \in Visit /\ \A e \in Emails : Query(e) \in Visit
  BY DEF Visit, Done, Query
<1>2. \A h \in Header : h.token.claims.user \in Emails
  BY DEF Header, Token, Claims
<1>3. QED
  BY <1>1, <1>2 DEF Auth, Authenticated, Require, Read

LEMMA AccessStepInv == AccessInv /\ [AccessNext]_allVars => AccessInv'
<1> SUFFICES ASSUME AccessInv, [AccessNext]_allVars PROVE AccessInv'
  OBVIOUS
<1>1. TypeOK' /\ accounts \subseteq accounts'
  BY SessionSteps, NextType, AccountsStay DEF AccessInv
<1>2. ASSUME NEW w \in Workers, Issue(w)
      PROVE  AccessInv'
  BY <1>1, <1>2, QuietStep, LifetimeAssumption DEF Issue, Sign, AccessInv, AccessTypeOK
<1>3. ASSUME NEW w \in Workers, Rest(w)
      PROVE  AccessInv'
  BY <1>1, <1>3, QuietStep, LifetimeAssumption DEF Rest, AccessInv, AccessTypeOK
<1>4. ASSUME NEW t \in Tokens, SessionExpires(t)
      PROVE  AccessInv'
  BY <1>1, <1>4, QuietStep DEF SessionExpires, AccessInv, AccessTypeOK
<1>5. ASSUME NEW v \in Visitors, (\E h \in Header : Auth(v, h)) \/ Read(v)
      PROVE  AccessInv'
  BY <1>5, Outcomes, VisitStep
<1>6. CASE UNCHANGED allVars
  <2>1. AccessTypeOK'
    BY <1>6 DEF allVars, accessVars, vars, AccessInv, AccessTypeOK
  <2>2. EntitledNow' /\ HeldAges'
    BY <1>6 DEF allVars, accessVars, vars, AccessInv, EntitledNow, HeldAges, Entitled, Usable,
                Issued, LetIn, UserOf
  <2>3. QED
    BY <1>1, <2>1, <2>2 DEF AccessInv
<1>7. QED
  BY <1>1, <1>2, <1>3, <1>4, <1>5, <1>6, DeliverStep, TickStep DEF AccessNext

(* AccessTypeOK, with what ties the tokens held to the sessions. *)
THEOREM AccessInvHolds == AccessSpec => []AccessInv
  BY AccessInitInv, AccessStepInv, PTL DEF AccessSpec

(* The sessions under a clock are the sessions: what was proved of those   *)
(* holds here.                                                             *)
THEOREM AccessKeepsSessions == AccessSpec => Spec
<1>1. AccessInit => Init
  BY DEF AccessInit
<1>2. QED
  BY <1>1, SessionSteps, PTL DEF AccessSpec, Spec

(* Every variable keeps its type, and only accounts have access tokens. *)
THEOREM AccessTypeCorrect == AccessSpec => []AccessTypeOK
<1>1. AccessInv => AccessTypeOK
  BY DEF AccessInv
<1>2. QED
  BY <1>1, AccessInvHolds, PTL

LEMMA LetInByToken ==
  ASSUME AccessInv, [AccessNext]_allVars, NEW v \in Visitors,
         visit[v].at = "idle", visit'[v].at # "idle"
  PROVE  since[visit'[v].user] < Lifetime
<1>1. visit' # visit
  OBVIOUS
<1>2. PICK x \in Visitors : (\E h \in Header : Auth(x, h)) \/ Read(x)
  BY <1>1 DEF AccessNext, allVars, accessVars, Issue, Deliver, Rest, SessionExpires, Tick
<1>3. \E outcome : visit' = [visit EXCEPT ![x] = outcome]
  BY <1>2 DEF Auth, Authenticated, Require, Read, Visited
<1>4. x = v
  BY <1>3 DEF AccessInv, AccessTypeOK
<1>5. PICK h \in Header : Auth(v, h)
  BY <1>2, <1>4 DEF Read
<1> DEFINE u == h.token.claims.user
<1>6. u \in Emails /\ h.token.left \in 0..Lifetime
  BY DEF Header, Token, Claims
<1>7. /\ visit'[v] = Query(u)
      /\ h.token.ours /\ h.token.left > 0 /\ h.token.left <= held[u]
  <2>1. \A code : visit' # [visit EXCEPT ![v] = Done(code)]
    BY DEF AccessInv, AccessTypeOK, Done
  <2>2. h.bearer /\ Verify(h.token) /\ Visited(v, Query(u))
    BY <1>5, <2>1 DEF Auth, Authenticated, Require, Visited
  <2>3. QED
    BY <1>5, <2>2 DEF Auth, Presentable, Verify, Visited, AccessInv, AccessTypeOK
<1>8. visit'[v].user = u
  BY <1>7 DEF Query
<1> HIDE DEF u
<1>9. held[u] + since[u] <= Lifetime /\ held[u] \in 0..Lifetime /\ since[u] \in 0..Lifetime
  BY <1>6 DEF AccessInv, AccessTypeOK, HeldAges
<1>10. QED
  BY <1>6, <1>7, <1>8, <1>9, LifetimeAssumption

(* However a session ended, an access token's lifetime after it (and after *)
(* the last request that was let in with it) no request is served in its   *)
(* account's name: nothing revokes access tokens, but none outlives this   *)
(* (jwt.go:44, jwt.go:55).                                                 *)
THEOREM LockedOut == AccessSpec => LockedOutInTime
<1>1. ASSUME AccessInv, [AccessNext]_allVars
      PROVE  \A v \in Visitors :
               visit[v].at = "idle" /\ visit'[v].at # "idle" => since[visit'[v].user] < Lifetime
  BY <1>1, LetInByToken
<1>2. QED
  BY <1>1, AccessInvHolds, PTL DEF AccessSpec, LockedOutInTime
=============================================================================
