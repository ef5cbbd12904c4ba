----------------------------- MODULE PooledWork -----------------------------
(***************************************************************************)
(* What goes on on the connections of the pool: database.WithOrgContext    *)
(* (pkg/database/org_context.go), the plain statements of the repositories,*)
(* the readiness probe (internal/health) and the inserts of the audit log  *)
(* (internal/audit: logger.go, repository_pg.go), which run in goroutines  *)
(* nobody waits for.                                                       *)
(*                                                                         *)
(* PostgreSQL and pgxpool are external: a transaction whose statement has  *)
(* failed refuses further ones and its COMMIT rolls back without an error; *)
(* a setting made local ends with its transaction; the row-level policies  *)
(* of nodes go by the setting; a connection that is released lost, or in a *)
(* transaction, is replaced; Close refuses connections and waits for those *)
(* in use.                                                                 *)
(***************************************************************************)
EXTENDS Integers, FiniteSets

CONSTANTS
  Calls,          (* uses of the pool, each of one connection              *)
  Conns,
  Orgs,
  MaxStatements   (* bound on the rows a callback inserts                  *)

NoOrg  == "no setting"
NoConn == "no connection"

ASSUME PoolAssumption ==
  NoOrg \notin Orgs /\ NoConn \notin Conns /\ MaxStatements \in Nat

VARIABLES
  pool,
  conns,
  job,        (* what each call is for                                     *)
  stage,      (* the statement it issues next                              *)
  on,         (* the connection it has                                     *)
  over,       (* the context of its request has ended                      *)
  inserted,   (* rows its callback was told it inserted                    *)
  fnErr,      (* what the callback returned                                *)
  result,     (* what the call returned                                    *)
  rows,       (* its rows that are committed                               *)
  mishap      (* history: a connection for it could not be dialled, its    *)
              (* statement was refused, a statement of its callback failed,*)
              (* or the connection was lost in its COMMIT                  *)

callVars == <<job, stage, on, over, inserted, fnErr, result, mishap>>
vars     == <<pool, conns, rows, callVars>>

(* local: the setting made for the transaction; pending: its rows. *)
Conn == [alive : BOOLEAN, tx : {"idle", "open", "failed"},
         session : Orgs \cup {NoOrg}, local : Orgs \cup {NoOrg}, pending : 0..MaxStatements]

Fresh == [alive |-> TRUE, tx |-> "idle", session |-> NoOrg, local |-> NoOrg, pending |-> 0]
Lost  == [Fresh EXCEPT !.alive = FALSE]

Ended(k) == [k EXCEPT !.tx = "idle", !.local = NoOrg, !.pending = 0]

(* current_setting('app.current_org_id') *)
Setting(k) == IF k.local # NoOrg THEN k.local ELSE k.session

Job == [kind : {"WithOrgContext"}, org : Orgs]
         \cup [kind : {"statement", "Ready", "Record"}, org : {NoOrg}]

Stages == {"new", "acquire", "BEGIN", "set_config", "fn", "COMMIT", "ROLLBACK",
           "query", "Ping", "InsertAuditLog", "Release", "returned"}

Used == {on[c] : c \in Calls} \ {NoConn}

K(c) == conns[on[c]]

(* Mutant of Over: without context.WithoutCancel. *)
OverForAll(c) == over[c]

(* The context the statements run under has ended. *)
Over(c) == over[c] /\ job[c].kind # "Record"

(* The statement reaches the database. *)
Sends(c) == ~Over(c) /\ K(c).alive

-----------------------------------------------------------------------------
Init ==
  /\ pool = "open"
  /\ conns = [k \in Conns |-> Fresh]
  /\ job \in [Calls -> Job]
  /\ stage = [c \in Calls |-> "new"]
  /\ on = [c \in Calls |-> NoConn]
  /\ over = [c \in Calls |-> FALSE]
  /\ inserted = [c \in Calls |-> 0]
  /\ fnErr = [c \in Calls |-> "none"]
  /\ result = [c \in Calls |-> "none"]
  /\ rows = [c \in Calls |-> 0]
  /\ mishap = [c \in Calls |-> "none"]

GoTo(c, next) == stage' = [stage EXCEPT ![c] = next]

Fails(c, next) == GoTo(c, next) /\ result' = [result EXCEPT ![c] = "error"]

Becomes(c, k) == conns' = [conns EXCEPT ![on[c]] = k]

(* Record starts no insert for a request without claims. *)
Start(c) ==
  /\ stage[c] = "new"
  /\ \/ GoTo(c, "acquire")
     \/ job[c].kind = "Record" /\ GoTo(c, "returned")
  /\ UNCHANGED <<pool, conns, rows, job, on, over, inserted, fnErr, result, mishap>>

First(kind) ==
  CASE kind = "WithOrgContext" -> "BEGIN"
    [] kind = "statement"      -> "query"
    [] kind = "Ready"          -> "Ping"
    [] kind = "Record"         -> "InsertAuditLog"

(* A free connection is one the pool has or has room to dial, which may    *)
(* fail.                                                                   *)
Acquire(c) ==
  /\ stage[c] = "acquire"
  /\ \/ /\ pool = "open" /\ ~Over(c)
        /\ \E k \in Conns \ Used : on' = [on EXCEPT ![c] = k]
        /\ GoTo(c, First(job[c].kind)) /\ UNCHANGED <<result, mishap>>
     \/ /\ pool = "open" /\ ~Over(c) /\ Conns \ Used # {}
        /\ mishap' = [mishap EXCEPT ![c] = "dial"]
        /\ Fails(c, "returned") /\ UNCHANGED on
     \/ /\ pool # "open" \/ Over(c)
        /\ Fails(c, "returned") /\ UNCHANGED <<on, mishap>>
  /\ UNCHANGED <<pool, conns, rows, job, over, inserted, fnErr>>

(* Mutant of Begin: when BEGIN fails the connection is not released. *)
BeginWithoutDefer(c) ==
  /\ stage[c] = "BEGIN"
  /\ \/ /\ Sends(c) /\ Becomes(c, [K(c) EXCEPT !.tx = "open"])
        /\ GoTo(c, "set_config") /\ UNCHANGED result
     \/ ~Sends(c) /\ Fails(c, "returned") /\ UNCHANGED conns
  /\ UNCHANGED <<pool, rows, job, on, over, inserted, fnErr, mishap>>

Begin(c) ==
  /\ stage[c] = "BEGIN"
  /\ \/ /\ Sends(c) /\ Becomes(c, [K(c) EXCEPT !.tx = "open"])
        /\ GoTo(c, "set_config") /\ UNCHANGED result
     \/ ~Sends(c) /\ Fails(c, "Release") /\ UNCHANGED conns
  /\ UNCHANGED <<pool, rows, job, on, over, inserted, fnErr, mishap>>

(* Mutant of SetConfig: is_local is false. *)
SetConfigForSession(c) ==
  /\ stage[c] = "set_config"
  /\ \/ /\ Sends(c) /\ Becomes(c, [K(c) EXCEPT !.session = job[c].org])
        /\ GoTo(c, "fn") /\ UNCHANGED result
     \/ ~Sends(c) /\ Fails(c, "ROLLBACK") /\ UNCHANGED conns
  /\ UNCHANGED <<pool, rows, job, on, over, inserted, fnErr, mishap>>

(* Mutant of SetConfig: its error is not looked at. *)
SetConfigUnchecked(c) ==
  /\ stage[c] = "set_config"
  /\ \/ Sends(c) /\ Becomes(c, [K(c) EXCEPT !.local = job[c].org])
     \/ Sends(c) /\ Becomes(c, [K(c) EXCEPT !.tx = "failed"])
     \/ ~Sends(c) /\ UNCHANGED conns
  /\ GoTo(c, "fn")
  /\ UNCHANGED <<pool, rows, job, on, over, inserted, fnErr, result, mishap>>

SetConfig(c) ==
  /\ stage[c] = "set_config"
  /\ \/ /\ Sends(c) /\ Becomes(c, [K(c) EXCEPT !.local = job[c].org])
        /\ GoTo(c, "fn") /\ UNCHANGED result
     \/ /\ Sends(c) /\ Becomes(c, [K(c) EXCEPT !.tx = "failed"])
        /\ Fails(c, "ROLLBACK")
     \/ ~Sends(c) /\ Fails(c, "ROLLBACK") /\ UNCHANGED conns
  /\ UNCHANGED <<pool, rows, job, on, over, inserted, fnErr, mishap>>

(* A statement of the callback: the policy lets it insert rows of the      *)
(* organisation in the setting.  The callback may overlook that it failed. *)
Insert(c) ==
  /\ stage[c] = "fn"
  /\ \/ /\ Sends(c) /\ K(c).tx = "open" /\ Setting(K(c)) = job[c].org
        /\ inserted[c] < MaxStatements
        /\ Becomes(c, [K(c) EXCEPT !.pending = @ + 1])
        /\ inserted' = [inserted EXCEPT ![c] = @ + 1]
        /\ UNCHANGED mishap
     \/ /\ mishap[c] = "none"
        /\ mishap' = [mishap EXCEPT ![c] = "statement"]
        /\ IF Sends(c) THEN Becomes(c, [K(c) EXCEPT !.tx = "failed"]) ELSE UNCHANGED conns
        /\ UNCHANGED inserted
  /\ UNCHANGED <<pool, rows, job, stage, on, over, fnErr, result>>

FnReturns(c) ==
  /\ stage[c] = "fn"
  /\ \E e \in {"ok", "error"} : fnErr' = [fnErr EXCEPT ![c] = e]
  /\ GoTo(c, "COMMIT")
  /\ UNCHANGED <<pool, conns, rows, job, on, over, inserted, result, mishap>>

(* Mutant of Commit: the error of COMMIT is not returned. *)
CommitUnchecked(c) ==
  /\ stage[c] = "COMMIT"
  /\ result' = [result EXCEPT ![c] = fnErr[c]]
  /\ \/ /\ Sends(c) /\ Becomes(c, Ended(K(c))) /\ GoTo(c, "Release")
        /\ rows' = [rows EXCEPT ![c] = IF K(c).tx = "open" THEN K(c).pending ELSE @]
     \/ ~Sends(c) /\ GoTo(c, "ROLLBACK") /\ UNCHANGED <<conns, rows>>
  /\ UNCHANGED <<pool, job, on, over, inserted, fnErr, mishap>>

(* COMMIT whatever the callback returned.  Its answer may be lost.         *)
Commit(c) ==
  /\ stage[c] = "COMMIT"
  /\ \/ /\ Sends(c) /\ Becomes(c, Ended(K(c)))
        /\ rows' = [rows EXCEPT ![c] = IF K(c).tx = "open" THEN K(c).pending ELSE @]
        /\ result' = [result EXCEPT ![c] = fnErr[c]]
        /\ GoTo(c, "Release") /\ UNCHANGED mishap
     \/ /\ Sends(c) /\ K(c).tx = "open" /\ Becomes(c, Lost)
        /\ rows' = [rows EXCEPT ![c] = K(c).pending]
        /\ mishap' = [mishap EXCEPT ![c] = "commit"]
        /\ Fails(c, "ROLLBACK")
     \/ ~Sends(c) /\ Fails(c, "ROLLBACK") /\ UNCHANGED <<conns, rows, mishap>>
  /\ UNCHANGED <<pool, job, on, over, inserted, fnErr>>

(* Its error is ignored. *)
Rollback(c) ==
  /\ stage[c] = "ROLLBACK"
  /\ IF Sends(c) THEN Becomes(c, Ended(K(c))) ELSE UNCHANGED conns
  /\ GoTo(c, "Release")
  /\ UNCHANGED <<pool, rows, job, on, over, inserted, fnErr, result, mishap>>

(* A statement outside a transaction, which PostgreSQL may refuse.         *)
Plain(c, statement) ==
  /\ stage[c] = statement
  /\ \/ /\ Sends(c) /\ result' = [result EXCEPT ![c] = "ok"]
        /\ GoTo(c, "Release") /\ UNCHANGED mishap
     \/ /\ Sends(c) /\ mishap' = [mishap EXCEPT ![c] = "refused"]
        /\ Fails(c, "Release")
     \/ ~Sends(c) /\ Fails(c, "Release") /\ UNCHANGED mishap
  /\ UNCHANGED <<pool, conns, job, on, over, inserted, fnErr>>

(* What the repositories of the other modules issue. *)
Query(c) == Plain(c, "query") /\ UNCHANGED rows

(* Checker.Ready, within the request of the probe. *)
Ping(c) == Plain(c, "Ping") /\ UNCHANGED rows

(* Nobody sees its error, which Record drops: the entry is then lost.      *)
InsertAuditLog(c) ==
  /\ Plain(c, "InsertAuditLog")
  /\ rows' = IF result'[c] = "ok" THEN [rows EXCEPT ![c] = 1] ELSE rows

Release(c) ==
  /\ stage[c] = "Release"
  /\ IF ~K(c).alive \/ K(c).tx # "idle" THEN Becomes(c, Fresh) ELSE UNCHANGED conns
  /\ on' = [on EXCEPT ![c] = NoConn]
  /\ GoTo(c, "returned")
  /\ UNCHANGED <<pool, rows, job, over, inserted, fnErr, result, mishap>>

-----------------------------------------------------------------------------
(* The client goes away, or the handler has returned. *)
ContextEnds(c) ==
  /\ ~over[c] /\ stage[c] \notin {"new", "returned"}
  /\ over' = [over EXCEPT ![c] = TRUE]
  /\ UNCHANGED <<pool, conns, rows, job, stage, on, inserted, fnErr, result, mishap>>

(* A connection in use is lost; PostgreSQL rolls its transaction back. *)
Break(k) ==
  /\ k \in Used /\ conns[k].alive
  /\ conns' = [conns EXCEPT ![k] = Lost]
  /\ UNCHANGED <<pool, rows, callVars>>

Close ==
  /\ \/ pool = "open" /\ pool' = "closing"
     \/ pool = "closing" /\ Used = {} /\ pool' = "closed"
  /\ UNCHANGED <<conns, rows, callVars>>

Step(c) ==
  \/ Start(c)
  \/ Acquire(c)
  \/ Begin(c)
  \/ SetConfig(c)
  \/ FnReturns(c)
  \/ Commit(c)
  \/ Rollback(c)
  \/ Query(c)
  \/ Ping(c)
  \/ InsertAuditLog(c)
  \/ Release(c)

Next ==
  \/ \E c \in Calls : Step(c) \/ Insert(c) \/ ContextEnds(c)
  \/ \E k \in Conns : Break(k)
  \/ Close

Spec == Init /\ [][Next]_vars

(* Statements end, and callbacks return. *)
FairSpec == Spec /\ \A c \in Calls : WF_vars(Step(c))

-----------------------------------------------------------------------------
(* Properties *)

Mishaps == {"none", "dial", "refused", "statement", "commit"}

Holding == {"BEGIN", "set_config", "fn", "COMMIT", "ROLLBACK", "query", "Ping",
            "InsertAuditLog", "Release"}

(* Every variable keeps its type; a call has a connection from Acquire to  *)
(* Release, and to itself.                                                 *)
TypeOK ==
  /\ pool \in {"open", "closing", "closed"}
  /\ conns \in [Conns -> Conn]
  /\ job \in [Calls -> Job]
  /\ stage \in [Calls -> Stages]
  /\ on \in [Calls -> Conns \cup {NoConn}]
  /\ over \in [Calls -> BOOLEAN]
  /\ inserted \in [Calls -> 0..MaxStatements]
  /\ fnErr \in [Calls -> {"none", "ok", "error"}]
  /\ result \in [Calls -> {"none", "ok", "error"}]
  /\ rows \in [Calls -> 0..(MaxStatements + 1)]
  /\ mishap \in [Calls -> Mishaps]
  /\ \A c \in Calls : on[c] # NoConn <=> stage[c] \in Holding
  /\ \A c, d \in Calls : on[c] # NoConn /\ on[c] = on[d] => c = d

(* What a callback does it does in a transaction that has the setting of   *)
(* its organisation (org_context.go:11), unless the connection is lost.    *)
CallbackIsScoped ==
  \A c \in Calls :
    stage[c] = "fn" /\ K(c).alive => K(c).tx # "idle" /\ Setting(K(c)) = job[c].org

(* No organisation leaks through the pool (org_context.go:14): a free      *)
(* connection is in no transaction and has no setting, nor has one on which*)
(* something else than WithOrgContext runs.                                *)
NoContextLeaks ==
  /\ \A k \in Conns \ Used : conns[k].tx = "idle" /\ Setting(conns[k]) = NoOrg
  /\ \A c \in Calls :
       job[c].kind # "WithOrgContext" /\ on[c] # NoConn => Setting(K(c)) = NoOrg

(* What WithOrgContext returns says what became of the callback's rows, of *)
(* which all are kept or none.  They are kept if it returns no error, but  *)
(* for a callback that overlooked a failed statement; and after an error   *)
(* only if that is the callback's own, which does not stop COMMIT          *)
(* (org_context.go:36), or the answer of COMMIT was lost.                  *)
ReportsTruly ==
  \A c \in Calls :
    job[c].kind = "WithOrgContext" /\ stage[c] = "returned" =>
      /\ rows[c] \in {0, inserted[c]}
      /\ result[c] = "ok" /\ rows[c] # inserted[c] => mishap[c] = "statement"
      /\ result[c] = "error" /\ rows[c] # 0 => fnErr[c] = "error" \/ mishap[c] = "commit"

(* An audit entry is not lost to the end of its request (logger.go:38),    *)
(* wherever its insert is when that ends: it takes the end of the pool, a  *)
(* connection that is lost or cannot be dialled, or PostgreSQL's refusal of*)
(* the insert (repository_pg.go:51) to lose it.                            *)
AuditOutlivesRequest ==
  [][\A c \in Calls :
       job[c].kind = "Record" /\ result'[c] = "error" /\ result[c] # "error" =>
         \/ pool # "open"
         \/ on[c] # NoConn /\ ~K(c).alive
         \/ mishap'[c] \in {"dial", "refused"}]_vars

(* Every use of the pool comes to its end and gives its connection back,   *)
(* whatever fails in it.                                                   *)
AllReturn == \A c \in Calls : stage[c] = "acquire" ~> stage[c] = "returned"
=============================================================================
