------------------------------- MODULE Server -------------------------------
(***************************************************************************)
(* The server process (cmd/server/main.go): its start, its middleware      *)
(* chain with the audit of mutating requests (internal/audit), the         *)
(* connection pool (pkg/database) the requests share, and its shutdown.    *)
(*                                                                         *)
(* What a route's handler does is abstracted to its SQL statements, each   *)
(* holding one pooled connection; the other modules say what they do.  The *)
(* behaviour of net/http's Shutdown and of pgxpool, which is not in the    *)
(* repository, is modelled from how main.go relies on it: Shutdown stops   *)
(* accepting and waits for the requests under way; waiting Acquires are    *)
(* served in order; Close refuses new ones and waits for the connections   *)
(* in use.                                                                 *)
(***************************************************************************)
EXTENDS Integers, SequencesExt

CONSTANTS
  Requests,       (* requests that may arrive                              *)
  MaxConns,       (* size of the pool                                      *)
  MaxStatements   (* bound on the statements of one handler                *)

ASSUME BoundsAssumption ==
  /\ IsFiniteSet(Requests)
  /\ MaxConns \in Nat \ {0}
  /\ MaxStatements \in Nat

VARIABLES
  main,       (* where func main is                                        *)
  exit,       (* how the process ends, once that is settled                *)
  listener,   (* the goroutine in ListenAndServe                           *)
  at,         (* where in the handler chain each request is                *)
  method,
  code,       (* the status a handler or middleware has written            *)
  auditCtx,   (* the values in the context the audit middleware holds      *)
  ctx,        (* ... and in the one it has become further down the chain   *)
  work,       (* statements a handler may still issue                      *)
  pool,
  holders,    (* requests executing a statement on a connection            *)
  queue,      (* requests waiting for a connection                         *)
  refused,    (* history: requests a closed pool refused a connection      *)
  recorded    (* rows of audit_log, by the request they are about          *)

mainVars == <<main, exit, listener>>
reqVars  == <<at, method, code, auditCtx, ctx, work>>
poolVars == <<pool, holders, queue, refused>>
vars     == <<mainVars, reqVars, poolVars, recorded>>

Places == {"new", "OrgResolver", "Auth", "Handler", "Audit", "answered"}

Keys == {"requestID", "org", "claims"}

Active(r) == at[r] \notin {"new", "answered"}

Under(place, r) == main # "exited" /\ at[r] = place

Running(r) == r \notin holders /\ r \notin ToSet(queue)

-----------------------------------------------------------------------------
Init ==
  /\ main = "starting" /\ exit = "none" /\ listener = "none"
  /\ at = [r \in Requests |-> "new"]
  /\ method = [r \in Requests |-> "none"]
  /\ code = [r \in Requests |-> "none"]
  /\ auditCtx = [r \in Requests |-> {}] /\ ctx = [r \in Requests |-> {}]
  /\ work = [r \in Requests |-> MaxStatements]
  /\ pool = "open" /\ holders = {} /\ queue = <<>> /\ refused = {}
  /\ recorded = {}

-----------------------------------------------------------------------------
(* The main goroutine *)

(* config.Load and database.New, of which Startup has the steps.           *)
Start ==
  /\ main = "starting"
  /\ \/ main' = "serving" /\ UNCHANGED exit
     \/ main' = "exited" /\ exit' = "1"
  /\ UNCHANGED <<listener, reqVars, poolVars, recorded>>

(* ListenAndServe: its address may be taken, which ends the process; after *)
(* Shutdown it returns ErrServerClosed.                                    *)
ListenAndServe ==
  /\ listener = "none"
  /\ \/ main = "serving" /\ listener' = "open" /\ UNCHANGED <<main, exit>>
     \/ /\ main = "serving"
        /\ listener' = "closed" /\ main' = "exited" /\ exit' = "1"
     \/ /\ main \in {"draining", "closing"}
        /\ listener' = "closed" /\ UNCHANGED <<main, exit>>
  /\ UNCHANGED <<reqVars, poolVars, recorded>>

(* SIGTERM: stop(), then srv.Shutdown closes the listener and waits. *)
Signal ==
  /\ main = "serving"
  /\ main' = "draining"
  /\ listener' = IF listener = "open" THEN "closed" ELSE listener
  /\ UNCHANGED <<exit, reqVars, poolVars, recorded>>

(* stop() has restored the default: a second signal ends the process. *)
SignalAgain ==
  /\ main \in {"draining", "closing"}
  /\ main' = "exited" /\ exit' = "killed"
  /\ UNCHANGED <<listener, reqVars, poolVars, recorded>>

ClosePool(status) ==
  /\ main' = "closing" /\ exit' = status /\ pool' = "closing"
  /\ UNCHANGED <<listener, holders, queue, refused, reqVars, recorded>>

(* Mutant of Drained: Shutdown is called but not waited for. *)
NotDrained == main = "draining" /\ ClosePool("0")

Drained ==
  /\ main = "draining"
  /\ \A r \in Requests : ~Active(r)
  /\ ClosePool("0")

(* Ten seconds pass: the pool is closed first, then the process exits. *)
GraceExpires ==
  /\ main = "draining"
  /\ \E r \in Requests : Active(r)
  /\ ClosePool("1")

Exit ==
  /\ main = "closing" /\ holders = {}
  /\ main' = "exited" /\ pool' = "closed"
  /\ UNCHANGED <<exit, listener, holders, queue, refused, reqVars, recorded>>

-----------------------------------------------------------------------------
(* Requests.  Statements and their connections come first. *)

(* The statement of OrgResolver, or one of the handler's, has an outcome.  *)
(* A handler that sees a statement fail need not answer with an error.     *)
AfterStatement(r, ok) ==
  \/ /\ at[r] = "OrgResolver" /\ ok
     /\ at'  = [at EXCEPT ![r] = "Auth"]
     /\ ctx' = [ctx EXCEPT ![r] = @ \cup {"org"}]
     /\ UNCHANGED <<code, work>>
  \/ /\ at[r] = "OrgResolver" /\ ~ok
     /\ at'   = [at EXCEPT ![r] = "Audit"]
     /\ code' = [code EXCEPT ![r] = "error"]
     /\ UNCHANGED <<ctx, work>>
  \/ /\ at[r] = "Handler"
     /\ work' = [work EXCEPT ![r] = @ - 1]
     /\ UNCHANGED <<at, code, ctx>>

Issues(r) ==
  /\ Under("OrgResolver", r) \/ (Under("Handler", r) /\ work[r] > 0)
  /\ Running(r)

Acquire(r) ==
  /\ Issues(r) /\ pool = "open"
  /\ \/ /\ Cardinality(holders) < MaxConns /\ queue = <<>>
        /\ holders' = holders \cup {r} /\ UNCHANGED queue
     \/ /\ Cardinality(holders) >= MaxConns \/ queue # <<>>
        /\ queue' = Append(queue, r) /\ UNCHANGED holders
  /\ UNCHANGED <<pool, refused, mainVars, reqVars, recorded>>

AcquireClosed(r) ==
  /\ Issues(r) /\ pool # "open"
  /\ refused' = refused \cup {r}
  /\ AfterStatement(r, FALSE)
  /\ UNCHANGED <<pool, holders, queue, method, auditCtx, mainVars, recorded>>

(* A released connection goes to the longest waiting request; the closed   *)
(* pool wakes it with an error.                                            *)
Grant ==
  /\ main # "exited" /\ queue # <<>> /\ Cardinality(holders) < MaxConns
  /\ queue' = Tail(queue)
  /\ \/ /\ pool = "open"
        /\ holders' = holders \cup {Head(queue)}
        /\ UNCHANGED <<refused, reqVars>>
     \/ /\ pool # "open"
        /\ refused' = refused \cup {Head(queue)}
        /\ AfterStatement(Head(queue), FALSE)
        /\ UNCHANGED <<holders, method, auditCtx>>
  /\ UNCHANGED <<pool, mainVars, recorded>>

(* The client goes away, and with it the context Acquire waits under. *)
GiveUp(r) ==
  /\ main # "exited"
  /\ \E i \in DOMAIN queue : queue[i] = r /\ queue' = RemoveAt(queue, i)
  /\ AfterStatement(r, FALSE)
  /\ UNCHANGED <<pool, holders, refused, method, auditCtx, mainVars, recorded>>

(* Mutant of Executed: a failed statement keeps its connection. *)
LeakOnError(r) ==
  /\ main # "exited" /\ r \in holders
  /\ \E ok \in BOOLEAN :
       /\ AfterStatement(r, ok)
       /\ holders' = IF ok THEN holders \ {r} ELSE holders
  /\ UNCHANGED <<pool, queue, refused, method, auditCtx, mainVars, recorded>>

Executed(r) ==
  /\ main # "exited" /\ r \in holders
  /\ holders' = holders \ {r}
  /\ \E ok \in BOOLEAN : AfterStatement(r, ok)
  /\ UNCHANGED <<pool, queue, refused, method, auditCtx, mainVars, recorded>>

-----------------------------------------------------------------------------
(* IPBlocker, RequestID and the headers' middlewares have run; the audit   *)
(* middleware keeps the request it was given and passes it on.             *)
Arrive(r) ==
  /\ main = "serving" /\ listener = "open" /\ at[r] = "new"
  /\ \E m \in {"GET", "POST"} : method' = [method EXCEPT ![r] = m]
  /\ \E next \in {"OrgResolver", "Auth"} : at' = [at EXCEPT ![r] = next]
  /\ auditCtx' = [auditCtx EXCEPT ![r] = {"requestID"}]
  /\ ctx' = [ctx EXCEPT ![r] = {"requestID"}]
  /\ UNCHANGED <<code, work, poolVars, mainVars, recorded>>

(* The route is public, or the token is good and the handler gets a request*)
(* with the claims in its context, or Auth or Require refuses.             *)
Auth(r) ==
  /\ Under("Auth", r)
  /\ \/ at' = [at EXCEPT ![r] = "Handler"] /\ UNCHANGED <<ctx, code>>
     \/ /\ at'  = [at EXCEPT ![r] = "Handler"]
        /\ ctx' = [ctx EXCEPT ![r] = @ \cup {"claims"}]
        /\ UNCHANGED code
     \/ /\ at'   = [at EXCEPT ![r] = "Audit"]
        /\ code' = [code EXCEPT ![r] = "error"]
        /\ UNCHANGED ctx
  /\ UNCHANGED <<method, auditCtx, work, poolVars, mainVars, recorded>>

Answer(r) ==
  /\ Under("Handler", r) /\ Running(r)
  /\ \E c \in {"2xx", "error"} : code' = [code EXCEPT ![r] = c]
  /\ at' = [at EXCEPT ![r] = "Audit"]
  /\ UNCHANGED <<method, auditCtx, ctx, work, poolVars, mainVars, recorded>>

(* The chain returns to the audit middleware; Record skips a request whose *)
(* context has no claims.  Its insert, in a goroutine of its own, is taken *)
(* as done.                                                                *)
Audit(r) ==
  /\ Under("Audit", r)
  /\ at' = [at EXCEPT ![r] = "answered"]
  /\ recorded' = IF method[r] = "POST" /\ code[r] = "2xx" /\ "claims" \in auditCtx[r]
                 THEN recorded \cup {r}
                 ELSE recorded
  /\ UNCHANGED <<method, code, auditCtx, ctx, work, poolVars, mainVars>>

Serve(r) ==
  \/ Acquire(r)
  \/ AcquireClosed(r)
  \/ Executed(r)
  \/ Auth(r)
  \/ Answer(r)
  \/ Audit(r)

Shutdown == Drained \/ GraceExpires \/ Exit

AfterStart ==
  \/ ListenAndServe
  \/ Signal
  \/ SignalAgain
  \/ Shutdown
  \/ Grant
  \/ \E r \in Requests : Arrive(r) \/ Serve(r) \/ GiveUp(r)

Next == Start \/ AfterStart

(* Goroutines run, the pool hands out what is returned to it, and the      *)
(* database ends every statement.  Signals, arrivals and clients that give *)
(* up need not come.                                                       *)
Fairness ==
  /\ WF_vars(Shutdown)
  /\ WF_vars(Grant)
  /\ \A r \in Requests : WF_vars(Serve(r))

Spec == Init /\ [][Next]_vars

FairSpec == Spec /\ Fairness

-----------------------------------------------------------------------------
(* Properties *)

(* Only a request at a statement holds or awaits a connection, it does so  *)
(* once, and no more connections are out than the pool has.                *)
PoolOK ==
  /\ Cardinality(holders) <= MaxConns
  /\ \A i, j \in DOMAIN queue : queue[i] = queue[j] => i = j
  /\ \A i \in DOMAIN queue : queue[i] \notin holders
  /\ \A r \in holders \cup ToSet(queue) :
       at[r] = "OrgResolver" \/ (at[r] = "Handler" /\ work[r] > 0)

(* Every variable keeps its type, and the pool its accounts. *)
TypeOK ==
  /\ main \in {"starting", "serving", "draining", "closing", "exited"}
  /\ exit \in {"none", "0", "1", "killed"}
  /\ listener \in {"none", "open", "closed"}
  /\ at \in [Requests -> Places]
  /\ method \in [Requests -> {"none", "GET", "POST"}]
  /\ code \in [Requests -> {"none", "2xx", "error"}]
  /\ auditCtx \in [Requests -> SUBSET Keys]
  /\ ctx \in [Requests -> SUBSET Keys]
  /\ work \in [Requests -> 0..MaxStatements]
  /\ pool \in {"open", "closing", "closed"}
  /\ holders \subseteq Requests
  /\ queue \in Seq(Requests)
  /\ refused \subseteq Requests
  /\ recorded \subseteq Requests
  /\ PoolOK

(* A process that ends with status 0 has answered every request it took    *)
(* and refused none of them a connection (main.go:79: pool.Close comes     *)
(* after Shutdown).                                                        *)
GracefulExitIsClean ==
  exit = "0" => refused = {} /\ \A r \in Requests : ~Active(r)

(* Once signalled the process ends, whatever the requests do, though the   *)
(* forced path waits in pool.Close for their statements before it exits.   *)
ShutdownEnds == main = "draining" ~> main = "exited"

(* Every request is answered, unless the process ends first: connections   *)
(* are handed out in turn and no request waits for a second while it holds *)
(* one, so a pool of any size serves them all.                             *)
AllAnswered == \A r \in Requests : Active(r) ~> (~Active(r) \/ main = "exited")

(* audit/middleware.go:8: state-changing requests with a 2xx answer are    *)
(* logged, using the claims of the caller.                                 *)
MutationsAudited ==
  \A r \in Requests :
    /\ at[r] = "answered" /\ method[r] = "POST" /\ code[r] = "2xx"
    /\ "claims" \in ctx[r]
    => r \in recorded
=============================================================================
