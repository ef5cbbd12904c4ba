------------------------------ MODULE Startup -------------------------------
(***************************************************************************)
(* How the process comes to serve (cmd/server/main.go, pkg/config,         *)
(* pkg/database/postgres.go): Server's Start, step by step, and the signal *)
(* that arrives meanwhile.  What comes after is Server's.                  *)
(*                                                                         *)
(* The value of an environment variable is "unset", "good", or "bad": too  *)
(* short, not among the choices, or not parsable, whatever its kind.       *)
(***************************************************************************)
EXTENDS Server

CONSTANTS
  Secrets,    (* JWT_SECRET, ARGON_PEPPER: required and validated          *)
  Enumerated, (* APP_ENV, AI_DEFAULT_PROVIDER: defaulted and validated     *)
  Required,   (* DATABASE_URL, VALKEY_URL, ...: "required", not validated  *)
  Parsed      (* numbers, durations and Booleans: defaulted                *)

DSN == "DATABASE_URL"

ASSUME SettingsAssumption ==
  /\ DSN \in Required
  /\ Parsed \cap (Secrets \cup Enumerated \cup Required) = {}

VARIABLES
  boot,       (* what main does next                                       *)
  cfg,        (* the Config, until it has been handed on                   *)
  dialled,    (* the state of the pool that database.New makes             *)
  signalled   (* a signal has cancelled ctx and main has yet to see it     *)

startVars == <<boot, cfg, dialled, signalled>>
allVars   == <<vars, startVars>>

Settings == Secrets \cup Enumerated \cup Required \cup Parsed

Environment == [Settings -> {"unset", "bad", "good"}]

Config == [Settings -> {"unset", "bad", "good", "default"}]

NoConfig == [k \in Settings |-> "unset"]

-----------------------------------------------------------------------------
(* config.go *)

(* requireEnv leaves a missing variable to validate. *)
requireEnv(env, k) == env[k]

getEnv(env, k) == IF env[k] = "unset" THEN "default" ELSE env[k]

(* getEnvInt, getEnvBool, getEnvDuration: what does not parse is ignored.  *)
getEnvParsed(env, k) == IF env[k] = "good" THEN "good" ELSE "default"

Loaded(env) ==
  [k \in Settings |->
     CASE k \in Secrets \cup Required -> requireEnv(env, k)
       [] k \in Enumerated               -> getEnv(env, k)
       [] k \in Parsed                -> getEnvParsed(env, k)]

validate(c) ==
  /\ \A k \in Secrets : c[k] = "good"
  /\ \A k \in Enumerated : c[k] \in {"default", "good"}

-----------------------------------------------------------------------------
StartupInit ==
  /\ Init
  /\ boot = "Load" /\ cfg = NoConfig /\ dialled = "no" /\ signalled = FALSE

(* os.Exit(1), by logger.Fatal too. *)
Stop ==
  /\ Start /\ main' = "exited"
  /\ boot' = "done"
  /\ UNCHANGED signalled

Proceed(next) ==
  /\ boot' = next
  /\ UNCHANGED <<vars, signalled>>

Load ==
  /\ boot = "Load"
  /\ \E env \in Environment :
       \/ validate(Loaded(env)) /\ cfg' = Loaded(env) /\ Proceed("ParseConfig")
       \/ ~validate(Loaded(env)) /\ cfg' = NoConfig /\ Stop
  /\ UNCHANGED dialled

(* An empty URL is no error: the PG* variables and pgx's defaults are used.*)
ParseConfig ==
  /\ boot = "ParseConfig"
  /\ \/ cfg[DSN] # "bad" /\ Proceed("NewWithConfig")
     \/ cfg[DSN] = "bad" /\ Stop
  /\ UNCHANGED <<cfg, dialled>>

NewWithConfig ==
  /\ boot = "NewWithConfig"
  /\ \/ dialled' = "open" /\ Proceed("Ping")
     \/ Stop /\ UNCHANGED dialled
  /\ UNCHANGED cfg

(* Mutant of PingFails: the pool is not closed. *)
PingFailsOnly ==
  /\ boot = "Ping"
  /\ Stop
  /\ UNCHANGED <<cfg, dialled>>

(* The database refuses, or ctx has been cancelled; the pool is closed.    *)
PingFails ==
  /\ boot = "Ping"
  /\ dialled' = "closed"
  /\ Stop
  /\ UNCHANGED cfg

(* Mutant of PingSucceeds: the signals are registered only now. *)
PingSucceedsUnnotified ==
  /\ boot = "Ping"
  /\ Start /\ main' = "serving"
  /\ boot' = "done" /\ cfg' = NoConfig /\ signalled' = FALSE
  /\ UNCHANGED dialled

(* ... after which buildMux cannot fail. *)
PingSucceeds ==
  /\ boot = "Ping"
  /\ Start /\ main' = "serving"
  /\ boot' = "done" /\ cfg' = NoConfig
  /\ UNCHANGED <<dialled, signalled>>

(* SIGTERM: NotifyContext, the first statement of main, takes it.          *)
SignalEarly ==
  /\ main = "starting" /\ ~signalled
  /\ signalled' = TRUE
  /\ UNCHANGED <<vars, boot, cfg, dialled>>

(* <-ctx.Done() *)
SignalSeen ==
  /\ Signal
  /\ signalled' = FALSE
  /\ UNCHANGED <<boot, cfg, dialled>>

(* The pool that is closed is the one that was dialled. *)
Served ==
  /\ AfterStart /\ ~(main = "serving" /\ main' = "draining")
  /\ dialled' = IF pool' = "closed" THEN "closed" ELSE dialled
  /\ UNCHANGED <<boot, cfg, signalled>>

Boot == Load \/ ParseConfig \/ NewWithConfig

StartupNext ==
  \/ Boot
  \/ PingFails
  \/ PingSucceeds
  \/ SignalEarly
  \/ SignalSeen
  \/ Served

StartupSpec == StartupInit /\ [][StartupNext]_allVars

(* database.New has no deadline of its own: nothing but a signal ends a    *)
(* Ping that is not answered.  ctx.Done() is seen once it is closed.       *)
StartupFairness ==
  /\ Fairness
  /\ WF_allVars(Boot)
  /\ WF_allVars(signalled /\ (PingFails \/ PingSucceeds))
  /\ WF_allVars(signalled /\ SignalSeen)

FairStartupSpec == StartupSpec /\ StartupFairness

-----------------------------------------------------------------------------
(* Properties *)

(* Every variable keeps its type, and requests are served over a pool that *)
(* was dialled.                                                            *)
StartupTypeOK ==
  /\ boot \in {"Load", "ParseConfig", "NewWithConfig", "Ping", "done"}
  /\ cfg \in Config
  /\ dialled \in {"no", "open", "closed"}
  /\ signalled \in BOOLEAN
  /\ main = "starting" <=> boot # "done"
  /\ main \in {"serving", "draining", "closing"} => dialled = "open"

(* A process that ends by itself leaves no connection behind: a pool that  *)
(* was dialled has been closed, when the start fails as well               *)
(* (postgres.go:64), unless ListenAndServe failed.                         *)
ExitClosesPool ==
  main = "exited" /\ exit \in {"0", "1"} /\ dialled = "open" => listener = "closed" /\ pool = "open"

(* A signal that arrives at any moment of the start ends the process: it   *)
(* cancels the dialling, or is seen as soon as the server runs             *)
(* (main.go:35, main.go:67).                                               *)
EarlySignalEnds == signalled ~> main = "exited"
=============================================================================
