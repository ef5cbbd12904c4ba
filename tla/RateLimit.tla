----------------------------- MODULE RateLimit ------------------------------
(***************************************************************************)
(* The rate limiter (pkg/middleware/ratelimit.go, realip.go) and its       *)
(* counters (pkg/cache/store.go), under a clock.                           *)
(*                                                                         *)
(* Every operation of the store holds its mutex, and what the middleware   *)
(* does with the number it is given depends on nothing else: a request is  *)
(* one step.  The store's other two operations, Incr and Expire, have no   *)
(* caller but the tests; a counter kept with them is incremented in one    *)
(* step and, by whoever began it, given its time to live in another.       *)
(* Nothing removes entries.                                                *)
(***************************************************************************)
EXTENDS Integers, FiniteSets

CONSTANTS
  Addresses,  (* values of RemoteAddr                                      *)
  Host,       (* the host of each that has the form host:port              *)
  Counters,   (* keys of the callers of Incr and Expire                    *)
  Callers,
  Limit, Window,
  MaxCount    (* bound: beyond it counts are not told apart                *)

ASSUME LimitAssumption ==
  /\ DOMAIN Host \subseteq Addresses
  /\ Limit \in Nat \ {0} /\ Window \in Nat /\ MaxCount \in Nat /\ MaxCount > Limit

VARIABLES
  entries,    (* of Store.entries; left is expiresAt - now, down to -1     *)
  verdict,    (* how each client was last answered                         *)
  passed,     (* history: requests of each client that passed, a pair of
                 age in ticks and number among those of the same age       *)
  counting,   (* the counter each caller has begun and must still expire   *)
  abandoned   (* history: counters whose caller stopped in between         *)

vars == <<entries, verdict, passed, counting, abandoned>>

(* realIP *)
RealIP(a) == IF a \in DOMAIN Host THEN Host[a] ELSE a

Clients == {RealIP(a) : a \in Addresses}
Keys    == Addresses \cup Clients \cup Counters

ASSUME KeysAssumption == Counters \cap (Addresses \cup Clients) = {}

Missing == [count |-> 0, expires |-> FALSE, left |-> -1]

Entry == [count : 1..MaxCount, expires : BOOLEAN, left : -1..Window]

(* now is after expiresAt, unless that is zero. *)
Renewed(k) == entries[k] = Missing \/ (entries[k].expires /\ entries[k].left < 0)

Bump(count) == IF count < MaxCount THEN count + 1 ELSE count

Init ==
  /\ entries = [k \in Keys |-> Missing]
  /\ verdict = [c \in Clients |-> "none"]
  /\ passed = [c \in Clients |-> {}]
  /\ counting = [w \in Callers |-> {}]
  /\ abandoned = {}

-----------------------------------------------------------------------------
(* The store.  Each operator is the entry that the call leaves under key k.*)

(* Mutant of IncrWithExpire: every increment sets the time to live. *)
IncrAndExtend(k) ==
  [count |-> IF Renewed(k) THEN 1 ELSE Bump(entries[k].count),
   expires |-> TRUE, left |-> Window]

(* Mutant of IncrWithExpire: at the very end of its window an entry is     *)
(* taken for expired.                                                      *)
IncrBeforeExpiry(k) ==
  IF entries[k].left <= 0 THEN [count |-> 1, expires |-> TRUE, left |-> Window]
  ELSE [entries[k] EXCEPT !.count = Bump(@)]

IncrWithExpire(k) ==
  IF Renewed(k) THEN [count |-> 1, expires |-> TRUE, left |-> Window]
  ELSE [entries[k] EXCEPT !.count = Bump(@)]

Incr(k) ==
  IF Renewed(k) THEN [count |-> 1, expires |-> FALSE, left |-> -1]
  ELSE [entries[k] EXCEPT !.count = Bump(@)]

(* Mutant of Expire: only a counter at its first increment is given a time.*)
ExpireFirst(k) ==
  IF entries[k].count # 1 THEN entries[k]
  ELSE [entries[k] EXCEPT !.expires = TRUE, !.left = Window]

Expire(k) ==
  IF entries[k] = Missing THEN Missing
  ELSE [entries[k] EXCEPT !.expires = TRUE, !.left = Window]

-----------------------------------------------------------------------------
WithOneMore(ps) == ps \cup {<<0, Cardinality({p \in ps : p[1] = 0}) + 1>>}

(* Those that are older than a window are forgotten. *)
Older(ps) == {<<p[1] + 1, p[2]>> : p \in {q \in ps : q[1] < Window}}

(* A request from address a, through the middleware. *)
Request(a) ==
  LET c == RealIP(a) IN
  /\ entries' = [entries EXCEPT ![c] = IncrWithExpire(c)]
  /\ LET passes == entries'[c].count <= Limit IN
       /\ verdict' = [verdict EXCEPT ![c] = IF passes THEN "passed" ELSE "refused"]
       /\ passed' = IF passes THEN [passed EXCEPT ![c] = WithOneMore(@)] ELSE passed
  /\ UNCHANGED <<counting, abandoned>>

(* A caller of Incr; the first increment is to be followed by Expire.      *)
Begin(w, k) ==
  /\ counting[w] = {}
  /\ entries' = [entries EXCEPT ![k] = Incr(k)]
  /\ counting' = [counting EXCEPT ![w] = IF entries'[k].count = 1 THEN {k} ELSE {}]
  /\ UNCHANGED <<verdict, passed, abandoned>>

Finish(w, k) ==
  /\ k \in counting[w]
  /\ entries' = [entries EXCEPT ![k] = Expire(k)]
  /\ counting' = [counting EXCEPT ![w] = {}]
  /\ UNCHANGED <<verdict, passed, abandoned>>

Stop(w) ==
  /\ counting[w] # {}
  /\ counting' = [counting EXCEPT ![w] = {}]
  /\ abandoned' = abandoned \cup counting[w]
  /\ UNCHANGED <<entries, verdict, passed>>

Tick ==
  /\ entries' = [k \in Keys |->
       [entries[k] EXCEPT !.left = IF @ >= 0 THEN @ - 1 ELSE @]]
  /\ passed' = [c \in Clients |-> Older(passed[c])]
  /\ UNCHANGED <<verdict, counting, abandoned>>

Next ==
  \/ Tick
  \/ \E a \in Addresses : Request(a)
  \/ \E w \in Callers :
       \/ \E k \in Counters : Begin(w, k) \/ Finish(w, k)
       \/ Stop(w)

Spec == Init /\ [][Next]_vars

(* The clock goes on, and every client keeps asking. *)
FairSpec == Spec /\ WF_vars(Tick) /\ \A a \in Addresses : WF_vars(Request(a))

-----------------------------------------------------------------------------
(* Properties *)

(* Every variable keeps its type. *)
TypeOK ==
  /\ entries \in [Keys -> Entry \cup {Missing}]
  /\ verdict \in [Clients -> {"none", "passed", "refused"}]
  /\ passed \in [Clients -> SUBSET ((0..Window) \X Nat)]
  /\ counting \in [Callers -> SUBSET Counters]
  /\ abandoned \subseteq Counters

InForce(c) == entries[c] # Missing /\ entries[c].left >= 0

Windows == INSTANCE FixedWindows WITH
  left     <- [c \in Clients |-> IF InForce(c) THEN entries[c].left ELSE -1],
  admitted <- [c \in Clients |-> IF InForce(c)
                                 THEN IF entries[c].count < Limit THEN entries[c].count
                                                                  ELSE Limit
                                 ELSE 0]

(* The limiter keeps fixed windows: each client's opens with its first     *)
(* request, is not prolonged by later ones, and lets Limit of them pass.   *)
KeepsWindows == Windows!Spec

(* What a client can get through in any span of a window's length, which is*)
(* what the limit is for: at the seam of two windows less than twice the   *)
(* limit, since a window opens only after the earlier one is over and the  *)
(* request that opened that is out of the span (store.go:58).              *)
LessThanTwice ==
  \A c \in Clients : Cardinality(passed[c]) <= 2 * Limit - 1

(* A refused client that keeps asking is let through again: its asking does*)
(* not prolong the window it is refused in.                                *)
RefusedPassesLater ==
  \A c \in Clients : verdict[c] = "refused" ~> verdict[c] = "passed"

(* A counter without a time to live is one whose first caller has yet to   *)
(* call Expire, or never will.                                             *)
EverlastingIsAbandoned ==
  \A k \in Counters :
    entries[k] # Missing /\ ~entries[k].expires =>
      k \in abandoned \/ \E w \in Callers : k \in counting[w]
=============================================================================
