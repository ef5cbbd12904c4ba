-------------------------- MODULE RateLimitProofs ---------------------------
(***************************************************************************)
(* Proofs about RateLimit: the types, the counters without a time to live, *)
(* how many requests pass in the span of a window, and that the limiter    *)
(* implements FixedWindows, for any addresses, limit, window, callers and  *)
(* counters.                                                               *)
(***************************************************************************)
EXTENDS RateLimit, FiniteSetTheorems, TLAPS

(* The counter of a client always has a time to live: nothing but          *)
(* IncrWithExpire makes one.                                               *)
ClientsExpire == \A c \in Clients : entries[c] # Missing => entries[c].expires

(* A caller is between its Incr and its Expire for one counter at most. *)
OneAtATime == \A w \in Callers : \A k, l \in counting[w] : k = l

(* The client is in no window: its next request opens one. *)
Lapsed(c) == entries[c] = Missing \/ entries[c].left < 0

(* Of passes ps, those of the last n ticks and the present one, and those  *)
(* from before.                                                            *)
Recent(ps, n) == {p \in ps : p[1] <= n}
Former(ps, n) == {p \in ps : p[1] > n}

Lasted(c) == Window - entries[c].left

(* The requests of a client in no window passed in one window, which ended *)
(* before now: the one that opened it is forgotten.                        *)
PassedBefore(c) ==
  Cardinality(passed[c]) <= Limit - 1 /\ \A p \in passed[c] : p[1] >= 1

(* Those of a client in a window: the ones since it was opened have been   *)
(* counted, the one that opened it among them; those that are older passed *)
(* in one window, less the one that opened that.                           *)
PassedInWindow(c) ==
  /\ Cardinality(Recent(passed[c], Lasted(c))) <= entries[c].count
  /\ Cardinality(Recent(passed[c], Lasted(c))) <= Limit
  /\ Cardinality(Former(passed[c], Lasted(c))) <= Limit - 1
  /\ \E p \in passed[c] : p[1] = Lasted(c)

PassesCounted ==
  \A c \in Clients :
    /\ IsFiniteSet(passed[c])
    /\ Lapsed(c) => PassedBefore(c)
    /\ ~Lapsed(c) => PassedInWindow(c)

IInv ==
  /\ TypeOK /\ ClientsExpire /\ OneAtATime /\ EverlastingIsAbandoned
  /\ PassesCounted

Passes == (0..Window) \X Nat

LEMMA KeyKinds ==
  /\ \A a \in Addresses : RealIP(a) \in Clients
  /\ Clients \subseteq Keys /\ Counters \subseteq Keys /\ Clients \cap Counters = {}
  BY KeysAssumption DEF Clients, Keys

LEMMA EntryIsThere ==
  ASSUME NEW e \in Entry
  PROVE  e # Missing /\ e.count \in 1..MaxCount /\ e.expires \in BOOLEAN /\ e.left \in -1..Window
  BY DEF Entry, Missing

(* The passes of a span of ticks are finitely many if all are. *)
LEMMA SomePasses ==
  ASSUME NEW ps, IsFiniteSet(ps), NEW qs, qs \subseteq ps
  PROVE  /\ IsFiniteSet(qs) /\ Cardinality(qs) \in Nat
         /\ Cardinality(qs) <= Cardinality(ps)
<1>1. qs \in SUBSET ps
  OBVIOUS
<1>2. IsFiniteSet(qs) /\ Cardinality(qs) <= Cardinality(ps)
  BY <1>1, FS_Subset
<1>3. QED
  BY <1>2, FS_CardinalityType

(* One more pass is one of now. *)
LEMMA OneMore ==
  ASSUME NEW ps \in SUBSET Passes, IsFiniteSet(ps), NEW n \in Nat
  PROVE  /\ WithOneMore(ps) \in SUBSET Passes /\ IsFiniteSet(WithOneMore(ps))
         /\ Cardinality(Recent(WithOneMore(ps), n)) <= Cardinality(Recent(ps, n)) + 1
         /\ Former(WithOneMore(ps), n) = Former(ps, n)
         /\ ps \subseteq WithOneMore(ps) /\ \E p \in WithOneMore(ps) : p[1] = 0
<1> DEFINE x == <<0, Cardinality({p \in ps : p[1] = 0}) + 1>>
<1>1. {p \in ps : p[1] = 0} \subseteq ps
  OBVIOUS
<1>2. Cardinality({p \in ps : p[1] = 0}) \in Nat
  BY <1>1, SomePasses
<1>3. x \in Passes /\ x[1] = 0
  BY <1>2, LimitAssumption DEF Passes
<1>4. WithOneMore(ps) = ps \cup {x}
  BY DEF WithOneMore
<1> HIDE DEF x
<1>5. WithOneMore(ps) \in SUBSET Passes /\ IsFiniteSet(WithOneMore(ps))
  BY <1>3, <1>4, FS_AddElement
<1>6. /\ Recent(WithOneMore(ps), n) = Recent(ps, n) \cup {x}
      /\ Former(WithOneMore(ps), n) = Former(ps, n)
  BY <1>3, <1>4 DEF Recent, Former
<1>7. Recent(ps, n) \subseteq ps
  BY DEF Recent
<1>8. IsFiniteSet(Recent(ps, n)) /\ Cardinality(Recent(ps, n)) \in Nat
  BY <1>7, SomePasses
<1>9. Cardinality(Recent(ps, n) \cup {x}) <= Cardinality(Recent(ps, n)) + 1
  <2> DEFINE r == Recent(ps, n)
  <2>1. IsFiniteSet(r) /\ Cardinality(r) \in Nat
    BY <1>8
  <2> HIDE DEF r
  <2>2. Cardinality(r \cup {x}) = IF x \in r THEN Cardinality(r) ELSE Cardinality(r) + 1
    BY <2>1, FS_AddElement
  <2>3. Cardinality(r \cup {x}) <= Cardinality(r) + 1
    BY <2>1, <2>2
  <2>4. QED
    BY <2>3 DEF r
<1>10. QED
  BY <1>3, <1>4, <1>5, <1>6, <1>9

(* A tick makes every pass older by one and forgets some. *)
LEMMA OneTickOlder ==
  ASSUME NEW ps \in SUBSET Passes, IsFiniteSet(ps)
  PROVE  /\ Older(ps) \in SUBSET Passes /\ IsFiniteSet(Older(ps))
         /\ \A p \in Older(ps) : p[1] >= 1
         /\ Cardinality(Older(ps)) <= Cardinality(ps)
         /\ (\E p \in ps : p[1] = Window) => Cardinality(Older(ps)) <= Cardinality(ps) - 1
         /\ \A p \in ps : p[1] < Window => \E q \in Older(ps) : q[1] = p[1] + 1
<1> DEFINE qs == {q \in ps : q[1] < Window}
           f == [q \in qs |-> <<q[1] + 1, q[2]>>]
<1>1. \A q \in qs : <<q[1] + 1, q[2]>> \in Passes /\ <<q[1] + 1, q[2]>>[1] >= 1
  BY LimitAssumption DEF Passes
<1>2. Older(ps) \in SUBSET Passes /\ \A p \in Older(ps) : p[1] >= 1
  BY <1>1 DEF Older
<1>3. f \in Surjection(qs, Older(ps))
  BY DEF Older, Surjection
<1>4. qs \subseteq ps /\ \A p \in ps : p[1] = Window => p \notin qs
  BY LimitAssumption
<1>5. \A p \in ps : p[1] < Window => \E q \in Older(ps) : q[1] = p[1] + 1
  <2> SUFFICES ASSUME NEW p \in ps, p[1] < Window
               PROVE  \E q \in Older(ps) : q[1] = p[1] + 1
    OBVIOUS
  <2>1. <<p[1] + 1, p[2]>> \in Older(ps)
    BY DEF Older
  <2>2. QED
    BY <2>1
<1> HIDE DEF f, qs
<1>6. IsFiniteSet(qs) /\ Cardinality(qs) \in Nat /\ Cardinality(qs) <= Cardinality(ps)
  BY <1>4, SomePasses
<1>7. IsFiniteSet(Older(ps)) /\ Cardinality(Older(ps)) <= Cardinality(qs)
  BY <1>3, <1>6, FS_Surjection
<1>8. Cardinality(Older(ps)) \in Nat /\ Cardinality(ps) \in Nat
  BY <1>7, FS_CardinalityType
<1>9. ASSUME NEW p \in ps, p[1] = Window
      PROVE  Cardinality(Older(ps)) <= Cardinality(ps) - 1
  <2>1. qs # ps
    BY <1>4, <1>9
  <2>2. qs \in SUBSET ps /\ Cardinality(ps) \in Nat
    BY <1>4, <1>8
  <2>3. Cardinality(qs) < Cardinality(ps)
    <3>1. Cardinality(ps) # Cardinality(qs)
      BY <2>1, <2>2, FS_Subset
    <3>2. QED
      BY <1>6, <2>2, <3>1
  <2>4. QED
    BY <1>6, <1>7, <1>8, <2>2, <2>3
<1>10. QED
  BY <1>2, <1>5, <1>6, <1>7, <1>8, <1>9

LEMMA OlderSpan ==
  ASSUME NEW ps \in SUBSET Passes, NEW n \in Nat
  PROVE  /\ Recent(Older(ps), n + 1) = Older(Recent(ps, n))
         /\ Former(Older(ps), n + 1) = Older(Former(ps, n))
<1>1. \A q \in ps : (q[1] + 1 <= n + 1 <=> q[1] <= n) /\ (q[1] + 1 > n + 1 <=> q[1] > n)
  BY DEF Passes
<1>2. QED
  BY <1>1 DEF Recent, Former, Older

(* Incrementing leaves an entry, and a window that is open is kept. *)
LEMMA Increments ==
  ASSUME TypeOK, NEW k \in Keys
  PROVE  /\ IncrWithExpire(k) \in Entry /\ Incr(k) \in Entry
         /\ Expire(k) \in Entry \cup {Missing}
         /\ entries[k].expires => IncrWithExpire(k).expires
         /\ Renewed(k) => IncrWithExpire(k).expires
<1>1. 1 \in 1..MaxCount /\ Window \in -1..Window /\ -1 \in -1..Window
  BY LimitAssumption
<1>2. CASE entries[k] = Missing
  BY <1>1, <1>2 DEF IncrWithExpire, Incr, Expire, Renewed, Entry
<1>3. CASE entries[k] # Missing
  <2>1. entries[k] \in Entry
    BY <1>3 DEF TypeOK
  <2>2. Bump(entries[k].count) \in 1..MaxCount
    BY <2>1, LimitAssumption DEF Bump, Entry
  <2>3. QED
    BY <1>1, <1>3, <2>1, <2>2 DEF IncrWithExpire, Incr, Expire, Renewed, Entry
<1>4. QED
  BY <1>2, <1>3

LEMMA InitInv == Init => IInv
<1> SUFFICES ASSUME Init PROVE IInv
  OBVIOUS
<1>1. TypeOK
  BY LimitAssumption DEF Init, TypeOK
<1>2. PassesCounted
  <2>1. \A c \in Clients : entries[c] = Missing /\ passed[c] = {}
    BY KeyKinds DEF Init
  <2>2. IsFiniteSet({}) /\ Cardinality({}) <= Limit - 1
    BY FS_EmptySet, LimitAssumption
  <2>3. QED
    BY <2>1, <2>2 DEF PassesCounted, Lapsed, PassedBefore
<1>3. QED
  BY <1>1, <1>2, KeyKinds DEF Init, IInv, ClientsExpire, OneAtATime, EverlastingIsAbandoned

(* A request that passes is counted in the window it is made in, or opens  *)
(* a window of its own, and nothing passes in a window with Limit counted. *)
LEMMA RequestCounted ==
  ASSUME IInv, NEW a \in Addresses, Request(a)
  PROVE  PassesCounted'
<1> DEFINE c == RealIP(a)
           passes == entries'[c].count <= Limit
           more == WithOneMore(passed[c])
<1>1. c \in Clients /\ c \in Keys
  BY KeyKinds
<1>2. /\ entries' = [entries EXCEPT ![c] = IncrWithExpire(c)]
      /\ entries'[c] = IncrWithExpire(c)
      /\ passed' = IF passes THEN [passed EXCEPT ![c] = more] ELSE passed
  BY <1>1 DEF Request, IInv, TypeOK
<1> HIDE DEF c, passes, more
<1>3. passed'[c] = IF passes THEN more ELSE passed[c]
  BY <1>1, <1>2 DEF IInv, TypeOK
<1>4. passed[c] \in SUBSET Passes /\ IsFiniteSet(passed[c])
  BY <1>1 DEF IInv, TypeOK, PassesCounted, Passes
<1>5. IsFiniteSet(passed'[c])
  <2>1. 0 \in Nat
    OBVIOUS
  <2>2. QED
    BY <1>3, <1>4, <2>1, OneMore DEF more
<1>6. (~Lapsed(c) => PassedInWindow(c))' /\ ~Lapsed(c)'
  <2>1. CASE Renewed(c)
    <3>1. Lapsed(c)
      BY <2>1 DEF Renewed, Lapsed
    <3>2. PassedBefore(c)
      BY <1>1, <3>1 DEF IInv, PassesCounted
    <3>3. entries'[c] = [count |-> 1, expires |-> TRUE, left |-> Window]
      BY <1>2, <2>1 DEF IncrWithExpire
    <3>4. entries'[c] # Missing /\ entries'[c].count = 1 /\ entries'[c].left = Window
      BY <3>3 DEF Missing
    <3>5. Lasted(c)' = 0 /\ passes
      BY <3>4, LimitAssumption DEF Lasted, passes
    <3>6. passed'[c] = more
      BY <1>3, <3>5
    <3>7. \A p \in passed[c] : p[1] \in 0..Window /\ p[1] >= 1
      BY <1>4, <3>2 DEF PassedBefore, Passes
    <3>8. Recent(passed[c], 0) = {} /\ Former(passed[c], 0) = passed[c]
      BY <3>7 DEF Recent, Former
    <3>9. 0 \in Nat
      OBVIOUS
    <3>10. /\ Cardinality(Recent(more, 0)) <= Cardinality(Recent(passed[c], 0)) + 1
           /\ Former(more, 0) = passed[c] /\ IsFiniteSet(more)
           /\ \E p \in more : p[1] = 0
      BY <1>4, <3>8, <3>9, OneMore DEF more
    <3>11. Cardinality(Recent(more, 0)) <= 1
      BY <3>8, <3>10, FS_EmptySet
    <3>12. Recent(more, 0) \subseteq more
      BY DEF Recent
    <3>13. Cardinality(Recent(more, 0)) \in Nat
      BY <3>10, <3>12, SomePasses
    <3>14. /\ Cardinality(Recent(more, 0)) <= Limit
           /\ Cardinality(Former(more, 0)) <= Limit - 1
      BY <3>2, <3>10, <3>11, <3>13, LimitAssumption DEF PassedBefore
    <3>15. QED
      BY <3>4, <3>5, <3>6, <3>10, <3>11, <3>14, LimitAssumption DEF PassedInWindow, Lapsed
  <2>2. CASE ~Renewed(c)
    <3>1. entries[c] \in Entry /\ entries[c] # Missing /\ entries[c].expires
      BY <1>1, <2>2 DEF Renewed, IInv, TypeOK, ClientsExpire
    <3>2. entries[c].left \in 0..Window /\ entries[c].count \in 1..MaxCount
      BY <2>2, <3>1 DEF Renewed, Entry
    <3>3. ~Lapsed(c)
      BY <3>1, <3>2 DEF Lapsed
    <3> DEFINE n == Lasted(c)
               m == Bump(entries[c].count)
    <3>4. n \in Nat
      BY <3>2, LimitAssumption DEF Lasted
    <3>5. PassedInWindow(c)
      BY <1>1, <3>3 DEF IInv, PassesCounted
    <3>6. entries'[c] = [entries[c] EXCEPT !.count = m]
      BY <1>2, <2>2 DEF IncrWithExpire
    <3>7. /\ m \in 1..MaxCount /\ m >= entries[c].count
          /\ m <= Limit => m = entries[c].count + 1
      BY <3>2, LimitAssumption DEF Bump
    <3> HIDE DEF m
    <3>8. entries'[c].left = entries[c].left /\ entries'[c].count = m /\ entries'[c] \in Entry
      BY <3>1, <3>6, <3>7 DEF Entry
    <3>9. ~Lapsed(c)'
      BY <3>2, <3>8, EntryIsThere DEF Lapsed
    <3>10. Lasted(c)' = n
      BY <3>8 DEF Lasted
    <3> HIDE DEF n
    <3>11. /\ Cardinality(Recent(passed[c], n)) <= entries[c].count
           /\ Cardinality(Recent(passed[c], n)) <= Limit
           /\ Cardinality(Former(passed[c], n)) <= Limit - 1
           /\ \E p \in passed[c] : p[1] = n
      BY <3>5 DEF PassedInWindow, n
    <3>12. Cardinality(Recent(passed[c], n)) \in Nat
      <4>1. Recent(passed[c], n) \subseteq passed[c]
        BY DEF Recent
      <4>2. QED
        BY <1>4, <4>1, SomePasses
    <3>13. CASE passes
      <4>1. m = entries[c].count + 1 /\ m <= Limit
        BY <3>7, <3>8, <3>13 DEF passes
      <4>2. /\ Cardinality(Recent(more, n)) <= Cardinality(Recent(passed[c], n)) + 1
            /\ Former(more, n) = Former(passed[c], n) /\ IsFiniteSet(more)
            /\ passed[c] \subseteq more
        BY <1>4, <3>4, OneMore DEF more
      <4>3. Recent(more, n) \subseteq more
        BY DEF Recent
      <4>4. Cardinality(Recent(more, n)) \in Nat
        BY <4>2, <4>3, SomePasses
      <4>5. Cardinality(Recent(more, n)) <= m /\ Cardinality(Recent(more, n)) <= Limit
        BY <3>2, <3>11, <3>12, <4>1, <4>2, <4>4, LimitAssumption
      <4>6. passed'[c] = more
        BY <1>3, <3>13
      <4>7. QED
        BY <3>8, <3>9, <3>10, <3>11, <4>2, <4>5, <4>6 DEF PassedInWindow
    <3>14. CASE ~passes
      <4>1. passed'[c] = passed[c]
        BY <1>3, <3>14
      <4>2. Cardinality(Recent(passed[c], n)) <= m
        BY <3>2, <3>7, <3>11, <3>12, LimitAssumption
      <4>3. QED
        BY <3>8, <3>9, <3>10, <3>11, <4>1, <4>2 DEF PassedInWindow
    <3>15. QED
      BY <3>13, <3>14
  <2>3. QED
    BY <2>1, <2>2
<1>7. ASSUME NEW d \in Clients, d # c
      PROVE  /\ IsFiniteSet(passed'[d])
             /\ (Lapsed(d) => PassedBefore(d))' /\ (~Lapsed(d) => PassedInWindow(d))'
  <2>1. entries'[d] = entries[d] /\ passed'[d] = passed[d]
    BY <1>2, <1>7, KeyKinds DEF IInv, TypeOK
  <2>2. /\ IsFiniteSet(passed[d])
        /\ Lapsed(d) => PassedBefore(d)
        /\ ~Lapsed(d) => PassedInWindow(d)
    BY DEF IInv, PassesCounted
  <2>3. QED
    BY <2>1, <2>2 DEF Lapsed, PassedBefore, PassedInWindow, Lasted
<1>8. QED
  BY <1>5, <1>6, <1>7 DEF PassesCounted

(* What a step that leaves the clients' counters alone does to the passes. *)
LEMMA ClientsUntouched ==
  ASSUME IInv, passed' = passed, \A c \in Clients : entries'[c] = entries[c]
  PROVE  PassesCounted'
  BY DEF IInv, PassesCounted, Lapsed, PassedBefore, PassedInWindow, Lasted

LEMMA RequestInv ==
  ASSUME IInv, NEW a \in Addresses, Request(a)
  PROVE  IInv'
<1> DEFINE c == RealIP(a)
<1>1. c \in Clients /\ c \in Keys /\ c \notin Counters
  BY KeyKinds
<1> HIDE DEF c
<1>2. /\ entries' = [entries EXCEPT ![c] = IncrWithExpire(c)]
      /\ counting' = counting /\ abandoned' = abandoned
  BY DEF Request, c
<1>3. IncrWithExpire(c) \in Entry /\ IncrWithExpire(c).expires
  <2>1. ~Renewed(c) => entries[c].expires
    BY <1>1 DEF IInv, ClientsExpire, Renewed
  <2>2. QED
    BY <1>1, <2>1, Increments DEF IInv
<1>4. verdict' \in [Clients -> {"none", "passed", "refused"}]
  BY <1>1 DEF Request, IInv, TypeOK, c
<1>5. passed' \in [Clients -> SUBSET Passes]
  <2>1. passed[c] \in SUBSET Passes /\ IsFiniteSet(passed[c]) /\ 0 \in Nat
    BY <1>1 DEF IInv, TypeOK, PassesCounted, Passes
  <2>2. passed' = passed \/ passed' = [passed EXCEPT ![c] = WithOneMore(passed[c])]
    BY DEF Request, c
  <2>3. WithOneMore(passed[c]) \in SUBSET Passes
    BY <2>1, OneMore
  <2>4. QED
    BY <2>2, <2>3 DEF IInv, TypeOK, Passes
<1>6. TypeOK'
  BY <1>2, <1>3, <1>4, <1>5 DEF IInv, TypeOK, Passes
<1>7. ClientsExpire'
  BY <1>1, <1>2, <1>3, KeyKinds DEF IInv, ClientsExpire, TypeOK
<1>8. \A k \in Counters : entries'[k] = entries[k]
  BY <1>1, <1>2
<1>9. PassesCounted'
  BY RequestCounted
<1>10. QED
  BY <1>2, <1>6, <1>7, <1>8, <1>9 DEF IInv, OneAtATime, EverlastingIsAbandoned

LEMMA BeginInv ==
  ASSUME IInv, NEW w \in Callers, NEW k \in Counters, Begin(w, k)
  PROVE  IInv'
<1>1. k \in Keys /\ k \notin Clients
  BY KeyKinds
<1>2. /\ counting[w] = {}
      /\ entries' = [entries EXCEPT ![k] = Incr(k)] /\ entries'[k] = Incr(k)
      /\ counting' = [counting EXCEPT ![w] = IF Incr(k).count = 1 THEN {k} ELSE {}]
      /\ verdict' = verdict /\ passed' = passed /\ abandoned' = abandoned
  BY <1>1 DEF Begin, IInv, TypeOK
<1>3. Incr(k) \in Entry
  BY <1>1, Increments DEF IInv
<1>4. TypeOK'
  BY <1>2, <1>3 DEF IInv, TypeOK
<1>5. ClientsExpire'
  BY <1>1, <1>2 DEF IInv, ClientsExpire
<1>6. OneAtATime'
  BY <1>2 DEF IInv, OneAtATime, TypeOK
<1>7. ASSUME NEW l \in Counters, entries'[l] # Missing, ~entries'[l].expires
      PROVE  l \in abandoned' \/ \E v \in Callers : l \in counting'[v]
  <2>1. CASE l = k /\ Renewed(k)
    <3>1. Incr(k).count = 1
      BY <2>1 DEF Incr
    <3>2. l \in counting'[w]
      BY <1>2, <2>1, <3>1 DEF IInv, TypeOK
    <3>3. QED
      BY <3>2
  <2>2. CASE l # k \/ ~Renewed(k)
    <3>1. entries[l] # Missing /\ ~entries[l].expires
      <4>1. CASE l # k
        BY <1>2, <1>7, <4>1 DEF IInv, TypeOK
      <4>2. CASE l = k
        BY <1>1, <1>2, <1>7, <2>2, <4>2 DEF Incr, Renewed, IInv, TypeOK, Entry
      <4>3. QED
        BY <4>1, <4>2
    <3>2. l \in abandoned \/ \E v \in Callers : l \in counting[v]
      BY <3>1 DEF IInv, EverlastingIsAbandoned
    <3>3. QED
      BY <1>2, <3>2 DEF IInv, TypeOK
  <2>3. QED
    BY <2>1, <2>2
<1>8. PassesCounted'
  <2>1. \A c \in Clients : entries'[c] = entries[c]
    BY <1>1, <1>2, KeyKinds DEF IInv, TypeOK
  <2>2. QED
    BY <1>2, <2>1, ClientsUntouched
<1>9. QED
  BY <1>4, <1>5, <1>6, <1>7, <1>8 DEF IInv, EverlastingIsAbandoned

LEMMA FinishInv ==
  ASSUME IInv, NEW w \in Callers, NEW k \in Counters, Finish(w, k)
  PROVE  IInv'
<1>1. k \in Keys /\ k \notin Clients
  BY KeyKinds
<1>2. /\ k \in counting[w]
      /\ entries' = [entries EXCEPT ![k] = Expire(k)] /\ entries'[k] = Expire(k)
      /\ counting' = [counting EXCEPT ![w] = {}]
      /\ verdict' = verdict /\ passed' = passed /\ abandoned' = abandoned
  BY <1>1 DEF Finish, IInv, TypeOK
<1>3. Expire(k) \in Entry \cup {Missing}
  BY <1>1, Increments DEF IInv
<1>4. TypeOK'
  BY <1>2, <1>3 DEF IInv, TypeOK
<1>5. ClientsExpire'
  BY <1>1, <1>2 DEF IInv, ClientsExpire
<1>6. OneAtATime'
  BY <1>2 DEF IInv, OneAtATime, TypeOK
<1>7. ASSUME NEW l \in Counters, entries'[l] # Missing, ~entries'[l].expires
      PROVE  l \in abandoned' \/ \E v \in Callers : l \in counting'[v]
  <2>1. l # k
    BY <1>1, <1>2, <1>7 DEF Expire, IInv, TypeOK, Entry
  <2>2. entries[l] # Missing /\ ~entries[l].expires /\ l \notin counting[w]
    BY <1>2, <1>7, <2>1 DEF IInv, TypeOK, OneAtATime
  <2>3. l \in abandoned \/ \E v \in Callers : l \in counting[v]
    BY <2>2 DEF IInv, EverlastingIsAbandoned
  <2>4. QED
    BY <1>2, <2>2, <2>3 DEF IInv, TypeOK
<1>8. PassesCounted'
  <2>1. \A c \in Clients : entries'[c] = entries[c]
    BY <1>1, <1>2, KeyKinds DEF IInv, TypeOK
  <2>2. QED
    BY <1>2, <2>1, ClientsUntouched
<1>9. QED
  BY <1>4, <1>5, <1>6, <1>7, <1>8 DEF IInv, EverlastingIsAbandoned

LEMMA StopInv ==
  ASSUME IInv, NEW w \in Callers, Stop(w)
  PROVE  IInv'
<1>1. TypeOK'
  BY DEF Stop, IInv, TypeOK
<1>2. ClientsExpire' /\ OneAtATime'
  BY DEF Stop, IInv, TypeOK, ClientsExpire, OneAtATime
<1>3. EverlastingIsAbandoned'
  BY DEF Stop, IInv, TypeOK, EverlastingIsAbandoned
<1>4. PassesCounted'
  BY ClientsUntouched DEF Stop
<1>5. QED
  BY <1>1, <1>2, <1>3, <1>4 DEF IInv

(* What a tick does to an entry. *)
LEMMA TickEntry ==
  ASSUME TypeOK, Tick, NEW k \in Keys
  PROVE  /\ entries[k] = Missing => entries'[k] = Missing
         /\ entries[k] # Missing =>
              /\ entries'[k] \in Entry
              /\ entries'[k].count = entries[k].count
              /\ entries'[k].expires = entries[k].expires
              /\ entries'[k].left = IF entries[k].left >= 0 THEN entries[k].left - 1
                                                            ELSE entries[k].left
<1> DEFINE l == IF entries[k].left >= 0 THEN entries[k].left - 1 ELSE entries[k].left
<1>1. entries'[k] = [entries[k] EXCEPT !.left = l]
  BY DEF Tick
<1>2. CASE entries[k] = Missing
  BY <1>1, <1>2 DEF Missing
<1>3. CASE entries[k] # Missing
  <2>1. entries[k] \in Entry
    BY <1>3 DEF TypeOK
  <2>2. l \in -1..Window
    BY <2>1, LimitAssumption DEF Entry
  <2> HIDE DEF l
  <2>3. QED
    BY <1>1, <1>3, <2>1, <2>2 DEF Entry, l
<1>4. QED
  BY <1>2, <1>3

(* A tick makes a window that goes on and the passes in it older by one.   *)
(* At the end of a window every pass from before it is forgotten.          *)
LEMMA TickCounted ==
  ASSUME IInv, Tick
  PROVE  PassesCounted'
<1> SUFFICES ASSUME NEW c \in Clients
             PROVE  /\ IsFiniteSet(passed'[c])
                    /\ (Lapsed(c) => PassedBefore(c))' /\ (~Lapsed(c) => PassedInWindow(c))'
  BY DEF PassesCounted
<1> DEFINE ps == passed[c]
           n == Lasted(c)
<1>1. c \in Keys /\ passed'[c] = Older(ps)
  BY KeyKinds DEF Tick
<1>2. ps \in SUBSET Passes /\ IsFiniteSet(ps)
  BY DEF IInv, TypeOK, PassesCounted, Passes
<1>3. /\ IsFiniteSet(Older(ps)) /\ Cardinality(Older(ps)) <= Cardinality(ps)
      /\ \A p \in Older(ps) : p[1] >= 1
  BY <1>2, OneTickOlder
<1>4. Cardinality(ps) \in Nat /\ Cardinality(Older(ps)) \in Nat
  BY <1>2, <1>3, FS_CardinalityType
<1> HIDE DEF ps
<1>5. CASE Lapsed(c)
  <2>1. Lapsed(c)'
    <3>1. CASE entries[c] = Missing
      BY <1>1, <3>1, TickEntry DEF IInv, Lapsed
    <3>2. CASE entries[c] # Missing
      BY <1>1, <1>5, <3>2, TickEntry DEF IInv, Lapsed, TypeOK, Entry
    <3>3. QED
      BY <3>1, <3>2
  <2>2. Cardinality(ps) <= Limit - 1
    BY <1>5 DEF IInv, PassesCounted, PassedBefore, ps
  <2>3. PassedBefore(c)'
    BY <1>1, <1>3, <1>4, <2>2, LimitAssumption DEF PassedBefore
  <2>4. QED
    BY <1>1, <1>3, <2>1, <2>3
<1>6. CASE ~Lapsed(c)
  <2>1. entries[c] \in Entry /\ entries[c] # Missing
    BY <1>1, <1>6 DEF Lapsed, IInv, TypeOK
  <2>2. entries[c].left \in 0..Window /\ entries[c].count \in 1..MaxCount
    BY <1>6, <2>1 DEF Lapsed, Entry
  <2>3. /\ entries'[c] \in Entry /\ entries'[c].count = entries[c].count
        /\ entries'[c].left = entries[c].left - 1
    BY <1>1, <2>1, <2>2, TickEntry DEF IInv
  <2>4. n \in Nat /\ Lasted(c)' = n + 1
    BY <2>2, <2>3, LimitAssumption DEF Lasted
  <2>5. /\ Cardinality(Recent(ps, n)) <= entries[c].count
        /\ Cardinality(Recent(ps, n)) <= Limit
        /\ Cardinality(Former(ps, n)) <= Limit - 1
        /\ \E p \in ps : p[1] = n
    BY <1>6 DEF IInv, PassesCounted, PassedInWindow, ps
  <2>6. CASE entries[c].left = 0
    <3>1. n = Window
      BY <2>6, LimitAssumption DEF Lasted
    <3>2. Recent(ps, n) = ps
      BY <1>2, <3>1, LimitAssumption DEF Recent, Passes
    <3>3. Cardinality(Older(ps)) <= Limit - 1
      <4>1. Cardinality(Older(ps)) <= Cardinality(ps) - 1
        BY <1>2, <2>5, <3>1, OneTickOlder
      <4>2. QED
        BY <1>4, <2>5, <3>2, <4>1, LimitAssumption
    <3>4. Lapsed(c)' /\ PassedBefore(c)'
      BY <1>1, <1>3, <2>3, <2>6, <3>3 DEF Lapsed, PassedBefore
    <3>5. QED
      BY <1>1, <1>3, <3>4
  <2>7. CASE entries[c].left > 0
    <3> HIDE DEF n
    <3>1. /\ Recent(Older(ps), n + 1) = Older(Recent(ps, n))
          /\ Former(Older(ps), n + 1) = Older(Former(ps, n))
      BY <1>2, <2>4, OlderSpan
    <3>2. Recent(ps, n) \subseteq ps /\ Former(ps, n) \subseteq ps
      BY DEF Recent, Former
    <3>3. /\ Recent(ps, n) \in SUBSET Passes /\ IsFiniteSet(Recent(ps, n))
          /\ Former(ps, n) \in SUBSET Passes /\ IsFiniteSet(Former(ps, n))
      BY <1>2, <3>2, SomePasses
    <3>4. /\ IsFiniteSet(Older(Recent(ps, n))) /\ IsFiniteSet(Older(Former(ps, n)))
          /\ Cardinality(Older(Recent(ps, n))) <= Cardinality(Recent(ps, n))
          /\ Cardinality(Older(Former(ps, n))) <= Cardinality(Former(ps, n))
      BY <3>3, OneTickOlder
    <3>5. /\ Cardinality(Recent(ps, n)) \in Nat /\ Cardinality(Former(ps, n)) \in Nat
          /\ Cardinality(Older(Recent(ps, n))) \in Nat
          /\ Cardinality(Older(Former(ps, n))) \in Nat
      BY <3>3, <3>4, FS_CardinalityType
    <3>6. /\ Cardinality(Recent(Older(ps), n + 1)) <= entries[c].count
          /\ Cardinality(Recent(Older(ps), n + 1)) <= Limit
          /\ Cardinality(Former(Older(ps), n + 1)) <= Limit - 1
      BY <2>2, <2>5, <3>1, <3>4, <3>5, LimitAssumption
    <3>7. \E p \in Older(ps) : p[1] = n + 1
      <4>1. n < Window
        BY <2>2, <2>7, LimitAssumption DEF n, Lasted
      <4>2. QED
        BY <1>2, <2>5, <4>1, OneTickOlder
    <3>8. PassedInWindow(c)'
      BY <1>1, <2>3, <2>4, <3>6, <3>7 DEF PassedInWindow
    <3>9. ~Lapsed(c)'
      BY <2>2, <2>3, <2>7, EntryIsThere DEF Lapsed
    <3>10. QED
      BY <1>1, <1>3, <3>8, <3>9
  <2>8. QED
    BY <2>2, <2>6, <2>7
<1>7. QED
  BY <1>5, <1>6

LEMMA TickInv ==
  ASSUME IInv, Tick
  PROVE  IInv'
<1>1. entries' \in [Keys -> Entry \cup {Missing}]
  <2>1. \A k \in Keys : entries'[k] \in Entry \cup {Missing}
    BY TickEntry DEF IInv
  <2>2. QED
    BY <2>1 DEF Tick
<1>2. passed' \in [Clients -> SUBSET Passes]
  <2>1. \A c \in Clients : passed[c] \in SUBSET Passes /\ IsFiniteSet(passed[c])
    BY DEF IInv, TypeOK, PassesCounted, Passes
  <2>2. \A c \in Clients : Older(passed[c]) \in SUBSET Passes
    BY <2>1, OneTickOlder
  <2>3. QED
    BY <2>2 DEF Tick
<1>3. TypeOK'
  BY <1>1, <1>2 DEF Tick, IInv, TypeOK, Passes
<1>4. ClientsExpire'
  BY TickEntry, KeyKinds DEF IInv, ClientsExpire
<1>5. EverlastingIsAbandoned'
  <2>1. counting' = counting /\ abandoned' = abandoned
    BY DEF Tick
  <2>2. QED
    BY <2>1, TickEntry, KeyKinds DEF IInv, EverlastingIsAbandoned
<1>6. QED
  BY <1>3, <1>4, <1>5, TickCounted DEF Tick, IInv, OneAtATime

LEMMA StepInv == IInv /\ [Next]_vars => IInv'
<1> SUFFICES ASSUME IInv, [Next]_vars PROVE IInv'
  OBVIOUS
<1>1. CASE Tick
  BY <1>1, TickInv
<1>2. CASE \E a \in Addresses : Request(a)
  BY <1>2, RequestInv
<1>3. CASE \E w \in Callers, k \in Counters : Begin(w, k) \/ Finish(w, k)
  BY <1>3, BeginInv, FinishInv
<1>4. CASE \E w \in Callers : Stop(w)
  BY <1>4, StopInv
<1>5. CASE UNCHANGED vars
  BY <1>5, ClientsUntouched
     DEF vars, IInv, TypeOK, ClientsExpire, OneAtATime, EverlastingIsAbandoned
<1>6. QED
  BY <1>1, <1>2, <1>3, <1>4, <1>5 DEF Next

(* TypeOK, strengthened: clients' counters expire, callers count one thing *)
(* at a time, and what passed in the window a client is in was counted.    *)
THEOREM InvHolds == Spec => []IInv
  BY InitInv, StepInv, PTL DEF Spec

(* Every variable of the limiter keeps its type (store.go, ratelimit.go). *)
THEOREM TypeCorrect == Spec => []TypeOK
<1>1. IInv => TypeOK
  BY DEF IInv
<1>2. QED
  BY <1>1, InvHolds, PTL

(* A counter that never expires is one whose caller stopped between Incr   *)
(* and Expire, or is there still (store.go:25, store.go:42).               *)
THEOREM EverlastingOnlyIfAbandoned == Spec => []EverlastingIsAbandoned
<1>1. IInv => EverlastingIsAbandoned
  BY DEF IInv
<1>2. QED
  BY <1>1, InvHolds, PTL

(* In the span of a window a client gets less than twice the limit through:*)
(* the passes in the window it is in are in its counter, which stops at    *)
(* the limit, and those from before fit in one window, whose first request *)
(* is out of the span, since a window opens only when the earlier one is   *)
(* over (ratelimit.go:14, store.go:52).                                    *)
THEOREM UnderTwiceTheLimit == Spec => []LessThanTwice
<1>1. ASSUME IInv, NEW c \in Clients
      PROVE  Cardinality(passed[c]) <= 2 * Limit - 1
  <2>1. IsFiniteSet(passed[c])
    BY <1>1 DEF IInv, PassesCounted
  <2>2. Cardinality(passed[c]) \in Nat
    BY <2>1, FS_CardinalityType
  <2>3. CASE Lapsed(c)
    BY <1>1, <2>2, <2>3, LimitAssumption DEF IInv, PassesCounted, PassedBefore
  <2>4. CASE ~Lapsed(c)
    <3> DEFINE r == Recent(passed[c], Lasted(c))
               f == Former(passed[c], Lasted(c))
    <3>1. Cardinality(r) <= Limit /\ Cardinality(f) <= Limit - 1
      BY <1>1, <2>4 DEF IInv, PassesCounted, PassedInWindow
    <3>2. r \subseteq passed[c] /\ f \subseteq passed[c]
      BY DEF Recent, Former
    <3>3. entries[c] \in Entry
      BY <1>1, <2>4, KeyKinds DEF Lapsed, IInv, TypeOK
    <3>4. Lasted(c) \in Int /\ \A p \in passed[c] : p[1] \in Int
      BY <1>1, <3>3, LimitAssumption DEF Lasted, Entry, IInv, TypeOK
    <3>5. passed[c] = r \cup f
      BY <3>4 DEF Recent, Former
    <3> HIDE DEF r, f
    <3>6. /\ IsFiniteSet(r) /\ Cardinality(r) \in Nat
          /\ IsFiniteSet(f) /\ Cardinality(f) \in Nat
      BY <2>1, <3>2, SomePasses
    <3>7. r \cap f \subseteq r
      OBVIOUS
    <3>8. Cardinality(r \cap f) \in Nat
      BY <3>6, <3>7, SomePasses
    <3>9. Cardinality(r \cup f) = Cardinality(r) + Cardinality(f) - Cardinality(r \cap f)
      BY <3>6, FS_Union
    <3>10. QED
      BY <3>1, <3>5, <3>6, <3>8, <3>9, LimitAssumption
  <2>5. QED
    BY <2>3, <2>4
<1>2. IInv => LessThanTwice
  BY <1>1 DEF LessThanTwice
<1>3. QED
  BY <1>2, InvHolds, PTL

-----------------------------------------------------------------------------
(* The refinement.  A client's window, as KeepsWindows reads it off. *)

LeftOf(c) == IF InForce(c) THEN entries[c].left ELSE -1

AdmittedOf(c) ==
  IF InForce(c) THEN IF entries[c].count < Limit THEN entries[c].count ELSE Limit ELSE 0

WindowsLeft     == [c \in Clients |-> LeftOf(c)]
WindowsAdmitted == [c \in Clients |-> AdmittedOf(c)]

(* Windows!Next, in the terms of the two functions. *)
WindowsOpen(c) ==
  /\ WindowsLeft[c] = -1
  /\ WindowsLeft' = [WindowsLeft EXCEPT ![c] = Window]
  /\ WindowsAdmitted' = [WindowsAdmitted EXCEPT ![c] = 1]

WindowsAdmit(c) ==
  /\ WindowsLeft[c] # -1 /\ WindowsAdmitted[c] < Limit
  /\ WindowsAdmitted' = [WindowsAdmitted EXCEPT ![c] = @ + 1]
  /\ WindowsLeft' = WindowsLeft

WindowsTick ==
  /\ WindowsLeft' = [c \in Clients |-> IF WindowsLeft[c] = -1 THEN -1 ELSE WindowsLeft[c] - 1]
  /\ WindowsAdmitted' = [c \in Clients |-> IF WindowsLeft[c] > 0 THEN WindowsAdmitted[c] ELSE 0]

LEMMA Mapping ==
  /\ Windows!Init <=> /\ WindowsLeft = [c \in Clients |-> -1]
                      /\ WindowsAdmitted = [c \in Clients |-> 0]
  /\ Windows!Tick <=> WindowsTick
  /\ \A c : Windows!Open(c) <=> WindowsOpen(c)
  /\ \A c : Windows!Admit(c) <=> WindowsAdmit(c)
  BY DEF Windows!Init, Windows!Open, Windows!Admit, Windows!Tick, Windows!Closed,
         WindowsOpen, WindowsAdmit, WindowsTick, WindowsLeft, WindowsAdmitted,
         LeftOf, AdmittedOf

LEMMA InitMaps == Init => Windows!Init
<1> SUFFICES ASSUME Init PROVE Windows!Init
  OBVIOUS
<1>1. \A c \in Clients : ~InForce(c)
  BY KeyKinds DEF Init, InForce
<1>2. QED
  BY <1>1, Mapping DEF WindowsLeft, WindowsAdmitted, LeftOf, AdmittedOf

(* A request opens a window, is admitted to the one that is open, or is    *)
(* refused and leaves no trace in it.                                      *)
LEMMA RequestMaps ==
  ASSUME IInv, NEW a \in Addresses, Request(a)
  PROVE  \/ \E c \in Clients : Windows!Open(c) \/ Windows!Admit(c)
         \/ WindowsLeft' = WindowsLeft /\ WindowsAdmitted' = WindowsAdmitted
<1> DEFINE c == RealIP(a)
<1>1. c \in Clients /\ c \in Keys
  BY KeyKinds
<1> HIDE DEF c
<1>2. entries' = [entries EXCEPT ![c] = IncrWithExpire(c)] /\ entries'[c] = IncrWithExpire(c)
  BY <1>1 DEF Request, c, IInv, TypeOK
<1>3. ASSUME NEW d \in Clients, d # c
      PROVE  LeftOf(d)' = LeftOf(d) /\ AdmittedOf(d)' = AdmittedOf(d)
  BY <1>2, <1>3 DEF IInv, TypeOK, LeftOf, AdmittedOf, InForce
<1>4. CASE Renewed(c)
  <2>1. ~InForce(c)
    BY <1>1, <1>4, EntryIsThere, LimitAssumption DEF Renewed, InForce, IInv, TypeOK
  <2>2. entries'[c] = [count |-> 1, expires |-> TRUE, left |-> Window]
    BY <1>2, <1>4 DEF IncrWithExpire
  <2>3. entries'[c] # Missing /\ entries'[c].left = Window /\ entries'[c].count = 1
    BY <2>2 DEF Missing
  <2>4. LeftOf(c) = -1 /\ LeftOf(c)' = Window /\ AdmittedOf(c)' = 1
    BY <2>1, <2>3, LimitAssumption DEF LeftOf, AdmittedOf, InForce
  <2>5. WindowsOpen(c)
    BY <1>1, <1>3, <2>4 DEF WindowsOpen, WindowsLeft, WindowsAdmitted
  <2>6. QED
    BY <1>1, <2>5, Mapping
<1>5. CASE ~Renewed(c)
  <2>1. entries[c] \in Entry /\ entries[c] # Missing /\ entries[c].expires
    BY <1>1, <1>5 DEF Renewed, IInv, TypeOK, ClientsExpire
  <2>2. entries[c].left >= 0 /\ entries[c].left \in Int /\ entries[c].count \in 1..MaxCount
    BY <1>5, <2>1 DEF Renewed, Entry
  <2> DEFINE n == entries[c].count
             m == Bump(n)
  <2>3. entries'[c] = [entries[c] EXCEPT !.count = m]
    BY <1>2, <1>5 DEF IncrWithExpire
  <2>4. m \in 1..MaxCount /\ (n < Limit => m = n + 1) /\ (n >= Limit => m >= Limit)
    BY <2>2, LimitAssumption DEF Bump
  <2>5. entries'[c] # Missing /\ entries'[c].left = entries[c].left /\ entries'[c].count = m
    <3> HIDE DEF m
    <3>1. entries'[c].left = entries[c].left /\ entries'[c].count = m
      BY <2>1, <2>3 DEF Entry
    <3>2. QED
      BY <2>4, <3>1 DEF Missing
  <2>6. InForce(c) /\ InForce(c)'
    BY <2>1, <2>2, <2>5 DEF InForce
  <2>7. LeftOf(c)' = LeftOf(c) /\ LeftOf(c) # -1
    BY <2>2, <2>5, <2>6 DEF LeftOf
  <2>8. WindowsLeft' = WindowsLeft
    BY <1>3, <2>7 DEF WindowsLeft
  <2> HIDE DEF n, m
  <2>9. /\ AdmittedOf(c) = IF n < Limit THEN n ELSE Limit
        /\ AdmittedOf(c)' = IF m < Limit THEN m ELSE Limit
    BY <2>5, <2>6 DEF AdmittedOf, n
  <2>10. CASE n < Limit
    <3>1. AdmittedOf(c) < Limit /\ AdmittedOf(c)' = AdmittedOf(c) + 1
      BY <2>2, <2>4, <2>9, <2>10, LimitAssumption DEF n
    <3>2. WindowsAdmit(c)
      BY <1>1, <1>3, <2>7, <2>8, <3>1 DEF WindowsAdmit, WindowsLeft, WindowsAdmitted
    <3>3. QED
      BY <1>1, <3>2, Mapping
  <2>11. CASE n >= Limit
    <3>1. AdmittedOf(c)' = AdmittedOf(c)
      BY <2>2, <2>4, <2>9, <2>11, LimitAssumption DEF n
    <3>2. WindowsAdmitted' = WindowsAdmitted
      BY <1>3, <3>1 DEF WindowsAdmitted
    <3>3. QED
      BY <2>8, <3>2
  <2>12. QED
    BY <2>2, <2>10, <2>11, LimitAssumption DEF n
<1>6. QED
  BY <1>4, <1>5

LEMMA TickMaps ==
  ASSUME IInv, Tick
  PROVE  Windows!Tick
<1>1. ASSUME NEW c \in Clients
      PROVE  /\ LeftOf(c)' = IF LeftOf(c) = -1 THEN -1 ELSE LeftOf(c) - 1
             /\ AdmittedOf(c)' = IF LeftOf(c) > 0 THEN AdmittedOf(c) ELSE 0
  <2>1. c \in Keys
    BY KeyKinds
  <2>2. CASE entries[c] = Missing
    <3>1. entries'[c] = Missing
      BY <2>1, <2>2, TickEntry DEF IInv
    <3>2. QED
      BY <2>2, <3>1 DEF LeftOf, AdmittedOf, InForce
  <2>3. CASE entries[c] # Missing
    <3>1. /\ entries[c] \in Entry /\ entries'[c] \in Entry
          /\ entries'[c].count = entries[c].count
          /\ entries'[c].left = IF entries[c].left >= 0 THEN entries[c].left - 1
                                                        ELSE entries[c].left
      BY <2>1, <2>3, TickEntry DEF IInv, TypeOK
    <3>2. entries'[c] # Missing /\ entries[c].left \in -1..Window
      BY <3>1, EntryIsThere
    <3>3. QED
      BY <2>3, <3>1, <3>2, LimitAssumption DEF LeftOf, AdmittedOf, InForce
  <2>4. QED
    BY <2>2, <2>3
<1>2. WindowsTick
  BY <1>1 DEF WindowsTick, WindowsLeft, WindowsAdmitted
<1>3. QED
  BY <1>2, Mapping

LEMMA StepMaps ==
  ASSUME IInv, [Next]_vars
  PROVE  Windows!Next \/ (WindowsLeft' = WindowsLeft /\ WindowsAdmitted' = WindowsAdmitted)
<1>1. CASE Tick
  BY <1>1, TickMaps DEF Windows!Next
<1>2. CASE \E a \in Addresses : Request(a)
  BY <1>2, RequestMaps DEF Windows!Next
<1>3. CASE \E w \in Callers, k \in Counters : Begin(w, k) \/ Finish(w, k)
  <2>1. \A c \in Clients : entries'[c] = entries[c]
    BY <1>3, KeyKinds DEF Begin, Finish, IInv, TypeOK
  <2>2. QED
    BY <2>1 DEF WindowsLeft, WindowsAdmitted, LeftOf, AdmittedOf, InForce
<1>4. CASE UNCHANGED entries
  BY <1>4 DEF WindowsLeft, WindowsAdmitted, LeftOf, AdmittedOf, InForce
<1>5. CASE \E w \in Callers : Stop(w)
  BY <1>4, <1>5 DEF Stop
<1>6. CASE UNCHANGED vars
  BY <1>4, <1>6 DEF vars
<1>7. QED
  BY <1>1, <1>2, <1>3, <1>5, <1>6 DEF Next

(* The limiter, with the counters of its other callers in the same store,  *)
(* lets the requests of each client pass by fixed windows: a window is not *)
(* prolonged by what is asked in it, and admits Limit (ratelimit.go:14,    *)
(* store.go:52).                                                           *)
THEOREM ImplementsFixedWindows == Spec => KeepsWindows
<1>1. ASSUME IInv, [Next]_vars
      PROVE  [Windows!Next]_<<WindowsLeft, WindowsAdmitted>>
  BY <1>1, StepMaps
<1>2. QED
  BY <1>1, InitMaps, InvHolds, PTL
     DEF Spec, KeepsWindows, Windows!Spec, WindowsLeft, WindowsAdmitted, LeftOf, AdmittedOf
=============================================================================
