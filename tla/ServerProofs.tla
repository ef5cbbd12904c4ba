---------------------------- MODULE ServerProofs ----------------------------
(* Proofs about Server: its type invariant with the accounts of the pool,  *)
(* and the clean exit; and about Startup: that it implements Server, what  *)
(* it dials, and the pool it leaves behind.                                *)
EXTENDS Startup, FiniteSetTheorems, SequenceTheorems, TLAPS

LEMMA SeqDomain ==
  ASSUME NEW S, NEW s \in Seq(S)
  PROVE  DOMAIN s = 1..Len(s) /\ Len(s) \in Nat
  OBVIOUS

(* What RemoveAt leaves of a sequence. *)
LEMMA RemoveAtLeaves ==
  ASSUME NEW S, NEW s \in Seq(S), NEW i \in DOMAIN s
  PROVE  /\ RemoveAt(s, i) \in Seq(S)
         /\ Len(RemoveAt(s, i)) = Len(s) - 1
         /\ \A j \in 1..(Len(s) - 1) :
              RemoveAt(s, i)[j] = IF j < i THEN s[j] ELSE s[j + 1]
<1> DEFINE l == SubSeq(s, 1, i - 1)
           r == SubSeq(s, i + 1, Len(s))
<1>1. i \in 1..Len(s) /\ Len(s) \in Nat /\ \A j \in 1..Len(s) : s[j] \in S
  OBVIOUS
<1>2. l \in Seq(S) /\ Len(l) = i - 1 /\ \A j \in 1..(i - 1) : l[j] = s[j]
  BY <1>1, SubSeqProperties
<1>3. /\ r \in Seq(S) /\ Len(r) = Len(s) - i
      /\ \A j \in 1..(Len(s) - i) : r[j] = s[i + j]
  BY <1>1, SubSeqProperties
<1> HIDE DEF l, r
<1>4. /\ l \o r \in Seq(S) /\ Len(l \o r) = Len(l) + Len(r)
      /\ \A j \in 1..(Len(l) + Len(r)) :
           (l \o r)[j] = IF j <= Len(l) THEN l[j] ELSE r[j - Len(l)]
  BY <1>2, <1>3, ConcatProperties
<1>5. \A j \in 1..(Len(s) - 1) : (l \o r)[j] = IF j < i THEN s[j] ELSE s[j + 1]
  <2> TAKE j \in 1..(Len(s) - 1)
  <2>1. CASE j < i
    <3>1. j \in 1..(i - 1) /\ j \in 1..(Len(l) + Len(r)) /\ j <= Len(l)
      BY <1>1, <1>2, <1>3, <2>1
    <3>2. (l \o r)[j] = l[j]
      BY <1>4, <3>1
    <3>3. l[j] = s[j]
      BY <1>2, <3>1
    <3> QED BY <2>1, <3>2, <3>3
  <2>2. CASE ~(j < i)
    <3> DEFINE n == Len(l)
    <3>1. n = i - 1 /\ n \in Int /\ j \in 1..(n + Len(r)) /\ ~(j <= n)
      BY <1>1, <1>2, <1>3, <2>2
    <3>2. (l \o r)[j] = r[j - n]
      BY <1>4, <3>1
    <3> HIDE DEF n
    <3>3. (l \o r)[j] = r[j - (i - 1)]
      BY <3>1, <3>2
    <3>4. j - (i - 1) \in 1..(Len(s) - i) /\ i + (j - (i - 1)) = j + 1
      BY <1>1, <2>2
    <3>5. r[j - (i - 1)] = s[i + (j - (i - 1))]
      BY <1>3, <3>4
    <3> QED BY <2>2, <3>3, <3>4, <3>5
  <2> QED BY <2>1, <2>2
<1>6. Len(l \o r) = Len(s) - 1
  BY <1>1, <1>2, <1>3, <1>4
<1> QED BY <1>4, <1>5, <1>6 DEF RemoveAt, l, r

(* The outcome of a statement moves its request alone, and keeps types.    *)
LEMMA AfterStatementKeeps ==
  ASSUME TypeOK, NEW r \in Requests, NEW ok \in BOOLEAN, AfterStatement(r, ok),
         at[r] = "OrgResolver" \/ (at[r] = "Handler" /\ work[r] > 0)
  PROVE  /\ at' \in [Requests -> Places]
         /\ code' \in [Requests -> {"none", "2xx", "error"}]
         /\ ctx' \in [Requests -> SUBSET Keys]
         /\ work' \in [Requests -> 0..MaxStatements]
         /\ \A q \in Requests \ {r} : at'[q] = at[q] /\ work'[q] = work[q]
<1>1. CASE at[r] = "OrgResolver" /\ ok
  <2>1. ctx[r] \cup {"org"} \in SUBSET Keys
    BY DEF TypeOK, Keys
  <2>2. /\ at' = [at EXCEPT ![r] = "Auth"] /\ UNCHANGED <<code, work>>
        /\ ctx' = [ctx EXCEPT ![r] = ctx[r] \cup {"org"}]
    BY <1>1 DEF AfterStatement
  <2> QED BY <2>1, <2>2 DEF TypeOK, Places
<1>2. CASE at[r] = "OrgResolver" /\ ~ok
  BY <1>2 DEF AfterStatement, TypeOK, Places
<1>3. CASE at[r] = "Handler" /\ work[r] > 0
  <2>1. work' = [work EXCEPT ![r] = work[r] - 1] /\ UNCHANGED <<at, code, ctx>>
    BY <1>3 DEF AfterStatement
  <2>2. work[r] - 1 \in 0..MaxStatements
    BY <1>3, BoundsAssumption DEF TypeOK
  <2> QED BY <2>1, <2>2 DEF TypeOK
<1> QED BY <1>1, <1>2, <1>3

(* A request that is nowhere in the pool's books leaves them in order when *)
(* it moves.                                                               *)
LEMMA OutsiderMoves ==
  ASSUME TypeOK, NEW r \in Requests, Running(r),
         \A q \in Requests \ {r} : at'[q] = at[q] /\ work'[q] = work[q],
         UNCHANGED <<holders, queue>>
  PROVE  PoolOK'
<1>1. \A q \in holders \cup ToSet(queue) : q \in Requests \ {r}
  BY DEF TypeOK, Running, ToSet
<1>2. ToSet(queue)' = ToSet(queue)
  BY DEF ToSet
<1>3. \A q \in (holders \cup ToSet(queue))' :
         at'[q] = "OrgResolver" \/ (at'[q] = "Handler" /\ work'[q] > 0)
  BY <1>1, <1>2 DEF TypeOK, PoolOK
<1> QED BY <1>3 DEF TypeOK, PoolOK

LEMMA HoldersFinite ==
  ASSUME TypeOK
  PROVE  IsFiniteSet(holders) /\ Cardinality(holders) \in Nat
BY BoundsAssumption, FS_Subset, FS_CardinalityType DEF TypeOK

(* Taking a connection when one is free. *)
LEMMA OneMoreHolder ==
  ASSUME TypeOK, NEW r \in Requests, r \notin holders, Cardinality(holders) < MaxConns
  PROVE  Cardinality(holders \cup {r}) <= MaxConns
<1>1. Cardinality(holders \cup {r}) = Cardinality(holders) + 1
  BY HoldersFinite, FS_AddElement
<1>2. Cardinality(holders) \in Nat
  BY HoldersFinite
<1>3. MaxConns \in Nat
  BY BoundsAssumption
<1> QED BY <1>1, <1>2, <1>3

LEMMA TypeInit == Init => TypeOK
<1> SUFFICES ASSUME Init PROVE TypeOK
  OBVIOUS
<1>1. Cardinality(holders) = 0
  BY FS_EmptySet DEF Init
<1>2. PoolOK
  BY <1>1, BoundsAssumption DEF Init, PoolOK, ToSet
<1> QED BY <1>2, BoundsAssumption DEF Init, TypeOK, Places, Keys

LEMMA TypeStep == TypeOK /\ [Next]_vars => TypeOK'
<1> SUFFICES ASSUME TypeOK, [Next]_vars PROVE TypeOK'
  OBVIOUS
<1> USE DEF mainVars, reqVars, poolVars
<1>1. CASE Start
  BY <1>1 DEF Start, TypeOK, PoolOK, ToSet
<1>2. CASE ListenAndServe
  BY <1>2 DEF ListenAndServe, TypeOK, PoolOK, ToSet
<1>3. CASE Signal
  BY <1>3 DEF Signal, TypeOK, PoolOK, ToSet
<1>4. CASE SignalAgain
  BY <1>4 DEF SignalAgain, TypeOK, PoolOK, ToSet
<1>5. CASE Shutdown
  BY <1>5 DEF Shutdown, Drained, GraceExpires, Exit, ClosePool, TypeOK, PoolOK, ToSet
<1>6. CASE Grant
  <2> DEFINE r == Head(queue)
  <2>1. /\ r \in Requests /\ r \notin holders
        /\ at[r] = "OrgResolver" \/ (at[r] = "Handler" /\ work[r] > 0)
        /\ queue' = Tail(queue) /\ queue' \in Seq(Requests)
        /\ 1 \in DOMAIN queue /\ r = queue[1]
        /\ Len(queue') = Len(queue) - 1
        /\ \A j \in DOMAIN queue' : j + 1 \in DOMAIN queue /\ queue'[j] = queue[j + 1]
    BY <1>6 DEF Grant, TypeOK, PoolOK, ToSet
  <2>2. \A j \in DOMAIN queue' : queue'[j] # r /\ queue'[j] \notin holders
    <3> TAKE j \in DOMAIN queue'
    <3>1. j + 1 # 1 /\ j + 1 \in DOMAIN queue /\ queue'[j] = queue[j + 1]
      BY <2>1
    <3> QED BY <3>1, <2>1 DEF TypeOK, PoolOK
  <2>3. \A j, k \in DOMAIN queue' : queue'[j] = queue'[k] => j = k
    BY <2>1 DEF TypeOK, PoolOK
  <2>4. \A q \in ToSet(queue') : q \in ToSet(queue) /\ q \in Requests
    BY <2>1 DEF ToSet, TypeOK
  <2>5. CASE pool = "open" /\ holders' = holders \cup {r} /\ UNCHANGED <<refused, reqVars>>
    <3>1. Cardinality(holders') <= MaxConns
      BY <1>6, <2>1, <2>5, OneMoreHolder DEF Grant
    <3>2. PoolOK'
      BY <3>1, <2>1, <2>2, <2>3, <2>4, <2>5 DEF PoolOK, TypeOK
    <3> QED BY <1>6, <2>1, <2>5, <3>2 DEF Grant, TypeOK
  <2>6. CASE /\ pool # "open" /\ refused' = refused \cup {r}
             /\ AfterStatement(r, FALSE) /\ UNCHANGED <<holders, method, auditCtx>>
    <3>1. /\ at' \in [Requests -> Places]
          /\ code' \in [Requests -> {"none", "2xx", "error"}]
          /\ ctx' \in [Requests -> SUBSET Keys]
          /\ work' \in [Requests -> 0..MaxStatements]
          /\ \A q \in Requests \ {r} : at'[q] = at[q] /\ work'[q] = work[q]
      BY <2>1, <2>6, AfterStatementKeeps
    <3>2. \A q \in holders' \cup ToSet(queue') : q \in Requests \ {r} /\ q \in holders \cup ToSet(queue)
      BY <2>1, <2>2, <2>4, <2>6 DEF ToSet, TypeOK
    <3>3. PoolOK'
      BY <3>1, <3>2, <2>1, <2>2, <2>3, <2>6 DEF PoolOK, TypeOK
    <3> QED BY <1>6, <2>1, <2>6, <3>1, <3>3 DEF Grant, TypeOK
  <2> QED BY <1>6, <2>5, <2>6 DEF Grant
<1>7. ASSUME NEW r \in Requests, Acquire(r) PROVE TypeOK'
  <2>1. /\ Running(r) /\ UNCHANGED <<pool, refused, mainVars, reqVars, recorded>>
        /\ at[r] = "OrgResolver" \/ (at[r] = "Handler" /\ work[r] > 0)
    BY <1>7 DEF Acquire, Issues, Under
  <2>2. CASE /\ Cardinality(holders) < MaxConns /\ queue = <<>>
             /\ holders' = holders \cup {r} /\ UNCHANGED queue
    <3>1. Cardinality(holders') <= MaxConns
      BY <2>1, <2>2, OneMoreHolder DEF Running
    <3>2. PoolOK'
      BY <2>1, <2>2, <3>1 DEF PoolOK, TypeOK, ToSet
    <3> QED BY <2>1, <2>2, <3>2 DEF TypeOK
  <2>3. CASE queue' = Append(queue, r) /\ UNCHANGED holders
    <3>1. /\ queue' \in Seq(Requests) /\ Len(queue') = Len(queue) + 1
          /\ \A j \in DOMAIN queue' : \/ j \in DOMAIN queue /\ queue'[j] = queue[j]
                                      \/ j = Len(queue) + 1 /\ queue'[j] = r
      BY <2>3 DEF TypeOK
    <3>2. \A j \in DOMAIN queue : queue[j] # r
      BY <2>1 DEF Running, ToSet
    <3>3. \A j, k \in DOMAIN queue' : queue'[j] = queue'[k] => j = k
      <4>1. \A j, k \in DOMAIN queue : queue[j] = queue[k] => j = k
        BY DEF TypeOK, PoolOK
      <4>2. SUFFICES ASSUME NEW j \in DOMAIN queue', NEW k \in DOMAIN queue', queue'[j] = queue'[k]
                     PROVE  j = k
        OBVIOUS
      <4>3. CASE j \in DOMAIN queue /\ queue'[j] = queue[j]
        BY <3>1, <3>2, <4>1, <4>2, <4>3
      <4>4. CASE j = Len(queue) + 1 /\ queue'[j] = r
        BY <3>1, <3>2, <4>2, <4>4
      <4> QED BY <3>1, <4>2, <4>3, <4>4
    <3>4. \A q \in ToSet(queue') : q \in ToSet(queue) \/ q = r
      BY <3>1 DEF ToSet
    <3>5. \A j \in DOMAIN queue' : queue'[j] \notin holders
      BY <3>1, <2>1 DEF TypeOK, PoolOK, Running
    <3>6. PoolOK'
      BY <3>3, <3>4, <3>5, <2>1, <2>3 DEF PoolOK, TypeOK
    <3> QED BY <2>1, <2>3, <3>1, <3>6 DEF TypeOK
  <2> QED BY <1>7, <2>2, <2>3 DEF Acquire
<1>8. ASSUME NEW r \in Requests, AcquireClosed(r) PROVE TypeOK'
  <2>1. /\ Running(r) /\ refused' = refused \cup {r} /\ AfterStatement(r, FALSE)
        /\ UNCHANGED <<pool, holders, queue, method, auditCtx, mainVars, recorded>>
        /\ at[r] = "OrgResolver" \/ (at[r] = "Handler" /\ work[r] > 0)
    BY <1>8 DEF AcquireClosed, Issues, Under
  <2>2. /\ at' \in [Requests -> Places]
        /\ code' \in [Requests -> {"none", "2xx", "error"}]
        /\ ctx' \in [Requests -> SUBSET Keys]
        /\ work' \in [Requests -> 0..MaxStatements]
        /\ \A q \in Requests \ {r} : at'[q] = at[q] /\ work'[q] = work[q]
    BY <2>1, AfterStatementKeeps
  <2>3. PoolOK'
    BY <2>1, <2>2, OutsiderMoves
  <2> QED BY <2>1, <2>2, <2>3 DEF TypeOK
<1>9. ASSUME NEW r \in Requests, Executed(r) PROVE TypeOK'
  <2>1. PICK ok \in BOOLEAN : AfterStatement(r, ok)
    BY <1>9 DEF Executed
  <2>2. /\ r \in holders /\ holders' = holders \ {r}
        /\ UNCHANGED <<pool, queue, refused, method, auditCtx, mainVars, recorded>>
        /\ at[r] = "OrgResolver" \/ (at[r] = "Handler" /\ work[r] > 0)
    BY <1>9 DEF Executed, TypeOK, PoolOK
  <2>3. /\ at' \in [Requests -> Places]
        /\ code' \in [Requests -> {"none", "2xx", "error"}]
        /\ ctx' \in [Requests -> SUBSET Keys]
        /\ work' \in [Requests -> 0..MaxStatements]
        /\ \A q \in Requests \ {r} : at'[q] = at[q] /\ work'[q] = work[q]
    BY <2>1, <2>2, AfterStatementKeeps
  <2>4. Cardinality(holders') <= MaxConns
    <3>1. Cardinality(holders') = Cardinality(holders) - 1
      BY <2>2, HoldersFinite, FS_RemoveElement
    <3> QED BY <3>1, HoldersFinite, BoundsAssumption DEF TypeOK, PoolOK
  <2>5. \A q \in holders' \cup ToSet(queue') : q \in Requests \ {r} /\ q \in holders \cup ToSet(queue)
    BY <2>2 DEF ToSet, TypeOK, PoolOK
  <2>6. PoolOK'
    BY <2>2, <2>3, <2>4, <2>5 DEF TypeOK, PoolOK
  <2> QED BY <2>2, <2>3, <2>6 DEF TypeOK
<1>10. ASSUME NEW r \in Requests, GiveUp(r) PROVE TypeOK'
  <2>1. PICK i \in DOMAIN queue : queue[i] = r /\ queue' = RemoveAt(queue, i)
    BY <1>10 DEF GiveUp
  <2>2. /\ AfterStatement(r, FALSE)
        /\ UNCHANGED <<pool, holders, refused, method, auditCtx, mainVars, recorded>>
        /\ at[r] = "OrgResolver" \/ (at[r] = "Handler" /\ work[r] > 0)
    BY <1>10, <2>1 DEF GiveUp, TypeOK, PoolOK, ToSet
  <2>3. /\ at' \in [Requests -> Places]
        /\ code' \in [Requests -> {"none", "2xx", "error"}]
        /\ ctx' \in [Requests -> SUBSET Keys]
        /\ work' \in [Requests -> 0..MaxStatements]
        /\ \A q \in Requests \ {r} : at'[q] = at[q] /\ work'[q] = work[q]
    BY <2>2, AfterStatementKeeps
  <2>4. /\ queue' \in Seq(Requests) /\ Len(queue') = Len(queue) - 1
        /\ \A j \in 1..(Len(queue) - 1) : queue'[j] = IF j < i THEN queue[j] ELSE queue[j + 1]
    <3>1. queue \in Seq(Requests)
      BY DEF TypeOK
    <3> QED BY <3>1, <2>1, RemoveAtLeaves
  <2>5. \A j \in DOMAIN queue' : \E k \in DOMAIN queue :
           k # i /\ queue'[j] = queue[k] /\ k = IF j < i THEN j ELSE j + 1
    <3> TAKE j \in DOMAIN queue'
    <3>1. queue \in Seq(Requests) /\ i \in 1..Len(queue) /\ j \in 1..(Len(queue) - 1)
      <4>1. queue \in Seq(Requests)
        BY DEF TypeOK
      <4>2. DOMAIN queue = 1..Len(queue) /\ DOMAIN queue' = 1..(Len(queue) - 1)
        BY <2>4, <4>1, SeqDomain
      <4> QED BY <2>1, <4>1, <4>2
    <3>2. CASE j < i
      <4>1. j \in DOMAIN queue /\ j # i /\ queue'[j] = queue[j]
        BY <2>4, <3>1, <3>2
      <4> QED BY <3>2, <4>1
    <3>3. CASE ~(j < i)
      <4>1. j + 1 \in DOMAIN queue /\ j + 1 # i /\ queue'[j] = queue[j + 1]
        BY <2>4, <3>1, <3>3
      <4> QED BY <3>3, <4>1
    <3> QED BY <3>2, <3>3
  <2>6. \A j, k \in DOMAIN queue' : queue'[j] = queue'[k] => j = k
    <3> SUFFICES ASSUME NEW j \in DOMAIN queue', NEW k \in DOMAIN queue', queue'[j] = queue'[k]
                 PROVE  j = k
      OBVIOUS
    <3>1. PICK m \in DOMAIN queue : m # i /\ queue'[j] = queue[m] /\ m = IF j < i THEN j ELSE j + 1
      BY <2>5
    <3>2. PICK n \in DOMAIN queue : n # i /\ queue'[k] = queue[n] /\ n = IF k < i THEN k ELSE k + 1
      BY <2>5
    <3>3. m = n
      BY <3>1, <3>2 DEF TypeOK, PoolOK
    <3>4. i \in Int /\ j \in Int /\ k \in Int
      <4>1. DOMAIN queue \subseteq Int /\ DOMAIN queue' \subseteq Int
        BY <2>4 DEF TypeOK
      <4> QED BY <2>1, <4>1
    <3>5. (IF j < i THEN j ELSE j + 1) = (IF k < i THEN k ELSE k + 1)
      BY <3>1, <3>2, <3>3
    <3> QED BY <3>4, <3>5
  <2>7. \A j \in DOMAIN queue' : queue'[j] # r /\ queue'[j] \notin holders
    BY <2>1, <2>5 DEF TypeOK, PoolOK
  <2>8. \A q \in ToSet(queue') : q \in ToSet(queue) /\ q \in Requests \ {r}
    BY <2>4, <2>5, <2>7 DEF ToSet, TypeOK
  <2>9. \A q \in holders' \cup ToSet(queue') : q \in Requests \ {r} /\ q \in holders \cup ToSet(queue)
    BY <2>1, <2>2, <2>8 DEF TypeOK, PoolOK
  <2>10. PoolOK'
    BY <2>2, <2>3, <2>6, <2>7, <2>9 DEF PoolOK, TypeOK
  <2> QED BY <2>2, <2>3, <2>4, <2>10 DEF TypeOK
<1>11. ASSUME NEW r \in Requests, Arrive(r) PROVE TypeOK'
  <2>1. Running(r)
    BY <1>11 DEF Arrive, TypeOK, PoolOK, Running
  <2>2. /\ at' \in [Requests -> Places]
        /\ method' \in [Requests -> {"none", "GET", "POST"}]
        /\ auditCtx' \in [Requests -> SUBSET Keys]
        /\ ctx' \in [Requests -> SUBSET Keys]
        /\ \A q \in Requests \ {r} : at'[q] = at[q] /\ work'[q] = work[q]
    BY <1>11 DEF Arrive, TypeOK, Places, Keys
  <2>3. PoolOK'
    BY <1>11, <2>1, <2>2, OutsiderMoves DEF Arrive
  <2> QED BY <1>11, <2>2, <2>3 DEF Arrive, TypeOK
<1>12. ASSUME NEW r \in Requests, Auth(r) PROVE TypeOK'
  <2>1. Running(r)
    BY <1>12 DEF Auth, Under, TypeOK, PoolOK, Running
  <2>2. /\ at' \in [Requests -> Places]
        /\ code' \in [Requests -> {"none", "2xx", "error"}]
        /\ \A q \in Requests \ {r} : at'[q] = at[q] /\ work'[q] = work[q]
    BY <1>12 DEF Auth, TypeOK, Places
  <2>3. ctx' \in [Requests -> SUBSET Keys]
    BY <1>12 DEF Auth, TypeOK, Keys
  <2>4. PoolOK'
    BY <1>12, <2>1, <2>2, OutsiderMoves DEF Auth
  <2> QED BY <1>12, <2>2, <2>3, <2>4 DEF Auth, TypeOK
<1>13. ASSUME NEW r \in Requests, Answer(r) PROVE TypeOK'
  <2>1. /\ at' \in [Requests -> Places]
        /\ code' \in [Requests -> {"none", "2xx", "error"}]
        /\ \A q \in Requests \ {r} : at'[q] = at[q] /\ work'[q] = work[q]
    BY <1>13 DEF Answer, TypeOK, Places
  <2>2. PoolOK'
    BY <1>13, <2>1, OutsiderMoves DEF Answer
  <2> QED BY <1>13, <2>1, <2>2 DEF Answer, TypeOK
<1>14. ASSUME NEW r \in Requests, Audit(r) PROVE TypeOK'
  <2>1. Running(r)
    BY <1>14 DEF Audit, Under, TypeOK, PoolOK, Running
  <2>2. /\ at' \in [Requests -> Places] /\ recorded' \subseteq Requests
        /\ \A q \in Requests \ {r} : at'[q] = at[q] /\ work'[q] = work[q]
    BY <1>14 DEF Audit, TypeOK, Places
  <2>3. PoolOK'
    BY <1>14, <2>1, <2>2, OutsiderMoves DEF Audit
  <2> QED BY <1>14, <2>2, <2>3 DEF Audit, TypeOK
<1>15. CASE UNCHANGED vars
  BY <1>15 DEF vars, TypeOK, PoolOK, ToSet
<1> QED
  BY <1>1, <1>2, <1>3, <1>4, <1>5, <1>6, <1>7, <1>8, <1>9, <1>10, <1>11, <1>12, <1>13,
     <1>14, <1>15 DEF Next, AfterStart, Serve

(* The types and the accounts of the pool: for any number of requests and  *)
(* any pool, a connection is out to one request at most, a request holds or*)
(* awaits one at most, and only while it has a statement to run.           *)
THEOREM TypeCorrect == Spec => []TypeOK
<1> QED BY TypeInit, TypeStep, PTL DEF Spec

-----------------------------------------------------------------------------
(* The end of the process is settled when the pool is closed, and the pool *)
(* refuses nobody before.                                                  *)
Settled ==
  /\ exit = "none" => pool = "open" /\ main \notin {"closing", "exited"}
  /\ refused # {} => exit # "none" /\ pool # "open"
  /\ exit = "0" => main \in {"closing", "exited"}
  /\ pool # "open" => main \in {"closing", "exited"}

LEMMA CleanInit == Init => Settled /\ GracefulExitIsClean
BY DEF Init, Settled, GracefulExitIsClean

(* With every request answered there is nobody left to change anything.    *)
LEMMA CleanStep ==
  TypeOK /\ Settled /\ GracefulExitIsClean /\ [Next]_vars => (Settled /\ GracefulExitIsClean)'
<1> SUFFICES ASSUME TypeOK, Settled, GracefulExitIsClean, [Next]_vars
             PROVE  (Settled /\ GracefulExitIsClean)'
  OBVIOUS
<1> USE DEF mainVars, reqVars, poolVars, Settled, GracefulExitIsClean
<1>1. CASE Start
  BY <1>1 DEF Start, Active
<1>2. CASE ListenAndServe
  BY <1>2 DEF ListenAndServe, Active
<1>3. CASE Signal
  BY <1>3 DEF Signal, Active
<1>4. CASE SignalAgain
  BY <1>4 DEF SignalAgain
<1>5. CASE Shutdown
  <2>1. CASE Drained
    BY <2>1 DEF Drained, ClosePool, Active
  <2>2. CASE GraceExpires
    BY <2>2 DEF GraceExpires, ClosePool
  <2>3. CASE Exit
    BY <2>3 DEF Exit, Active
  <2> QED BY <1>5, <2>1, <2>2, <2>3 DEF Shutdown
<1>6. CASE Grant
  <2>1. Head(queue) \in Requests /\ Active(Head(queue))
    <3>1. 1 \in DOMAIN queue /\ Head(queue) = queue[1] /\ queue[1] \in Requests
      BY <1>6 DEF Grant, TypeOK
    <3>2. queue[1] \in ToSet(queue)
      BY <3>1 DEF ToSet
    <3> QED BY <3>1, <3>2 DEF TypeOK, PoolOK, Active
  <2>2. exit # "0"
    BY <2>1
  <2> QED BY <1>6, <2>2 DEF Grant
<1>7. ASSUME NEW r \in Requests, Serve(r) \/ GiveUp(r)
      PROVE  (Settled /\ GracefulExitIsClean)'
  <2>1. Active(r)
    <3>1. CASE Acquire(r)
      BY <3>1 DEF Acquire, Issues, Under, Active
    <3>2. CASE AcquireClosed(r)
      BY <3>2 DEF AcquireClosed, Issues, Under, Active
    <3>3. CASE Executed(r)
      BY <3>3 DEF Executed, TypeOK, PoolOK, Active
    <3>4. CASE GiveUp(r)
      BY <3>4 DEF GiveUp, TypeOK, PoolOK, ToSet, Active
    <3>5. CASE Auth(r) \/ Answer(r) \/ Audit(r)
      BY <3>5 DEF Auth, Answer, Audit, Under, Active
    <3> QED BY <1>7, <3>1, <3>2, <3>3, <3>4, <3>5 DEF Serve
  <2>2. exit # "0"
    BY <2>1
  <2>3. CASE AcquireClosed(r)
    BY <2>2, <2>3 DEF AcquireClosed
  <2>4. CASE ~AcquireClosed(r)
    <3>1. UNCHANGED <<main, exit, pool, refused>>
      BY <1>7, <2>4 DEF Serve, Acquire, Executed, GiveUp, Auth, Answer, Audit
    <3> QED BY <2>2, <3>1
  <2> QED BY <2>3, <2>4
<1>8. ASSUME NEW r \in Requests, Arrive(r) PROVE (Settled /\ GracefulExitIsClean)'
  <2>1. main = "serving" /\ UNCHANGED <<main, exit, pool, refused>>
    BY <1>8 DEF Arrive
  <2> QED BY <2>1
<1>9. CASE UNCHANGED vars
  BY <1>9 DEF vars, Active
<1> QED BY <1>1, <1>2, <1>3, <1>4, <1>5, <1>6, <1>7, <1>8, <1>9 DEF Next, AfterStart

(* For any number of requests and any pool: a process that exits with      *)
(* status 0 has answered all it took and refused none a connection.        *)
THEOREM ExitIsClean == Spec => []GracefulExitIsClean
<1>1. Spec => [](Settled /\ GracefulExitIsClean)
  BY TypeCorrect, CleanInit, CleanStep, PTL DEF Spec
<1> QED BY <1>1, PTL

-----------------------------------------------------------------------------
(* Startup.  A step of it is a step of the server or none of the server's. *)

LEMMA StartupStepServes == [StartupNext]_allVars => [Next]_vars
<1> SUFFICES ASSUME [StartupNext]_allVars PROVE [Next]_vars
  OBVIOUS
<1> USE DEF Proceed, Stop
<1>1. CASE Load
  BY <1>1 DEF Load, Next
<1>2. CASE ParseConfig
  BY <1>2 DEF ParseConfig, Next
<1>3. CASE NewWithConfig
  BY <1>3 DEF NewWithConfig, Next
<1>4. CASE PingFails
  BY <1>4 DEF PingFails, Next
<1>5. CASE PingSucceeds
  BY <1>5 DEF PingSucceeds, Next
<1>6. CASE SignalEarly
  BY <1>6 DEF SignalEarly
<1>7. CASE SignalSeen
  BY <1>7 DEF SignalSeen, Next, AfterStart
<1>8. CASE Served
  BY <1>8 DEF Served, Next
<1>9. CASE UNCHANGED allVars
  BY <1>9 DEF allVars
<1> QED
  BY <1>1, <1>2, <1>3, <1>4, <1>5, <1>6, <1>7, <1>8, <1>9 DEF StartupNext, Boot

(* What is proved of the server holds of it. *)
LEMMA StartupServes == StartupSpec => Spec
<1>1. StartupInit => Init
  BY DEF StartupInit
<1> QED BY <1>1, StartupStepServes, PTL DEF StartupSpec, Spec

(* What the steps of the start have behind them.                           *)
BootOrder ==
  /\ boot \in {"Load", "ParseConfig", "NewWithConfig"} => dialled = "no"
  /\ boot = "Ping" => dialled = "open"
  /\ main = "closing" => pool = "closing"
  /\ main = "starting" => listener = "none" /\ pool = "open"
  /\ main = "exited" /\ exit = "1" /\ pool = "open" /\ dialled = "open" => listener = "closed"
  /\ main = "exited" /\ exit = "0" => pool = "closed"
  /\ main = "exited" /\ pool = "closing" => exit = "killed"
  /\ pool = "closed" => dialled = "closed" /\ main = "exited"

StartupInv == StartupTypeOK /\ BootOrder

(* Whatever the environment, config.Load makes a Config of it.             *)
LEMMA LoadedConfig ==
  ASSUME NEW env \in Environment
  PROVE  Loaded(env) \in Config
<1>1. ASSUME NEW k \in Settings PROVE Loaded(env)[k] \in {"unset", "bad", "good", "default"}
  <2>1. env[k] \in {"unset", "bad", "good"}
    BY DEF Environment
  <2>2. CASE k \in Parsed
    BY <2>1, <2>2, SettingsAssumption DEF Loaded, getEnvParsed
  <2>3. CASE k \in Enumerated /\ k \notin Secrets \cup Required
    BY <2>1, <2>3, SettingsAssumption DEF Loaded, getEnv
  <2>4. CASE k \in (Secrets \cup Required) \ Enumerated
    BY <2>1, <2>4, SettingsAssumption DEF Loaded, requireEnv
  <2>5. CASE k \in (Secrets \cup Required) \cap Enumerated
    BY <2>1, <2>5, SettingsAssumption DEF Loaded, requireEnv, getEnv
  <2> QED BY <2>2, <2>3, <2>4, <2>5 DEF Settings
<1> QED BY <1>1 DEF Config, Loaded

LEMMA StartupInitInv == StartupInit => StartupInv
BY SettingsAssumption
   DEF StartupInit, Init, StartupInv, StartupTypeOK, BootOrder, Config, NoConfig

LEMMA StartupInvStep ==
  TypeOK /\ Settled /\ StartupInv /\ [StartupNext]_allVars => StartupInv'
<1> SUFFICES ASSUME TypeOK, Settled, StartupInv, [StartupNext]_allVars
             PROVE  StartupInv'
  OBVIOUS
<1> USE DEF StartupInv, StartupTypeOK, BootOrder, Proceed, Stop, Start, mainVars, poolVars, vars
<1>1. CASE Load
  <2>1. PICK env \in Environment :
          \/ validate(Loaded(env)) /\ cfg' = Loaded(env) /\ Proceed("ParseConfig")
          \/ ~validate(Loaded(env)) /\ cfg' = NoConfig /\ Stop
    BY <1>1 DEF Load
  <2>2. Loaded(env) \in Config
    BY LoadedConfig
  <2>3. NoConfig \in Config
    BY DEF NoConfig, Config
  <2>4. UNCHANGED dialled /\ boot = "Load"
    BY <1>1 DEF Load
  <2>5. CASE validate(Loaded(env)) /\ cfg' = Loaded(env) /\ Proceed("ParseConfig")
    BY <2>2, <2>4, <2>5
  <2>6. CASE cfg' = NoConfig /\ Stop
    BY <2>3, <2>4, <2>6
  <2> QED BY <2>1, <2>5, <2>6
<1>2. CASE ParseConfig
  BY <1>2 DEF ParseConfig
<1>3. CASE NewWithConfig
  BY <1>3 DEF NewWithConfig
<1>4. CASE PingFails
  BY <1>4 DEF PingFails
<1>5. CASE PingSucceeds
  <2>1. NoConfig \in Config
    BY DEF NoConfig, Config
  <2> QED BY <1>5, <2>1 DEF PingSucceeds
<1>6. CASE SignalEarly
  BY <1>6 DEF SignalEarly
<1>7. CASE SignalSeen
  BY <1>7 DEF SignalSeen, Signal
<1>8. CASE Served
  <2> USE DEF Settled, TypeOK
  <2>1. /\ dialled' = IF pool' = "closed" THEN "closed" ELSE dialled
        /\ UNCHANGED <<boot, cfg, signalled>>
        /\ AfterStart
    BY <1>8 DEF Served
  <2>2. CASE ListenAndServe
    BY <2>1, <2>2 DEF ListenAndServe
  <2>3. CASE Signal
    BY <2>1, <2>3 DEF Signal
  <2>4. CASE SignalAgain
    BY <2>1, <2>4 DEF SignalAgain
  <2>5. CASE Shutdown
    BY <2>1, <2>5 DEF Shutdown, Drained, GraceExpires, Exit, ClosePool
  <2>6. CASE UNCHANGED <<mainVars, pool>>
    BY <2>1, <2>6
  <2>7. CASE Grant
    BY <2>6, <2>7 DEF Grant
  <2>8. CASE \E r \in Requests : Arrive(r) \/ Serve(r) \/ GiveUp(r)
    BY <2>6, <2>8 DEF Arrive, Serve, GiveUp, Acquire, AcquireClosed, Executed, Auth, Answer, Audit
  <2> QED BY <2>1, <2>2, <2>3, <2>4, <2>5, <2>7, <2>8 DEF AfterStart
<1>9. CASE UNCHANGED allVars
  BY <1>9 DEF allVars, startVars
<1> QED
  BY <1>1, <1>2, <1>3, <1>4, <1>5, <1>6, <1>7, <1>8, <1>9 DEF StartupNext, Boot

(* For any environment: the invariant of the start, from the type          *)
(* invariant of the server, whose steps it takes.                          *)
THEOREM StartupInvHolds == StartupSpec => [](StartupInv /\ Settled /\ TypeOK)
<1>1. StartupSpec => Spec
  BY StartupServes
<1>2. Spec => [](TypeOK /\ Settled /\ GracefulExitIsClean)
  BY TypeCorrect, CleanInit, CleanStep, PTL DEF Spec
<1>3. TypeOK /\ Settled /\ StartupInv /\ [StartupNext]_allVars => StartupInv'
  BY StartupInvStep
<1>4. StartupSpec => [](TypeOK /\ Settled /\ GracefulExitIsClean)
  BY <1>1, <1>2
<1> HIDE DEF TypeOK, Settled, StartupInv
<1> QED
  BY <1>3, <1>4, StartupInitInv, PTL DEF StartupSpec

(* The variables of the start keep their types, and requests are served    *)
(* over a pool that was dialled.                                           *)
THEOREM StartupTypeCorrect == StartupSpec => []StartupTypeOK
<1>1. StartupInv => StartupTypeOK
  BY DEF StartupInv
<1> QED BY <1>1, StartupInvHolds, PTL

(* A process that ends by itself leaves no dialled pool open, unless       *)
(* ListenAndServe failed.                                                  *)
THEOREM ExitClosesItsPool == StartupSpec => []ExitClosesPool
<1>1. StartupInv /\ Settled /\ TypeOK => ExitClosesPool
  BY DEF StartupInv, StartupTypeOK, BootOrder, Settled, TypeOK, ExitClosesPool
<1> QED BY <1>1, StartupInvHolds, PTL
=============================================================================
