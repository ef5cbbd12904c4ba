-------------------------- MODULE PooledWorkProofs --------------------------
(***************************************************************************)
(* Proofs about PooledWork, for any calls, connections, organisations and  *)
(* lengths of callbacks.                                                   *)
(***************************************************************************)
EXTENDS PooledWork, TLAPS

Scoped == {"BEGIN", "set_config", "fn", "COMMIT", "ROLLBACK"}

(* Every connection: settings are made for a transaction only and leave    *)
(* with it, as does a lost connection's.                                   *)
ConnOK(k) ==
  /\ k.session = NoOrg
  /\ k.tx = "idle" => k.local = NoOrg /\ k.pending = 0
  /\ ~k.alive => k.tx = "idle"

(* The connection k of call c.  With the callback's transaction goes the   *)
(* setting of its organisation and all it inserted.                        *)
HeldOK(c, k) ==
  /\ job[c].kind # "WithOrgContext" \/ stage[c] = "BEGIN" => k.tx = "idle"
  /\ stage[c] = "set_config" /\ k.alive => k.tx = "open" /\ k.pending = inserted[c]
  /\ stage[c] \in {"fn", "COMMIT"} /\ k.alive =>
       /\ k.tx # "idle" /\ k.local = job[c].org
       /\ k.tx = "open" => k.pending = inserted[c]
       /\ k.tx = "failed" => mishap[c] = "statement"

(* What has become of a call's rows.                                       *)
Outcome(c) ==
  /\ rows[c] \in {0, inserted[c]}
  /\ result[c] = "ok" /\ rows[c] # inserted[c] => mishap[c] = "statement"
  /\ result[c] = "error" /\ rows[c] # 0 => fnErr[c] = "error" \/ mishap[c] = "commit"

CallOK(c) ==
  /\ stage[c] \in Scoped => job[c].kind = "WithOrgContext"
  /\ stage[c] \in {"query", "Ping", "InsertAuditLog"} => job[c].kind # "WithOrgContext"
  /\ stage[c] \in {"new", "acquire", "BEGIN", "set_config"} => inserted[c] = 0
  /\ stage[c] = "COMMIT" => fnErr[c] # "none"
  /\ job[c].kind = "WithOrgContext" =>
       IF stage[c] \in {"ROLLBACK", "Release", "returned"} THEN Outcome(c)
       ELSE rows[c] = 0 /\ result[c] = "none"
  /\ on[c] # NoConn => HeldOK(c, K(c))

Free(k) == \A c \in Calls : on[c] # k

IInv ==
  /\ TypeOK
  /\ \A k \in Conns : ConnOK(conns[k]) /\ (Free(k) => conns[k].tx = "idle")
  /\ \A c \in Calls : CallOK(c)

-----------------------------------------------------------------------------
(* What a step changes.  Types holds the parts of TypeOK that are about    *)
(* each variable, Apart the ones about who has which connection.           *)

Types ==
  /\ pool \in {"open", "closing", "closed"}
  /\ conns \in [Conns -> Conn]
  /\ job \in [Calls -> Job]
  /\ stage \in [Calls -> Stages]
  /\ on \in [Calls -> Conns \cup {NoConn}]
  /\ over \in [Calls -> BOOLEAN]
  /\ inserted \in [Calls -> 0..MaxStatements]
  /\ fnErr \in [Calls -> {"none", "ok", "error"}]
  /\ result \in [Calls -> {"none", "ok", "error"}]
  /\ rows \in [Calls -> 0..(MaxStatements + 1)]
  /\ mishap \in [Calls -> Mishaps]

Apart ==
  /\ \A c \in Calls : on[c] # NoConn <=> stage[c] \in Holding
  /\ \A c, d \in Calls : on[c] # NoConn /\ on[c] = on[d] => c = d

(* Call c moves; the others stay as they were.                             *)
Alone(c) ==
  \A d \in Calls \ {c} :
    /\ stage'[d] = stage[d] /\ job'[d] = job[d] /\ on'[d] = on[d]
    /\ inserted'[d] = inserted[d] /\ fnErr'[d] = fnErr[d] /\ result'[d] = result[d]
    /\ rows'[d] = rows[d] /\ mishap'[d] = mishap[d]

LEMMA OthersStay ==
  ASSUME IInv, NEW c \in Calls, Alone(c),
         \A d \in Calls \ {c} : on[d] # NoConn => conns'[on[d]] = conns[on[d]]
  PROVE  \A d \in Calls \ {c} : CallOK(d)'
<1> SUFFICES ASSUME NEW d \in Calls \ {c} PROVE CallOK(d)'
  OBVIOUS
<1>1. CallOK(d)
  BY DEF IInv
<1>2. QED
  BY <1>1 DEF Alone, CallOK, HeldOK, Outcome, K

(* A step that leaves the connections and who has them alone. *)
LEMMA SameConns ==
  ASSUME IInv, NEW c \in Calls, Alone(c), conns' = conns, on' = on,
         Types', stage'[c] \in Holding <=> stage[c] \in Holding, CallOK(c)'
  PROVE  IInv'
<1>1. Apart'
  BY DEF IInv, TypeOK, Apart, Alone
<1>2. \A d \in Calls : CallOK(d)'
  BY OthersStay
<1>3. \A k \in Conns : ConnOK(conns'[k]) /\ (Free(k)' => conns'[k].tx = "idle")
  BY DEF IInv, Free
<1>4. TypeOK'
  BY <1>1 DEF TypeOK, Types, Apart
<1>5. QED
  BY <1>2, <1>3, <1>4 DEF IInv

(* A step that gives the connection of call c another state.               *)
LEMMA OneConn ==
  ASSUME IInv, NEW c \in Calls, Alone(c), on[c] # NoConn, on' = on,
         NEW k \in Conn, Becomes(c, k), ConnOK(k),
         Types', stage'[c] \in Holding, CallOK(c)'
  PROVE  IInv'
<1>1. on[c] \in Conns /\ conns' = [conns EXCEPT ![on[c]] = k]
  BY DEF IInv, TypeOK, Becomes
<1>2. Apart'
  BY DEF IInv, TypeOK, Apart, Alone
<1>3. \A d \in Calls \ {c} : on[d] # NoConn => conns'[on[d]] = conns[on[d]]
  BY <1>1 DEF IInv, TypeOK
<1>4. \A d \in Calls : CallOK(d)'
  BY <1>3, OthersStay
<1>5. \A l \in Conns : ConnOK(conns'[l]) /\ (Free(l)' => conns'[l].tx = "idle")
  BY <1>1 DEF IInv, Free, TypeOK
<1>6. TypeOK'
  BY <1>2 DEF TypeOK, Types, Apart
<1>7. QED
  BY <1>4, <1>5, <1>6 DEF IInv
-----------------------------------------------------------------------------
LEMMA KindOf ==
  ASSUME IInv, NEW c \in Calls
  PROVE  /\ CallOK(c) /\ Types /\ job[c] \in Job
         /\ on[c] # NoConn => /\ on[c] \in Conns /\ K(c) \in Conn /\ ConnOK(K(c))
                              /\ HeldOK(c, K(c))
         /\ on[c] # NoConn <=> stage[c] \in Holding
  BY DEF IInv, TypeOK, Types, CallOK, K

LEMMA ConnStates ==
  /\ Fresh \in Conn /\ Fresh.tx = "idle" /\ ConnOK(Fresh)
  /\ Lost \in Conn /\ Lost.tx = "idle" /\ ~Lost.alive /\ ConnOK(Lost)
  /\ \A k \in Conn : Ended(k) \in Conn /\ Ended(k).tx = "idle" /\ (ConnOK(k) => ConnOK(Ended(k)))
<1>1. 0 \in 0..MaxStatements /\ NoOrg \in Orgs \cup {NoOrg}
  BY PoolAssumption
<1>2. Fresh \in Conn /\ Fresh.tx = "idle" /\ ConnOK(Fresh)
  BY <1>1 DEF Fresh, Conn, ConnOK
<1>3. /\ Lost \in Conn /\ ~Lost.alive /\ Lost.tx = Fresh.tx /\ Lost.session = Fresh.session
      /\ Lost.local = Fresh.local /\ Lost.pending = Fresh.pending
  BY <1>2 DEF Lost, Conn
<1>4. ConnOK(Lost) /\ Lost.tx = "idle"
  BY <1>2, <1>3 DEF ConnOK
<1>5. ASSUME NEW k \in Conn
      PROVE  /\ Ended(k) \in Conn /\ Ended(k).tx = "idle" /\ Ended(k).local = NoOrg
             /\ Ended(k).pending = 0 /\ Ended(k).session = k.session
  BY <1>1 DEF Ended, Conn
<1>6. QED
  BY <1>2, <1>3, <1>4, <1>5 DEF ConnOK

LEMMA InitInv == Init => IInv
<1> SUFFICES ASSUME Init PROVE IInv
  OBVIOUS
<1>1. TypeOK
  BY ConnStates, PoolAssumption DEF Init, TypeOK, Stages, Mishaps, Holding
<1>2. \A c \in Calls : CallOK(c)
  BY DEF Init, CallOK, Scoped, Outcome
<1>3. QED
  BY <1>1, <1>2, ConnStates DEF Init, IInv

LEMMA StartInv ==
  ASSUME IInv, NEW c \in Calls, Start(c)
  PROVE  IInv'
<1>1. Alone(c) /\ conns' = conns /\ on' = on
  BY DEF Start, GoTo, Alone, IInv, TypeOK
<1>2. stage[c] = "new" /\ stage'[c] \in {"acquire", "returned"}
      /\ (stage'[c] = "returned" => job[c].kind = "Record")
  BY DEF Start, GoTo, IInv, TypeOK
<1>3. Types'
  BY <1>2, KindOf DEF Start, GoTo, Types, Stages, Mishaps
<1>4. CallOK(c)'
  BY <1>2, KindOf DEF Start, CallOK, Scoped, Outcome, Holding
<1>5. QED
  BY <1>1, <1>2, <1>3, <1>4, SameConns DEF Holding

LEMMA AcquireInv ==
  ASSUME IInv, NEW c \in Calls, Acquire(c)
  PROVE  IInv'
<1>1. stage[c] = "acquire" /\ on[c] = NoConn /\ CallOK(c) /\ Types /\ Alone(c)
  BY KindOf DEF Acquire, GoTo, Fails, Alone, Types, Holding
<1>2. CASE /\ Fails(c, "returned") /\ UNCHANGED on
           /\ mishap' = mishap \/ mishap' = [mishap EXCEPT ![c] = "dial"]
  <2>1. Types'
    BY <1>1, <1>2 DEF Acquire, Fails, GoTo, Types, Stages, Mishaps
  <2>2. CallOK(c)'
    BY <1>1, <1>2 DEF Acquire, Fails, GoTo, CallOK, Scoped, Outcome, Types
  <2>3. stage'[c] \notin Holding /\ stage[c] \notin Holding
    BY <1>1, <1>2 DEF Fails, GoTo, Types, Holding
  <2>4. QED
    BY <1>1, <1>2, <2>1, <2>2, <2>3, SameConns DEF Acquire
<1>3. CASE /\ \E k \in Conns \ Used : on' = [on EXCEPT ![c] = k]
           /\ GoTo(c, First(job[c].kind)) /\ UNCHANGED <<result, mishap>>
  <2>1. PICK k \in Conns \ Used : on' = [on EXCEPT ![c] = k]
    BY <1>3
  <2>2. Free(k) /\ k # NoConn /\ on'[c] = k
    BY <1>1, <2>1, PoolAssumption DEF Used, Free, Types
  <2>3. /\ stage'[c] \in {"BEGIN", "query", "Ping", "InsertAuditLog"}
        /\ stage'[c] \in Scoped => job[c].kind = "WithOrgContext" /\ stage'[c] = "BEGIN"
        /\ job[c].kind = "WithOrgContext" => stage'[c] = "BEGIN"
    BY <1>1, <1>3 DEF GoTo, First, Types, Job, Scoped
  <2>4. conns' = conns /\ conns[k].tx = "idle"
    BY <2>2 DEF Acquire, IInv
  <2>5. TypeOK'
    <3>1. Types'
      BY <1>1, <1>3, <2>1, <2>3 DEF Acquire, GoTo, Types, Stages, Mishaps
    <3>2. Apart'
      BY <1>1, <2>1, <2>2, <2>3 DEF IInv, TypeOK, Apart, Alone, Free, Holding
    <3>3. QED
      BY <3>1, <3>2 DEF TypeOK, Types, Apart
  <2>6. CallOK(c)'
    BY <1>1, <2>2, <2>3, <2>4 DEF Acquire, CallOK, HeldOK, K, Outcome
  <2>7. \A d \in Calls \ {c} : CallOK(d)'
    BY <1>1, <2>4, OthersStay
  <2>8. \A l \in Conns : ConnOK(conns'[l]) /\ (Free(l)' => conns'[l].tx = "idle")
    <3> SUFFICES ASSUME NEW l \in Conns, Free(l)' PROVE conns'[l].tx = "idle"
      BY <2>4 DEF IInv
    <3>1. \A d \in Calls \ {c} : on[d] # l
      BY <1>1 DEF Free, Alone
    <3>2. on[c] # l
      BY <1>1, PoolAssumption
    <3>3. QED
      BY <2>4, <3>1, <3>2 DEF IInv, Free
  <2>9. QED
    BY <2>5, <2>6, <2>7, <2>8 DEF IInv
<1>4. QED
  BY <1>2, <1>3 DEF Acquire

(* A statement that a call issues on its connection. *)
LEMMA Held ==
  ASSUME IInv, NEW c \in Calls, stage[c] \in Holding
  PROVE  /\ on[c] # NoConn /\ on[c] \in Conns /\ K(c) \in Conn
         /\ ConnOK(K(c)) /\ HeldOK(c, K(c)) /\ CallOK(c) /\ Types
  BY KindOf

LEMMA BeginInv ==
  ASSUME IInv, NEW c \in Calls, Begin(c)
  PROVE  IInv'
<1>1. /\ stage[c] = "BEGIN" /\ on[c] # NoConn /\ K(c) \in Conn /\ ConnOK(K(c))
      /\ K(c).tx = "idle" /\ CallOK(c) /\ Types
  BY Held DEF Begin, HeldOK, Holding
<1>2. Alone(c) /\ on' = on
  BY <1>1 DEF Begin, GoTo, Fails, Alone, Types
<1>3. CASE Sends(c) /\ Becomes(c, [K(c) EXCEPT !.tx = "open"]) /\ GoTo(c, "set_config")
             /\ UNCHANGED result
  <2> DEFINE k == [K(c) EXCEPT !.tx = "open"]
  <2>1. k \in Conn /\ k.tx = "open" /\ k.alive /\ k.session = NoOrg /\ k.pending = 0
    BY <1>1, <1>3 DEF Conn, ConnOK, Sends
  <2>2. ConnOK(k)
    BY <2>1 DEF ConnOK
  <2>3. Becomes(c, k)
    BY <1>3
  <2> HIDE DEF k
  <2>4. stage'[c] = "set_config" /\ K(c)' = k
    BY <1>1, <1>2, <1>3, <2>3, KindOf DEF GoTo, Becomes, K, Types
  <2>5. Types'
    BY <1>1, <1>2, <1>3, <2>1, <2>3, KindOf DEF Begin, GoTo, Becomes, Types, Stages, Mishaps
  <2>6. CallOK(c)'
    BY <1>1, <1>3, <2>1, <2>4 DEF Begin, CallOK, HeldOK, Scoped, Outcome
  <2>7. QED
    BY <1>1, <1>2, <2>1, <2>2, <2>3, <2>4, <2>5, <2>6, OneConn DEF Holding
<1>4. CASE Fails(c, "Release") /\ UNCHANGED conns
  <2>1. stage'[c] = "Release"
    BY <1>1, <1>4 DEF Fails, GoTo, Types
  <2>2. Types'
    BY <1>1, <1>2, <1>4 DEF Begin, Fails, GoTo, Types, Stages, Mishaps
  <2>3. CallOK(c)'
    BY <1>1, <1>2, <1>4, <2>1 DEF Begin, Fails, CallOK, HeldOK, Scoped, Outcome, K, Types
  <2>4. QED
    BY <1>1, <1>2, <1>4, <2>1, <2>2, <2>3, SameConns DEF Holding
<1>5. QED
  BY <1>3, <1>4 DEF Begin

LEMMA SetConfigInv ==
  ASSUME IInv, NEW c \in Calls, SetConfig(c)
  PROVE  IInv'
<1>1. /\ stage[c] = "set_config" /\ on[c] # NoConn /\ K(c) \in Conn /\ ConnOK(K(c))
      /\ HeldOK(c, K(c)) /\ CallOK(c) /\ Types
      /\ job[c].kind = "WithOrgContext" /\ job[c].org \in Orgs
  <2>1. stage[c] = "set_config" /\ stage[c] \in Holding
    BY DEF SetConfig, Holding
  <2>2. job[c].kind = "WithOrgContext"
    BY <2>1, Held DEF CallOK, Scoped
  <2>3. QED
    BY <2>1, <2>2, Held DEF Types, Job
<1>2. Alone(c) /\ on' = on
  BY <1>1 DEF SetConfig, GoTo, Fails, Alone, Types
<1>3. CASE Sends(c) /\ Becomes(c, [K(c) EXCEPT !.local = job[c].org]) /\ GoTo(c, "fn")
             /\ UNCHANGED result
  <2> DEFINE k == [K(c) EXCEPT !.local = job[c].org]
  <2>1. /\ k \in Conn /\ k.tx = "open" /\ k.alive /\ k.session = NoOrg
        /\ k.local = job[c].org /\ k.pending = inserted[c]
    BY <1>1, <1>3 DEF Conn, ConnOK, HeldOK, Sends
  <2>2. ConnOK(k)
    BY <2>1 DEF ConnOK
  <2>3. Becomes(c, k)
    BY <1>3
  <2> HIDE DEF k
  <2>4. stage'[c] = "fn" /\ K(c)' = k
    BY <1>1, <1>2, <1>3, <2>3, KindOf DEF GoTo, Becomes, K, Types
  <2>5. Types'
    BY <1>1, <1>2, <1>3, <2>1, <2>3, KindOf DEF SetConfig, GoTo, Becomes, Types, Stages, Mishaps
  <2>6. CallOK(c)'
    BY <1>1, <1>3, <2>1, <2>4 DEF SetConfig, CallOK, HeldOK, Scoped, Outcome
  <2>7. QED
    BY <1>1, <1>2, <2>1, <2>2, <2>3, <2>4, <2>5, <2>6, OneConn DEF Holding
<1>4. ASSUME Fails(c, "ROLLBACK")
      PROVE  /\ stage'[c] = "ROLLBACK"
             /\ (on[c] # NoConn => HeldOK(c, K(c)))' => CallOK(c)'
  <2>1. stage'[c] = "ROLLBACK" /\ result'[c] = "error"
    BY <1>1, <1>4 DEF Fails, GoTo, Types
  <2>2. QED
    BY <1>1, <2>1 DEF SetConfig, CallOK, Scoped, Outcome
<1>5. CASE /\ Sends(c) /\ Becomes(c, [K(c) EXCEPT !.tx = "failed"])
           /\ Fails(c, "ROLLBACK")
  <2> DEFINE k == [K(c) EXCEPT !.tx = "failed"]
  <2>1. k \in Conn /\ k.tx = "failed" /\ k.alive /\ k.session = NoOrg
    BY <1>1, <1>5 DEF Conn, ConnOK, Sends
  <2>2. ConnOK(k)
    BY <2>1 DEF ConnOK
  <2>3. Becomes(c, k)
    BY <1>5
  <2> HIDE DEF k
  <2>4. stage'[c] = "ROLLBACK" /\ K(c)' = k
    BY <1>1, <1>2, <1>4, <1>5, <2>3, KindOf DEF Becomes, K, Types
  <2>5. Types'
    BY <1>1, <1>2, <1>5, <2>1, <2>3, KindOf DEF SetConfig, Fails, GoTo, Becomes, Types, Stages, Mishaps
  <2>6. CallOK(c)'
    BY <1>1, <1>4, <1>5, <2>4 DEF SetConfig, HeldOK
  <2>7. QED
    BY <1>1, <1>2, <2>1, <2>2, <2>3, <2>4, <2>5, <2>6, OneConn DEF Holding
<1>6. CASE Fails(c, "ROLLBACK") /\ UNCHANGED conns
  <2>1. Types'
    BY <1>1, <1>2, <1>6 DEF SetConfig, Fails, GoTo, Types, Stages, Mishaps
  <2>2. CallOK(c)'
    BY <1>1, <1>2, <1>4, <1>6 DEF SetConfig, HeldOK, K
  <2>3. QED
    BY <1>1, <1>2, <1>4, <1>6, <2>1, <2>2, SameConns DEF Holding
<1>7. QED
  BY <1>3, <1>5, <1>6 DEF SetConfig

LEMMA InsertInv ==
  ASSUME IInv, NEW c \in Calls, Insert(c)
  PROVE  IInv'
<1>1. /\ stage[c] = "fn" /\ stage[c] \in Holding /\ on[c] # NoConn /\ K(c) \in Conn
      /\ ConnOK(K(c)) /\ HeldOK(c, K(c)) /\ CallOK(c) /\ Types
  BY Held DEF Insert, Holding
<1>2. Alone(c) /\ on' = on /\ stage' = stage /\ job' = job /\ result' = result /\ rows' = rows
      /\ fnErr' = fnErr
  BY <1>1 DEF Insert, Alone, Types
<1>3. CASE /\ Sends(c) /\ K(c).tx = "open" /\ inserted[c] < MaxStatements
           /\ Becomes(c, [K(c) EXCEPT !.pending = @ + 1])
           /\ inserted' = [inserted EXCEPT ![c] = @ + 1]
           /\ UNCHANGED mishap
  <2> DEFINE k == [K(c) EXCEPT !.pending = @ + 1]
  <2>1. inserted[c] + 1 \in 0..MaxStatements /\ K(c).pending = inserted[c]
    BY <1>1, <1>3, PoolAssumption DEF Types, HeldOK, Sends
  <2>2. /\ k \in Conn /\ k.tx = "open" /\ k.alive /\ k.session = NoOrg
        /\ k.local = job[c].org /\ k.pending = inserted[c] + 1
    BY <1>1, <1>3, <2>1 DEF Conn, ConnOK, HeldOK, Sends
  <2>3. ConnOK(k)
    BY <2>2 DEF ConnOK
  <2>4. Becomes(c, k)
    BY <1>3
  <2> HIDE DEF k
  <2>5. K(c)' = k /\ inserted'[c] = inserted[c] + 1
    BY <1>1, <1>2, <1>3, <2>4, KindOf DEF Becomes, K, Types
  <2>6. Types'
    <3>1. inserted' \in [Calls -> 0..MaxStatements]
      BY <1>1, <1>3, <2>1 DEF Types
    <3>2. conns' \in [Conns -> Conn]
      BY <1>1, <2>2, <2>4, KindOf DEF Becomes, Types
    <3>3. QED
      BY <1>1, <1>2, <1>3, <3>1, <3>2 DEF Insert, Types
  <2>7. CallOK(c)'
    BY <1>1, <1>2, <1>3, <2>2, <2>5 DEF CallOK, HeldOK, Scoped, Outcome
  <2>8. QED
    BY <1>1, <1>2, <2>2, <2>3, <2>4, <2>6, <2>7, OneConn
<1>4. CASE /\ mishap' = [mishap EXCEPT ![c] = "statement"]
           /\ IF Sends(c) THEN Becomes(c, [K(c) EXCEPT !.tx = "failed"]) ELSE UNCHANGED conns
           /\ UNCHANGED inserted
  <2>1. mishap'[c] = "statement"
    BY <1>1, <1>4 DEF Types
  <2>2. CASE Sends(c) /\ Becomes(c, [K(c) EXCEPT !.tx = "failed"])
    <3> DEFINE k == [K(c) EXCEPT !.tx = "failed"]
    <3>1. /\ k \in Conn /\ k.tx = "failed" /\ k.alive /\ k.session = NoOrg
          /\ k.local = job[c].org
      BY <1>1, <2>2 DEF Conn, ConnOK, HeldOK, Sends
    <3>2. ConnOK(k)
      BY <3>1 DEF ConnOK
    <3>3. Becomes(c, k)
      BY <2>2
    <3> HIDE DEF k
    <3>4. K(c)' = k
      BY <1>1, <1>2, <3>3, KindOf DEF Becomes, K, Types
    <3>5. Types'
      BY <1>1, <1>2, <1>4, <3>1, <3>3, KindOf DEF Insert, Becomes, Types, Mishaps
    <3>6. CallOK(c)'
      BY <1>1, <1>2, <1>4, <2>1, <3>1, <3>4 DEF CallOK, HeldOK, Scoped, Outcome
    <3>7. QED
      BY <1>1, <1>2, <3>1, <3>2, <3>3, <3>5, <3>6, OneConn
  <2>3. CASE UNCHANGED conns
    <3>1. Types'
      BY <1>1, <1>2, <1>4, <2>3 DEF Insert, Types, Mishaps
    <3>2. CallOK(c)'
      BY <1>1, <1>2, <1>4, <2>1, <2>3 DEF CallOK, HeldOK, Scoped, Outcome, K
    <3>3. QED
      BY <1>1, <1>2, <2>3, <3>1, <3>2, SameConns
  <2>4. QED
    BY <1>4, <2>2, <2>3
<1>5. QED
  BY <1>3, <1>4 DEF Insert

LEMMA FnReturnsInv ==
  ASSUME IInv, NEW c \in Calls, FnReturns(c)
  PROVE  IInv'
<1>1. stage[c] = "fn" /\ stage[c] \in Holding /\ on[c] # NoConn /\ HeldOK(c, K(c))
      /\ CallOK(c) /\ Types
  BY Held DEF FnReturns, Holding
<1>2. Alone(c) /\ stage'[c] = "COMMIT" /\ fnErr'[c] \in {"ok", "error"}
  BY <1>1 DEF FnReturns, GoTo, Alone, Types
<1>3. Types'
  BY <1>1 DEF FnReturns, GoTo, Types, Stages, Mishaps
<1>4. CallOK(c)'
  BY <1>1, <1>2 DEF FnReturns, CallOK, HeldOK, Scoped, Outcome, K
<1>5. QED
  BY <1>1, <1>2, <1>3, <1>4, SameConns DEF FnReturns, Holding

LEMMA CommitInv ==
  ASSUME IInv, NEW c \in Calls, Commit(c)
  PROVE  IInv'
<1>1. /\ stage[c] = "COMMIT" /\ stage[c] \in Holding /\ on[c] # NoConn /\ K(c) \in Conn
      /\ ConnOK(K(c)) /\ HeldOK(c, K(c)) /\ CallOK(c) /\ Types
      /\ job[c].kind = "WithOrgContext" /\ rows[c] = 0 /\ fnErr[c] \in {"ok", "error"}
      /\ inserted[c] \in 0..(MaxStatements + 1)
  <2>1. stage[c] = "COMMIT" /\ stage[c] \in Holding
    BY DEF Commit, Holding
  <2>2. QED
    BY <2>1, Held, PoolAssumption DEF CallOK, Scoped, Types
<1>2. Alone(c) /\ on' = on /\ job' = job /\ inserted' = inserted /\ fnErr' = fnErr
  BY <1>1 DEF Commit, GoTo, Fails, Alone, Types
<1>3. CASE /\ Sends(c) /\ Becomes(c, Ended(K(c)))
           /\ rows' = [rows EXCEPT ![c] = IF K(c).tx = "open" THEN K(c).pending ELSE @]
           /\ result' = [result EXCEPT ![c] = fnErr[c]]
           /\ GoTo(c, "Release") /\ UNCHANGED mishap
  <2> DEFINE k == Ended(K(c))
  <2>1. k \in Conn /\ k.tx = "idle" /\ ConnOK(k)
    BY <1>1, ConnStates
  <2>2. Becomes(c, k)
    BY <1>3
  <2> HIDE DEF k
  <2>3. stage'[c] = "Release" /\ K(c)' = k
    BY <1>1, <1>2, <1>3, <2>2, KindOf DEF GoTo, Becomes, K, Types
  <2>4. K(c).tx = "open" => K(c).pending = inserted[c]
    BY <1>1, <1>3 DEF HeldOK, Sends
  <2>5. /\ rows'[c] = IF K(c).tx = "open" THEN inserted[c] ELSE 0
        /\ result'[c] = fnErr[c]
    BY <1>1, <1>3, <2>4 DEF Types
  <2>6. Types'
    <3>1. rows' \in [Calls -> 0..(MaxStatements + 1)]
      BY <1>1, <1>3, <2>4 DEF Types
    <3>2. conns' \in [Conns -> Conn]
      BY <1>1, <2>1, <2>2, KindOf DEF Becomes, Types
    <3>3. QED
      BY <1>1, <1>2, <1>3, <3>1, <3>2 DEF Commit, GoTo, Types, Stages, Mishaps
  <2>7. Outcome(c)'
    <3>1. K(c).tx # "open" => mishap[c] = "statement"
      BY <1>1, <1>3 DEF HeldOK, Sends, Conn
    <3>2. QED
      BY <1>1, <1>2, <1>3, <2>5, <3>1 DEF Outcome
  <2>8. CallOK(c)'
    BY <1>1, <1>2, <2>1, <2>3, <2>7 DEF CallOK, HeldOK, Scoped
  <2>9. QED
    BY <1>1, <1>2, <2>1, <2>2, <2>3, <2>6, <2>8, OneConn DEF Holding
<1>4. CASE /\ Sends(c) /\ K(c).tx = "open" /\ Becomes(c, Lost)
           /\ rows' = [rows EXCEPT ![c] = K(c).pending]
           /\ mishap' = [mishap EXCEPT ![c] = "commit"]
           /\ Fails(c, "ROLLBACK")
  <2>1. Lost \in Conn /\ Lost.tx = "idle" /\ ~Lost.alive /\ ConnOK(Lost)
    BY ConnStates
  <2>2. stage'[c] = "ROLLBACK" /\ K(c)' = Lost
    BY <1>1, <1>2, <1>4, KindOf DEF Fails, GoTo, Becomes, K, Types
  <2>3. rows'[c] = inserted[c] /\ mishap'[c] = "commit" /\ result'[c] = "error"
    BY <1>1, <1>4 DEF Types, HeldOK, Sends, Fails
  <2>4. Types'
    <3>1. rows' \in [Calls -> 0..(MaxStatements + 1)]
      BY <1>1, <1>4 DEF Types, HeldOK, Sends
    <3>2. conns' \in [Conns -> Conn]
      BY <1>1, <1>4, <2>1, KindOf DEF Becomes, Types
    <3>3. QED
      BY <1>1, <1>2, <1>4, <3>1, <3>2 DEF Commit, Fails, GoTo, Types, Stages, Mishaps
  <2>5. CallOK(c)'
    BY <1>1, <1>2, <2>1, <2>2, <2>3 DEF CallOK, HeldOK, Outcome, Scoped
  <2>6. QED
    BY <1>1, <1>2, <1>4, <2>1, <2>2, <2>4, <2>5, OneConn DEF Holding
<1>5. CASE ~Sends(c) /\ Fails(c, "ROLLBACK") /\ UNCHANGED <<conns, rows, mishap>>
  <2>1. stage'[c] = "ROLLBACK" /\ result'[c] = "error"
    BY <1>1, <1>5 DEF Fails, GoTo, Types
  <2>2. Types'
    BY <1>1, <1>2, <1>5 DEF Commit, Fails, GoTo, Types, Stages, Mishaps
  <2>3. CallOK(c)'
    BY <1>1, <1>2, <1>5, <2>1 DEF CallOK, HeldOK, Outcome, Scoped, K
  <2>4. QED
    BY <1>1, <1>2, <1>5, <2>1, <2>2, <2>3, SameConns DEF Holding
<1>6. QED
  BY <1>3, <1>4, <1>5 DEF Commit

LEMMA RollbackInv ==
  ASSUME IInv, NEW c \in Calls, Rollback(c)
  PROVE  IInv'
<1>1. /\ stage[c] = "ROLLBACK" /\ stage[c] \in Holding /\ on[c] # NoConn /\ K(c) \in Conn
      /\ ConnOK(K(c)) /\ HeldOK(c, K(c)) /\ CallOK(c) /\ Types
  BY Held DEF Rollback, Holding
<1>2. Alone(c) /\ on' = on /\ stage'[c] = "Release"
  BY <1>1 DEF Rollback, GoTo, Alone, Types
<1>3. CASE Becomes(c, Ended(K(c)))
  <2> DEFINE k == Ended(K(c))
  <2>1. k \in Conn /\ k.tx = "idle" /\ ConnOK(k) /\ Becomes(c, k)
    BY <1>1, <1>3, ConnStates
  <2> HIDE DEF k
  <2>2. K(c)' = k
    BY <1>1, <1>2, <2>1, KindOf DEF Becomes, K, Types
  <2>3. conns' \in [Conns -> Conn]
    BY <1>1, <2>1, KindOf DEF Becomes, Types
  <2>4. Types'
    BY <1>1, <2>3 DEF Rollback, GoTo, Types, Stages, Mishaps
  <2>5. CallOK(c)'
    BY <1>1, <1>2, <2>1, <2>2 DEF Rollback, CallOK, HeldOK, Outcome, Scoped
  <2>6. QED
    BY <1>1, <1>2, <2>1, <2>4, <2>5, OneConn DEF Holding
<1>4. CASE UNCHANGED conns
  <2>1. Types'
    BY <1>1, <1>4 DEF Rollback, GoTo, Types, Stages, Mishaps
  <2>2. CallOK(c)'
    BY <1>1, <1>2, <1>4 DEF Rollback, CallOK, HeldOK, Outcome, Scoped, K
  <2>3. QED
    BY <1>1, <1>2, <1>4, <2>1, <2>2, SameConns DEF Holding
<1>5. QED
  BY <1>3, <1>4 DEF Rollback

LEMMA PlainInv ==
  ASSUME IInv, NEW c \in Calls, Query(c) \/ Ping(c) \/ InsertAuditLog(c)
  PROVE  IInv'
<1>1. /\ stage[c] \in {"query", "Ping", "InsertAuditLog"} /\ stage[c] \in Holding
      /\ on[c] # NoConn /\ HeldOK(c, K(c)) /\ CallOK(c) /\ Types
      /\ job[c].kind # "WithOrgContext"
  <2>1. stage[c] \in {"query", "Ping", "InsertAuditLog"} /\ stage[c] \in Holding
    BY DEF Query, Ping, InsertAuditLog, Plain, Holding
  <2>2. QED
    BY <2>1, Held DEF CallOK
<1>2. \E n \in {0, 1} : rows' = rows \/ rows' = [rows EXCEPT ![c] = n]
  BY DEF Query, Ping, InsertAuditLog
<1>3. /\ \E code \in {"ok", "error"} : result' = [result EXCEPT ![c] = code]
      /\ mishap' = mishap \/ mishap' = [mishap EXCEPT ![c] = "refused"]
      /\ GoTo(c, "Release")
      /\ UNCHANGED <<pool, conns, job, on, over, inserted, fnErr>>
  BY DEF Query, Ping, InsertAuditLog, Plain, Fails
<1>4. Alone(c) /\ stage'[c] = "Release"
  BY <1>1, <1>2, <1>3 DEF GoTo, Alone, Types
<1>5. Types'
  <2>1. 0 \in 0..(MaxStatements + 1) /\ 1 \in 0..(MaxStatements + 1)
    BY PoolAssumption
  <2>2. rows' \in [Calls -> 0..(MaxStatements + 1)]
    BY <1>1, <1>2, <2>1 DEF Types
  <2>3. mishap' \in [Calls -> Mishaps]
    BY <1>1, <1>3 DEF Types, Mishaps
  <2>4. QED
    BY <1>1, <1>3, <2>2, <2>3 DEF GoTo, Types, Stages
<1>6. CallOK(c)'
  BY <1>1, <1>3, <1>4 DEF CallOK, HeldOK, Scoped, K
<1>7. QED
  BY <1>1, <1>3, <1>4, <1>5, <1>6, SameConns DEF Holding

LEMMA ReleaseInv ==
  ASSUME IInv, NEW c \in Calls, Release(c)
  PROVE  IInv'
<1>1. /\ stage[c] = "Release" /\ stage[c] \in Holding /\ on[c] # NoConn /\ on[c] \in Conns
      /\ K(c) \in Conn /\ CallOK(c) /\ Types /\ Apart
  BY Held DEF Release, Holding, IInv, TypeOK, Apart
<1>2. /\ \A d \in Calls \ {c} : on'[d] = on[d]
      /\ on'[c] = NoConn /\ stage'[c] = "returned"
      /\ \A d \in Calls \ {c} : on[d] # on[c] /\ stage'[d] = stage[d]
  BY <1>1 DEF Release, GoTo, Types, Apart
<1>3. Alone(c)
  BY <1>2 DEF Release, Alone
<1>4. /\ conns' \in [Conns -> Conn]
      /\ \A k \in Conns \ {on[c]} : conns'[k] = conns[k]
      /\ ConnOK(conns'[on[c]]) /\ conns'[on[c]].tx = "idle"
  <2>1. CASE Becomes(c, Fresh)
    BY <1>1, <2>1, ConnStates DEF Becomes, Types
  <2>2. CASE K(c).alive /\ K(c).tx = "idle" /\ UNCHANGED conns
    BY <1>1, <2>2 DEF K, Types, IInv
  <2>3. QED
    BY <2>1, <2>2 DEF Release
<1>5. Types'
  BY <1>1, <1>4 DEF Release, GoTo, Types, Stages, Mishaps
<1>6. Apart'
  BY <1>1, <1>2, <1>3 DEF Apart, Holding
<1>7. TypeOK'
  BY <1>5, <1>6 DEF TypeOK, Types, Apart
<1>8. CallOK(c)'
  BY <1>1, <1>2 DEF Release, CallOK, Outcome, Scoped
<1>9. \A d \in Calls : CallOK(d)'
  <2>1. \A d \in Calls \ {c} : on[d] # NoConn => conns'[on[d]] = conns[on[d]]
    BY <1>1, <1>2, <1>4 DEF Types
  <2>2. QED
    BY <1>8, <2>1, OthersStay, <1>3
<1>10. \A k \in Conns : ConnOK(conns'[k]) /\ (Free(k)' => conns'[k].tx = "idle")
  <2> SUFFICES ASSUME NEW k \in Conns
               PROVE  ConnOK(conns'[k]) /\ (Free(k)' => conns'[k].tx = "idle")
    OBVIOUS
  <2>1. CASE k = on[c]
    BY <1>4, <2>1
  <2>2. CASE k # on[c]
    BY <1>2, <1>4, <2>2 DEF IInv, Free
  <2>3. QED
    BY <2>1, <2>2
<1>11. QED
  BY <1>7, <1>9, <1>10 DEF IInv

LEMMA BreakInv ==
  ASSUME IInv, NEW k \in Conns, Break(k)
  PROVE  IInv'
<1>1. conns' = [conns EXCEPT ![k] = Lost] /\ UNCHANGED <<pool, rows, callVars>>
  BY DEF Break
<1>2. TypeOK'
  BY <1>1, ConnStates DEF callVars, IInv, TypeOK
<1>3. \A l \in Conns : ConnOK(conns'[l]) /\ (Free(l)' => conns'[l].tx = "idle")
  BY <1>1, ConnStates DEF callVars, IInv, TypeOK, Free
<1>4. ASSUME NEW c \in Calls
      PROVE  CallOK(c)'
  <2>1. CallOK(c)
    BY DEF IInv
  <2>2. CASE on[c] = k
    <3>1. K(c)' = Lost
      BY <1>1, <2>2 DEF callVars, K, IInv, TypeOK
    <3>2. HeldOK(c, Lost)
      BY ConnStates DEF HeldOK
    <3>3. QED
      BY <1>1, <2>1, <3>1, <3>2 DEF callVars, CallOK, HeldOK, Outcome
  <2>3. CASE on[c] # k
    <3>1. on[c] # NoConn => K(c)' = K(c)
      BY <1>1, <2>3 DEF callVars, K, IInv, TypeOK
    <3>2. QED
      BY <1>1, <2>1, <3>1 DEF callVars, CallOK, HeldOK, Outcome
  <2>4. QED
    BY <2>2, <2>3
<1>5. QED
  BY <1>2, <1>3, <1>4 DEF IInv

(* The pool is closed, or a context ends: no connection changes.           *)
LEMMA QuietInv ==
  ASSUME IInv, UNCHANGED <<conns, rows, job, stage, on, inserted, fnErr, result, mishap>>,
         pool' \in {"open", "closing", "closed"}, over' \in [Calls -> BOOLEAN]
  PROVE  IInv'
<1>1. TypeOK'
  BY DEF IInv, TypeOK
<1>2. \A c \in Calls : CallOK(c)'
  BY DEF IInv, CallOK, HeldOK, Outcome, K
<1>3. QED
  BY <1>1, <1>2 DEF IInv, Free

LEMMA StepInv == IInv /\ [Next]_vars => IInv'
<1> SUFFICES ASSUME IInv, [Next]_vars PROVE IInv'
  OBVIOUS
<1>1. pool \in {"open", "closing", "closed"} /\ over \in [Calls -> BOOLEAN]
  BY DEF IInv, TypeOK
<1>2. ASSUME NEW c \in Calls, Step(c) \/ Insert(c)
      PROVE  IInv'
  BY <1>2, StartInv, AcquireInv, BeginInv, SetConfigInv, InsertInv, FnReturnsInv, CommitInv,
     RollbackInv, PlainInv, ReleaseInv DEF Step
<1>3. ASSUME NEW c \in Calls, ContextEnds(c)
      PROVE  IInv'
  BY <1>1, <1>3, QuietInv DEF ContextEnds
<1>4. CASE Close
  BY <1>1, <1>4, QuietInv DEF Close, callVars
<1>5. CASE UNCHANGED vars
  BY <1>1, <1>5, QuietInv DEF vars, callVars
<1>6. QED
  BY <1>2, <1>3, <1>4, <1>5, BreakInv DEF Next

(* TypeOK, strengthened by what every call and connection is in.           *)
THEOREM InvHolds == Spec => []IInv
  BY InitInv, StepInv, PTL DEF Spec

-----------------------------------------------------------------------------
(* Every variable keeps its type, and calls do not share connections. *)
THEOREM TypeCorrect == Spec => []TypeOK
<1>1. IInv => TypeOK
  BY DEF IInv
<1>2. QED
  BY <1>1, InvHolds, PTL

(* A callback runs in a transaction that is its organisation's             *)
(* (org_context.go:31).                                                    *)
THEOREM Scopes == Spec => []CallbackIsScoped
<1>1. IInv => CallbackIsScoped
  <2> SUFFICES ASSUME IInv, NEW c \in Calls, stage[c] = "fn", K(c).alive
               PROVE  K(c).tx # "idle" /\ Setting(K(c)) = job[c].org
    BY DEF CallbackIsScoped
  <2>1. HeldOK(c, K(c)) /\ CallOK(c) /\ Types
    BY Held DEF Holding
  <2>2. job[c].org \in Orgs
    BY <2>1 DEF CallOK, Scoped, Types, Job
  <2>3. QED
    BY <2>1, <2>2, PoolAssumption DEF HeldOK, Setting
<1>2. QED
  BY <1>1, InvHolds, PTL

(* No organisation's setting is met by anybody else who is given the       *)
(* connection (org_context.go:14).                                         *)
THEOREM Contained == Spec => []NoContextLeaks
<1>1. IInv => NoContextLeaks
  <2> SUFFICES ASSUME IInv PROVE NoContextLeaks
    OBVIOUS
  <2>1. ASSUME NEW k \in Conns \ Used
        PROVE  conns[k].tx = "idle" /\ Setting(conns[k]) = NoOrg
    <3>1. Free(k)
      BY PoolAssumption DEF Free, Used
    <3>2. QED
      BY <3>1 DEF IInv, ConnOK, Setting
  <2>2. ASSUME NEW c \in Calls, job[c].kind # "WithOrgContext", on[c] # NoConn
        PROVE  Setting(K(c)) = NoOrg
    BY <2>2, KindOf DEF HeldOK, ConnOK, Setting
  <2>3. QED
    BY <2>1, <2>2 DEF NoContextLeaks
<1>2. QED
  BY <1>1, InvHolds, PTL

(* What WithOrgContext returns is what became of its callback's rows,      *)
(* whatever failed on the way (org_context.go:36).                         *)
THEOREM Reports == Spec => []ReportsTruly
<1>1. IInv => ReportsTruly
  BY DEF IInv, CallOK, Outcome, ReportsTruly
<1>2. QED
  BY <1>1, InvHolds, PTL

(* What it takes to lose the entry of c in a step.                         *)
LossExplained(c) ==
  \/ pool # "open"
  \/ on[c] # NoConn /\ ~K(c).alive
  \/ mishap'[c] \in {"dial", "refused"}

LEMMA AuditStep ==
  ASSUME IInv, [Next]_vars, NEW c \in Calls,
         job[c].kind = "Record", result'[c] = "error", result[c] # "error"
  PROVE  LossExplained(c)
<1>1. ~Over(c) /\ Types /\ CallOK(c)
  BY KindOf DEF Over
<1>2. stage[c] \notin Scoped
  BY <1>1 DEF CallOK
<1>3. ASSUME NEW d \in Calls, d # c, Step(d) \/ Insert(d) \/ ContextEnds(d)
      PROVE  FALSE
  <2>1. result'[c] = result[c]
    BY <1>1, <1>3
    DEF Step, Start, Acquire, Begin, SetConfig, Insert, FnReturns, Commit, Rollback, Query, Ping,
        InsertAuditLog, Plain, Release, ContextEnds, Fails, Types
  <2>2. QED
    BY <2>1
<1>4. CASE Step(c) \/ Insert(c) \/ ContextEnds(c)
  <2>1. CASE Acquire(c)
    BY <1>1, <2>1 DEF Acquire, LossExplained, Types
  <2>2. CASE Query(c) \/ Ping(c) \/ InsertAuditLog(c)
    <3>1. stage[c] \in Holding /\ (Sends(c) => mishap'[c] = "refused")
      BY <1>1, <2>2 DEF Query, Ping, InsertAuditLog, Plain, Types, Holding
    <3>2. QED
      BY <1>1, <3>1, KindOf DEF Sends, LossExplained
  <2>3. CASE UNCHANGED result
    BY <2>3
  <2>4. CASE Begin(c) \/ SetConfig(c) \/ Commit(c)
    BY <1>2, <2>4 DEF Begin, SetConfig, Commit, Scoped
  <2>5. QED
    BY <1>4, <2>1, <2>2, <2>3, <2>4
    DEF Step, Start, Insert, FnReturns, Rollback, Release, ContextEnds
<1>5. CASE UNCHANGED result
  BY <1>5
<1>6. QED
  BY <1>3, <1>4, <1>5 DEF Next, Break, Close, callVars, vars

(* The end of a request does not take its audit entry with it: an insert   *)
(* fails for the end of the pool, for its connection, or because PostgreSQL*)
(* refuses it, in the goroutine that Record leaves behind (logger.go:38).  *)
THEOREM AuditSurvives == Spec => AuditOutlivesRequest
<1>1. ASSUME IInv, [Next]_vars
      PROVE  \A c \in Calls :
               job[c].kind = "Record" /\ result'[c] = "error" /\ result[c] # "error" =>
                 LossExplained(c)
  BY <1>1, AuditStep
<1>2. QED
  BY <1>1, InvHolds, PTL DEF Spec, AuditOutlivesRequest, LossExplained
=============================================================================
