----------------------------- MODULE AuditProofs -----------------------------
(***************************************************************************)
(* The pool runs out only in a crowd, whatever its size and whatever the    *)
(* requests before did: no connection leaks and no session holds two.  So   *)
(* with fewer requests at once the audit is written, whoever can be         *)
(* answered is, and an outage is never a 500.                               *)
(***************************************************************************)
EXTENDS SearchApiProofs, FiniteSetTheorems

-----------------------------------------------------------------------------
(***************************************************************************)
(* Only so many requests are in flight                                      *)
(***************************************************************************)

ActInv == IsFiniteSet(Active)

\* Every step adds at most the request it is of.
THEOREM ActiveIsFinite == Spec => []ActInv
<1>1. Init => ActInv
  <2>1. Init => Active = {}
    BY DEF Init, Active, InFlight
  <2>2. QED
    BY <2>1, FS_EmptySet DEF ActInv
<1>2. TypeOK /\ ActInv /\ [Next]_vars => ActInv'
  <2>. SUFFICES ASSUME TypeOK, ActInv, [Next]_vars PROVE IsFiniteSet(Active')
    BY DEF ActInv
  <2>0. \A x : IsFiniteSet(Active \cup {x})
    BY FS_AddElement DEF ActInv
  <2>1. ASSUME NEW q \in Requests, RequestStep(q) PROVE IsFiniteSet(Active')
    <3>1. Active' \subseteq Active \cup {q}
      BY <2>1, OthersKeep DEF Active, InFlight
    <3>2. QED
      BY <2>0, <3>1, FS_Subset
  <2>2. CASE DbStops \/ DbHangs \/ DbRecovers \/ UNCHANGED vars
    <3>1. Active' = Active
      BY <2>2, EnvironmentKeeps DEF Active, InFlight, vars
    <3>2. QED
      BY <3>1 DEF ActInv
  <2>3. CASE Crash
    <3>1. Active' = {}
      BY <2>3, CrashKeeps DEF Active, InFlight
    <3>2. QED
      BY <3>1, FS_EmptySet
  <2>4. QED
    BY <2>1, <2>2, <2>3 DEF Next, RequestStep
<1>3. QED
  BY <1>1, <1>2, Typing, PTL DEF Spec

-----------------------------------------------------------------------------
(***************************************************************************)
(* A full pool is a crowd                                                   *)
(***************************************************************************)

LEMMA TwoSessions == IsFiniteSet(Sessions) /\ Cardinality(Sessions) = 2
<1>1. IsFiniteSet({"main"}) /\ Cardinality({"main"}) = 1
  BY FS_Singleton
<1>2. IsFiniteSet({"main"} \cup {"audit"}) /\ Cardinality({"main"} \cup {"audit"}) = 2
  BY <1>1, FS_AddElement
<1>3. Sessions = {"main"} \cup {"audit"}
  BY DEF Sessions
<1>4. QED
  BY <1>2, <1>3

\* The sessions that may hold a connection while one of them holds none.
LEMMA OtherSessions ==
  ASSUME ActInv, ~Crowded, NEW r \in Active, NEW s \in Sessions
  PROVE  LET others == (Active \X Sessions) \ {<<r, s>>}
         IN  IsFiniteSet(others) /\ Cardinality(others) < Cardinality(Slots)
<1>. DEFINE all == Active \X Sessions
<1>0. Cardinality(Active) \in Nat /\ Cardinality(Slots) \in Nat
  BY FS_CardinalityType, SlotsAssumption DEF ActInv
<1>1. IsFiniteSet(all) /\ Cardinality(all) = 2 * Cardinality(Active)
  <2>1. IsFiniteSet(all) /\ Cardinality(all) = Cardinality(Active) * Cardinality(Sessions)
    BY TwoSessions, FS_Product DEF ActInv
  <2>2. QED
    BY <1>0, <2>1, TwoSessions
<1>2. <<r, s>> \in all
  OBVIOUS
<1>. HIDE DEF all
<1>3. IsFiniteSet(all \ {<<r, s>>}) /\ Cardinality(all \ {<<r, s>>}) = Cardinality(all) - 1
  BY <1>1, <1>2, FS_RemoveElement
<1>4. Cardinality(all \ {<<r, s>>}) < Cardinality(Slots)
  BY <1>0, <1>1, <1>3 DEF Crowded
<1>5. QED
  BY <1>3, <1>4 DEF all

\* While a session is without a connection and there is no crowd, the pool has
\* one: were all of them held, two would be in the same hands.
LEMMA FullPoolIsACrowd ==
  ASSUME ActInv, TypeOK, PoolInv, NEW r \in Active, Mine(r) = NoSlot, Slots \subseteq Held
  PROVE  Crowded
<1>. SUFFICES ASSUME ~Crowded PROVE FALSE
  OBVIOUS
<1>. DEFINE others == (Active \X Sessions) \ {<<r, session[r]>>}
            holder == [c \in Slots |-> CHOOSE p \in others : conn[p[1]][p[2]] = c]
<1>1. session[r] \in Sessions
  BY DEF TypeOK, Active
<1>2. ASSUME NEW c \in Slots
      PROVE  \E p \in others : conn[p[1]][p[2]] = c
  <2>1. c # NoSlot
    BY NoSlotAssumption
  <2>2. PICK q \in Requests, s \in Sessions : conn[q][s] = c
    BY DEF Held
  <2>3. q \in Active
    BY <2>1, <2>2 DEF PoolInv, PoolAccounted, Active
  <2>4. <<q, s>> # <<r, session[r]>>
    BY <2>1, <2>2 DEF Mine
  <2>5. <<q, s>> \in others
    BY <2>3, <2>4
  <2>6. QED
    BY <2>2, <2>5
<1>3. \A c \in Slots : holder[c] \in others /\ conn[holder[c][1]][holder[c][2]] = c
  BY <1>2
<1>4. holder \in [Slots -> others]
  BY <1>3
<1>5. IsFiniteSet(others) /\ Cardinality(others) < Cardinality(Slots) /\ IsFiniteSet(Slots)
  BY <1>1, OtherSessions, SlotsAssumption
<1>. HIDE DEF holder, others
<1>6. PICK c \in Slots, d \in Slots : c # d /\ holder[c] = holder[d]
  BY <1>4, <1>5, FS_PigeonHole
<1>7. QED
  BY <1>3, <1>6

-----------------------------------------------------------------------------
(***************************************************************************)
(* Nobody asks the pool with a connection in hand                           *)
(***************************************************************************)

EmptyHands(r) ==
  /\ pc[r] = "checkout" => Mine(r) = NoSlot
  /\ session[r] = "main" => conn[r]["audit"] = NoSlot

\* A step of a request keeps its own hands empty until it gets a connection.
LEMMA HandsStep ==
  ASSUME TypeOK, TypeOK', NEW q \in Requests, ControlInv(q), PoolInv, EmptyHands(q), RequestStep(q)
  PROVE  EmptyHands(q)'
<1>. USE DEF TypeOK, poolVars
<1>1. CASE Accept(q)
  <2>1. \A s \in Sessions : conn'[q][s] = NoSlot
    BY <1>1 DEF Accept, Arrive, PoolInv, PoolAccounted, InFlight
  <2>2. QED
    BY <2>1 DEF EmptyHands, Mine, Sessions
<1>2. CASE Query(q)
  <2>1. session[q] = "main" /\ conn'[q]["audit"] = NoSlot
    BY <1>2 DEF Query, ControlInv, EmptyHands
  <2>2. pc'[q] = "checkout" => session'[q] = "audit"
    BY <1>2 DEF Query
  <2>3. QED
    BY <2>1, <2>2 DEF EmptyHands, Mine
<1>3. CASE Checkout(q)
  BY <1>3 DEF Checkout, EmptyHands, Mine, Sessions
<1>4. CASE ~(Accept(q) \/ Query(q) \/ Checkout(q))
  <2>1. \A s \in Sessions : conn'[q][s] \in {conn[q][s], NoSlot}
    BY <1>4, ConnStep
  <2>2. session'[q] = session[q]
    BY <1>4 DEF RequestStep, Handle, Refuse, PoolTimeout, Connect, ConnectFails, QueryRejected, Ping,
           Commit, CommitRejected, Ack, ConnectionLost, Guard, Respond, Close, Unwind, OrphanCommits,
           OrphanDropped
  <2>3. pc'[q] # "checkout" \/ pc'[q] = pc[q]
    <3>1. CASE Ack(q) \/ Guard(q)
      BY <3>1, ConcludeFacts DEF Ack, Guard, Rollback
    <3>2. CASE Refuse(q)
      BY <3>2, RaiseFacts DEF Refuse, Arrive
    <3>3. CASE PoolTimeout(q)
      BY <3>3, FailFacts DEF PoolTimeout
    <3>4. CASE ConnectFails(q)
      BY <3>4, FailFacts DEF ConnectFails
    <3>5. CASE ConnectionLost(q)
      BY <3>5, FailFacts DEF ConnectionLost
    <3>6. CASE QueryRejected(q)
      BY <3>6, RaiseFacts DEF QueryRejected
    <3>7. CASE Ping(q)
      BY <3>7, RaiseFacts DEF Ping
    <3>8. QED
      BY <1>4, <3>1, <3>2, <3>3, <3>4, <3>5, <3>6, <3>7
         DEF RequestStep, Handle, Connect, Commit, CommitRejected, Respond, Close, Unwind,
             OrphanCommits, OrphanDropped
  <2>4. QED
    BY <2>1, <2>2, <2>3 DEF EmptyHands, Mine, Sessions
<1>5. QED
  BY <1>1, <1>2, <1>3, <1>4

HandsInv == \A r \in Requests : EmptyHands(r)

\* A session asks for a connection only when it has none.
THEOREM HandsInvariant == Spec => []HandsInv
<1>1. Init => HandsInv
  BY DEF Init, HandsInv, EmptyHands, Sessions
<1>2. TypeOK /\ TypeOK' /\ CtlInv /\ PoolInv /\ HandsInv /\ [Next]_vars => HandsInv'
  <2>. SUFFICES ASSUME TypeOK, TypeOK', CtlInv, PoolInv, HandsInv, [Next]_vars, NEW r \in Requests
                PROVE  EmptyHands(r)'
    BY DEF HandsInv
  <2>0. EmptyHands(r) /\ ControlInv(r)
    BY DEF HandsInv, CtlInv
  <2>1. ASSUME NEW q \in Requests, RequestStep(q) PROVE EmptyHands(r)'
    <3>1. CASE q = r
      BY <2>0, <2>1, <3>1, HandsStep
    <3>2. CASE q # r
      BY <2>0, <2>1, <3>2, OthersKeep DEF EmptyHands, Mine
    <3>3. QED
      BY <3>1, <3>2
  <2>2. CASE DbStops \/ DbHangs \/ DbRecovers
    BY <2>0, <2>2, EnvironmentKeeps DEF EmptyHands, Mine
  <2>3. CASE Crash
    BY <2>0, <2>3, CrashKeeps DEF EmptyHands, Mine, Sessions
  <2>4. CASE UNCHANGED vars
    BY <2>0, <2>4 DEF vars, EmptyHands, Mine
  <2>5. QED
    BY <2>1, <2>2, <2>3, <2>4 DEF Next, RequestStep
<1>3. QED
  BY <1>1, <1>2, Typing, ControlInvariant, PoolInvariant, PTL DEF Spec

-----------------------------------------------------------------------------
(***************************************************************************)
(* What decides and what fails a request                                    *)
(***************************************************************************)

\* What the steps below rely on, of every reachable state.
Reached == /\ TypeOK /\ CtlInv /\ PoolInv /\ WthInv /\ HandsInv /\ ActInv

LEMMA AlwaysReached == Spec => []Reached
<1>1. TypeOK /\ CtlInv /\ PoolInv /\ WthInv /\ HandsInv /\ ActInv => Reached
  BY DEF Reached
<1>2. QED
  BY <1>1, Typing, ControlInvariant, PoolInvariant, WeatherInvariant, HandsInvariant, ActiveIsFinite, PTL

\* A session that waits for the pool in vain waits in a crowd.
LEMMA TimeoutInACrowd ==
  ASSUME Reached, NEW q \in Requests, PoolTimeout(q)
  PROVE  Crowded
<1>1. q \in Active /\ Slots \subseteq Held
  BY DEF PoolTimeout, Active, InFlight
<1>2. Mine(q) = NoSlot
  BY DEF PoolTimeout, Reached, HandsInv, EmptyHands
<1>3. QED
  BY <1>1, <1>2, FullPoolIsACrowd DEF Reached

\* The database fails nobody while it is up.
LEMMA LostInBadWeather ==
  ASSUME Reached, NEW q \in Requests, ConnectFails(q) \/ ConnectionLost(q)
  PROVE  weather[q] # "clear"
<1>1. WeatherInv(q)
  BY DEF Reached, WthInv
<1>2. QED
  BY <1>1 DEF ConnectFails, ConnectionLost, WeatherInv, InFlight

\* The four ways into _write's except branch: an exhausted pool, a refused
\* connection, a lost one, a row that cannot be stored.
LEMMA WaysToGuard ==
  ASSUME TypeOK, NEW q \in Requests, RequestStep(q), pc'[q] = "guard", pc[q] # "guard"
  PROVE  PoolTimeout(q) \/ ConnectFails(q) \/ ConnectionLost(q) \/ CommitRejected(q)
<1>1. ~(Ack(q) \/ Guard(q))
  BY ConcludeFacts DEF Ack, Guard, Rollback
<1>2. ~(Refuse(q) \/ QueryRejected(q) \/ Ping(q))
  BY RaiseFacts DEF Refuse, QueryRejected, Ping
<1>. USE DEF TypeOK
<1>3. ~(OrphanCommits(q) \/ OrphanDropped(q))
  BY DEF OrphanCommits, OrphanDropped
<1>4. ~(Accept(q) \/ Checkout(q) \/ Query(q) \/ Respond(q) \/ Close(q) \/ Unwind(q))
  BY DEF Accept, Checkout, Query, Respond, Close, Unwind
<1>5. ~(Connect(q) \/ Commit(q))
  BY DEF Connect, Commit
<1>6. QED
  BY <1>1, <1>2, <1>3, <1>4, <1>5 DEF RequestStep, Handle

\* Only these steps change what is decided for a request, and this is how.
LEMMA WaysToDecide ==
  ASSUME Reached, NEW q \in Requests, RequestStep(q), outcome'[q] # outcome[q]
  PROVE  \/ Refuse(q)
         \/ PoolTimeout(q)
         \/ ConnectFails(q) /\ outcome'[q] = 503
         \/ ConnectionLost(q) /\ outcome'[q] = 503
         \/ QueryRejected(q)
         \/ (Ping(q) \/ Ack(q) \/ Guard(q)) /\ outcome'[q] = Answer(q) /\ outcome'[q] # 500
<1>. USE DEF Reached
<1>1. CASE ConnectFails(q) \/ ConnectionLost(q)
  BY <1>1, FailFacts DEF ConnectFails, ConnectionLost, Unavailable
<1>2. CASE Ping(q)
  BY <1>2, RaiseFacts DEF Ping, Answer
<1>3. CASE Ack(q) \/ Guard(q)
  <2>1. outcome'[q] = Verdict(q)
    BY <1>3, ConcludeFacts DEF Ack, Guard, Rollback
  <2>2. IsSearch(q)
    BY <1>3 DEF Ack, Guard, CtlInv, ControlInv
  <2>3. QED
    BY <1>3, <2>1, <2>2 DEF Answer, Verdict
<1>4. ~UNCHANGED outcome
  OBVIOUS
<1>5. QED
  BY <1>1, <1>2, <1>3, <1>4
     DEF RequestStep, Handle, Accept, Checkout, Connect, Query, Commit, CommitRejected, Respond, Close,
         Unwind, OrphanCommits, OrphanDropped

\* A step of the database or a crash decides nothing and fails no audit write.
LEMMA EnvironmentDecidesNothing ==
  ASSUME TypeOK, DbStops \/ DbHangs \/ DbRecovers \/ Crash \/ UNCHANGED vars, NEW r \in Requests
  PROVE  outcome'[r] = outcome[r] /\ (pc'[r] = pc[r] \/ pc'[r] # "guard")
BY EnvironmentKeeps, CrashKeeps DEF vars

-----------------------------------------------------------------------------
(***************************************************************************)
(* The theorems                                                             *)
(***************************************************************************)

\* "Audit is always written when possible" (tests/test_error_paths.py:83): in a
\* pool of any size, rows that can be stored are given up in fair weather only
\* while more than half as many requests as connections are in flight.
THEOREM AuditLostOnlyInACrowdHolds == Spec => AuditLostOnlyInACrowd
<1>1. Reached /\ [Next]_vars =>
        [\A r \in Requests :
           (weather[r] = "clear" /\ Storable(r) /\ pc[r] # "guard" /\ pc'[r] = "guard")
             => Crowded]_vars
  <2>. SUFFICES ASSUME Reached, [Next]_vars, NEW r \in Requests,
                       weather[r] = "clear", Storable(r), pc[r] # "guard", pc'[r] = "guard"
                PROVE  Crowded
    OBVIOUS
  <2>0. TypeOK
    BY DEF Reached
  <2>1. ASSUME NEW q \in Requests, RequestStep(q) PROVE Crowded
    <3>1. q = r
      BY <2>0, <2>1, OthersKeep
    <3>2. PoolTimeout(r) \/ ConnectFails(r) \/ ConnectionLost(r) \/ CommitRejected(r)
      BY <2>0, <2>1, <3>1, WaysToGuard
    <3>3. ~CommitRejected(r)
      BY DEF CommitRejected
    <3>4. QED
      BY <3>2, <3>3, TimeoutInACrowd, LostInBadWeather
  <2>2. ~(DbStops \/ DbHangs \/ DbRecovers \/ Crash \/ UNCHANGED vars)
    BY <2>0, EnvironmentDecidesNothing
  <2>3. QED
    BY <2>1, <2>2 DEF Next, RequestStep
<1>2. QED
  BY <1>1, AlwaysReached, PTL DEF Spec, AuditLostOnlyInACrowd

\* In a pool of any size whoever can be answered in fair weather is, unless more
\* than half as many requests as connections are in flight.
THEOREM FailsOnlyInACrowdHolds == Spec => FailsOnlyInACrowd
<1>1. Reached /\ [Next]_vars =>
        [\A r \in Requests :
           (weather[r] = "clear" /\ Answerable(r) /\ outcome'[r] # outcome[r])
             => outcome'[r] = Answer(r) \/ Crowded]_vars
  <2>. SUFFICES ASSUME Reached, [Next]_vars, NEW r \in Requests,
                       weather[r] = "clear", Answerable(r), outcome'[r] # outcome[r]
                PROVE  outcome'[r] = Answer(r) \/ Crowded
    OBVIOUS
  <2>0. TypeOK /\ ControlInv(r)
    BY DEF Reached, CtlInv
  <2>1. ASSUME NEW q \in Requests, RequestStep(q) PROVE outcome'[r] = Answer(r) \/ Crowded
    <3>1. q = r
      BY <2>0, <2>1, OthersKeep
    <3>2. ~Refuse(r)
      BY DEF Refuse, Answerable
    <3>3. ~QueryRejected(r)
      <4>. SUFFICES ASSUME QueryRejected(r) PROVE FALSE
        OBVIOUS
      <4>1. Len(found[r]) + 1 \in DOMAIN input[r].apps
        BY <2>0, SequenceFacts DEF QueryRejected, ControlInv, Answerable
      <4>2. QED
        BY <4>1 DEF QueryRejected, Rejected, NextApp, Answerable
    <3>4. QED
      BY <2>1, <3>1, <3>2, <3>3, WaysToDecide, TimeoutInACrowd, LostInBadWeather
  <2>2. ~(DbStops \/ DbHangs \/ DbRecovers \/ Crash \/ UNCHANGED vars)
    BY <2>0, EnvironmentDecidesNothing
  <2>3. QED
    BY <2>1, <2>2 DEF Next, RequestStep
<1>2. QED
  BY <1>1, AlwaysReached, PTL DEF Spec, FailsOnlyInACrowd

\* "A DB connection failure is 503, never a 500" (main.py:28): in a pool of any
\* size a request that never saw the database up answers 500 only while more
\* than half as many requests as connections are in flight.
THEOREM Dark500OnlyInACrowdHolds == Spec => Dark500OnlyInACrowd
<1>1. Reached /\ [Next]_vars =>
        [\A r \in Requests :
           (InFlight(r) /\ weather[r] = "dark" /\ outcome[r] # 500 /\ outcome'[r] = 500)
             => Crowded]_vars
  <2>. SUFFICES ASSUME Reached, [Next]_vars, NEW r \in Requests, InFlight(r),
                       weather[r] = "dark", outcome[r] # 500, outcome'[r] = 500
                PROVE  Crowded
    OBVIOUS
  <2>0. TypeOK /\ WeatherInv(r)
    BY DEF Reached, WthInv
  <2>1. ASSUME NEW q \in Requests, RequestStep(q) PROVE Crowded
    <3>1. q = r
      BY <2>0, <2>1, OthersKeep
    <3>2. ~Refuse(r)
      BY DEF Refuse, Arrive, InFlight
    <3>3. ~QueryRejected(r)
      BY <2>0 DEF QueryRejected, Reaches, WeatherInv
    <3>4. QED
      BY <2>1, <3>1, <3>2, <3>3, WaysToDecide, TimeoutInACrowd
  <2>2. ~(DbStops \/ DbHangs \/ DbRecovers \/ Crash \/ UNCHANGED vars)
    BY <2>0, EnvironmentDecidesNothing
  <2>3. QED
    BY <2>1, <2>2 DEF Next, RequestStep
<1>2. QED
  BY <1>1, AlwaysReached, PTL DEF Spec, Dark500OnlyInACrowd
=============================================================================
