-------------------------- MODULE SearchApiProofs --------------------------
(***************************************************************************)
(* Theorems about the request path for any number of requests, any pool,    *)
(* any inputs and any number of outages and crashes.                        *)
(***************************************************************************)
EXTENDS SearchApiProperties, Integers, TLAPS

-----------------------------------------------------------------------------
(***************************************************************************)
(* Type correctness                                                         *)
(***************************************************************************)

ConnType    == [Requests -> [Sessions -> Slots \cup {NoSlot}]]
OutcomeType == [Requests -> {NoStatus} \cup Statuses]
FoundType   == [Requests -> Seq([app : Apps, count : Nat])]

\* What an exception that leaves the endpoint does to the types.
LEMMA RaiseTyping ==
  ASSUME TypeOK, NEW r \in Requests, NEW status \in {NoStatus} \cup Statuses,
         Raise(r, status)
  PROVE  pc' \in [Requests -> Phases] /\ outcome' \in OutcomeType
  BY DEF Raise, TypeOK, Phases, OutcomeType

\* The same for a failing step of either session.
LEMMA FailTyping ==
  ASSUME TypeOK, NEW r \in Requests, NEW status \in {NoStatus} \cup Statuses,
         Fail(r, status)
  PROVE  pc' \in [Requests -> Phases] /\ outcome' \in OutcomeType
<1>1. CASE Raise(r, status)
  BY <1>1, RaiseTyping
<1>2. CASE pc' = [pc EXCEPT ![r] = "guard"] /\ UNCHANGED outcome
  BY <1>2 DEF TypeOK, Phases, OutcomeType
<1>3. QED
  BY <1>1, <1>2 DEF Fail

\* The same for the end of the audit write.
LEMMA ConcludeTyping ==
  ASSUME TypeOK, NEW r \in Requests, Conclude(r)
  PROVE  pc' \in [Requests -> Phases] /\ outcome' \in OutcomeType
<1>1. CASE Raise(r, 403)
  BY <1>1, RaiseTyping DEF Statuses
<1>2. CASE outcome' = [outcome EXCEPT ![r] = 200] /\ pc' = [pc EXCEPT ![r] = "respond"]
  BY <1>2 DEF TypeOK, Phases, Statuses, OutcomeType
<1>3. QED
  BY <1>1, <1>2 DEF Conclude

\* Taking and returning connections keeps conn a function of its type.
LEMMA ConnTyping ==
  ASSUME TypeOK, NEW r \in Requests, NEW s \in Sessions, NEW c \in Slots \cup {NoSlot}
  PROVE  /\ [conn EXCEPT ![r][s] = c] \in ConnType
         /\ [conn EXCEPT ![r] = [x \in Sessions |-> NoSlot]] \in ConnType
  BY DEF TypeOK, ConnType

\* An element of a sequence over S is in S.
LEMMA ElementOfASeq ==
  ASSUME NEW S, NEW seq \in Seq(S), NEW i \in DOMAIN seq
  PROVE  seq[i] \in S
  OBVIOUS

\* The audit rows of a request fit the table.
LEMMA RowTyping ==
  ASSUME TypeOK, NEW r \in Requests
  PROVE  AuditRows(r) \subseteq RowType
<1>1. input[r].origin \in Apps
  BY DEF TypeOK, InputType
<1>2. DeniedRow(r) \in RowType
  <2>1. <<>> \in Seq(Nat)
    OBVIOUS
  <2>2. QED
    BY <1>1, <2>1 DEF DeniedRow, RowType
<1>3. ASSUME NEW i \in DOMAIN found[r]
      PROVE  OkRow(r, found[r][i].app, found[r][i].count) \in RowType
  <2>1. found[r][i] \in [app : Apps, count : Nat]
    BY <1>3, ElementOfASeq DEF TypeOK
  <2>2. <<found[r][i].count>> \in Seq(Nat)
    BY <2>1
  <2>3. QED
    BY <1>1, <2>1, <2>2 DEF OkRow, RowType
<1>4. QED
  BY <1>2, <1>3 DEF AuditRows

\* The statuses the handlers produce.
LEMMA StatusFacts ==
  /\ 200 \in {NoStatus} \cup Statuses
  /\ 500 \in {NoStatus} \cup Statuses
  /\ \A r \in Requests : Unavailable(r) \in {NoStatus} \cup Statuses
  BY DEF Statuses, Unavailable

\* Every reachable state has the declared types.
THEOREM Typing == Spec => []TypeOK
<1>1. Init => TypeOK
  <2>. SUFFICES ASSUME Init PROVE TypeOK
    OBVIOUS
  <2>1. input \in [Requests -> InputType]
    BY InputsAssumption DEF Init
  <2>2. found \in [Requests -> Seq([app : Apps, count : Nat])]
    BY DEF Init
  <2>3. QED
    BY <2>1, <2>2 DEF Init, TypeOK, Phases, Sessions
<1>2. TypeOK /\ [Next]_vars => TypeOK'
  <2>. SUFFICES ASSUME TypeOK, [Next]_vars
                PROVE  TypeOK'
    OBVIOUS
  <2>. USE DEF dbVars, poolVars, auditVars, ConnType, OutcomeType
  <2>1. ASSUME NEW r \in Requests, Refuse(r) PROVE TypeOK'
    <3>1. input[r].refused \in {NoStatus} \cup Statuses
      BY DEF TypeOK, InputType, Statuses
    <3>2. weather' \in [Requests -> {"clear", "mixed", "dark"}]
      BY <2>1 DEF Refuse, Arrive, TypeOK
    <3>3. QED
      BY <2>1, <3>1, <3>2, RaiseTyping DEF Refuse, Arrive, TypeOK
  <2>2. ASSUME NEW r \in Requests, Accept(r) PROVE TypeOK'
    <3>1. weather' \in [Requests -> {"clear", "mixed", "dark"}]
      BY <2>2 DEF Accept, Arrive, TypeOK
    <3>2. session' \in [Requests -> Sessions]
      BY <2>2 DEF Accept, TypeOK, Sessions
    <3>3. pc' \in [Requests -> Phases]
      BY <2>2 DEF Accept, TypeOK, Phases
    <3>4. QED
      BY <2>2, <3>1, <3>2, <3>3 DEF Accept, Arrive, TypeOK
  <2>3. ASSUME NEW r \in Requests, Checkout(r) PROVE TypeOK'
    <3>1. conn' \in ConnType
      BY <2>3, ConnTyping DEF Checkout, TypeOK
    <3>2. pc' \in [Requests -> Phases]
      BY <2>3 DEF Checkout, TypeOK, Phases
    <3>3. QED
      BY <2>3, <3>1, <3>2 DEF Checkout, TypeOK
  <2>4. ASSUME NEW r \in Requests, PoolTimeout(r) PROVE TypeOK'
    <3>1. pc' \in [Requests -> Phases] /\ outcome' \in OutcomeType
      BY <2>4, FailTyping, StatusFacts DEF PoolTimeout
    <3>2. QED
      BY <2>4, <3>1 DEF PoolTimeout, TypeOK, OutcomeType
  <2>5. ASSUME NEW r \in Requests, Connect(r) PROVE TypeOK'
    <3>1. pc' \in [Requests -> Phases]
      BY <2>5 DEF Connect, Prepare, TypeOK, Phases
    <3>2. slot' \in [Slots -> {"closed", "live", "dead"}]
      BY <2>5 DEF Connect, Prepare, TypeOK
    <3>3. QED
      BY <2>5, <3>1, <3>2 DEF Connect, Prepare, TypeOK
  <2>6. ASSUME NEW r \in Requests, ConnectFails(r) PROVE TypeOK'
    <3>1. conn' \in ConnType
      BY <2>6, ConnTyping DEF ConnectFails, TypeOK
    <3>2. slot' \in [Slots -> {"closed", "live", "dead"}]
      BY <2>6 DEF ConnectFails, TypeOK
    <3>3. QED
      BY <2>6, <3>1, <3>2, FailTyping, StatusFacts DEF ConnectFails, TypeOK
  <2>7. ASSUME NEW r \in Requests, Query(r) PROVE TypeOK'
    <3>1. PICK n \in Counts :
            found' = [found EXCEPT ![r] = Append(@, [app |-> NextApp(r), count |-> n])]
      BY <2>7 DEF Query
    <3>2. input[r].apps \in Seq(Apps) /\ found[r] \in Seq([app : Apps, count : Nat])
      <4>1. input[r] \in InputType /\ found[r] \in Seq([app : Apps, count : Nat])
        BY DEF TypeOK
      <4>2. QED
        BY <4>1 DEF InputType
    <3>3. Len(found[r]) + 1 \in DOMAIN input[r].apps
      BY <2>7, <3>2 DEF Query
    <3>4. [app |-> NextApp(r), count |-> n] \in [app : Apps, count : Nat]
      BY <3>2, <3>3, CountsAssumption DEF NextApp
    <3>5. found' \in FoundType
      <4>1. Append(found[r], [app |-> NextApp(r), count |-> n]) \in Seq([app : Apps, count : Nat])
        BY <3>2, <3>4
      <4>2. QED
        BY <3>1, <4>1 DEF FoundType, TypeOK
    <3>6. pc' \in [Requests -> Phases] /\ session' \in [Requests -> Sessions]
      BY <2>7 DEF Query, TypeOK, Phases, Sessions
    <3>7. QED
      BY <2>7, <3>5, <3>6 DEF Query, TypeOK, FoundType
  <2>8. ASSUME NEW r \in Requests, QueryRejected(r) PROVE TypeOK'
    <3>1. pc' \in [Requests -> Phases] /\ outcome' \in OutcomeType
      BY <2>8, RaiseTyping, StatusFacts DEF QueryRejected
    <3>2. QED
      BY <2>8, <3>1 DEF QueryRejected, TypeOK, OutcomeType
  <2>9. ASSUME NEW r \in Requests, Ping(r) PROVE TypeOK'
    <3>1. pc' \in [Requests -> Phases] /\ outcome' \in OutcomeType
      BY <2>9, RaiseTyping, StatusFacts DEF Ping
    <3>2. QED
      BY <2>9, <3>1 DEF Ping, TypeOK, OutcomeType
  <2>10. ASSUME NEW r \in Requests, Commit(r) PROVE TypeOK'
    <3>1. trail' \subseteq RowType
      BY <2>10, RowTyping DEF Commit, TypeOK
    <3>2. pc' \in [Requests -> Phases]
      BY <2>10 DEF Commit, TypeOK, Phases
    <3>3. QED
      BY <2>10, <3>1, <3>2 DEF Commit, TypeOK
  <2>11. ASSUME NEW r \in Requests, CommitRejected(r) PROVE TypeOK'
    <3>1. pc' \in [Requests -> Phases]
      BY <2>11 DEF CommitRejected, TypeOK, Phases
    <3>2. QED
      BY <2>11, <3>1 DEF CommitRejected, TypeOK
  <2>12. ASSUME NEW r \in Requests, Ack(r) PROVE TypeOK'
    <3>1. conn' \in ConnType
      BY <2>12, ConnTyping DEF Ack, Sessions
    <3>2. QED
      BY <2>12, <3>1, ConcludeTyping DEF Ack, TypeOK
  <2>13. ASSUME NEW r \in Requests, ConnectionLost(r) PROVE TypeOK'
    <3>1. slot' \in [Slots -> {"closed", "live", "dead"}]
      BY <2>13 DEF ConnectionLost, TypeOK
    <3>2. orphans' \subseteq Requests
      BY <2>13 DEF ConnectionLost, TypeOK
    <3>3. QED
      BY <2>13, <3>1, <3>2, FailTyping, StatusFacts DEF ConnectionLost, TypeOK
  <2>14. ASSUME NEW r \in Requests, Guard(r) PROVE TypeOK'
    <3>1. conn' \in ConnType
      <4>1. CASE conn' = [conn EXCEPT ![r]["audit"] = NoSlot]
        BY <4>1, ConnTyping DEF Sessions
      <4>2. CASE UNCHANGED conn
        BY <4>2 DEF TypeOK
      <4>3. QED
        BY <2>14, <4>1, <4>2 DEF Guard, Log, Rollback
    <3>2. logged' \subseteq Requests /\ counted' \subseteq Requests
      BY <2>14 DEF Guard, Log, Rollback, TypeOK
    <3>3. QED
      BY <2>14, <3>1, <3>2, ConcludeTyping DEF Guard, Log, Rollback, TypeOK
  <2>15. ASSUME NEW r \in Requests, Respond(r) PROVE TypeOK'
    <3>1. pc' \in [Requests -> Phases]
      BY <2>15 DEF Respond, TypeOK, Phases
    <3>2. QED
      BY <2>15, <3>1 DEF Respond, TypeOK
  <2>16. ASSUME NEW r \in Requests, Close(r) \/ Unwind(r) PROVE TypeOK'
    <3>1. pc' \in [Requests -> Phases]
      BY <2>16 DEF Close, Unwind, TypeOK, Phases
    <3>2. conn' \in ConnType
      BY <2>16, ConnTyping DEF Close, Unwind, Release, Sessions
    <3>3. QED
      BY <2>16, <3>1, <3>2 DEF Close, Unwind, TypeOK
  <2>17. CASE DbStops
    <3>1. slot' \in [Slots -> {"closed", "live", "dead"}]
      BY <2>17 DEF DbStops, TypeOK
    <3>2. weather' \in [Requests -> {"clear", "mixed", "dark"}]
      BY <2>17 DEF DbStops, WeatherChanges, TypeOK
    <3>3. outages' \in Nat
      BY <2>17 DEF DbStops, TypeOK
    <3>4. QED
      BY <2>17, <3>1, <3>2, <3>3 DEF DbStops, TypeOK
  <2>18. CASE DbHangs \/ DbRecovers
    <3>1. weather' \in [Requests -> {"clear", "mixed", "dark"}]
      BY <2>18 DEF DbHangs, DbRecovers, WeatherChanges, TypeOK
    <3>2. outages' \in Nat
      BY <2>18 DEF DbHangs, DbRecovers, TypeOK
    <3>3. QED
      BY <2>18, <3>1, <3>2 DEF DbHangs, DbRecovers, TypeOK
  <2>19. ASSUME NEW r \in Requests, OrphanCommits(r) \/ OrphanDropped(r) PROVE TypeOK'
    <3>1. trail' \subseteq RowType
      BY <2>19, RowTyping DEF OrphanCommits, OrphanDropped, TypeOK
    <3>2. QED
      BY <2>19, <3>1 DEF OrphanCommits, OrphanDropped, TypeOK
  <2>20. CASE Crash
    <3>1. pc' \in [Requests -> Phases]
      BY <2>20 DEF Crash, TypeOK, Phases
    <3>2. conn' \in ConnType
      BY <2>20 DEF Crash
    <3>3. slot' \in [Slots -> {"closed", "live", "dead"}]
      BY <2>20 DEF Crash
    <3>4. orphans' \subseteq Requests
      BY <2>20 DEF Crash, TypeOK
    <3>5. crashes' \in Nat
      BY <2>20 DEF Crash, TypeOK
    <3>6. QED
      BY <2>20, <3>1, <3>2, <3>3, <3>4, <3>5 DEF Crash, TypeOK
  <2>21. CASE UNCHANGED vars
    BY <2>21 DEF vars, TypeOK
  <2>22. QED
    BY <2>1, <2>2, <2>3, <2>4, <2>5, <2>6, <2>7, <2>8, <2>9, <2>10, <2>11, <2>12,
       <2>13, <2>14, <2>15, <2>16, <2>17, <2>18, <2>19, <2>20, <2>21 DEF Next, Handle
<1>3. QED
  BY <1>1, <1>2, PTL DEF Spec

-----------------------------------------------------------------------------
(***************************************************************************)
(* What one step of one request leaves alone                                *)
(***************************************************************************)

\* Everything that happens on behalf of one request.
RequestStep(q) == Refuse(q) \/ Accept(q) \/ Handle(q) \/ OrphanCommits(q) \/ OrphanDropped(q)

\* Raise unwinds its request with the status and leaves the others alone.
LEMMA RaiseFacts ==
  ASSUME TypeOK, NEW q \in Requests, NEW status, Raise(q, status)
  PROVE  /\ pc'[q] = "unwind" /\ outcome'[q] = status
         /\ \A r \in Requests \ {q} : pc'[r] = pc[r] /\ outcome'[r] = outcome[r]
  BY DEF Raise, TypeOK

\* A failing step unwinds the main session or hands the audit one to Guard.
LEMMA FailFacts ==
  ASSUME TypeOK, NEW q \in Requests, NEW status, Fail(q, status)
  PROVE  /\ \/ session[q] = "main" /\ pc'[q] = "unwind" /\ outcome'[q] = status
            \/ session[q] = "audit" /\ pc'[q] = "guard" /\ outcome'[q] = outcome[q]
         /\ \A r \in Requests \ {q} : pc'[r] = pc[r] /\ outcome'[r] = outcome[r]
  BY RaiseFacts DEF Fail, TypeOK

\* After the audit write the request gets its verdict and the others nothing.
LEMMA ConcludeFacts ==
  ASSUME TypeOK, NEW q \in Requests, Conclude(q)
  PROVE  /\ outcome'[q] = Verdict(q)
         /\ Denied(q) => pc'[q] = "unwind"
         /\ ~Denied(q) => pc'[q] = "respond"
         /\ \A r \in Requests \ {q} : pc'[r] = pc[r] /\ outcome'[r] = outcome[r]
<1>1. CASE Raise(q, 403) /\ Denied(q)
  BY <1>1, RaiseFacts DEF Verdict
<1>2. CASE ~Denied(q) /\ outcome' = [outcome EXCEPT ![q] = 200] /\ pc' = [pc EXCEPT ![q] = "respond"]
  BY <1>2 DEF Verdict, TypeOK
<1>3. QED
  BY <1>1, <1>2 DEF Conclude

\* A step of one request leaves what the others have decided alone.
LEMMA OthersKeep ==
  ASSUME TypeOK, NEW q \in Requests, RequestStep(q), NEW r \in Requests \ {q}
  PROVE  /\ input' = input /\ pc'[r] = pc[r] /\ session'[r] = session[r]
         /\ found'[r] = found[r] /\ outcome'[r] = outcome[r] /\ conn'[r] = conn[r]
         /\ weather'[r] = weather[r] /\ db' = db
         /\ r \in orphans' <=> r \in orphans
         /\ r \in logged' <=> r \in logged
<1>. USE DEF TypeOK, dbVars, poolVars, auditVars
<1>1. CASE Refuse(q)
  BY <1>1, RaiseFacts DEF Refuse, Arrive
<1>2. CASE Accept(q)
  BY <1>2 DEF Accept, Arrive
<1>3. CASE Checkout(q)
  BY <1>3 DEF Checkout
<1>4. CASE PoolTimeout(q)
  <2>1. Fail(q, 500)
    BY <1>4 DEF PoolTimeout
  <2>2. pc'[r] = pc[r] /\ outcome'[r] = outcome[r]
    BY <2>1 DEF Fail, Raise
  <2>3. QED
    BY <1>4, <2>2 DEF PoolTimeout
<1>5. CASE Connect(q)
  BY <1>5 DEF Connect, Prepare
<1>6. CASE ConnectFails(q)
  BY <1>6, FailFacts DEF ConnectFails
<1>7. CASE Query(q)
  BY <1>7 DEF Query
<1>8. CASE QueryRejected(q)
  <2>1. pc'[r] = pc[r] /\ outcome'[r] = outcome[r]
    BY <1>8 DEF QueryRejected, Raise
  <2>2. QED
    BY <1>8, <2>1 DEF QueryRejected
<1>9. CASE Ping(q)
  <2>1. pc'[r] = pc[r] /\ outcome'[r] = outcome[r]
    BY <1>9 DEF Ping, Raise
  <2>2. QED
    BY <1>9, <2>1 DEF Ping
<1>10. CASE Commit(q)
  BY <1>10 DEF Commit
<1>11. CASE CommitRejected(q)
  BY <1>11 DEF CommitRejected
<1>12. CASE Ack(q)
  BY <1>12, ConcludeFacts DEF Ack
<1>13. CASE ConnectionLost(q)
  BY <1>13, FailFacts DEF ConnectionLost
<1>14. CASE Guard(q)
  BY <1>14, ConcludeFacts DEF Guard, Log, Rollback
<1>15. CASE Respond(q) \/ Close(q) \/ Unwind(q)
  BY <1>15 DEF Respond, Close, Unwind, Release
<1>16. CASE OrphanCommits(q) \/ OrphanDropped(q)
  BY <1>16 DEF OrphanCommits, OrphanDropped
<1>17. QED
  BY <1>1, <1>2, <1>3, <1>4, <1>5, <1>6, <1>7, <1>8, <1>9, <1>10, <1>11, <1>12, <1>13,
     <1>14, <1>15, <1>16 DEF RequestStep, Handle

-----------------------------------------------------------------------------
(***************************************************************************)
(* Control: the audit begins exactly when the search is over                *)
(***************************************************************************)

\* The control part of the inductive invariant.
CtlInv == \A r \in Requests : ControlInv(r) /\ FoundInv(r)

\* What the provers need to know of the two sequences of a request.
LEMMA SequenceFacts ==
  ASSUME TypeOK, NEW r \in Requests
  PROVE  /\ found[r] \in Seq([app : Apps, count : Nat]) /\ Len(found[r]) \in Nat
         /\ DOMAIN found[r] = 1 .. Len(found[r])
         /\ input[r].apps \in Seq(Apps) /\ Len(input[r].apps) \in Nat
         /\ DOMAIN input[r].apps = 1 .. Len(input[r].apps)
         /\ Denied(r) <=> Len(input[r].apps) = 0
<1>1. found[r] \in Seq([app : Apps, count : Nat]) /\ input[r].apps \in Seq(Apps)
  <2>1. input[r] \in InputType /\ found[r] \in Seq([app : Apps, count : Nat])
    BY DEF TypeOK
  <2>2. QED
    BY <2>1 DEF InputType
<1>2. QED
  BY <1>1 DEF Denied

\* The control invariant of a request depends on these values only.
LEMMA FrameControl ==
  ASSUME NEW r \in Requests, ControlInv(r), FoundInv(r), input' = input, pc'[r] = pc[r],
         session'[r] = session[r], found'[r] = found[r], outcome'[r] = outcome[r]
  PROVE  ControlInv(r)' /\ FoundInv(r)'
  BY DEF ControlInv, FoundInv, Searched, IsSearch, Denied, Verdict

\* A step of a request keeps its own control invariant.
LEMMA ControlStep ==
  ASSUME TypeOK, TypeOK', NEW q \in Requests, ControlInv(q), FoundInv(q), RequestStep(q)
  PROVE  ControlInv(q)' /\ FoundInv(q)'
<1>. USE SequenceFacts DEF Searched, IsSearch, Denied, Verdict, NoStatus, dbVars, poolVars, auditVars
<1>1. CASE Refuse(q)
  <2>1. /\ pc[q] = "idle" /\ pc'[q] = "unwind" /\ outcome'[q] = input[q].refused
        /\ input[q].refused # NoStatus /\ UNCHANGED <<input, found, session>>
    BY <1>1, RaiseFacts DEF Refuse, Arrive
  <2>2. input[q].refused \in {401, 422, 500}
    BY <2>1 DEF TypeOK, InputType
  <2>3. QED
    BY <2>1, <2>2 DEF ControlInv, FoundInv
<1>2. CASE Accept(q)
  <2>1. /\ pc[q] = "idle" /\ pc'[q] = "checkout" /\ input[q].refused = NoStatus
        /\ session'[q] = IF IsSearch(q) /\ Denied(q) THEN "audit" ELSE "main"
        /\ UNCHANGED <<input, found, outcome>>
    BY <1>2 DEF Accept, Arrive, TypeOK
  <2>2. QED
    BY <2>1 DEF ControlInv, FoundInv
<1>3. CASE Checkout(q)
  BY <1>3 DEF Checkout, ControlInv, FoundInv, TypeOK
<1>4. CASE PoolTimeout(q)
  <2>1. /\ pc[q] = "checkout" /\ UNCHANGED <<input, found, session>>
        /\ \/ session[q] = "main" /\ pc'[q] = "unwind" /\ outcome'[q] = 500
           \/ session[q] = "audit" /\ pc'[q] = "guard" /\ outcome'[q] = outcome[q]
    BY <1>4, FailFacts DEF PoolTimeout
  <2>2. QED
    BY <2>1 DEF ControlInv, FoundInv
<1>5. CASE Connect(q)
  BY <1>5 DEF Connect, Prepare, ControlInv, FoundInv, TypeOK, Sessions
<1>6. CASE ConnectFails(q)
  BY <1>6 DEF ConnectFails, Fail, Raise, Unavailable, ControlInv, FoundInv, TypeOK
<1>7. CASE QueryRejected(q)
  BY <1>7 DEF QueryRejected, Raise, ControlInv, FoundInv, TypeOK
<1>8. CASE Ping(q)
  BY <1>8 DEF Ping, Raise, ControlInv, FoundInv, TypeOK
<1>9. CASE Commit(q)
  BY <1>9 DEF Commit, ControlInv, FoundInv, TypeOK
<1>10. CASE CommitRejected(q)
  BY <1>10 DEF CommitRejected, ControlInv, FoundInv, TypeOK
<1>11. CASE Ack(q)
  <2>1. /\ pc[q] = "ack" /\ UNCHANGED <<input, found, session>>
        /\ outcome'[q] = Verdict(q) /\ pc'[q] = IF Denied(q) THEN "unwind" ELSE "respond"
    BY <1>11, ConcludeFacts DEF Ack
  <2>2. QED
    BY <2>1 DEF ControlInv, FoundInv
<1>12. CASE ConnectionLost(q)
  BY <1>12 DEF ConnectionLost, Fail, Raise, Unavailable, ControlInv, FoundInv, TypeOK
<1>13. CASE Guard(q)
  <2>1. /\ pc[q] = "guard" /\ UNCHANGED <<input, found, session>>
        /\ outcome'[q] = Verdict(q) /\ pc'[q] = IF Denied(q) THEN "unwind" ELSE "respond"
    BY <1>13, ConcludeFacts DEF Guard, Log, Rollback
  <2>2. QED
    BY <2>1 DEF ControlInv, FoundInv
<1>14. CASE Respond(q) \/ Close(q) \/ Unwind(q)
  <2>1. /\ \/ pc[q] = "respond" /\ pc'[q] = "close"
           \/ pc[q] \in {"close", "unwind"} /\ pc'[q] = "done"
        /\ UNCHANGED <<input, found, session, outcome>>
    BY <1>14 DEF Respond, Close, Unwind, TypeOK
  <2>2. QED
    BY <2>1 DEF ControlInv, FoundInv
<1>15. CASE OrphanCommits(q) \/ OrphanDropped(q)
  <2>1. UNCHANGED <<pc, input, found, session, outcome>>
    BY <1>15 DEF OrphanCommits, OrphanDropped
  <2>2. QED
    BY <2>1 DEF ControlInv, FoundInv
<1>16. CASE Query(q)
  <2>1. PICK n \in Counts :
          found' = [found EXCEPT ![q] = Append(@, [app |-> NextApp(q), count |-> n])]
    BY <1>16 DEF Query
  <2>2. /\ found'[q] = Append(found[q], [app |-> NextApp(q), count |-> n])
        /\ Len(found'[q]) = Len(found[q]) + 1
        /\ \A i \in 1 .. Len(found[q]) : found'[q][i] = found[q][i]
        /\ found'[q][Len(found[q]) + 1] = [app |-> NextApp(q), count |-> n]
        /\ DOMAIN found'[q] = 1 .. Len(found[q]) + 1
    BY <2>1 DEF TypeOK
  <2>3. FoundInv(q)'
    <3>1. UNCHANGED input /\ Len(found'[q]) <= Len(input[q].apps)
      BY <1>16, <2>2 DEF Query
    <3>2. ASSUME NEW i \in 1 .. Len(found[q]) + 1
          PROVE  found'[q][i].app = input[q].apps[i] /\ found'[q][i].count \in Counts
      <4>1. CASE i \in 1 .. Len(found[q])
        BY <2>2, <4>1 DEF FoundInv
      <4>2. CASE i = Len(found[q]) + 1
        BY <2>2, <4>2 DEF NextApp
      <4>3. QED
        BY <3>2, <4>1, <4>2
    <3>3. QED
      BY <2>2, <3>1, <3>2 DEF FoundInv
  <2>4. /\ pc[q] = "statement" /\ IsSearch(q) /\ UNCHANGED <<input, outcome>>
        /\ \/ Len(found'[q]) < Len(input[q].apps) /\ UNCHANGED <<pc, session>>
           \/ /\ Len(found'[q]) = Len(input[q].apps)
              /\ pc'[q] = "checkout" /\ session'[q] = "audit"
    BY <1>16, <2>2 DEF Query, TypeOK
  <2>5. QED
    BY <2>3, <2>4 DEF ControlInv
<1>17. QED
  BY <1>1, <1>2, <1>3, <1>4, <1>5, <1>6, <1>16, <1>7, <1>8, <1>9, <1>10, <1>11, <1>12,
     <1>13, <1>14, <1>15 DEF RequestStep, Handle

-----------------------------------------------------------------------------
(***************************************************************************)
(* The audit trail: one step of one request                                 *)
(***************************************************************************)

\* The trail part of the inductive invariant.
TrlInv == \A r \in Requests : TrailInv(r)

\* The rows written for a request carry that request.
LEMMA RowsBelongToTheirRequest ==
  ASSUME NEW r, NEW row \in AuditRows(r)
  PROVE  row.request = r
  BY DEF AuditRows, DeniedRow, OkRow

\* Once everything is searched, _write gets exactly the rows the trail owes.
LEMMA AuditRowsAreOwed ==
  ASSUME TypeOK, NEW r \in Requests, FoundInv(r), Searched(r)
  PROVE  AuditRows(r) = Owed(r)
<1>1. DOMAIN found[r] = DOMAIN input[r].apps
  BY SequenceFacts DEF Searched
<1>2. \A i \in DOMAIN found[r] : found[r][i].app = input[r].apps[i]
  BY DEF FoundInv
<1>3. \A i \in DOMAIN found[r] :
        OkRow(r, found[r][i].app, found[r][i].count) = OkRow(r, input[r].apps[i], found[r][i].count)
  BY <1>2
<1>4. {OkRow(r, found[r][i].app, found[r][i].count) : i \in DOMAIN found[r]}
        = {OkRow(r, input[r].apps[i], found[r][i].count) : i \in DOMAIN input[r].apps}
  BY <1>1, <1>3
<1>5. QED
  BY <1>4 DEF AuditRows, Owed

\* Adding the rows of q to the trail adds nothing to another request's rows.
LEMMA RowsOfGrow ==
  ASSUME NEW q, trail' = trail \cup AuditRows(q)
  PROVE  /\ RowsOf(q)' = RowsOf(q) \cup AuditRows(q)
         /\ \A r : r # q => RowsOf(r)' = RowsOf(r)
  BY RowsBelongToTheirRequest DEF RowsOf

\* A step of one request adds no row to another.
LEMMA OthersRows ==
  ASSUME NEW q \in Requests, RequestStep(q), NEW r \in Requests \ {q}
  PROVE  RowsOf(r)' = RowsOf(r)
<1>1. CASE Commit(q) \/ OrphanCommits(q)
  BY <1>1, RowsOfGrow DEF Commit, OrphanCommits
<1>2. CASE UNCHANGED trail
  BY <1>2 DEF RowsOf
<1>3. trail' = trail \/ Commit(q) \/ OrphanCommits(q)
  BY DEF RequestStep, Handle, Refuse, Accept, Arrive, Checkout, PoolTimeout, Connect, Prepare, ConnectFails,
         Query, QueryRejected, Ping, CommitRejected, Ack, ConnectionLost, Guard, Log, Rollback, Respond, Close,
         Unwind, OrphanDropped, auditVars
<1>4. QED
  BY <1>1, <1>2, <1>3

\* The trail invariant survives a step that keeps the rows and the log line of
\* the request and lets no COMMIT of it loose before its verdict.
LEMMA FrameTrail ==
  ASSUME NEW r \in Requests, TrailInv(r), input' = input,
         pc'[r] = pc[r] \/ pc'[r] # "ack",
         session'[r] = session[r], found'[r] = found[r], outcome'[r] = outcome[r],
         RowsOf(r)' = RowsOf(r), r \in logged' <=> r \in logged,
         r \in orphans' => /\ session[r] = "audit"
                           /\ pc'[r] \in {"guard", "lost"} \/ r \in logged
  PROVE  TrailInv(r)'
<1>1. Owed(r)' = Owed(r)
  BY DEF Owed, Denied, OkRow, DeniedRow
<1>2. QED
  BY <1>1 DEF TrailInv, IsSearch

\* A step of a request keeps its own trail invariant.
LEMMA TrailStep ==
  ASSUME TypeOK, TypeOK', NEW q \in Requests, ControlInv(q), FoundInv(q), TrailInv(q),
         RequestStep(q)
  PROVE  TrailInv(q)'
<1>. USE DEF dbVars, poolVars, auditVars
<1>1. CASE UNCHANGED <<trail, orphans, logged, input>> /\ session[q] = "main" /\ outcome'[q] \notin {200, 403}
            /\ pc'[q] # "ack"
  BY <1>1 DEF TrailInv, RowsOf
<1>2. CASE Refuse(q)
  <2>1. outcome'[q] = input[q].refused /\ pc'[q] = "unwind" /\ session[q] = "main"
    BY <1>2, RaiseFacts DEF Refuse, Arrive, ControlInv
  <2>2. input[q].refused \notin {200, 403}
    <3>1. input[q] \in InputType
      BY DEF TypeOK
    <3>2. QED
      BY <3>1 DEF InputType, NoStatus
  <2>3. QED
    BY <1>1, <1>2, <2>1, <2>2 DEF Refuse, Arrive
<1>3. CASE Accept(q)
  <2>1. outcome'[q] = NoStatus /\ pc'[q] = "checkout" /\ session[q] = "main"
    BY <1>3 DEF Accept, Arrive, ControlInv, TypeOK
  <2>2. QED
    BY <1>1, <1>3, <2>1 DEF Accept, Arrive, NoStatus
<1>4. CASE Query(q) 
  BY <1>1, <1>4 DEF Query, ControlInv, TypeOK
<1>5. CASE Checkout(q) \/ Connect(q) \/ CommitRejected(q) \/ Respond(q) \/ Close(q) \/ Unwind(q) \/ OrphanDropped(q)
  <2>1. /\ UNCHANGED <<input, session, found, outcome, trail, logged>>
        /\ pc'[q] = pc[q] \/ (pc'[q] # "ack" /\ pc[q] \notin {"guard", "lost"})
        /\ q \in orphans' => q \in orphans
    BY <1>5 DEF Checkout, Connect, Prepare, CommitRejected, Respond, Close, Unwind, OrphanDropped, TypeOK
  <2>2. q \in orphans' => /\ session[q] = "audit"
                          /\ pc'[q] \in {"guard", "lost"} \/ q \in logged
    BY <2>1 DEF TrailInv
  <2>3. QED
    BY <2>1, <2>2, FrameTrail DEF RowsOf
<1>6. CASE Ping(q)
  BY <1>6 DEF Ping, Raise, TrailInv, RowsOf, ControlInv, IsSearch, TypeOK
<1>7. CASE QueryRejected(q)
  BY <1>1, <1>7 DEF QueryRejected, Raise, ControlInv, TypeOK
<1>8. CASE PoolTimeout(q) \/ ConnectFails(q) \/ ConnectionLost(q)
  <2>1. /\ UNCHANGED <<input, session, found, trail, logged>>
        /\ \/ session[q] = "main" /\ pc'[q] = "unwind" /\ outcome'[q] \in {500, 503}
           \/ session[q] = "audit" /\ pc'[q] = "guard" /\ outcome'[q] = outcome[q]
    BY <1>8 DEF PoolTimeout, ConnectFails, ConnectionLost, Fail, Raise, Unavailable, TypeOK
  <2>2. CASE session[q] = "audit"
    BY <2>1, <2>2, FrameTrail DEF RowsOf
  <2>3. CASE session[q] = "main"
    <3>1. UNCHANGED orphans
      BY <1>8, <2>3 DEF PoolTimeout, ConnectFails, ConnectionLost, Undecided, ControlInv
    <3>2. QED
      BY <1>1, <2>1, <2>3, <3>1
  <2>4. QED
    BY <2>1, <2>2, <2>3
<1>9. CASE Commit(q) \/ OrphanCommits(q)
  <2>1. session[q] = "audit" /\ trail' = trail \cup AuditRows(q)
    BY <1>9 DEF Commit, OrphanCommits, ControlInv, TrailInv
  <2>2. AuditRows(q) = Owed(q)
    BY <2>1, AuditRowsAreOwed DEF ControlInv
  <2>3. RowsOf(q)' = Owed(q)
    BY <2>1, <2>2, RowsOfGrow DEF TrailInv
  <2>4. UNCHANGED <<input, found, session, outcome, logged>>
    BY <1>9 DEF Commit, OrphanCommits
  <2>5. Owed(q)' = Owed(q)
    BY <2>4 DEF Owed, Denied, OkRow, DeniedRow
  <2>6. q \in orphans' => q \in logged' \/ pc'[q] \in {"guard", "lost"}
    BY <1>9 DEF Commit, OrphanCommits, TrailInv
  <2>7. QED
    BY <2>1, <2>3, <2>4, <2>5, <2>6 DEF TrailInv
<1>10. CASE Ack(q) \/ Guard(q)
  <2>1. /\ UNCHANGED <<input, session, found, trail, orphans>> /\ session[q] = "audit"
        /\ pc'[q] # "ack"
        /\ RowsOf(q) = Owed(q) \/ q \in logged'
        /\ q \in orphans => q \in logged'
        /\ UNCHANGED logged \/ logged' = logged \cup {q}
    BY <1>10, ConcludeFacts DEF Ack, Guard, Log, Rollback, ControlInv, TrailInv
  <2>2. Owed(q)' = Owed(q) /\ RowsOf(q)' = RowsOf(q)
    BY <2>1 DEF Owed, Denied, OkRow, DeniedRow, RowsOf
  <2>3. QED
    BY <2>1, <2>2 DEF TrailInv
<1>11. QED
  BY <1>2, <1>3, <1>4, <1>5, <1>6, <1>7, <1>8, <1>9, <1>10 DEF RequestStep, Handle

-----------------------------------------------------------------------------
(***************************************************************************)
(* The environment, and the first two invariants                            *)
(***************************************************************************)

\* The pool part of the inductive invariant.
PoolInv == PoolAccounted /\ \A r \in Requests : HoldsInv(r)

\* The database's own behaviour touches no request.
LEMMA EnvironmentKeeps ==
  ASSUME DbStops \/ DbHangs \/ DbRecovers
  PROVE  UNCHANGED <<input, pc, session, conn, found, outcome, trail, logged>> /\ orphans' \subseteq orphans
  BY DEF DbStops, DbHangs, DbRecovers, auditVars

\* A crash keeps all that was decided, answered, written and logged.
LEMMA CrashKeeps ==
  ASSUME TypeOK, Crash
  PROVE  /\ UNCHANGED <<db, input, session, found, outcome, trail, logged, weather>>
         /\ \A r \in Requests : /\ pc'[r] \in {pc[r], "done", "lost"}
                                /\ pc[r] = "idle" <=> pc'[r] = "idle"
                                /\ pc[r] \in {"commit", "guard", "lost"} => pc'[r] = "lost"
                                /\ pc'[r] \in {"idle", "done", "lost"}
                                /\ \A s \in Sessions : conn'[r][s] = NoSlot
         /\ orphans' = orphans \cup {r \in Requests : Undecided(r)}
  BY DEF Crash, InFlight, dbVars, TypeOK

\* In every reachable state the audit of a search has begun exactly when its
\* searching is over, and what was decided follows from where it stands.
THEOREM ControlInvariant == Spec => []CtlInv
<1>1. Init => CtlInv
  BY DEF Init, CtlInv, ControlInv, FoundInv, Searched, IsSearch, NoStatus, InputType
<1>2. TypeOK /\ TypeOK' /\ CtlInv /\ [Next]_vars => CtlInv'
  <2>. SUFFICES ASSUME TypeOK, TypeOK', CtlInv, [Next]_vars
                PROVE  CtlInv'
    OBVIOUS
  <2>1. ASSUME NEW q \in Requests, RequestStep(q) PROVE CtlInv'
    <3>. SUFFICES ASSUME NEW r \in Requests PROVE (ControlInv(r) /\ FoundInv(r))'
      BY DEF CtlInv
    <3>1. CASE r = q
      BY <2>1, <3>1, ControlStep DEF CtlInv
    <3>2. CASE r # q
      BY <2>1, <3>2, OthersKeep, FrameControl DEF CtlInv
    <3>3. QED BY <3>1, <3>2
  <2>2. CASE DbStops \/ DbHangs \/ DbRecovers
    BY <2>2, EnvironmentKeeps, FrameControl DEF CtlInv
  <2>3. CASE Crash
    <3>. SUFFICES ASSUME NEW r \in Requests PROVE (ControlInv(r) /\ FoundInv(r))'
      BY DEF CtlInv
    <3>1. ControlInv(r) /\ FoundInv(r)
      BY DEF CtlInv
    <3>2. QED
      BY <2>3, <3>1, CrashKeeps DEF ControlInv, FoundInv, Searched, IsSearch, Denied, Verdict
  <2>4. CASE UNCHANGED vars
    BY <2>4, FrameControl DEF CtlInv, vars
  <2>5. QED
    BY <2>1, <2>2, <2>3, <2>4 DEF Next, RequestStep
<1>3. QED
  BY <1>1, <1>2, Typing, PTL DEF Spec

\* In every reachable state the trail holds all the rows a request owes or none,
\* and a disclosing status finds them, or the log line, already there.
THEOREM TrailInvariant == Spec => []TrlInv
<1>1. Init => TrlInv
  BY DEF Init, TrlInv, TrailInv, RowsOf, NoStatus
<1>2. TypeOK /\ TypeOK' /\ CtlInv /\ TrlInv /\ [Next]_vars => TrlInv'
  <2>. SUFFICES ASSUME TypeOK, TypeOK', CtlInv, TrlInv, [Next]_vars
                PROVE  TrlInv'
    OBVIOUS
  <2>1. ASSUME NEW q \in Requests, RequestStep(q) PROVE TrlInv'
    <3>. SUFFICES ASSUME NEW r \in Requests PROVE TrailInv(r)'
      BY DEF TrlInv
    <3>1. CASE r = q
      BY <2>1, <3>1, TrailStep DEF CtlInv, TrlInv
    <3>2. CASE r # q
      <4>1. r \in orphans' => /\ session[r] = "audit"
                              /\ pc'[r] \in {"guard", "lost"} \/ r \in logged
        BY <2>1, <3>2, OthersKeep DEF TrlInv, TrailInv
      <4>2. QED
        BY <2>1, <3>2, <4>1, OthersKeep, OthersRows, FrameTrail DEF TrlInv
    <3>3. QED BY <3>1, <3>2
  <2>2. CASE DbStops \/ DbHangs \/ DbRecovers
    <3>. SUFFICES ASSUME NEW r \in Requests PROVE TrailInv(r)'
      BY DEF TrlInv
    <3>1. RowsOf(r)' = RowsOf(r)
      BY <2>2, EnvironmentKeeps DEF RowsOf
    <3>2. r \in orphans' => /\ session[r] = "audit"
                            /\ pc'[r] \in {"guard", "lost"} \/ r \in logged
      BY <2>2, EnvironmentKeeps DEF TrlInv, TrailInv
    <3>3. QED
      BY <2>2, <3>1, <3>2, EnvironmentKeeps, FrameTrail DEF TrlInv
  <2>3. CASE Crash
    <3>. SUFFICES ASSUME NEW r \in Requests PROVE TrailInv(r)'
      BY DEF TrlInv
    <3>1. RowsOf(r)' = RowsOf(r)
      BY <2>3, CrashKeeps DEF RowsOf
    <3>2. r \in orphans' => /\ session[r] = "audit"
                            /\ pc'[r] \in {"guard", "lost"} \/ r \in logged
      BY <2>3, CrashKeeps DEF Undecided, CtlInv, ControlInv, TrlInv, TrailInv
    <3>3. pc'[r] # "ack"
      BY <2>3, CrashKeeps
    <3>4. QED
      BY <2>3, <3>1, <3>2, <3>3, CrashKeeps, FrameTrail DEF TrlInv
  <2>4. CASE UNCHANGED vars
    <3>1. \A r \in Requests : RowsOf(r)' = RowsOf(r)
      BY <2>4 DEF vars, RowsOf
    <3>2. QED
      <4>. SUFFICES ASSUME NEW r \in Requests PROVE TrailInv(r)'
        BY DEF TrlInv
      <4>1. r \in orphans' => /\ session[r] = "audit"
                              /\ pc'[r] \in {"guard", "lost"} \/ r \in logged
        BY <2>4 DEF TrlInv, TrailInv, vars
      <4>2. QED
        BY <2>4, <3>1, <4>1, FrameTrail DEF TrlInv, vars
  <2>5. QED
    BY <2>1, <2>2, <2>3, <2>4 DEF Next, RequestStep
<1>3. QED
  BY <1>1, <1>2, Typing, ControlInvariant, PTL DEF Spec

-----------------------------------------------------------------------------
(***************************************************************************)
(* The connection pool                                                      *)
(***************************************************************************)

\* Apart from a checkout, a step of q only returns connections of q.
LEMMA ConnStep ==
  ASSUME TypeOK, NEW q \in Requests, RequestStep(q)
  PROVE  \/ \A s \in Sessions : conn'[q][s] \in {conn[q][s], NoSlot}
         \/ Checkout(q)
<1>. USE DEF TypeOK, poolVars
<1>1. CASE Ack(q) \/ Guard(q)
  BY <1>1 DEF Ack, Guard, Log, Rollback
<1>2. CASE ConnectFails(q)
  BY <1>2 DEF ConnectFails
<1>3. CASE Close(q) \/ Unwind(q)
  BY <1>3 DEF Close, Unwind, Release
<1>4. CASE UNCHANGED conn
  BY <1>4
<1>5. \/ Checkout(q) \/ Ack(q) \/ Guard(q) \/ ConnectFails(q) \/ Close(q) \/ Unwind(q)
      \/ UNCHANGED conn
  BY DEF RequestStep, Handle, Refuse, Accept, Arrive, PoolTimeout, Connect, Prepare, Query, QueryRejected,
         Ping, Commit, CommitRejected, ConnectionLost, Respond, OrphanCommits, OrphanDropped
<1>6. QED
  BY <1>1, <1>2, <1>3, <1>4, <1>5

\* A step of one request shares and leaks no connection.
LEMMA PoolStep ==
  ASSUME TypeOK, TypeOK', NEW q \in Requests, PoolInv, CtlInv, RequestStep(q)
  PROVE  PoolInv'
<1>1. \A r \in Requests \ {q} : conn'[r] = conn[r] /\ pc'[r] = pc[r] /\ session'[r] = session[r]
  BY OthersKeep
<1>2. ASSUME NEW r1 \in Requests, NEW r2 \in Requests, NEW s1 \in Sessions, NEW s2 \in Sessions,
             conn'[r1][s1] # NoSlot, conn'[r1][s1] = conn'[r2][s2]
      PROVE  r1 = r2 /\ s1 = s2
  <2>1. CASE \A s \in Sessions : conn'[q][s] \in {conn[q][s], NoSlot}
    BY <1>1, <1>2, <2>1 DEF PoolInv, PoolAccounted
  <2>2. CASE Checkout(q)
    <3>1. PICK c \in Slots \ Held : conn' = [conn EXCEPT ![q][session[q]] = c]
      BY <2>2 DEF Checkout
    <3>2. \A r \in Requests, s \in Sessions : conn[r][s] # c
      BY <3>1, NoSlotAssumption DEF Held
    <3>3. \A r \in Requests, s \in Sessions :
            conn'[r][s] = IF r = q /\ s = session[q] THEN c ELSE conn[r][s]
      BY <3>1 DEF TypeOK
    <3>4. QED
      BY <1>2, <3>2, <3>3 DEF PoolInv, PoolAccounted
  <2>3. QED
    BY <2>1, <2>2, ConnStep
<1>3. ASSUME NEW r \in Requests, ~InFlight(r)', NEW s \in Sessions
      PROVE  conn'[r][s] = NoSlot
  <2>1. CASE r # q
    BY <1>1, <1>3, <2>1 DEF PoolInv, PoolAccounted, InFlight
  <2>2. CASE Close(q) \/ Unwind(q)
    BY <1>1, <1>3, <2>1, <2>2 DEF Close, Unwind, Release, TypeOK
  <2>3. CASE OrphanCommits(q) \/ OrphanDropped(q)
    BY <1>3, <2>1, <2>3 DEF OrphanCommits, OrphanDropped, PoolInv, PoolAccounted, InFlight, poolVars
  <2>4. CASE ~(Close(q) \/ Unwind(q) \/ OrphanCommits(q) \/ OrphanDropped(q)) /\ r = q
    <3>1. InFlight(q)'
      <4>1. CASE Refuse(q) \/ PoolTimeout(q) \/ ConnectFails(q) \/ QueryRejected(q) \/ Ping(q) \/ ConnectionLost(q)
        <5>1. pc'[q] \in {"unwind", "guard"}
          BY <4>1, FailFacts, RaiseFacts
          DEF Refuse, PoolTimeout, ConnectFails, QueryRejected, Ping, ConnectionLost
        <5>2. QED
          BY <5>1 DEF InFlight
      <4>2. CASE Ack(q) \/ Guard(q)
        <5>1. pc'[q] \in {"unwind", "respond"}
          BY <4>2, ConcludeFacts DEF Ack, Guard, Rollback
        <5>2. QED
          BY <5>1 DEF InFlight
      <4>3. CASE Accept(q) \/ Checkout(q) \/ Connect(q) \/ Query(q) \/ Commit(q) \/ CommitRejected(q) \/ Respond(q)
        <5>1. pc'[q] \in {"checkout", "connect", "statement", "commit", "ack", "guard", "close"}
          BY <4>3 DEF Accept, Checkout, Connect, Prepare, Query, Commit, CommitRejected, Respond, TypeOK
        <5>2. QED
          BY <5>1 DEF InFlight
      <4>4. QED
        BY <2>4, <4>1, <4>2, <4>3 DEF RequestStep, Handle
    <3>2. QED
      BY <1>3, <2>4, <3>1
  <2>5. QED
    BY <2>1, <2>2, <2>3, <2>4
<1>4. ASSUME NEW r \in Requests
      PROVE  HoldsInv(r)'
  <2>1. CASE r # q
    BY <1>1, <2>1 DEF PoolInv, HoldsInv, Mine
  <2>2. CASE Checkout(q) /\ r = q
    BY <2>2, NoSlotAssumption DEF Checkout, HoldsInv, Mine, TypeOK
  <2>3. CASE (Connect(q) \/ Query(q) \/ Commit(q) \/ OrphanCommits(q) \/ OrphanDropped(q)) /\ r = q
    BY <2>3 DEF Connect, Prepare, Query, Commit, OrphanCommits, OrphanDropped, PoolInv, HoldsInv, Mine,
                poolVars, TypeOK
  <2>4. CASE pc'[q] \notin {"connect", "statement", "commit", "ack"} /\ r = q
    BY <2>4 DEF HoldsInv
  <2>5. \/ Checkout(q) \/ Connect(q) \/ Query(q) \/ Commit(q) \/ OrphanCommits(q) \/ OrphanDropped(q)
        \/ pc'[q] \notin {"connect", "statement", "commit", "ack"}
    BY DEF RequestStep, Handle, Refuse, Accept, PoolTimeout, ConnectFails, QueryRejected, Ping,
           CommitRejected, Ack, ConnectionLost, Guard, Log, Rollback, Respond, Close, Unwind, Fail, Raise, Conclude,
           TypeOK
  <2>6. QED
    BY <2>1, <2>2, <2>3, <2>4, <2>5
<1>5. QED
  BY <1>2, <1>3, <1>4 DEF PoolInv, PoolAccounted

\* In every reachable state no connection is shared or leaked, and a step that
\* uses one has one.
THEOREM PoolInvariant == Spec => []PoolInv
<1>1. Init => PoolInv
  BY DEF Init, PoolInv, PoolAccounted, HoldsInv, InFlight
<1>2. TypeOK /\ TypeOK' /\ CtlInv /\ PoolInv /\ [Next]_vars => PoolInv'
  <2>. SUFFICES ASSUME TypeOK, TypeOK', CtlInv, PoolInv, [Next]_vars
                PROVE  PoolInv'
    OBVIOUS
  <2>1. CASE \E q \in Requests : RequestStep(q)
    BY <2>1, PoolStep
  <2>2. CASE DbStops \/ DbHangs \/ DbRecovers
    BY <2>2, EnvironmentKeeps DEF PoolInv, PoolAccounted, HoldsInv, InFlight, Mine
  <2>3. CASE Crash
    BY <2>3, CrashKeeps DEF PoolInv, PoolAccounted, HoldsInv
  <2>4. CASE UNCHANGED vars
    BY <2>4 DEF vars, PoolInv, PoolAccounted, HoldsInv, InFlight, Mine
  <2>5. QED
    BY <2>1, <2>2, <2>3, <2>4 DEF Next, RequestStep
<1>3. QED
  BY <1>1, <1>2, Typing, ControlInvariant, PTL DEF Spec

-----------------------------------------------------------------------------
(***************************************************************************)
(* The database as a request saw it, and the theorems                       *)
(***************************************************************************)

\* The weather part of the inductive invariant.
WthInv == \A r \in Requests : WeatherInv(r)

\* A step of q leaves the connection every other request is using alone, or
\* makes it live.
LEMMA OthersSlot ==
  ASSUME TypeOK, NEW q \in Requests, RequestStep(q), PoolInv,
         NEW r \in Requests \ {q}, Mine(r) # NoSlot
  PROVE  slot'[Mine(r)] = slot[Mine(r)]
<1>1. CASE Connect(q) \/ ConnectFails(q) \/ ConnectionLost(q)
  <2>1. Mine(q) # Mine(r)
    BY <1>1 DEF PoolInv, PoolAccounted, HoldsInv, Mine, TypeOK, Connect, Prepare, ConnectFails, ConnectionLost
  <2>2. Mine(r) \in Slots
    BY DEF Mine, TypeOK
  <2>3. QED
    BY <1>1, <2>1, <2>2 DEF Connect, Prepare, ConnectFails, ConnectionLost, TypeOK
<1>2. CASE UNCHANGED slot
  BY <1>2
<1>3. Connect(q) \/ ConnectFails(q) \/ ConnectionLost(q) \/ UNCHANGED slot
  BY DEF RequestStep, Handle, Refuse, Accept, Arrive, Checkout, PoolTimeout, Query, QueryRejected,
         Ping, Commit, CommitRejected, Ack, Guard, Log, Rollback, Respond, Close, Unwind, OrphanCommits,
         OrphanDropped, poolVars
<1>4. QED
  BY <1>1, <1>2, <1>3

\* The weather invariant of a request depends on these values only.
LEMMA FrameWeather ==
  ASSUME NEW r \in Requests, WeatherInv(r), db' = db, pc'[r] = pc[r], weather'[r] = weather[r],
         outcome'[r] = outcome[r], found'[r] = found[r],
         Mine(r)' = Mine(r), slot'[Mine(r)] = slot[Mine(r)] \/ pc[r] \notin {"statement", "commit", "ack"}
  PROVE  WeatherInv(r)'
  BY DEF WeatherInv, InFlight

\* A step of a request keeps its own weather invariant.
LEMMA WeatherStep ==
  ASSUME TypeOK, TypeOK', NEW q \in Requests, ControlInv(q), FoundInv(q), HoldsInv(q), WeatherInv(q),
         RequestStep(q)
  PROVE  WeatherInv(q)'
<1>. USE DEF dbVars, poolVars, auditVars
<1>1. CASE Refuse(q)
  <2>1. /\ pc[q] = "idle" /\ pc'[q] = "unwind" /\ outcome'[q] = input[q].refused
        /\ weather'[q] = IF db = "up" THEN "clear" ELSE "dark"
        /\ UNCHANGED <<db, found, input>>
    <3>1. pc'[q] = "unwind" /\ outcome'[q] = input[q].refused
      BY <1>1, RaiseFacts DEF Refuse
    <3>2. QED
      BY <1>1, <3>1 DEF Refuse, Arrive, TypeOK
  <2>2. input[q].refused \notin {200, 503}
    <3>1. input[q] \in InputType
      BY DEF TypeOK
    <3>2. QED
      BY <3>1 DEF InputType, NoStatus
  <2>3. found[q] = <<>>
    BY <2>1 DEF ControlInv
  <2>4. QED
    BY <2>1, <2>2, <2>3 DEF WeatherInv, InFlight
<1>2. CASE Accept(q)
  <2>1. /\ pc[q] = "idle" /\ pc'[q] = "checkout" /\ outcome'[q] = NoStatus /\ found[q] = <<>>
        /\ weather'[q] = IF db = "up" THEN "clear" ELSE "dark"
        /\ UNCHANGED <<db, found>>
    BY <1>2 DEF Accept, Arrive, TypeOK, ControlInv
  <2>2. QED
    BY <2>1 DEF WeatherInv, InFlight, NoStatus
<1>3. CASE Checkout(q) \/ CommitRejected(q) \/ Respond(q) \/ Close(q) \/ Unwind(q)
  <2>1. /\ pc[q] \notin {"idle", "done", "lost"}
        /\ pc'[q] \notin {"statement", "commit", "ack"}
        /\ UNCHANGED <<db, weather, outcome, found>>
    BY <1>3 DEF Checkout, CommitRejected, Respond, Close, Unwind, TypeOK
  <2>2. QED
    BY <2>1 DEF WeatherInv, InFlight
<1>4. CASE PoolTimeout(q)
  <2>1. /\ pc[q] = "checkout" /\ pc'[q] \in {"unwind", "guard"} /\ outcome'[q] \in {500, outcome[q]}
        /\ UNCHANGED <<db, weather, found>>
    BY <1>4 DEF PoolTimeout, Fail, Raise, TypeOK
  <2>2. QED
    BY <2>1 DEF WeatherInv, InFlight
<1>5. CASE Connect(q)
  <2>1. /\ pc[q] = "connect" /\ UNCHANGED <<db, weather, found, outcome>>
        /\ Mine(q)' = Mine(q) /\ slot'[Mine(q)] = "live"
    BY <1>5 DEF Connect, Prepare, HoldsInv, Mine, TypeOK
  <2>2. QED
    BY <2>1 DEF WeatherInv, InFlight
<1>6. CASE ConnectFails(q) \/ ConnectionLost(q)
  <2>1. /\ pc[q] \in {"connect", "statement", "commit", "ack"} /\ pc'[q] \in {"unwind", "guard"}
        /\ outcome'[q] \in {503, outcome[q]}
        /\ UNCHANGED <<db, weather, found>>
    BY <1>6 DEF ConnectFails, ConnectionLost, Fail, Raise, Unavailable, TypeOK
  <2>2. weather[q] # "clear"
    BY <1>6 DEF ConnectFails, ConnectionLost, WeatherInv, InFlight
  <2>3. QED
    BY <2>1, <2>2 DEF WeatherInv, InFlight
<1>7. CASE Query(q)
  <2>1. /\ pc[q] = "statement" /\ db = "up" /\ UNCHANGED <<db, weather, outcome, slot>>
        /\ \/ UNCHANGED <<pc, session, conn>>
           \/ pc'[q] = "checkout"
    BY <1>7 DEF Query, Reaches, TypeOK
  <2>2. QED
    BY <2>1 DEF WeatherInv, InFlight, Mine
<1>8. CASE QueryRejected(q) \/ Ping(q)
  <2>1. /\ pc[q] = "statement" /\ db = "up" /\ UNCHANGED <<db, weather, found>>
        /\ pc'[q] = "unwind" /\ outcome'[q] \in {200, 500}
    BY <1>8 DEF QueryRejected, Ping, Reaches, Raise, TypeOK
  <2>2. QED
    BY <2>1 DEF WeatherInv, InFlight
<1>9. CASE Commit(q)
  <2>1. /\ pc[q] = "commit" /\ pc'[q] = "ack" /\ UNCHANGED <<db, weather, found, outcome, slot>>
        /\ Mine(q)' = Mine(q)
    BY <1>9 DEF Commit, Mine, TypeOK
  <2>2. QED
    BY <2>1 DEF WeatherInv, InFlight
<1>10. CASE Ack(q) \/ Guard(q)
  <2>1. /\ pc[q] \in {"ack", "guard"} /\ UNCHANGED <<db, weather, found>>
        /\ pc'[q] \in {"unwind", "respond"} /\ outcome'[q] = Verdict(q)
    BY <1>10, ConcludeFacts DEF Ack, Guard, Log, Rollback
  <2>2. session[q] = "audit" /\ Searched(q)
    BY <2>1 DEF ControlInv
  <2>3. Verdict(q) = 200 => found[q] # <<>>
    BY <2>2, SequenceFacts DEF Verdict, Searched
  <2>4. Verdict(q) # 503
    BY DEF Verdict
  <2>5. QED
    BY <2>1, <2>3, <2>4 DEF WeatherInv, InFlight
<1>11. CASE OrphanCommits(q) \/ OrphanDropped(q)
  BY <1>11 DEF OrphanCommits, OrphanDropped, WeatherInv, InFlight, Mine
<1>12. QED
  BY <1>1, <1>2, <1>3, <1>4, <1>5, <1>6, <1>7, <1>8, <1>9, <1>10, <1>11 DEF RequestStep, Handle

\* In every reachable state the connection a request uses is live if the
\* database was up since it arrived, and its status agrees with the weather.
THEOREM WeatherInvariant == Spec => []WthInv
<1>1. Init => WthInv
  BY DEF Init, WthInv, WeatherInv, InFlight, NoStatus
<1>2. TypeOK /\ TypeOK' /\ CtlInv /\ PoolInv /\ WthInv /\ [Next]_vars => WthInv'
  <2>. SUFFICES ASSUME TypeOK, TypeOK', CtlInv, PoolInv, WthInv, [Next]_vars,
                       NEW r \in Requests
                PROVE  WeatherInv(r)'
    BY DEF WthInv
  <2>1. WeatherInv(r) /\ HoldsInv(r) /\ ControlInv(r) /\ FoundInv(r)
    BY DEF WthInv, PoolInv, CtlInv
  <2>2. ASSUME NEW q \in Requests, RequestStep(q) PROVE WeatherInv(r)'
    <3>1. CASE r = q
      BY <2>1, <2>2, <3>1, WeatherStep
    <3>2. CASE r # q
      <4>1. Mine(r)' = Mine(r)
        BY <2>2, <3>2, OthersKeep DEF Mine
      <4>2. slot'[Mine(r)] = slot[Mine(r)] \/ pc[r] \notin {"statement", "commit", "ack"}
        BY <2>1, <2>2, <3>2, OthersSlot DEF HoldsInv
      <4>3. QED
        BY <2>1, <2>2, <3>2, <4>1, <4>2, OthersKeep, FrameWeather
    <3>3. QED BY <3>1, <3>2
  <2>3. CASE DbStops \/ DbHangs \/ DbRecovers
    <3>1. weather'[r] = IF InFlight(r) THEN "mixed" ELSE weather[r]
      BY <2>3 DEF DbStops, DbHangs, DbRecovers, WeatherChanges
    <3>2. QED
      BY <2>1, <2>3, <3>1, EnvironmentKeeps DEF WeatherInv, InFlight
  <2>4. CASE Crash
    BY <2>1, <2>4, CrashKeeps DEF WeatherInv, InFlight
  <2>5. CASE UNCHANGED vars
    <3>1. Mine(r)' = Mine(r)
      BY <2>5 DEF vars, Mine
    <3>2. QED
      BY <2>1, <2>5, <3>1, FrameWeather DEF vars
  <2>6. QED
    BY <2>2, <2>3, <2>4, <2>5 DEF Next, RequestStep
<1>3. QED
  BY <1>1, <1>2, Typing, ControlInvariant, PoolInvariant, PTL DEF Spec

\* A search is answered with data or a denial only with its rows in the trail or
\* its loss in the error log.
THEOREM NoSilentGapHolds == Spec => []NoSilentGap
<1>1. TrlInv => NoSilentGap
  BY DEF TrlInv, TrailInv, NoSilentGap, Disclosed
<1>2. QED
  BY <1>1, TrailInvariant, PTL

\* The rows of a request are all there or none is, and only a request that was
\* searched to the end, and not failed, has any.
THEOREM TrailIsExactHolds == Spec => []TrailIsExact
<1>1. TypeOK /\ CtlInv /\ TrlInv => TrailIsExact
  <2>. SUFFICES ASSUME TypeOK, CtlInv, TrlInv, NEW r \in Requests, RowsOf(r) # {}
                PROVE  /\ input[r].refused = NoStatus
                       /\ RowsOf(r) = IF Denied(r) THEN {DeniedRow(r)}
                                      ELSE {OkRow(r, input[r].apps[i], found[r][i].count) : i \in DOMAIN found[r]}
    BY DEF TrailIsExact
  <2>1. Searched(r) /\ RowsOf(r) = Owed(r)
    BY DEF CtlInv, ControlInv, TrlInv, TrailInv
  <2>2. DOMAIN found[r] = DOMAIN input[r].apps
    <3>1. input[r].apps \in Seq(Apps) /\ found[r] \in Seq([app : Apps, count : Nat])
      BY DEF TypeOK, InputType
    <3>2. QED
      BY <2>1, <3>1 DEF Searched
  <2>3. QED
    BY <2>1, <2>2 DEF Owed, Searched
<1>2. QED
  BY <1>1, Typing, ControlInvariant, TrailInvariant, PTL

\* Once the searching is done, nothing the audit write runs into changes the
\* answer.
THEOREM AuditNeverBreaksSearchHolds == Spec => []AuditNeverBreaksSearch
<1>1. TypeOK /\ CtlInv => AuditNeverBreaksSearch
  <2>. SUFFICES ASSUME TypeOK, CtlInv, NEW r \in Requests, pc[r] \notin {"idle"}, Searched(r)
                PROVE  outcome[r] \in {NoStatus, Verdict(r)}
    BY DEF AuditNeverBreaksSearch
  <2>1. session[r] = "audit"
    BY SequenceFacts DEF CtlInv, ControlInv, Searched, TypeOK, Sessions
  <2>2. QED
    BY <2>1 DEF CtlInv, ControlInv
<1>2. QED
  BY <1>1, Typing, ControlInvariant, PTL

\* No request answers 503 while the database is up, however stale the pool is.
THEOREM NoSpurious503Holds == Spec => []NoSpurious503
<1>1. WthInv => NoSpurious503
  BY DEF WthInv, WeatherInv, NoSpurious503
<1>2. QED
  BY <1>1, WeatherInvariant, PTL

\* No request answers 200 while the database is unavailable all along.
THEOREM DarkNever200Holds == Spec => []DarkNever200
<1>1. WthInv => DarkNever200
  BY DEF WthInv, WeatherInv, DarkNever200
<1>2. QED
  BY <1>1, WeatherInvariant, PTL

\* No connection serves two sessions or outlives its request.
THEOREM PoolAccountedHolds == Spec => []PoolAccounted
<1>1. PoolInv => PoolAccounted
  BY DEF PoolInv
<1>2. QED
  BY <1>1, PoolInvariant, PTL

\* The whole inductive invariant of the runs holds in every reachable state.
THEOREM InductiveInvariant == Spec => []IInv
<1>1. TypeOK /\ CtlInv /\ TrlInv /\ PoolInv /\ WthInv => IInv
  BY DEF CtlInv, TrlInv, PoolInv, WthInv, IInv
<1>2. QED
  BY <1>1, Typing, ControlInvariant, TrailInvariant, PoolInvariant, WeatherInvariant, PTL

-----------------------------------------------------------------------------
(***************************************************************************)
(* The work left for a request                                              *)
(***************************************************************************)

\* What is left, place by place.
LEMMA StepsAtFacts ==
  ASSUME NEW n \in Int, NEW whose
  PROVE  /\ StepsAt("idle", whose, n) = n + 10
         /\ StepsAt("checkout", whose, n) = IF whose = "main" THEN n + 9 ELSE 7
         /\ StepsAt("connect", whose, n) = IF whose = "main" THEN n + 8 ELSE 6
         /\ StepsAt("statement", whose, n) = n + 7
         /\ StepsAt("commit", whose, n) = 5
         /\ StepsAt("ack", whose, n) = 4
         /\ StepsAt("guard", whose, n) = 3
         /\ StepsAt("respond", whose, n) = 2
         /\ StepsAt("unwind", whose, n) = 2
         /\ StepsAt("close", whose, n) = 1
         /\ StepsAt("done", whose, n) = 0
         /\ StepsAt("lost", whose, n) = 0
  BY DEF StepsAt

\* The ways down that do not search an application.
LEMMA StepsGoDown ==
  ASSUME NEW n \in Nat, NEW whose, NEW from, NEW to,
         \/ from = "checkout" /\ to = "connect"
         \/ from = "connect" /\ to = (IF whose = "main" THEN "statement" ELSE "commit")
         \/ from = "commit" /\ to \in {"ack", "guard"}
         \/ from \in {"checkout", "connect", "statement", "commit", "ack"} /\ to \in {"unwind", "guard"}
         \/ from \in {"ack", "guard"} /\ to \in {"unwind", "respond"}
         \/ from = "respond" /\ to = "close"
         \/ from \in {"close", "unwind"} /\ to = "done"
  PROVE  StepsAt(to, whose, n) < StepsAt(from, whose, n)
  BY StepsAtFacts

\* What is left is a number.
LEMMA StepsAtType ==
  ASSUME NEW n \in Nat, NEW at, NEW whose
  PROVE  StepsAt(at, whose, n) \in Nat
  BY DEF StepsAt

LEMMA UnsearchedType ==
  ASSUME NEW i \in InputType, NEW f \in Seq([app : Apps, count : Nat]), Len(f) <= Len(i.apps)
  PROVE  Len(i.apps) - Len(f) \in Nat
  BY DEF InputType

LEMMA StepsLeftType ==
  ASSUME TypeOK, NEW r \in Requests, FoundInv(r)
  PROVE  StepsLeft(r) \in Nat
<1>1. Len(input[r].apps) - Len(found[r]) \in Nat
  BY SequenceFacts DEF FoundInv
<1>2. QED
  BY <1>1, StepsAtType DEF StepsLeft

\* It depends on these values only.
LEMMA FrameSteps ==
  ASSUME NEW r \in Requests, input' = input, pc'[r] = pc[r], session'[r] = session[r],
         found'[r] = found[r]
  PROVE  StepsLeft(r)' = StepsLeft(r)
  BY DEF StepsLeft

\* Every step the service takes for a request leaves it less to do.
LEMMA HandleCounts ==
  ASSUME TypeOK, NEW r \in Requests, ControlInv(r), FoundInv(r), Handle(r)
  PROVE  StepsLeft(r)' < StepsLeft(r)
<1>. DEFINE unsearched == Len(input[r].apps) - Len(found[r])
<1>1. unsearched \in Nat
  BY SequenceFacts DEF FoundInv
<1>2. /\ StepsLeft(r) = StepsAt(pc[r], session[r], unsearched)
      /\ StepsLeft(r)' = StepsAt(pc'[r], session'[r], unsearched')
  BY DEF StepsLeft
<1>3. CASE Query(r)
  <2>1. PICK n \in Counts :
          found' = [found EXCEPT ![r] = Append(@, [app |-> NextApp(r), count |-> n])]
    BY <1>3 DEF Query
  <2>2. found'[r] = Append(found[r], [app |-> NextApp(r), count |-> n])
    BY <2>1 DEF TypeOK
  <2>3. Len(found'[r]) = Len(found[r]) + 1
    BY <2>2, SequenceFacts
  <2>4. input' = input /\ pc[r] = "statement"
    BY <1>3 DEF Query
  <2>5. unsearched' = unsearched - 1
    BY <2>3, <2>4, SequenceFacts
  <2>6. \/ pc'[r] = "statement"
        \/ pc'[r] = "checkout" /\ session'[r] = "audit" /\ unsearched = 1
    BY <1>3, <2>4, SequenceFacts DEF Query, TypeOK
  <2>. HIDE DEF unsearched
  <2>7. StepsLeft(r) = unsearched + 7
    BY <1>1, <1>2, <2>4, StepsAtFacts
  <2>8. unsearched' \in Int
    BY <1>1, <2>5
  <2>9. CASE pc'[r] = "statement"
    <3>1. StepsLeft(r)' = unsearched' + 7
      BY <1>2, <2>8, <2>9, StepsAtFacts
    <3>2. QED
      BY <1>1, <2>5, <2>7, <3>1
  <2>10. CASE pc'[r] = "checkout" /\ session'[r] = "audit" /\ unsearched = 1
    <3>1. StepsLeft(r)' = 7
      BY <1>2, <2>8, <2>10, StepsAtFacts
    <3>2. QED
      BY <2>7, <2>10, <3>1
  <2>11. QED
    BY <2>6, <2>9, <2>10
<1>4. CASE ~Query(r)
  <2>1. input' = input /\ found' = found /\ session' = session
    BY <1>4 DEF Handle, Checkout, PoolTimeout, Connect, ConnectFails, QueryRejected, Ping, Commit,
                CommitRejected, Ack, ConnectionLost, Guard, Respond, Close, Unwind
  <2>2. unsearched' = unsearched
    BY <2>1
  <2>. HIDE DEF unsearched
  <2>3. CASE PoolTimeout(r) \/ ConnectFails(r) \/ ConnectionLost(r)
    <3>1. /\ pc[r] \in {"checkout", "connect", "statement", "commit", "ack"}
          /\ pc'[r] = "unwind" \/ pc'[r] = "guard"
      BY <2>3, FailFacts DEF PoolTimeout, ConnectFails, ConnectionLost
    <3>2. QED
      BY <1>1, <1>2, <2>1, <2>2, <3>1, StepsGoDown
  <2>4. CASE QueryRejected(r) \/ Ping(r)
    <3>1. pc[r] = "statement" /\ pc'[r] = "unwind"
      BY <2>4, RaiseFacts DEF QueryRejected, Ping
    <3>2. QED
      BY <1>1, <1>2, <2>1, <2>2, <3>1, StepsGoDown
  <2>5. CASE Ack(r) \/ Guard(r)
    <3>1. pc[r] \in {"ack", "guard"} /\ pc'[r] \in {"unwind", "respond"}
      BY <2>5, ConcludeFacts DEF Ack, Guard, Rollback
    <3>2. QED
      BY <1>1, <1>2, <2>1, <2>2, <3>1, StepsGoDown
  <2>6. CASE Checkout(r)
    <3>1. pc[r] = "checkout" /\ pc'[r] = "connect"
      BY <2>6 DEF Checkout, TypeOK
    <3>2. QED
      BY <1>1, <1>2, <2>1, <2>2, <3>1, StepsGoDown
  <2>7. CASE Connect(r)
    <3>1. pc[r] = "connect" /\ pc'[r] = IF session[r] = "main" THEN "statement" ELSE "commit"
      BY <2>7 DEF Connect, TypeOK
    <3>2. QED
      BY <1>1, <1>2, <2>1, <2>2, <3>1, StepsGoDown
  <2>8. CASE Commit(r) \/ CommitRejected(r)
    <3>1. pc[r] = "commit" /\ pc'[r] \in {"ack", "guard"}
      BY <2>8 DEF Commit, CommitRejected, TypeOK
    <3>2. QED
      BY <1>1, <1>2, <2>1, <2>2, <3>1, StepsGoDown
  <2>9. CASE Respond(r) \/ Close(r) \/ Unwind(r)
    <3>1. \/ pc[r] = "respond" /\ pc'[r] = "close"
          \/ pc[r] \in {"close", "unwind"} /\ pc'[r] = "done"
      BY <2>9 DEF Respond, Close, Unwind, TypeOK
    <3>2. QED
      BY <1>1, <1>2, <2>1, <2>2, <3>1, StepsGoDown
  <2>10. QED
    BY <1>4, <2>3, <2>4, <2>5, <2>6, <2>7, <2>8, <2>9 DEF Handle
<1>5. QED
  BY <1>3, <1>4

\* Whatever else happens leaves it no more to do.
LEMMA NothingAddsSteps ==
  ASSUME TypeOK, NEW r \in Requests, ControlInv(r), FoundInv(r), ~Handle(r), [Next]_vars
  PROVE  StepsLeft(r)' <= StepsLeft(r)
<1>. DEFINE unsearched == Len(input[r].apps) - Len(found[r])
<1>1. unsearched \in Nat /\ StepsLeft(r) \in Nat
  BY SequenceFacts, StepsLeftType DEF FoundInv
<1>2. /\ StepsLeft(r) = StepsAt(pc[r], session[r], unsearched)
      /\ StepsLeft(r)' = StepsAt(pc'[r], session'[r], unsearched')
  BY DEF StepsLeft
<1>3. CASE StepsLeft(r)' = StepsLeft(r)
  BY <1>1, <1>3
<1>4. CASE \E q \in Requests \ {r} : RequestStep(q)
  BY <1>3, <1>4, OthersKeep, FrameSteps
<1>5. CASE DbStops \/ DbHangs \/ DbRecovers
  BY <1>3, <1>5, EnvironmentKeeps, FrameSteps
<1>6. CASE UNCHANGED vars
  BY <1>3, <1>6, FrameSteps DEF vars
<1>7. CASE OrphanCommits(r) \/ OrphanDropped(r)
  BY <1>3, <1>7, FrameSteps DEF OrphanCommits, OrphanDropped
<1>8. CASE Crash
  <2>1. CASE pc'[r] = pc[r]
    BY <1>3, <1>8, <2>1, CrashKeeps, FrameSteps
  <2>2. CASE pc'[r] \in {"done", "lost"}
    <3>1. StepsLeft(r)' = 0
      BY <1>2, <2>2 DEF StepsAt
    <3>2. QED
      BY <1>1, <3>1
  <2>3. QED
    BY <1>8, <2>1, <2>2, CrashKeeps
<1>9. CASE Refuse(r)
  <2>1. pc'[r] = "unwind" /\ pc[r] = "idle"
    BY <1>9, RaiseFacts DEF Refuse, Arrive
  <2>. HIDE DEF unsearched
  <2>2. StepsLeft(r)' = 2 /\ StepsLeft(r) = unsearched + 10
    BY <1>1, <1>2, <2>1 DEF StepsAt
  <2>3. QED
    BY <1>1, <2>2
<1>10. CASE Accept(r)
  <2>1. /\ pc[r] = "idle" /\ pc'[r] = "checkout" /\ session'[r] \in {"main", "audit"}
        /\ input' = input /\ found' = found
    BY <1>10 DEF Accept, Arrive, TypeOK
  <2>2. unsearched' = unsearched
    BY <2>1
  <2>. HIDE DEF unsearched
  <2>3. StepsLeft(r) = unsearched + 10
    BY <1>1, <1>2, <2>1, StepsAtFacts
  <2>4. StepsLeft(r)' = IF session'[r] = "main" THEN unsearched + 9 ELSE 7
    BY <1>1, <1>2, <2>1, <2>2, StepsAtFacts
  <2>5. QED
    BY <1>1, <2>3, <2>4
<1>11. QED
  BY <1>4, <1>5, <1>6, <1>7, <1>8, <1>9, <1>10 DEF Next, RequestStep

\* The service takes at most Len(apps) + 10 steps for a request, whatever the
\* database, the pool and the other requests do: with the fairness of a thread
\* per request this is why every request ends.
THEOREM EveryStepCountsHolds == Spec => EveryStepCounts
<1>. DEFINE Counted ==
       \A r \in Requests : /\ StepsLeft(r)' \in 0 .. StepsLeft(r)
                           /\ Handle(r) => StepsLeft(r)' < StepsLeft(r)
<1>1. TypeOK /\ TypeOK' /\ CtlInv /\ CtlInv' /\ [Next]_vars => [Counted]_vars
  <2>. SUFFICES ASSUME TypeOK, TypeOK', CtlInv, CtlInv', [Next]_vars, NEW r \in Requests
                PROVE  /\ StepsLeft(r)' \in 0 .. StepsLeft(r)
                       /\ Handle(r) => StepsLeft(r)' < StepsLeft(r)
    OBVIOUS
  <2>1. ControlInv(r) /\ FoundInv(r) /\ FoundInv(r)'
    BY DEF CtlInv
  <2>2. StepsLeft(r) \in Nat
    BY <2>1, StepsLeftType
  <2>3. StepsLeft(r)' \in Nat
    <3>1. input'[r] \in InputType /\ found'[r] \in Seq([app : Apps, count : Nat])
      BY DEF TypeOK
    <3>2. Len(input'[r].apps) - Len(found'[r]) \in Nat
      BY <2>1, <3>1, UnsearchedType DEF FoundInv
    <3>3. QED
      BY <3>2, StepsAtType DEF StepsLeft
  <2>4. Handle(r) => StepsLeft(r)' < StepsLeft(r)
    BY <2>1, HandleCounts
  <2>5. ~Handle(r) => StepsLeft(r)' <= StepsLeft(r)
    BY <2>1, NothingAddsSteps
  <2>6. StepsLeft(r)' \in 0 .. StepsLeft(r)
    BY <2>2, <2>3, <2>4, <2>5
  <2>7. QED
    BY <2>4, <2>6
<1>2. QED
  BY <1>1, Typing, ControlInvariant, PTL DEF Spec, EveryStepCounts
=============================================================================
