------------------------ MODULE SearchApiRefinement ------------------------
(***************************************************************************)
(* The request path implements AuditContract, for any number of requests,   *)
(* any pool, any inputs and any number of outages and crashes.              *)
(***************************************************************************)
EXTENDS SearchApiProofs

\* The substitution of Contract for granted.
grantedBar == [r \in Requests |-> input[r].apps]

\* What the simulation needs of a reachable state.
Inv == TypeOK /\ CtlInv /\ TrlInv

-----------------------------------------------------------------------------
(***************************************************************************)
(* What the state functions of the contract are in a state of the service   *)
(***************************************************************************)

\* The contract's rows of a fully searched request are the rows it owes.
LEMMA ContractRows ==
  ASSUME Inv, NEW r \in Requests, session[r] = "audit"
  PROVE  /\ Searched(r) /\ returnedBar[r] = found[r]
         /\ Contract!Rows(r) = Owed(r)
         /\ Contract!Ready(r)
<1>1. Searched(r) /\ returnedBar[r] = found[r]
  BY DEF Inv, CtlInv, ControlInv, returnedBar
<1>2. DOMAIN found[r] = DOMAIN input[r].apps
  BY <1>1, SequenceFacts DEF Searched, Inv
<1>3. \A i \in DOMAIN found[r] : found[r][i].app = input[r].apps[i]
  BY DEF Inv, CtlInv, FoundInv
<1>4. Contract!Rows(r) = Owed(r)
  <2>1. CASE Denied(r)
    BY <2>1 DEF Contract!Rows, Owed, Denied, DeniedRow, Null
  <2>2. CASE ~Denied(r)
    <3>1. \A i \in DOMAIN found[r] :
            [request |-> r, app |-> found[r][i].app, origin |-> input[r].origin,
             results_count |-> <<found[r][i].count>>, status |-> "ok"]
            = OkRow(r, input[r].apps[i], found[r][i].count)
      BY <1>3 DEF OkRow
    <3>2. {[request |-> r, app |-> found[r][i].app, origin |-> input[r].origin,
             results_count |-> <<found[r][i].count>>, status |-> "ok"] : i \in DOMAIN found[r]}
          = {OkRow(r, input[r].apps[i], found[r][i].count) : i \in DOMAIN input[r].apps}
      BY <1>2, <3>1
    <3>3. QED
      BY <1>1, <2>2, <3>2 DEF Contract!Rows, Owed, Denied
  <2>3. QED
    BY <2>1, <2>2
<1>5. Contract!Ready(r)
  BY <1>1, SequenceFacts DEF Contract!Ready, Searched, Inv, Denied
<1>6. QED
  BY <1>1, <1>4, <1>5

\* Before its audit session, a request has returned nothing to the contract
\* and has no row in the trail.
LEMMA NothingYet ==
  ASSUME Inv, NEW r \in Requests, session[r] = "main", pc[r] # "idle"
  PROVE  /\ ~Searched(r) /\ returnedBar[r] = <<>>
         /\ ~Contract!Recorded(r) /\ r \notin logged
<1>1. ~Searched(r)
  BY SequenceFacts DEF Inv, CtlInv, ControlInv, Searched
<1>2. returnedBar[r] = <<>>
  BY <1>1 DEF returnedBar
<1>3. ASSUME Contract!Recorded(r) PROVE FALSE
  <2>1. input[r].apps = <<>>
    BY <1>2, <1>3 DEF Contract!Recorded, Contract!Ready
  <2>2. Contract!Rows(r) = {DeniedRow(r)}
    BY <2>1 DEF Contract!Rows, DeniedRow, Null
  <2>3. DeniedRow(r) \in RowsOf(r)
    BY <1>3, <2>2 DEF Contract!Recorded, RowsOf, DeniedRow
  <2>4. QED
    BY <2>3 DEF Inv, TrlInv, TrailInv
<1>4. QED
  BY <1>1, <1>2, <1>3 DEF Inv, TrlInv, TrailInv

\* A request that is not answered is open for the contract.
LEMMA Unanswered ==
  ASSUME NEW r \in Requests, ~Answered(r)
  PROVE  Contract!Open(r) /\ answerBar[r] = Contract!NoAnswer
<1>1. answerBar[r] = [status |-> NoStatus, sections |-> <<>>]
  BY DEF answerBar
<1>2. QED
  BY <1>1 DEF Contract!Open, Contract!NoAnswer, Contract!NoStatus, NoStatus

-----------------------------------------------------------------------------
(***************************************************************************)
(* A step of one request                                                    *)
(***************************************************************************)

\* The contract's view of the other requests does not change.
LEMMA OthersBar ==
  ASSUME Inv, NEW q \in Requests, RequestStep(q)
  PROVE  /\ UNCHANGED grantedBar
         /\ UNCHANGED [r \in Requests |-> input[r].origin]
         /\ \A r \in Requests \ {q} : returnedBar'[r] = returnedBar[r] /\ answerBar'[r] = answerBar[r]
<1>1. input' = input
  <2>1. UNCHANGED input
    BY DEF RequestStep, Handle, Refuse, Accept, Arrive, Checkout, PoolTimeout, Connect, Prepare, ConnectFails,
           Query, QueryRejected, Ping, Commit, CommitRejected, Ack, ConnectionLost, Guard, Log, Rollback, Respond,
           Close, Unwind, OrphanCommits, OrphanDropped
  <2>2. QED
    BY <2>1
<1>2. ASSUME NEW r \in Requests \ {q}
      PROVE  returnedBar'[r] = returnedBar[r] /\ answerBar'[r] = answerBar[r]
  <2>1. found'[r] = found[r] /\ outcome'[r] = outcome[r] /\ pc'[r] = pc[r]
    BY OthersKeep DEF Inv
  <2>2. QED
    BY <1>1, <2>1 DEF returnedBar, answerBar, Searched, IsSearch, Answered
<1>3. QED
  BY <1>1, <1>2 DEF grantedBar

\* A function over the requests that keeps every value is unchanged.
LEMMA SameBars ==
  ASSUME \A r \in Requests : returnedBar'[r] = returnedBar[r] /\ answerBar'[r] = answerBar[r]
  PROVE  UNCHANGED <<returnedBar, answerBar>>
  BY DEF returnedBar, answerBar

\* A new answer for one request.
LEMMA NewAnswer ==
  ASSUME NEW q \in Requests, NEW a, answerBar'[q] = a,
         \A r \in Requests \ {q} : answerBar'[r] = answerBar[r]
  PROVE  answerBar' = [answerBar EXCEPT ![q] = a]
<1>1. answerBar = [r \in Requests |-> answerBar[r]] /\ answerBar' = [r \in Requests |-> answerBar'[r]]
  BY DEF answerBar
<1>2. QED
  BY <1>1

\* The last statement of a search is Search, every other one a stutter.
LEMMA QuerySimulation ==
  ASSUME Inv, Inv', NEW q \in Requests, Query(q)
  PROVE  Contract!Search(q) \/ UNCHANGED Contract!contractVars
<1>1. RequestStep(q)
  BY DEF RequestStep, Handle
<1>2. /\ pc[q] = "statement" /\ IsSearch(q) /\ session[q] = "main" /\ pc'[q] # "done" /\ pc'[q] # "close"
      /\ input[q].refused = NoStatus /\ UNCHANGED <<input, outcome, trail, logged>>
  BY DEF Query, Inv, CtlInv, ControlInv, TypeOK, auditVars
<1>3. answerBar'[q] = answerBar[q]
  BY <1>2 DEF answerBar, IsSearch, Answered
<1>4. CASE ~Searched(q)'
  <2>1. returnedBar'[q] = returnedBar[q]
    BY <1>2, <1>4, NothingYet DEF returnedBar
  <2>2. UNCHANGED <<returnedBar, answerBar>>
    BY <1>1, <1>3, <2>1, OthersBar, SameBars
  <2>3. QED
    BY <1>1, <1>2, <2>2, OthersBar DEF Contract!contractVars, grantedBar
<1>5. CASE Searched(q)'
  <2>1. Contract!Open(q) /\ ~Contract!Ready(q)
    <3>1. input[q].apps # <<>>
      BY <1>2, SequenceFacts DEF Inv, CtlInv, ControlInv, Denied
    <3>2. returnedBar[q] = <<>>
      BY <1>2, NothingYet
    <3>3. Contract!Open(q)
      BY <1>2, Unanswered DEF Answered
    <3>4. QED
      BY <3>1, <3>2, <3>3 DEF Contract!Ready
  <2>2. /\ DOMAIN found'[q] = DOMAIN input[q].apps
        /\ found'[q] \in Seq([app : Apps, count : Nat])
        /\ \A i \in DOMAIN found'[q] : /\ found'[q][i].app = input[q].apps[i]
                                       /\ found'[q][i].count \in Counts
    <3>1. TypeOK' /\ FoundInv(q)'
      BY DEF Inv, CtlInv
    <3>2. found'[q] \in Seq([app : Apps, count : Nat]) /\ input[q].apps \in Seq(Apps)
      BY <3>1, SequenceFacts DEF TypeOK, Inv
    <3>3. QED
      BY <1>2, <1>5, <3>1, <3>2 DEF FoundInv, Searched
  <2>. DEFINE n == [i \in DOMAIN input[q].apps |-> found'[q][i].count]
  <2>3. n \in [DOMAIN input[q].apps -> Counts]
    BY <2>2
  <2>4. found'[q] = [i \in DOMAIN input[q].apps |-> [app |-> input[q].apps[i], count |-> n[i]]]
    <3>1. ASSUME NEW i \in DOMAIN input[q].apps
          PROVE  found'[q][i] = [app |-> input[q].apps[i], count |-> n[i]]
      <4>1. found'[q][i] \in [app : Apps, count : Nat]
        BY <2>2, ElementOfASeq
      <4>2. QED
        BY <2>2, <4>1
    <3>2. found'[q] = [i \in DOMAIN found'[q] |-> found'[q][i]]
      BY <2>2
    <3>3. QED
      BY <2>2, <3>1, <3>2
  <2>5. returnedBar'[q] = found'[q]
    BY <1>5 DEF returnedBar
  <2>6. returnedBar' = [returnedBar EXCEPT ![q] =
          [i \in DOMAIN input[q].apps |-> [app |-> input[q].apps[i], count |-> n[i]]]]
    <3>1. \A r \in Requests \ {q} : returnedBar'[r] = returnedBar[r]
      BY <1>1, OthersBar
    <3>2. QED
      BY <2>4, <2>5, <3>1 DEF returnedBar
  <2>7. UNCHANGED answerBar
    <3>1. \A r \in Requests : answerBar'[r] = answerBar[r]
      BY <1>1, <1>3, OthersBar
    <3>2. QED
      BY <3>1 DEF answerBar
  <2>8. Contract!Search(q)
    <3>1. \E m \in [DOMAIN grantedBar[q] -> Counts] :
            returnedBar' = [returnedBar EXCEPT ![q] =
              [i \in DOMAIN grantedBar[q] |-> [app |-> grantedBar[q][i], count |-> m[i]]]]
      <4>1. grantedBar[q] = input[q].apps
        BY DEF grantedBar
      <4>2. QED
        BY <2>3, <2>6, <4>1
    <3>2. QED
      BY <1>1, <1>2, <2>1, <2>7, <3>1, OthersBar DEF Contract!Search, grantedBar
  <2>9. QED
    BY <2>8
<1>6. QED
  BY <1>4, <1>5

\* A COMMIT at the server, its client waiting or gone, is Record.
LEMMA CommitSimulation ==
  ASSUME Inv, Inv', NEW q \in Requests, Commit(q) \/ OrphanCommits(q)
  PROVE  Contract!Record(q)
<1>1. RequestStep(q)
  BY DEF RequestStep, Handle
<1>2. /\ session[q] = "audit" /\ trail' = trail \cup AuditRows(q)
      /\ UNCHANGED <<input, found, outcome, logged>>
      /\ ~Answered(q) \/ q \in logged
      /\ Answered(q)' <=> Answered(q)
  <2>1. CASE Commit(q)
    <3>1. pc[q] = "commit" /\ pc'[q] = "ack"
      BY <2>1 DEF Commit, Inv, TypeOK
    <3>2. session[q] = "audit"
      BY <3>1 DEF Inv, CtlInv, ControlInv
    <3>3. QED
      BY <2>1, <3>1, <3>2 DEF Commit, Answered
  <2>2. CASE OrphanCommits(q)
    BY <2>2 DEF OrphanCommits, Inv, TrlInv, TrailInv, Answered
  <2>3. QED
    BY <2>1, <2>2
<1>3. AuditRows(q) = Contract!Rows(q) /\ Contract!Ready(q)
  BY <1>2, ContractRows, AuditRowsAreOwed DEF Inv, CtlInv
<1>4. returnedBar'[q] = returnedBar[q] /\ answerBar'[q] = answerBar[q]
  BY <1>2 DEF returnedBar, answerBar, Searched, IsSearch
<1>5. UNCHANGED <<returnedBar, answerBar>>
  BY <1>1, <1>4, OthersBar, SameBars
<1>6. QED
  BY <1>1, <1>2, <1>3, <1>5, Unanswered, OthersBar DEF Contract!Record, grantedBar

\* The except branch of the audit write is Report.
LEMMA GuardSimulation ==
  ASSUME Inv, Inv', NEW q \in Requests, Guard(q)
  PROVE  Contract!Report(q)
<1>1. RequestStep(q)
  BY DEF RequestStep, Handle
<1>2. /\ session[q] = "audit" /\ logged' = logged \cup {q}
      /\ UNCHANGED <<input, found, trail>>
      /\ ~Answered(q) /\ ~Answered(q)'
  BY ConcludeFacts DEF Guard, Log, Rollback, Inv, CtlInv, ControlInv, Answered
<1>3. returnedBar'[q] = returnedBar[q] /\ answerBar'[q] = answerBar[q]
  BY <1>2 DEF returnedBar, answerBar, Searched, IsSearch
<1>4. UNCHANGED <<returnedBar, answerBar>>
  BY <1>1, <1>3, OthersBar, SameBars
<1>5. QED
  BY <1>1, <1>2, <1>4, Unanswered, ContractRows, OthersBar DEF Contract!Report, grantedBar

\* An answer that follows the audit write is Disclose.
LEMMA DiscloseSimulation ==
  ASSUME Inv, NEW q \in Requests, RequestStep(q), session[q] = "audit",
         ~Answered(q), Answered(q)', outcome[q] # NoStatus,
         UNCHANGED <<input, found, outcome, trail, logged>>
  PROVE  Contract!Disclose(q)
<1>1. /\ Searched(q) /\ IsSearch(q) /\ outcome[q] = Verdict(q)
      /\ RowsOf(q) = Owed(q) \/ q \in logged
  BY DEF Inv, CtlInv, ControlInv, TrlInv, TrailInv, Searched, Verdict
<1>2. Contract!Recorded(q) \/ q \in logged
  <2>1. RowsOf(q) \subseteq trail
    BY DEF RowsOf
  <2>2. QED
    BY <1>1, <2>1, ContractRows DEF Contract!Recorded
<1>3. returnedBar[q] = found[q] /\ returnedBar'[q] = returnedBar[q]
  BY <1>1, ContractRows DEF returnedBar, Searched, IsSearch
<1>4. UNCHANGED returnedBar
  <2>1. \A r \in Requests : returnedBar'[r] = returnedBar[r]
    BY <1>3, OthersBar
  <2>2. QED
    BY <2>1 DEF returnedBar
<1>5. answerBar'[q] = IF grantedBar[q] = <<>> THEN [status |-> 403, sections |-> <<>>]
                      ELSE [status |-> 200, sections |-> returnedBar[q]]
  <2>1. answerBar'[q] = [status |-> outcome[q],
                         sections |-> IF outcome[q] = 200 THEN found[q] ELSE <<>>]
    BY <1>1 DEF answerBar, IsSearch
  <2>2. QED
    BY <1>1, <1>3, <2>1 DEF Verdict, Denied, grantedBar
<1>6. answerBar' = [answerBar EXCEPT ![q] =
         IF grantedBar[q] = <<>> THEN [status |-> 403, sections |-> <<>>]
         ELSE [status |-> 200, sections |-> returnedBar[q]]]
  <2>1. \A r \in Requests \ {q} : answerBar'[r] = answerBar[r]
    BY OthersBar
  <2>2. QED
    BY <1>5, <2>1, NewAnswer
<1>7. QED
  BY <1>2, <1>4, <1>6, Unanswered, ContractRows, OthersBar DEF Contract!Disclose, grantedBar

\* Every other answer to a search is Reject.
LEMMA RejectSimulation ==
  ASSUME Inv, NEW q \in Requests, Unwind(q), session[q] = "main", IsSearch(q)
  PROVE  Contract!Reject(q)
<1>1. RequestStep(q)
  BY DEF RequestStep, Handle
<1>2. /\ pc[q] = "unwind" /\ pc'[q] = "done"
      /\ UNCHANGED <<input, found, outcome, trail, logged>>
  BY DEF Unwind, Inv, TypeOK, auditVars
<1>3. outcome[q] \in {401, 422, 500, 503}
  <2>1. outcome[q] \in {NoStatus} \cup Statuses
    BY DEF Inv, TypeOK
  <2>2. outcome[q] \notin {NoStatus, 200, 403}
    BY <1>2 DEF Inv, CtlInv, ControlInv
  <2>3. QED
    BY <2>1, <2>2 DEF Statuses
<1>4. answerBar'[q] = [status |-> outcome[q], sections |-> <<>>]
  BY <1>2, <1>3 DEF answerBar, IsSearch, Answered
<1>5. returnedBar[q] = <<>> /\ returnedBar'[q] = returnedBar[q]
  BY <1>2, NothingYet DEF returnedBar, Searched, IsSearch
<1>6. UNCHANGED returnedBar
  <2>1. \A r \in Requests : returnedBar'[r] = returnedBar[r]
    BY <1>1, <1>5, OthersBar
  <2>2. QED
    BY <2>1 DEF returnedBar
<1>7. answerBar' = [answerBar EXCEPT ![q] = [status |-> outcome[q], sections |-> <<>>]]
  <2>1. \A r \in Requests \ {q} : answerBar'[r] = answerBar[r]
    BY <1>1, OthersBar
  <2>2. QED
    BY <1>4, <2>1, NewAnswer
<1>8. Contract!Open(q) /\ ~Contract!Recorded(q) /\ q \notin logged
  BY <1>2, NothingYet, Unanswered DEF Answered
<1>9. [status |-> outcome[q], sections |-> <<>>] \in Contract!Errors
  BY <1>3 DEF Contract!Errors
<1>10. QED
  BY <1>1, <1>2, <1>5, <1>6, <1>7, <1>8, <1>9, OthersBar DEF Contract!Reject, grantedBar

\* A step that neither records, reports nor answers is a stutter.
LEMMA QuietSimulation ==
  ASSUME Inv, NEW q \in Requests, RequestStep(q),
         UNCHANGED <<found, trail, logged>>,
         ~IsSearch(q) \/ (~Answered(q) /\ ~Answered(q)')
                     \/ (Answered(q) /\ Answered(q)' /\ outcome'[q] = outcome[q])
  PROVE  UNCHANGED Contract!contractVars
<1>1. UNCHANGED input
  BY DEF RequestStep, Handle, Refuse, Accept, Arrive, Checkout, PoolTimeout, Connect, Prepare, ConnectFails,
         Query, QueryRejected, Ping, Commit, CommitRejected, Ack, ConnectionLost, Guard, Log, Rollback, Respond,
         Close, Unwind, OrphanCommits, OrphanDropped
<1>2. returnedBar'[q] = returnedBar[q] /\ answerBar'[q] = answerBar[q]
  BY <1>1 DEF returnedBar, answerBar, Searched, IsSearch
<1>3. UNCHANGED <<returnedBar, answerBar>>
  BY <1>2, OthersBar, SameBars
<1>4. QED
  BY <1>3, OthersBar DEF Contract!contractVars, grantedBar

-----------------------------------------------------------------------------
(***************************************************************************)
(* The refinement                                                           *)
(***************************************************************************)

\* Every step of a request is a step of the contract or a stutter.
LEMMA StepSimulation ==
  ASSUME Inv, Inv', NEW q \in Requests, RequestStep(q)
  PROVE  [Contract!Next]_(Contract!contractVars)
<1>. USE DEF dbVars, poolVars, auditVars
<1>1. CASE Query(q)
  BY <1>1, QuerySimulation DEF Contract!Next
<1>2. CASE Commit(q) \/ OrphanCommits(q)
  BY <1>2, CommitSimulation DEF Contract!Next
<1>3. CASE Guard(q)
  BY <1>3, GuardSimulation DEF Contract!Next
<1>4. CASE Respond(q)
  <2>1. /\ pc[q] = "respond" /\ pc'[q] = "close"
        /\ UNCHANGED <<input, found, outcome, trail, logged>>
    BY <1>4 DEF Respond, Inv, TypeOK
  <2>2. session[q] = "audit" /\ outcome[q] # NoStatus
    BY <2>1 DEF Inv, CtlInv, ControlInv, NoStatus
  <2>3. QED
    BY <2>1, <2>2, DiscloseSimulation DEF Contract!Next, Answered
<1>5. CASE Unwind(q)
  <2>1. /\ pc[q] = "unwind" /\ pc'[q] = "done"
        /\ UNCHANGED <<input, found, outcome, trail, logged>>
    BY <1>5 DEF Unwind, Inv, TypeOK
  <2>2. CASE session[q] = "audit"
    <3>1. outcome[q] # NoStatus
      BY <2>1 DEF Inv, CtlInv, ControlInv
    <3>2. QED
      BY <2>1, <2>2, <3>1, DiscloseSimulation DEF Contract!Next, Answered
  <2>3. CASE session[q] = "main" /\ IsSearch(q)
    BY <1>5, <2>3, RejectSimulation DEF Contract!Next
  <2>4. CASE ~IsSearch(q)
    BY <2>1, <2>4, QuietSimulation
  <2>5. session[q] \in {"main", "audit"}
    BY DEF Inv, TypeOK, Sessions
  <2>6. QED
    BY <2>2, <2>3, <2>4, <2>5
<1>6. CASE Close(q) \/ OrphanDropped(q)
  <2>1. UNCHANGED <<found, trail, logged, outcome>> /\ (Answered(q)' <=> Answered(q))
    BY <1>6 DEF Close, OrphanDropped, Answered, Inv, TypeOK
  <2>2. QED
    BY <2>1, QuietSimulation
<1>7. CASE Refuse(q) \/ Accept(q) \/ Checkout(q) \/ Connect(q) \/ QueryRejected(q) \/ Ping(q)
           \/ CommitRejected(q)
  <2>1. UNCHANGED <<found, trail, logged>> /\ ~Answered(q) /\ ~Answered(q)'
    BY <1>7 DEF Refuse, Accept, Arrive, Checkout, Connect, Prepare, QueryRejected, Ping, CommitRejected,
                Raise, Answered, Inv, TypeOK
  <2>2. QED
    BY <2>1, QuietSimulation
<1>8. CASE PoolTimeout(q) \/ ConnectFails(q) \/ ConnectionLost(q)
  <2>1. UNCHANGED <<found, trail, logged>> /\ ~Answered(q) /\ ~Answered(q)'
    BY <1>8 DEF PoolTimeout, ConnectFails, ConnectionLost, Fail, Raise, Answered, Inv, TypeOK
  <2>2. QED
    BY <2>1, QuietSimulation
<1>9. CASE Ack(q)
  <2>1. UNCHANGED <<found, trail, logged>> /\ ~Answered(q) /\ ~Answered(q)'
    BY <1>9, ConcludeFacts DEF Ack, Answered, Inv
  <2>2. QED
    BY <2>1, QuietSimulation
<1>10. QED
  BY <1>1, <1>2, <1>3, <1>4, <1>5, <1>6, <1>7, <1>8, <1>9 DEF RequestStep, Handle

\* The environment changes nothing the contract speaks of: what a crash cuts
\* short was not answered, and what it finds answered stays answered.
LEMMA EnvironmentSimulation ==
  ASSUME Inv, DbStops \/ DbHangs \/ DbRecovers \/ Crash
  PROVE  UNCHANGED Contract!contractVars
<1>1. /\ UNCHANGED <<input, found, outcome, trail, logged>>
      /\ \A r \in Requests : Answered(r)' <=> Answered(r)
  <2>1. CASE DbStops \/ DbHangs \/ DbRecovers
    BY <2>1, EnvironmentKeeps DEF Answered
  <2>2. CASE Crash
    <3>1. \A r \in Requests : pc'[r] \in {"close", "done"} <=> pc[r] \in {"close", "done"}
      BY <2>2 DEF Crash, InFlight
    <3>2. QED
      BY <2>2, <3>1 DEF Crash, Answered
  <2>3. QED
    BY <2>1, <2>2
<1>2. UNCHANGED <<returnedBar, answerBar>>
  <2>1. \A r \in Requests : returnedBar'[r] = returnedBar[r] /\ answerBar'[r] = answerBar[r]
    BY <1>1 DEF returnedBar, answerBar, Searched, IsSearch
  <2>2. QED
    BY <2>1, SameBars
<1>3. QED
  BY <1>1, <1>2 DEF Contract!contractVars

\* The service implements the contract of its audit trail: whatever the
\* interleaving, the outages and the crashes, nothing is answered with data
\* before its rows are committed or reported lost.
THEOREM Refinement == Spec => ImplementsContract
<1>1. Init => Contract!Init
  <2>. SUFFICES ASSUME Init PROVE Contract!Init
    OBVIOUS
  <2>1. input \in [Requests -> InputType]
    BY InputsAssumption DEF Init
  <2>2. /\ [r \in Requests |-> input[r].apps] \in [Requests -> Seq(Contract!Apps)]
        /\ [r \in Requests |-> input[r].origin] \in [Requests -> Contract!Apps]
    <3>1. Contract!Apps = Apps
      BY DEF Contract!Apps, Apps, Contract!Clients, Clients, Contract!AppOf, AppOf,
             Contract!KnownClients, KnownClients
    <3>2. QED
      BY <2>1, <3>1 DEF InputType
  <2>3. returnedBar = [r \in Requests |-> <<>>]
    BY DEF Init, returnedBar
  <2>4. answerBar = [r \in Requests |-> Contract!NoAnswer]
    BY DEF Init, answerBar, Answered, Contract!NoAnswer, NoStatus, Contract!NoStatus
  <2>5. QED
    BY <2>2, <2>3, <2>4 DEF Init, Contract!Init
<1>2. Inv /\ Inv' /\ [Next]_vars => [Contract!Next]_(Contract!contractVars)
  <2>. SUFFICES ASSUME Inv, Inv', [Next]_vars
                PROVE  [Contract!Next]_(Contract!contractVars)
    OBVIOUS
  <2>1. CASE \E q \in Requests : RequestStep(q)
    BY <2>1, StepSimulation
  <2>2. CASE DbStops \/ DbHangs \/ DbRecovers \/ Crash
    BY <2>2, EnvironmentSimulation
  <2>3. CASE UNCHANGED vars
    BY <2>3 DEF vars, Contract!contractVars, returnedBar, answerBar, Searched, IsSearch, Answered
  <2>4. QED
    BY <2>1, <2>2, <2>3 DEF Next, RequestStep
<1>3. Spec => []Inv
  BY Typing, ControlInvariant, TrailInvariant, PTL DEF Inv
<1>4. QED
  BY <1>1, <1>2, <1>3, PTL DEF Spec, ImplementsContract, Contract!Spec
=============================================================================
