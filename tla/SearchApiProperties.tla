------------------------ MODULE SearchApiProperties ------------------------
(***************************************************************************)
(* What makes the request path correct.  SearchApiMC checks it on small     *)
(* instances, SearchApiProofs proves part of it for every instance.         *)
(***************************************************************************)
EXTENDS SearchApi

\* Type correctness: the one shape invariant of the module.
TypeOK ==
  /\ db \in {"up", "down", "hung"} /\ outages \in Nat /\ crashes \in Nat
  /\ slot \in [Slots -> {"closed", "live", "dead"}]
  /\ input \in [Requests -> InputType]
  /\ pc \in [Requests -> Phases]
  /\ session \in [Requests -> Sessions]
  /\ conn \in [Requests -> [Sessions -> Slots \cup {NoSlot}]]
  /\ found \in [Requests -> Seq([app : Apps, count : Nat])]
  /\ outcome \in [Requests -> {NoStatus} \cup Statuses]
  /\ trail \subseteq RowType
  /\ orphans \subseteq Requests /\ logged \subseteq Requests /\ counted \subseteq Requests
  /\ weather \in [Requests -> {"clear", "mixed", "dark"}]

-----------------------------------------------------------------------------
\* The status a search that reached its audit write is answered with.
Verdict(r) == IF Denied(r) THEN 403 ELSE 200

RowsOf(r) == {row \in trail : row.request = r}

\* Everything the request was permitted to search has been searched.
Searched(r) == IsSearch(r) /\ input[r].refused = NoStatus
               /\ Len(found[r]) = Len(input[r].apps)

\* The rows the trail owes a request: one per permitted application, with the
\* number of rows that application returned, or the single denied row.
Owed(r) == IF Denied(r) THEN {DeniedRow(r)}
           ELSE {OkRow(r, input[r].apps[i], found[r][i].count) : i \in DOMAIN input[r].apps}

Disclosed(r) == IsSearch(r) /\ Answered(r) /\ outcome[r] \in {200, 403}

\* A search that was answered, with data or with a denial, has all its rows in
\* search_audit_log, or its loss is in the error log, whatever the database,
\* the pool and the process went through (audit.py: "logged ... and swallowed").
NoSilentGap ==
  \A r \in Requests : Disclosed(r) => RowsOf(r) = Owed(r) \/ r \in logged

\* The rows of a request are all there or none is: "one row per app actually
\* searched" (audit.py:26) with the count it really returned, or "a single 'denied'
\* row" (models/search_audit_log.py:12), and a request that the dependencies or the
\* validation refuse "never writes here" (models/search_audit_log.py:26).
TrailIsExact ==
  \A r \in Requests :
    RowsOf(r) # {} =>
      /\ input[r].refused = NoStatus
      /\ RowsOf(r) = IF Denied(r) THEN {DeniedRow(r)}
                     ELSE {OkRow(r, input[r].apps[i], found[r][i].count) : i \in DOMAIN found[r]}

\* "Audit logging must never break the search response" (audit.py:3): once all
\* the searching is done, no failure of the audit write, its log, its metric or
\* its rollback changes the answer.
AuditNeverBreaksSearch ==
  \A r \in Requests :
    (pc[r] \notin {"idle"} /\ Searched(r)) =>
      outcome[r] \in {NoStatus, Verdict(r)}

\* "A stale pooled connection must not surface as a 500" (db.py:10), nor as a
\* 503: a request during which the database was up all along never answers that
\* the database is unavailable, however many restarts came before it.
NoSpurious503 ==
  \A r \in Requests : outcome[r] = 503 => weather[r] # "clear"

\* While the database is unavailable all along, nobody is told it is up, or is
\* given search results.
DarkNever200 ==
  \A r \in Requests : (Answered(r) /\ outcome[r] = 200) => weather[r] # "dark"

\* No pooled connection serves two sessions, and a request that is over, or has
\* not begun, holds none: neither a failed rollback nor a crash leaks one.
PoolAccounted ==
  /\ \A r1, r2 \in Requests : \A s1, s2 \in Sessions :
       (conn[r1][s1] # NoSlot /\ conn[r1][s1] = conn[r2][s2]) => (r1 = r2 /\ s1 = s2)
  /\ \A r \in Requests : ~InFlight(r) => \A s \in Sessions : conn[r][s] = NoSlot

\* A bound on the steps the service still takes for a request: a statement for
\* each application not searched yet, a connection for each session, the audit
\* write with its failure, and the teardown.
StepsAt(at, whose, unsearched) ==
  CASE at = "idle" -> unsearched + 10
    [] at = "checkout" -> IF whose = "main" THEN unsearched + 9 ELSE 7
    [] at = "connect" -> IF whose = "main" THEN unsearched + 8 ELSE 6
    [] at = "statement" -> unsearched + 7
    [] at = "commit" -> 5
    [] at = "ack" -> 4
    [] at = "guard" -> 3
    [] at \in {"respond", "unwind"} -> 2
    [] at = "close" -> 1
    [] OTHER -> 0

StepsLeft(r) == StepsAt(pc[r], session[r], Len(input[r].apps) - Len(found[r]))

\* Nothing is retried for ever: every step the service takes for a request
\* brings it nearer to its end, and neither another request, the database nor a
\* crash takes it back, so no request makes more than Len(apps) + 10 steps.
EveryStepCounts ==
  [][\A r \in Requests :
       /\ StepsLeft(r)' \in 0 .. StepsLeft(r)
       /\ Handle(r) => StepsLeft(r)' < StepsLeft(r)]_vars


-----------------------------------------------------------------------------
(***************************************************************************)
(* The inductive invariant behind the safety properties                     *)
(***************************************************************************)

\* Where a request stands tells what has been decided about it: the audit
\* session takes over exactly when there is nothing left to search.
ControlInv(r) ==
  /\ pc[r] \in {"idle", "checkout", "connect", "statement", "commit", "ack", "guard"}
       => outcome[r] = NoStatus
  /\ pc[r] \in {"respond", "close"} => outcome[r] = 200
  /\ pc[r] = "unwind" => outcome[r] # NoStatus
  /\ pc[r] = "idle" => session[r] = "main" /\ found[r] = <<>>
  /\ pc[r] = "statement" => session[r] = "main"
  /\ pc[r] \in {"commit", "ack", "guard", "respond", "close"} => session[r] = "audit"
  /\ input[r].refused # NoStatus =>
       pc[r] \in {"idle", "unwind", "done", "lost"} /\ session[r] = "main"
  /\ ~IsSearch(r) => session[r] = "main" /\ found[r] = <<>>
  /\ session[r] = "audit" => Searched(r) /\ outcome[r] \in {NoStatus, Verdict(r)}
  /\ (session[r] = "main" /\ IsSearch(r)) => outcome[r] \notin {200, 403}
  /\ (session[r] = "main" /\ IsSearch(r) /\ input[r].refused = NoStatus /\ pc[r] # "idle")
       => Len(found[r]) < Len(input[r].apps)

\* What has been found is a prefix of what is permitted.
FoundInv(r) ==
  /\ Len(found[r]) <= Len(input[r].apps)
  /\ \A i \in DOMAIN found[r] :
       found[r][i].app = input[r].apps[i] /\ found[r][i].count \in Counts

\* The rows of a request are those it owes, and they or the log line are there
\* before a status that discloses anything is decided.
TrailInv(r) ==
  /\ RowsOf(r) # {} => session[r] = "audit" /\ RowsOf(r) = Owed(r)
  /\ r \in orphans => session[r] = "audit" /\ (pc[r] \in {"guard", "lost"} \/ r \in logged)
  /\ r \in logged => session[r] = "audit"
  /\ pc[r] = "ack" => RowsOf(r) = Owed(r)
  /\ (IsSearch(r) /\ outcome[r] \in {200, 403}) => RowsOf(r) = Owed(r) \/ r \in logged

\* A step that uses a connection has one.
HoldsInv(r) ==
  pc[r] \in {"connect", "statement", "commit", "ack"} => Mine(r) # NoSlot

\* What the history variable says of the database and of the connection in use.
WeatherInv(r) ==
  /\ InFlight(r) /\ weather[r] = "clear" => db = "up"
  /\ InFlight(r) /\ weather[r] = "dark" => db # "up"
  /\ pc[r] \in {"statement", "commit", "ack"} /\ weather[r] = "clear" => slot[Mine(r)] = "live"
  /\ outcome[r] = 503 => weather[r] # "clear"
  /\ outcome[r] = 200 => weather[r] # "dark"
  /\ found[r] # <<>> => weather[r] # "dark"

IInv ==
  /\ TypeOK
  /\ PoolAccounted
  /\ \A r \in Requests :
       ControlInv(r) /\ FoundInv(r) /\ TrailInv(r) /\ HoldsInv(r) /\ WeatherInv(r)

-----------------------------------------------------------------------------
(***************************************************************************)
(* The refinement of AuditContract                                          *)
(***************************************************************************)

returnedBar == [r \in Requests |-> IF Searched(r) THEN found[r] ELSE <<>>]

answerBar ==
  [r \in Requests |->
     IF IsSearch(r) /\ Answered(r)
     THEN [status |-> outcome[r], sections |-> IF outcome[r] = 200 THEN found[r] ELSE <<>>]
     ELSE [status |-> NoStatus, sections |-> <<>>]]

Contract == INSTANCE AuditContract WITH
  granted <- [r \in Requests |-> input[r].apps],
  origin <- [r \in Requests |-> input[r].origin],
  returned <- returnedBar, answer <- answerBar

\* The service implements the contract.
ImplementsContract == Contract!Spec

-----------------------------------------------------------------------------
(***************************************************************************)
(* What only a crowd can do                                                 *)
(***************************************************************************)

Active == {r \in Requests : InFlight(r)}

\* More connections may be asked for than there are: a request uses two at most.
\* With the pool of db.py:12 this takes eight requests at once.
Crowded == Cardinality(Slots) < 2 * Cardinality(Active)

\* "Audit is always written when possible" (tests/test_error_paths.py:83): while
\* the database is up all along, rows the table can store are given up only when
\* the pool runs out, and it runs out only in a crowd: requests that are over,
\* stale connections and the failures of others leave no claim on it.
AuditLostOnlyInACrowd ==
  [][\A r \in Requests :
       (weather[r] = "clear" /\ Storable(r) /\ pc[r] # "guard" /\ pc'[r] = "guard")
         => Crowded]_vars

\* The answer a request is owed, if no application refuses to search for it.
Answer(r) == IF IsSearch(r) THEN Verdict(r) ELSE 200

Answerable(r) ==
  /\ input[r].refused = NoStatus
  /\ \A i \in DOMAIN input[r].apps : ~Refuses(input[r].apps[i], input[r])

\* "On-premises DBs restart; a stale pooled connection must not surface as a 500
\* on the next request" (db.py:10): while the database is up all along, whoever
\* can be answered is, unless there is a crowd.
FailsOnlyInACrowd ==
  [][\A r \in Requests :
       (weather[r] = "clear" /\ Answerable(r) /\ outcome'[r] # outcome[r])
         => outcome'[r] = Answer(r) \/ Crowded]_vars

\* "A DB connection failure is [...] 503 [...] never a 500" (main.py:28): with the
\* database unavailable all along, only the pool's timeout is a 500, in a crowd.
Dark500OnlyInACrowd ==
  [][\A r \in Requests :
       (InFlight(r) /\ weather[r] = "dark" /\ outcome[r] # 500 /\ outcome'[r] = 500)
         => Crowded]_vars

-----------------------------------------------------------------------------
(***************************************************************************)
(* Statements of the repository that the program does not keep               *)
(***************************************************************************)

\* "Audit is always written when possible" (tests/test_error_paths.py:83): a
\* search answered while the database was up all along is in the trail.
AuditWrittenWhenPossible ==
  \A r \in Requests :
    (Disclosed(r) /\ weather[r] = "clear" /\ Storable(r)) => RowsOf(r) # {}

\* "A DB connection failure is [answered] 503 [...] never a 500" (main.py:28):
\* with the database unavailable all along, no answer is a 500.
UnavailableIsNever500 ==
  \A r \in Requests : (Answered(r) /\ weather[r] = "dark") => outcome[r] # 500

\* "Audit trail - one row per app actually searched" (models/search_audit_log.py:12):
\* once a search is answered, and no failed write is in the log, the trail shows
\* every application whose data it searched.
EveryAppSearchedHasARow ==
  \A r \in Requests :
    (Answered(r) /\ r \notin logged) =>
      \A i \in DOMAIN found[r] : \E row \in RowsOf(r) : row.app = found[r][i].app
=============================================================================
