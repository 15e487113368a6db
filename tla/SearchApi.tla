----------------------------- MODULE SearchApi -----------------------------
(***************************************************************************)
(* The request path of the service: POST /api/v1/search and GET /health     *)
(* running concurrently in one process, over one SQLAlchemy connection      *)
(* pool, against a PostgreSQL that stops, hangs and comes back, in a        *)
(* process that may die at any step.                                        *)
(*                                                                          *)
(* A search uses two sessions.  "main" (get_db) runs one statement per      *)
(* permitted application and keeps its connection until the request is      *)
(* torn down; "audit" (get_audit_db) takes a second connection to commit    *)
(* the audit rows.  A denied search uses only the audit session; a health   *)
(* probe only a main one.  Sessions are lazy: the first statement checks    *)
(* the connection out.                                                      *)
(***************************************************************************)
EXTENDS Config, FiniteSets

CONSTANTS
  Requests,     \* the HTTP requests the clients send
  Slots,        \* the connections the pool may hold: pool_size + max_overflow
  NoSlot,       \* what a session holds before it checks a connection out
  Inputs,       \* what a request may carry, once its token and body are read
  Counts,       \* how many rows a strategy may report for one application
  OutageKinds,  \* how the database may become unavailable
  MaxOutages,   \* bound: how often it may
  MaxCrashes    \* bound: how often the service process may die

Sessions == {"main", "audit"}

\* `refused` is the status the dependencies and the body validation reject the
\* request with (NoStatus: it reaches the endpoint), `apps` is
\* context.search_apps, `uuid` whether the `sub` claim is a uuid, `nul` whether
\* the query holds a NUL, which neither the strip nor the length bounds keep out.
\* `spoilt` is of the table: one of the rows the investigator finds for the
\* request has JSON in `data` that is no object.
InputType == [kind : {"search", "health"}, refused : {NoStatus, 401, 422, 500},
              apps : Seq(Apps), origin : Apps, uuid : BOOLEAN, nul : BOOLEAN, spoilt : BOOLEAN]

ASSUME InputsAssumption == Inputs \subseteq InputType
ASSUME SlotsAssumption == IsFiniteSet(Slots)
ASSUME NoSlotAssumption == NoSlot \notin Slots
ASSUME CountsAssumption == Counts \subseteq Nat
ASSUME OutageKindsAssumption == OutageKinds \subseteq {"down", "hung"}
ASSUME BoundsAssumption == MaxOutages \in Nat /\ MaxCrashes \in Nat

VARIABLES
  db,        \* "up", "down" (connections refused) or "hung" (no answer)
  outages,   \* how often the database became unavailable so far
  crashes,   \* how often the process died so far
  slot,      \* what is behind each pooled connection
  input,     \* what each request carries
  pc,        \* where each request stands
  session,   \* the session whose step comes next
  conn,      \* the connection each session of a request holds
  found,     \* results_per_app: what each application has returned so far
  outcome,   \* the status decided for a request
  trail,     \* the committed rows of search_audit_log
  orphans,   \* requests whose COMMIT is at the server, their client gone
  logged,    \* requests with an "audit write failed" line in the error log
  counted,   \* requests audit_write_failures counted, in this process
  weather    \* history: the database since a request arrived

dbVars    == <<db, outages>>
poolVars  == <<slot, conn>>
auditVars == <<trail, orphans, logged, counted>>
vars == <<db, outages, crashes, slot, input, pc, session, conn, found, outcome,
          trail, orphans, logged, counted, weather>>

Phases == {"idle", "checkout", "connect", "statement", "commit", "ack", "guard",
           "respond", "close", "unwind", "done", "lost"}

InFlight(r) == pc[r] \notin {"idle", "done", "lost"}
Answered(r) == pc[r] \in {"close", "done"}
IsSearch(r) == input[r].kind = "search"
Denied(r)   == input[r].apps = <<>>

-----------------------------------------------------------------------------
(***************************************************************************)
(* The audit rows                                                           *)
(***************************************************************************)

Null == "NULL"

OkRow(r, app, count) ==
  [request |-> r, app |-> app, origin |-> input[r].origin,
   results_count |-> <<count>>, status |-> "ok"]

\* Mutant of DeniedRow: the denied row with an empty app in place of NULL.
DeniedRowOfEmptyApp(r) ==
  [request |-> r, app |-> "", origin |-> input[r].origin,
   results_count |-> <<>>, status |-> "denied"]

DeniedRow(r) ==
  [request |-> r, app |-> Null, origin |-> input[r].origin,
   results_count |-> <<>>, status |-> "denied"]

\* Mutant of AuditRows: the last application's row is dropped.
AuditRowsOffByOne(r) ==
  IF Denied(r) THEN {DeniedRow(r)}
  ELSE {OkRow(r, found[r][i].app, found[r][i].count) : i \in DOMAIN found[r] \ {Len(found[r])}}

\* The rows record_search_denied and record_search_ok hand to _write.
AuditRows(r) ==
  IF Denied(r) THEN {DeniedRow(r)}
  ELSE {OkRow(r, found[r][i].app, found[r][i].count) : i \in DOMAIN found[r]}

\* Every row the table can hold; a NULL count is the empty sequence.
RowType ==
  [request : Requests, app : Apps \cup {Null}, origin : Apps,
   results_count : Seq(Nat), status : {"ok", "denied"}]

-----------------------------------------------------------------------------
(***************************************************************************)
(* Helpers: the pool, and how a failing step is handled                     *)
(***************************************************************************)

Held    == {conn[r][s] : r \in Requests, s \in Sessions} \ {NoSlot}
Mine(r) == conn[r][session[r]]

\* Mutant of Release: get_audit_db without the `with` block.
ReleaseMainOnly(r) == conn' = [conn EXCEPT ![r]["main"] = NoSlot]

\* The sessions' __exit__: both connections go back to the pool.
Release(r) == conn' = [conn EXCEPT ![r] = [s \in Sessions |-> NoSlot]]

\* An exception leaves the endpoint with this status.
Raise(r, status) ==
  /\ outcome' = [outcome EXCEPT ![r] = status]
  /\ pc' = [pc EXCEPT ![r] = "unwind"]

\* Mutant of Fail: a failed audit write is tried again.
FailRetried(r, status) ==
  \/ /\ session[r] = "main"
     /\ Raise(r, status)
  \/ /\ session[r] = "audit"
     /\ pc' = [pc EXCEPT ![r] = "checkout"]
     /\ UNCHANGED outcome

\* An exception in the main session leaves the endpoint; one in the audit
\* session is caught by _write.
Fail(r, status) ==
  \/ /\ session[r] = "main"
     /\ Raise(r, status)
  \/ /\ session[r] = "audit"
     /\ pc' = [pc EXCEPT ![r] = "guard"]
     /\ UNCHANGED outcome

\* What run_search does once the audit write is behind it, whatever it did.
Conclude(r) ==
  IF Denied(r) THEN Raise(r, 403)
  ELSE /\ outcome' = [outcome EXCEPT ![r] = 200]
       /\ pc' = [pc EXCEPT ![r] = "respond"]

-----------------------------------------------------------------------------
Init ==
  /\ db = "up" /\ outages = 0 /\ crashes = 0
  /\ slot = [c \in Slots |-> "closed"]
  /\ input \in [Requests -> Inputs]
  /\ pc = [r \in Requests |-> "idle"]
  /\ session = [r \in Requests |-> "main"]
  /\ conn = [r \in Requests |-> [s \in Sessions |-> NoSlot]]
  /\ found = [r \in Requests |-> <<>>]
  /\ outcome = [r \in Requests |-> NoStatus]
  /\ trail = {} /\ orphans = {} /\ logged = {} /\ counted = {}
  /\ weather = [r \in Requests |-> "clear"]

Arrive(r) ==
  /\ pc[r] = "idle"
  /\ weather' = [weather EXCEPT ![r] = IF db = "up" THEN "clear" ELSE "dark"]
  /\ UNCHANGED <<dbVars, crashes, poolVars, input, found, auditVars>>

\* The dependencies or the body validation reject the request: no session of
\* it ever touches the database.
Refuse(r) ==
  /\ Arrive(r)
  /\ input[r].refused # NoStatus
  /\ Raise(r, input[r].refused)
  /\ UNCHANGED session

\* run_search starts (or health does): without a permitted application the
\* denied row comes first.
Accept(r) ==
  /\ Arrive(r)
  /\ input[r].refused = NoStatus
  /\ pc' = [pc EXCEPT ![r] = "checkout"]
  /\ session' = [session EXCEPT ![r] = IF IsSearch(r) /\ Denied(r) THEN "audit" ELSE "main"]
  /\ UNCHANGED outcome

-----------------------------------------------------------------------------
(***************************************************************************)
(* Checking a connection out                                                *)
(***************************************************************************)

\* The session's first statement takes a connection nobody holds.
Checkout(r) ==
  /\ pc[r] = "checkout"
  /\ \E c \in Slots \ Held : conn' = [conn EXCEPT ![r][session[r]] = c]
  /\ pc' = [pc EXCEPT ![r] = "connect"]
  /\ UNCHANGED <<dbVars, crashes, slot, input, session, found, outcome, auditVars, weather>>


\* Every connection is out for pool_timeout seconds: sqlalchemy.exc.TimeoutError,
\* which is no OperationalError, so no handler turns it into a 503.
PoolTimeout(r) ==
  /\ pc[r] = "checkout"
  /\ Slots \subseteq Held
  /\ Fail(r, 500)
  /\ UNCHANGED <<dbVars, crashes, poolVars, input, session, found, auditVars, weather>>

\* Mutant of Prepare: pool_pre_ping is off, only an unopened connection is opened.
PrepareUnchecked(r) ==
  /\ slot[Mine(r)] = "closed" => db = "up"
  /\ slot' = [slot EXCEPT ![Mine(r)] = IF @ = "closed" THEN "live" ELSE @]

\* pool_pre_ping: a connection that died since its last use is replaced, and
\* one that was never opened is opened.
Prepare(r) ==
  /\ db = "up"
  /\ slot' = [slot EXCEPT ![Mine(r)] = "live"]

Connect(r) ==
  /\ pc[r] = "connect"
  /\ Prepare(r)
  /\ pc' = [pc EXCEPT ![r] = IF session[r] = "main" THEN "statement" ELSE "commit"]
  /\ UNCHANGED <<dbVars, crashes, conn, input, session, found, outcome, auditVars, weather>>

\* Mutant of Unavailable: health reports the outage with a 200.
UnavailableButHealthy(r) == IF IsSearch(r) THEN 503 ELSE 200

\* Mutant of Unavailable: no handler for OperationalError.
UnavailableUnhandled(r) == 500

\* The status both OperationalError handlers answer with.
Unavailable(r) == 503

\* The database refuses the connection, or TCP gives the attempt up:
\* OperationalError, and the connection goes back to the pool.
ConnectFails(r) ==
  /\ pc[r] = "connect"
  /\ db # "up"
  /\ slot' = [slot EXCEPT ![Mine(r)] = "closed"]
  /\ conn' = [conn EXCEPT ![r][session[r]] = NoSlot]
  /\ Fail(r, Unavailable(r))
  /\ UNCHANGED <<dbVars, crashes, input, session, found, auditVars, weather>>

-----------------------------------------------------------------------------
(***************************************************************************)
(* Statements                                                               *)
(***************************************************************************)

\* A statement goes through while its connection lives and the server answers.
Reaches(r) == slot[Mine(r)] = "live" /\ db = "up"

NextApp(r) == input[r].apps[Len(found[r]) + 1]

\* An application's search of this input raises what no handler handles: the
\* driver refuses a NUL (DataError), a `sub` that is no uuid cannot be compared
\* with case_manager_cases.assigned_to (DataError), and InvestigatorItem does not
\* validate a row whose `data` is no object (ValidationError).
Refuses(app, carried) ==
  \/ carried.nul
  \/ app \in OwnedApps /\ ~carried.uuid
  \/ app = "investigator" /\ carried.spoilt

Rejected(r) == Refuses(NextApp(r), input[r])

\* One strategy's SELECT: the loop goes on, or the audit write begins.
Query(r) ==
  /\ pc[r] = "statement" /\ IsSearch(r)
  /\ Reaches(r)
  /\ ~Rejected(r)
  /\ \E n \in Counts :
       found' = [found EXCEPT ![r] = Append(@, [app |-> NextApp(r), count |-> n])]
  /\ \/ /\ Len(found[r]) + 1 < Len(input[r].apps)
        /\ UNCHANGED <<pc, session>>
     \/ /\ Len(found[r]) + 1 = Len(input[r].apps)
        /\ pc' = [pc EXCEPT ![r] = "checkout"]
        /\ session' = [session EXCEPT ![r] = "audit"]
  /\ UNCHANGED <<dbVars, crashes, poolVars, input, outcome, auditVars, weather>>

\* The statement is refused, or a row of its page is: DataError or
\* ValidationError, a 500.
QueryRejected(r) ==
  /\ pc[r] = "statement" /\ IsSearch(r)
  /\ Reaches(r)
  /\ Rejected(r)
  /\ Raise(r, 500)
  /\ UNCHANGED <<dbVars, crashes, poolVars, input, session, found, auditVars, weather>>

\* The health probe's SELECT 1; its `with` block closes the session first.
Ping(r) ==
  /\ pc[r] = "statement" /\ ~IsSearch(r)
  /\ Reaches(r)
  /\ Raise(r, 200)
  /\ UNCHANGED <<dbVars, crashes, poolVars, input, session, found, auditVars, weather>>

\* search_audit_log.user_id is a uuid, and `query` text without a NUL.
Storable(r) == input[r].uuid /\ ~input[r].nul

\* _write's INSERT and COMMIT, at the server: all the rows or none.
Commit(r) ==
  /\ pc[r] = "commit"
  /\ Reaches(r)
  /\ Storable(r)
  /\ trail' = trail \cup AuditRows(r)
  /\ pc' = [pc EXCEPT ![r] = "ack"]
  /\ UNCHANGED <<dbVars, crashes, poolVars, input, session, found, outcome,
                 orphans, logged, counted, weather>>

\* The driver or the server refuses the INSERT: DataError.
CommitRejected(r) ==
  /\ pc[r] = "commit"
  /\ Reaches(r)
  /\ ~Storable(r)
  /\ pc' = [pc EXCEPT ![r] = "guard"]
  /\ UNCHANGED <<dbVars, crashes, poolVars, input, session, found, outcome, auditVars, weather>>

\* commit() returns, and the audit connection is back in the pool.
Ack(r) ==
  /\ pc[r] = "ack"
  /\ Reaches(r)
  /\ conn' = [conn EXCEPT ![r]["audit"] = NoSlot]
  /\ Conclude(r)
  /\ UNCHANGED <<dbVars, crashes, slot, input, session, found, auditVars, weather>>

\* A COMMIT on its way when the client gives up or dies may still reach a
\* server that has not restarted.
Undecided(r) == pc[r] = "commit" /\ Storable(r) /\ slot[Mine(r)] = "live"

\* The connection dies under a statement, or TCP gives a silent server up:
\* OperationalError.
ConnectionLost(r) ==
  /\ pc[r] \in {"statement", "commit", "ack"}
  /\ slot[Mine(r)] # "live" \/ db = "hung"
  /\ slot' = [slot EXCEPT ![Mine(r)] = "dead"]
  /\ orphans' = IF Undecided(r) THEN orphans \cup {r} ELSE orphans
  /\ Fail(r, Unavailable(r))
  /\ UNCHANGED <<dbVars, crashes, conn, input, session, found, trail, logged, counted, weather>>

\* Mutant of Log: the failure is swallowed with no log line.
LogNothing(r) == UNCHANGED logged

\* logger.exception
Log(r) == logged' = logged \cup {r}

\* Mutant of Rollback: an exception of the rollback is not guarded.
RollbackUnguarded(r) ==
  \/ conn' = [conn EXCEPT ![r]["audit"] = NoSlot] /\ Conclude(r)
  \/ /\ conn[r]["audit"] # NoSlot /\ slot[conn[r]["audit"]] = "dead"
     /\ UNCHANGED conn /\ Raise(r, 500)

\* The rollback gives the connection back, or raises on a dead one; _write
\* returns in both cases.
Rollback(r) ==
  /\ \/ conn' = [conn EXCEPT ![r]["audit"] = NoSlot]
     \/ conn[r]["audit"] # NoSlot /\ slot[conn[r]["audit"]] = "dead" /\ UNCHANGED conn
  /\ Conclude(r)

\* _write's except branch: the log line, the metric (whose failure is guarded),
\* the rollback (whose failure is guarded too).
Guard(r) ==
  /\ pc[r] = "guard"
  /\ Log(r)
  /\ counted' \in {counted, counted \cup {r}}
  /\ Rollback(r)
  /\ UNCHANGED <<dbVars, crashes, slot, input, session, found, trail, orphans, weather>>

-----------------------------------------------------------------------------
(***************************************************************************)
(* The end of a request                                                     *)
(***************************************************************************)

\* The 200 is sent while the sessions are still open.
Respond(r) ==
  /\ pc[r] = "respond"
  /\ pc' = [pc EXCEPT ![r] = "close"]
  /\ UNCHANGED <<dbVars, crashes, poolVars, input, session, found, outcome, auditVars, weather>>

\* The exit stack closes both sessions after the response is out.
Close(r) ==
  /\ pc[r] = "close"
  /\ Release(r)
  /\ pc' = [pc EXCEPT ![r] = "done"]
  /\ UNCHANGED <<dbVars, crashes, slot, input, session, found, outcome, auditVars, weather>>

\* With an exception the sessions are closed first, then the error is sent.
Unwind(r) ==
  /\ pc[r] = "unwind"
  /\ Release(r)
  /\ pc' = [pc EXCEPT ![r] = "done"]
  /\ UNCHANGED <<dbVars, crashes, slot, input, session, found, outcome, auditVars, weather>>

-----------------------------------------------------------------------------
(***************************************************************************)
(* The environment                                                          *)
(***************************************************************************)

\* Every request in flight has now seen the database both ways.
WeatherChanges == weather' = [r \in Requests |-> IF InFlight(r) THEN "mixed" ELSE weather[r]]

\* PostgreSQL stops: its connections die with it, undecided commits too.
DbStops ==
  /\ "down" \in OutageKinds
  /\ db = "up" /\ outages < MaxOutages
  /\ db' = "down" /\ outages' = outages + 1
  /\ slot' = [c \in Slots |-> IF slot[c] = "live" THEN "dead" ELSE slot[c]]
  /\ orphans' = {}
  /\ WeatherChanges
  /\ UNCHANGED <<crashes, input, pc, session, conn, found, outcome, trail, logged, counted>>

\* The database stops answering without closing anything.
DbHangs ==
  /\ "hung" \in OutageKinds
  /\ db = "up" /\ outages < MaxOutages
  /\ db' = "hung" /\ outages' = outages + 1
  /\ WeatherChanges
  /\ UNCHANGED <<crashes, slot, input, pc, session, conn, found, outcome, auditVars>>

DbRecovers ==
  /\ db # "up"
  /\ db' = "up"
  /\ WeatherChanges
  /\ UNCHANGED <<outages, crashes, slot, input, pc, session, conn, found, outcome, auditVars>>

\* The server finishes, or drops, a COMMIT whose client is gone.
OrphanCommits(r) ==
  /\ r \in orphans /\ db = "up"
  /\ trail' = trail \cup AuditRows(r)
  /\ orphans' = orphans \ {r}
  /\ UNCHANGED <<dbVars, crashes, poolVars, input, pc, session, found, outcome,
                 logged, counted, weather>>

OrphanDropped(r) ==
  /\ r \in orphans
  /\ orphans' = orphans \ {r}
  /\ UNCHANGED <<dbVars, crashes, poolVars, input, pc, session, found, outcome,
                 trail, logged, counted, weather>>

\* The process dies and a new one starts: its pool and its in-memory counter
\* start from nothing, the requests in flight are lost to their clients.
Crash ==
  /\ crashes < MaxCrashes
  /\ crashes' = crashes + 1
  /\ orphans' = orphans \cup {r \in Requests : Undecided(r)}
  /\ pc' = [r \in Requests |-> CASE pc[r] = "close" -> "done"
                                 [] InFlight(r) /\ pc[r] # "close" -> "lost"
                                 [] OTHER -> pc[r]]
  /\ conn' = [r \in Requests |-> [s \in Sessions |-> NoSlot]]
  /\ slot' = [c \in Slots |-> "closed"]
  /\ counted' = {}
  /\ UNCHANGED <<dbVars, input, session, found, outcome, trail, logged, weather>>

-----------------------------------------------------------------------------
\* Everything the service itself does for a request that has arrived.
Handle(r) ==
  \/ Checkout(r) \/ PoolTimeout(r) \/ Connect(r) \/ ConnectFails(r)
  \/ Query(r) \/ QueryRejected(r) \/ Ping(r)
  \/ Commit(r) \/ CommitRejected(r) \/ Ack(r) \/ ConnectionLost(r) \/ Guard(r)
  \/ Respond(r) \/ Close(r) \/ Unwind(r)

Next ==
  \/ \E r \in Requests : Refuse(r) \/ Accept(r) \/ Handle(r)
                         \/ OrphanCommits(r) \/ OrphanDropped(r)
  \/ DbStops \/ DbHangs \/ DbRecovers \/ Crash

Spec == Init /\ [][Next]_vars

\* The request waits for a server that does not answer.  The engine sets no
\* timeout for a connection attempt, a statement or a socket: while the host
\* keeps the connection alive nothing ends the wait.
Silent(r) ==
  /\ db = "hung"
  /\ \/ pc[r] = "connect"
     \/ pc[r] \in {"statement", "commit", "ack"} /\ slot[Mine(r)] = "live"

\* A request that has arrived is driven by its own thread, which the scheduler
\* does not starve, and the pool's own timeout always comes.  Clients, database
\* and crashes are under no obligation, nor is a server that is silent.
FairSpec == Spec /\ \A r \in Requests : WF_vars(Handle(r) /\ ~Silent(r))
=============================================================================
