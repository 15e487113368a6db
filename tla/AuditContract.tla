--------------------------- MODULE AuditContract ---------------------------
(***************************************************************************)
(* What the search endpoint promises about its audit trail, with no word    *)
(* about sessions, connections or the order of statements: nothing is       *)
(* answered with data before its rows are committed or their loss is in     *)
(* the error log, the rows of a request appear all at once and say exactly  *)
(* what was returned, an error answer leaves no trace, and nothing that     *)
(* happens to the audit write turns data that was read into an error.       *)
(***************************************************************************)
EXTENDS Config

CONSTANTS
  Requests,   \* the requests
  Counts      \* how many rows one application may return

VARIABLES
  granted,    \* the applications each request may search, in order
  origin,     \* the application each request comes from
  returned,   \* the sections read for each request: all of them, or none yet
  trail,      \* the committed audit rows
  logged,     \* the requests whose lost audit write is in the error log
  answer      \* what each client was told

contractVars == <<granted, origin, returned, trail, logged, answer>>

NoAnswer == [status |-> NoStatus, sections |-> <<>>]
Errors   == [status : {401, 422, 500, 503}, sections : {<<>>}]

\* One row per returned section, or the one row of a denial.
Rows(r) ==
  IF granted[r] = <<>>
  THEN {[request |-> r, app |-> "NULL", origin |-> origin[r],
         results_count |-> <<>>, status |-> "denied"]}
  ELSE {[request |-> r, app |-> returned[r][i].app, origin |-> origin[r],
         results_count |-> <<returned[r][i].count>>, status |-> "ok"]
          : i \in DOMAIN returned[r]}

\* All there is to audit about a request is known.
Ready(r)    == granted[r] = <<>> \/ returned[r] # <<>>
Recorded(r) == Ready(r) /\ Rows(r) \subseteq trail
Open(r)     == answer[r] = NoAnswer

Init ==
  /\ granted \in [Requests -> Seq(Apps)]
  /\ origin \in [Requests -> Apps]
  /\ returned = [r \in Requests |-> <<>>]
  /\ trail = {} /\ logged = {}
  /\ answer = [r \in Requests |-> NoAnswer]

\* Every permitted application is searched, and no other.
Search(r) ==
  /\ Open(r) /\ ~Ready(r)
  /\ \E n \in [DOMAIN granted[r] -> Counts] :
       returned' = [returned EXCEPT ![r] =
                      [i \in DOMAIN granted[r] |-> [app |-> granted[r][i], count |-> n[i]]]]
  /\ UNCHANGED <<granted, origin, trail, logged, answer>>

\* All the rows are committed at once.  Only a write already reported as lost
\* may turn out to have been committed after the answer.
Record(r) ==
  /\ Ready(r)
  /\ Open(r) \/ r \in logged
  /\ trail' = trail \cup Rows(r)
  /\ UNCHANGED <<granted, origin, returned, logged, answer>>

\* The loss of the audit write is reported in the error log.
Report(r) ==
  /\ Ready(r) /\ Open(r)
  /\ logged' = logged \cup {r}
  /\ UNCHANGED <<granted, origin, returned, trail, answer>>

\* The data, or the denial: only once the trail or the log accounts for it.
Disclose(r) ==
  /\ Ready(r) /\ Open(r)
  /\ Recorded(r) \/ r \in logged
  /\ answer' = [answer EXCEPT ![r] =
       IF granted[r] = <<>> THEN [status |-> 403, sections |-> <<>>]
       ELSE [status |-> 200, sections |-> returned[r]]]
  /\ UNCHANGED <<granted, origin, returned, trail, logged>>

\* Any other answer: nothing was audited, and not everything was read.
Reject(r) ==
  /\ Open(r)
  /\ returned[r] = <<>>
  /\ ~Recorded(r) /\ r \notin logged
  /\ \E error \in Errors : answer' = [answer EXCEPT ![r] = error]
  /\ UNCHANGED <<granted, origin, returned, trail, logged>>

\* A request lost with the process is never answered: a stuttering step here.
Next == \E r \in Requests :
          Search(r) \/ Record(r) \/ Report(r) \/ Disclose(r) \/ Reject(r)

Spec == Init /\ [][Next]_contractVars
=============================================================================
