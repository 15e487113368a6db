-------------------------------- MODULE Door --------------------------------
(***************************************************************************)
(* Admission as a specification: a state is a request with its verdict, a   *)
(* step changes one part of the request, so that an invariant says what is  *)
(* admitted and an action property what a verdict may not depend on.        *)
(***************************************************************************)
EXTENDS Admission

CONSTANTS
  Arrivals,   \* the requests, each a token and a body
  Entries,    \* what an entry of resource_access is changed into
  Contents,   \* what a searched column may hold
  MaxChanges  \* bound: how many parts of a request are changed

ASSUME ArrivalsAssumption == Arrivals \subseteq [token : TokenType, body : BodyType]
ASSUME EntriesAssumption == Entries \subseteq EntryType
ASSUME ContentsAssumption == Contents \subseteq Seq(STRING)

VARIABLES
  token,    \* the token, as TokenType describes it
  body,     \* the body, as BodyType describes it
  verdict,  \* what the endpoint gets to see, or the status of the refusal
  changes   \* how many parts have been changed

Init ==
  /\ \E request \in Arrivals : token = request.token /\ body = request.body
  /\ verdict = Admit(token, body)
  /\ changes = 0

Count == changes < MaxChanges /\ changes' = changes + 1

Change(entry) ==
  /\ Count
  /\ token' = [token EXCEPT !.access.entry = entry]
  /\ verdict' = Admit(token', body)
  /\ UNCHANGED body

ChangeStranger ==
  \E stranger \in Strangers, e \in Entries : Change([token.access.entry EXCEPT ![stranger] = e])

\* One well-formed entry becomes another: permissions move, trust does not.
ChangeRoles ==
  \E c \in Clients, e \in Entries :
    /\ token.access.entry[c].kind # "malformed" /\ e.kind # "malformed"
    /\ Change([token.access.entry EXCEPT ![c] = e])

\* A well-formed cursor is added for an application the user may not search.
AddStrayCursor ==
  \E name \in PaginatedApps \ {SearchApps(token.access)[i] : i \in DOMAIN SearchApps(token.access)} :
    /\ Count
    /\ body' = [body EXCEPT !.cursors =
                  [n \in DOMAIN body.cursors \cup {name} |->
                     IF n = name THEN "uuid" ELSE body.cursors[n]]]
    /\ name \notin DOMAIN body.cursors
    /\ verdict' = Admit(token, body')
    /\ UNCHANGED token

Next == ChangeStranger \/ ChangeRoles \/ AddStrayCursor

vars == <<token, body, verdict, changes>>

Spec == Init /\ [][Next]_vars

-----------------------------------------------------------------------------
Admitted == verdict.refused = NoStatus

\* What reaches the endpoint searches exactly the applications whose own client
\* carries the role "search", each once and in KNOWN_CLIENTS order
\* (auth/context.py:19, auth/deps.py:81).
ScopeIsExact ==
  Admitted =>
    /\ {verdict.apps[i] : i \in DOMAIN verdict.apps} =
         {AppOf[c] : c \in {d \in Clients : "search" \in token.access.entry[d].roles}}
    /\ \A i, j \in DOMAIN verdict.apps : i < j =>
         \E m, n \in DOMAIN KnownClients :
           m < n /\ AppOf[KnownClients[m]] = verdict.apps[i] /\ AppOf[KnownClients[n]] = verdict.apps[j]

\* No strategy is ever handed a cursor it cannot use: the assertion of
\* analytics.py:21 holds and UUID(cursor) never raises in the other two.
CursorsAreUsable ==
  Admitted => /\ CursorFor(body, "analytics") = "None"
              /\ \A app \in PaginatedApps : CursorFor(body, app) \in {"None", "uuid"}

\* "User input is always a literal term" (text.py:5): what was typed, blanks around
\* it aside, matches exactly the texts it occurs in, whichever of the characters
\* that mean something to LIKE are in it; a NUL never gets as far as PostgreSQL.
TermIsLiteral ==
  (Admitted /\ ~verdict.nul) => \A text \in Contents :
    Ilike(text, like_pattern(Stripped(body.query))) <=> Occurs(Stripped(body.query), text)

\* Entries of clients this API does not know, well-formed or not, change
\* nothing: "their entries can't inject permissions" (auth/deps.py:80).
StrangersDoNotMatter == [][ChangeStranger => verdict' = verdict]_vars

\* "401 = the token is not trustworthy, decided BEFORE looking at permissions"
\* (auth/deps.py:4): which roles a well-formed token carries never decides
\* whether it is accepted.
TrustBeforePermissions ==
  [][ChangeRoles => verdict'.refused = verdict.refused]_vars

\* A cursor for an application outside the scope is no "permission probe"
\* (service.py:33): it changes neither the verdict nor any cursor that is used.
StrayCursorUnnoticed ==
  [][AddStrayCursor =>
       /\ verdict' = verdict
       /\ \A i \in DOMAIN verdict.apps :
            CursorFor(body', verdict.apps[i]) = CursorFor(body, verdict.apps[i])]_vars

\* "azp is part of token trust" (auth/deps.py:57): whatever is wrong with a
\* token, and whatever the body says once it parses, the answer is 401.
UntrustedIs401 == (body.json /\ ~Trusted(token)) => verdict.refused = 401
=============================================================================
