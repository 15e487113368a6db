----------------------------- MODULE Admission -----------------------------
(***************************************************************************)
(* What happens to a request before it touches the database: the bearer     *)
(* token becomes an authenticated context or a 401, the body becomes a      *)
(* SearchRequest or a 422, and the context decides which applications are   *)
(* searched.  Pure: every verdict depends on the request alone.             *)
(***************************************************************************)
EXTENDS Text, Integers

CONSTANTS
  Strangers,    \* clients of the realm this API does not know
  Roles         \* the role names that tokens carry, "search" among them

ASSUME StrangersAssumption == Strangers \cap Clients = {}
ASSUME RolesAssumption == "search" \in Roles

(***************************************************************************)
(* A request                                                                *)
(***************************************************************************)

\* A client's entry in resource_access: missing (or null), not an object with a
\* list of strings under "roles", or its roles.
EntryType == [kind : {"absent", "malformed"}, roles : {{}}]
             \cup [kind : {"roles"}, roles : SUBSET Roles]

\* "Unhashable" stands for a JSON array or object where azp should be a string.
TokenType ==
  [header : {"absent", "other", "bearer"},
   jwt    : {"undecodable", "expired", "valid"},
   azp    : Clients \cup Strangers \cup {"Unhashable"},
   sub    : {"uuid", "text"},
   access : [dict : BOOLEAN, entry : [Clients \cup Strangers -> EntryType]]]

\* A cursor is a uuid or not, and its name is an application or not.
CursorNames == Apps \cup {"elsewhere"}

BodyType ==
  [json : BOOLEAN,
   query : Seq(STRING),
   limit : Int,
   cursors : UNION {[N -> {"uuid", "text"}] : N \in SUBSET CursorNames}]

-----------------------------------------------------------------------------
(***************************************************************************)
(* app/auth: the token                                                      *)
(***************************************************************************)

\* The header is a non-empty bearer token.
Presented(token) == token.header = "bearer"

\* jwt.decode accepts it: signature, algorithm, expiry and required claims.
Decoded(token) == token.jwt = "valid"

\* Mutant of Normalizes: iterates over the token instead of KNOWN_CLIENTS.
NormalizesToken(access) ==
  access.dict /\ \A c \in DOMAIN access.entry : access.entry[c].kind # "malformed"

\* _normalize_permissions: entries of unknown clients are never looked at.
Normalizes(access) ==
  access.dict /\ \A c \in Clients : access.entry[c].kind # "malformed"

Permissions(access) ==
  UNION {{<<AppOf[c], role>> : role \in access.entry[c].roles} : c \in Clients}

\* Mutant of Trusted: a token without any role is not accepted.
TrustedWithRoles(token) ==
  /\ Presented(token)
  /\ Decoded(token)
  /\ token.azp \in Clients
  /\ Normalizes(token.access)
  /\ Permissions(token.access) # {}

\* get_auth_context returns a context.
Trusted(token) ==
  /\ Presented(token)
  /\ Decoded(token)
  /\ token.azp \in Clients
  /\ Normalizes(token.access)

\* The membership test of azp raises TypeError, which nothing handles.
Breaks(token) == Presented(token) /\ Decoded(token) /\ token.azp = "Unhashable"

AuthStatus(token) ==
  IF Trusted(token) THEN NoStatus ELSE IF Breaks(token) THEN 500 ELSE 401

\* Mutant of MaySearch: the application half of `<app>:search` is not compared.
MaySearchAnywhere(access, client) ==
  \E permission \in Permissions(access) : permission[2] = "search"

\* AuthContext.search_apps, in KNOWN_CLIENTS order whatever the token's.
MaySearch(access, client) == <<AppOf[client], "search">> \in Permissions(access)

SearchApps(access) ==
  LET IfPermitted(client) == IF MaySearch(access, client) THEN <<AppOf[client]>> ELSE <<>>
  IN  IfPermitted(KnownClients[1]) \o IfPermitted(KnownClients[2]) \o IfPermitted(KnownClients[3])

-----------------------------------------------------------------------------
(***************************************************************************)
(* app/schemas/search.py: the body                                          *)
(***************************************************************************)

\* Mutant of ValidCursors: analytics is a key like the others.
ValidCursorValues(cursors) ==
  \A name \in DOMAIN cursors : name \in Apps /\ cursors[name] = "uuid"

ValidCursors(cursors) ==
  \A name \in DOMAIN cursors : name \in PaginatedApps /\ cursors[name] = "uuid"

ValidBody(body) ==
  Accepted(body.query) /\ body.limit \in 1 .. SearchResultLimit /\ ValidCursors(body.cursors)

-----------------------------------------------------------------------------
(***************************************************************************)
(* The verdict                                                              *)
(***************************************************************************)

\* Mutant of Refused: cursors for applications outside the scope are rejected.
RefusedForStrayCursor(token, body) ==
  CASE ~body.json -> 422
    [] body.json /\ ~Trusted(token) -> AuthStatus(token)
    [] body.json /\ Trusted(token) ->
         IF /\ ValidBody(body)
            /\ \A name \in DOMAIN body.cursors :
                 \E i \in DOMAIN SearchApps(token.access) : SearchApps(token.access)[i] = name
         THEN NoStatus ELSE 422

\* FastAPI parses the JSON, then resolves the dependencies, then validates the
\* body against the schema: the first to fail decides.
Refused(token, body) ==
  CASE ~body.json -> 422
    [] body.json /\ ~Trusted(token) -> AuthStatus(token)
    [] body.json /\ Trusted(token) -> IF ValidBody(body) THEN NoStatus ELSE 422

\* What run_search gets to see of a request that reaches it.
Admit(token, body) ==
  LET refused == Refused(token, body) IN
  [kind    |-> "search",
   refused |-> refused,
   apps    |-> IF refused = NoStatus THEN SearchApps(token.access) ELSE <<>>,
   origin  |-> IF token.azp \in Clients THEN AppOf[token.azp] ELSE "analytics",
   uuid    |-> token.sub = "uuid",
   nul     |-> HoldsNul(Stripped(body.query))]

\* The cursor the service loop hands to one application's strategy.
CursorFor(body, app) == IF app \in DOMAIN body.cursors THEN body.cursors[app] ELSE "None"
=============================================================================
