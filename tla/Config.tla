------------------------------- MODULE Config -------------------------------
(***************************************************************************)
(* The static configuration every other module shares: the Keycloak        *)
(* clients the API trusts, the application each of them stands for, and     *)
(* the HTTP statuses the handlers answer with.                              *)
(***************************************************************************)
EXTENDS Naturals, Sequences

\* KNOWN_CLIENTS in declaration order: the dict is iterated, so order counts.
KnownClients == <<"analytics-api", "investigator-api", "case-manager-api">>

AppOf == [c \in {"analytics-api", "investigator-api", "case-manager-api"} |->
            CASE c = "analytics-api"    -> "analytics"
              [] c = "investigator-api" -> "investigator"
              [] c = "case-manager-api" -> "case-manager"]

Clients == {KnownClients[i] : i \in DOMAIN KnownClients}
Apps    == {AppOf[c] : c \in Clients}

\* The one application whose rows are filtered by the `sub` of the token,
\* which PostgreSQL must be able to read as a uuid.
OwnedApps == {"case-manager"}

\* The bounds of a query's length and of a section's rows.
QueryMinLength    == 2
QueryMaxLength    == 200
SearchResultLimit == 50

\* The sections that return rows and therefore have a cursor.
PaginatedApps == {"investigator", "case-manager"}

\* The HTTP statuses, and the one value that is none of them.
NoStatus == 0
Statuses == {200, 401, 403, 422, 500, 503}
=============================================================================
