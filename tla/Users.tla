------------------------------- MODULE Users -------------------------------
(***************************************************************************)
(* The mock realm: the personas whose roles, seeds and tests share, and the *)
(* factory of their tokens, as Admission sees a token.                      *)
(***************************************************************************)
EXTENDS Config

UserRoles == {"viewer", "search", "senior-investigator"}

\* client_id -> client roles
JOAO   == [c \in {"analytics-api", "investigator-api"} |->
             {"search", IF c = "analytics-api" THEN "viewer" ELSE "senior-investigator"}]
MARIA  == [c \in {"analytics-api"} |-> {"viewer", "search"}]
PEDRO  == [c \in {"investigator-api"} |-> {"search"}]
ANA    == [c \in {"case-manager-api"} |-> {"search"}]
CARLOS == [c \in {} |-> {}]
OUTRO  == ANA

ALL_USERS == {JOAO, MARIA, PEDRO, ANA, CARLOS, OUTRO}

\* A client of the realm that the API does not know.
Elsewhere == "elsewhere"

\* A client without roles has no entry at all.
ResourceAccess(user) ==
  [dict  |-> TRUE,
   entry |-> [c \in Clients \cup {Elsewhere} |->
                IF c \in DOMAIN user THEN [kind |-> "roles", roles |-> user[c]]
                                      ELSE [kind |-> "absent", roles |-> {}]]]

\* make_token: the keyword arguments a caller may forge a token with are azp, a
\* lifetime that may be negative, a secret, claims to drop, and claims to override.
make_token(user, azp, alive, genuine, sub) ==
  [header |-> "bearer",
   jwt    |-> CASE ~genuine -> "undecodable" [] genuine /\ ~alive -> "expired"
                [] genuine /\ alive -> "valid",
   azp    |-> azp, sub |-> sub, access |-> ResourceAccess(user)]

\* scripts/make_token.py: any persona, any azp, any lifetime; nothing is forged.
ScriptTokens ==
  {make_token(user, azp, alive, TRUE, "uuid") :
     user \in ALL_USERS, azp \in Clients \cup {Elsewhere}, alive \in BOOLEAN}
=============================================================================
