---------------------------- MODULE SearchApiMC ----------------------------
(***************************************************************************)
(* The instances of SearchApi that TLC checks.                              *)
(***************************************************************************)
EXTENDS SearchApiProperties, Users, TLC

CONSTANTS R1, R2, C1, C2

\* The inputs of the request path are the verdicts of Admission on the tokens of
\* the mock realm.
Gate == INSTANCE Admission WITH Strangers <- {Elsewhere}, Roles <- UserRoles

Body == [json |-> TRUE, query |-> <<"a", "%", Gate!Blank>>, limit |-> 50,
         cursors |-> [app \in {"case-manager"} |-> "uuid"]]

Mint(user, sub) == make_token(user, "analytics-api", TRUE, TRUE, sub)

\* What the door makes of a request, over tables whose rows are sound or spoilt.
Over(verdict, spoilt) == verdict @@ [spoilt |-> spoilt]
Admit(token, body)    == Over(Gate!Admit(token, body), FALSE)

SearchFor(user, sub) == Admit(Mint(user, sub), Body)

Probe == [kind |-> "health", refused |-> NoStatus, apps |-> <<>>, origin |-> "analytics",
          uuid |-> TRUE, nul |-> FALSE, spoilt |-> FALSE]

\* resource_access is overridden with the roles of two personas.
Everywhere == [c \in Clients |-> IF c \in DOMAIN JOAO THEN JOAO[c] ELSE ANA[c]]

WithNul == [Body EXCEPT !.query = <<"a", Gate!Nul>>]

Expired    == Admit(make_token(MARIA, "analytics-api", FALSE, TRUE, "uuid"), Body)
OddAzp     == Admit(make_token(MARIA, "Unhashable", TRUE, TRUE, "uuid"), Body)
OverLimit  == Admit(Mint(MARIA, "uuid"), [Body EXCEPT !.limit = 51])
OneApp     == SearchFor(ANA, "uuid")
TwoApps    == SearchFor(JOAO, "uuid")
NonUuid    == SearchFor(Everywhere, "text")
OddSub     == SearchFor(PEDRO, "text")
NoApp      == SearchFor(CARLOS, "uuid")
NulSearch  == Admit(Mint(JOAO, "uuid"), WithNul)
NulDenied  == Admit(Mint(CARLOS, "uuid"), WithNul)
SpoiltPage == Over(Gate!Admit(Mint(JOAO, "uuid"), Body), TRUE)

\* Every way a request can go.
AllInputs == {Expired, OddAzp, OverLimit, Probe, NoApp, OneApp, TwoApps, NonUuid, OddSub,
              NulSearch, NulDenied, SpoiltPage}
SomeInputs == {Probe, NoApp, TwoApps}
SearchInputs == {OneApp, TwoApps}
ProbeInputs == {Probe}
SpoiltInputs == {SpoiltPage}

RequestSymmetry == Permutations({R1, R2}) \cup Permutations({C1, C2})
=============================================================================
