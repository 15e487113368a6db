--------------------------- MODULE AdmissionProofs ---------------------------
(***************************************************************************)
(* What the door lets through, for every realm: any clients and roles, any  *)
(* tokens and bodies.                                                       *)
(***************************************************************************)
EXTENDS Door, TextProofs

AccessType == [dict : BOOLEAN, entry : [Clients \cup Strangers -> EntryType]]

\* The verdict is always that on the request as it stands.
DInv ==
  /\ token.access \in AccessType
  /\ DOMAIN token = {"header", "jwt", "azp", "sub", "access"}
  /\ body \in BodyType
  /\ verdict = Admit(token, body)

-----------------------------------------------------------------------------
LEMMA TheClients ==
  /\ Clients = {"analytics-api", "investigator-api", "case-manager-api"}
  /\ DOMAIN KnownClients = 1 .. 3
  /\ KnownClients[1] = "analytics-api"
  /\ KnownClients[2] = "investigator-api"
  /\ KnownClients[3] = "case-manager-api"
  /\ AppOf["analytics-api"] = "analytics"
  /\ AppOf["investigator-api"] = "investigator"
  /\ AppOf["case-manager-api"] = "case-manager"
  /\ Apps = {"analytics", "investigator", "case-manager"}
<1>1. DOMAIN KnownClients = {1, 2, 3}
  BY DEF KnownClients
<1>2. /\ KnownClients[1] = "analytics-api"
      /\ KnownClients[2] = "investigator-api"
      /\ KnownClients[3] = "case-manager-api"
  BY DEF KnownClients
<1>3. Clients = {"analytics-api", "investigator-api", "case-manager-api"}
  BY <1>1, <1>2 DEF Clients
<1>4. /\ AppOf["analytics-api"] = "analytics"
      /\ AppOf["investigator-api"] = "investigator"
      /\ AppOf["case-manager-api"] = "case-manager"
  BY DEF AppOf
<1>5. Apps = {"analytics", "investigator", "case-manager"}
  BY <1>3, <1>4 DEF Apps
<1>6. DOMAIN KnownClients = 1 .. 3
  BY <1>1
<1> QED BY <1>2, <1>3, <1>4, <1>5, <1>6

\* A permission is the application's own: roles of another client do not count.
LEMMA OwnRolesOnly ==
  ASSUME NEW access, NEW c \in Clients
  PROVE  MaySearch(access, c) <=> "search" \in access.entry[c].roles
<1>1. ASSUME NEW d \in Clients, NEW role, <<AppOf[c], "search">> = <<AppOf[d], role>>
      PROVE  d = c /\ role = "search"
  BY <1>1, TheClients
<1>2. MaySearch(access, c) <=>
        \E d \in Clients : \E role \in access.entry[d].roles : <<AppOf[c], "search">> = <<AppOf[d], role>>
  BY DEF MaySearch, Permissions
<1> QED BY <1>1, <1>2

\* search_apps with the names written out.
LEMMA TheScope ==
  ASSUME NEW access
  PROVE  SearchApps(access) =
           (IF MaySearch(access, "analytics-api") THEN <<"analytics">> ELSE <<>>)
           \o (IF MaySearch(access, "investigator-api") THEN <<"investigator">> ELSE <<>>)
           \o (IF MaySearch(access, "case-manager-api") THEN <<"case-manager">> ELSE <<>>)
BY TheClients DEF SearchApps

\* The order of KNOWN_CLIENTS, on the names of the applications.
Before == {<<"analytics", "investigator">>, <<"analytics", "case-manager">>,
           <<"investigator", "case-manager">>}

LEMMA BeforeIsTheOrder ==
  ASSUME NEW a, NEW b, <<a, b>> \in Before
  PROVE  \E m, n \in DOMAIN KnownClients :
           m < n /\ AppOf[KnownClients[m]] = a /\ AppOf[KnownClients[n]] = b
<1>1. \/ a = AppOf[KnownClients[1]] /\ b = AppOf[KnownClients[2]]
      \/ a = AppOf[KnownClients[1]] /\ b = AppOf[KnownClients[3]]
      \/ a = AppOf[KnownClients[2]] /\ b = AppOf[KnownClients[3]]
  BY TheClients DEF Before
<1> QED BY <1>1, TheClients

Elements(s) == {s[i] : i \in DOMAIN s}
Ordered(s)  == \A i, j \in DOMAIN s : i < j => <<s[i], s[j]>> \in Before

\* One step of the comprehension: an application is appended, or is not.
LEMMA OneMore ==
  ASSUME NEW s \in Seq(Apps), NEW app \in Apps, NEW piece \in {<<>>, <<app>>},
         Ordered(s),
         \A a \in Elements(s) : <<a, app>> \in Before
  PROVE  /\ s \o piece \in Seq(Apps)
         /\ Elements(s \o piece) = Elements(s) \cup Elements(piece)
         /\ Ordered(s \o piece)
<1>1. CASE piece = <<>>
  <2>1. s \o piece = s /\ Elements(piece) = {}
    BY <1>1, ConcatEmptySeq DEF Elements
  <2> QED BY <2>1
<1>2. CASE piece = <<app>>
  <2> DEFINE t == s \o piece
  <2>1. t = Append(s, app)
    BY <1>2, AppendIsConcat
  <2>2. /\ t \in Seq(Apps)
        /\ Len(t) = Len(s) + 1
        /\ \A i \in 1 .. Len(s) : t[i] = s[i]
        /\ t[Len(s) + 1] = app
        /\ Len(s) \in Nat /\ DOMAIN s = 1 .. Len(s) /\ DOMAIN t = 1 .. Len(s) + 1
    BY <2>1, AppendProperties, LenProperties
  <2> HIDE DEF t
  <2>3. \A i \in DOMAIN t : i \in DOMAIN s \/ i = Len(s) + 1
    BY <2>2
  <2>4. Elements(t) = Elements(s) \cup {app}
    BY <2>2, <2>3 DEF Elements
  <2>5. Elements(piece) = {app}
    BY <1>2 DEF Elements
  <2>6. ASSUME NEW i \in DOMAIN t, NEW j \in DOMAIN t, i < j
        PROVE  <<t[i], t[j]>> \in Before
    <3>1. i \in DOMAIN s /\ t[i] = s[i]
      BY <2>2, <2>6
    <3>2. CASE j \in DOMAIN s
      BY <2>2, <2>6, <3>1, <3>2 DEF Ordered
    <3>3. CASE j = Len(s) + 1
      BY <2>2, <3>1, <3>3 DEF Elements
    <3> QED BY <2>3, <3>2, <3>3
  <2>7. Ordered(t)
    BY <2>6 DEF Ordered
  <2> QED BY <2>2, <2>4, <2>5, <2>7 DEF t
<1> QED BY <1>1, <1>2

\* The scope holds the permitted applications, no other, in order.
LEMMA ScopeCorrect ==
  ASSUME NEW access
  PROVE  /\ SearchApps(access) \in Seq(Apps)
         /\ Elements(SearchApps(access)) =
              {AppOf[c] : c \in {d \in Clients : MaySearch(access, d)}}
         /\ Ordered(SearchApps(access))
<1> DEFINE A == IF MaySearch(access, "analytics-api") THEN <<"analytics">> ELSE <<>>
           I == IF MaySearch(access, "investigator-api") THEN <<"investigator">> ELSE <<>>
           C == IF MaySearch(access, "case-manager-api") THEN <<"case-manager">> ELSE <<>>
<1>1. /\ A \in {<<>>, <<"analytics">>}
      /\ I \in {<<>>, <<"investigator">>}
      /\ C \in {<<>>, <<"case-manager">>}
  OBVIOUS
<1>2. /\ Elements(A) \subseteq {"analytics"}
      /\ Elements(I) \subseteq {"investigator"}
      /\ \A s \in Seq(Apps) : <<>> \o s = s
      /\ Elements(<<>>) = {} /\ Ordered(<<>>) /\ <<>> \in Seq(Apps)
  BY ConcatEmptySeq DEF Elements, Ordered
<1>3. {AppOf[c] : c \in {d \in Clients : MaySearch(access, d)}} =
        Elements(A) \cup Elements(I) \cup Elements(C)
  <2>1. \A app : Elements(<<app>>) = {app}
    BY DEF Elements
  <2>2. /\ Elements(A) = IF MaySearch(access, "analytics-api") THEN {"analytics"} ELSE {}
        /\ Elements(I) = IF MaySearch(access, "investigator-api") THEN {"investigator"} ELSE {}
        /\ Elements(C) = IF MaySearch(access, "case-manager-api") THEN {"case-manager"} ELSE {}
    BY <1>2, <2>1
  <2> QED BY <2>2, TheClients
<1>4. SearchApps(access) = A \o I \o C
  BY TheScope
<1>5. "analytics" \in Apps /\ "investigator" \in Apps /\ "case-manager" \in Apps
  BY TheClients
<1> HIDE DEF A, I, C
<1>6. A \in Seq(Apps) /\ Ordered(A)
  <2>1. /\ <<>> \o A \in Seq(Apps)
        /\ Ordered(<<>> \o A)
    BY <1>1, <1>2, <1>5, OneMore
  <2>2. <<>> \in Seq(Apps) /\ <<"analytics">> \in Seq(Apps)
    BY <1>5, EmptySeq
  <2>3. A \in Seq(Apps)
    BY <1>1, <2>2
  <2> QED BY <1>2, <2>1, <2>3
<1>7. /\ A \o I \in Seq(Apps) /\ Ordered(A \o I)
      /\ Elements(A \o I) = Elements(A) \cup Elements(I)
  <2>1. \A a \in Elements(A) : <<a, "investigator">> \in Before
    BY <1>2 DEF Before
  <2> QED BY <1>1, <1>5, <1>6, <2>1, OneMore
<1>8. /\ A \o I \o C \in Seq(Apps) /\ Ordered(A \o I \o C)
      /\ Elements(A \o I \o C) = Elements(A \o I) \cup Elements(C)
  <2>1. \A a \in Elements(A \o I) : <<a, "case-manager">> \in Before
    BY <1>2, <1>7 DEF Before
  <2> QED BY <1>1, <1>5, <1>7, <2>1, OneMore
<1> QED BY <1>3, <1>4, <1>7, <1>8

-----------------------------------------------------------------------------
\* The verdict in every reachable state is Admit of the request.
LEMMA DoorInvariant == Spec => []DInv
<1>1. Init => DInv
  <2> SUFFICES ASSUME Init PROVE DInv
    OBVIOUS
  <2>1. PICK request \in Arrivals : token = request.token /\ body = request.body
    BY DEF Init
  <2>2. token \in TokenType /\ body \in BodyType
    BY <2>1, ArrivalsAssumption
  <2>3. verdict = Admit(token, body)
    BY DEF Init
  <2>4. /\ DOMAIN token = {"header", "jwt", "azp", "sub", "access"}
        /\ token.access \in AccessType
    BY <2>2 DEF TokenType, AccessType
  <2> QED BY <2>2, <2>3, <2>4 DEF DInv
<1>2. DInv /\ [Next]_vars => DInv'
  <2> SUFFICES ASSUME DInv, [Next]_vars PROVE DInv'
    OBVIOUS
  <2>1. ASSUME NEW c \in Clients \cup Strangers, NEW e \in Entries,
               Change([token.access.entry EXCEPT ![c] = e])
        PROVE  DInv'
    <3>1. [token.access.entry EXCEPT ![c] = e] \in [Clients \cup Strangers -> EntryType]
      BY EntriesAssumption DEF DInv, AccessType
    <3>2. /\ token' = [token EXCEPT !.access.entry = [token.access.entry EXCEPT ![c] = e]]
          /\ verdict' = Admit(token', body) /\ body' = body
      BY <2>1 DEF Change
    <3>3. token'.access \in AccessType /\ DOMAIN token' = DOMAIN token
      BY <3>1, <3>2 DEF DInv, AccessType
    <3> QED BY <3>2, <3>3 DEF DInv
  <2>2. CASE ChangeStranger
    BY <2>1, <2>2 DEF ChangeStranger
  <2>3. CASE ChangeRoles
    BY <2>1, <2>3 DEF ChangeRoles
  <2>4. CASE AddStrayCursor
    <3>1. PICK name \in PaginatedApps :
            /\ body' = [body EXCEPT !.cursors = [n \in DOMAIN body.cursors \cup {name} |->
                                                  IF n = name THEN "uuid" ELSE body.cursors[n]]]
            /\ verdict' = Admit(token, body')
            /\ token' = token
      BY <2>4 DEF AddStrayCursor
    <3> DEFINE cursors == [n \in DOMAIN body.cursors \cup {name} |->
                             IF n = name THEN "uuid" ELSE body.cursors[n]]
    <3>2. PICK N \in SUBSET CursorNames : body.cursors \in [N -> {"uuid", "text"}]
      BY DEF DInv, BodyType
    <3>3. name \in CursorNames
      BY TheClients DEF PaginatedApps, CursorNames
    <3>4. /\ N \cup {name} \in SUBSET CursorNames
          /\ cursors \in [N \cup {name} -> {"uuid", "text"}]
      BY <3>2, <3>3
    <3>5. cursors \in UNION {[M -> {"uuid", "text"}] : M \in SUBSET CursorNames}
      BY <3>4
    <3> HIDE DEF cursors
    <3>6. body' = [body EXCEPT !.cursors = cursors]
      BY <3>1 DEF cursors
    <3>7. body' \in BodyType
      BY <3>5, <3>6 DEF DInv, BodyType
    <3> QED BY <3>1, <3>7 DEF DInv
  <2>5. CASE UNCHANGED vars
    BY <2>5 DEF DInv, vars
  <2> QED BY <2>2, <2>3, <2>4, <2>5 DEF Next
<1> QED BY <1>1, <1>2, PTL DEF Spec

\* What an admitted request is known to be.
LEMMA WhatIsAdmitted ==
  ASSUME DInv, Admitted
  PROVE  /\ verdict.apps = SearchApps(token.access)
         /\ ValidBody(body)
<1>1. verdict.refused = Refused(token, body) /\ Refused(token, body) = NoStatus
  BY DEF DInv, Admitted, Admit
<1>2. verdict.apps = SearchApps(token.access)
  BY <1>1 DEF DInv, Admit
<1>3. CASE ~body.json
  BY <1>1, <1>3 DEF Refused, NoStatus
<1>4. CASE body.json /\ ~Trusted(token)
  <2>1. Refused(token, body) = AuthStatus(token)
    BY <1>4 DEF Refused
  <2> QED BY <1>1, <1>4, <2>1 DEF AuthStatus, NoStatus
<1>5. CASE body.json /\ Trusted(token)
  BY <1>1, <1>2, <1>5 DEF Refused, NoStatus
<1> QED BY <1>3, <1>4, <1>5

\* Whatever the token and the body, the request path is given an input of the
\* type it assumes (InputType, but for the state of the table), and only a token
\* whose azp is no string leaves with a 500.
THEOREM AdmitGivesInputs ==
  ASSUME NEW t, NEW b
  PROVE  /\ Admit(t, b) \in [kind : {"search"}, refused : {NoStatus, 401, 422, 500},
                             apps : Seq(Apps), origin : Apps, uuid : BOOLEAN, nul : BOOLEAN]
         /\ Admit(t, b).refused = 500 => t.azp = "Unhashable"
<1>1. AuthStatus(t) \in {NoStatus, 401, 500} /\ (AuthStatus(t) = 500 => t.azp = "Unhashable")
  BY DEF AuthStatus, Breaks, NoStatus
<1>2. /\ Refused(t, b) \in {NoStatus, 401, 422, 500}
      /\ Refused(t, b) = 500 => t.azp = "Unhashable"
  <2>1. CASE ~b.json
    BY <2>1 DEF Refused
  <2>2. CASE b.json /\ ~Trusted(t)
    BY <1>1, <2>2 DEF Refused
  <2>3. CASE b.json /\ Trusted(t)
    BY <2>3 DEF Refused, NoStatus
  <2> QED BY <2>1, <2>2, <2>3
<1>3. SearchApps(t.access) \in Seq(Apps) /\ <<>> \in Seq(Apps)
  BY ScopeCorrect
<1>4. (IF t.azp \in Clients THEN AppOf[t.azp] ELSE "analytics") \in Apps
  <2>1. \A c \in Clients : AppOf[c] \in Apps
    BY DEF Apps
  <2>2. "analytics" \in Apps
    BY TheClients
  <2> QED BY <2>1, <2>2
<1>5. (IF Refused(t, b) = NoStatus THEN SearchApps(t.access) ELSE <<>>) \in Seq(Apps)
  BY <1>3
<1>6. HoldsNul(Stripped(b.query)) \in BOOLEAN
  BY DEF HoldsNul
<1> QED BY <1>2, <1>4, <1>5, <1>6 DEF Admit

\* An admitted request searches exactly the applications whose own client
\* carries the role "search", in KNOWN_CLIENTS order (auth/context.py:19).
THEOREM ScopeIsExactHolds == Spec => []ScopeIsExact
<1>1. DInv => ScopeIsExact
  <2> SUFFICES ASSUME DInv, Admitted
               PROVE  /\ {verdict.apps[i] : i \in DOMAIN verdict.apps} =
                           {AppOf[c] : c \in {d \in Clients : "search" \in token.access.entry[d].roles}}
                      /\ \A i, j \in DOMAIN verdict.apps : i < j =>
                           \E m, n \in DOMAIN KnownClients :
                             m < n /\ AppOf[KnownClients[m]] = verdict.apps[i]
                                   /\ AppOf[KnownClients[n]] = verdict.apps[j]
    BY DEF ScopeIsExact
  <2>1. verdict.apps = SearchApps(token.access)
    BY WhatIsAdmitted
  <2>2. \A d \in Clients : MaySearch(token.access, d) <=> "search" \in token.access.entry[d].roles
    BY OwnRolesOnly
  <2>3. /\ Elements(verdict.apps) =
             {AppOf[c] : c \in {d \in Clients : MaySearch(token.access, d)}}
        /\ Ordered(verdict.apps)
    BY <2>1, ScopeCorrect
  <2>4. Elements(verdict.apps) =
          {AppOf[c] : c \in {d \in Clients : "search" \in token.access.entry[d].roles}}
    BY <2>2, <2>3
  <2>5. ASSUME NEW i \in DOMAIN verdict.apps, NEW j \in DOMAIN verdict.apps, i < j
        PROVE  \E m, n \in DOMAIN KnownClients :
                 m < n /\ AppOf[KnownClients[m]] = verdict.apps[i]
                       /\ AppOf[KnownClients[n]] = verdict.apps[j]
    <3>1. <<verdict.apps[i], verdict.apps[j]>> \in Before
      BY <2>3, <2>5 DEF Ordered
    <3> QED BY <3>1, BeforeIsTheOrder
  <2> QED BY <2>4, <2>5 DEF Elements
<1> QED BY <1>1, DoorInvariant, PTL

\* No strategy is handed a cursor it cannot use (analytics.py:21).
THEOREM CursorsAreUsableHolds == Spec => []CursorsAreUsable
<1>1. DInv => CursorsAreUsable
  <2> SUFFICES ASSUME DInv, Admitted
               PROVE  /\ CursorFor(body, "analytics") = "None"
                      /\ \A app \in PaginatedApps : CursorFor(body, app) \in {"None", "uuid"}
    BY DEF CursorsAreUsable
  <2>1. ValidCursors(body.cursors)
    BY WhatIsAdmitted DEF ValidBody
  <2>2. "analytics" \notin DOMAIN body.cursors
    BY <2>1 DEF ValidCursors, PaginatedApps
  <2> QED BY <2>1, <2>2 DEF ValidCursors, CursorFor
<1> QED BY <1>1, DoorInvariant, PTL

\* What an admitted query finds is what it spells (text.py:5), whatever the
\* columns hold.
THEOREM TermIsLiteralHolds == Spec => []TermIsLiteral
<1>1. DInv => TermIsLiteral
  <2> SUFFICES ASSUME DInv, NEW text \in Contents
               PROVE  Ilike(text, like_pattern(Stripped(body.query))) <=>
                        Occurs(Stripped(body.query), text)
    BY DEF TermIsLiteral
  <2>1. body.query \in Seq(STRING)
    BY DEF DInv, BodyType
  <2>2. text \in Seq(STRING)
    BY ContentsAssumption
  <2> QED BY <2>1, <2>2, QueryIsLiteral
<1> QED BY <1>1, DoorInvariant, PTL

-----------------------------------------------------------------------------
(***************************************************************************)
(* What a verdict does not depend on                                        *)
(***************************************************************************)

\* Two tokens that differ in resource_access at most.
Alike(t, u) ==
  t.header = u.header /\ t.jwt = u.jwt /\ t.azp = u.azp /\ t.sub = u.sub

\* Whether a token is trusted depends on which entries of known clients are
\* malformed, and the scope on their roles.
LEMMA TrustOfAlike ==
  ASSUME NEW t, NEW u, Alike(t, u), t.access.dict = u.access.dict,
         \A c \in Clients : t.access.entry[c].kind = "malformed" <=> u.access.entry[c].kind = "malformed"
  PROVE  (Trusted(t) <=> Trusted(u)) /\ AuthStatus(t) = AuthStatus(u)
<1>1. Normalizes(t.access) <=> Normalizes(u.access)
  BY DEF Normalizes
<1>2. (Trusted(t) <=> Trusted(u)) /\ (Breaks(t) <=> Breaks(u))
  BY <1>1 DEF Trusted, Breaks, Presented, Decoded, Alike
<1> QED BY <1>2 DEF AuthStatus

LEMMA ScopeOfAlike ==
  ASSUME NEW a, NEW b, \A c \in Clients : a.entry[c] = b.entry[c]
  PROVE  SearchApps(a) = SearchApps(b)
<1>1. \A c \in Clients : MaySearch(a, c) <=> MaySearch(b, c)
  BY OwnRolesOnly
<1> QED BY <1>1, TheScope, TheClients

LEMMA RefusedOfAlike ==
  ASSUME NEW t, NEW u, Trusted(t) <=> Trusted(u), AuthStatus(t) = AuthStatus(u), NEW b
  PROVE  Refused(t, b) = Refused(u, b)
BY DEF Refused

\* A changed entry, and what stays as it was.
LEMMA ChangedEntry ==
  ASSUME DInv, NEW c \in Clients \cup Strangers, NEW e,
         Change([token.access.entry EXCEPT ![c] = e])
  PROVE  /\ Alike(token', token) /\ token'.access.dict = token.access.dict
         /\ \A d \in Clients : d # c => token'.access.entry[d] = token.access.entry[d]
         /\ token'.access.entry[c] = e
         /\ body' = body /\ verdict' = Admit(token', body)
<1>1. token' = [token EXCEPT !.access.entry = [token.access.entry EXCEPT ![c] = e]]
  BY DEF Change
<1>2. /\ token'.access = [token.access EXCEPT !.entry = [token.access.entry EXCEPT ![c] = e]]
      /\ Alike(token', token)
  BY <1>1 DEF DInv, Alike
<1>3. /\ token'.access.entry = [token.access.entry EXCEPT ![c] = e]
      /\ token'.access.dict = token.access.dict
  BY <1>2 DEF DInv, AccessType
<1> QED BY <1>2, <1>3 DEF Change, DInv, AccessType

\* Entries of clients this API does not know change nothing (auth/deps.py:80).
THEOREM StrangersDoNotMatterHolds == Spec => StrangersDoNotMatter
<1>1. DInv /\ [Next]_vars => [ChangeStranger => verdict' = verdict]_vars
  <2> SUFFICES ASSUME DInv, ChangeStranger PROVE verdict' = verdict
    OBVIOUS
  <2>1. PICK stranger \in Strangers, e \in Entries :
          Change([token.access.entry EXCEPT ![stranger] = e])
    BY DEF ChangeStranger
  <2>2. \A d \in Clients : d # stranger
    BY StrangersAssumption
  <2>3. /\ Alike(token', token) /\ token'.access.dict = token.access.dict
        /\ \A d \in Clients : token'.access.entry[d] = token.access.entry[d]
        /\ verdict' = Admit(token', body)
    BY <2>1, <2>2, ChangedEntry
  <2>4. Refused(token', body) = Refused(token, body)
    BY <2>3, TrustOfAlike, RefusedOfAlike
  <2>5. SearchApps(token'.access) = SearchApps(token.access)
    BY <2>3, ScopeOfAlike
  <2>6. Admit(token', body) = Admit(token, body)
    BY <2>3, <2>4, <2>5 DEF Admit, Alike
  <2> QED BY <2>3, <2>6 DEF DInv
<1> QED BY <1>1, DoorInvariant, PTL DEF Spec, StrangersDoNotMatter

\* Which roles a well-formed token carries never decides whether it is accepted
\* (auth/deps.py:4).
THEOREM TrustBeforePermissionsHolds == Spec => TrustBeforePermissions
<1>1. DInv /\ [Next]_vars => [ChangeRoles => verdict'.refused = verdict.refused]_vars
  <2> SUFFICES ASSUME DInv, ChangeRoles PROVE verdict'.refused = verdict.refused
    OBVIOUS
  <2>1. PICK c \in Clients, e \in Entries :
          /\ token.access.entry[c].kind # "malformed" /\ e.kind # "malformed"
          /\ Change([token.access.entry EXCEPT ![c] = e])
    BY DEF ChangeRoles
  <2>2. /\ Alike(token', token) /\ token'.access.dict = token.access.dict
        /\ \A d \in Clients : d # c => token'.access.entry[d] = token.access.entry[d]
        /\ token'.access.entry[c] = e
        /\ verdict' = Admit(token', body)
    BY <2>1, ChangedEntry
  <2>3. \A d \in Clients :
          token'.access.entry[d].kind = "malformed" <=> token.access.entry[d].kind = "malformed"
    BY <2>1, <2>2
  <2>4. Refused(token', body) = Refused(token, body)
    BY <2>2, <2>3, TrustOfAlike, RefusedOfAlike
  <2> QED BY <2>2, <2>4 DEF DInv, Admit
<1> QED BY <1>1, DoorInvariant, PTL DEF Spec, TrustBeforePermissions

\* A cursor for an application outside the scope changes neither the verdict nor
\* any cursor that is used (service.py:33).
THEOREM StrayCursorUnnoticedHolds == Spec => StrayCursorUnnoticed
<1>1. ASSUME DInv, AddStrayCursor
      PROVE  /\ verdict' = verdict
             /\ \A i \in DOMAIN verdict.apps :
                  CursorFor(body', verdict.apps[i]) = CursorFor(body, verdict.apps[i])
  <2>1. PICK name \in PaginatedApps \ Elements(SearchApps(token.access)) :
          /\ body' = [body EXCEPT !.cursors = [n \in DOMAIN body.cursors \cup {name} |->
                                                IF n = name THEN "uuid" ELSE body.cursors[n]]]
          /\ name \notin DOMAIN body.cursors
          /\ verdict' = Admit(token, body')
    BY <1>1 DEF AddStrayCursor, Elements
  <2> DEFINE cursors == [n \in DOMAIN body.cursors \cup {name} |->
                           IF n = name THEN "uuid" ELSE body.cursors[n]]
  <2>2. /\ body'.cursors = cursors
        /\ body'.json = body.json /\ body'.query = body.query /\ body'.limit = body.limit
    BY <1>1, <2>1 DEF DInv, BodyType
  <2>3. /\ DOMAIN cursors = DOMAIN body.cursors \cup {name} /\ cursors[name] = "uuid"
        /\ \A n \in DOMAIN body.cursors : cursors[n] = body.cursors[n]
    BY <2>1
  <2> HIDE DEF cursors
  <2>4. ValidCursors(body'.cursors) <=> ValidCursors(body.cursors)
    BY <2>1, <2>2, <2>3 DEF ValidCursors
  <2>5. Refused(token, body') = Refused(token, body)
    BY <2>2, <2>4 DEF Refused, ValidBody
  <2>6. verdict' = verdict
    BY <1>1, <2>1, <2>5 DEF DInv, Admit
  <2>7. ASSUME NEW i \in DOMAIN verdict.apps
        PROVE  CursorFor(body', verdict.apps[i]) = CursorFor(body, verdict.apps[i])
    <3>1. verdict.apps = SearchApps(token.access) \/ verdict.apps = <<>>
      BY <1>1 DEF DInv, Admit
    <3>2. verdict.apps[i] # name
      BY <2>1, <2>7, <3>1 DEF Elements
    <3> QED BY <2>2, <2>3, <3>2 DEF CursorFor
  <2> QED BY <2>6, <2>7
<1>2. DInv /\ [Next]_vars =>
        [AddStrayCursor =>
           /\ verdict' = verdict
           /\ \A i \in DOMAIN verdict.apps :
                CursorFor(body', verdict.apps[i]) = CursorFor(body, verdict.apps[i])]_vars
  BY <1>1
<1> QED BY <1>2, DoorInvariant, PTL DEF Spec, StrayCursorUnnoticed
=============================================================================
