------------------------------ MODULE Sections ------------------------------
(***************************************************************************)
(* What a search answers: the three strategies over their tables, for one   *)
(* user and one query, and a client that walks both paginated sections *)
(* at once, a request for the next page of each, while the applications     *)
(* that own the tables change and delete rows.                              *)
(*                                                                          *)
(* The statements of one request run one after the other, each on its own   *)
(* snapshot (READ COMMITTED), so that a writer may come between them.       *)
(***************************************************************************)
EXTENDS Text, Paging

CONSTANTS
  query,            \* the text searched for, as the request model lets it through
  User,             \* the `sub` of the token
  Scope,            \* context.search_apps
  SearchableTypes,  \* SEARCHABLE_TYPES
  Ids,              \* the ids of the rows, in uuid order
  NoRow,            \* what a table has under an id that was deleted
  Limits,           \* the page sizes the client asks for
  Starts,           \* what the tables may hold to begin with
  Writes,           \* what the writers may turn a row of each table into
  MaxWrites,        \* bound: how many rows they write
  KeepsAll          \* whether the client keeps what a finished section is sent again

\* What the tables hold.
ReportRow == [title : Seq(STRING), content : Seq(STRING), month : STRING]
EntityRow == [type : STRING, name : Seq(STRING)]
CaseRow   == [title : Seq(STRING), assigned_to : STRING]

Tables == [reports : [Ids -> ReportRow \cup {NoRow}], entities : [Ids -> EntityRow \cup {NoRow}],
           cases : [Ids -> CaseRow \cup {NoRow}]]

ASSUME StartsAssumption == Starts \subseteq Tables
ASSUME WritesAssumption ==
  Writes \in [reports : SUBSET ReportRow, entities : SUBSET EntityRow, cases : SUBSET CaseRow]
ASSUME QueryAssumption == query \in Seq(STRING)
ASSUME ScopeAssumption == Scope \in Seq(Apps)
ASSUME RowIdsAssumption == Ids \subseteq Nat /\ IsFiniteSet(Ids) /\ None \notin Ids
ASSUME PageSizesAssumption == Limits \subseteq Nat \ {0}
ASSUME ClientAssumption == KeepsAll \in BOOLEAN
ASSUME WriteBoundAssumption == MaxWrites \in Nat

VARIABLES
  reports,   \* analytics_reports: [title, content, month]
  entities,  \* investigator_entities: [type, name]
  cases,     \* case_manager_cases: [title, assigned_to]
  writes,    \* how many rows have been written so far
  todo,      \* the applications the current request has yet to search
  size,      \* the limit of the current request
  phase,     \* each section's walk: "start", "paging" or "done"
  cursor,    \* each section's last next_cursor
  pages,     \* the pages kept of each section
  stable,    \* history: the rows that match since the section's first page
  left       \* history: whether a row stopped matching since its last page

tables  == <<reports, entities, cases>>
walk    == <<phase, cursor, pages, stable, left>>
vars    == <<tables, writes, todo, size, walk>>

-----------------------------------------------------------------------------
(***************************************************************************)
(* app/services/search: the statements                                      *)
(***************************************************************************)

\* What every column is compared with.
pattern == like_pattern(query)

Matches(text) == Ilike(text, pattern)

\* "Busca apenas em conteudo": the title never enters the WHERE clause.
AnalyticsRows == {x \in Ids : reports[x] # NoRow /\ Matches(reports[x].content)}

\* The row is of an allowed type, and its name matches.
InvestigatorFinds(x) ==
  /\ entities[x] # NoRow
  /\ entities[x].type \in SearchableTypes
  /\ Matches(entities[x].name)

\* Mutant of CaseManagerFinds: everybody's cases are searched.
CaseManagerFindsAnyones(x) == cases[x] # NoRow /\ Matches(cases[x].title)

\* The case is the user's own, and its title matches.
CaseManagerFinds(x) ==
  /\ cases[x] # NoRow
  /\ cases[x].assigned_to = User
  /\ Matches(cases[x].title)

\* GROUP BY month, and the total that is added up from it.
AnalyticsSection ==
  LET months   == {reports[x].month : x \in AnalyticsRows}
      by_month == [m \in months |-> Cardinality({x \in AnalyticsRows : reports[x].month = m})]
  IN  [total_matched |-> SumFunction(by_month), by_month |-> by_month]

\* Everything in the WHERE clause of a paginated section but its cursor.
Finds(app, x) == IF app = "investigator" THEN InvestigatorFinds(x) ELSE CaseManagerFinds(x)

\* Mutant of Rows: the row at the cursor is let through again.
RowsFromCursor(app, c) == {x \in Ids : (c # None => x >= c) /\ Finds(app, x)}

\* The whole WHERE clause: `id > :cursor` is added if there is a cursor.
Rows(app, c) == {x \in Ids : (c # None => x > c) /\ Finds(app, x)}

Matching(app) == {x \in Ids : Finds(app, x)}

-----------------------------------------------------------------------------
(***************************************************************************)
(* A client walks the sections                                              *)
(***************************************************************************)

Walked == PaginatedApps \cap {Scope[i] : i \in DOMAIN Scope}

Init ==
  /\ \E start \in Starts :
       reports = start.reports /\ entities = start.entities /\ cases = start.cases
  /\ writes = 0 /\ todo = <<>> /\ size = 0
  /\ phase = [s \in PaginatedApps |-> "start"]
  /\ cursor = [s \in PaginatedApps |-> None]
  /\ pages = [s \in PaginatedApps |-> <<>>]
  /\ stable = [s \in PaginatedApps |-> {}]
  /\ left = [s \in PaginatedApps |-> FALSE]

\* Some section has a page the client has not asked for.
More == \E s \in Walked : phase[s] # "done"

\* One request, with the next_cursor of every section that gave one.
Send(limit) ==
  /\ todo = <<>> /\ More
  /\ todo' = Scope /\ size' = limit
  /\ UNCHANGED <<tables, writes, walk>>

\* Mutant of CursorOf: one cursor for all sections.
CursorOfAny(app) ==
  IF \E s \in PaginatedApps : phase[s] = "paging"
  THEN cursor[CHOOSE s \in PaginatedApps : phase[s] = "paging"] ELSE None

\* cursors.get(app_name): a section that gave no next_cursor has no entry, be it
\* that it has not been asked yet or that it is finished.
CursorOf(app) == IF phase[app] = "paging" THEN cursor[app] ELSE None

\* The client keeps a page: it goes on from its next_cursor, or is finished.
Keep(app, page) ==
  /\ pages' = [pages EXCEPT ![app] = Append(@, page.items)]
  /\ \/ /\ page.next_cursor # None
        /\ cursor' = [cursor EXCEPT ![app] = page.next_cursor]
        /\ phase' = [phase EXCEPT ![app] = "paging"]
     \/ /\ page.next_cursor = None
        /\ phase' = [phase EXCEPT ![app] = "done"]
        /\ UNCHANGED cursor
  /\ stable' = IF phase[app] = "start" THEN [stable EXCEPT ![app] = Matching(app)] ELSE stable
  /\ left' = [left EXCEPT ![app] = FALSE]

\* One strategy's statement; the aggregates of analytics are not paged through.
Search(app) ==
  /\ todo # <<>> /\ app = Head(todo)
  /\ todo' = Tail(todo)
  /\ \/ app \notin PaginatedApps /\ UNCHANGED walk
     \/ /\ app \in PaginatedApps
        /\ \E page \in Pages(Rows(app, CursorOf(app)), size) :
             IF phase[app] # "done" \/ KeepsAll THEN Keep(app, page) ELSE UNCHANGED walk
  /\ UNCHANGED <<tables, writes, size>>

-----------------------------------------------------------------------------
(***************************************************************************)
(* The writers                                                              *)
(***************************************************************************)

\* A row is changed or deleted.
Put(table, x, values) ==
  {[table EXCEPT ![x] = v] : v \in IF table[x] = NoRow THEN {} ELSE (values \cup {NoRow}) \ {table[x]}}

WriteReport(x) ==
  reports' \in Put(reports, x, Writes.reports) /\ UNCHANGED <<entities, cases>>

WriteEntity(x) ==
  entities' \in Put(entities, x, Writes.entities) /\ UNCHANGED <<reports, cases>>

WriteCase(x) ==
  cases' \in Put(cases, x, Writes.cases) /\ UNCHANGED <<reports, entities>>

Write ==
  /\ writes < MaxWrites /\ writes' = writes + 1
  /\ \E x \in Ids : WriteReport(x) \/ WriteEntity(x) \/ WriteCase(x)
  /\ UNCHANGED <<todo, size, phase, cursor, pages>>
  /\ stable' = [s \in PaginatedApps |-> stable[s] \ (Matching(s) \ Matching(s)')]
  /\ left' = [s \in PaginatedApps |-> left[s] \/ ~(Matching(s) \subseteq Matching(s)')]

-----------------------------------------------------------------------------
SendAny   == \E limit \in Limits : Send(limit)
SearchAny == \E app \in Apps : Search(app)

Next == SendAny \/ SearchAny \/ Write

Spec == Init /\ [][Next]_vars

\* The client asks for the next pages, and a request that was sent is answered.
FairSpec == Spec /\ WF_vars(SendAny) /\ WF_vars(SearchAny)
-----------------------------------------------------------------------------
(***************************************************************************)
(* Properties                                                               *)
(***************************************************************************)

\* Type correctness.
TypeOK ==
  /\ reports \in [Ids -> ReportRow \cup {NoRow}]
  /\ entities \in [Ids -> EntityRow \cup {NoRow}]
  /\ cases \in [Ids -> CaseRow \cup {NoRow}]
  /\ writes \in 0 .. MaxWrites
  /\ todo \in Seq(Apps) /\ size \in Limits \cup {0}
  /\ phase \in [PaginatedApps -> {"start", "paging", "done"}]
  /\ cursor \in [PaginatedApps -> Ids \cup {None}]
  /\ pages \in [PaginatedApps -> Seq(SUBSET Ids)]
  /\ stable \in [PaginatedApps -> SUBSET Ids]
  /\ left \in [PaginatedApps -> BOOLEAN]

\* The inductive invariant: types, and a cursor that is the last id the client got.
SInv ==
  /\ TypeOK
  /\ todo # <<>> => size \in Limits
  /\ \A s \in PaginatedApps :
       /\ phase[s] = "start" => cursor[s] = None /\ pages[s] = <<>>
       /\ phase[s] = "paging" => pages[s] # <<>> /\ cursor[s] \in LastOf(pages[s][Len(pages[s])])

\* What the tables hold that this user may learn of: reports without their
\* titles, entities of searchable types, the user's own cases.
MayKnow ==
  [reports  |-> [x \in Ids |-> IF reports[x] = NoRow THEN {}
                               ELSE {<<reports[x].content, reports[x].month>>}],
   entities |-> [x \in Ids |-> IF entities[x] # NoRow /\ entities[x].type \in SearchableTypes
                               THEN {entities[x]} ELSE {}],
   cases    |-> [x \in Ids |-> IF cases[x] # NoRow /\ cases[x].assigned_to = User
                               THEN {cases[x]} ELSE {}]]

\* What a request is answered from, whatever cursors it carries.
Answers ==
  [analytics |-> AnalyticsSection,
   paginated |-> [s \in PaginatedApps |->
                    [c \in Ids \cup {None} |-> Rows(s, c)]]]

\* A write the user may not learn of shows in no section, count, page or
\* next_cursor: "a cursor can never walk into another user's cases"
\* (case_manager.py:29), "rows outside this tuple can never reach a search
\* result" (investigator.py:12), the title of a report is not searched
\* (analytics.py:23).
NothingHiddenShows == [][MayKnow' = MayKnow => Answers' = Answers]_tables

\* Each section's walk seen as a traversal of its own.
RowOf(app) == [x \in Ids |-> IF Finds(app, x) THEN "match" ELSE "other"]

InvestigatorWalk == INSTANCE Keyset WITH
  ClockOrdered <- FALSE, inserted <- {}, row <- RowOf("investigator"),
  phase <- phase["investigator"], cursor <- cursor["investigator"],
  pages <- pages["investigator"], stable <- stable["investigator"],
  left <- left["investigator"]

CaseManagerWalk == INSTANCE Keyset WITH
  ClockOrdered <- FALSE, inserted <- {}, row <- RowOf("case-manager"),
  phase <- phase["case-manager"], cursor <- cursor["case-manager"],
  pages <- pages["case-manager"], stable <- stable["case-manager"],
  left <- left["case-manager"]

\* Walked together, one request for both, each section still behaves as if it
\* were walked alone, so that what Keyset promises holds of it: "each section
\* pages independently" (docs/ESCALABILIDADE.md:130).
EachSectionIsATraversal == InvestigatorWalk!Spec /\ CaseManagerWalk!Spec

\* The walk over both sections comes to an end, whatever rows are changed or
\* deleted meanwhile; nothing is inserted here (see OnlyInsertsProlong).
WalkEnds == todo # <<>> ~> (todo = <<>> /\ ~More)

\* A client that follows next_cursor as schemas/search.py:92 tells it to gets no
\* row of a section twice (investigator.py:30).
NoRowTwice == InvestigatorWalk!NoRepeat /\ CaseManagerWalk!NoRepeat

\* Nor does a section that is finished lack a row that matched since its first
\* page, whatever the other section is doing.
NoRowMissed == InvestigatorWalk!NoSkip /\ CaseManagerWalk!NoSkip
=============================================================================
