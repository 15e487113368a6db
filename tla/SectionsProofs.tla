---------------------------- MODULE SectionsProofs ----------------------------
(***************************************************************************)
(* For every user, query and content of the tables: what a user may not      *)
(* learn of shows in nothing a search answers, and the two sections of a     *)
(* walk are traversals of their own.                                         *)
(***************************************************************************)
EXTENDS Sections, TLAPS

-----------------------------------------------------------------------------
(***************************************************************************)
(* Nothing hidden shows                                                     *)
(***************************************************************************)

\* The reports a user may know of decide the aggregates.
LEMMA SameReports ==
  ASSUME MayKnow'.reports = MayKnow.reports
  PROVE  AnalyticsSection' = AnalyticsSection
<1>1. ASSUME NEW x \in Ids
      PROVE  /\ reports'[x] = NoRow <=> reports[x] = NoRow
             /\ reports[x] # NoRow => /\ reports'[x].content = reports[x].content
                                      /\ reports'[x].month = reports[x].month
  <2>1. (IF reports'[x] = NoRow THEN {} ELSE {<<reports'[x].content, reports'[x].month>>}) =
        (IF reports[x] = NoRow THEN {} ELSE {<<reports[x].content, reports[x].month>>})
    BY <1>1 DEF MayKnow
  <2>2. reports'[x] = NoRow <=> reports[x] = NoRow
    BY <2>1
  <2>3. ASSUME reports[x] # NoRow
        PROVE  reports'[x].content = reports[x].content /\ reports'[x].month = reports[x].month
    <3>1. {<<reports'[x].content, reports'[x].month>>} = {<<reports[x].content, reports[x].month>>}
      BY <2>1, <2>2, <2>3
    <3> DEFINE a == reports'[x].content
               b == reports'[x].month
               c == reports[x].content
               d == reports[x].month
    <3>2. {<<a, b>>} = {<<c, d>>}
      BY <3>1
    <3> HIDE DEF a, b, c, d
    <3>3. <<a, b>> = <<c, d>>
      BY ONLY <3>2
    <3>4. a = c /\ b = d
      BY ONLY <3>3
    <3> QED BY <3>4 DEF a, b, c, d
  <2> QED BY <2>2, <2>3, Zenon
<1>2. AnalyticsRows' = AnalyticsRows
  BY <1>1 DEF AnalyticsRows, Matches
<1>3. \A x \in AnalyticsRows : reports'[x].month = reports[x].month
  BY <1>1 DEF AnalyticsRows
<1>. DEFINE months == {reports[x].month : x \in AnalyticsRows}
            by_month == [m \in months |-> Cardinality({x \in AnalyticsRows : reports[x].month = m})]
<1>4. months' = months
  BY <1>2, <1>3
<1>5. \A m : {x \in AnalyticsRows : reports[x].month = m}' = {x \in AnalyticsRows : reports[x].month = m}
  BY <1>2, <1>3
<1>6. by_month' = by_month
  BY <1>4, <1>5
<1>. HIDE DEF months, by_month
<1>7. AnalyticsSection = [total_matched |-> SumFunction(by_month), by_month |-> by_month]
  BY DEF AnalyticsSection, months, by_month
<1>8. AnalyticsSection' = [total_matched |-> SumFunction(by_month'), by_month |-> by_month']
  BY DEF AnalyticsSection, months, by_month
<1> QED BY <1>6, <1>7, <1>8

\* The entities and cases a user may know of decide what the sections find.
LEMMA SameFinds ==
  ASSUME MayKnow'.entities = MayKnow.entities, MayKnow'.cases = MayKnow.cases,
         NEW s, NEW x \in Ids
  PROVE  Finds(s, x)' <=> Finds(s, x)
<1>1. InvestigatorFinds(x)' <=> InvestigatorFinds(x)
  <2>1. (IF entities'[x] # NoRow /\ entities'[x].type \in SearchableTypes THEN {entities'[x]} ELSE {}) =
        (IF entities[x] # NoRow /\ entities[x].type \in SearchableTypes THEN {entities[x]} ELSE {})
    BY DEF MayKnow
  <2> QED BY <2>1 DEF InvestigatorFinds, Matches
<1>2. CaseManagerFinds(x)' <=> CaseManagerFinds(x)
  <2>1. (IF cases'[x] # NoRow /\ cases'[x].assigned_to = User THEN {cases'[x]} ELSE {}) =
        (IF cases[x] # NoRow /\ cases[x].assigned_to = User THEN {cases[x]} ELSE {})
    BY DEF MayKnow
  <2> QED BY <2>1 DEF CaseManagerFinds, Matches
<1> QED BY <1>1, <1>2 DEF Finds

\* A write that leaves what the user may know as it was leaves every section,
\* count and page as it was (case_manager.py:29, investigator.py:12).
THEOREM NothingHiddenShowsHolds == Spec => NothingHiddenShows
<1>1. ASSUME MayKnow' = MayKnow PROVE Answers' = Answers
  <2>1. AnalyticsSection' = AnalyticsSection
    BY <1>1, SameReports
  <2>2. \A s, c : Rows(s, c)' = Rows(s, c)
    BY <1>1, SameFinds DEF Rows
  <2> QED BY <2>1, <2>2 DEF Answers
<1>2. [Next]_vars => [MayKnow' = MayKnow => Answers' = Answers]_tables
  BY <1>1
<1> QED BY <1>2, PTL DEF Spec, NothingHiddenShows

-----------------------------------------------------------------------------
(***************************************************************************)
(* The inductive invariant                                                  *)
(***************************************************************************)

LEMMA PaginatedAreApps == PaginatedApps \subseteq Apps
<1>1. \A s \in PaginatedApps : s = AppOf["investigator-api"] \/ s = AppOf["case-manager-api"]
  BY DEF PaginatedApps, AppOf
<1>2. "investigator-api" \in Clients /\ "case-manager-api" \in Clients
  <2>1. /\ 2 \in DOMAIN KnownClients /\ KnownClients[2] = "investigator-api"
        /\ 3 \in DOMAIN KnownClients /\ KnownClients[3] = "case-manager-api"
    BY DEF KnownClients
  <2> QED BY <2>1 DEF Clients
<1> QED BY <1>1, <1>2 DEF Apps

\* A page holds rows of the statement, and its next_cursor the last of them.
LEMMA PageFacts ==
  ASSUME NEW S \in SUBSET Ids, NEW limit, NEW page \in Pages(S, limit)
  PROVE  /\ page.items \in SUBSET Ids
         /\ page.next_cursor \in Ids \cup {None}
         /\ page.next_cursor # None => page.next_cursor \in LastOf(page.items)
<1>1. PICK rows \in SUBSET S : page \in Slices(rows, limit)
  BY DEF Pages, FirstOf
<1>2. PICK items \in SUBSET rows :
        page \in {[items |-> items, next_cursor |-> c] : c \in NextCursor(rows, items, limit)}
  BY <1>1 DEF Slices, FirstOf
<1>3. PICK c \in NextCursor(rows, items, limit) : page = [items |-> items, next_cursor |-> c]
  BY <1>2
<1>4. c \in LastOf(items) \/ c = None
  BY DEF NextCursor
<1>5. page.items = items /\ page.next_cursor = c
  BY <1>3
<1>6. LastOf(items) \subseteq items
  BY DEF LastOf
<1>7. page.items \in SUBSET Ids /\ page.next_cursor \in Ids \cup {None}
  BY <1>4, <1>5, <1>6
<1> QED BY <1>4, <1>5, <1>7

\* What keeping a page does to the walk.
LEMMA KeepFacts ==
  ASSUME SInv, NEW s \in PaginatedApps, NEW page \in Pages(Rows(s, CursorOf(s)), size), Keep(s, page)
  PROVE  /\ phase' \in [PaginatedApps -> {"start", "paging", "done"}]
         /\ cursor' \in [PaginatedApps -> Ids \cup {None}]
         /\ pages' \in [PaginatedApps -> Seq(SUBSET Ids)]
         /\ stable' \in [PaginatedApps -> SUBSET Ids]
         /\ left' \in [PaginatedApps -> BOOLEAN]
<1>1. Rows(s, CursorOf(s)) \in SUBSET Ids
  BY DEF Rows
<1>2. page.items \in SUBSET Ids /\ page.next_cursor \in Ids \cup {None}
  BY <1>1, PageFacts
<1>3. Append(pages[s], page.items) \in Seq(SUBSET Ids)
  BY <1>2 DEF SInv, TypeOK
<1>4. Matching(s) \in SUBSET Ids
  BY DEF Matching
<1>5. pages' = [pages EXCEPT ![s] = Append(pages[s], page.items)]
  BY DEF Keep
<1>6. pages' \in [PaginatedApps -> Seq(SUBSET Ids)]
  BY <1>3, <1>5 DEF SInv, TypeOK
<1>7. phase' \in [PaginatedApps -> {"start", "paging", "done"}]
  BY DEF Keep, SInv, TypeOK
<1>8. cursor' \in [PaginatedApps -> Ids \cup {None}]
  BY <1>2 DEF Keep, SInv, TypeOK
<1>9. stable' \in [PaginatedApps -> SUBSET Ids]
  BY <1>4 DEF Keep, SInv, TypeOK
<1>10. left' \in [PaginatedApps -> BOOLEAN]
  BY DEF Keep, SInv, TypeOK
<1> QED BY <1>6, <1>7, <1>8, <1>9, <1>10

CursorInv(s) ==
  /\ phase[s] = "start" => cursor[s] = None /\ pages[s] = <<>>
  /\ phase[s] = "paging" => pages[s] # <<>> /\ cursor[s] \in LastOf(pages[s][Len(pages[s])])

LEMMA KeepCursor ==
  ASSUME SInv, NEW s \in PaginatedApps, NEW page \in Pages(Rows(s, CursorOf(s)), size), Keep(s, page),
         NEW t \in PaginatedApps
  PROVE  CursorInv(t)'
<1>1. CASE t # s
  <2>1. phase'[t] = phase[t] /\ cursor'[t] = cursor[t] /\ pages'[t] = pages[t]
    BY <1>1 DEF Keep, SInv, TypeOK
  <2>2. CursorInv(t)
    BY DEF SInv, CursorInv
  <2> QED BY <2>1, <2>2 DEF CursorInv
<1>2. CASE t = s
  <2>1. Rows(s, CursorOf(s)) \in SUBSET Ids
    BY DEF Rows
  <2>2. /\ page.items \in SUBSET Ids
        /\ page.next_cursor # None => page.next_cursor \in LastOf(page.items)
    BY <2>1, PageFacts
  <2>3. pages[s] \in Seq(SUBSET Ids) /\ pages'[s] = Append(pages[s], page.items)
    BY DEF Keep, SInv, TypeOK
  <2>4. pages'[s] # <<>> /\ pages'[s][Len(pages'[s])] = page.items
    BY <2>2, <2>3
  <2>5. \/ phase'[s] = "done"
        \/ phase'[s] = "paging" /\ cursor'[s] = page.next_cursor /\ page.next_cursor # None
    BY DEF Keep, SInv, TypeOK
  <2> QED BY <1>2, <2>2, <2>4, <2>5 DEF CursorInv
<1> QED BY <1>1, <1>2

\* A write changes one row of one table, into one its table may hold.
LEMMA PutFacts ==
  ASSUME NEW R, NEW values \in SUBSET R, NEW table \in [Ids -> R \cup {NoRow}], NEW x \in Ids,
         NEW next \in Put(table, x, values)
  PROVE  /\ next \in [Ids -> R \cup {NoRow}]
         /\ \A y \in Ids : y # x => next[y] = table[y]
BY DEF Put

LEMMA WriteFacts ==
  ASSUME SInv, Write
  PROVE  /\ reports' \in [Ids -> ReportRow \cup {NoRow}]
         /\ entities' \in [Ids -> EntityRow \cup {NoRow}]
         /\ cases' \in [Ids -> CaseRow \cup {NoRow}]
         /\ \E x \in Ids : \A y \in Ids : y # x => entities'[y] = entities[y] /\ cases'[y] = cases[y]
<1>1. PICK x \in Ids : WriteReport(x) \/ WriteEntity(x) \/ WriteCase(x)
  BY DEF Write
<1>2. /\ reports \in [Ids -> ReportRow \cup {NoRow}]
      /\ entities \in [Ids -> EntityRow \cup {NoRow}]
      /\ cases \in [Ids -> CaseRow \cup {NoRow}]
  BY DEF SInv, TypeOK
<1>3. /\ Writes.reports \in SUBSET ReportRow
      /\ Writes.entities \in SUBSET EntityRow
      /\ Writes.cases \in SUBSET CaseRow
  BY WritesAssumption
<1>4. CASE WriteReport(x)
  <2>0. reports' \in Put(reports, x, Writes.reports)
    BY <1>4 DEF WriteReport
  <2>1. reports' \in [Ids -> ReportRow \cup {NoRow}]
    BY <1>2, <1>3, <2>0, PutFacts
  <2> QED BY <1>2, <1>4, <2>1 DEF WriteReport
<1>5. CASE WriteEntity(x)
  <2>0. entities' \in Put(entities, x, Writes.entities)
    BY <1>5 DEF WriteEntity
  <2>1. entities' \in [Ids -> EntityRow \cup {NoRow}]
    BY <1>2, <1>3, <2>0, PutFacts
  <2>2. \A y \in Ids : y # x => entities'[y] = entities[y]
    BY <1>2, <2>0 DEF Put
  <2> QED BY <1>2, <1>5, <2>1, <2>2 DEF WriteEntity
<1>6. CASE WriteCase(x)
  <2>0. cases' \in Put(cases, x, Writes.cases)
    BY <1>6 DEF WriteCase
  <2>1. cases' \in [Ids -> CaseRow \cup {NoRow}]
    BY <1>2, <1>3, <2>0, PutFacts
  <2>2. \A y \in Ids : y # x => cases'[y] = cases[y]
    BY <1>2, <2>0 DEF Put
  <2> QED BY <1>2, <1>6, <2>1, <2>2 DEF WriteCase
<1> QED BY <1>1, <1>4, <1>5, <1>6

\* Types, and the cursor a client holds, in every reachable state.
THEOREM SectionsInvariant == Spec => []SInv
<1>1. Init => SInv
  <2>. SUFFICES ASSUME Init PROVE SInv
    OBVIOUS
  <2>1. PICK start \in Starts :
          reports = start.reports /\ entities = start.entities /\ cases = start.cases
    BY DEF Init
  <2>2. /\ reports \in [Ids -> ReportRow \cup {NoRow}]
        /\ entities \in [Ids -> EntityRow \cup {NoRow}]
        /\ cases \in [Ids -> CaseRow \cup {NoRow}]
    BY <2>1, StartsAssumption DEF Tables
  <2>3. writes \in 0 .. MaxWrites /\ todo \in Seq(Apps) /\ size \in Limits \cup {0}
    BY WriteBoundAssumption DEF Init
  <2>4. /\ phase \in [PaginatedApps -> {"start", "paging", "done"}]
        /\ cursor \in [PaginatedApps -> Ids \cup {None}]
        /\ pages \in [PaginatedApps -> Seq(SUBSET Ids)]
        /\ stable \in [PaginatedApps -> SUBSET Ids]
        /\ left \in [PaginatedApps -> BOOLEAN]
    BY DEF Init
  <2>5. todo = <<>> /\ \A s \in PaginatedApps : phase[s] = "start" /\ cursor[s] = None /\ pages[s] = <<>>
    BY DEF Init
  <2> QED BY <2>2, <2>3, <2>4, <2>5 DEF SInv, TypeOK
<1>2. SInv /\ [Next]_vars => SInv'
  <2>. SUFFICES ASSUME SInv, [Next]_vars PROVE SInv'
    OBVIOUS
  <2>0. SInv <=> TypeOK /\ (todo # <<>> => size \in Limits) /\ \A s \in PaginatedApps : CursorInv(s)
    BY DEF SInv, CursorInv
  <2>1. SInv' <=> TypeOK' /\ (todo' # <<>> => size' \in Limits) /\ \A s \in PaginatedApps : CursorInv(s)'
    BY DEF SInv, CursorInv
  <2>2. CASE SendAny
    <3>1. PICK limit \in Limits : Send(limit)
      BY <2>2 DEF SendAny
    <3>2. todo' \in Seq(Apps) /\ size' \in Limits
      BY <3>1, ScopeAssumption DEF Send
    <3>3. TypeOK'
      BY <2>0, <3>1, <3>2 DEF Send, TypeOK, tables, walk
    <3>4. \A s \in PaginatedApps : CursorInv(s)'
      BY <2>0, <3>1 DEF Send, CursorInv, walk
    <3> QED BY <2>1, <3>2, <3>3, <3>4
  <2>3. CASE SearchAny
    <3>1. PICK app \in Apps : Search(app)
      BY <2>3 DEF SearchAny
    <3>2. /\ UNCHANGED <<tables, writes, size>> /\ todo # <<>> /\ todo' = Tail(todo)
          /\ \/ UNCHANGED walk
             \/ /\ app \in PaginatedApps
                /\ \E page \in Pages(Rows(app, CursorOf(app)), size) : Keep(app, page)
      BY <3>1 DEF Search
    <3>3. todo' \in Seq(Apps)
      BY <2>0, <3>2 DEF TypeOK
    <3>4. CASE UNCHANGED walk
      <4>1. TypeOK'
        BY <2>0, <3>2, <3>3, <3>4 DEF TypeOK, tables, walk
      <4>2. \A s \in PaginatedApps : CursorInv(s)'
        BY <2>0, <3>4 DEF CursorInv, walk
      <4> QED BY <2>0, <2>1, <3>2, <4>1, <4>2
    <3>5. CASE app \in PaginatedApps /\ \E page \in Pages(Rows(app, CursorOf(app)), size) : Keep(app, page)
      <4>1. PICK page \in Pages(Rows(app, CursorOf(app)), size) : Keep(app, page)
        BY <3>5
      <4>2. TypeOK'
        BY <2>0, <3>2, <3>3, <3>5, <4>1, KeepFacts DEF TypeOK, tables
      <4>3. \A s \in PaginatedApps : CursorInv(s)'
        BY <3>5, <4>1, KeepCursor
      <4> QED BY <2>0, <2>1, <3>2, <4>2, <4>3
    <3> QED BY <3>2, <3>4, <3>5
  <2>4. CASE Write
    <3>1. /\ writes' = writes + 1 /\ writes < MaxWrites
          /\ UNCHANGED <<todo, size, phase, cursor, pages>>
      BY <2>4 DEF Write
    <3>2. writes' \in 0 .. MaxWrites
      BY <2>0, <3>1, WriteBoundAssumption DEF TypeOK
    <3>3. stable' \in [PaginatedApps -> SUBSET Ids] /\ left' \in [PaginatedApps -> BOOLEAN]
      BY <2>0, <2>4 DEF Write, TypeOK
    <3>4. TypeOK'
      BY <2>0, <2>4, <3>1, <3>2, <3>3, WriteFacts DEF TypeOK
    <3>5. \A s \in PaginatedApps : CursorInv(s)'
      BY <2>0, <3>1 DEF CursorInv
    <3> QED BY <2>0, <2>1, <3>1, <3>4, <3>5
  <2>5. CASE UNCHANGED vars
    <3>1. TypeOK'
      BY <2>0, <2>5 DEF vars, tables, walk, TypeOK
    <3>2. \A s \in PaginatedApps : CursorInv(s)'
      BY <2>0, <2>5 DEF vars, walk, CursorInv
    <3> QED BY <2>0, <2>1, <2>5, <3>1, <3>2 DEF vars
  <2> QED BY <2>2, <2>3, <2>4, <2>5 DEF Next
<1> QED BY <1>1, <1>2, PTL DEF Spec

-----------------------------------------------------------------------------
(***************************************************************************)
(* Each section is a traversal                                              *)
(***************************************************************************)

\* The three things a step can be to the walk of a section: nothing, a page, a
\* row that matches or matches no more.
Rests(s) ==
  /\ phase'[s] = phase[s] /\ cursor'[s] = cursor[s] /\ pages'[s] = pages[s]
  /\ stable'[s] = stable[s] /\ left'[s] = left[s] /\ RowOf(s)' = RowOf(s)

AheadOf(s) == {x \in Ids : RowOf(s)[x] = "match" /\ (cursor[s] # None => x > cursor[s])}

Turned(s, limit) ==
  /\ phase[s] # "done"
  /\ \E page \in Pages(AheadOf(s), limit) :
       /\ pages'[s] = Append(pages[s], page.items)
       /\ \/ page.next_cursor # None /\ cursor'[s] = page.next_cursor /\ phase'[s] = "paging"
          \/ page.next_cursor = None /\ cursor'[s] = cursor[s] /\ phase'[s] = "done"
  /\ stable'[s] = IF phase[s] = "start" THEN {x \in Ids : RowOf(s)[x] = "match"} ELSE stable[s]
  /\ left'[s] = FALSE
  /\ RowOf(s)' = RowOf(s)

Changed(s, x) ==
  /\ phase'[s] = phase[s] /\ cursor'[s] = cursor[s] /\ pages'[s] = pages[s]
  /\ \/ /\ RowOf(s)[x] = "match" /\ RowOf(s)' = [RowOf(s) EXCEPT ![x] = "other"]
        /\ stable'[s] = stable[s] \ {x} /\ left'[s] = TRUE
     \/ /\ RowOf(s)[x] = "other" /\ RowOf(s)' = [RowOf(s) EXCEPT ![x] = "match"]
        /\ stable'[s] = stable[s] /\ left'[s] = left[s]

LEMMA TablesDecide ==
  ASSUME UNCHANGED tables, NEW s
  PROVE  RowOf(s)' = RowOf(s)
BY DEF tables, RowOf, Finds, InvestigatorFinds, CaseManagerFinds, Matches

LEMMA MatchingIsRow ==
  ASSUME NEW s
  PROVE  /\ Matching(s) = {x \in Ids : RowOf(s)[x] = "match"}
         /\ \A x \in Ids : RowOf(s)[x] = IF x \in Matching(s) THEN "match" ELSE "other"
BY DEF Matching, RowOf

\* A client that lets a finished section rest sees one page of one section.
LEMMA SearchTurns ==
  ASSUME SInv, KeepsAll = FALSE, NEW app \in Apps, Search(app), NEW s \in PaginatedApps
  PROVE  Rests(s) \/ \E limit \in Limits : Turned(s, limit)
<1>1. RowOf(s)' = RowOf(s)
  BY TablesDecide DEF Search
<1>2. CASE UNCHANGED walk
  BY <1>1, <1>2 DEF walk, Rests
<1>3. ASSUME app \in PaginatedApps, phase[app] # "done",
             NEW page \in Pages(Rows(app, CursorOf(app)), size), Keep(app, page)
      PROVE  Rests(s) \/ \E limit \in Limits : Turned(s, limit)
  <2>1. CASE s # app
    BY <1>1, <1>3, <2>1 DEF Keep, SInv, TypeOK, Rests
  <2>2. CASE s = app
    <3>1. size \in Limits
      BY DEF Search, SInv
    <3>2. CursorOf(s) = cursor[s]
      BY <1>3, <2>2 DEF CursorOf, SInv, TypeOK
    <3>3. Rows(s, CursorOf(s)) = AheadOf(s)
      BY <3>2 DEF Rows, AheadOf, RowOf
    <3>4. stable'[s] = IF phase[s] = "start" THEN {x \in Ids : RowOf(s)[x] = "match"} ELSE stable[s]
      <4>1. stable \in [PaginatedApps -> SUBSET Ids]
        BY DEF SInv, TypeOK
      <4>2. stable'[s] = IF phase[s] = "start" THEN Matching(s) ELSE stable[s]
        BY <1>3, <2>2, <4>1 DEF Keep
      <4>3. Matching(s) = {x \in Ids : RowOf(s)[x] = "match"}
        BY MatchingIsRow
      <4> QED BY <4>2, <4>3
    <3>5. left'[s] = FALSE /\ pages'[s] = Append(pages[s], page.items)
      BY <1>3, <2>2 DEF Keep, SInv, TypeOK
    <3>6. \/ page.next_cursor # None /\ cursor'[s] = page.next_cursor /\ phase'[s] = "paging"
          \/ page.next_cursor = None /\ cursor'[s] = cursor[s] /\ phase'[s] = "done"
      BY <1>3, <2>2 DEF Keep, SInv, TypeOK
    <3>7. page \in Pages(AheadOf(s), size)
      BY <1>3, <2>2, <3>3
    <3>8. Turned(s, size)
      BY <1>1, <1>3, <2>2, <3>4, <3>5, <3>6, <3>7 DEF Turned
    <3> QED BY <3>1, <3>8
  <2> QED BY <2>1, <2>2
<1>4. \/ UNCHANGED walk
      \/ /\ app \in PaginatedApps
         /\ \E page \in Pages(Rows(app, CursorOf(app)), size) : phase[app] # "done" /\ Keep(app, page)
  BY DEF Search
<1> QED BY <1>2, <1>3, <1>4

\* A write makes one row match, or match no more, or does neither.
LEMMA WriteChanges ==
  ASSUME SInv, Write, NEW s \in PaginatedApps
  PROVE  Rests(s) \/ \E x \in Ids : Changed(s, x)
<1>1. PICK x \in Ids : \A y \in Ids : y # x => entities'[y] = entities[y] /\ cases'[y] = cases[y]
  BY WriteFacts
<1>2. \A y \in Ids : y # x => (Finds(s, y)' <=> Finds(s, y))
  BY <1>1 DEF Finds, InvestigatorFinds, CaseManagerFinds, Matches
<1>3. /\ UNCHANGED <<phase, cursor, pages>>
      /\ stable'[s] = stable[s] \ (Matching(s) \ Matching(s)')
      /\ left'[s] = (left[s] \/ ~(Matching(s) \subseteq Matching(s)'))
  BY DEF Write
<1>4. left[s] \in BOOLEAN /\ stable[s] \subseteq Ids
  BY DEF SInv, TypeOK
<1>5. \A y \in Ids : (y \in Matching(s) <=> Finds(s, y)) /\ (y \in Matching(s)' <=> Finds(s, y)')
  BY DEF Matching
<1>6. Matching(s) \subseteq Ids /\ Matching(s)' \subseteq Ids
  BY DEF Matching
<1>7. RowOf(s) = [y \in Ids |-> IF Finds(s, y) THEN "match" ELSE "other"]
  BY DEF RowOf
<1>8. RowOf(s)' = [y \in Ids |-> IF Finds(s, y)' THEN "match" ELSE "other"]
  BY DEF RowOf
<1>9. CASE Finds(s, x)' <=> Finds(s, x)
  <2>1. \A y \in Ids : Finds(s, y)' <=> Finds(s, y)
    BY <1>2, <1>9
  <2>2. RowOf(s)' = RowOf(s)
    BY <1>7, <1>8, <2>1
  <2>3. Matching(s)' = Matching(s)
    BY <1>5, <1>6, <2>1
  <2>4. left'[s] = left[s] /\ stable'[s] = stable[s]
    BY <1>3, <1>4, <2>3
  <2> QED BY <1>3, <2>2, <2>4 DEF Rests
<1>10. CASE Finds(s, x) /\ ~Finds(s, x)'
  <2>1. Matching(s) \ Matching(s)' = {x}
    BY <1>2, <1>5, <1>6, <1>10
  <2>2. stable'[s] = stable[s] \ {x} /\ left'[s] = TRUE
    BY <1>3, <1>4, <2>1
  <2>3. RowOf(s)[x] = "match" /\ RowOf(s)' = [RowOf(s) EXCEPT ![x] = "other"]
    BY <1>2, <1>7, <1>8, <1>10
  <2>4. Changed(s, x)
    BY <1>3, <2>2, <2>3 DEF Changed
  <2> QED BY <2>4
<1>11. CASE ~Finds(s, x) /\ Finds(s, x)'
  <2>1. Matching(s) \subseteq Matching(s)'
    BY <1>2, <1>5, <1>6, <1>11
  <2>2. stable'[s] = stable[s] /\ left'[s] = left[s]
    BY <1>3, <1>4, <2>1
  <2>3. RowOf(s)[x] = "other" /\ RowOf(s)' = [RowOf(s) EXCEPT ![x] = "match"]
    BY <1>2, <1>7, <1>8, <1>11
  <2>4. Changed(s, x)
    BY <1>3, <2>2, <2>3 DEF Changed
  <2> QED BY <2>4
<1> QED BY <1>9, <1>10, <1>11

LEMMA EveryStep ==
  ASSUME SInv, KeepsAll = FALSE, [Next]_vars, NEW s \in PaginatedApps
  PROVE  \/ Rests(s)
         \/ \E limit \in Limits : Turned(s, limit)
         \/ \E x \in Ids : Changed(s, x)
<1>1. CASE SendAny \/ UNCHANGED vars
  <2>1. UNCHANGED tables /\ UNCHANGED walk
    BY <1>1 DEF SendAny, Send, vars
  <2> QED BY <2>1, TablesDecide DEF walk, Rests
<1>2. CASE SearchAny
  BY <1>2, SearchTurns DEF SearchAny
<1>3. CASE Write
  BY <1>3, WriteChanges
<1> QED BY <1>1, <1>2, <1>3 DEF Next

\* What the three mean to the walk of each section.
LEMMA InvestigatorSteps ==
  ASSUME SInv,
         \/ Rests("investigator")
         \/ \E limit \in Limits : Turned("investigator", limit)
         \/ \E x \in Ids : Changed("investigator", x)
  PROVE  [InvestigatorWalk!Next]_InvestigatorWalk!vars
<1> DEFINE s == "investigator"
<1>1. CASE Rests(s)
  BY <1>1 DEF Rests, InvestigatorWalk!vars
<1>2. ASSUME NEW limit \in Limits, Turned(s, limit) PROVE InvestigatorWalk!Page(limit)
  <2>1. InvestigatorWalk!Ahead = AheadOf(s)
    BY DEF InvestigatorWalk!Ahead, InvestigatorWalk!Matching, AheadOf
  <2>2. InvestigatorWalk!Matching = {x \in Ids : RowOf(s)[x] = "match"}
    BY DEF InvestigatorWalk!Matching
  <2>3. InvestigatorWalk!Pages(AheadOf(s), limit) = Pages(AheadOf(s), limit)
    <3>0. \A S : InvestigatorWalk!Cardinality(S) = Cardinality(S)
      BY DEF InvestigatorWalk!Cardinality, Cardinality
    <3>1. \A S, n : InvestigatorWalk!FirstOf(S, n) = FirstOf(S, n)
      BY <3>0 DEF InvestigatorWalk!FirstOf, FirstOf
    <3>2. \A items : InvestigatorWalk!LastOf(items) = LastOf(items)
      BY DEF InvestigatorWalk!LastOf, LastOf
    <3>3. \A rows, items : InvestigatorWalk!NextCursor(rows, items, limit) = NextCursor(rows, items, limit)
      BY <3>0, <3>2 DEF InvestigatorWalk!NextCursor, NextCursor
    <3>4. \A rows : InvestigatorWalk!Slices(rows, limit) = Slices(rows, limit)
      BY <3>1, <3>3 DEF InvestigatorWalk!Slices, Slices
    <3> QED BY <3>1, <3>4 DEF InvestigatorWalk!Pages, Pages
  <2> QED BY <1>2, <2>1, <2>2, <2>3 DEF Turned, InvestigatorWalk!Page
<1>3. ASSUME NEW x \in Ids, Changed(s, x)
      PROVE  InvestigatorWalk!Enter(x) \/ InvestigatorWalk!Leave(x)
  BY <1>3 DEF Changed, InvestigatorWalk!Enter, InvestigatorWalk!Leave
<1> QED BY <1>1, <1>2, <1>3 DEF InvestigatorWalk!Next, InvestigatorWalk!Fetch

LEMMA CaseManagerSteps ==
  ASSUME SInv,
         \/ Rests("case-manager")
         \/ \E limit \in Limits : Turned("case-manager", limit)
         \/ \E x \in Ids : Changed("case-manager", x)
  PROVE  [CaseManagerWalk!Next]_CaseManagerWalk!vars
<1> DEFINE s == "case-manager"
<1>1. CASE Rests(s)
  BY <1>1 DEF Rests, CaseManagerWalk!vars
<1>2. ASSUME NEW limit \in Limits, Turned(s, limit) PROVE CaseManagerWalk!Page(limit)
  <2>1. CaseManagerWalk!Ahead = AheadOf(s)
    BY DEF CaseManagerWalk!Ahead, CaseManagerWalk!Matching, AheadOf
  <2>2. CaseManagerWalk!Matching = {x \in Ids : RowOf(s)[x] = "match"}
    BY DEF CaseManagerWalk!Matching
  <2>3. CaseManagerWalk!Pages(AheadOf(s), limit) = Pages(AheadOf(s), limit)
    <3>0. \A S : CaseManagerWalk!Cardinality(S) = Cardinality(S)
      BY DEF CaseManagerWalk!Cardinality, Cardinality
    <3>1. \A S, n : CaseManagerWalk!FirstOf(S, n) = FirstOf(S, n)
      BY <3>0 DEF CaseManagerWalk!FirstOf, FirstOf
    <3>2. \A items : CaseManagerWalk!LastOf(items) = LastOf(items)
      BY DEF CaseManagerWalk!LastOf, LastOf
    <3>3. \A rows, items : CaseManagerWalk!NextCursor(rows, items, limit) = NextCursor(rows, items, limit)
      BY <3>0, <3>2 DEF CaseManagerWalk!NextCursor, NextCursor
    <3>4. \A rows : CaseManagerWalk!Slices(rows, limit) = Slices(rows, limit)
      BY <3>1, <3>3 DEF CaseManagerWalk!Slices, Slices
    <3> QED BY <3>1, <3>4 DEF CaseManagerWalk!Pages, Pages
  <2> QED BY <1>2, <2>1, <2>2, <2>3 DEF Turned, CaseManagerWalk!Page
<1>3. ASSUME NEW x \in Ids, Changed(s, x)
      PROVE  CaseManagerWalk!Enter(x) \/ CaseManagerWalk!Leave(x)
  BY <1>3 DEF Changed, CaseManagerWalk!Enter, CaseManagerWalk!Leave
<1> QED BY <1>1, <1>2, <1>3 DEF CaseManagerWalk!Next, CaseManagerWalk!Fetch

\* Walked together, by a client that lets a finished section rest, whatever the
\* tables, the pages' sizes and the writers: each section of app/services/search
\* goes through the traversal of Keyset, so that what Keyset promises holds of it.
THEOREM SectionsAreTraversals ==
  ASSUME KeepsAll = FALSE
  PROVE  Spec => EachSectionIsATraversal
<1>1. Init => InvestigatorWalk!Init /\ CaseManagerWalk!Init
  <2>1. RowOf("investigator") \in [Ids -> {"unborn", "match", "other"}]
    BY DEF RowOf
  <2>2. RowOf("case-manager") \in [Ids -> {"unborn", "match", "other"}]
    BY DEF RowOf
  <2>3. "investigator" \in PaginatedApps /\ "case-manager" \in PaginatedApps
    BY DEF PaginatedApps
  <2> QED BY <2>1, <2>2, <2>3 DEF Init, InvestigatorWalk!Init, CaseManagerWalk!Init
<1>2. SInv /\ [Next]_vars => [InvestigatorWalk!Next]_InvestigatorWalk!vars
  <2>1. "investigator" \in PaginatedApps
    BY DEF PaginatedApps
  <2> QED BY <2>1, EveryStep, InvestigatorSteps
<1>3. SInv /\ [Next]_vars => [CaseManagerWalk!Next]_CaseManagerWalk!vars
  <2>1. "case-manager" \in PaginatedApps
    BY DEF PaginatedApps
  <2> QED BY <2>1, EveryStep, CaseManagerSteps
<1> QED BY <1>1, <1>2, <1>3, SectionsInvariant, PTL
  DEF Spec, EachSectionIsATraversal, InvestigatorWalk!Spec, CaseManagerWalk!Spec

-----------------------------------------------------------------------------
(***************************************************************************)
(* What the theorems of Keyset say of the sections                          *)
(***************************************************************************)

\* The traversals again, with their theorems.
Investigator == INSTANCE KeysetProofs WITH
  ClockOrdered <- FALSE, inserted <- {}, row <- RowOf("investigator"),
  phase <- phase["investigator"], cursor <- cursor["investigator"],
  pages <- pages["investigator"], stable <- stable["investigator"],
  left <- left["investigator"]

CaseManager == INSTANCE KeysetProofs WITH
  ClockOrdered <- FALSE, inserted <- {}, row <- RowOf("case-manager"),
  phase <- phase["case-manager"], cursor <- cursor["case-manager"],
  pages <- pages["case-manager"], stable <- stable["case-manager"],
  left <- left["case-manager"]

\* The two instances of Keyset for the investigator section mean the same.
LEMMA InvestigatorSame ==
  /\ InvestigatorWalk!Init => Investigator!Init
  /\ [InvestigatorWalk!Next]_InvestigatorWalk!vars => [Investigator!Next]_Investigator!vars
<1>1. \A S : InvestigatorWalk!Cardinality(S) = Investigator!Cardinality(S)
  BY DEF InvestigatorWalk!Cardinality, Investigator!Cardinality
<1>2. \A S, n : InvestigatorWalk!FirstOf(S, n) = Investigator!FirstOf(S, n)
  BY <1>1 DEF InvestigatorWalk!FirstOf, Investigator!FirstOf
<1>3. \A items : InvestigatorWalk!LastOf(items) = Investigator!LastOf(items)
  BY DEF InvestigatorWalk!LastOf, Investigator!LastOf
<1>4. \A rows, items, limit :
        InvestigatorWalk!NextCursor(rows, items, limit) = Investigator!NextCursor(rows, items, limit)
  BY <1>1, <1>3 DEF InvestigatorWalk!NextCursor, Investigator!NextCursor
<1>5. \A rows, limit : InvestigatorWalk!Slices(rows, limit) = Investigator!Slices(rows, limit)
  BY <1>2, <1>4 DEF InvestigatorWalk!Slices, Investigator!Slices
<1>6. \A S, limit : InvestigatorWalk!Pages(S, limit) = Investigator!Pages(S, limit)
  BY <1>2, <1>5 DEF InvestigatorWalk!Pages, Investigator!Pages
<1>7. InvestigatorWalk!Ahead = Investigator!Ahead /\ InvestigatorWalk!Matching = Investigator!Matching
  BY DEF InvestigatorWalk!Ahead, Investigator!Ahead, InvestigatorWalk!Matching, Investigator!Matching
<1>8. InvestigatorWalk!Fetch => Investigator!Fetch
  BY <1>6, <1>7 DEF InvestigatorWalk!Fetch, Investigator!Fetch, InvestigatorWalk!Page, Investigator!Page
<1>9. \A x \in Ids : InvestigatorWalk!Mint(x) => Investigator!Mint(x)
  BY DEF InvestigatorWalk!Mint, Investigator!Mint
<1>10. \A x \in Ids : InvestigatorWalk!Insert(x) => Investigator!Insert(x)
  BY DEF InvestigatorWalk!Insert, Investigator!Insert
<1>11. \A x \in Ids : /\ InvestigatorWalk!Enter(x) => Investigator!Enter(x)
                      /\ InvestigatorWalk!Leave(x) => Investigator!Leave(x)
  BY DEF InvestigatorWalk!Enter, Investigator!Enter, InvestigatorWalk!Leave, Investigator!Leave
<1>12. InvestigatorWalk!Init => Investigator!Init
  BY DEF InvestigatorWalk!Init, Investigator!Init
<1> QED BY <1>8, <1>9, <1>10, <1>11, <1>12 DEF InvestigatorWalk!Next, Investigator!Next, InvestigatorWalk!vars, Investigator!vars

\* The constants of a walk are what Keyset assumes of its own.
LEMMA InvestigatorConstants ==
  /\ FALSE \in BOOLEAN
  /\ None \notin Ids
  /\ Limits \subseteq Nat \ {0}
  /\ Ids \subseteq Nat /\ Investigator!IsFiniteSet(Ids)
<1>1. Investigator!IsFiniteSet(Ids) <=> IsFiniteSet(Ids)
  BY DEF Investigator!IsFiniteSet, IsFiniteSet
<1> QED BY <1>1, RowIdsAssumption, PageSizesAssumption

\* Hence the investigator section keeps what a traversal keeps.
LEMMA InvestigatorKeeps ==
  ASSUME KeepsAll = FALSE
  PROVE  Spec => []InvestigatorWalk!NoRepeat /\ []InvestigatorWalk!NoSkip
<1>1. Spec => Investigator!Spec
  BY SectionsAreTraversals, InvestigatorSame, PTL
     DEF EachSectionIsATraversal, InvestigatorWalk!Spec, Investigator!Spec
<1>2. Investigator!Spec => []Investigator!NoRepeat
  BY InvestigatorConstants, Investigator!NoRepeatHolds
<1>3. Investigator!Spec => []Investigator!NoSkip
  BY InvestigatorConstants, Investigator!NoSkipHolds
<1>4. Investigator!NoRepeat => InvestigatorWalk!NoRepeat
  BY DEF Investigator!NoRepeat, InvestigatorWalk!NoRepeat
<1>5. Investigator!NoSkip => InvestigatorWalk!NoSkip
  BY DEF Investigator!NoSkip, InvestigatorWalk!NoSkip, Investigator!Seen, InvestigatorWalk!Seen
<1> QED BY <1>1, <1>2, <1>3, <1>4, <1>5, PTL

\* The two instances of Keyset for the case-manager section mean the same.
LEMMA CaseManagerSame ==
  /\ CaseManagerWalk!Init => CaseManager!Init
  /\ [CaseManagerWalk!Next]_CaseManagerWalk!vars => [CaseManager!Next]_CaseManager!vars
<1>1. \A S : CaseManagerWalk!Cardinality(S) = CaseManager!Cardinality(S)
  BY DEF CaseManagerWalk!Cardinality, CaseManager!Cardinality
<1>2. \A S, n : CaseManagerWalk!FirstOf(S, n) = CaseManager!FirstOf(S, n)
  BY <1>1 DEF CaseManagerWalk!FirstOf, CaseManager!FirstOf
<1>3. \A items : CaseManagerWalk!LastOf(items) = CaseManager!LastOf(items)
  BY DEF CaseManagerWalk!LastOf, CaseManager!LastOf
<1>4. \A rows, items, limit :
        CaseManagerWalk!NextCursor(rows, items, limit) = CaseManager!NextCursor(rows, items, limit)
  BY <1>1, <1>3 DEF CaseManagerWalk!NextCursor, CaseManager!NextCursor
<1>5. \A rows, limit : CaseManagerWalk!Slices(rows, limit) = CaseManager!Slices(rows, limit)
  BY <1>2, <1>4 DEF CaseManagerWalk!Slices, CaseManager!Slices
<1>6. \A S, limit : CaseManagerWalk!Pages(S, limit) = CaseManager!Pages(S, limit)
  BY <1>2, <1>5 DEF CaseManagerWalk!Pages, CaseManager!Pages
<1>7. CaseManagerWalk!Ahead = CaseManager!Ahead /\ CaseManagerWalk!Matching = CaseManager!Matching
  BY DEF CaseManagerWalk!Ahead, CaseManager!Ahead, CaseManagerWalk!Matching, CaseManager!Matching
<1>8. CaseManagerWalk!Fetch => CaseManager!Fetch
  BY <1>6, <1>7 DEF CaseManagerWalk!Fetch, CaseManager!Fetch, CaseManagerWalk!Page, CaseManager!Page
<1>9. \A x \in Ids : CaseManagerWalk!Mint(x) => CaseManager!Mint(x)
  BY DEF CaseManagerWalk!Mint, CaseManager!Mint
<1>10. \A x \in Ids : CaseManagerWalk!Insert(x) => CaseManager!Insert(x)
  BY DEF CaseManagerWalk!Insert, CaseManager!Insert
<1>11. \A x \in Ids : /\ CaseManagerWalk!Enter(x) => CaseManager!Enter(x)
                      /\ CaseManagerWalk!Leave(x) => CaseManager!Leave(x)
  BY DEF CaseManagerWalk!Enter, CaseManager!Enter, CaseManagerWalk!Leave, CaseManager!Leave
<1>12. CaseManagerWalk!Init => CaseManager!Init
  BY DEF CaseManagerWalk!Init, CaseManager!Init
<1> QED BY <1>8, <1>9, <1>10, <1>11, <1>12 DEF CaseManagerWalk!Next, CaseManager!Next, CaseManagerWalk!vars, CaseManager!vars

\* The constants of a walk are what Keyset assumes of its own.
LEMMA CaseManagerConstants ==
  /\ FALSE \in BOOLEAN
  /\ None \notin Ids
  /\ Limits \subseteq Nat \ {0}
  /\ Ids \subseteq Nat /\ CaseManager!IsFiniteSet(Ids)
<1>1. CaseManager!IsFiniteSet(Ids) <=> IsFiniteSet(Ids)
  BY DEF CaseManager!IsFiniteSet, IsFiniteSet
<1> QED BY <1>1, RowIdsAssumption, PageSizesAssumption

\* Hence the case-manager section keeps what a traversal keeps.
LEMMA CaseManagerKeeps ==
  ASSUME KeepsAll = FALSE
  PROVE  Spec => []CaseManagerWalk!NoRepeat /\ []CaseManagerWalk!NoSkip
<1>1. Spec => CaseManager!Spec
  BY SectionsAreTraversals, CaseManagerSame, PTL
     DEF EachSectionIsATraversal, CaseManagerWalk!Spec, CaseManager!Spec
<1>2. CaseManager!Spec => []CaseManager!NoRepeat
  BY CaseManagerConstants, CaseManager!NoRepeatHolds
<1>3. CaseManager!Spec => []CaseManager!NoSkip
  BY CaseManagerConstants, CaseManager!NoSkipHolds
<1>4. CaseManager!NoRepeat => CaseManagerWalk!NoRepeat
  BY DEF CaseManager!NoRepeat, CaseManagerWalk!NoRepeat
<1>5. CaseManager!NoSkip => CaseManagerWalk!NoSkip
  BY DEF CaseManager!NoSkip, CaseManagerWalk!NoSkip, CaseManager!Seen, CaseManagerWalk!Seen
<1> QED BY <1>1, <1>2, <1>3, <1>4, <1>5, PTL

\* A client that asks for the next page of every section and lets a finished one
\* rest gets no row of a section twice (investigator.py:30), whatever is changed
\* or deleted meanwhile; the run joint_traversal is the client that does not.
THEOREM NoRowTwiceHolds == ASSUME KeepsAll = FALSE PROVE Spec => []NoRowTwice
BY InvestigatorKeeps, CaseManagerKeeps, PTL DEF NoRowTwice

\* Nor does it miss a row of a finished section that matched all along.
THEOREM NoRowMissedHolds == ASSUME KeepsAll = FALSE PROVE Spec => []NoRowMissed
BY InvestigatorKeeps, CaseManagerKeeps, PTL DEF NoRowMissed
=============================================================================
