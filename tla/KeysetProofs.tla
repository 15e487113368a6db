---------------------------- MODULE KeysetProofs ----------------------------
(***************************************************************************)
(* No traversal repeats a row or skips a row that was there all along, for  *)
(* every table, every sequence of page sizes and every behaviour of the     *)
(* writers.                                                                 *)
(***************************************************************************)
EXTENDS Keyset, FiniteSetTheorems, TLAPS

\* A step that reads no page leaves the pages and the cursor alone, and makes
\* no row stable.
WriterStep == \E x \in Ids : Mint(x) \/ Insert(x) \/ Enter(x) \/ Leave(x)

-----------------------------------------------------------------------------
(***************************************************************************)
(* Lemmas about one page                                                    *)
(***************************************************************************)

\* What the first n elements of a finite set are.
LEMMA FirstOfFacts ==
  ASSUME NEW S, IsFiniteSet(S), NEW n \in Nat, NEW P \in FirstOf(S, n)
  PROVE  /\ P \subseteq S /\ IsFiniteSet(P) /\ Cardinality(P) \in Nat
         /\ Cardinality(P) <= n
         /\ Cardinality(P) < n => P = S
         /\ \A x \in P, y \in S \ P : x < y
<1>1. /\ P \subseteq S
      /\ Cardinality(P) = n \/ (Cardinality(P) < n /\ P = S)
      /\ \A x \in P, y \in S \ P : x < y
  BY DEF FirstOf
<1>2. IsFiniteSet(P)
  BY <1>1, FS_Subset
<1>3. Cardinality(P) \in Nat
  BY <1>2, FS_CardinalityType
<1>4. QED
  BY <1>1, <1>2, <1>3

\* If the lookahead found nothing, the page holds everything ahead.
LEMMA LastPageIsAll ==
  ASSUME NEW S, IsFiniteSet(S), NEW limit \in Nat \ {0},
         NEW rows \in FirstOf(S, limit + 1), NEW items \in FirstOf(rows, limit),
         Cardinality(rows) <= limit
  PROVE  items = S
<1>1. limit + 1 \in Nat
  OBVIOUS
<1>2. /\ rows \subseteq S /\ IsFiniteSet(rows) /\ Cardinality(rows) \in Nat
      /\ Cardinality(rows) < limit + 1 => rows = S
  BY <1>1, FirstOfFacts
<1>3. rows = S
  BY <1>2
<1>4. /\ items \subseteq rows /\ Cardinality(items) \in Nat
      /\ Cardinality(items) <= limit
      /\ Cardinality(items) < limit => items = rows
  BY <1>2, FirstOfFacts
<1>5. CASE Cardinality(items) < limit
  BY <1>3, <1>4, <1>5
<1>6. CASE Cardinality(items) = limit
  <2>1. Cardinality(items) = Cardinality(rows)
    <3>1. Cardinality(items) <= Cardinality(rows)
      BY <1>2, <1>4, FS_Subset
    <3>2. QED
      BY <1>2, <1>4, <1>6, <3>1
  <2>2. items = rows
    BY <1>2, <1>4, <2>1, FS_Subset
  <2>3. QED
    BY <1>3, <2>2
<1>7. QED
  BY <1>4, <1>5, <1>6

\* What lies ahead of the cursor is a finite set of ids beyond it.
LEMMA AheadFacts ==
  ASSUME TypeOK
  PROVE  /\ Matching \subseteq Ids /\ Ahead \subseteq Matching /\ IsFiniteSet(Ahead)
         /\ cursor # None => \A x \in Ahead : x > cursor
         /\ \A x \in Matching : cursor = None \/ x > cursor => x \in Ahead
<1>1. Matching \subseteq Ids /\ Ahead \subseteq Matching
  BY DEF Matching, Ahead
<1>2. IsFiniteSet(Ahead)
  BY <1>1, FS_Subset, IdsAssumption
<1>3. QED
  BY <1>1, <1>2 DEF Ahead

\* What has been seen are ids.
LEMMA PagesTyping ==
  ASSUME NEW p \in Seq(SUBSET Ids)
  PROVE  UNION {p[i] : i \in DOMAIN p} \subseteq Ids
<1>1. ASSUME NEW i \in DOMAIN p PROVE p[i] \in SUBSET Ids
  OBVIOUS
<1>2. QED
  BY <1>1

LEMMA SeenTyping ==
  ASSUME TypeOK
  PROVE  Seen \subseteq Ids
  BY PagesTyping DEF TypeOK, Seen

\* Receiving one more page.
LEMMA AppendFacts ==
  ASSUME TypeOK, NEW items \in SUBSET Ids, pages' = Append(pages, items)
  PROVE  /\ pages' \in Seq(SUBSET Ids)
         /\ DOMAIN pages = 1 .. Len(pages) /\ Len(pages) \in Nat
         /\ DOMAIN pages' = 1 .. Len(pages) + 1
         /\ \A i \in DOMAIN pages : pages'[i] = pages[i]
         /\ pages'[Len(pages) + 1] = items
         /\ Seen' = Seen \cup items
<1>1. pages \in Seq(SUBSET Ids)
  BY DEF TypeOK
<1>2. /\ pages' \in Seq(SUBSET Ids)
      /\ DOMAIN pages = 1 .. Len(pages) /\ Len(pages) \in Nat
      /\ DOMAIN pages' = 1 .. Len(pages) + 1
      /\ \A i \in DOMAIN pages : pages'[i] = pages[i]
      /\ pages'[Len(pages) + 1] = items
  BY <1>1
<1>3. Seen' = Seen \cup items
  <2>1. ASSUME NEW x \in Seen' PROVE x \in Seen \cup items
    <3>1. PICK i \in 1 .. Len(pages) + 1 : x \in pages'[i]
      BY <1>2, <2>1 DEF Seen
    <3>2. CASE i = Len(pages) + 1
      BY <1>2, <3>1, <3>2
    <3>3. CASE i \in 1 .. Len(pages)
      BY <1>2, <3>1, <3>3 DEF Seen
    <3>4. QED
      BY <1>2, <3>1, <3>2, <3>3
  <2>2. ASSUME NEW x \in Seen PROVE x \in Seen'
    <3>1. PICK i \in DOMAIN pages : x \in pages[i]
      BY <2>2 DEF Seen
    <3>2. i \in DOMAIN pages' /\ x \in pages'[i]
      BY <1>2, <3>1
    <3>3. QED
      BY <3>2 DEF Seen
  <2>3. ASSUME NEW x \in items PROVE x \in Seen'
    BY <1>2, <2>3 DEF Seen
  <2>4. QED
    BY <2>1, <2>2, <2>3
<1>4. QED
  BY <1>2, <1>3

\* The parts of a page: what was fetched, what is returned, the next cursor.
LEMMA PageParts ==
  ASSUME NEW S, NEW limit, NEW page \in Pages(S, limit)
  PROVE  \E rows \in FirstOf(S, limit + 1) : \E items \in FirstOf(rows, limit) :
           \E next \in NextCursor(rows, items, limit) :
             page = [items |-> items, next_cursor |-> next]
<1>1. PICK rows \in FirstOf(S, limit + 1) : page \in Slices(rows, limit)
  BY DEF Pages
<1>2. PICK items \in FirstOf(rows, limit) :
        page \in {[items |-> items, next_cursor |-> c] : c \in NextCursor(rows, items, limit)}
  BY <1>1 DEF Slices
<1>3. QED
  BY <1>1, <1>2

\* A page is empty only if nothing is ahead of the cursor.
LEMMA NoRowNoPage ==
  ASSUME NEW S, IsFiniteSet(S), NEW limit \in Nat \ {0},
         NEW rows \in FirstOf(S, limit + 1), {} \in FirstOf(rows, limit)
  PROVE  S = {}
<1>1. limit + 1 \in Nat /\ 0 < limit
  OBVIOUS
<1>2. /\ IsFiniteSet(rows) /\ Cardinality(rows) \in Nat
      /\ Cardinality(rows) < limit + 1 => rows = S
  BY <1>1, FirstOfFacts
<1>3. Cardinality({}) = 0
  BY FS_EmptySet
<1>4. rows = {}
  BY <1>1, <1>2, <1>3, FirstOfFacts
<1>5. QED
  BY <1>1, <1>2, <1>3, <1>4

-----------------------------------------------------------------------------
(***************************************************************************)
(* The invariant                                                            *)
(***************************************************************************)

\* Reading a page keeps the invariant: the page lies beyond everything seen,
\* and what it leaves out lies beyond the page.
LEMMA PageStep ==
  ASSUME KInv, NEW limit \in Limits, Page(limit)
  PROVE  KInv'
<1>a. PICK page \in Pages(Ahead, limit) :
         /\ pages' = Append(pages, page.items)
         /\ \/ page.next_cursor # None /\ cursor' = page.next_cursor /\ phase' = "paging"
            \/ page.next_cursor = None /\ UNCHANGED cursor /\ phase' = "done"
  BY DEF Page
<1>b. PICK rows \in FirstOf(Ahead, limit + 1) : \E items \in FirstOf(rows, limit) :
        \E next \in NextCursor(rows, items, limit) :
          page = [items |-> items, next_cursor |-> next]
  BY PageParts
<1>c. PICK items \in FirstOf(rows, limit) : \E next \in NextCursor(rows, items, limit) :
        page = [items |-> items, next_cursor |-> next]
  BY <1>b
<1>d. PICK next \in NextCursor(rows, items, limit) :
        page = [items |-> items, next_cursor |-> next]
  BY <1>c
<1>1. /\ pages' = Append(pages, items)
      /\ \/ next # None /\ cursor' = next /\ phase' = "paging"
         \/ next = None /\ UNCHANGED cursor /\ phase' = "done"
  BY <1>a, <1>d
<1>2. /\ Cardinality(rows) > limit =>
           next \in items /\ \A x \in items : x <= next
      /\ ~(Cardinality(rows) > limit) => next = None
  BY DEF NextCursor, LastOf
<1>3. limit \in Nat \ {0} /\ limit + 1 \in Nat
  BY LimitsAssumption
<1>4. TypeOK /\ NoRepeat /\ CursorInv
  BY DEF KInv
<1>5. /\ rows \subseteq Ahead /\ IsFiniteSet(rows)
      /\ \A x \in rows, y \in Ahead \ rows : x < y
  BY <1>3, <1>4, AheadFacts, FirstOfFacts
<1>6. items \subseteq rows /\ \A x \in items, y \in rows \ items : x < y
  BY <1>3, <1>5, FirstOfFacts
<1>7. /\ items \subseteq Ahead /\ items \subseteq Ids
      /\ \A x \in items, y \in Ahead \ items : x < y
  BY <1>4, <1>5, <1>6, AheadFacts
<1>8. \A x \in Seen, y \in items : x < y
  <2>1. CASE phase = "start"
    BY <1>4, <2>1 DEF CursorInv, Seen
  <2>2. CASE phase = "paging"
    <3>1. cursor \in Ids /\ \A x \in Seen : x <= cursor
      BY <1>4, <2>2 DEF CursorInv
    <3>2. \A y \in items : y > cursor
      BY <1>4, <1>7, <3>1, AheadFacts, NoneAssumption
    <3>3. Seen \subseteq Nat
      BY <1>4, IdsAssumption, SeenTyping
    <3>4. QED
      BY <1>7, <3>1, <3>2, <3>3, IdsAssumption
  <2>3. QED
    BY <1>4, <2>1, <2>2 DEF Page, TypeOK
<1>9. \A x \in stable' \ Seen : x \in Ahead
  <2>1. CASE phase = "start"
    BY <1>4, <2>1, AheadFacts DEF CursorInv, Page
  <2>2. CASE phase = "paging"
    BY <1>4, <2>2, AheadFacts DEF CursorInv, Page
  <2>3. QED
    BY <1>4, <2>1, <2>2 DEF Page, TypeOK
<1>10. TypeOK'
  <2>1. pages' \in Seq(SUBSET Ids)
    BY <1>1, <1>4, <1>7, AppendFacts
  <2>2. stable' \subseteq Ids
    BY <1>4, AheadFacts DEF Page, TypeOK
  <2>3. cursor' \in Ids \cup {None} /\ phase' \in {"start", "paging", "done"}
    BY <1>1, <1>2, <1>4, <1>7 DEF TypeOK
  <2>4. QED
    BY <1>4, <2>1, <2>2, <2>3 DEF Page, TypeOK
<1>11. NoRepeat'
  <2>. SUFFICES ASSUME NEW i \in DOMAIN pages', NEW j \in DOMAIN pages', i < j,
                       NEW x \in pages'[i], NEW y \in pages'[j]
                PROVE  x < y
    BY DEF NoRepeat
  <2>1. /\ DOMAIN pages = 1 .. Len(pages) /\ Len(pages) \in Nat
        /\ DOMAIN pages' = 1 .. Len(pages) + 1
        /\ \A k \in DOMAIN pages : pages'[k] = pages[k]
        /\ pages'[Len(pages) + 1] = items
    BY <1>1, <1>4, <1>7, AppendFacts
  <2>2. i \in DOMAIN pages /\ x \in pages[i]
    BY <2>1
  <2>3. CASE j \in DOMAIN pages
    BY <1>4, <2>1, <2>2, <2>3 DEF NoRepeat
  <2>4. CASE j = Len(pages) + 1
    BY <1>8, <2>1, <2>2, <2>4 DEF Seen
  <2>5. QED
    BY <2>1, <2>3, <2>4
<1>12. Seen' = Seen \cup items
  BY <1>1, <1>4, <1>7, AppendFacts
<1>13. NoSkip' /\ CursorInv'
  <2>1. stable' \subseteq Matching /\ UNCHANGED Matching
    BY <1>4 DEF Page, CursorInv, Matching, TypeOK
  <2>2. CASE Cardinality(rows) > limit
    <3>1. phase' = "paging" /\ cursor' \in items /\ \A x \in items : x <= cursor'
      BY <1>1, <1>2, <1>7, <2>2, NoneAssumption
    <3>2. \A x \in Seen' : x <= cursor'
      <4>1. Seen \subseteq Nat /\ items \subseteq Nat
        BY <1>4, <1>7, IdsAssumption, SeenTyping
      <4>2. QED
        BY <1>8, <1>12, <3>1, <4>1
    <3>3. \A x \in stable' \ Seen' : x > cursor'
      <4>1. ASSUME NEW x \in stable' \ Seen' PROVE x > cursor'
        <5>1. x \in Ahead \ items
          BY <1>9, <1>12, <4>1
        <5>2. cursor' < x /\ x \in Nat /\ cursor' \in Nat
          BY <1>4, <1>7, <3>1, <5>1, AheadFacts, IdsAssumption
        <5>3. QED
          BY <5>2
      <4>2. QED
        BY <4>1
    <3>4. QED
      BY <1>7, <2>1, <3>1, <3>2, <3>3 DEF NoSkip, CursorInv
  <2>3. CASE Cardinality(rows) <= limit
    <3>1. phase' = "done"
      BY <1>1, <1>2, <1>3, <1>5, <2>3, FS_CardinalityType
    <3>2. items = Ahead
      BY <1>3, <1>4, <2>3, AheadFacts, LastPageIsAll
    <3>3. stable' \subseteq Seen'
      BY <1>9, <1>12, <3>2
    <3>4. QED
      BY <2>1, <3>1, <3>3 DEF NoSkip, CursorInv
  <2>4. QED
    BY <1>3, <1>5, <2>2, <2>3, FS_CardinalityType
<1>14. PromiseInv'
  <2>. SUFFICES ASSUME phase' = "paging" PROVE Ahead' # {}
    BY DEF PromiseInv
  <2>1. Cardinality(rows) > limit /\ next \in items /\ \A x \in items : x <= next /\ cursor' = next
    BY <1>1, <1>2 DEF Page, TypeOK
  <2>2. PICK y \in rows : y \notin items
    <3>1. Cardinality(items) <= limit /\ Cardinality(items) \in Nat
      BY <1>3, <1>5, FirstOfFacts
    <3>2. Cardinality(rows) \in Nat
      BY <1>5, FS_CardinalityType
    <3>3. items # rows
      BY <1>3, <2>1, <3>1, <3>2
    <3>4. QED
      BY <1>6, <3>3
  <2>3. next < y /\ y \in Matching
    BY <1>4, <1>5, <1>6, <2>1, <2>2, AheadFacts
  <2>4. UNCHANGED row /\ cursor' # None
    BY <1>7, <2>1, NoneAssumption DEF Page
  <2>5. y \in Ahead'
    BY <1>4, <2>1, <2>3, <2>4, AheadFacts, IdsAssumption DEF Ahead, Matching
  <2>6. QED
    BY <2>5
<1>15. QED
  BY <1>10, <1>11, <1>13, <1>14 DEF KInv

\* What the writers do keeps the invariant: they touch neither pages nor
\* cursor, and a row they change is stable no longer.
LEMMA WriterKeeps ==
  ASSUME KInv, WriterStep
  PROVE  KInv'
<1>1. PICK x \in Ids : Mint(x) \/ Insert(x) \/ Enter(x) \/ Leave(x)
  BY DEF WriterStep
<1>2. TypeOK /\ CursorInv
  BY DEF KInv
<1>3. UNCHANGED <<phase, cursor, pages>> /\ stable' \subseteq stable
  BY <1>1 DEF Mint, Insert, Enter, Leave
<1>4. Seen' = Seen
  BY <1>3 DEF Seen
<1>5. phase # "start" => stable' \subseteq Matching'
  <2>. SUFFICES ASSUME phase # "start", NEW y \in stable' PROVE row'[y] = "match"
    BY <1>2, <1>3 DEF Matching, TypeOK
  <2>1. row[y] = "match" /\ y \in Ids
    BY <1>2, <1>3 DEF CursorInv, Matching
  <2>2. QED
    BY <1>1, <1>2, <2>1 DEF Mint, Insert, Enter, Leave, TypeOK
<1>6. TypeOK'
  <2>1. row' \in [Ids -> RowStates]
    BY <1>1, <1>2 DEF Mint, Insert, Enter, Leave, TypeOK, RowStates
  <2>2. inserted' \subseteq Ids
    BY <1>1, <1>2 DEF Mint, Insert, Enter, Leave, TypeOK
  <2>3. left' \in BOOLEAN
    BY <1>1, <1>2 DEF Mint, Insert, Enter, Leave, TypeOK
  <2>4. QED
    BY <1>2, <1>3, <2>1, <2>2, <2>3 DEF TypeOK
<1>7. NoRepeat' /\ NoSkip' /\ CursorInv'
  BY <1>2, <1>3, <1>4, <1>5 DEF KInv, NoRepeat, NoSkip, CursorInv
<1>8. PromiseInv'
  <2>. SUFFICES ASSUME phase = "paging", ~left' PROVE Ahead' # {}
    BY <1>3 DEF PromiseInv
  <2>1. ~left /\ ~Leave(x)
    BY <1>1 DEF Mint, Insert, Enter, Leave
  <2>2. PICK y \in Ahead : TRUE
    BY <2>1 DEF KInv, PromiseInv
  <2>3. y \in Ids /\ row[y] = "match" /\ row'[y] = "match"
    BY <1>1, <1>2, <2>1, <2>2 DEF Ahead, Matching, Mint, Insert, Enter, TypeOK
  <2>4. y \in Ahead'
    BY <1>3, <2>2, <2>3 DEF Ahead, Matching
  <2>5. QED
    BY <2>4
<1>9. QED
  BY <1>6, <1>7, <1>8 DEF KInv

\* The inductive invariant of a traversal holds in every reachable state.
THEOREM KeysetInvariant == Spec => []KInv
<1>1. Init => KInv
  <2>. SUFFICES ASSUME Init PROVE KInv
    OBVIOUS
  <2>0. row \in [Ids -> RowStates]
    <3>1. \A x \in Ids : row[x] \in RowStates
      BY DEF Init, RowStates
    <3>2. row = [x \in Ids |-> row[x]]
      BY DEF Init
    <3>3. QED
      BY <3>1, <3>2
  <2>a. pages \in Seq(SUBSET Ids)
    BY DEF Init
  <2>b. left \in BOOLEAN
    BY Zenon DEF Init
  <2>1. TypeOK
    BY <2>0, <2>a, <2>b DEF Init, TypeOK
  <2>2. DOMAIN pages = {}
    BY DEF Init
  <2>3. QED
    BY <2>1, <2>2 DEF Init, KInv, NoRepeat, NoSkip, CursorInv, PromiseInv
<1>2. KInv /\ [Next]_vars => KInv'
  <2>. SUFFICES ASSUME KInv, [Next]_vars PROVE KInv'
    OBVIOUS
  <2>1. CASE Fetch
    BY <2>1, PageStep DEF Fetch
  <2>2. CASE WriterStep
    BY <2>2, WriterKeeps
  <2>3. CASE UNCHANGED vars
    BY <2>3 DEF vars, KInv, TypeOK, NoRepeat, NoSkip, CursorInv, PromiseInv, Seen, Matching, Ahead
  <2>4. QED
    BY <2>1, <2>2, <2>3 DEF Next, WriterStep
<1>3. QED
  BY <1>1, <1>2, PTL DEF Spec

\* No row is handed out twice, and every page lies beyond the one before it.
THEOREM NoRepeatHolds == Spec => []NoRepeat
<1>1. KInv => NoRepeat
  BY DEF KInv
<1>2. QED
  BY <1>1, KeysetInvariant, PTL

\* A traversal that is over has seen every row that matched all along.
THEOREM NoSkipHolds == Spec => []NoSkip
<1>1. KInv => NoSkip
  BY DEF KInv
<1>2. QED
  BY <1>1, KeysetInvariant, PTL

\* A page that a next_cursor promised is empty only if a row left meanwhile.
THEOREM NoDanglingPageHolds == Spec => NoDanglingPage
<1>1. ASSUME KInv, Fetch, phase = "paging", ~left
      PROVE  pages'[Len(pages')] # {}
  <2>1. PICK limit \in Limits : \E page \in Pages(Ahead, limit) : pages' = Append(pages, page.items)
    BY <1>1 DEF Fetch, Page
  <2>2. PICK page \in Pages(Ahead, limit) : pages' = Append(pages, page.items)
    BY <2>1
  <2>a. PICK rows \in FirstOf(Ahead, limit + 1) :
          \E items \in FirstOf(rows, limit) : \E next \in NextCursor(rows, items, limit) :
            page = [items |-> items, next_cursor |-> next]
    BY PageParts
  <2>3. PICK items \in FirstOf(rows, limit) : page.items = items
    BY <2>a
  <2>4. TypeOK /\ IsFiniteSet(Ahead) /\ Ahead \subseteq Ids /\ Ahead # {}
    BY <1>1, AheadFacts DEF KInv, PromiseInv
  <2>5. items # {}
    BY <2>3, <2>4, LimitsAssumption, NoRowNoPage
  <2>6. items \subseteq Ids
    BY <2>3, <2>4 DEF FirstOf
  <2>7. /\ DOMAIN pages' = 1 .. Len(pages) + 1 /\ Len(pages) \in Nat
        /\ pages' \in Seq(SUBSET Ids) /\ pages'[Len(pages) + 1] = items
    BY <2>2, <2>3, <2>4, <2>6, AppendFacts
  <2>8. Len(pages') = Len(pages) + 1
    BY <2>7
  <2>9. QED
    BY <2>5, <2>7, <2>8
<1>2. KInv /\ [Next]_vars => [(Fetch /\ phase = "paging" /\ ~left) => pages'[Len(pages')] # {}]_vars
  BY <1>1
<1>3. QED
  BY <1>2, KeysetInvariant, PTL DEF Spec, NoDanglingPage

-----------------------------------------------------------------------------
(***************************************************************************)
(* The length of a traversal                                                *)
(***************************************************************************)

\* A page with a next_cursor holds a row beyond everything seen; a page without
\* one is the last.
LEMMA PageCounts ==
  ASSUME KInv, KInv', NEW limit \in Limits, Page(limit), TraversalIsShort
  PROVE  TraversalIsShort'
<1>a. PICK page \in Pages(Ahead, limit) :
         /\ pages' = Append(pages, page.items)
         /\ \/ page.next_cursor # None /\ cursor' = page.next_cursor /\ phase' = "paging"
            \/ page.next_cursor = None /\ UNCHANGED cursor /\ phase' = "done"
  BY DEF Page
<1>b. PICK rows \in FirstOf(Ahead, limit + 1) : \E items \in FirstOf(rows, limit) :
        \E next \in NextCursor(rows, items, limit) :
          page = [items |-> items, next_cursor |-> next]
  BY PageParts
<1>c. PICK items \in FirstOf(rows, limit) : \E next \in NextCursor(rows, items, limit) :
        page = [items |-> items, next_cursor |-> next]
  BY <1>b
<1>d. PICK next \in NextCursor(rows, items, limit) :
        page = [items |-> items, next_cursor |-> next]
  BY <1>c
<1>1. TypeOK /\ Seen \subseteq Ids /\ Seen' \subseteq Ids
  BY PagesTyping DEF KInv, TypeOK, Seen
<1>2. items \in SUBSET Ids
  BY <1>1, AheadFacts DEF FirstOf
<1>3. /\ pages' = Append(pages, items)
      /\ phase' = "done" \/ (phase' = "paging" /\ next # None)
  BY <1>a, <1>d
<1>4. Len(pages) \in Nat /\ Len(pages') = Len(pages) + 1 /\ Seen' = Seen \cup items
  <2>1. pages \in Seq(SUBSET Ids)
    BY <1>1 DEF TypeOK
  <2>2. QED
    BY <1>1, <1>2, <1>3, <2>1, AppendFacts
<1>5. IsFiniteSet(Seen) /\ IsFiniteSet(Seen') /\ Cardinality(Seen) \in Nat /\ Cardinality(Seen') \in Nat
  BY <1>1, IdsAssumption, FS_Subset, FS_CardinalityType
<1>6. Len(pages) <= Cardinality(Seen)
  BY <1>4, <1>5 DEF TraversalIsShort, Page
<1>7. CASE phase' = "done"
  <2>1. Cardinality(Seen) <= Cardinality(Seen')
    BY <1>4, <1>5, FS_Subset
  <2>2. QED
    BY <1>4, <1>5, <1>6, <1>7, <2>1 DEF TraversalIsShort
<1>8. CASE phase' = "paging" /\ next # None
  <2>1. next \in items
    BY <1>8 DEF NextCursor, LastOf
  <2>2. next \notin Seen
    <3>1. Len(pages) + 1 \in DOMAIN pages' /\ pages'[Len(pages) + 1] = items
      BY <1>1, <1>2, <1>3, AppendFacts
    <3>2. ASSUME next \in Seen PROVE FALSE
      <4>1. PICK i \in DOMAIN pages : next \in pages[i]
        BY <3>2 DEF Seen
      <4>2. i \in DOMAIN pages' /\ i < Len(pages) + 1 /\ next \in pages'[i]
        BY <1>1, <1>2, <1>3, <4>1, AppendFacts
      <4>3. next < next
        BY <2>1, <3>1, <4>2 DEF KInv, NoRepeat
      <4>4. next \in Nat
        BY <1>2, <2>1, IdsAssumption
      <4>5. QED
        BY <4>3, <4>4
    <3>3. QED
      BY <3>2
  <2>3. Seen \cup {next} \subseteq Seen'
    BY <1>4, <2>1
  <2>4. Cardinality(Seen \cup {next}) = Cardinality(Seen) + 1
    BY <1>5, <2>2, FS_AddElement
  <2>5. Cardinality(Seen \cup {next}) <= Cardinality(Seen')
    BY <1>5, <2>3, FS_Subset
  <2>6. QED
    BY <1>4, <1>5, <1>6, <1>8, <2>4, <2>5 DEF TraversalIsShort
<1>9. QED
  BY <1>3, <1>7, <1>8

\* A traversal is at most one page longer than the rows it returns.
THEOREM TraversalIsShortHolds == Spec => []TraversalIsShort
<1>1. Init => TraversalIsShort
  <2>. SUFFICES ASSUME Init PROVE TraversalIsShort
    OBVIOUS
  <2>1. Len(pages) = 0 /\ Seen = {}
    BY DEF Init, Seen
  <2>2. QED
    BY <2>1, FS_EmptySet DEF Init, TraversalIsShort
<1>2. KInv /\ KInv' /\ TraversalIsShort /\ [Next]_vars => TraversalIsShort'
  <2>. SUFFICES ASSUME KInv, KInv', TraversalIsShort, [Next]_vars PROVE TraversalIsShort'
    OBVIOUS
  <2>1. CASE Fetch
    BY <2>1, PageCounts DEF Fetch
  <2>2. CASE WriterStep \/ UNCHANGED vars
    <3>1. UNCHANGED <<pages, phase>>
      BY <2>2 DEF WriterStep, vars, Mint, Insert, Enter, Leave
    <3>2. QED
      BY <3>1 DEF TraversalIsShort, Seen
  <2>3. QED
    BY <2>1, <2>2 DEF Next, WriterStep
<1>3. QED
  BY <1>1, <1>2, KeysetInvariant, PTL DEF Spec

-----------------------------------------------------------------------------
(***************************************************************************)
(* The way to the end of a traversal                                        *)
(***************************************************************************)

\* A page never moves the cursor back, and one that promises another moves it to
\* a row that was ahead of it.
LEMMA PageMovesOn ==
  ASSUME KInv, NEW limit \in Limits, Page(limit)
  PROVE  /\ row' = row
         /\ \/ cursor' = cursor /\ phase' = "done"
            \/ cursor' \in Ahead /\ phase' = "paging"
<1>1. PICK page \in Pages(Ahead, limit) :
        \/ page.next_cursor # None /\ cursor' = page.next_cursor /\ phase' = "paging"
        \/ page.next_cursor = None /\ UNCHANGED cursor /\ phase' = "done"
  BY DEF Page
<1>2. PICK rows \in FirstOf(Ahead, limit + 1) : \E items \in FirstOf(rows, limit) :
        \E next \in NextCursor(rows, items, limit) :
          page = [items |-> items, next_cursor |-> next]
  BY PageParts
<1>3. PICK items \in FirstOf(rows, limit) : \E next \in NextCursor(rows, items, limit) :
        page = [items |-> items, next_cursor |-> next]
  BY <1>2
<1>4. items \subseteq Ahead
  BY DEF FirstOf
<1>5. page.next_cursor # None => page.next_cursor \in items
  BY <1>3 DEF NextCursor, LastOf
<1>6. QED
  BY <1>1, <1>4, <1>5 DEF Page

LEMMA RemainingShrinks ==
  ASSUME KInv, NEW limit \in Limits, Page(limit)
  PROVE  /\ Remaining' \subseteq Remaining
         /\ phase' = "paging" => Cardinality(Remaining') < Cardinality(Remaining)
<1>1. CASE cursor' = cursor /\ phase' = "done"
  BY <1>1, PageMovesOn DEF Remaining
<1>2. CASE cursor' \in Ahead /\ phase' = "paging"
  <2>1. row' = row
    BY PageMovesOn
  <2>2. /\ cursor' \in Ids /\ row[cursor'] = "match" /\ cursor' # None
        /\ cursor = None \/ cursor' > cursor
        /\ cursor = None \/ cursor \in Ids
    BY <1>2, AheadFacts, NoneAssumption DEF KInv, TypeOK, Matching
  <2>3. Remaining' \subseteq Remaining
    <3>. SUFFICES ASSUME NEW x \in Remaining' PROVE x \in Remaining
      OBVIOUS
    <3>1. x \in Ids /\ row[x] \notin {"unborn", "gone"} /\ x > cursor'
      BY <2>1, <2>2 DEF Remaining
    <3>2. cursor = None \/ x > cursor
      <4>. SUFFICES ASSUME cursor # None PROVE x > cursor
        OBVIOUS
      <4>1. cursor \in Nat /\ cursor' \in Nat /\ x \in Nat /\ cursor' > cursor /\ x > cursor'
        BY <2>2, <3>1, IdsAssumption
      <4>2. QED
        BY <4>1
    <3>3. QED
      BY <3>1, <3>2 DEF Remaining
  <2>4. cursor' \in Remaining
    BY <2>2 DEF Remaining
  <2>5. cursor' \notin Remaining'
    <3>1. ~(cursor' > cursor')
      BY <2>2, IdsAssumption
    <3>2. QED
      BY <2>2, <3>1 DEF Remaining
  <2>6. IsFiniteSet(Remaining) /\ Cardinality(Remaining) \in Nat
    BY IdsAssumption, FS_Subset, FS_CardinalityType DEF Remaining
  <2>7. /\ IsFiniteSet(Remaining \ {cursor'})
        /\ Cardinality(Remaining \ {cursor'}) = Cardinality(Remaining) - 1
    BY <2>4, <2>6, FS_RemoveElement
  <2>8. Remaining' \subseteq Remaining \ {cursor'}
    BY <2>3, <2>5
  <2>9. IsFiniteSet(Remaining') /\ Cardinality(Remaining') <= Cardinality(Remaining \ {cursor'})
    BY <2>7, <2>8, FS_Subset
  <2>10. Cardinality(Remaining') \in Nat
    BY <2>9, FS_CardinalityType
  <2>11. QED
    BY <2>3, <2>6, <2>7, <2>9, <2>10
<1>3. QED
  BY <1>1, <1>2, PageMovesOn

\* Every page that promises another brings the end nearer, and only new rows
\* put it off, in every table and for every sequence of page sizes.
THEOREM OnlyInsertsProlongHolds == Spec => OnlyInsertsProlong
<1>1. ASSUME KInv, [Next]_vars
      PROVE  [/\ (Fetch /\ phase' = "paging") => Cardinality(Remaining') < Cardinality(Remaining)
              /\ (\A x \in Ids : ~Mint(x)) => Remaining' \subseteq Remaining]_vars
  <2>1. ASSUME Fetch
        PROVE  /\ Remaining' \subseteq Remaining
               /\ phase' = "paging" => Cardinality(Remaining') < Cardinality(Remaining)
    BY <1>1, <2>1, RemainingShrinks DEF Fetch
  <2>2. ASSUME NEW x \in Ids, Insert(x) \/ Enter(x) \/ Leave(x)
        PROVE  Remaining' \subseteq Remaining
    <3>1. row[x] \notin {"unborn", "gone"}
      BY <2>2 DEF Insert, Enter, Leave
    <3>2. cursor' = cursor /\ \A y \in Ids \ {x} : row'[y] = row[y]
      BY <1>1, <2>2 DEF Insert, Enter, Leave, KInv, TypeOK
    <3>3. QED
      BY <3>1, <3>2 DEF Remaining
  <2>3. QED
    BY <1>1, <2>1, <2>2 DEF Next
<1>2. QED
  BY <1>1, KeysetInvariant, PTL DEF Spec, OnlyInsertsProlong
=============================================================================
