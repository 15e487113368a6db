------------------------------- MODULE Keyset -------------------------------
(***************************************************************************)
(* A client walks one paginated section (investigator or case-manager) page *)
(* by page, echoing each next_cursor, while the applications that own the   *)
(* table insert, change and delete its rows.  Every page is one SELECT,     *)
(* hence one snapshot; nothing holds across pages but the cursor.           *)
(*                                                                          *)
(* A row's id is its UUIDv7, a natural number here.  It is generated by the *)
(* writer (models/base.py) before the writer's transaction commits, and the *)
(* writers run on several machines with clocks of their own.                *)
(***************************************************************************)
EXTENDS Paging, Sequences

CONSTANTS
  Ids,           \* the ids rows can get, in uuid order
  Limits,        \* the page sizes the client asks for, one per request
  ClockOrdered   \* whether the ids of all writers are generated in order

ASSUME IdsAssumption == Ids \subseteq Nat /\ IsFiniteSet(Ids)
ASSUME LimitsAssumption == Limits \subseteq Nat \ {0}
ASSUME NoneAssumption == None \notin Ids
ASSUME ClockAssumption == ClockOrdered \in BOOLEAN

VARIABLES
  row,       \* what each id is: "unborn", "minted" (its INSERT not committed),
             \* "match" or "other" (committed; the WHERE holds or not), "gone"
  phase,     \* the traversal: "start", "paging" or "done"
  cursor,    \* the last next_cursor
  pages,     \* the pages received
  stable,    \* history: the rows that match since the first page was read
  inserted,  \* history: the rows that match since an INSERT between two pages
  left       \* history: whether a row stopped matching since the last page

vars == <<row, phase, cursor, pages, stable, inserted, left>>

RowStates == {"unborn", "minted", "match", "other", "gone"}

Init ==
  /\ row \in [Ids -> {"unborn", "match", "other"}]
  /\ phase = "start" /\ cursor = None /\ pages = <<>>
  /\ stable = {} /\ inserted = {} /\ left = FALSE

-----------------------------------------------------------------------------
(***************************************************************************)
(* The statement of the two strategies                                      *)
(***************************************************************************)

\* The WHERE clause without the cursor: allowed type or own case, and the term.
Matching == {x \in Ids : row[x] = "match"}

\* Mutant of Ahead: `id >= :cursor`.
AheadOrEqual == IF cursor = None THEN Matching ELSE {x \in Matching : x >= cursor}

\* The WHERE clause with it.
Ahead == IF cursor = None THEN Matching ELSE {x \in Matching : x > cursor}

\* One request for this section; without a next_cursor the traversal is over.
Page(limit) ==
  /\ phase # "done"
  /\ \E page \in Pages(Ahead, limit) :
       /\ pages' = Append(pages, page.items)
       /\ \/ page.next_cursor # None /\ cursor' = page.next_cursor /\ phase' = "paging"
          \/ page.next_cursor = None /\ UNCHANGED cursor /\ phase' = "done"
  /\ stable' = IF phase = "start" THEN Matching ELSE stable
  /\ left' = FALSE
  /\ UNCHANGED <<row, inserted>>

-----------------------------------------------------------------------------
(***************************************************************************)
(* The writers                                                              *)
(***************************************************************************)

\* uuid7(): an id newer than every other one, as far as the clocks agree.
Mint(x) ==
  /\ row[x] = "unborn"
  /\ ClockOrdered => \A y \in Ids : row[y] # "unborn" => y < x
  /\ row' = [row EXCEPT ![x] = "minted"]
  /\ UNCHANGED <<phase, cursor, pages, stable, inserted, left>>

\* The writer's transaction commits: the row becomes visible.
Insert(x) ==
  /\ row[x] = "minted"
  /\ \E s \in {"match", "other"} : row' = [row EXCEPT ![x] = s]
  /\ inserted' = IF row'[x] = "match" /\ phase = "paging" THEN inserted \cup {x} ELSE inserted
  /\ UNCHANGED <<phase, cursor, pages, stable, left>>

\* An UPDATE (renamed, retyped, reassigned) makes a row match.
Enter(x) ==
  /\ row[x] = "other"
  /\ row' = [row EXCEPT ![x] = "match"]
  /\ UNCHANGED <<phase, cursor, pages, stable, inserted, left>>

\* An UPDATE or a DELETE makes a row match no more.
Leave(x) ==
  /\ row[x] = "match"
  /\ \E s \in {"other", "gone"} : row' = [row EXCEPT ![x] = s]
  /\ stable' = stable \ {x}
  /\ inserted' = inserted \ {x}
  /\ left' = TRUE
  /\ UNCHANGED <<phase, cursor, pages>>

-----------------------------------------------------------------------------
Fetch == \E limit \in Limits : Page(limit)

Next == Fetch \/ \E x \in Ids : Mint(x) \/ Insert(x) \/ Enter(x) \/ Leave(x)

Spec == Init /\ [][Next]_vars

-----------------------------------------------------------------------------
(***************************************************************************)
(* Properties                                                               *)
(***************************************************************************)

Seen == UNION {pages[i] : i \in DOMAIN pages}

\* Type correctness.
TypeOK ==
  /\ row \in [Ids -> RowStates]
  /\ phase \in {"start", "paging", "done"}
  /\ cursor \in Ids \cup {None}
  /\ pages \in Seq(SUBSET Ids)
  /\ stable \subseteq Ids /\ inserted \subseteq Ids /\ left \in BOOLEAN

\* "neither skips nor repeats rows" (investigator.py:30), the second half:
\* later pages hold greater ids only, whatever is inserted, reassigned or
\* deleted between them and however the page size varies.
NoRepeat ==
  \A i, j \in DOMAIN pages : i < j => \A x \in pages[i], y \in pages[j] : x < y

\* The first half: a row that matched when the traversal began, and ever since,
\* is in some page of a traversal that is over.
NoSkip == phase = "done" => stable \subseteq Seen

\* The lookahead leaves no "dangling empty final page" (investigator.py:34): an
\* empty page that a next_cursor promised means that a row left meanwhile.
NoDanglingPage ==
  [][(Fetch /\ phase = "paging" /\ ~left) => pages'[Len(pages')] # {}]_vars

\* No page is a wasted request: every one that promises another brings a row
\* the client has not seen, so a traversal is at most one page longer than the
\* rows it returns, however they change.
TraversalIsShort ==
  Len(pages) <= Cardinality(Seen) + (IF phase = "done" THEN 1 ELSE 0)

\* The rows a traversal may still come to, visible or not yet.
Remaining ==
  {x \in Ids : row[x] \notin {"unborn", "gone"} /\ (cursor = None \/ x > cursor)}

\* `id > :cursor` brings a traversal nearer to its end with every page that
\* promises another one, and only a new row takes it further away: no update,
\* late commit or page size does.  (With rows inserted as fast as the client asks
\* for pages there is always a next_cursor: a traversal need not end.)
OnlyInsertsProlong ==
  [][/\ (Fetch /\ phase' = "paging") => Cardinality(Remaining') < Cardinality(Remaining)
     /\ (\A x \in Ids : ~Mint(x)) => Remaining' \subseteq Remaining]_vars

\* "Concurrent inserts" (investigator.py:30), "UUIDv7 ids generated at insert
\* time always sort after the cursor" (tests/test_pagination.py:119): no row
\* inserted during the traversal is passed over.
InsertsAreSeen ==
  \A x \in inserted \ Seen : \A y \in Seen : y < x

-----------------------------------------------------------------------------
(***************************************************************************)
(* The inductive invariant behind NoRepeat, NoSkip and NoDanglingPage       *)
(***************************************************************************)

\* Everything seen lies behind the cursor, everything stable and unseen ahead.
CursorInv ==
  /\ phase = "start" => cursor = None /\ pages = <<>>
  /\ phase = "paging" => /\ cursor \in Ids
                         /\ \A x \in Seen : x <= cursor
                         /\ \A x \in stable \ Seen : x > cursor
  /\ phase # "start" => stable \subseteq Matching

\* A page is promised when a row lies ahead, and only its leaving breaks that.
PromiseInv == (phase = "paging" /\ ~left) => Ahead # {}

KInv == TypeOK /\ NoRepeat /\ NoSkip /\ CursorInv /\ PromiseInv
=============================================================================
