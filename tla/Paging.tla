------------------------------- MODULE Paging -------------------------------
(***************************************************************************)
(* One page of a paginated section: ORDER BY id LIMIT limit+1, the slice    *)
(* rows[:limit], and the next_cursor.  Rows are their ids, natural numbers  *)
(* in uuid order.  The answers are a set: empty when the code raises, and   *)
(* with one element otherwise.                                              *)
(***************************************************************************)
EXTENDS Naturals, FiniteSets

CONSTANT None   \* no cursor

\* The first n elements of S.
FirstOf(S, n) ==
  {P \in SUBSET S : /\ Cardinality(P) = n \/ (Cardinality(P) < n /\ P = S)
                    /\ \A x \in P, y \in S \ P : x < y}

\* items[-1], which no empty list has.
LastOf(items) == {x \in items : \A y \in items : y <= x}

\* Mutants of NextCursor: it is the id of the lookahead row; a full page promises
\* another one; every page has one.
NextCursorOfLookahead(rows, items, limit) ==
  IF Cardinality(rows) > limit THEN LastOf(rows) ELSE {None}
NextCursorIfFull(rows, items, limit) ==
  IF Cardinality(rows) >= limit THEN LastOf(items) ELSE {None}
NextCursorAlways(rows, items, limit) == LastOf(items)

\* The last returned id, if the lookahead row is there.
NextCursor(rows, items, limit) ==
  IF Cardinality(rows) > limit THEN LastOf(items) ELSE {None}

Slices(rows, limit) ==
  UNION {{[items |-> items, next_cursor |-> c] : c \in NextCursor(rows, items, limit)}
           : items \in FirstOf(rows, limit)}

\* The section made of the rows of S, those the WHERE clause lets through.
Pages(S, limit) == UNION {Slices(rows, limit) : rows \in FirstOf(S, limit + 1)}
=============================================================================
