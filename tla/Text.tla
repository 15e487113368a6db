-------------------------------- MODULE Text --------------------------------
(***************************************************************************)
(* What becomes of the text a user types: stripped and measured by the      *)
(* request model, escaped and wrapped into a LIKE pattern by the service,   *)
(* matched by PostgreSQL.  A text is a sequence of characters.              *)
(***************************************************************************)
EXTENDS Config, SequencesExt

Escape     == "\\"  \* LIKE_ESCAPE_CHAR
Percent    == "%"   \* LIKE: any text
Underscore == "_"   \* LIKE: any one character
Blank      == " "
Nul        == "NUL" \* the character U+0000

-----------------------------------------------------------------------------
(***************************************************************************)
(* app/schemas/search.py: the request model                                 *)
(***************************************************************************)

\* str.strip(): from the first character that is not blank to the last one.
Stripped(text) ==
  LET kept == {i \in DOMAIN text : text[i] # Blank}
  IN  IF kept = {} THEN <<>> ELSE SubSeq(text, Min(kept), Max(kept))

\* The text that was typed is accepted as a query: stripped, then measured.
Accepted(text) == Len(Stripped(text)) \in QueryMinLength .. QueryMaxLength

\* PostgreSQL's text cannot hold this: no statement with it leaves the driver.
HoldsNul(text) == \E i \in DOMAIN text : text[i] = Nul

-----------------------------------------------------------------------------
(***************************************************************************)
(* app/services/search/text.py                                              *)
(***************************************************************************)

\* text.replace(c, by)
Replaced(text, c, by) ==
  FlattenSeq([i \in DOMAIN text |-> IF text[i] = c THEN by ELSE <<text[i]>>])

\* text.replace(c, escape + c)
Guarded(text, c) == Replaced(text, c, <<Escape, c>>)

Doubled(text)          == Guarded(text, Escape)
WildcardsEscaped(text) == Guarded(Guarded(text, Percent), Underscore)

\* Mutant of escape_like: the wildcards first.
EscapedLast(term) == Doubled(WildcardsEscaped(term))

\* The escape character is doubled before the wildcards are given theirs.
escape_like(term) == WildcardsEscaped(Doubled(term))

like_pattern(term) == <<Percent>> \o escape_like(term) \o <<Percent>>

-----------------------------------------------------------------------------
(***************************************************************************)
(* PostgreSQL                                                               *)
(***************************************************************************)

\* The upper-case letters of the texts, each with its lower-case one.
LowerCase == [A |-> "a"]
Lower(c) == IF c \in DOMAIN LowerCase THEN LowerCase[c] ELSE c
Same(c, d) == Lower(c) = Lower(d)

\* The positions a text matches a pattern from, the pattern taken from its j-th
\* character on: told from those for the next character and for the one after.
MatchesFrom(text, pattern, j, next, after) ==
  CASE pattern[j] = Percent    -> UNION {1 .. i : i \in next}
    [] pattern[j] = Underscore -> {i \in DOMAIN text : i + 1 \in next}
    [] pattern[j] = Escape     -> {i \in DOMAIN text : /\ j < Len(pattern)
                                                       /\ Same(text[i], pattern[j + 1])
                                                       /\ i + 1 \in after}
    [] OTHER                   -> {i \in DOMAIN text : /\ Same(text[i], pattern[j])
                                                       /\ i + 1 \in next}

\* text ILIKE pattern ESCAPE '\': matches[d] is for the last d characters of the pattern.
Ilike(text, pattern) ==
  LET matches[d \in 0 .. Len(pattern)] ==
        IF d = 0 THEN {Len(text) + 1}
        ELSE MatchesFrom(text, pattern, Len(pattern) + 1 - d,
                         matches[d - 1], IF d > 1 THEN matches[d - 2] ELSE {})
  IN  1 \in matches[Len(pattern)]

\* The term occurs in the text, in upper or lower case: what a user expects.
Occurs(term, text) ==
  \E i \in 0 .. Len(text) - Len(term) : \A j \in DOMAIN term : Same(text[i + j], term[j])
=============================================================================
