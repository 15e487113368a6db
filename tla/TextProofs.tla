---------------------------- MODULE TextProofs ----------------------------
(***************************************************************************)
(* A query is a literal term: escape_like and the wildcards around it make  *)
(* a pattern that matches exactly the texts the query occurs in, for every  *)
(* query and every text, of any length and any characters.                  *)
(*                                                                          *)
(* What is computed from a sequence from left to right is told by an        *)
(* induction on the set of those it holds for.                              *)
(***************************************************************************)
EXTENDS Text, SequenceTheorems, WellFoundedInduction, TLAPS

\* A set that holds 0 and with every number the next one holds every number.
LEMMA NatInductionBySets ==
  ASSUME NEW S, 0 \in S, \A n \in Nat : n \in S => n + 1 \in S
  PROVE  Nat \subseteq S
<1> DEFINE Descent == OpToRel(<, Nat)
           Missing == Nat \ S
<1>1. \A m, n \in Nat : <<m, n>> \in Descent <=> m < n
  BY DEF OpToRel
<1>2. IsWellFoundedOn(Descent, Nat)
  BY NatLessThanWellFounded
<1> HIDE DEF Descent
<1>3. SUFFICES ASSUME Missing # {} PROVE FALSE
  OBVIOUS
<1>4. PICK m \in Missing : \A n \in Missing : ~ (<<n, m>> \in Descent)
  BY <1>2, <1>3, WFMin
<1>5. m # 0 /\ m - 1 \in Nat
  OBVIOUS
<1>6. m - 1 \notin Missing
  <2>1. <<m - 1, m>> \in Descent BY <1>1, <1>5
  <2> QED BY <2>1, <1>4
<1> QED BY <1>5, <1>6

\* ... and one that holds <<>> and is closed under Append every sequence.
LEMMA SeqInductionBySets ==
  ASSUME NEW C, NEW S, <<>> \in S,
         \A s \in Seq(C), c \in C : s \in S => Append(s, c) \in S
  PROVE  Seq(C) \subseteq S
<1> DEFINE Lengths == {n \in Nat : \A s \in Seq(C) : Len(s) = n => s \in S}
<1>1. 0 \in Lengths
  <2>1. \A s \in Seq(C) : Len(s) = 0 => s = <<>> OBVIOUS
  <2> QED BY <2>1
<1>2. ASSUME NEW n \in Nat, n \in Lengths PROVE n + 1 \in Lengths
  <2>1. SUFFICES ASSUME NEW s \in Seq(C), Len(s) = n + 1 PROVE s \in S
    OBVIOUS
  <2> DEFINE front == SubSeq(s, 1, n)
  <2>2. front \in Seq(C) /\ Len(front) = n /\ s[n + 1] \in C
    BY <2>1
  <2>3. s = Append(front, s[n + 1])
    BY <2>1, <2>2
  <2>4. front \in S
    BY <1>2, <2>2
  <2> QED BY <2>2, <2>3, <2>4
<1> HIDE DEF Lengths
<1>3. Nat \subseteq Lengths
  BY <1>1, <1>2, NatInductionBySets
<1> USE DEF Lengths
<1> QED BY <1>3

\* f flattens the first n elements of seqs, as the local function of FlattenSeq does.
Flattens(f, seqs, n) ==
  /\ f = [i \in 1 .. n |-> f[i]]
  /\ \A i \in 1 .. n : f[i] = IF i = 1 THEN seqs[i] ELSE f[i - 1] \o seqs[i]

\* The local function of FlattenSeq exists, by induction on its length.
LEMMA FlattensExists ==
  ASSUME NEW seqs, NEW m \in Nat
  PROVE  \E f : Flattens(f, seqs, m)
<1> DEFINE Good == {n \in Nat : \E f : Flattens(f, seqs, n)}
<1>1. 0 \in Good
  <2>1. Flattens([i \in 1 .. 0 |-> <<>>], seqs, 0)
    BY DEF Flattens
  <2> QED BY <2>1
<1>2. ASSUME NEW n \in Nat, n \in Good PROVE n + 1 \in Good
  <2>1. PICK f : Flattens(f, seqs, n)
    BY <1>2
  <2> DEFINE next(i) == IF i = 1 THEN seqs[i] ELSE f[i - 1] \o seqs[i]
             g == [i \in 1 .. n + 1 |-> next(i)]
  <2>2. \A i \in 1 .. n : f[i] = next(i)
    BY <2>1 DEF Flattens
  <2>3. \A i \in 1 .. n + 1 : g[i] = next(i)
    OBVIOUS
  <2>4. \A i \in 1 .. n : g[i] = f[i]
    <3>1. \A i \in 1 .. n : i \in 1 .. n + 1
      OBVIOUS
    <3> HIDE DEF next, g
    <3> QED BY <2>2, <2>3, <3>1
  <2>5. \A i \in 1 .. n + 1 : g[i] = IF i = 1 THEN seqs[i] ELSE g[i - 1] \o seqs[i]
    <3> SUFFICES ASSUME NEW i \in 1 .. n + 1
                 PROVE  g[i] = IF i = 1 THEN seqs[i] ELSE g[i - 1] \o seqs[i]
      OBVIOUS
    <3>1. i # 1 => g[i - 1] = f[i - 1]
      <4>1. i # 1 => i - 1 \in 1 .. n OBVIOUS
      <4> QED BY <4>1, <2>4
    <3>2. g[i] = next(i)
      BY <2>3
    <3> HIDE DEF g
    <3> QED BY <3>1, <3>2
  <2>6. g = [i \in 1 .. n + 1 |-> g[i]]
    OBVIOUS
  <2> HIDE DEF g
  <2>7. Flattens(g, seqs, n + 1)
    BY <2>5, <2>6 DEF Flattens
  <2> QED BY <2>7
<1> HIDE DEF Good
<1>3. m \in Good
  BY <1>1, <1>2, NatInductionBySets
<1> USE DEF Good
<1> QED BY <1>3

\* FlattenSeq takes its last value.
LEMMA FlattenSeqIs ==
  ASSUME NEW seqs, Len(seqs) \in Nat \ {0}
  PROVE  \E f : Flattens(f, seqs, Len(seqs)) /\ FlattenSeq(seqs) = f[Len(seqs)]
<1> DEFINE N == 1 .. Len(seqs)
           next(f, i) == IF i = 1 THEN seqs[i] ELSE f[i - 1] \o seqs[i]
           Is(f) == f = [i \in N |-> next(f, i)]
           flatten == CHOOSE f : Is(f)
<1>1. \A f : Flattens(f, seqs, Len(seqs)) <=> f = [i \in N |-> f[i]] /\ \A i \in N : f[i] = next(f, i)
  BY DEF Flattens
<1>2. \A f : Flattens(f, seqs, Len(seqs)) <=> Is(f)
  <2> HIDE DEF next, N
  <2> QED BY <1>1
<1>3. \E f : Is(f)
  <2>1. PICK f : Flattens(f, seqs, Len(seqs))
    BY FlattensExists
  <2> HIDE DEF Is
  <2> QED BY <1>2, <2>1
<1>4. FlattenSeq(seqs) = flatten[Len(seqs)]
  BY DEF FlattenSeq
<1> HIDE DEF Is
<1>5. Is(flatten)
  BY <1>3
<1> HIDE DEF flatten
<1> QED BY <1>2, <1>4, <1>5

\* What flattens a sequence and what flattens a longer one agree.
Agree(f, g, n) == \A i \in 1 .. n : f[i] = g[i]

LEMMA FlattensUnique ==
  ASSUME NEW f, NEW g, NEW s, NEW t, NEW n \in Nat,
         Flattens(f, s, n), Flattens(g, t, n + 1), Agree(s, t, n)
  PROVE  Agree(f, g, n)
<1> DEFINE Good == {i \in Nat : i \in 1 .. n => f[i] = g[i]}
<1>1. 0 \in Good
  OBVIOUS
<1>2. ASSUME NEW i \in Nat, i \in Good PROVE i + 1 \in Good
  <2> SUFFICES ASSUME i + 1 \in 1 .. n PROVE f[i + 1] = g[i + 1]
    OBVIOUS
  <2>1. (i + 1) - 1 = i /\ i + 1 \in 1 .. n /\ i + 1 \in 1 .. n + 1
    OBVIOUS
  <2>2. f[i + 1] = IF i + 1 = 1 THEN s[i + 1] ELSE f[i] \o s[i + 1]
    <3>1. f[i + 1] = IF i + 1 = 1 THEN s[i + 1] ELSE f[(i + 1) - 1] \o s[i + 1]
      BY <2>1, Zenon DEF Flattens
    <3> QED BY <2>1, <3>1, Zenon
  <2>3. g[i + 1] = IF i + 1 = 1 THEN t[i + 1] ELSE g[i] \o t[i + 1]
    <3>1. g[i + 1] = IF i + 1 = 1 THEN t[i + 1] ELSE g[(i + 1) - 1] \o t[i + 1]
      BY <2>1, Zenon DEF Flattens
    <3> QED BY <2>1, <3>1, Zenon
  <2>4. s[i + 1] = t[i + 1]
    BY DEF Agree
  <2>5. i + 1 # 1 => f[i] = g[i]
    BY <1>2
  <2> QED BY <2>2, <2>3, <2>4, <2>5
<1> HIDE DEF Good
<1>3. Nat \subseteq Good
  BY <1>1, <1>2, NatInductionBySets
<1> USE DEF Good
<1> QED BY <1>3 DEF Agree

\* The recursion of FlattenSeq, from the right.
LEMMA FlattenSeqEmpty == FlattenSeq(<<>>) = <<>>
  BY DEF FlattenSeq

LEMMA FlattenSeqAppend ==
  ASSUME NEW C, NEW seqs \in Seq(Seq(C)), NEW x \in Seq(C)
  PROVE  FlattenSeq(Append(seqs, x)) = FlattenSeq(seqs) \o x
<1> DEFINE n == Len(seqs)
           longer == Append(seqs, x)
<1>1. /\ n \in Nat /\ Len(longer) = n + 1
      /\ longer[n + 1] = x /\ \A i \in 1 .. n : longer[i] = seqs[i]
  OBVIOUS
<1> HIDE DEF longer
<1>2. PICK g : Flattens(g, longer, n + 1) /\ FlattenSeq(longer) = g[n + 1]
  <2>1. Len(longer) \in Nat \ {0}
    BY <1>1
  <2>2. \E g : Flattens(g, longer, Len(longer)) /\ FlattenSeq(longer) = g[Len(longer)]
    BY <2>1, FlattenSeqIs, Zenon
  <2> QED BY <1>1, <2>2, Zenon
<1>3. g[n + 1] = IF n + 1 = 1 THEN x ELSE g[n] \o x
  <2>1. (n + 1) - 1 = n /\ n + 1 \in 1 .. n + 1
    BY <1>1
  <2>2. g[n + 1] = IF n + 1 = 1 THEN longer[n + 1] ELSE g[(n + 1) - 1] \o longer[n + 1]
    BY <1>2, <2>1, Zenon DEF Flattens
  <2> QED BY <1>1, <2>1, <2>2, Zenon
<1>4. CASE n = 0
  <2>1. seqs = <<>>
    BY <1>4
  <2>2. FlattenSeq(seqs) \o x = x
    BY <2>1, FlattenSeqEmpty
  <2> QED BY <1>2, <1>3, <1>4, <2>2 DEF longer
<1>5. CASE n # 0
  <2>1. PICK f : Flattens(f, seqs, n) /\ FlattenSeq(seqs) = f[n]
    BY <1>1, <1>5, FlattenSeqIs
  <2>2. \A i \in 1 .. n : f[i] = g[i]
    <3>1. Agree(seqs, longer, n)
      BY <1>1 DEF Agree
    <3> HIDE DEF n
    <3>2. Agree(f, g, n)
      BY <1>1, <1>2, <2>1, <3>1, FlattensUnique, Zenon
    <3> QED BY <3>2 DEF Agree
  <2>3. f[n] = g[n]
    BY <1>1, <1>5, <2>2
  <2>4. g[n + 1] = g[n] \o x
    <3>1. n + 1 # 1
      BY <1>1, <1>5
    <3> QED BY <1>3, <3>1, Zenon
  <2> QED BY <1>2, <2>1, <2>3, <2>4, Zenon DEF longer
<1> QED BY <1>4, <1>5

-----------------------------------------------------------------------------
\* str.replace on the empty text, and on one more character.
LEMMA ReplacedEmpty == \A c, by : Replaced(<<>>, c, by) = <<>>
<1> SUFFICES ASSUME NEW c, NEW by PROVE Replaced(<<>>, c, by) = <<>>
  OBVIOUS
<1>1. [i \in DOMAIN <<>> |-> IF <<>>[i] = c THEN by ELSE << <<>>[i] >>] = <<>>
  OBVIOUS
<1> QED BY <1>1, FlattenSeqEmpty DEF Replaced

Piece(d, c, by) == IF d = c THEN by ELSE <<d>>

LEMMA ReplacedAppend ==
  ASSUME NEW C, NEW text \in Seq(C), NEW d \in C, NEW c, NEW by \in Seq(C)
  PROVE  Replaced(Append(text, d), c, by) = Replaced(text, c, by) \o Piece(d, c, by)
<1> DEFINE Each(t) == [i \in DOMAIN t |-> IF t[i] = c THEN by ELSE <<t[i]>>]
           last == IF d = c THEN by ELSE <<d>>
<1>1. last \in Seq(C)
  OBVIOUS
<1>2. \A t \in Seq(C) : Each(t) \in Seq(Seq(C)) /\ Len(Each(t)) = Len(t)
  <2> SUFFICES ASSUME NEW t \in Seq(C) PROVE Each(t) \in Seq(Seq(C)) /\ Len(Each(t)) = Len(t)
    OBVIOUS
  <2>1. \A i \in 1 .. Len(t) : Each(t)[i] \in Seq(C)
    OBVIOUS
  <2>2. Each(t) = [i \in 1 .. Len(t) |-> Each(t)[i]] /\ Len(t) \in Nat
    OBVIOUS
  <2> HIDE DEF Each
  <2> QED BY <2>1, <2>2
<1>3. Each(Append(text, d)) = Append(Each(text), last)
  <2>1. Each(Append(text, d)) \in Seq(Seq(C)) /\ Len(Each(Append(text, d))) = Len(text) + 1
    <3>1. Append(text, d) \in Seq(C) /\ Len(Append(text, d)) = Len(text) + 1
      OBVIOUS
    <3> HIDE DEF Each
    <3> QED BY <1>2, <3>1
  <2>2. Append(Each(text), last) \in Seq(Seq(C)) /\ Len(Append(Each(text), last)) = Len(text) + 1
    <3> HIDE DEF Each, last
    <3> QED BY <1>1, <1>2
  <2>3. \A i \in 1 .. Len(text) + 1 : Each(Append(text, d))[i] = Append(Each(text), last)[i]
    OBVIOUS
  <2> HIDE DEF Each, last
  <2> QED BY <2>1, <2>2, <2>3, SeqEqual
<1>4. FlattenSeq(Append(Each(text), last)) = FlattenSeq(Each(text)) \o last
  <2> HIDE DEF Each, last
  <2> QED BY <1>1, <1>2, FlattenSeqAppend
<1>5. \A t : Replaced(t, c, by) = FlattenSeq(Each(t))
  BY DEF Replaced
<1> HIDE DEF Each
<1> HIDE DEF last
<1>6. Replaced(Append(text, d), c, by) = Replaced(text, c, by) \o last
  BY <1>3, <1>4, <1>5, Zenon
<1> QED BY <1>6, Zenon DEF last, Piece

\* It makes a text of the same characters.
LEMMA ReplacedType ==
  ASSUME NEW C, NEW c, NEW by \in Seq(C)
  PROVE  \A text \in Seq(C) : Replaced(text, c, by) \in Seq(C)
<1> DEFINE Good == {text \in Seq(C) : Replaced(text, c, by) \in Seq(C)}
<1>1. <<>> \in Good
  <2>1. Replaced(<<>>, c, by) = <<>>
    BY ReplacedEmpty, Zenon
  <2>2. <<>> \in Seq(C)
    OBVIOUS
  <2> QED BY <2>1, <2>2, Zenon
<1>2. ASSUME NEW text \in Seq(C), NEW d \in C, text \in Good PROVE Append(text, d) \in Good
  <2>1. Replaced(Append(text, d), c, by) = Replaced(text, c, by) \o Piece(d, c, by)
    BY ReplacedAppend
  <2>2. Replaced(text, c, by) \in Seq(C)
    BY <1>2
  <2>3. Replaced(text, c, by) \o Piece(d, c, by) \in Seq(C)
    <3>1. Piece(d, c, by) \in Seq(C)
      BY DEF Piece
    <3> QED BY <2>2, <3>1
  <2>4. Append(text, d) \in Seq(C)
    OBVIOUS
  <2> QED BY <2>1, <2>3, <2>4, Zenon
<1> HIDE DEF Good
<1>3. Seq(C) \subseteq Good
  BY <1>1, <1>2, SeqInductionBySets
<1> USE DEF Good
<1> QED BY <1>3

LEMMA AppendOne ==
  ASSUME NEW C, NEW t \in Seq(C), NEW a \in C PROVE t \o <<a>> = Append(t, a)
  BY AppendIsConcat

LEMMA AppendTwo ==
  ASSUME NEW C, NEW t \in Seq(C), NEW a \in C, NEW b \in C
  PROVE t \o <<a, b>> = Append(Append(t, a), b)
  OBVIOUS

\* One more character gets an escape character when it is the one replaced.
LEMMA GuardedAppend ==
  ASSUME NEW C, Escape \in C, NEW c \in C, NEW text \in Seq(C), NEW d \in C
  PROVE  /\ Guarded(text, c) \in Seq(C)
         /\ d = c => Guarded(Append(text, d), c) = Append(Append(Guarded(text, c), Escape), c)
         /\ d # c => Guarded(Append(text, d), c) = Append(Guarded(text, c), d)
<1> DEFINE by == <<Escape, c>>
<1>1. by \in Seq(C)
  OBVIOUS
<1>2. \A t : Guarded(t, c) = Replaced(t, c, by)
  BY DEF Guarded
<1>3. \A t \in Seq(C) : t \o by = Append(Append(t, Escape), c)
  BY AppendTwo
<1> HIDE DEF by
<1>4. Replaced(text, c, by) \in Seq(C)
  BY <1>1, ReplacedType
<1>5. Replaced(Append(text, d), c, by) = Replaced(text, c, by) \o Piece(d, c, by)
  BY <1>1, ReplacedAppend
<1>6. Replaced(text, c, by) \o <<d>> = Append(Replaced(text, c, by), d)
  BY <1>4, AppendOne
<1>7. Replaced(text, c, by) \o by = Append(Append(Replaced(text, c, by), Escape), c)
  BY <1>3, <1>4
<1> QED BY <1>2, <1>4, <1>5, <1>6, <1>7, Zenon DEF Piece

\* What escape_like makes of one character.
Escaped(c) == IF c \in {Escape, Percent, Underscore} THEN <<Escape, c>> ELSE <<c>>

\* A set of characters the special ones of LIKE are among.
LikeChars(C) == {Escape, Percent, Underscore} \subseteq C

\* escape_like makes a text, of nothing when given nothing.
LEMMA EscapeType ==
  ASSUME NEW C, LikeChars(C), NEW term \in Seq(C)
  PROVE  escape_like(term) \in Seq(C) /\ Doubled(term) \in Seq(C)
<1>1. Escape \in C /\ Percent \in C /\ Underscore \in C
  BY DEF LikeChars
<1>2. \A c \in C, t \in Seq(C) : Guarded(t, c) \in Seq(C)
  BY <1>1, GuardedAppend, Zenon
<1> QED BY <1>1, <1>2, Zenon DEF escape_like, WildcardsEscaped, Doubled

LEMMA EscapeEmpty == escape_like(<<>>) = <<>>
  BY ReplacedEmpty DEF escape_like, Doubled, WildcardsEscaped, Guarded

\* The three replacements together escape the special characters one by one, and
\* none of the escape characters they add: the order of the three matters.
LEMMA EscapeAppend ==
  ASSUME NEW C, LikeChars(C), NEW term \in Seq(C), NEW c \in C
  PROVE  escape_like(Append(term, c)) = escape_like(term) \o Escaped(c)
<1> DEFINE P(t) == Guarded(t, Percent)
           U(t) == Guarded(t, Underscore)
           d == Doubled(term)
<1>1. Escape \in C /\ Percent \in C /\ Underscore \in C
  BY DEF LikeChars
<1>2. d \in Seq(C) /\ \A t \in Seq(C) : P(t) \in Seq(C) /\ U(t) \in Seq(C)
  BY <1>1, EscapeType, GuardedAppend, Zenon
<1>3. Escape # Percent /\ Escape # Underscore /\ Percent # Underscore
  BY DEF Escape, Percent, Underscore
<1>4. \A t \in Seq(C), b \in C : Append(t, b) \in Seq(C)
  OBVIOUS
<1>5. \A x \in C, t \in Seq(C), b \in C :
        /\ b = x => Guarded(Append(t, b), x) = Append(Append(Guarded(t, x), Escape), x)
        /\ b # x => Guarded(Append(t, b), x) = Append(Guarded(t, x), b)
  <2> SUFFICES ASSUME NEW x \in C, NEW t \in Seq(C), NEW b \in C
               PROVE  /\ b = x => Guarded(Append(t, b), x) = Append(Append(Guarded(t, x), Escape), x)
                      /\ b # x => Guarded(Append(t, b), x) = Append(Guarded(t, x), b)
    OBVIOUS
  <2> QED BY <1>1, GuardedAppend
<1>6. \A t \in Seq(C), b \in C :
        /\ b = Percent => P(Append(t, b)) = Append(Append(P(t), Escape), Percent)
        /\ b # Percent => P(Append(t, b)) = Append(P(t), b)
  BY <1>1, <1>5, Zenon
<1>7. \A t \in Seq(C), b \in C :
        /\ b = Underscore => U(Append(t, b)) = Append(Append(U(t), Escape), Underscore)
        /\ b # Underscore => U(Append(t, b)) = Append(U(t), b)
  BY <1>1, <1>5, Zenon
<1>8. /\ c = Escape => Doubled(Append(term, c)) = Append(Append(d, Escape), Escape)
      /\ c # Escape => Doubled(Append(term, c)) = Append(d, c)
  BY <1>1, <1>5, Zenon DEF Doubled
<1>9. escape_like(term) = U(P(d)) /\ escape_like(Append(term, c)) = U(P(Doubled(Append(term, c))))
  BY DEF escape_like, WildcardsEscaped
<1> HIDE DEF P, U, d
<1> DEFINE e == U(P(d))
<1>10. e \in Seq(C) /\ P(d) \in Seq(C)
  BY <1>2
<1>11. \A a, b \in C : e \o <<a, b>> = Append(Append(e, a), b)
  BY <1>10, AppendTwo
<1>12. e \o <<c>> = Append(e, c)
  BY <1>10, AppendOne
<1> HIDE DEF e
<1> DEFINE result == IF c \in {Escape, Percent, Underscore}
                     THEN Append(Append(e, Escape), c) ELSE Append(e, c)
<1>13. escape_like(Append(term, c)) = result
  <2>1. CASE c = Escape
    <3>1. P(Append(d, Escape)) = Append(P(d), Escape) /\ Append(d, Escape) \in Seq(C)
      BY <1>1, <1>2, <1>3, <1>4, <1>6, Zenon
    <3>2. P(Append(Append(d, Escape), Escape)) = Append(Append(P(d), Escape), Escape)
      BY <1>1, <1>3, <1>6, <3>1, Zenon
    <3>3. U(Append(P(d), Escape)) = Append(e, Escape) /\ Append(P(d), Escape) \in Seq(C)
      BY <1>1, <1>3, <1>4, <1>7, <1>10, Zenon DEF e
    <3>4. U(Append(Append(P(d), Escape), Escape)) = Append(Append(e, Escape), Escape)
      BY <1>1, <1>3, <1>7, <3>3, Zenon DEF e
    <3> QED BY <1>8, <1>9, <2>1, <3>2, <3>4, Zenon
  <2>2. CASE c = Percent
    <3>1. P(Append(d, Percent)) = Append(Append(P(d), Escape), Percent)
      BY <1>1, <1>2, <1>6, Zenon
    <3>2. U(Append(P(d), Escape)) = Append(e, Escape) /\ Append(P(d), Escape) \in Seq(C)
      BY <1>1, <1>3, <1>4, <1>7, <1>10, Zenon DEF e
    <3>3. U(Append(Append(P(d), Escape), Percent)) = Append(Append(e, Escape), Percent)
      BY <1>1, <1>3, <1>7, <3>2, Zenon DEF e
    <3> QED BY <1>3, <1>8, <1>9, <2>2, <3>1, <3>3, Zenon
  <2>3. CASE c = Underscore
    <3>1. P(Append(d, Underscore)) = Append(P(d), Underscore)
      BY <1>1, <1>2, <1>3, <1>6, Zenon
    <3>2. U(Append(P(d), Underscore)) = Append(Append(e, Escape), Underscore)
      BY <1>1, <1>7, <1>10, Zenon DEF e
    <3> QED BY <1>3, <1>8, <1>9, <2>3, <3>1, <3>2, Zenon
  <2>4. CASE c \notin {Escape, Percent, Underscore}
    <3>1. P(Append(d, c)) = Append(P(d), c)
      BY <1>2, <1>6, <2>4, Zenon
    <3>2. U(Append(P(d), c)) = Append(e, c)
      BY <1>7, <1>10, <2>4, Zenon DEF e
    <3> QED BY <1>8, <1>9, <2>4, <3>1, <3>2, Zenon
  <2> QED BY <2>1, <2>2, <2>3, <2>4, Zenon
<1>14. escape_like(term) = e
  BY <1>9 DEF e
<1>15. escape_like(term) \o Escaped(c) = result
  BY <1>1, <1>11, <1>12, <1>14, Zenon DEF Escaped
<1> HIDE DEF result
<1> QED BY <1>13, <1>15, Zenon

-----------------------------------------------------------------------------
\* matches[d] is for the last d characters of the pattern, for each d up to n.
IsMatches(matches, text, pattern, n) ==
  /\ matches = [d \in 0 .. n |-> matches[d]]
  /\ matches[0] = {Len(text) + 1}
  /\ \A d \in 1 .. n :
        matches[d] = MatchesFrom(text, pattern, Len(pattern) + 1 - d,
                                matches[d - 1], IF d > 1 THEN matches[d - 2] ELSE {})

\* The local function of Ilike exists, by induction on the length of the pattern.
LEMMA MatchesExist ==
  ASSUME NEW text, NEW pattern, NEW m \in Nat
  PROVE  \E f : IsMatches(f, text, pattern, m)
<1> DEFINE Good == {n \in Nat : \E f : IsMatches(f, text, pattern, n)}
           Next(f, d) == MatchesFrom(text, pattern, Len(pattern) + 1 - d,
                                     f[d - 1], IF d > 1 THEN f[d - 2] ELSE {})
<1>1. 0 \in Good
  <2> DEFINE f == [d \in 0 .. 0 |-> {Len(text) + 1}]
  <2>1. f[0] = {Len(text) + 1} /\ f = [d \in 0 .. 0 |-> f[d]] /\ 1 .. 0 = {}
    OBVIOUS
  <2> HIDE DEF f
  <2>2. IsMatches(f, text, pattern, 0)
    BY <2>1, Zenon DEF IsMatches
  <2> QED BY <2>2
<1>2. ASSUME NEW n \in Nat, n \in Good PROVE n + 1 \in Good
  <2>1. PICK f : IsMatches(f, text, pattern, n)
    BY <1>2
  <2> DEFINE last == Next(f, n + 1)
             g == [d \in 0 .. n + 1 |-> IF d <= n THEN f[d] ELSE last]
  <2> HIDE DEF last
  <2>2. g = [d \in 0 .. n + 1 |-> g[d]] /\ g[n + 1] = last /\ \A d \in 0 .. n : g[d] = f[d]
    OBVIOUS
  <2> HIDE DEF g
  <2>3. g[0] = {Len(text) + 1}
    <3>1. 0 \in 0 .. n
      OBVIOUS
    <3> QED BY <2>1, <2>2, <3>1, Zenon DEF IsMatches
  <2>4. \A d \in 1 .. n + 1 : g[d] = Next(g, d)
    <3> SUFFICES ASSUME NEW d \in 1 .. n + 1 PROVE g[d] = Next(g, d)
      OBVIOUS
    <3>1. d - 1 \in 0 .. n /\ (d > 1 => d - 2 \in 0 .. n)
      OBVIOUS
    <3>2. f[d - 1] = g[d - 1] /\ (d > 1 => f[d - 2] = g[d - 2])
      BY <2>2, <3>1, Zenon
    <3>3. (IF d > 1 THEN f[d - 2] ELSE {}) = (IF d > 1 THEN g[d - 2] ELSE {})
      BY <3>2, Zenon
    <3>4. Next(f, d) = Next(g, d)
      BY <3>2, <3>3, Zenon
    <3> HIDE DEF Next
    <3>5. CASE d = n + 1
      BY <2>2, <3>4, <3>5, Zenon DEF last
    <3>6. CASE d \in 1 .. n
      <4>1. f[d] = Next(f, d)
        BY <2>1, <3>6, Zenon DEF IsMatches, Next
      <4>2. d \in 0 .. n
        BY <3>6
      <4> QED BY <2>2, <3>4, <4>1, <4>2, Zenon
    <3> QED BY <3>5, <3>6
  <2>5. IsMatches(g, text, pattern, n + 1)
    BY <2>2, <2>3, <2>4, Zenon DEF IsMatches
  <2> QED BY <2>5
<1> HIDE DEF Good
<1>3. m \in Good
  BY <1>1, <1>2, NatInductionBySets
<1> USE DEF Good
<1> QED BY <1>3

\* Ilike takes its last value.
LEMMA IlikeIs ==
  ASSUME NEW C, NEW text, NEW pattern \in Seq(C)
  PROVE  \E f : /\ IsMatches(f, text, pattern, Len(pattern))
                /\ Ilike(text, pattern) <=> 1 \in f[Len(pattern)]
<1> DEFINE n == Len(pattern)
           next(f, d) == IF d = 0 THEN {Len(text) + 1}
                         ELSE MatchesFrom(text, pattern, Len(pattern) + 1 - d,
                                          f[d - 1], IF d > 1 THEN f[d - 2] ELSE {})
           Is(f) == f = [d \in 0 .. n |-> next(f, d)]
           matches == CHOOSE f : Is(f)
<1>1. n \in Nat
  OBVIOUS
<1>2. \A f : Is(f) <=> f = [d \in 0 .. n |-> f[d]] /\ \A d \in 0 .. n : f[d] = next(f, d)
  <2> HIDE DEF next, n
  <2> QED OBVIOUS
<1>3. \A f : IsMatches(f, text, pattern, n) => Is(f)
  <2> SUFFICES ASSUME NEW f, IsMatches(f, text, pattern, n) PROVE Is(f)
    OBVIOUS
  <2>1. f = [d \in 0 .. n |-> f[d]]
    BY Zenon DEF IsMatches
  <2>2. \A d \in 0 .. n : f[d] = next(f, d)
    <3> SUFFICES ASSUME NEW d \in 0 .. n PROVE f[d] = next(f, d)
      OBVIOUS
    <3>1. CASE d = 0
      BY <3>1, Zenon DEF IsMatches
    <3>2. CASE d # 0
      <4>1. d \in 1 .. n
        BY <1>1, <3>2
      <4> QED BY <3>2, <4>1, Zenon DEF IsMatches
    <3> QED BY <3>1, <3>2
  <2> HIDE DEF Is, next
  <2> QED BY <1>2, <2>1, <2>2, Zenon
<1>4. \A f : Is(f) => IsMatches(f, text, pattern, n)
  <2> SUFFICES ASSUME NEW f, Is(f) PROVE IsMatches(f, text, pattern, n)
    OBVIOUS
  <2>1. f = [d \in 0 .. n |-> f[d]] /\ \A d \in 0 .. n : f[d] = next(f, d)
    <3> HIDE DEF Is, next
    <3> QED BY <1>2, Zenon
  <2>2. 0 \in 0 .. n /\ \A d \in 1 .. n : d \in 0 .. n /\ d # 0
    BY <1>1
  <2>3. f[0] = {Len(text) + 1}
    BY <2>1, <2>2, Zenon
  <2>4. ASSUME NEW d \in 1 .. n
        PROVE  f[d] = MatchesFrom(text, pattern, Len(pattern) + 1 - d,
                                  f[d - 1], IF d > 1 THEN f[d - 2] ELSE {})
    BY <2>1, <2>2, Zenon
  <2> HIDE DEF n
  <2> QED BY <2>1, <2>3, <2>4, Zenon DEF IsMatches
<1>5. \E f : Is(f)
  <2>1. PICK f : IsMatches(f, text, pattern, n)
    BY <1>1, MatchesExist
  <2> HIDE DEF Is
  <2> QED BY <1>3, <2>1
<1>6. Ilike(text, pattern) <=> 1 \in matches[n]
  BY DEF Ilike
<1> HIDE DEF Is
<1>7. Is(matches)
  BY <1>5
<1> HIDE DEF matches
<1> QED BY <1>4, <1>6, <1>7

-----------------------------------------------------------------------------
Special(c) == c \in {Escape, Percent, Underscore}

\* The k-th character of the term is at[k] in its escaped text e, after the
\* escape character when it is a special one.
LaidOut(at, term, e) ==
  /\ at \in [1 .. Len(term) + 1 -> Nat \ {0}]
  /\ at[1] = 1 /\ at[Len(term) + 1] = Len(e) + 1
  /\ \A k \in 1 .. Len(term) :
       /\ at[k] <= Len(e)
       /\ Special(term[k]) => /\ at[k + 1] = at[k] + 2 /\ at[k] + 1 <= Len(e)
                              /\ e[at[k]] = Escape /\ e[at[k] + 1] = term[k]
       /\ ~ Special(term[k]) => at[k + 1] = at[k] + 1 /\ e[at[k]] = term[k]

\* A layout is extended by one character of the term.
LEMMA LayoutExtends ==
  ASSUME NEW C, NEW term \in Seq(C), NEW e \in Seq(C), NEW at, LaidOut(at, term, e),
         NEW c \in C, NEW more \in Seq(C),
         Special(c) => Len(more) = 2 /\ more[1] = Escape /\ more[2] = c,
         ~ Special(c) => Len(more) = 1 /\ more[1] = c
  PROVE  \E to : LaidOut(to, Append(term, c), e \o more)
<1> DEFINE n == Len(term)
           t == Append(term, c)
           f == e \o more
           size == Len(more)
           to == [k \in 1 .. n + 2 |-> IF k <= n + 1 THEN at[k] ELSE Len(f) + 1]
<1>1. /\ n \in Nat /\ Len(t) = n + 1 /\ t[n + 1] = c
      /\ \A k \in 1 .. n : t[k] = term[k]
  OBVIOUS
<1>2. /\ Len(e) \in Nat /\ size \in {1, 2} /\ Len(f) = Len(e) + size
      /\ \A i \in 1 .. Len(e) : f[i] = e[i]
      /\ \A i \in 1 .. size : f[Len(e) + i] = more[i]
  OBVIOUS
<1> HIDE DEF t, f, size
<1>3. at \in [1 .. n + 1 -> Nat \ {0}] /\ at[1] = 1 /\ at[n + 1] = Len(e) + 1
  BY DEF LaidOut
<1>4. to \in [1 .. n + 2 -> Nat \ {0}]
  BY <1>1, <1>2, <1>3
<1>5. to[n + 2] = Len(f) + 1 /\ \A k \in 1 .. n + 1 : to[k] = at[k]
  BY <1>1
<1> HIDE DEF to
<1>6. \A k \in 1 .. n :
       /\ at[k] \in 1 .. Len(e)
       /\ Special(term[k]) => /\ at[k + 1] = at[k] + 2 /\ at[k] + 1 \in 1 .. Len(e)
                              /\ e[at[k]] = Escape /\ e[at[k] + 1] = term[k]
       /\ ~ Special(term[k]) => at[k + 1] = at[k] + 1 /\ e[at[k]] = term[k]
  <2> SUFFICES ASSUME NEW k \in 1 .. n
               PROVE  /\ at[k] \in 1 .. Len(e)
                      /\ Special(term[k]) => /\ at[k + 1] = at[k] + 2 /\ at[k] + 1 \in 1 .. Len(e)
                                             /\ e[at[k]] = Escape /\ e[at[k] + 1] = term[k]
                      /\ ~ Special(term[k]) => at[k + 1] = at[k] + 1 /\ e[at[k]] = term[k]
    OBVIOUS
  <2>1. at[k] \in Nat \ {0}
    BY <1>1, <1>3
  <2>2. at[k] <= Len(e) /\ (Special(term[k]) => at[k] + 1 <= Len(e))
    BY DEF LaidOut
  <2>3. at[k] \in 1 .. Len(e) /\ (Special(term[k]) => at[k] + 1 \in 1 .. Len(e))
    BY <1>2, <2>1, <2>2
  <2> QED BY <2>3 DEF LaidOut
<1>7. ASSUME NEW k \in 1 .. n + 1
      PROVE  /\ to[k] <= Len(f)
             /\ Special(t[k]) => /\ to[k + 1] = to[k] + 2 /\ to[k] + 1 <= Len(f)
                                 /\ f[to[k]] = Escape /\ f[to[k] + 1] = t[k]
             /\ ~ Special(t[k]) => to[k + 1] = to[k] + 1 /\ f[to[k]] = t[k]
  <2>1. CASE k = n + 1
    <3>1. to[k] = Len(e) + 1 /\ to[k + 1] = Len(f) + 1 /\ t[k] = c
      BY <1>1, <1>3, <1>5, <2>1
    <3>2. CASE Special(c)
      <4>1. size = 2 /\ more[1] = Escape /\ more[2] = c
        BY <3>2 DEF size
      <4> QED BY <1>2, <3>1, <3>2, <4>1
    <3>3. CASE ~ Special(c)
      <4>1. size = 1 /\ more[1] = c
        BY <3>3 DEF size
      <4> QED BY <1>2, <3>1, <3>3, <4>1
    <3> QED BY <3>2, <3>3
  <2>2. CASE k \in 1 .. n
    <3>1. k + 1 \in 1 .. n + 1 /\ to[k] = at[k] /\ to[k + 1] = at[k + 1] /\ t[k] = term[k]
      BY <1>1, <1>5, <2>2
    <3>2. at[k] \in 1 .. Len(e)
      BY <1>6, <2>2
    <3>3. CASE Special(term[k])
      <4>1. /\ at[k + 1] = at[k] + 2 /\ at[k] + 1 \in 1 .. Len(e)
            /\ e[at[k]] = Escape /\ e[at[k] + 1] = term[k]
        BY <1>6, <2>2, <3>3
      <4>2. f[at[k]] = Escape /\ f[at[k] + 1] = term[k]
        BY <1>2, <3>2, <4>1, Zenon
      <4>3. at[k] <= Len(f) /\ at[k] + 1 <= Len(f)
        <5>1. \A x \in 1 .. Len(e) : x <= Len(f)
          BY <1>2
        <5> QED BY <3>2, <4>1, <5>1, Zenon
      <4> QED BY <3>1, <3>3, <4>1, <4>2, <4>3, Zenon
    <3>4. CASE ~ Special(term[k])
      <4>1. at[k + 1] = at[k] + 1 /\ e[at[k]] = term[k]
        BY <1>6, <2>2, <3>4
      <4> QED BY <1>2, <3>1, <3>2, <3>4, <4>1
    <3> QED BY <3>3, <3>4
  <2> QED BY <1>1, <2>1, <2>2
<1>8. to[1] = 1
  BY <1>1, <1>3, <1>5
<1>9. LaidOut(to, t, f)
  BY <1>1, <1>4, <1>5, <1>7, <1>8 DEF LaidOut
<1> QED BY <1>9 DEF t, f

\* Every term is laid out in its escaped text.
LEMMA EscapeLaysOut ==
  ASSUME NEW C, LikeChars(C), NEW term \in Seq(C)
  PROVE  \E at : LaidOut(at, term, escape_like(term))
<1> DEFINE Good == {t \in Seq(C) : \E at : LaidOut(at, t, escape_like(t))}
<1>1. <<>> \in Good
  <2> DEFINE at == [k \in 1 .. 1 |-> 1]
  <2>1. /\ at \in [1 .. Len(<<>>) + 1 -> Nat \ {0}] /\ at[1] = 1
        /\ Len(<<>>) + 1 = 1 /\ 1 .. Len(<<>>) = {} /\ <<>> \in Seq(C)
    OBVIOUS
  <2> HIDE DEF at
  <2>2. LaidOut(at, <<>>, <<>>)
    BY <2>1, Zenon DEF LaidOut
  <2> QED BY <2>1, <2>2, EscapeEmpty, Zenon
<1>2. ASSUME NEW t \in Seq(C), NEW c \in C, t \in Good PROVE Append(t, c) \in Good
  <2>1. PICK at : LaidOut(at, t, escape_like(t))
    BY <1>2
  <2>2. escape_like(Append(t, c)) = escape_like(t) \o Escaped(c)
    BY EscapeAppend
  <2>3. escape_like(t) \in Seq(C)
    BY EscapeType
  <2>4. Escape \in C
    BY DEF LikeChars
  <2>5. /\ Special(c) => Escaped(c) = <<Escape, c>>
        /\ ~ Special(c) => Escaped(c) = <<c>>
    BY Zenon DEF Special, Escaped
  <2>6. /\ Escaped(c) \in Seq(C)
        /\ Special(c) => Len(Escaped(c)) = 2 /\ Escaped(c)[1] = Escape /\ Escaped(c)[2] = c
        /\ ~ Special(c) => Len(Escaped(c)) = 1 /\ Escaped(c)[1] = c
    <3>1. CASE Special(c)
      <4>1. /\ <<Escape, c>> \in Seq(C) /\ Len(<<Escape, c>>) = 2
            /\ <<Escape, c>>[1] = Escape /\ <<Escape, c>>[2] = c
        BY <2>4
      <4> QED BY <2>5, <3>1, <4>1, Zenon
    <3>2. CASE ~ Special(c)
      <4>1. <<c>> \in Seq(C) /\ Len(<<c>>) = 1 /\ <<c>>[1] = c
        OBVIOUS
      <4> QED BY <2>5, <3>2, <4>1, Zenon
    <3> QED BY <3>1, <3>2
  <2>7. \E to : LaidOut(to, Append(t, c), escape_like(t) \o Escaped(c))
    BY <2>1, <2>3, <2>6, LayoutExtends
  <2>8. Append(t, c) \in Seq(C)
    OBVIOUS
  <2> QED BY <2>2, <2>7, <2>8, Zenon
<1> HIDE DEF Good
<1>3. Seq(C) \subseteq Good
  BY <1>1, <1>2, SeqInductionBySets
<1> USE DEF Good
<1> QED BY <1>3

-----------------------------------------------------------------------------
\* The term occurs in the text from its i-th character on, from the term's k-th on.
OccursFrom(term, k, text, i) ==
  /\ i \in 1 .. Len(text) + 1
  /\ i + (Len(term) - k) <= Len(text)
  /\ \A l \in k .. Len(term) : Same(text[i + (l - k)], term[l])

\* One more character at the front.
LEMMA OccursFromStep ==
  ASSUME NEW C, NEW D, NEW term \in Seq(C), NEW text \in Seq(D), NEW k \in 1 .. Len(term), NEW i
  PROVE  OccursFrom(term, k, text, i) <=>
           /\ i \in 1 .. Len(text)
           /\ Same(text[i], term[k])
           /\ OccursFrom(term, k + 1, text, i + 1)
<1> DEFINE n == Len(term)
           m == Len(text)
<1>1. n \in Nat /\ m \in Nat /\ k \in Nat /\ k >= 1 /\ k <= n
  OBVIOUS
<1>2. ASSUME OccursFrom(term, k, text, i)
      PROVE  /\ i \in 1 .. m
             /\ Same(text[i], term[k])
             /\ OccursFrom(term, k + 1, text, i + 1)
  <2>1. /\ i \in 1 .. m + 1 /\ i + (n - k) <= m
        /\ \A l \in k .. n : Same(text[i + (l - k)], term[l])
    BY <1>2 DEF OccursFrom
  <2> HIDE DEF n, m
  <2>2. /\ i \in 1 .. m /\ i + 1 \in 1 .. m + 1 /\ (i + 1) + (n - (k + 1)) <= m
        /\ k \in k .. n /\ i + (k - k) = i
    BY <1>1, <2>1
  <2>3. Same(text[i], term[k])
    BY <2>1, <2>2, Zenon
  <2>4. ASSUME NEW l \in k + 1 .. n PROVE Same(text[(i + 1) + (l - (k + 1))], term[l])
    <3>1. l \in k .. n /\ (i + 1) + (l - (k + 1)) = i + (l - k)
      BY <1>1, <2>2
    <3> QED BY <2>1, <3>1, Zenon
  <2> QED BY <2>2, <2>3, <2>4, Zenon DEF OccursFrom, n, m
<1>3. ASSUME i \in 1 .. m, Same(text[i], term[k]), OccursFrom(term, k + 1, text, i + 1)
      PROVE  OccursFrom(term, k, text, i)
  <2>1. /\ (i + 1) + (n - (k + 1)) <= m
        /\ \A l \in k + 1 .. n : Same(text[(i + 1) + (l - (k + 1))], term[l])
    BY <1>3 DEF OccursFrom
  <2> HIDE DEF n, m
  <2>2. i \in 1 .. m + 1 /\ i + (n - k) <= m
    BY <1>1, <1>3, <2>1
  <2>3. ASSUME NEW l \in k .. n PROVE Same(text[i + (l - k)], term[l])
    <3>1. CASE l = k
      <4>1. i + (l - k) = i
        BY <1>1, <1>3, <3>1
      <4> QED BY <1>3, <3>1, <4>1, Zenon
    <3>2. CASE l # k
      <4>1. l \in k + 1 .. n /\ (i + 1) + (l - (k + 1)) = i + (l - k)
        BY <1>1, <1>3, <3>2
      <4> QED BY <2>1, <4>1, Zenon
    <3> QED BY <3>1, <3>2
  <2> QED BY <2>2, <2>3, Zenon DEF OccursFrom, n, m
<1> QED BY <1>2, <1>3, Zenon DEF m

\* The positions told by f for the pattern from its j-th character on.
From(f, pattern, j) == f[Len(pattern) + 1 - j]

\* f reads the term backwards: each of its characters, then any text before it.
ReadsTerm(f, p, at, term, text) ==
  /\ 1 \in From(f, p, 1) <=> \E i \in From(f, p, 2) : 1 \in 1 .. i
  /\ From(f, p, 1 + at[Len(term) + 1]) = 1 .. Len(text) + 1
  /\ \A k \in 1 .. Len(term) :
        From(f, p, 1 + at[k]) = {i \in 1 .. Len(text) : /\ Same(text[i], term[k])
                                                       /\ i + 1 \in From(f, p, 1 + at[k + 1])}

\* The positions told for the pattern of a term read the term.
LEMMA PatternReads ==
  ASSUME NEW C, LikeChars(C), NEW D, NEW term \in Seq(C), NEW text \in Seq(D),
         NEW at, LaidOut(at, term, escape_like(term)),
         NEW p, p = like_pattern(term), NEW f, IsMatches(f, text, p, Len(p))
  PROVE  ReadsTerm(f, p, at, term, text)
<1> DEFINE e == escape_like(term)
           n == Len(p)
           m == Len(text)
           from(j) == From(f, p, j)
<1>1. e \in Seq(C) /\ Percent \in C
  BY EscapeType DEF LikeChars
<1>2. p = <<Percent>> \o e \o <<Percent>>
  BY Zenon DEF like_pattern
<1>3. \A j : from(j) = f[n + 1 - j]
  BY DEF From
<1>4. /\ Len(e) \in Nat /\ n = Len(e) + 2 /\ m \in Nat
      /\ p[1] = Percent /\ p[n] = Percent
      /\ \A i \in 1 .. Len(e) : p[i + 1] = e[i]
  <2> HIDE DEF e
  <2> QED BY <1>1, <1>2
<1>5. Escape # Percent /\ Escape # Underscore /\ Percent # Underscore
  BY DEF Escape, Percent, Underscore
<1> HIDE DEF e
<1>6. f[0] = {m + 1}
  BY DEF IsMatches
<1>7. ASSUME NEW j \in 1 .. n
      PROVE  from(j) = MatchesFrom(text, p, j, from(j + 1), IF j < n THEN from(j + 2) ELSE {})
  <2> DEFINE d == n + 1 - j
  <2>1. /\ d \in 1 .. n /\ n + 1 - d = j /\ (d > 1 <=> j < n)
        /\ d - 1 = n + 1 - (j + 1) /\ d - 2 = n + 1 - (j + 2)
    BY <1>4
  <2> HIDE DEF d
  <2>2. f[d] = MatchesFrom(text, p, n + 1 - d, f[d - 1], IF d > 1 THEN f[d - 2] ELSE {})
    BY <2>1, Zenon DEF IsMatches
  <2>3. (IF d > 1 THEN f[d - 2] ELSE {}) = (IF j < n THEN f[n + 1 - (j + 2)] ELSE {})
    BY <2>1, Zenon
  <2>4. f[d] = from(j)
    BY <1>3, Zenon DEF d
  <2> QED BY <1>3, <2>1, <2>2, <2>3, <2>4, Zenon
<1>8. from(n + 1) = {m + 1}
  BY <1>3, <1>4, <1>6
<1>9. ASSUME NEW j \in 1 .. n, p[j] = Percent
      PROVE  from(j) = UNION {1 .. i : i \in from(j + 1)}
  <2> HIDE DEF from
  <2>1. from(j) = MatchesFrom(text, p, j, from(j + 1), IF j < n THEN from(j + 2) ELSE {})
    BY <1>7
  <2> QED BY <1>5, <1>9, <2>1, Zenon DEF MatchesFrom
<1> HIDE DEF from
<1>10. from(n) = 1 .. m + 1
  <2>1. from(n) = UNION {1 .. i : i \in from(n + 1)}
    BY <1>4, <1>9
  <2>2. from(n) = UNION {1 .. i : i \in {m + 1}}
    BY <1>8, <2>1, Zenon
  <2> QED BY <2>2
<1>11. 1 \in from(1) <=> \E i \in from(2) : 1 \in 1 .. i
  <2>1. from(1) = UNION {1 .. i : i \in from(1 + 1)}
    BY <1>4, <1>9
  <2>2. 1 + 1 = 2
    OBVIOUS
  <2> QED BY <2>1, <2>2, Zenon
<1>12. 1 + at[Len(term) + 1] = n
  <2>1. at[Len(term) + 1] = Len(e) + 1
    BY Zenon DEF LaidOut, e
  <2> QED BY <1>4, <2>1
<1>13. ASSUME NEW k \in 1 .. Len(term)
       PROVE  from(1 + at[k]) = {i \in 1 .. m : Same(text[i], term[k]) /\ i + 1 \in from(1 + at[k + 1])}
  <2>1. Len(term) \in Nat /\ k \in 1 .. Len(term) + 1 /\ k + 1 \in 1 .. Len(term) + 1
    OBVIOUS
  <2>2. at[k] \in Nat \ {0} /\ at[k + 1] \in Nat \ {0}
    BY <2>1 DEF LaidOut
  <2>3. at[k] <= Len(e)
    BY Zenon DEF LaidOut, e
  <2> DEFINE j == 1 + at[k]
  <2>4. j \in 1 .. n /\ j < n /\ at[k] \in 1 .. Len(e) /\ at[k] + 1 = j
    BY <1>4, <2>2, <2>3
  <2>5. DOMAIN text = 1 .. m
    OBVIOUS
  <2>6. CASE Special(term[k])
    <3>1. /\ at[k + 1] = at[k] + 2 /\ at[k] + 1 <= Len(e)
          /\ e[at[k]] = Escape /\ e[at[k] + 1] = term[k]
      BY <2>6, Zenon DEF LaidOut, e
    <3>2. at[k] + 1 \in 1 .. Len(e) /\ j + 2 = 1 + at[k + 1] /\ (at[k] + 1) + 1 = j + 1
      <4>1. \A a, b \in Nat \ {0} : b = a + 2 => 1 + a + 2 = 1 + b /\ (a + 1) + 1 = 1 + a + 1
        OBVIOUS
      <4>2. \A a \in Nat \ {0} : a + 1 <= Len(e) => a + 1 \in 1 .. Len(e)
        BY <1>4
      <4>3. at[k + 1] \in Nat \ {0}
        BY <2>2
      <4> QED BY <2>2, <3>1, <4>1, <4>2, <4>3, Zenon
    <3>3. p[j] = Escape
      BY <1>4, <2>4, <3>1, Zenon
    <3>4. p[j + 1] = term[k]
      <4>1. p[(at[k] + 1) + 1] = e[at[k] + 1]
        BY <1>4, <3>2, Zenon
      <4> QED BY <3>1, <3>2, <4>1, Zenon
    <3> HIDE DEF j
    <3>5. from(j) = {i \in DOMAIN text : j < Len(p) /\ Same(text[i], p[j + 1]) /\ i + 1 \in from(j + 2)}
      <4>1. from(j) = MatchesFrom(text, p, j, from(j + 1), IF j < n THEN from(j + 2) ELSE {})
        BY <1>7, <2>4
      <4>2. from(j) = MatchesFrom(text, p, j, from(j + 1), from(j + 2))
        BY <2>4, <4>1, Zenon
      <4> HIDE DEF n
      <4> QED BY <1>5, <3>3, <4>2, Zenon DEF MatchesFrom
    <3>6. from(j) = {i \in 1 .. m : Same(text[i], term[k]) /\ i + 1 \in from(j + 2)}
      BY <2>4, <2>5, <3>4, <3>5, Zenon
    <3> QED BY <3>2, <3>6, Zenon DEF j
  <2>7. CASE ~ Special(term[k])
    <3>1. at[k + 1] = at[k] + 1 /\ e[at[k]] = term[k]
      BY <2>7, Zenon DEF LaidOut, e
    <3>2. j + 1 = 1 + at[k + 1]
      BY <2>2, <3>1
    <3>3. p[j] = term[k]
      BY <1>4, <2>4, <3>1, Zenon
    <3> HIDE DEF j
    <3>4. from(j) = {i \in DOMAIN text : Same(text[i], p[j]) /\ i + 1 \in from(j + 1)}
      <4>1. from(j) = MatchesFrom(text, p, j, from(j + 1), IF j < n THEN from(j + 2) ELSE {})
        BY <1>7, <2>4
      <4>2. p[j] # Escape /\ p[j] # Percent /\ p[j] # Underscore
        BY <2>7, <3>3 DEF Special
      <4> QED BY <4>1, <4>2, Zenon DEF MatchesFrom
    <3>5. from(j) = {i \in 1 .. m : Same(text[i], term[k]) /\ i + 1 \in from(j + 1)}
      BY <2>5, <3>3, <3>4, Zenon
    <3> QED BY <3>2, <3>5, Zenon DEF j
  <2> QED BY <2>6, <2>7
<1> QED BY <1>10, <1>11, <1>12, <1>13, Zenon DEF from, n, m, ReadsTerm

\* The pattern of a term matches the texts the term occurs in.
LEMMA PatternIsLiteral ==
  ASSUME NEW C, LikeChars(C), NEW D, NEW term \in Seq(C), NEW text \in Seq(D)
  PROVE  Ilike(text, like_pattern(term)) <=> Occurs(term, text)
<1> DEFINE e == escape_like(term)
           p == like_pattern(term)
           n == Len(term)
           m == Len(text)
<1>1. n \in Nat /\ m \in Nat
  OBVIOUS
<1>2. p \in Seq(C)
  <2>1. e \in Seq(C) /\ Percent \in C
    BY EscapeType DEF LikeChars
  <2>2. p = <<Percent>> \o e \o <<Percent>>
    BY Zenon DEF like_pattern
  <2> HIDE DEF e, p
  <2> QED BY <2>1, <2>2
<1>3. PICK at : LaidOut(at, term, e)
  BY EscapeLaysOut
<1>4. PICK f : IsMatches(f, text, p, Len(p)) /\ (Ilike(text, p) <=> 1 \in f[Len(p)])
  BY <1>2, IlikeIs, Zenon
<1> DEFINE from(j) == From(f, p, j)
<1>5. /\ (1 \in from(1) <=> \E i \in from(2) : 1 \in 1 .. i)
      /\ from(1 + at[n + 1]) = 1 .. m + 1
      /\ \A k \in 1 .. n : from(1 + at[k]) = {i \in 1 .. m : /\ Same(text[i], term[k])
                                                              /\ i + 1 \in from(1 + at[k + 1])}
  <2>1. ReadsTerm(f, p, at, term, text)
    BY <1>3, <1>4, PatternReads
  <2> QED BY <2>1, Zenon DEF ReadsTerm
<1>6. Ilike(text, p) <=> 1 \in from(1)
  <2>1. Len(p) + 1 - 1 = Len(p)
    BY <1>2
  <2> QED BY <1>4, <2>1, Zenon DEF From
<1> HIDE DEF from, p
\* Back from the end of the term.
<1> DEFINE Good == {d \in Nat : d <= n =>
                      \A i : i \in from(1 + at[n + 1 - d]) <=> OccursFrom(term, n + 1 - d, text, i)}
<1>7. 0 \in Good
  <2>1. n + 1 - 0 = n + 1 /\ (n + 1) .. n = {} /\ \A i \in 1 .. m + 1 : i + (n - (n + 1)) <= m
    BY <1>1
  <2>2. \A i : i \in from(1 + at[n + 1]) <=> OccursFrom(term, n + 1, text, i)
    BY <1>5, <2>1, Zenon DEF OccursFrom
  <2> QED BY <2>1, <2>2, Zenon
<1>8. ASSUME NEW d \in Nat, d \in Good PROVE d + 1 \in Good
  <2> SUFFICES ASSUME d + 1 <= n, NEW i
               PROVE  i \in from(1 + at[n + 1 - (d + 1)]) <=> OccursFrom(term, n + 1 - (d + 1), text, i)
    OBVIOUS
  <2> DEFINE k == n + 1 - (d + 1)
  <2>1. k \in 1 .. n /\ k + 1 = n + 1 - d /\ d <= n
    BY <1>1
  <2> HIDE DEF k
  <2>2. i + 1 \in from(1 + at[k + 1]) <=> OccursFrom(term, k + 1, text, i + 1)
    BY <1>8, <2>1, Zenon
  <2>3. i \in from(1 + at[k]) <=> i \in 1 .. m /\ Same(text[i], term[k]) /\ i + 1 \in from(1 + at[k + 1])
    BY <1>5, <2>1, Zenon
  <2>4. OccursFrom(term, k, text, i) <=>
          i \in 1 .. m /\ Same(text[i], term[k]) /\ OccursFrom(term, k + 1, text, i + 1)
    BY <2>1, OccursFromStep
  <2> QED BY <2>2, <2>3, <2>4, Zenon DEF k
<1> HIDE DEF Good
<1>9. n \in Good
  BY <1>1, <1>7, <1>8, NatInductionBySets
<1>10. \A i : i \in from(2) <=> OccursFrom(term, 1, text, i)
  <2>1. n <= n /\ n + 1 - n = 1 /\ 1 + at[1] = 2
    BY <1>1, <1>3 DEF LaidOut
  <2> QED BY <1>9, <2>1, Zenon DEF Good
<1>11. Occurs(term, text) <=> \E i : OccursFrom(term, 1, text, i) /\ 1 \in 1 .. i
  <2>1. DOMAIN term = 1 .. n
    OBVIOUS
  <2>2. ASSUME NEW i, OccursFrom(term, 1, text, i) PROVE Occurs(term, text)
    <3>1. i \in 1 .. m + 1 /\ i + (n - 1) <= m /\ \A l \in 1 .. n : Same(text[i + (l - 1)], term[l])
      BY <2>2 DEF OccursFrom
    <3>2. i - 1 \in 0 .. m - n /\ \A l \in 1 .. n : i + (l - 1) = (i - 1) + l
      BY <1>1, <3>1
    <3>3. \A l \in 1 .. n : Same(text[(i - 1) + l], term[l])
      BY <3>1, <3>2, Zenon
    <3> QED BY <2>1, <3>2, <3>3, Zenon DEF Occurs
  <2>3. ASSUME NEW j \in 0 .. m - n, \A l \in DOMAIN term : Same(text[j + l], term[l])
        PROVE  OccursFrom(term, 1, text, j + 1) /\ 1 \in 1 .. j + 1
    <3>1. /\ j + 1 \in 1 .. m + 1 /\ (j + 1) + (n - 1) <= m /\ 1 \in 1 .. j + 1
          /\ \A l \in 1 .. n : (j + 1) + (l - 1) = j + l
      BY <1>1
    <3>2. \A l \in 1 .. n : Same(text[(j + 1) + (l - 1)], term[l])
      BY <2>1, <2>3, <3>1, Zenon
    <3> QED BY <3>1, <3>2, Zenon DEF OccursFrom
  <2> QED BY <2>2, <2>3, Zenon DEF Occurs
<1> QED BY <1>5, <1>6, <1>10, <1>11, Zenon DEF p

-----------------------------------------------------------------------------
\* The first and the last of some positions of a text are among them.
LEMMA EndsOfPositions ==
  ASSUME NEW n \in Nat, NEW S \in SUBSET (1 .. n), S # {}
  PROVE  Min(S) \in S /\ Max(S) \in S
<1> DEFINE Descent == OpToRel(<, Nat)
           Mirror == {n - x : x \in S}
<1>1. \A m, k \in Nat : <<m, k>> \in Descent <=> m < k
  BY DEF OpToRel
<1>2. IsWellFoundedOn(Descent, Nat)
  BY NatLessThanWellFounded
<1> HIDE DEF Descent
<1>3. \A T \in SUBSET Nat : T # {} => \E x \in T : \A y \in T : x <= y
  <2> SUFFICES ASSUME NEW T \in SUBSET Nat, T # {} PROVE \E x \in T : \A y \in T : x <= y
    OBVIOUS
  <2>1. PICK x \in T : \A y \in T : ~ (<<y, x>> \in Descent)
    BY <1>2, WFMin
  <2>2. \A y \in T : ~ (y < x)
    BY <1>1, <2>1
  <2> QED BY <2>2
<1>4. \E x \in S : \A y \in S : x <= y
  <2>1. S \in SUBSET Nat
    OBVIOUS
  <2> QED BY <1>3, <2>1
<1>5. \E x \in S : \A y \in S : x >= y
  <2>1. Mirror \in SUBSET Nat /\ Mirror # {}
    <3>1. \A x \in S : n - x \in Nat
      OBVIOUS
    <3>2. PICK x \in S : TRUE
      OBVIOUS
    <3>3. n - x \in Mirror
      OBVIOUS
    <3> QED BY <3>1, <3>3
  <2>2. PICK x \in Mirror : \A y \in Mirror : x <= y
    BY <1>3, <2>1
  <2>3. PICK z \in S : x = n - z
    OBVIOUS
  <2>4. \A y \in S : n - y \in Mirror
    OBVIOUS
  <2>5. \A y \in S : n - z <= n - y
    BY <2>2, <2>3, <2>4
  <2>6. \A y \in S : z >= y
    BY <2>5
  <2> QED BY <2>6
<1>6. Min(S) \in S
  BY <1>4 DEF Min
<1>7. Max(S) \in S
  BY <1>5 DEF Max
<1> QED BY <1>6, <1>7

\* str.strip() makes a text of the same characters.
LEMMA StrippedType ==
  ASSUME NEW C, NEW text \in Seq(C)
  PROVE  Stripped(text) \in Seq(C)
<1> DEFINE kept == {i \in DOMAIN text : text[i] # Blank}
<1>1. CASE kept = {}
  <2>1. <<>> \in Seq(C)
    OBVIOUS
  <2> QED BY <1>1, <2>1, Zenon DEF Stripped
<1>2. CASE kept # {}
  <2>1. kept \in SUBSET (1 .. Len(text)) /\ Len(text) \in Nat
    OBVIOUS
  <2> DEFINE first == Min(kept)
             last  == Max(kept)
  <2>2. Stripped(text) = SubSeq(text, first, last)
    BY <1>2, Zenon DEF Stripped
  <2>3. first \in kept /\ last \in kept
    BY <1>2, <2>1, EndsOfPositions
  <2>4. first \in 1 .. Len(text) /\ last \in 1 .. Len(text)
    BY <2>1, <2>3
  <2> HIDE DEF first, last
  <2>5. SubSeq(text, first, last) \in Seq(C)
    BY <2>4
  <2> QED BY <2>2, <2>5
<1> QED BY <1>1, <1>2

\* "User input is always a literal term" (app/services/search/text.py:5): whatever
\* is typed, the pattern made of it matches exactly the texts in which it occurs,
\* blanks around it aside, in upper or lower case.
THEOREM QueryIsLiteral ==
  \A query, text \in Seq(STRING) :
    Ilike(text, like_pattern(Stripped(query))) <=> Occurs(Stripped(query), text)
<1> SUFFICES ASSUME NEW query \in Seq(STRING), NEW text \in Seq(STRING)
             PROVE  Ilike(text, like_pattern(Stripped(query))) <=> Occurs(Stripped(query), text)
  OBVIOUS
<1> DEFINE C == STRING \cup {Escape, Percent, Underscore}
<1>1. LikeChars(C)
  BY DEF LikeChars
<1>2. Stripped(query) \in Seq(STRING)
  BY StrippedType
<1>3. Seq(STRING) \subseteq Seq(C)
  <2>1. STRING \subseteq C
    OBVIOUS
  <2> HIDE DEF C
  <2> QED BY <2>1, SeqMonotonic
<1> HIDE DEF C
<1> QED BY <1>1, <1>2, <1>3, PatternIsLiteral
=============================================================================
