-------------------------- MODULE MigrationProofs --------------------------
(***************************************************************************)
(* What the migrations guarantee for any list of indexes and any number of  *)
(* commands and interruptions.                                              *)
(***************************************************************************)
EXTENDS Migration, TLAPS

USE TrigramAssumption DEF SchemaType, Phases

-----------------------------------------------------------------------------
(***************************************************************************)
(* Lemmas about TRIGRAM_INDEXES                                             *)
(***************************************************************************)

\* The list has a length, and its names are indexed by the numbers up to it.
LEMMA NamesFacts ==
  /\ Len(TrigramIndexes) \in Nat
  /\ DOMAIN TrigramIndexes = 1 .. Len(TrigramIndexes)
  /\ \A n \in Names : \E i \in 1 .. Len(TrigramIndexes) : n = TrigramIndexes[i]
  /\ \A i \in 1 .. Len(TrigramIndexes) : TrigramIndexes[i] \in Names
  BY DEF Names

\* The loop's current name is a name, and none of those before it.
LEMMA CurrentFacts ==
  ASSUME built \in Nat, built < Len(TrigramIndexes)
  PROVE  /\ Current \in Names
         /\ \A i \in 1 .. built : TrigramIndexes[i] # Current /\ TrigramIndexes[i] \in Names
         /\ Current = TrigramIndexes[built + 1]
<1>1. built + 1 \in 1 .. Len(TrigramIndexes)
  BY NamesFacts
<1>2. \A i \in 1 .. built : i \in 1 .. Len(TrigramIndexes) /\ i # built + 1
  <2>. DEFINE L == Len(TrigramIndexes)
  <2>1. L \in Nat /\ built < L /\ built \in Nat
    BY NamesFacts
  <2>. HIDE DEF L
  <2>2. \A i \in 1 .. built : i \in 1 .. L /\ i # built + 1
    BY ONLY <2>1
  <2>3. QED
    BY <2>2 DEF L
<1>3. QED
  BY <1>1, <1>2, NamesFacts DEF Current

-----------------------------------------------------------------------------
(***************************************************************************)
(* Every step preserves the invariant                                       *)
(***************************************************************************)

\* Starting a command touches nothing that is committed.
LEMMA StartKeeps ==
  ASSUME MInv, StartUpgrade \/ StartDowngrade
  PROVE  MInv'
<1>1. TypeOK'
  BY NamesFacts DEF MInv, TypeOK, StartUpgrade, StartDowngrade
<1>2. SchemaFollowsRevision' /\ HeadMeansIndexed'
  BY DEF MInv, SchemaFollowsRevision, HeadMeansIndexed, StartUpgrade, StartDowngrade
<1>3. PendingInv'
  BY DEF MInv, TypeOK, PendingInv, SchemaFollowsRevision, StartUpgrade, StartDowngrade
<1>4. BuiltInv'
  BY DEF MInv, BuiltInv, StartUpgrade, StartDowngrade
<1>5. QED
  BY <1>1, <1>2, <1>3, <1>4 DEF MInv

\* The first revision inside its transaction, and the commit that ends it.
LEMMA CreateKeeps ==
  ASSUME MInv, CreateTables \/ CreateExtension
  PROVE  MInv'
<1>1. TypeOK'
  BY DEF MInv, TypeOK, CreateTables, CreateExtension, Commit
<1>2. SchemaFollowsRevision'
  BY DEF MInv, TypeOK, SchemaFollowsRevision, PendingInv, CreateTables, CreateExtension, Commit
<1>3. HeadMeansIndexed'
  BY DEF MInv, TypeOK, HeadMeansIndexed, PendingInv, CreateTables, CreateExtension, Commit
<1>4. PendingInv'
  BY DEF MInv, TypeOK, PendingInv, SchemaFollowsRevision, CreateTables, CreateExtension, Commit
<1>5. BuiltInv'
  BY DEF MInv, TypeOK, PendingInv, BuiltInv, CreateTables, CreateExtension, Commit
<1>6. QED
  BY <1>1, <1>2, <1>3, <1>4, <1>5 DEF MInv

\* One turn of the loop of upgrade(), and its end.
LEMMA BuildKeeps ==
  ASSUME MInv, BuildIndex \/ FinishUpgrade
  PROVE  MInv'
<1>1. CASE BuildIndex /\ index[Current] = "absent"
  <2>. USE <1>1
  <2>1. built \in Nat /\ built < Len(TrigramIndexes)
    BY NamesFacts DEF MInv, TypeOK, BuildIndex
  <2>2. /\ index' = [index EXCEPT ![Current] = "valid"] /\ built' = built + 1
        /\ UNCHANGED <<schema, pending, pc, goal, holed>> /\ pc = "build_indexes"
    BY DEF BuildIndex, Abort
  <2>3. TypeOK'
    <3>1. built' \in 0 .. Len(TrigramIndexes)
      BY <2>1, <2>2, NamesFacts
    <3>2. QED
      BY <2>2, <3>1 DEF MInv, TypeOK
  <2>4. SchemaFollowsRevision'
    BY <2>2 DEF MInv, TypeOK, SchemaFollowsRevision, PendingInv
  <2>5. HeadMeansIndexed' /\ PendingInv'
    BY <2>2 DEF MInv, HeadMeansIndexed, PendingInv
  <2>6. BuiltInv'
    <3>1. \A i \in 1 .. built : index'[TrigramIndexes[i]] = "valid"
      BY <2>1, <2>2, CurrentFacts DEF MInv, TypeOK, BuiltInv
    <3>2. index'[TrigramIndexes[built + 1]] = "valid"
      BY <2>1, <2>2, CurrentFacts DEF MInv, TypeOK
    <3>3. \A i \in 1 .. built' : i \in 1 .. built \/ i = built + 1
      BY <2>1, <2>2
    <3>4. QED
      BY <2>2, <3>1, <3>2, <3>3 DEF MInv, BuiltInv
  <2>7. QED
    BY <2>3, <2>4, <2>5, <2>6 DEF MInv
<1>2. CASE BuildIndex /\ index[Current] # "absent"
  <2>1. pc' = "idle" /\ pc = "build_indexes" /\ UNCHANGED <<schema, pending, index, built, goal, holed>>
    BY <1>2 DEF BuildIndex, Abort
  <2>2. TypeOK' /\ PendingInv' /\ BuiltInv'
    BY <2>1 DEF MInv, TypeOK, PendingInv, BuiltInv
  <2>3. SchemaFollowsRevision' /\ HeadMeansIndexed'
    BY <2>1 DEF MInv, SchemaFollowsRevision, HeadMeansIndexed, PendingInv
  <2>4. QED
    BY <2>2, <2>3 DEF MInv
<1>3. CASE FinishUpgrade
  <2>1. \A n \in Names : index[n] = "valid"
    BY <1>3, NamesFacts DEF MInv, BuiltInv, FinishUpgrade
  <2>2. TypeOK' /\ PendingInv' /\ BuiltInv'
    BY <1>3 DEF MInv, TypeOK, PendingInv, BuiltInv, FinishUpgrade, Commit
  <2>3. HeadMeansIndexed'
    BY <1>3, <2>1 DEF HeadMeansIndexed, FinishUpgrade
  <2>4. SchemaFollowsRevision'
    BY <1>3 DEF MInv, TypeOK, SchemaFollowsRevision, PendingInv, FinishUpgrade, Commit
  <2>5. QED
    BY <2>2, <2>3, <2>4 DEF MInv
<1>4. QED
  BY <1>1, <1>2, <1>3

\* One turn of the loop of downgrade().
LEMMA DropIndexKeeps ==
  ASSUME MInv, DropIndex
  PROVE  MInv'
<1>1. CASE index[Current] # "absent"
  <2>1. built \in Nat /\ built < Len(TrigramIndexes)
    BY NamesFacts DEF MInv, TypeOK, DropIndex
  <2>2. /\ index' = [index EXCEPT ![Current] = "absent"] /\ built' = built + 1
        /\ UNCHANGED <<schema, pending, pc, goal, holed>> /\ pc = "drop_indexes"
    BY <1>1 DEF DropIndex
  <2>3. TypeOK'
    <3>1. built' \in 0 .. Len(TrigramIndexes)
      BY <2>1, <2>2, NamesFacts
    <3>2. QED
      BY <2>2, <3>1 DEF MInv, TypeOK
  <2>4. SchemaFollowsRevision'
    BY <2>2 DEF MInv, TypeOK, SchemaFollowsRevision
  <2>5. HeadMeansIndexed' /\ PendingInv'
    BY <2>2 DEF MInv, HeadMeansIndexed, PendingInv, BuiltInv
  <2>6. BuiltInv'
    <3>1. \A i \in 1 .. built : index'[TrigramIndexes[i]] = "absent"
      BY <2>1, <2>2, CurrentFacts DEF MInv, TypeOK, BuiltInv
    <3>2. index'[TrigramIndexes[built + 1]] = "absent"
      BY <2>1, <2>2, CurrentFacts DEF MInv, TypeOK
    <3>3. \A i \in 1 .. built' : i \in 1 .. built \/ i = built + 1
      BY <2>1, <2>2
    <3>4. QED
      BY <2>2, <3>1, <3>2, <3>3 DEF MInv, BuiltInv
  <2>7. QED
    BY <2>3, <2>4, <2>5, <2>6 DEF MInv
<1>2. CASE index[Current] = "absent"
  <2>1. /\ pc' = "idle" /\ holed' = TRUE /\ pc = "drop_indexes"
        /\ UNCHANGED <<schema, pending, index, built, goal>>
    BY <1>2 DEF DropIndex
  <2>2. TypeOK' /\ PendingInv' /\ BuiltInv'
    BY <2>1 DEF MInv, TypeOK, PendingInv, BuiltInv
  <2>3. SchemaFollowsRevision' /\ HeadMeansIndexed'
    BY <2>1 DEF MInv, SchemaFollowsRevision, HeadMeansIndexed
  <2>4. QED
    BY <2>2, <2>3 DEF MInv
<1>3. QED
  BY <1>1, <1>2

\* The end of the loop of downgrade(), and the first revision's downgrade().
LEMMA DropKeeps ==
  ASSUME MInv, FinishIndexes \/ DropTables
  PROVE  MInv'
<1>1. TypeOK'
  <2>1. schema' \in SchemaType /\ pending' \in SchemaType
    BY DEF MInv, TypeOK, FinishIndexes, DropTables, Commit
  <2>2. index' \in [Names -> {"absent", "invalid", "valid"}]
    BY DEF MInv, TypeOK, FinishIndexes, DropTables
  <2>3. holed' \in BOOLEAN
    BY DEF MInv, TypeOK, FinishIndexes, DropTables
  <2>4. pc' \in Phases /\ UNCHANGED <<built, goal>>
    BY DEF FinishIndexes, DropTables
  <2>5. QED
    BY <2>1, <2>2, <2>3, <2>4 DEF MInv, TypeOK
<1>2. SchemaFollowsRevision'
  BY DEF MInv, TypeOK, SchemaFollowsRevision, PendingInv, FinishIndexes, DropTables, Commit
<1>3. HeadMeansIndexed'
  BY DEF MInv, TypeOK, HeadMeansIndexed, PendingInv, BuiltInv, FinishIndexes, DropTables, Commit
<1>4. PendingInv'
  BY DEF MInv, TypeOK, PendingInv, FinishIndexes, DropTables, Commit
<1>5. BuiltInv'
  BY DEF MInv, TypeOK, BuiltInv, FinishIndexes, DropTables, Commit
<1>6. QED
  BY <1>1, <1>2, <1>3, <1>4, <1>5 DEF MInv

\* An interruption leaves at most one index half done.
LEMMA InterruptKeeps ==
  ASSUME MInv, Interrupt
  PROVE  MInv'
<1>1. built \in Nat /\ (pc \in {"build_indexes", "drop_indexes"} => built \in 0 .. Len(TrigramIndexes))
  BY NamesFacts DEF MInv, TypeOK
<1>2. \/ UNCHANGED index
      \/ /\ Current \in Names /\ pc \in {"build_indexes", "drop_indexes"}
         /\ pc = "drop_indexes" => index[Current] # "absent"
         /\ index' = [index EXCEPT ![Current] = "invalid"]
  BY <1>1, CurrentFacts DEF Interrupt, HalfDone
<1>3. pc' = "idle" /\ UNCHANGED <<schema, pending, built, goal>>
  BY DEF Interrupt
<1>4. TypeOK'
  <2>1. index' \in [Names -> {"absent", "invalid", "valid"}]
    BY <1>2 DEF MInv, TypeOK
  <2>2. holed' \in BOOLEAN
    BY Zenon DEF Interrupt
  <2>3. QED
    BY <1>3, <2>1, <2>2 DEF MInv, TypeOK
<1>5. SchemaFollowsRevision'
  BY <1>2, <1>3 DEF MInv, TypeOK, SchemaFollowsRevision, PendingInv
<1>6. HeadMeansIndexed'
  BY <1>2, <1>3 DEF MInv, TypeOK, HeadMeansIndexed, PendingInv, BuiltInv, Interrupt
<1>7. PendingInv' /\ BuiltInv'
  BY <1>3 DEF PendingInv, BuiltInv
<1>8. QED
  BY <1>4, <1>5, <1>6, <1>7 DEF MInv

-----------------------------------------------------------------------------
\* The inductive invariant of the migrations holds in every reachable state.
THEOREM MigrationInvariant == Spec => []MInv
<1>1. Init => MInv
  <2>. SUFFICES ASSUME Init PROVE MInv
    OBVIOUS
  <2>1. TypeOK
    <3>1. schema \in SchemaType /\ pending \in SchemaType
      BY DEF Init, Empty
    <3>2. holed \in BOOLEAN
      BY Zenon DEF Init
    <3>3. built \in 0 .. Len(TrigramIndexes)
      BY NamesFacts DEF Init
    <3>4. QED
      BY <3>1, <3>2, <3>3 DEF Init, TypeOK
  <2>2. SchemaFollowsRevision /\ HeadMeansIndexed
    BY DEF Init, Empty, SchemaFollowsRevision, HeadMeansIndexed
  <2>3. PendingInv /\ BuiltInv
    BY DEF Init, Empty, PendingInv, BuiltInv
  <2>4. QED
    BY <2>1, <2>2, <2>3 DEF MInv
<1>2. MInv /\ [Next]_vars => MInv'
  <2>. SUFFICES ASSUME MInv, [Next]_vars PROVE MInv'
    OBVIOUS
  <2>1. CASE UNCHANGED vars
    BY <2>1 DEF vars, MInv, TypeOK, SchemaFollowsRevision, HeadMeansIndexed, PendingInv, BuiltInv
  <2>2. CASE Next
    BY <2>2, StartKeeps, CreateKeeps, BuildKeeps, DropIndexKeeps, DropKeeps, InterruptKeeps DEF Next
  <2>3. QED
    BY <2>1, <2>2
<1>3. QED
  BY <1>1, <1>2, PTL DEF Spec

\* Tables, revision and indexes agree, whatever is interrupted.
THEOREM SchemaFollowsRevisionHolds == Spec => []SchemaFollowsRevision
<1>1. MInv => SchemaFollowsRevision
  BY DEF MInv
<1>2. QED
  BY <1>1, MigrationInvariant, PTL

\* No number of repeated upgrades records the head over a missing or an invalid
\* index.
THEOREM HeadMeansIndexedHolds == Spec => []HeadMeansIndexed
<1>1. MInv => HeadMeansIndexed
  BY DEF MInv
<1>2. QED
  BY <1>1, MigrationInvariant, PTL
=============================================================================
