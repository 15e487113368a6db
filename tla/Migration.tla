----------------------------- MODULE Migration -----------------------------
(***************************************************************************)
(* alembic upgrade and downgrade over the two revisions, interrupted at any *)
(* point, any number of times.                                              *)
(*                                                                          *)
(* env.py opens one transaction for the whole command.  The first revision  *)
(* lives inside it; the second one leaves it to build its indexes           *)
(* CONCURRENTLY, which commits whatever came before, and comes back to a    *)
(* new transaction for the rest.                                            *)
(***************************************************************************)
EXTENDS Naturals, Sequences

CONSTANT TrigramIndexes   \* TRIGRAM_INDEXES: the names of the indexes, in order

ASSUME TrigramAssumption ==
  /\ TrigramIndexes \in Seq(STRING)
  /\ \A i, j \in DOMAIN TrigramIndexes : i # j => TrigramIndexes[i] # TrigramIndexes[j]

VARIABLES
  schema,   \* what is committed: the revision, the four tables, pg_trgm
  pending,  \* the same, as the open transaction sees it
  index,    \* each trigram index: "absent", "valid", or "invalid" (half built)
  pc,       \* where the command stands
  built,    \* how many indexes the command has dealt with
  goal,     \* the revision the command is for
  holed     \* history: a downgrade from the head revision did not finish

vars == <<schema, pending, index, pc, built, goal, holed>>

Names == {TrigramIndexes[i] : i \in DOMAIN TrigramIndexes}

SchemaType == [revision : {"base", "e606788ed467", "82d0b9d6d764"},
               tables : BOOLEAN, extension : BOOLEAN]

Empty == [revision |-> "base", tables |-> FALSE, extension |-> FALSE]

Init ==
  /\ schema = Empty /\ pending = Empty
  /\ index = [n \in Names |-> "absent"]
  /\ pc = "idle" /\ built = 0 /\ goal = "base" /\ holed = FALSE

\* The index the loop over TRIGRAM_INDEXES is at.
Current == TrigramIndexes[built + 1]

\* The command fails: the open transaction is rolled back.
Abort == pc' = "idle" /\ UNCHANGED <<schema, pending, index, built, goal, holed>>

\* The command's transaction is committed with these changes.
Commit(changed) == schema' = changed /\ pending' = changed

-----------------------------------------------------------------------------
\* `alembic upgrade head`: nothing happens when the revision is the head.
StartUpgrade ==
  /\ pc = "idle" /\ schema.revision # "82d0b9d6d764"
  /\ pending' = schema /\ built' = 0 /\ goal' = "82d0b9d6d764"
  /\ pc' = IF schema.revision = "base" THEN "create_tables" ELSE "create_extension"
  /\ UNCHANGED <<schema, index, holed>>

\* `alembic downgrade`, by one revision or to base.
StartDowngrade ==
  /\ pc = "idle" /\ schema.revision # "base"
  /\ \E target \in {"base", "e606788ed467"} \ {schema.revision} : goal' = target
  /\ pending' = schema /\ built' = 0
  /\ pc' = IF schema.revision = "82d0b9d6d764" THEN "drop_indexes" ELSE "drop_tables"
  /\ UNCHANGED <<schema, index, holed>>

\* Mutant of CreateTables: the revision is recorded at the end of the command only.
CreateTablesUnstamped ==
  /\ pc = "create_tables" /\ ~pending.tables
  /\ pending' = [pending EXCEPT !.tables = TRUE]
  /\ pc' = "create_extension"
  /\ UNCHANGED <<schema, index, built, goal, holed>>

\* upgrade() of e606788ed467, tables, indexes and seed, and its stamp.
CreateTables ==
  /\ pc = "create_tables" /\ ~pending.tables
  /\ pending' = [pending EXCEPT !.tables = TRUE, !.revision = "e606788ed467"]
  /\ pc' = "create_extension"
  /\ UNCHANGED <<schema, index, built, goal, holed>>

\* CREATE EXTENSION IF NOT EXISTS, and the commit that enters the autocommit block.
CreateExtension ==
  /\ pc = "create_extension"
  /\ Commit([pending EXCEPT !.extension = TRUE])
  /\ pc' = "build_indexes"
  /\ UNCHANGED <<index, built, goal, holed>>

\* Mutant of BuildIndex: CREATE INDEX CONCURRENTLY IF NOT EXISTS.
BuildIndexIfNotExists ==
  /\ pc = "build_indexes" /\ built < Len(TrigramIndexes)
  /\ index' = [index EXCEPT ![Current] = IF @ = "absent" THEN "valid" ELSE @]
  /\ built' = built + 1
  /\ UNCHANGED <<schema, pending, pc, goal, holed>>

\* One CREATE INDEX CONCURRENTLY: a name that exists, valid or not, is an error.
BuildIndex ==
  /\ pc = "build_indexes" /\ built < Len(TrigramIndexes)
  /\ \/ /\ index[Current] = "absent"
        /\ index' = [index EXCEPT ![Current] = "valid"]
        /\ built' = built + 1
        /\ UNCHANGED <<schema, pending, pc, goal, holed>>
     \/ index[Current] # "absent" /\ Abort

\* The ANALYZEs, the stamp and the end of the command's transaction.
FinishUpgrade ==
  /\ pc = "build_indexes" /\ built = Len(TrigramIndexes)
  /\ Commit([pending EXCEPT !.revision = "82d0b9d6d764"])
  /\ pc' = "idle"
  /\ UNCHANGED <<index, built, goal, holed>>

\* One DROP INDEX CONCURRENTLY: a name that is not there is an error.
DropIndex ==
  /\ pc = "drop_indexes" /\ built < Len(TrigramIndexes)
  /\ \/ /\ index[Current] # "absent"
        /\ index' = [index EXCEPT ![Current] = "absent"]
        /\ built' = built + 1
        /\ UNCHANGED <<schema, pending, pc, goal, holed>>
     \/ /\ index[Current] = "absent"
        /\ pc' = "idle" /\ holed' = TRUE
        /\ UNCHANGED <<schema, pending, index, built, goal>>

\* The stamp of the first revision; further down goes the same transaction.
FinishIndexes ==
  /\ pc = "drop_indexes" /\ built = Len(TrigramIndexes)
  /\ \/ /\ goal = "e606788ed467"
        /\ Commit([pending EXCEPT !.revision = "e606788ed467"])
        /\ pc' = "idle" /\ holed' = FALSE
     \/ /\ goal = "base"
        /\ pending' = [pending EXCEPT !.revision = "e606788ed467"]
        /\ pc' = "drop_tables"
        /\ UNCHANGED <<schema, holed>>
  /\ UNCHANGED <<index, built, goal>>

\* downgrade() of e606788ed467: an index goes with its table, the extension stays.
DropTables ==
  /\ pc = "drop_tables"
  /\ Commit([pending EXCEPT !.tables = FALSE, !.revision = "base"])
  /\ index' = [n \in Names |-> "absent"]
  /\ pc' = "idle" /\ holed' = FALSE
  /\ UNCHANGED <<built, goal>>

-----------------------------------------------------------------------------
\* What the statement that is interrupted may leave of the index it works on.
HalfDone ==
  \/ UNCHANGED index
  \/ /\ pc \in {"build_indexes", "drop_indexes"} /\ built < Len(TrigramIndexes)
     /\ pc = "build_indexes" <=> index[Current] = "absent"
     /\ index' = [index EXCEPT ![Current] = "invalid"]

\* The command is killed, its connection is lost, or a statement fails.
Interrupt ==
  /\ pc # "idle"
  /\ HalfDone
  /\ pc' = "idle"
  /\ holed' = (holed \/ (goal # "82d0b9d6d764" /\ schema.revision = "82d0b9d6d764"))
  /\ UNCHANGED <<schema, pending, built, goal>>

Next ==
  \/ StartUpgrade \/ CreateTables \/ CreateExtension \/ BuildIndex \/ FinishUpgrade
  \/ StartDowngrade \/ DropIndex \/ FinishIndexes \/ DropTables
  \/ Interrupt

Spec == Init /\ [][Next]_vars

-----------------------------------------------------------------------------
(***************************************************************************)
(* Properties                                                               *)
(***************************************************************************)

Phases == {"idle", "create_tables", "create_extension", "build_indexes",
           "drop_indexes", "drop_tables"}

\* Type correctness.
TypeOK ==
  /\ schema \in SchemaType /\ pending \in SchemaType
  /\ index \in [Names -> {"absent", "invalid", "valid"}]
  /\ pc \in Phases /\ built \in 0 .. Len(TrigramIndexes)
  /\ goal \in {"base", "e606788ed467", "82d0b9d6d764"} /\ holed \in BOOLEAN

\* Although the second revision commits in the middle of the command, the tables
\* with their seed are there exactly when a revision says so, and no index
\* without them and the extension: an interrupted command can be followed by
\* another one that starts at the right place (env.py:51, 82d0b9d6d764:51).
SchemaFollowsRevision ==
  /\ schema.tables <=> schema.revision # "base"
  /\ (\E n \in Names : index[n] # "absent") => schema.tables /\ schema.extension

\* The head revision means that every index the models declare is there and
\* usable (82d0b9d6d764:34, "`alembic check` stays drift-free"), however often the
\* upgrade was interrupted and repeated.  One thing alone breaks it, a downgrade
\* from the head that is under way or did not finish.
HeadMeansIndexed ==
  schema.revision = "82d0b9d6d764" =>
    \/ \A n \in Names : index[n] = "valid"
    \/ holed
    \/ pc # "idle" /\ goal # "82d0b9d6d764"

-----------------------------------------------------------------------------
(***************************************************************************)
(* The inductive invariant behind them                                      *)
(***************************************************************************)

\* What the open transaction may differ in from what is committed.
PendingInv ==
  /\ pc \in {"create_tables", "build_indexes", "drop_indexes"} => pending = schema
  /\ pc = "create_tables" => schema.revision = "base"
  /\ pc = "create_extension" =>
       /\ pending.revision = "e606788ed467" /\ pending.tables
       /\ schema.revision # "82d0b9d6d764"
  /\ pc = "build_indexes" => schema.revision = "e606788ed467" /\ schema.extension
  /\ pc = "drop_indexes" => schema.revision = "82d0b9d6d764"
  /\ pc = "drop_tables" => schema.revision # "base"

\* The loops work through the names in order.
BuiltInv ==
  /\ pc = "build_indexes" => \A i \in 1 .. built : index[TrigramIndexes[i]] = "valid"
  /\ pc = "drop_indexes" => \A i \in 1 .. built : index[TrigramIndexes[i]] = "absent"
  /\ pc \in {"create_tables", "create_extension", "build_indexes"} => goal = "82d0b9d6d764"
  /\ pc \in {"drop_indexes", "drop_tables"} => goal # "82d0b9d6d764"
  /\ pc \in {"create_tables", "create_extension"} => built = 0

MInv == TypeOK /\ SchemaFollowsRevision /\ HeadMeansIndexed /\ PendingInv /\ BuiltInv
=============================================================================
