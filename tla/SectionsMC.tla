----------------------------- MODULE SectionsMC -----------------------------
(***************************************************************************)
(* The instances of Sections that TLC checks: "a%" searched in small tables  *)
(* of rows that hold it, rows that hold "Ab", and rows out of sight.         *)
(***************************************************************************)
EXTENDS Sections

Me    == "ana"
Other == "pedro"

Absent == [x \in Ids |-> NoRow]

Found   == <<"a", "%">>
Similar == <<"A", "b">>

EntityRows == {[type |-> "pessoa", name |-> Found], [type |-> "pessoa", name |-> Similar],
               [type |-> "veiculo", name |-> Found]}
CaseRows   == {[title |-> Found, assigned_to |-> Me], [title |-> Similar, assigned_to |-> Me],
               [title |-> Found, assigned_to |-> Other]}
ReportRows == {[title |-> t, content |-> c, month |-> "2026-03"] :
                 t \in {Found, Similar}, c \in {Found, Similar}}

\* Both sections with every choice of rows that are in sight and rows that are not.
WalkStarts ==
  {[reports |-> [Absent EXCEPT ![1] = [title |-> Similar, content |-> Found, month |-> "2026-03"],
                               ![2] = [title |-> Similar, content |-> Similar, month |-> "2026-04"]],
    entities |-> e, cases |-> c] :
      e \in [Ids -> {r \in EntityRows : r.name = Found}],
      c \in [Ids -> {r \in CaseRows : r.title = Found}]}

RowsWritten == [reports |-> ReportRows, entities |-> EntityRows, cases |-> CaseRows]

AllApps == [i \in DOMAIN KnownClients |-> AppOf[KnownClients[i]]]
Searchable == {"pessoa", "empresa", "transacao", "documento"}
=============================================================================
