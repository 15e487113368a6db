---------------------------- MODULE AdmissionMC ----------------------------
(***************************************************************************)
(* The requests TLC sends through the door: tokens of the mock realm and    *)
(* forged ones.                                                             *)
(***************************************************************************)
EXTENDS Door, Users

RolesOf(S) == [kind |-> "roles", roles |-> S]
AnyEntry == {[kind |-> "absent", roles |-> {}], [kind |-> "malformed", roles |-> {}],
             RolesOf({"viewer"}), RolesOf({"viewer", "search"})}

Tokens ==
  {[header |-> h, jwt |-> j, azp |-> a, sub |-> "uuid", access |-> [dict |-> d, entry |-> e]] :
     h \in {"absent", "bearer"}, j \in {"expired", "valid"},
     a \in {"investigator-api", Elsewhere, "Unhashable"}, d \in BOOLEAN,
     e \in [Clients \cup {Elsewhere} -> AnyEntry]}

GoodToken == [header |-> "bearer", jwt |-> "valid", azp |-> "investigator-api", sub |-> "text",
              access |-> [dict |-> TRUE,
                          entry |-> [c \in Clients \cup {Elsewhere} |->
                                       RolesOf(IF c = "analytics-api" THEN {} ELSE {"search"})]]]

Texts(chars, n) == UNION {[1 .. k -> chars] : k \in 0 .. n}

\* Texts of two characters, just as many as allowed, one too many; with blanks.
Long(n) == [i \in 1 .. n |-> "a"]
Blanked(text) == <<Blank>> \o text \o <<Blank>>
Queries == {Blanked(<<"a", "A">>), Blanked(<<"a">>), Blanked(Long(200)), Long(201)}

GoodBody == [json |-> TRUE, query |-> <<"a", Percent>>, limit |-> 50, cursors |-> [n \in {} |-> "uuid"]]

Bodies ==
  {[GoodBody EXCEPT !.query = q, !.limit = l] : q \in Queries, l \in {0, 1, 51}}
  \cup {[GoodBody EXCEPT !.limit = l, !.cursors = c] :
          l \in {0, 50}, c \in UNION {[N -> {"uuid", "text"}] : N \in SUBSET CursorNames}}
  \cup {[GoodBody EXCEPT !.query = q] : q \in Texts({Escape, Blank, Percent, Underscore, "a", "A"}, 3)}

AllRequests ==
  [token : Tokens, body : {GoodBody, [GoodBody EXCEPT !.json = FALSE]}]
  \cup [token : {GoodToken}, body : Bodies]
  \cup [token : ScriptTokens, body : {GoodBody}]

ShortTexts == Texts({Escape, Percent, Underscore, "a"}, 3)
=============================================================================
