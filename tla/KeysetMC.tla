------------------------------ MODULE KeysetMC ------------------------------
(***************************************************************************)
(* The instances of Keyset that TLC checks: four ids give three pages of    *)
(* size one with a lookahead row, and rows on both sides of every cursor.   *)
(***************************************************************************)
EXTENDS Keyset
=============================================================================
