-------------------------- MODULE MCIngestionRuns --------------------------
(***************************************************************************)
(* Two interchangeable countries: the table mixes their rows.              *)
(***************************************************************************)
EXTENDS IngestionRuns, TLC

MCSymmetry == Permutations(Countries)
=============================================================================
