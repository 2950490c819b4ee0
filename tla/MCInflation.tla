---------------------------- MODULE MCInflation ----------------------------
(* TLC instance of Inflation. *)
EXTENDS Inflation, TLC

Symmetry == Permutations(Keepers)
=============================================================================
