----------------------------- MODULE MCStaking ------------------------------
(* TLC instance of Staking. *)
EXTENDS Staking, TLC

Symmetry == Permutations(Indexers) \cup Permutations(Delegators)
=============================================================================
