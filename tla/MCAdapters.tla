----------------------------- MODULE MCAdapters -----------------------------
(* TLC instance of Adapters. *)
EXTENDS Adapters, TLC

Symmetry == Permutations(Nodes) \cup Permutations(Hashes) \cup
            Permutations(TaoTxs) \cup Permutations(RenderTxs) \cup Permutations(Values)
=============================================================================
