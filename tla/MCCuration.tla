----------------------------- MODULE MCCuration -----------------------------
(* TLC instance of Curation. *)
EXTENDS Curation, TLC

CONSTANTS v1, v2

\* The upgrade governance means to make, back to the old version, and, because
\* migrateVersion does not compare its arguments, of a version to itself.
MCUpgrades == {<<v1, v2>>, <<v2, v1>>, <<v1, v1>>}

Symmetry == Permutations(Curators)
=============================================================================
