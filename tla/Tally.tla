------------------------------- MODULE Tally -------------------------------
(***************************************************************************)
(* Sums of natural-valued functions, used to state the conservation laws   *)
(* of the contracts' ledgers.                                              *)
(*                                                                         *)
(* A sum is counted rather than folded: every unit held by every holder is *)
(* one element of a set, and the total is the size of that set.  TLC       *)
(* evaluates it as it stands, and facts about it follow from facts about   *)
(* finite cardinalities, with no induction over the holders.               *)
(***************************************************************************)
EXTENDS Naturals, FiniteSets

\* The units recorded by f for the members of S.
Units(f, S) == UNION {{x} \X (1 .. f[x]) : x \in S}

\* The sum of f[x] over the x in S, for f : S -> Nat and S finite.
Tally(f, S) == Cardinality(Units(f, S))
=============================================================================
