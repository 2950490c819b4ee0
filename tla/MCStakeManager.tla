--------------------------- MODULE MCStakeManager ---------------------------
(* TLC instance of StakeManager on its own. *)
EXTENDS StakeManager, TLC
=============================================================================
