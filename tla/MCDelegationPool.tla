-------------------------- MODULE MCDelegationPool --------------------------
(* TLC instance of DelegationPool: the constants are given in the .cfg files. *)
EXTENDS DelegationPool, TLC
=============================================================================
