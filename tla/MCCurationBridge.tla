-------------------------- MODULE MCCurationBridge --------------------------
(* TLC instance of CurationBridge: the bounds are given in the .cfg files. *)
EXTENDS CurationBridge, TLC
=============================================================================
