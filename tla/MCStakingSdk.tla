---------------------------- MODULE MCStakingSdk ----------------------------
(* TLC instance of StakingSdk. *)
EXTENDS StakingSdk, TLC

CONSTANTS large, small, claim, stake

MCCalls == {large, small, claim, stake}
MCOp == large :> "delegate" @@ small :> "delegate" @@ claim :> "claimRewards" @@ stake :> "stake"
MCAmount == [c \in MCCalls |-> IF c = large THEN 2 ELSE 1]
=============================================================================
