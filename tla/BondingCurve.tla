---------------------------- MODULE BondingCurve ----------------------------
(***************************************************************************)
(* curation/libraries/bondingCurve.sol: the curve every AI-Graph's signal  *)
(* is priced by.  Despite the comment's "constant-product" the price is    *)
(* the average one: shares are minted and burned in proportion.            *)
(***************************************************************************)
EXTENDS Naturals

\* mint: the first deposit is one for one, later ones at the curve's price.
CurveMint(deposit, poolBalance, totalShares) ==
    IF totalShares = 0 THEN deposit
                       ELSE (deposit * totalShares) \div poolBalance

\* burn: the part of the balance the shares stand for.
CurveBurn(shares, poolBalance, totalShares) ==
    (shares * poolBalance) \div totalShares
=============================================================================
