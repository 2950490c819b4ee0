----------------------------- MODULE ShareMath -----------------------------
(***************************************************************************)
(* The share arithmetic of the delegation pool: the two functions of the   *)
(* ShareMath library in delegation/delegationPool.sol.  Solidity's         *)
(* division truncates, as \div does on naturals.  The divisor is never     *)
(* defaulted: callers state the guard under which the division is defined, *)
(* because Solidity reverts on a zero divisor.                             *)
(*                                                                         *)
(* delegation/libraries/shareMath.sol is a second library of this name,    *)
(* which no contract imports.  It differs where a pool with shares has no  *)
(* tokens; DelegationPoolProofs shows that there is no such pool.          *)
(***************************************************************************)
EXTENDS Naturals

\* Faults for the checks of the modules that use these: shares minted one for one
\* whatever the price, and at the inverse of the price.
FaultyShares(amount, pool, totalShares) == amount
FaultyPrice(amount, pool, totalShares) ==
    IF totalShares = 0 THEN amount ELSE (amount * pool) \div totalShares

\* Shares minted for a deposit of `amount` into a pool of `pool` tokens that
\* has issued `totalShares` shares: one for one into a pool with no shares.
SharesForAmount(amount, pool, totalShares) ==
    IF totalShares = 0 THEN amount ELSE (amount * totalShares) \div pool

\* Tokens that `shares` of the `totalShares` issued are worth.
AmountForShares(shares, pool, totalShares) == (shares * pool) \div totalShares

\* The other library.
AmountToShares(amount, pool, totalShares) ==
    IF totalShares = 0 \/ pool = 0 THEN amount ELSE (amount * totalShares) \div pool

SharesToAmount(shares, pool, totalShares) == (shares * pool) \div totalShares
=============================================================================
