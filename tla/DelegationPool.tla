--------------------------- MODULE DelegationPool ---------------------------
(***************************************************************************)
(* delegation/delegationPool.sol: delegators bond SPY to an indexer for    *)
(* pool shares, undelegate into a time-locked withdrawal queue, and claim  *)
(* the rewards their indexer has earned.                                   *)
(*                                                                         *)
(* Every external function is nonReentrant and the EVM runs a transaction  *)
(* to completion or reverts it, so one transaction is one action, and what *)
(* reverts is a guard.  The environment is part of the model: the indexers *)
(* move their self-stake in StakeManager, rewards accrue to indexers in    *)
(* the rewards contract, and blocks move time forward.  pullRewards has no *)
(* implementation in the repository; it is modelled from its call and the  *)
(* comment beside it: it moves everything claimable for the indexer into   *)
(* this contract and returns that amount.                                  *)
(*                                                                         *)
(* Delegators have given the pool an unlimited allowance, as the           *)
(* repository's tests do.  uint256 overflow is out of reach: the whole     *)
(* token supply is capped at 10^27 base units.                             *)
(***************************************************************************)
EXTENDS ShareMath, Tally

CONSTANTS
    Delegators,       \* accounts that delegate
    Indexers,         \* accounts that are delegated to
    CapacityMultiple, \* CAPACITY_MULTIPLE, 16 in the code
    UnbondingPeriod,  \* stakeManager.unbondingPeriod()
    InitialWallet,    \* SPY each delegator starts with
    RewardBudget,     \* SPY that will ever accrue as rewards
    DepositAmounts,   \* amounts passed to delegate
    ShareAmounts,     \* share counts passed to undelegate
    RewardAmounts,    \* amounts in which rewards accrue
    StakeLevels,      \* self-stakes an indexer moves between
    MaxTime           \* bound: blocks are mined up to this timestamp

ASSUME HoldersAssumption == IsFiniteSet(Delegators) /\ IsFiniteSet(Indexers)
ASSUME ParametersAssumption ==
    /\ CapacityMultiple \in Nat
    /\ UnbondingPeriod \in Nat
    /\ InitialWallet \in Nat
    /\ RewardBudget \in Nat
    /\ MaxTime \in Nat
ASSUME InputsAssumption ==
    /\ DepositAmounts \subseteq Nat
    /\ ShareAmounts \subseteq Nat
    /\ RewardAmounts \subseteq Nat
    /\ StakeLevels \subseteq Nat

VARIABLES
    pools,       \* pools[i] = [tokens, shares], the metadata of i's pool
    sharesOf,    \* sharesOf[d][i], the shares d holds in i's pool
    withdrawals, \* withdrawals[d] = [amount, unlockTime], d's queued exit
    wallet,      \* wallet[d], the SPY d holds
    balance,     \* the SPY this contract holds
    claimable,   \* claimable[i], rewards of i not pulled yet   (environment)
    feesLeft,    \* rewards that have not accrued yet           (environment)
    selfStake,   \* selfStake[i], i's stake in StakeManager     (environment)
    now,         \* block.timestamp                             (environment)
    claimed,     \* history: SPY paid out by claimRewards so far
    exitedAt     \* history: exitedAt[d], the time of d's last undelegate

vars == <<pools, sharesOf, withdrawals, wallet, balance, claimable, feesLeft,
          selfStake, now, claimed, exitedAt>>

environment == <<claimable, feesLeft, selfStake, now>>

TypeOK ==
    /\ pools \in [Indexers -> [tokens : Nat, shares : Nat]]
    /\ sharesOf \in [Delegators -> [Indexers -> Nat]]
    /\ withdrawals \in [Delegators -> [amount : Nat, unlockTime : Nat]]
    /\ wallet \in [Delegators -> Nat]
    /\ balance \in Nat
    /\ claimable \in [Indexers -> Nat]
    /\ feesLeft \in Nat
    /\ selfStake \in [Indexers -> Nat]
    /\ now \in Nat
    /\ claimed \in Nat
    /\ exitedAt \in [Delegators -> Nat]

Init ==
    /\ pools = [i \in Indexers |-> [tokens |-> 0, shares |-> 0]]
    /\ sharesOf = [d \in Delegators |-> [i \in Indexers |-> 0]]
    /\ withdrawals = [d \in Delegators |-> [amount |-> 0, unlockTime |-> 0]]
    /\ wallet = [d \in Delegators |-> InitialWallet]
    /\ balance = 0
    /\ claimable = [i \in Indexers |-> 0]
    /\ feesLeft = RewardBudget
    /\ selfStake \in [Indexers -> StakeLevels]
    /\ now = 0
    /\ claimed = 0
    /\ exitedAt = [d \in Delegators |-> 0]

-----------------------------------------------------------------------------
(* The contract's functions.                                               *)

\* Faults a change to the contract could bring in, each of which breaks one of
\* the properties below; they are no part of Spec.
FaultyBurn(p, shares, amountOut) == [p EXCEPT !.tokens = @ - amountOut]
FaultyMayBurn(d, i, shares) == 0 < shares
FaultyQueued(w, amountOut, unlock) ==
    [amount |-> amountOut, unlockTime |-> unlock]
FaultyLater(s, t) == IF t # 0 THEN t ELSE s
FaultyRewardShare(held, total, newRewards, issued) ==
    AmountForShares(held, total, issued)
FaultyLocks(s, t) == s + t

Later(s, t) == IF s > t THEN s ELSE t

MayBurn(d, i, shares) == 0 < shares /\ shares <= sharesOf[d][i]

\* Rewards enter a pool as a deposit that mints no shares.
Mint(p, amount, shares) ==
    [tokens |-> p.tokens + amount, shares |-> p.shares + shares]

Burn(p, shares, amountOut) ==
    [tokens |-> p.tokens - amountOut, shares |-> p.shares - shares]

\* A second request adds to the amount already queued and can only push the
\* unlock time back.
Queued(w, amountOut, unlock) ==
    [amount |-> w.amount + amountOut, unlockTime |-> Later(unlock, w.unlockTime)]

PaidOut(w) == [amount |-> 0, unlockTime |-> 0]

\* What claimRewards owes the holder of `held` shares when the pool has just
\* grown to `total` tokens by pulling `newRewards`.
RewardShare(held, total, newRewards, issued) ==
    AmountForShares(held, total, issued)
    - AmountForShares(held, total - newRewards, issued)

\* delegate(indexer, amount): bond tokens for shares, within the capacity.
\* The third guard is the division in sharesForAmount, the last one the
\* token's own balance check in transferFrom.
Delegate(d, i, amount) ==
    LET p      == pools[i]
        minted == SharesForAmount(amount, p.tokens, p.shares)
    IN  /\ amount > 0
        /\ p.tokens + amount <= selfStake[i] * CapacityMultiple
        /\ p.shares # 0 => p.tokens # 0
        /\ wallet[d] >= amount
        /\ pools' = [pools EXCEPT ![i] = Mint(p, amount, minted)]
        /\ sharesOf' = [sharesOf EXCEPT ![d][i] = @ + minted]
        /\ wallet' = [wallet EXCEPT ![d] = @ - amount]
        /\ balance' = balance + amount
        /\ UNCHANGED <<withdrawals, claimed, exitedAt, environment>>

\* undelegate(indexer, shares): burn shares and queue their worth behind the
\* unbonding period, in the one withdrawal slot the delegator has.
Undelegate(d, i, shares) ==
    LET p         == pools[i]
        amountOut == AmountForShares(shares, p.tokens, p.shares)
    IN  /\ MayBurn(d, i, shares)
        /\ now + UnbondingPeriod <= MaxTime      \* bound: exits unlock in time
        /\ p.shares # 0
        /\ p.tokens >= amountOut /\ p.shares >= shares
        /\ sharesOf' = [sharesOf EXCEPT ![d][i] = @ - shares]
        /\ pools' = [pools EXCEPT ![i] = Burn(p, shares, amountOut)]
        /\ withdrawals' = [withdrawals EXCEPT ![d] =
               Queued(@, amountOut, now + UnbondingPeriod)]
        /\ exitedAt' = [exitedAt EXCEPT ![d] = now]
        /\ UNCHANGED <<wallet, balance, claimed, environment>>

\* withdraw(): pay the queued amount once it is unlocked.
Withdraw(d) ==
    LET w == withdrawals[d]
    IN  /\ w.amount > 0
        /\ now >= w.unlockTime
        /\ balance >= w.amount
        /\ withdrawals' = [withdrawals EXCEPT ![d] = PaidOut(@)]
        /\ wallet' = [wallet EXCEPT ![d] = @ + w.amount]
        /\ balance' = balance - w.amount
        /\ UNCHANGED <<pools, sharesOf, claimed, exitedAt, environment>>

\* claimRewards(indexer): pull what the indexer has earned into the pool and
\* pay the caller's part of it.  The pool keeps the whole of newRewards on its
\* books; the payment is taken from the contract's balance only.
ClaimRewards(d, i) ==
    LET held       == sharesOf[d][i]
        newRewards == claimable[i]
        total      == pools[i].tokens + newRewards
        issued     == pools[i].shares
        owed       == RewardShare(held, total, newRewards, issued)
    IN  /\ held > 0
        /\ issued # 0
        /\ owed > 0
        /\ balance + newRewards >= owed
        /\ pools' = [pools EXCEPT ![i] = Mint(@, newRewards, 0)]
        /\ claimable' = [claimable EXCEPT ![i] = 0]
        /\ balance' = (balance + newRewards) - owed
        /\ wallet' = [wallet EXCEPT ![d] = @ + owed]
        /\ claimed' = claimed + owed
        /\ UNCHANGED <<sharesOf, withdrawals, feesLeft, selfStake, now,
                       exitedAt>>

-----------------------------------------------------------------------------
(* The environment.                                                        *)

contract == <<pools, sharesOf, withdrawals, wallet, balance, claimed, exitedAt>>

\* Query fees or inflation become claimable for an indexer.
AccrueRewards(i, amount) ==
    /\ 0 < amount /\ amount <= feesLeft
    /\ claimable' = [claimable EXCEPT ![i] = @ + amount]
    /\ feesLeft' = feesLeft - amount
    /\ UNCHANGED <<contract, selfStake, now>>

\* The indexer stakes, unstakes or is slashed in StakeManager.
SetSelfStake(i, amount) ==
    /\ amount # selfStake[i]
    /\ selfStake' = [selfStake EXCEPT ![i] = amount]
    /\ UNCHANGED <<contract, claimable, feesLeft, now>>

\* A block with a later timestamp is mined.
Tick ==
    /\ now < MaxTime
    /\ now' = now + 1
    /\ UNCHANGED <<contract, claimable, feesLeft, selfStake>>

Next ==
    \/ \E d \in Delegators, i \in Indexers :
          \/ \E amount \in DepositAmounts : Delegate(d, i, amount)
          \/ \E shares \in ShareAmounts : Undelegate(d, i, shares)
          \/ ClaimRewards(d, i)
    \/ \E d \in Delegators : Withdraw(d)
    \/ \E i \in Indexers :
          \/ \E amount \in RewardAmounts : AccrueRewards(i, amount)
          \/ \E amount \in StakeLevels : SetSelfStake(i, amount)
    \/ Tick

Spec == Init /\ [][Next]_vars

\* Fairness: blocks keep coming, and a delegator whose exit is unlocked calls
\* withdraw in the end.  Nothing makes anybody call the other functions.
FairSpec == Spec /\ WF_vars(Tick) /\ \A d \in Delegators : WF_vars(Withdraw(d))

PaysUnbonded ==
    \A d \in Delegators :
        withdrawals'[d].amount < withdrawals[d].amount
            => now >= exitedAt[d] + UnbondingPeriod

-----------------------------------------------------------------------------
(* What the contract keeps.                                                *)

\* The shares delegators hold, and what the contract owes in all.
Held(i) == Tally([d \in Delegators |-> sharesOf[d][i]], Delegators)
Pooled  == Tally([i \in Indexers |-> pools[i].tokens], Indexers)
Pending == Tally([d \in Delegators |-> withdrawals[d].amount], Delegators)
Accrued == Tally(claimable, Indexers)

\* Every share a pool has issued is in the hands of a delegator, over any
\* sequence of delegate and undelegate calls by any of them.
SharesAccounted == \A i \in Indexers : pools[i].shares = Held(i)

\* The contract's SPY is what its pools and its withdrawal queue record, less
\* exactly what claimRewards has paid, which no record reflects.
Backed == balance + claimed = Pooled + Pending

\* A pool never holds tokens nobody owns or issues shares worth nothing, and a
\* share is never worth less than the token it was minted for; so the divisions
\* in sharesForAmount and amountForShares are defined whenever they are reached
\* and the checked subtractions of undelegate never revert.
PoolsPriced ==
    \A i \in Indexers :
        /\ pools[i].tokens >= pools[i].shares
        /\ pools[i].shares = 0 => pools[i].tokens = 0

\* Claims never exceed the rewards pulled for them, whatever the rounding of
\* the two divisions in claimRewards; so what the contract owes beyond its
\* balance is at most the rewards it has received.
ClaimsWithinRewards == claimed + feesLeft + Accrued <= RewardBudget

\* Every pool is a share vault: whatever the other delegators, the queue, the
\* rewards and the self-stake do, shares are bought and redeemed at the price of
\* their pool, rounded against the caller by less than a unit, the last exit
\* takes all that is left, and nothing else but rewards changes a pool.
Vault == INSTANCE ShareVault WITH Vaults <- Indexers, vaults <- pools
PoolsAreVaults == Vault!Spec

\* No tokens leave the queue before a full unbonding period has passed since
\* the delegator's last undelegate, from whichever indexer that was.
UnbondingRespected == [][PaysUnbonded]_vars

\* Every queued exit is paid in the end, unless claims have left the contract
\* without the SPY for it.
ExitsPaid ==
    \A d \in Delegators :
        withdrawals[d].amount > 0
            ~> withdrawals[d].amount = 0 \/ balance < withdrawals[d].amount

-----------------------------------------------------------------------------
(* What the repository says of the contract and the code does not keep.    *)

\* The contract can pay what its pools and its queue say it owes
\* (delegationPool.sol:130, "Finalise withdrawal once unbonding period
\* elapses").
Solvent == balance >= Pooled + Pending
=============================================================================
