---------------------------- MODULE StakeManager ----------------------------
(***************************************************************************)
(* staking/stakeManager.sol: indexers lock SPY as self-stake, queue part   *)
(* of it for unstaking and withdraw after the unbonding period.            *)
(*                                                                         *)
(* stake and queueUnstake end with a call of the linked DelegationManager's *)
(* hooks.  No contract of the repository implements them; they are taken   *)
(* to succeed and to leave this contract's state alone.  A transaction     *)
(* runs to completion or reverts: what reverts is a guard.                 *)
(***************************************************************************)
EXTENDS Naturals, Tally

CONSTANTS
    Indexers,        \* accounts that stake
    UnbondingPeriod, \* unbondingPeriod, in units of block time
    InitialWallet,   \* SPY each indexer starts with
    Amounts,         \* amounts passed to stake and queueUnstake
    MaxTime          \* bound: blocks are mined up to this timestamp

ASSUME IndexersAssumption == IsFiniteSet(Indexers)
ASSUME ParametersAssumption ==
    /\ UnbondingPeriod \in Nat
    /\ InitialWallet \in Nat
    /\ Amounts \subseteq Nat
    /\ MaxTime \in Nat

VARIABLES
    stakes,   \* stakes[i] = [amount, lockedUntil]
    wallet,   \* wallet[i], the SPY i holds
    balance,  \* the SPY this contract holds
    now,      \* block.timestamp
    queued,   \* history: queued[i], SPY i has queued since its last withdraw
    stranded, \* history: SPY that was queued when a withdraw ended its queue
    queuedAt  \* history: queuedAt[i], the time of i's last queueUnstake

vars == <<stakes, wallet, balance, now, queued, stranded, queuedAt>>

TypeOK ==
    /\ stakes \in [Indexers -> [amount : Nat, lockedUntil : Nat]]
    /\ wallet \in [Indexers -> Nat]
    /\ balance \in Nat
    /\ now \in Nat
    /\ queued \in [Indexers -> Nat]
    /\ stranded \in Nat
    /\ queuedAt \in [Indexers -> Nat]

\* Time starts above 0: lockedUntil = 0 is the contract's "nothing queued", and
\* no block has the timestamp 0.
Init ==
    /\ stakes = [i \in Indexers |-> [amount |-> 0, lockedUntil |-> 0]]
    /\ wallet = [i \in Indexers |-> InitialWallet]
    /\ balance = 0
    /\ now = 1
    /\ queued = [i \in Indexers |-> 0]
    /\ stranded = 0
    /\ queuedAt = [i \in Indexers |-> 0]

-----------------------------------------------------------------------------
\* Faults a change to the contract could bring in; they are no part of Spec.
FaultyMayQueue(s, amount) == amount > 0
FaultyLocked(s, amount, unlock) ==
    [amount      |-> s.amount - amount,
     lockedUntil |-> IF s.lockedUntil # 0 THEN s.lockedUntil ELSE unlock]
FaultyEmptied(s) == [s EXCEPT !.lockedUntil = 0]

MayQueue(s, amount) == amount > 0 /\ amount <= s.amount

\* A stake after `amount` of it is queued: the lock can only move back.
Locked(s, amount, unlock) ==
    [amount      |-> s.amount - amount,
     lockedUntil |-> IF unlock > s.lockedUntil THEN unlock ELSE s.lockedUntil]

Emptied(s) == [amount |-> 0, lockedUntil |-> 0]

\* stake(amount).
Stake(i, amount) ==
    /\ amount > 0
    /\ wallet[i] >= amount
    /\ stakes' = [stakes EXCEPT ![i] =
           [amount |-> @.amount + amount, lockedUntil |-> @.lockedUntil]]
    /\ wallet' = [wallet EXCEPT ![i] = @ - amount]
    /\ balance' = balance + amount
    /\ UNCHANGED <<now, queued, stranded, queuedAt>>

\* queueUnstake(amount): the amount leaves the stake, and nothing but the lock
\* remembers it.
QueueUnstake(i, amount) ==
    /\ MayQueue(stakes[i], amount)
    /\ stakes' = [stakes EXCEPT ![i] = Locked(@, amount, now + UnbondingPeriod)]
    /\ queued' = [queued EXCEPT ![i] = @ + amount]
    /\ queuedAt' = [queuedAt EXCEPT ![i] = now]
    /\ UNCHANGED <<wallet, balance, now, stranded>>

\* withdraw(): pays stakes[i].amount, what is still staked.
Withdraw(i) ==
    LET s == stakes[i]
    IN  /\ s.lockedUntil # 0
        /\ now >= s.lockedUntil
        /\ balance >= s.amount
        /\ stakes' = [stakes EXCEPT ![i] = Emptied(@)]
        /\ wallet' = [wallet EXCEPT ![i] = @ + s.amount]
        /\ balance' = balance - s.amount
        /\ queued' = [queued EXCEPT ![i] = 0]
        /\ stranded' = stranded + queued[i]
        /\ UNCHANGED <<now, queuedAt>>

\* A block with a later timestamp is mined.
Tick ==
    /\ now < MaxTime
    /\ now' = now + 1
    /\ UNCHANGED <<stakes, wallet, balance, queued, stranded, queuedAt>>

Next ==
    \/ \E i \in Indexers :
          \/ \E amount \in Amounts : Stake(i, amount) \/ QueueUnstake(i, amount)
          \/ Withdraw(i)
    \/ Tick

Spec == Init /\ [][Next]_vars

-----------------------------------------------------------------------------
(* What the contract keeps.                                                *)

Staked == Tally([i \in Indexers |-> stakes[i].amount], Indexers)
Queued == Tally(queued, Indexers)

\* The contract holds every stake and every queued token in full, and beside
\* them the queued tokens of past withdrawals: withdraw ends a queue without
\* paying it, and no sequence of calls ever pays those tokens out.
StakesBacked == balance = Staked + Queued + stranded

PaysUnbonded ==
    \A i \in Indexers :
        wallet'[i] > wallet[i] => now >= queuedAt[i] + UnbondingPeriod

\* Nothing is paid until a full unbonding period after the indexer's last
\* queueUnstake.
ExitAfterUnbonding == [][PaysUnbonded]_vars

-----------------------------------------------------------------------------
(* What the repository says of the contract and the code does not keep.    *)

\* The contract "handles indexer self-stake and withdrawal queue"
\* (stakeManager.sol:14): what was queued is paid by the withdrawal.
PaysQueued ==
    [][\A i \in Indexers : Withdraw(i) => wallet'[i] >= wallet[i] + queued[i]]_vars
=============================================================================
