------------------------------ MODULE Staking -------------------------------
(***************************************************************************)
(* The staking stack: StakeManager with staking/slashingManager.sol, where *)
(* challenges against an indexer's stake are opened and resolved, and      *)
(* staking/delegationManager.sol, which admits delegations up to a         *)
(* multiple of the indexer's stake.  Both read selfStakeOf.                *)
(*                                                                         *)
(* External: StakeManager has no forceSlash.  As SlashingManager calls it, *)
(* it takes the penalty from the indexer's stake, reverts when there is    *)
(* less, and pays the challenger.  The manager inherits Pausable and never *)
(* pauses.  A challenge that was never opened has the timestamp 0 and is   *)
(* too late for any block.                                                 *)
(***************************************************************************)
EXTENDS StakeManager

CONSTANTS
    Challengers,       \* accounts that open challenges
    Evidence,          \* evidence URIs
    SlashPercent,      \* SLASH_PERCENT, 250 of 10 000
    Window,            \* CHALLENGE_WINDOW, in units of block time
    Delegators,        \* accounts that delegate
    CapacityMultiple,  \* CAPACITY_MULTIPLE, 16
    Purse,             \* SPY each delegator starts with
    DelegationAmounts, \* amounts passed to delegate and undelegate
    MaxOpenings        \* bound: calls of openChallenge

ASSUME DelegatorsAssumption == IsFiniteSet(Delegators)
ASSUME StackAssumption ==
    /\ SlashPercent \in 0..10000
    /\ Window \in Nat
    /\ CapacityMultiple \in Nat
    /\ Purse \in Nat
    /\ DelegationAmounts \subseteq Nat \ {0}
    /\ MaxOpenings \in Nat

VARIABLES
    challenges,      \* challenges[id] = [stakeAtRisk, resolved], by id
    delegatedStake,  \* delegatedStake[i], per indexer
    delegatorShares, \* delegatorShares[d], per delegator
    delegated,       \* the SPY the DelegationManager holds
    purse,           \* purse[d], the SPY d holds
    peak,            \* history: the largest stake i has had
    wave,            \* history: challenges opened against i since it last had none
    escaped,         \* history: i has taken stake out since it last had none
    slashed,         \* history: SPY taken from i by slashes
    atRisk,          \* history: penalties of all challenges opened against i
    openings         \* history: the calls of openChallenge so far

slashing == <<challenges, slashed, atRisk, openings>>
delegation == <<delegatedStake, delegatorShares, delegated, purse>>
history == <<wave, escaped>>
stack == <<vars, slashing, delegation, peak, history>>

StackInit ==
    /\ Init
    /\ challenges = <<>>
    /\ delegatedStake = [i \in Indexers |-> 0]
    /\ delegatorShares = [d \in Delegators |-> 0]
    /\ delegated = 0
    /\ purse = [d \in Delegators |-> Purse]
    /\ peak = [i \in Indexers |-> 0]
    /\ wave = [i \in Indexers |-> 0]
    /\ escaped = [i \in Indexers |-> FALSE]
    /\ slashed = [i \in Indexers |-> 0]
    /\ atRisk = [i \in Indexers |-> 0]
    /\ openings = 0

-----------------------------------------------------------------------------
\* Faults a change to the contracts could bring in; they are no part of the
\* specification.
FaultyInTime(id) == now >= id.timestamp
FaultyPenalty(stakeAtRisk) == (stakeAtRisk * SlashPercent) \div 5000
FaultyResolved(c) == c
FaultyAtRisk(i) == stakes[i].amount + queued[i]
FaultyFits(i, amount) == delegatedStake[i] <= stakes[i].amount * CapacityMultiple
FaultyDelegationShares(i, amount) ==
    IF delegatedStake[i] = 0 THEN amount
    ELSE (amount * delegatedStake[i]) \div (delegatedStake[i] + amount)
-----------------------------------------------------------------------------
(* The challenges that are open: not resolved, and within their window.    *)

Live(id) == ~ challenges[id].resolved /\ now <= id.timestamp + Window

\* No challenge against i is open.
Calm(i) == \A id \in DOMAIN challenges : id.indexer = i => ~ Live(id)

\* What the histories record of a step that opens a challenge against each
\* indexer of `against` and in which those of `leaving` take stake out.
Watch(against, leaving) ==
    /\ wave' = [i \in Indexers |->
           IF Calm(i)' THEN 0 ELSE wave[i] + (IF i \in against THEN 1 ELSE 0)]
    /\ escaped' = [i \in Indexers |->
           ~ Calm(i)' /\ (escaped[i] \/ i \in leaving)]

-----------------------------------------------------------------------------
(* StakeManager.                                                           *)

StakeStep ==
    /\ Next
    /\ peak' = [i \in Indexers |->
           IF stakes'[i].amount > peak[i] THEN stakes'[i].amount ELSE peak[i]]
    /\ UNCHANGED <<slashing, delegation>>
    /\ Watch({}, {i \in Indexers : stakes'[i].amount < stakes[i].amount})

-----------------------------------------------------------------------------
(* SlashingManager.                                                        *)

\* SLASH_PERCENT is in basis points; the division rounds down.
Penalty(stakeAtRisk) == (stakeAtRisk * SlashPercent) \div 10000

\* The stake a challenge is opened against: selfStakeOf.
AtRisk(i) == stakes[i].amount

\* The id is made of the indexer, the sender, the evidence and the block time:
\* a challenge with the id of another replaces it.
OpenChallenge(i, c, evidence) ==
    LET id == [indexer |-> i, challenger |-> c, evidence |-> evidence, timestamp |-> now]
    IN  /\ openings < MaxOpenings
        /\ AtRisk(i) > 0
        /\ challenges' = [x \in DOMAIN challenges \cup {id} |->
               IF x = id THEN [stakeAtRisk |-> AtRisk(i), resolved |-> FALSE]
               ELSE challenges[x]]
        /\ atRisk' = [atRisk EXCEPT ![i] = @ + Penalty(AtRisk(i))]
        /\ openings' = openings + 1
        /\ UNCHANGED <<vars, delegation, peak, slashed>>
        /\ Watch({i}, {})

Resolved(c) == [c EXCEPT !.resolved = TRUE]

\* StakeManager.forceSlash.
ForceSlash(i, penalty) ==
    /\ stakes[i].amount >= penalty
    /\ balance >= penalty
    /\ stakes' = [stakes EXCEPT ![i].amount = @ - penalty]
    /\ balance' = balance - penalty
    /\ slashed' = [slashed EXCEPT ![i] = @ + penalty]
    /\ UNCHANGED <<wallet, now, queued, stranded, queuedAt>>

InTime(id) == now <= id.timestamp + Window

\* slash(id, valid).
Slash(id, valid) ==
    /\ ~ challenges[id].resolved
    /\ InTime(id)
    /\ challenges' = [challenges EXCEPT ![id] = Resolved(@)]
    /\ IF valid THEN ForceSlash(id.indexer, Penalty(challenges[id].stakeAtRisk))
       ELSE UNCHANGED <<vars, slashed>>
    /\ UNCHANGED <<delegation, peak, atRisk, openings>>
    /\ Watch({}, {})

-----------------------------------------------------------------------------
(* DelegationManager.                                                      *)

\* The capacity is CAPACITY_MULTIPLE times the stake of this moment.
Fits(i, amount) == delegatedStake[i] + amount <= stakes[i].amount * CapacityMultiple

DelegationShares(i, amount) ==
    IF delegatedStake[i] = 0 THEN amount
    ELSE (amount * delegatedStake[i]) \div delegatedStake[i]

Delegate(d, i, amount) ==
    /\ Fits(i, amount)
    /\ purse[d] >= amount
    /\ delegatorShares' = [delegatorShares EXCEPT ![d] = @ + DelegationShares(i, amount)]
    /\ delegatedStake' = [delegatedStake EXCEPT ![i] = @ + amount]
    /\ purse' = [purse EXCEPT ![d] = @ - amount]
    /\ delegated' = delegated + amount
    /\ UNCHANGED <<vars, slashing, peak, history>>

\* Nothing ties the shares to the indexer they were bought from.
Undelegate(d, i, amount) ==
    /\ delegatorShares[d] >= DelegationShares(i, amount)
    /\ delegatedStake[i] >= amount
    /\ delegated >= amount
    /\ delegatorShares' = [delegatorShares EXCEPT ![d] = @ - DelegationShares(i, amount)]
    /\ delegatedStake' = [delegatedStake EXCEPT ![i] = @ - amount]
    /\ purse' = [purse EXCEPT ![d] = @ + amount]
    /\ delegated' = delegated - amount
    /\ UNCHANGED <<vars, slashing, peak, history>>

StackNext ==
    \/ StakeStep
    \/ \E i \in Indexers :
          \/ \E c \in Challengers, e \in Evidence : OpenChallenge(i, c, e)
          \/ \E d \in Delegators, amount \in DelegationAmounts :
                Delegate(d, i, amount) \/ Undelegate(d, i, amount)
    \/ \E id \in DOMAIN challenges, valid \in BOOLEAN : Slash(id, valid)

StackSpec == StackInit /\ [][StackNext]_stack

-----------------------------------------------------------------------------
(* What the stack keeps.                                                   *)

\* An indexer loses no more than 2.5 % of the stake it had at each opening of a
\* challenge: none is charged twice, although one opened again in the same block
\* may be resolved again.
PenaltiesBounded == \A i \in Indexers : slashed[i] <= atRisk[i]

\* The penalties the open challenges against i may still cost it.
Outstanding(i) ==
    Tally([id \in DOMAIN challenges |->
              IF id.indexer = i /\ Live(id) THEN Penalty(challenges[id].stakeAtRisk) ELSE 0],
          DOMAIN challenges)

\* A slash fails for want of stake only if the indexer itself has taken stake
\* out while it was challenged: slashes alone leave enough to collect every
\* penalty still outstanding, all of them together, and a challenge whose
\* window is over costs nothing more.  This needs that no more challenges are
\* opened, from one moment without any to the next, than have penalties of a
\* whole stake (with SLASH_PERCENT 250, 40 challenges).
EscapesByExit ==
    \A i \in Indexers :
        ~ escaped[i] /\ wave[i] * SlashPercent <= 10000
            => Outstanding(i) <= stakes[i].amount

\* The delegations to an indexer never exceed the multiple of the largest stake
\* it has had; they may exceed that of its present stake.
WithinPeakCapacity == \A i \in Indexers : delegatedStake[i] <= CapacityMultiple * peak[i]

\* The DelegationManager holds what is delegated to the indexers, and the
\* delegators' shares add up to the same, whichever indexers they are spent on.
DelegationsBacked ==
    /\ delegated = Tally(delegatedStake, Indexers)
    /\ delegated = Tally(delegatorShares, Delegators)
=============================================================================
