---------------------------- MODULE StakingProofs ----------------------------
(***************************************************************************)
(* Proofs, for every value of the constants, of the safety properties of   *)
(* StakeManager by itself, and then of the staking stack: what StakeManager*)
(* keeps, the other two contracts respect.                                 *)
(***************************************************************************)
EXTENDS Staking, LedgerLemmas

-----------------------------------------------------------------------------
(* StakeManager by itself.                                                 *)

\* While something is queued the lock is a full unbonding period after the
\* last queueUnstake.
LocksHold ==
    \A i \in Indexers :
        stakes[i].lockedUntil # 0
            => stakes[i].lockedUntil >= queuedAt[i] + UnbondingPeriod

IInv == TypeOK /\ StakesBacked /\ LocksHold

\* A change to one stake changes the staked total by as much.
LEMMA StakedChange ==
    ASSUME TypeOK, NEW i \in Indexers, NEW n \in [amount : Nat, lockedUntil : Nat],
           stakes' = [stakes EXCEPT ![i] = n]
    PROVE  /\ Staked \in Nat /\ Staked' \in Nat
           /\ Staked' + stakes[i].amount = Staked + n.amount
<1> DEFINE p == [y \in Indexers |-> stakes[y].amount]
           q == [y \in Indexers |-> stakes'[y].amount]
<1>1. /\ p \in [Indexers -> Nat] /\ q \in [Indexers -> Nat]
      /\ p[i] = stakes[i].amount /\ q[i] = n.amount
      /\ \A y \in Indexers \ {i} : p[y] = q[y]
  BY DEF TypeOK
<1>2. Staked = Tally(p, Indexers) /\ Staked' = Tally(q, Indexers)
  BY DEF Staked
<1> HIDE DEF p, q
<1>3. Tally(q, Indexers) + p[i] = Tally(p, Indexers) + q[i]
  BY <1>1, TallyUpdate, IndexersAssumption
<1>4. Tally(p, Indexers) \in Nat /\ Tally(q, Indexers) \in Nat
  BY <1>1, TallyType, IndexersAssumption
<1> QED
  BY <1>1, <1>2, <1>3, <1>4

\* A change to one queue changes the queued total by as much.
LEMMA QueuedChange ==
    ASSUME TypeOK, NEW i \in Indexers, NEW n \in Nat,
           queued' = [queued EXCEPT ![i] = n]
    PROVE  /\ Queued \in Nat /\ Queued' \in Nat
           /\ Queued' + queued[i] = Queued + n
<1> DEFINE p == [y \in Indexers |-> queued[y]]
           q == [y \in Indexers |-> queued'[y]]
<1>1. /\ p \in [Indexers -> Nat] /\ q \in [Indexers -> Nat]
      /\ p[i] = queued[i] /\ q[i] = n
      /\ \A y \in Indexers \ {i} : p[y] = q[y]
  BY DEF TypeOK
<1>2. Queued = Tally(p, Indexers) /\ Queued' = Tally(q, Indexers)
  BY TallySame DEF Queued
<1> HIDE DEF p, q
<1>3. Tally(q, Indexers) + p[i] = Tally(p, Indexers) + q[i]
  BY <1>1, TallyUpdate, IndexersAssumption
<1>4. Tally(p, Indexers) \in Nat /\ Tally(q, Indexers) \in Nat
  BY <1>1, TallyType, IndexersAssumption
<1> QED
  BY <1>1, <1>2, <1>3, <1>4

\* The totals are natural numbers.
LEMMA TotalsType ==
    ASSUME TypeOK
    PROVE  Staked \in Nat /\ Queued \in Nat
<1>1. [i \in Indexers |-> stakes[i].amount] \in [Indexers -> Nat]
  BY DEF TypeOK
<1>2. queued \in [Indexers -> Nat]
  BY DEF TypeOK
<1> QED
  BY <1>1, <1>2, TallyType, IndexersAssumption DEF Staked, Queued

-----------------------------------------------------------------------------
\* stake keeps the invariant and pays nobody.
LEMMA StakeKeeps ==
    ASSUME IInv, NEW i \in Indexers, NEW amount \in Amounts, Stake(i, amount)
    PROVE  IInv' /\ PaysUnbonded
<1> DEFINE new == [amount |-> stakes[i].amount + amount,
                   lockedUntil |-> stakes[i].lockedUntil]
<1>1. amount \in Nat /\ amount > 0
  BY ParametersAssumption DEF Stake
<1>2. /\ stakes' = [stakes EXCEPT ![i] = new]
      /\ wallet' = [wallet EXCEPT ![i] = @ - amount]
      /\ wallet[i] >= amount /\ balance' = balance + amount
      /\ UNCHANGED <<now, queued, stranded, queuedAt>>
  BY DEF Stake
<1>3. /\ stakes[i].amount \in Nat /\ stakes[i].lockedUntil \in Nat
      /\ wallet[i] \in Nat /\ wallet[i] - amount \in Nat /\ balance \in Nat
      /\ stranded \in Nat
  BY <1>1, <1>2 DEF IInv, TypeOK
<1>4. /\ new \in [amount : Nat, lockedUntil : Nat]
      /\ new.amount = stakes[i].amount + amount
      /\ new.lockedUntil = stakes[i].lockedUntil
  BY <1>1, <1>3
<1> HIDE DEF new
<1>5. TypeOK'
  BY <1>1, <1>2, <1>3, <1>4 DEF IInv, TypeOK
<1>6. StakesBacked'
  <2>1. /\ Staked \in Nat /\ Staked' \in Nat
        /\ Staked' + stakes[i].amount = Staked + new.amount
    BY <1>2, <1>4, StakedChange DEF IInv
  <2>2. Staked' = Staked + amount
    BY <1>1, <1>3, <1>4, <2>1
  <2>3. Queued' = Queued /\ Queued \in Nat
    BY <1>2, TotalsType DEF IInv, Queued
  <2> QED
    BY <1>1, <1>2, <1>3, <2>1, <2>2, <2>3 DEF IInv, StakesBacked
<1>7. LocksHold'
  BY <1>2, <1>4 DEF IInv, TypeOK, LocksHold
<1>8. PaysUnbonded
  BY <1>1, <1>2, <1>3 DEF IInv, TypeOK, PaysUnbonded
<1> QED
  BY <1>5, <1>6, <1>7, <1>8 DEF IInv

\* queueUnstake keeps the invariant and pays nobody.
LEMMA QueueStep ==
    ASSUME IInv, NEW i \in Indexers, NEW amount \in Amounts,
           QueueUnstake(i, amount)
    PROVE  IInv' /\ PaysUnbonded
<1> DEFINE new == Locked(stakes[i], amount, now + UnbondingPeriod)
<1>1. amount \in Nat /\ amount <= stakes[i].amount
  BY ParametersAssumption DEF QueueUnstake, MayQueue
<1>2. /\ stakes' = [stakes EXCEPT ![i] = new]
      /\ queued' = [queued EXCEPT ![i] = queued[i] + amount]
      /\ queuedAt' = [queuedAt EXCEPT ![i] = now]
      /\ UNCHANGED <<wallet, balance, now, stranded>>
  BY DEF QueueUnstake
<1>3. /\ stakes[i].amount \in Nat /\ stakes[i].lockedUntil \in Nat
      /\ queued[i] \in Nat /\ now \in Nat /\ now + UnbondingPeriod \in Nat
  BY ParametersAssumption DEF IInv, TypeOK
<1>4. /\ new.amount = stakes[i].amount - amount
      /\ new.lockedUntil >= now + UnbondingPeriod
      /\ new \in [amount : Nat, lockedUntil : Nat]
  BY <1>1, <1>3 DEF Locked
<1> HIDE DEF new
<1>5. TypeOK'
  BY <1>1, <1>2, <1>3, <1>4 DEF IInv, TypeOK
<1>6. StakesBacked'
  <2>1. /\ Staked \in Nat /\ Staked' \in Nat
        /\ Staked' + stakes[i].amount = Staked + new.amount
    BY <1>2, <1>4, StakedChange DEF IInv
  <2>2. Staked' = Staked - amount
    BY <1>1, <1>3, <1>4, <2>1
  <2> DEFINE more == queued[i] + amount
  <2>3a. more \in Nat /\ queued' = [queued EXCEPT ![i] = more]
    BY <1>1, <1>2, <1>3
  <2> HIDE DEF more
  <2>3b. /\ Queued \in Nat /\ Queued' \in Nat
        /\ Queued' + queued[i] = Queued + more
    BY <2>3a, QueuedChange DEF IInv
  <2>3. /\ Queued \in Nat /\ Queued' \in Nat
        /\ Queued' + queued[i] = Queued + (queued[i] + amount)
    BY <2>3b DEF more
  <2>4. Queued' = Queued + amount
    BY <1>1, <1>3, <2>3
  <2>5. Staked' + Queued' = Staked + Queued
    BY <1>1, <2>1, <2>2, <2>3, <2>4
  <2> QED
    BY <1>2, <2>5 DEF IInv, StakesBacked
<1>7. LocksHold'
  BY <1>2, <1>4 DEF IInv, TypeOK, LocksHold
<1>8. PaysUnbonded
  BY <1>2 DEF IInv, TypeOK, PaysUnbonded
<1> QED
  BY <1>5, <1>6, <1>7, <1>8 DEF IInv

\* withdraw keeps the invariant and pays only after the unbonding period.
LEMMA WithdrawStep ==
    ASSUME IInv, NEW i \in Indexers, Withdraw(i)
    PROVE  IInv' /\ PaysUnbonded
<1> DEFINE new == Emptied(stakes[i])
<1>1. /\ stakes' = [stakes EXCEPT ![i] = new]
      /\ wallet' = [wallet EXCEPT ![i] = @ + stakes[i].amount]
      /\ balance' = balance - stakes[i].amount /\ balance >= stakes[i].amount
      /\ queued' = [queued EXCEPT ![i] = 0]
      /\ stranded' = stranded + queued[i]
      /\ UNCHANGED <<now, queuedAt>>
      /\ stakes[i].lockedUntil # 0 /\ now >= stakes[i].lockedUntil
  BY DEF Withdraw
<1>2. /\ stakes[i].amount \in Nat /\ stakes[i].lockedUntil \in Nat
      /\ queued[i] \in Nat /\ balance \in Nat /\ stranded \in Nat
      /\ wallet[i] \in Nat /\ now \in Nat
      /\ queuedAt[i] + UnbondingPeriod \in Nat
  BY ParametersAssumption DEF IInv, TypeOK
<1>3. /\ new \in [amount : Nat, lockedUntil : Nat]
      /\ new.amount = 0 /\ new.lockedUntil = 0
  BY DEF Emptied
<1> HIDE DEF new
<1>4. TypeOK'
  BY <1>1, <1>2, <1>3 DEF IInv, TypeOK
<1>5. StakesBacked'
  <2>1. /\ Staked \in Nat /\ Staked' \in Nat
        /\ Staked' + stakes[i].amount = Staked + new.amount
    BY <1>1, <1>3, StakedChange DEF IInv
  <2>2. Staked' = Staked - stakes[i].amount
    BY <1>2, <1>3, <2>1
  <2>3. /\ Queued \in Nat /\ Queued' \in Nat
        /\ Queued' + queued[i] = Queued + 0
    BY <1>1, QueuedChange DEF IInv
  <2>4. Queued' = Queued - queued[i]
    BY <1>2, <2>3
  <2>5. Staked' + Queued' + stranded' = (Staked + Queued + stranded) - stakes[i].amount
    BY <1>1, <1>2, <2>1, <2>2, <2>3, <2>4
  <2> QED
    BY <1>1, <2>5 DEF IInv, StakesBacked
<1>6. LocksHold'
  BY <1>1, <1>3 DEF IInv, TypeOK, LocksHold
<1>7. PaysUnbonded
  <2>1. stakes[i].lockedUntil >= queuedAt[i] + UnbondingPeriod
    BY <1>1 DEF IInv, LocksHold
  <2>2. now >= queuedAt[i] + UnbondingPeriod
    BY <1>1, <1>2, <2>1
  <2>3. \A j \in Indexers \ {i} : wallet'[j] = wallet[j] /\ wallet[j] \in Nat
    BY <1>1 DEF IInv, TypeOK
  <2> QED
    BY <2>2, <2>3 DEF PaysUnbonded
<1> QED
  BY <1>4, <1>5, <1>6, <1>7 DEF IInv

\* Every step keeps the invariant and pays nobody before time.
LEMMA NextStep ==
    ASSUME IInv, [Next]_vars
    PROVE  IInv' /\ PaysUnbonded
<1>1. CASE \E i \in Indexers, amount \in Amounts : Stake(i, amount)
  BY <1>1, StakeKeeps
<1>2. CASE \E i \in Indexers, amount \in Amounts : QueueUnstake(i, amount)
  BY <1>2, QueueStep
<1>3. CASE \E i \in Indexers : Withdraw(i)
  BY <1>3, WithdrawStep
<1>4. CASE Tick
  BY <1>4 DEF IInv, TypeOK, StakesBacked, Staked, Queued, LocksHold,
              PaysUnbonded, Tick
<1>5. CASE UNCHANGED vars
  BY <1>5 DEF IInv, TypeOK, StakesBacked, Staked, Queued, LocksHold,
              PaysUnbonded, vars
<1> QED
  BY <1>1, <1>2, <1>3, <1>4, <1>5 DEF Next

\* The invariant holds when the contract is deployed.
LEMMA InitIInv == Init => IInv
<1> SUFFICES ASSUME Init PROVE IInv
  OBVIOUS
<1>1. TypeOK
  BY ParametersAssumption DEF Init, TypeOK
<1>2. Staked = 0
  BY TallyZero DEF Init, Staked
<1>3. Queued = 0
  BY TallyZero DEF Init, Queued
<1>4. StakesBacked
  BY <1>2, <1>3 DEF Init, StakesBacked
<1>5. LocksHold
  BY DEF Init, LocksHold
<1> QED
  BY <1>1, <1>4, <1>5 DEF IInv

-----------------------------------------------------------------------------
(* The theorems about StakeManager.                                        *)

\* The inductive invariant holds of every reachable state.
THEOREM Inductive == Spec => []IInv
<1>1. IInv /\ [Next]_vars => IInv'
  BY NextStep
<1> QED
  BY <1>1, InitIInv, PTL DEF Spec

\* Every variable keeps its type.
THEOREM TypeCorrect == Spec => []TypeOK
<1>1. IInv => TypeOK
  BY DEF IInv
<1> QED
  BY <1>1, Inductive, PTL

\* The contract holds every stake, every queue and everything it has stranded.
THEOREM StakesAlwaysBacked == Spec => []StakesBacked
<1>1. IInv => StakesBacked
  BY DEF IInv
<1> QED
  BY <1>1, Inductive, PTL

\* Nobody is paid within an unbonding period of queueing.
THEOREM ExitsAfterUnbonding == Spec => ExitAfterUnbonding
<1>1. IInv /\ [Next]_vars => [PaysUnbonded]_vars
  BY NextStep
<1> QED
  BY <1>1, Inductive, PTL DEF Spec, ExitAfterUnbonding

-----------------------------------------------------------------------------
(* The stack.                                                              *)

ChallengeIds ==
    [indexer : Indexers, challenger : Challengers, evidence : Evidence, timestamp : Nat]

Challenge == [stakeAtRisk : Nat, resolved : BOOLEAN]

\* cs records challenges: finitely many, each with its id.
Records(cs) ==
    /\ DOMAIN cs \subseteq ChallengeIds
    /\ IsFiniteSet(DOMAIN cs)
    /\ \A id \in DOMAIN cs : cs[id] \in Challenge

\* The types of what the stack adds to StakeManager.
StackTypeOK ==
    /\ Records(challenges)
    /\ delegatedStake \in [Indexers -> Nat]
    /\ delegatorShares \in [Delegators -> Nat]
    /\ delegated \in Nat
    /\ purse \in [Delegators -> Nat]
    /\ peak \in [Indexers -> Nat]
    /\ slashed \in [Indexers -> Nat]
    /\ atRisk \in [Indexers -> Nat]
    /\ openings \in Nat
    /\ wave \in [Indexers -> Nat]
    /\ escaped \in [Indexers -> BOOLEAN]

PeaksHold == \A i \in Indexers : stakes[i].amount <= peak[i]

\* The penalty the challenge c, with the id `id`, may still cost i.
Cost(i, id, c) ==
    IF id.indexer = i /\ ~ c.resolved THEN Penalty(c.stakeAtRisk) ELSE 0

\* The penalties i may still be charged for the challenges of cs.
Pending(i, cs) == Tally([id \in DOMAIN cs |-> Cost(i, id, cs[id])], DOMAIN cs)

\* What was slashed and what may still be are together no more than the
\* penalties of all challenges.
PenaltiesPending ==
    \A i \in Indexers : slashed[i] + Pending(i, challenges) <= atRisk[i]

\* What each challenge of cs may still cost i at the time t.
Owed(i, cs, t) ==
    [id \in DOMAIN cs |->
        IF id.indexer = i /\ ~ cs[id].resolved /\ t <= id.timestamp + Window
        THEN Penalty(cs[id].stakeAtRisk) ELSE 0]

\* Of a stake of which `taken` has been slashed and `left` is left, w challenges
\* can have cost what was taken and what is still owed.
Covers(taken, owed, w, left) ==
    10000 * (taken + owed) <= (w * SlashPercent) * (left + taken)

\* Unless i has taken stake out, the slashes since it was last without a
\* challenge took `taken`, and each challenge since was opened against no more
\* than what is left and what they took.
Covered(i) ==
    ~ escaped[i] => \E taken \in Nat :
        Covers(taken, Outstanding(i), wave[i], stakes[i].amount)

PenaltiesCovered == \A i \in Indexers : Covered(i)

StackInv ==
    /\ IInv
    /\ PenaltiesCovered
    /\ StackTypeOK
    /\ DelegationsBacked
    /\ PeaksHold
    /\ WithinPeakCapacity
    /\ PenaltiesPending

-----------------------------------------------------------------------------
(* Arithmetic.                                                             *)

\* A penalty is a number of SPY.
LEMMA PenaltyType ==
    ASSUME NEW n \in Nat
    PROVE  Penalty(n) \in Nat
<1>1. SlashPercent \in Nat
  BY StackAssumption
<1>2. n * SlashPercent \in Nat
  BY <1>1
<1> QED
  BY <1>2, DivBounds DEF Penalty

\* The exchange rate of the DelegationManager is always one to one.
LEMMA SharesAreAmounts ==
    ASSUME StackTypeOK, NEW i \in Indexers, NEW amount \in Nat
    PROVE  DelegationShares(i, amount) = amount
<1>1. delegatedStake[i] \in Nat
  BY DEF StackTypeOK
<1>2. CASE delegatedStake[i] = 0
  BY <1>2 DEF DelegationShares
<1>3. CASE delegatedStake[i] # 0
  <2>1. (amount * delegatedStake[i]) \div delegatedStake[i] = amount
    BY <1>1, <1>3, DivCancel
  <2> QED
    BY <1>3, <2>1 DEF DelegationShares
<1> QED
  BY <1>2, <1>3

\* A larger stake has a larger capacity.
LEMMA CapacityGrows ==
    ASSUME NEW a \in Nat, NEW b \in Nat, a <= b
    PROVE  CapacityMultiple * a <= CapacityMultiple * b
<1>1. CapacityMultiple \in Nat
  BY StackAssumption
<1> QED
  BY <1>1, SMT

-----------------------------------------------------------------------------
(* Sums over the challenges.                                               *)

\* A challenge costs a number of SPY.
LEMMA CostType ==
    ASSUME NEW i, NEW id, NEW c \in Challenge
    PROVE  Cost(i, id, c) \in Nat
BY PenaltyType DEF Cost, Challenge

\* The penalties pending are a number of SPY.
LEMMA PendingType ==
    ASSUME NEW i, NEW cs, Records(cs)
    PROVE  /\ [id \in DOMAIN cs |-> Cost(i, id, cs[id])] \in [DOMAIN cs -> Nat]
           /\ Pending(i, cs) \in Nat
<1>1. \A id \in DOMAIN cs : Cost(i, id, cs[id]) \in Nat
  BY CostType DEF Records
<1>2. [id \in DOMAIN cs |-> Cost(i, id, cs[id])] \in [DOMAIN cs -> Nat]
  BY <1>1
<1> QED
  BY <1>2, TallyType DEF Records, Pending

\* What is pending splits into the part of one challenge and the rest.
LEMMA PendingSplit ==
    ASSUME NEW i, NEW cs, Records(cs), NEW id \in DOMAIN cs
    PROVE  LET others == Tally([x \in DOMAIN cs |-> Cost(i, x, cs[x])],
                               DOMAIN cs \ {id})
           IN  /\ others \in Nat
               /\ Pending(i, cs) = others + Cost(i, id, cs[id])
<1> DEFINE S == DOMAIN cs
           f == [x \in S |-> Cost(i, x, cs[x])]
<1>1. f \in [S -> Nat] /\ IsFiniteSet(S) /\ f[id] = Cost(i, id, cs[id])
  BY PendingType DEF Records
<1>2. Pending(i, cs) = Tally(f, S)
  BY DEF Pending
<1> HIDE DEF f
<1>3. Tally(f, S) = Tally(f, S \ {id}) + f[id]
  BY <1>1, TallySplit
<1>4. Tally(f, S \ {id}) \in Nat
  <2>1. IsFiniteSet(S \ {id})
    BY <1>1, FS_RemoveElement
  <2>2. [x \in S \ {id} |-> f[x]] \in [S \ {id} -> Nat]
    BY <1>1
  <2>3. Tally([x \in S \ {id} |-> f[x]], S \ {id}) \in Nat
    BY <2>1, <2>2, TallyType
  <2>4. Tally([x \in S \ {id} |-> f[x]], S \ {id}) = Tally(f, S \ {id})
    BY TallySame
  <2> QED
    BY <2>3, <2>4
<1> QED
  BY <1>1, <1>2, <1>3, <1>4 DEF f

\* Opening or resolving one challenge changes what is pending by the cost of
\* that challenge, whether it is new or replaces another.
LEMMA PendingChange ==
    ASSUME NEW i, NEW cs, Records(cs), NEW ds, Records(ds), NEW id,
           DOMAIN ds = DOMAIN cs \cup {id},
           \A x \in DOMAIN cs \ {id} : ds[x] = cs[x]
    PROVE  /\ Pending(i, ds) <= Pending(i, cs) + Cost(i, id, ds[id])
           /\ id \in DOMAIN cs =>
                 Pending(i, ds) + Cost(i, id, cs[id])
                     = Pending(i, cs) + Cost(i, id, ds[id])
<1> DEFINE f == [x \in DOMAIN cs |-> Cost(i, x, cs[x])]
           g == [x \in DOMAIN ds |-> Cost(i, x, ds[x])]
           rest == Tally(g, DOMAIN ds \ {id})
<1>1. rest \in Nat /\ Pending(i, ds) = rest + Cost(i, id, ds[id])
  <2>1. id \in DOMAIN ds
    OBVIOUS
  <2> QED
    BY <2>1, PendingSplit
<1>2. Cost(i, id, ds[id]) \in Nat /\ Pending(i, cs) \in Nat
  BY CostType, PendingType DEF Records
<1>3. CASE id \in DOMAIN cs
  <2>1. DOMAIN ds = DOMAIN cs
    BY <1>3
  <2>2. Tally(g, DOMAIN cs \ {id}) = Tally(f, DOMAIN cs \ {id})
    <3>1. \A x \in DOMAIN cs \ {id} : g[x] = f[x]
      BY <2>1
    <3> QED
      BY <3>1, TallySame
  <2>3. rest = Tally(f, DOMAIN cs \ {id})
    BY <2>1, <2>2
  <2>4. Pending(i, cs) = rest + Cost(i, id, cs[id])
    BY <1>3, <2>3, PendingSplit
  <2>5. Cost(i, id, cs[id]) \in Nat
    BY <1>3, CostType DEF Records
  <2> HIDE DEF rest
  <2> QED
    BY <1>1, <1>2, <2>4, <2>5
<1>4. CASE id \notin DOMAIN cs
  <2>1. DOMAIN ds \ {id} = DOMAIN cs
    BY <1>4
  <2>2. \A x \in DOMAIN cs : g[x] = f[x]
    BY <1>4
  <2>3. rest = Pending(i, cs)
    BY <2>1, <2>2, TallySame DEF Pending
  <2> HIDE DEF rest
  <2> QED
    BY <1>1, <1>2, <1>4, <2>3
<1> QED
  BY <1>3, <1>4

-----------------------------------------------------------------------------
(* The penalties that can still be collected.                              *)

\* The sum the property states is the sum of what is owed.
LEMMA OutstandingIsOwed ==
    /\ \A i : Outstanding(i) = Tally(Owed(i, challenges, now), DOMAIN challenges)
    /\ \A i : Outstanding(i)' = Tally(Owed(i, challenges', now'), DOMAIN challenges')
BY DEF Outstanding, Owed, Live, InTime

\* A challenge is owed a number of SPY.
LEMMA OwedType ==
    ASSUME NEW i, NEW cs, Records(cs), NEW t \in Nat
    PROVE  Owed(i, cs, t) \in [DOMAIN cs -> Nat]
<1>1. \A id \in DOMAIN cs : Penalty(cs[id].stakeAtRisk) \in Nat
  BY PenaltyType DEF Records, Challenge
<1> QED
  BY <1>1 DEF Owed

\* What can be collected is a number of SPY.
LEMMA OutstandingType ==
    ASSUME Records(challenges), now \in Nat, NEW i
    PROVE  Outstanding(i) \in Nat
<1> DEFINE S == DOMAIN challenges
           f == Owed(i, challenges, now)
<1>1. IsFiniteSet(S) /\ f \in [S -> Nat]
  BY OwedType DEF Records
<1>2. Outstanding(i) = Tally(f, S)
  BY OutstandingIsOwed
<1> HIDE DEF f, S
<1> QED
  BY <1>1, <1>2, TallyType

\* As time goes by, less is owed.
LEMMA OwedFalls ==
    ASSUME NEW i, NEW cs, NEW ds, Records(cs), Records(ds),
           NEW s \in Nat, NEW t \in Nat, s <= t,
           NEW id \in DOMAIN cs \cap DOMAIN ds, ds[id] = cs[id]
    PROVE  Owed(i, ds, t)[id] <= Owed(i, cs, s)[id]
<1>1. /\ id.timestamp + Window \in Nat
      /\ Penalty(cs[id].stakeAtRisk) \in Nat
  BY PenaltyType, StackAssumption DEF Records, Challenge, ChallengeIds
<1>2. t <= id.timestamp + Window => s <= id.timestamp + Window
  BY <1>1
<1> QED
  BY <1>1, <1>2 DEF Owed

\* Opening or resolving one challenge, at the same time or later.
LEMMA OwedChange ==
    ASSUME NEW i, NEW cs, NEW ds, Records(cs), Records(ds),
           NEW s \in Nat, NEW t \in Nat, s <= t, NEW id,
           DOMAIN ds = DOMAIN cs \cup {id},
           \A x \in DOMAIN cs \ {id} : ds[x] = cs[x]
    PROVE  LET before == Tally(Owed(i, cs, s), DOMAIN cs)
               after  == Tally(Owed(i, ds, t), DOMAIN ds)
           IN  /\ before \in Nat /\ after \in Nat
               /\ after <= before + Owed(i, ds, t)[id]
               /\ id \in DOMAIN cs =>
                     after + Owed(i, cs, s)[id] <= before + Owed(i, ds, t)[id]
<1> DEFINE S == DOMAIN cs
           f == Owed(i, cs, s)
           g == Owed(i, ds, t)
<1>1. IsFiniteSet(S) /\ f \in [S -> Nat] /\ g \in [S \cup {id} -> Nat]
  BY OwedType DEF Records
<1>2. \A y \in S \ {id} : g[y] <= f[y]
  BY OwedFalls
<1>3. DOMAIN ds = S \cup {id}
  OBVIOUS
<1> HIDE DEF f, g, S
<1>4. /\ Tally(f, S) \in Nat /\ Tally(g, S \cup {id}) \in Nat
      /\ Tally(g, S \cup {id}) <= Tally(f, S) + g[id]
      /\ id \in S => Tally(g, S \cup {id}) + f[id] <= Tally(f, S) + g[id]
  BY <1>1, <1>2, TallyReplace
<1> QED
  BY <1>3, <1>4 DEF f, g, S

\* With the challenges as they were, what can be collected does not grow.
LEMMA OutstandingFalls ==
    ASSUME Records(challenges), challenges' = challenges,
           now \in Nat, now' \in Nat, now <= now', NEW i
    PROVE  /\ Outstanding(i) \in Nat /\ Outstanding(i)' \in Nat
           /\ Outstanding(i)' <= Outstanding(i)
<1> DEFINE S == DOMAIN challenges
           f == Owed(i, challenges, now)
           g == Owed(i, challenges, now')
<1>1. IsFiniteSet(S) /\ f \in [S -> Nat] /\ g \in [S -> Nat]
  BY OwedType DEF Records
<1>2. \A y \in S : g[y] <= f[y]
  BY OwedFalls
<1>3. Outstanding(i) = Tally(f, S) /\ Outstanding(i)' = Tally(g, S)
  BY OutstandingIsOwed
<1> HIDE DEF f, g, S
<1>4. \A y \in S : g[y] \in Nat /\ f[y] \in Nat
  BY <1>1
<1> QED
  BY <1>1, <1>2, <1>3, <1>4, TallyGrows

\* Nothing covers nothing.
LEMMA CoverNothing ==
    ASSUME NEW left \in Nat
    PROVE  Covers(0, 0, 0, left)
<1>1. 0 * SlashPercent = 0
  BY StackAssumption
<1>2. 0 * (left + 0) = 0 /\ 10000 * (0 + 0) = 0
  OBVIOUS
<1> QED
  BY <1>1, <1>2 DEF Covers

\* What opening or resolving a challenge does to what can be collected.
LEMMA OutstandingChange ==
    ASSUME Records(challenges), Records(challenges'), now \in Nat, now' = now,
           NEW id, DOMAIN challenges' = DOMAIN challenges \cup {id},
           \A x \in DOMAIN challenges \ {id} : challenges'[x] = challenges[x],
           NEW i
    PROVE  /\ Outstanding(i) \in Nat /\ Outstanding(i)' \in Nat
           /\ Outstanding(i)' <= Outstanding(i) + Owed(i, challenges', now')[id]
           /\ id \in DOMAIN challenges =>
                 Outstanding(i)' + Owed(i, challenges, now)[id]
                     <= Outstanding(i) + Owed(i, challenges', now')[id]
<1> DEFINE cs == challenges
           ds == challenges'
<1>1. /\ Outstanding(i) = Tally(Owed(i, cs, now), DOMAIN cs)
      /\ Outstanding(i)' = Tally(Owed(i, ds, now), DOMAIN ds)
  BY OutstandingIsOwed
<1>2. /\ Records(cs) /\ Records(ds) /\ DOMAIN ds = DOMAIN cs \cup {id}
      /\ \A x \in DOMAIN cs \ {id} : ds[x] = cs[x]
      /\ now <= now
  OBVIOUS
<1> HIDE DEF cs, ds
<1>3. LET before == Tally(Owed(i, cs, now), DOMAIN cs)
          after  == Tally(Owed(i, ds, now), DOMAIN ds)
      IN  /\ before \in Nat /\ after \in Nat
          /\ after <= before + Owed(i, ds, now)[id]
          /\ id \in DOMAIN cs =>
                after + Owed(i, cs, now)[id] <= before + Owed(i, ds, now)[id]
  BY <1>2, OwedChange
<1> QED
  BY <1>1, <1>3 DEF cs, ds

\* A cover holds when less is owed and more is left.
LEMMA CoverGrows ==
    ASSUME NEW taken \in Nat, NEW owed \in Nat, NEW w \in Nat, NEW left \in Nat,
           NEW less \in 0 .. owed, NEW more \in Nat, left <= more,
           Covers(taken, owed, w, left)
    PROVE  Covers(taken, less, w, more)
<1> DEFINE k == w * SlashPercent
<1>1. k \in Nat
  BY StackAssumption
<1>2. 10000 * (taken + owed) <= k * (left + taken)
  BY DEF Covers
<1> HIDE DEF k
<1>3. k * (left + taken) <= k * (more + taken)
  BY <1>1, SMT
<1>4. 10000 * (taken + less) <= 10000 * (taken + owed)
  OBVIOUS
<1>5. k * (left + taken) \in Nat /\ k * (more + taken) \in Nat
  BY <1>1
<1>6. 10000 * (taken + less) <= k * (more + taken)
  BY <1>2, <1>3, <1>4, <1>5
<1> QED
  BY <1>6 DEF Covers, k

\* A cover holds when one more challenge is opened, against what is left.
LEMMA CoverOpened ==
    ASSUME NEW taken \in Nat, NEW owed \in Nat, NEW w \in Nat, NEW left \in Nat,
           Covers(taken, owed, w, left)
    PROVE  Covers(taken, owed + Penalty(left), w + 1, left)
<1> DEFINE k == w * SlashPercent
           p == Penalty(left)
           m == left * SlashPercent
<1>1. k \in Nat /\ p \in Nat /\ m \in Nat /\ SlashPercent \in Nat
  BY StackAssumption, PenaltyType
<1>2. 10000 * (taken + owed) <= k * (left + taken)
  BY DEF Covers
<1>3. 10000 * p <= m
  BY <1>1, DivBounds DEF Penalty
<1>4. (w + 1) * SlashPercent = k + SlashPercent
  BY <1>1
<1> HIDE DEF k, p
<1>5. m <= SlashPercent * (left + taken)
  <2>1. SlashPercent * (left + taken) = m + SlashPercent * taken
    BY <1>1
  <2>2. SlashPercent * taken \in Nat
    BY <1>1
  <2> HIDE DEF m
  <2> QED
    BY <1>1, <2>1, <2>2
<1>6. (k + SlashPercent) * (left + taken) = k * (left + taken) + SlashPercent * (left + taken)
  BY <1>1
<1>7. k * (left + taken) \in Nat /\ SlashPercent * (left + taken) \in Nat
  BY <1>1
<1> DEFINE a == k * (left + taken)
           b == SlashPercent * (left + taken)
<1>8. /\ a \in Nat /\ b \in Nat /\ 10000 * (taken + owed) <= a
      /\ 10000 * p <= b
  BY <1>1, <1>2, <1>3, <1>5, <1>7
<1> HIDE DEF a, b, m
<1>9. 10000 * (taken + (owed + p)) <= a + b
  BY <1>1, <1>8
<1> QED
  BY <1>4, <1>6, <1>9 DEF Covers, a, b, p

\* A cover holds when one of the penalties owed is taken.
LEMMA CoverSlashed ==
    ASSUME NEW taken \in Nat, NEW owed \in Nat, NEW w \in Nat, NEW left \in Nat,
           NEW p \in Nat, p <= owed, p <= left, Covers(taken, owed, w, left)
    PROVE  Covers(taken + p, owed - p, w, left - p)
<1>1. /\ (taken + p) + (owed - p) = taken + owed
      /\ (left - p) + (taken + p) = left + taken
  OBVIOUS
<1> QED
  BY <1>1, SMT DEF Covers

\* What a whole stake covers is no more than the stake.
LEMMA WithinStake ==
    ASSUME NEW taken \in Nat, NEW owed \in Nat, NEW w \in Nat, NEW left \in Nat,
           w * SlashPercent <= 10000, Covers(taken, owed, w, left)
    PROVE  owed <= left
<1> DEFINE k == w * SlashPercent
           all == left + taken
<1>1. k \in Nat /\ k <= 10000 /\ all \in Nat
  BY StackAssumption
<1>2. 10000 * (taken + owed) <= k * all
  BY DEF Covers
<1>3. all = left + taken
  OBVIOUS
<1> HIDE DEF k, all
<1>4. PICK m \in Nat : k + m = 10000
  <2>1. 10000 - k \in Nat /\ k + (10000 - k) = 10000
    BY <1>1
  <2> QED
    BY <2>1
<1> DEFINE a == k * all
           b == m * all
<1>5. 10000 * all = a + b
  <2>1. (k + m) * all = k * all + m * all
    BY <1>1
  <2> QED
    BY <1>4, <2>1
<1>6. a \in Nat /\ b \in Nat /\ 10000 * (taken + owed) <= a
  BY <1>1, <1>2
<1> HIDE DEF a, b
<1>7. 10000 * (taken + owed) <= 10000 * all
  BY <1>1, <1>5, <1>6
<1> QED
  BY <1>1, <1>3, <1>7

\* The histories keep their types.
LEMMA HistoryType ==
    ASSUME StackTypeOK, NEW against, NEW leaving, Watch(against, leaving)
    PROVE  wave' \in [Indexers -> Nat] /\ escaped' \in [Indexers -> BOOLEAN]
<1>1. \A i \in Indexers : wave[i] \in Nat /\ wave[i] + (IF i \in against THEN 1 ELSE 0) \in Nat
  BY DEF StackTypeOK
<1> QED
  BY <1>1 DEF Watch

\* What a step that opens challenges against the indexers of `against`, and in
\* which those of `leaving` take stake out, has to show of one indexer.
StillCovered(i, against, leaving) ==
    \A taken \in Nat :
        i \notin leaving /\ Covers(taken, Outstanding(i), wave[i], stakes[i].amount)
            => \E more \in Nat :
                  Covers(more, Outstanding(i)',
                         wave[i] + (IF i \in against THEN 1 ELSE 0), stakes'[i].amount)

LEMMA CoverStep ==
    ASSUME StackInv, StackTypeOK', NEW against, NEW leaving, Watch(against, leaving),
           NEW i \in Indexers, stakes'[i].amount \in Nat,
           StillCovered(i, against, leaving)
    PROVE  Covered(i)'
<1>1. /\ wave'[i] = IF Calm(i)' THEN 0 ELSE wave[i] + (IF i \in against THEN 1 ELSE 0)
      /\ escaped'[i] = (~ Calm(i)' /\ (escaped[i] \/ i \in leaving))
  BY DEF Watch
<1>2. CASE Calm(i)'
  <2>1. Outstanding(i)' = 0
    <3>1. ASSUME NEW id \in DOMAIN challenges'
          PROVE  Owed(i, challenges', now')[id] = 0
      <4>1. ~ (id.indexer = i /\ ~ challenges'[id].resolved
                  /\ now' <= id.timestamp + Window)
        BY <1>2, <3>1 DEF Calm, Live, InTime
      <4> QED
        BY <3>1, <4>1, Zenon DEF Owed
    <3> QED
      BY <3>1, TallyZero, OutstandingIsOwed, Zenon
  <2>2. wave'[i] = 0
    BY <1>1, <1>2
  <2>3. Covers(0, 0, 0, stakes'[i].amount)
    BY CoverNothing
  <2> QED
    BY <2>1, <2>2, <2>3 DEF Covered
<1>3. CASE ~ Calm(i)'
  <2> SUFFICES ASSUME ~ escaped'[i]
               PROVE  \E taken \in Nat :
                          Covers(taken, Outstanding(i)', wave'[i], stakes'[i].amount)
    BY DEF Covered
  <2>1. ~ escaped[i] /\ i \notin leaving
    BY <1>1, <1>3
  <2>2. PICK taken \in Nat : Covers(taken, Outstanding(i), wave[i], stakes[i].amount)
    BY <2>1 DEF StackInv, PenaltiesCovered, Covered
  <2>3. PICK more \in Nat :
            Covers(more, Outstanding(i)',
                   wave[i] + (IF i \in against THEN 1 ELSE 0), stakes'[i].amount)
    BY <2>1, <2>2 DEF StillCovered
  <2> QED
    BY <1>1, <1>3, <2>3
<1> QED
  BY <1>2, <1>3

\* What does not touch stakes, challenges and time keeps the penalties covered.
LEMMA CoverKept ==
    ASSUME PenaltiesCovered, UNCHANGED <<stakes, challenges, now, wave, escaped>>
    PROVE  PenaltiesCovered'
<1>1. \A i : Outstanding(i)' = Outstanding(i)
  BY OutstandingIsOwed
<1>2. /\ stakes' = stakes /\ wave' = wave /\ escaped' = escaped
  OBVIOUS
<1> QED
  BY <1>1, <1>2 DEF PenaltiesCovered, Covered

-----------------------------------------------------------------------------
(* The steps.                                                              *)

\* What the property about exits says holds whenever no wallet grows.
LEMMA NobodyPaid ==
    ASSUME TypeOK, wallet' = wallet
    PROVE  PaysUnbonded
BY DEF TypeOK, PaysUnbonded

\* StakeManager's own steps keep the invariant: they leave the challenges and
\* the delegations alone, and the peak follows the stakes.
LEMMA StakeStepKeeps ==
    ASSUME StackInv, StakeStep
    PROVE  StackInv' /\ PaysUnbonded
<1>1. IInv' /\ PaysUnbonded
  BY NextStep DEF StackInv, StakeStep
<1>2. /\ peak' = [i \in Indexers |->
             IF stakes'[i].amount > peak[i] THEN stakes'[i].amount ELSE peak[i]]
      /\ UNCHANGED <<challenges, slashed, atRisk, openings, delegatedStake,
                     delegatorShares, delegated, purse>>
  BY DEF StakeStep, slashing, delegation
<1>3. /\ \A i \in Indexers : stakes'[i].amount \in Nat /\ peak[i] \in Nat
      /\ peak' \in [Indexers -> Nat]
  <2>1. \A i \in Indexers : stakes'[i].amount \in Nat /\ peak[i] \in Nat
    BY <1>1 DEF StackInv, StackTypeOK, IInv, TypeOK
  <2> QED
    BY <1>2, <2>1
<1>4. StackTypeOK'
  BY <1>2, <1>3, HistoryType DEF StackInv, StackTypeOK, StakeStep
<1>5. \A i \in Indexers : stakes'[i].amount <= peak'[i] /\ peak[i] <= peak'[i]
  BY <1>2, <1>3
<1>6. WithinPeakCapacity'
  <2> SUFFICES ASSUME NEW i \in Indexers
               PROVE  delegatedStake'[i] <= CapacityMultiple * peak'[i]
    BY DEF WithinPeakCapacity
  <2>1. CapacityMultiple * peak[i] <= CapacityMultiple * peak'[i]
    BY <1>3, <1>5, CapacityGrows
  <2>2. delegatedStake'[i] <= CapacityMultiple * peak[i] /\ delegatedStake'[i] \in Nat
    BY <1>2 DEF StackInv, StackTypeOK, WithinPeakCapacity
  <2>3. CapacityMultiple * peak[i] \in Nat /\ CapacityMultiple * peak'[i] \in Nat
    BY <1>3, StackAssumption
  <2> QED
    BY <2>1, <2>2, <2>3
<1>7. PeaksHold'
  BY <1>5 DEF PeaksHold
<1>8. DelegationsBacked'
  BY <1>2 DEF StackInv, DelegationsBacked
<1>9. PenaltiesPending'
  BY <1>2 DEF StackInv, PenaltiesPending
<1>10. PenaltiesCovered'
  <2> DEFINE leaving == {i \in Indexers : stakes'[i].amount < stakes[i].amount}
  <2>1. Watch({}, leaving)
    BY DEF StakeStep
  <2>2. ASSUME NEW i \in Indexers
        PROVE  Covered(i)'
    <3>1. now \in Nat /\ now' \in Nat /\ now <= now' /\ Records(challenges)
      <4>1. now' = now \/ now' = now + 1
        BY DEF StakeStep, Next, Stake, QueueUnstake, Withdraw, Tick
      <4> QED
        BY <4>1 DEF StackInv, StackTypeOK, IInv, TypeOK
    <3>2. /\ Outstanding(i) \in Nat /\ Outstanding(i)' \in Nat
          /\ Outstanding(i)' <= Outstanding(i)
      BY <1>2, <3>1, OutstandingFalls
    <3>3. stakes[i].amount \in Nat /\ stakes'[i].amount \in Nat /\ wave[i] \in Nat
      BY <1>3 DEF StackInv, StackTypeOK, IInv, TypeOK
    <3>4. ASSUME NEW taken \in Nat, i \notin leaving,
                 Covers(taken, Outstanding(i), wave[i], stakes[i].amount)
          PROVE  \E more \in Nat :
                     Covers(more, Outstanding(i)',
                            wave[i] + (IF i \in {} THEN 1 ELSE 0), stakes'[i].amount)
      <4>1. stakes[i].amount <= stakes'[i].amount
        BY <3>3, <3>4
      <4>2. Covers(taken, Outstanding(i)', wave[i], stakes'[i].amount)
        BY <3>2, <3>3, <3>4, <4>1, CoverGrows
      <4>3. wave[i] + (IF i \in {} THEN 1 ELSE 0) = wave[i]
        BY <3>3
      <4> QED
        BY <3>4, <4>2, <4>3
    <3> HIDE DEF leaving
    <3>5. StillCovered(i, {}, leaving)
      BY <3>4 DEF StillCovered
    <3> QED
      BY <1>4, <2>1, <3>3, <3>5, CoverStep
  <2> QED
    BY <2>2 DEF PenaltiesCovered
<1> QED
  BY <1>1, <1>4, <1>6, <1>7, <1>8, <1>9, <1>10 DEF StackInv

\* openChallenge keeps the invariant: what becomes pending is what is added to
\* the penalties at risk.
LEMMA OpenChallengeKeeps ==
    ASSUME StackInv, NEW i \in Indexers, NEW c \in Challengers,
           NEW evidence \in Evidence, OpenChallenge(i, c, evidence)
    PROVE  StackInv' /\ PaysUnbonded
<1> DEFINE id == [indexer |-> i, challenger |-> c, evidence |-> evidence,
                  timestamp |-> now]
           new == [stakeAtRisk |-> AtRisk(i), resolved |-> FALSE]
<1>1. /\ challenges' = [x \in DOMAIN challenges \cup {id} |->
             IF x = id THEN new ELSE challenges[x]]
      /\ atRisk' = [atRisk EXCEPT ![i] = @ + Penalty(AtRisk(i))]
      /\ openings' = openings + 1
      /\ UNCHANGED <<stakes, wallet, balance, now, queued, stranded, queuedAt,
                     delegatedStake, delegatorShares, delegated, purse, peak, slashed>>
  BY DEF OpenChallenge, vars, delegation
<1>2. AtRisk(i) \in Nat /\ now \in Nat
  BY DEF StackInv, IInv, TypeOK, AtRisk
<1>3. id \in ChallengeIds /\ new \in Challenge
  BY <1>2 DEF ChallengeIds, Challenge
<1>4. Penalty(AtRisk(i)) \in Nat
  BY <1>2, PenaltyType
<1>5. /\ id.indexer = i
      /\ Cost(i, id, new) = Penalty(AtRisk(i))
      /\ \A j \in Indexers \ {i} : Cost(j, id, new) = 0
  BY DEF Cost
<1> HIDE DEF id, new
<1>6. Records(challenges) /\ Records(challenges')
  <2>1. Records(challenges)
    BY DEF StackInv, StackTypeOK
  <2>2. /\ DOMAIN challenges' = DOMAIN challenges \cup {id}
        /\ \A x \in DOMAIN challenges' :
              challenges'[x] = IF x = id THEN new ELSE challenges[x]
    BY <1>1
  <2>3. IsFiniteSet(DOMAIN challenges')
    BY <2>1, <2>2, FS_AddElement DEF Records
  <2> QED
    BY <1>3, <2>1, <2>2, <2>3 DEF Records
<1>7. ASSUME NEW j \in Indexers
      PROVE  Pending(j, challenges') <= Pending(j, challenges) + Cost(j, id, new)
  <2>1. /\ DOMAIN challenges' = DOMAIN challenges \cup {id}
        /\ \A x \in DOMAIN challenges \ {id} : challenges'[x] = challenges[x]
        /\ challenges'[id] = new
    BY <1>1
  <2> QED
    BY <1>6, <2>1, PendingChange
<1>8. StackTypeOK'
  <2>1. Watch({i}, {})
    BY DEF OpenChallenge
  <2> QED
    BY <1>1, <1>4, <1>6, <2>1, HistoryType DEF StackInv, StackTypeOK
<1>9. PenaltiesPending'
  <2> SUFFICES ASSUME NEW j \in Indexers
               PROVE  slashed'[j] + Pending(j, challenges') <= atRisk'[j]
    BY DEF PenaltiesPending
  <2>1. /\ slashed'[j] = slashed[j] /\ slashed[j] \in Nat /\ atRisk[j] \in Nat
        /\ slashed[j] + Pending(j, challenges) <= atRisk[j]
    BY <1>1 DEF StackInv, StackTypeOK, PenaltiesPending
  <2>2. atRisk'[j] = atRisk[j] + Cost(j, id, new)
    BY <1>1, <1>4, <1>5 DEF StackInv, StackTypeOK
  <2>3. /\ Pending(j, challenges) \in Nat /\ Pending(j, challenges') \in Nat
        /\ Cost(j, id, new) \in Nat
    BY <1>3, <1>6, PendingType, CostType
  <2> QED
    BY <1>7, <2>1, <2>2, <2>3
<1>10. IInv' /\ PaysUnbonded
  BY <1>1, NobodyPaid DEF StackInv, IInv, TypeOK, StakesBacked, Staked, Queued, LocksHold
<1>11. DelegationsBacked' /\ PeaksHold' /\ WithinPeakCapacity'
  BY <1>1 DEF StackInv, DelegationsBacked, PeaksHold, WithinPeakCapacity
<1>12. ASSUME NEW j \in Indexers PROVE Covered(j)'
  <2>1. Watch({i}, {})
    BY DEF OpenChallenge
  <2> DEFINE owed == Owed(j, challenges', now')[id]
  <2>2. /\ DOMAIN challenges' = DOMAIN challenges \cup {id} /\ challenges'[id] = new
        /\ \A x \in DOMAIN challenges \ {id} : challenges'[x] = challenges[x]
    BY <1>1
  <2>3. /\ Outstanding(j) \in Nat /\ Outstanding(j)' \in Nat
        /\ Outstanding(j)' <= Outstanding(j) + owed
    BY <1>1, <1>2, <1>6, <2>2, OutstandingChange
  <2>4. /\ stakes[j].amount \in Nat /\ stakes'[j].amount = stakes[j].amount
        /\ wave[j] \in Nat
    BY <1>1 DEF StackInv, StackTypeOK, IInv, TypeOK
  <2>5. owed \in Nat /\ owed <= (IF j = i THEN Penalty(stakes[j].amount) ELSE 0)
    <3>1. owed = IF id.indexer = j /\ ~ new.resolved /\ now' <= id.timestamp + Window
                 THEN Penalty(new.stakeAtRisk) ELSE 0
      BY <2>2 DEF Owed
    <3>2. new.stakeAtRisk = stakes[i].amount /\ id.indexer = i
      BY <1>5 DEF new, AtRisk
    <3> HIDE DEF owed
    <3> QED
      BY <1>4, <3>1, <3>2 DEF AtRisk
  <2> HIDE DEF owed
  <2>6. ASSUME NEW taken \in Nat, j \notin {},
               Covers(taken, Outstanding(j), wave[j], stakes[j].amount)
        PROVE  \E more \in Nat :
                   Covers(more, Outstanding(j)',
                          wave[j] + (IF j \in {i} THEN 1 ELSE 0), stakes'[j].amount)
    <3>1. CASE j = i
      <4>1. Covers(taken, Outstanding(j) + Penalty(stakes[j].amount), wave[j] + 1,
                   stakes[j].amount)
        BY <2>3, <2>4, <2>6, CoverOpened
      <4>2. /\ Outstanding(j) + Penalty(stakes[j].amount) \in Nat
            /\ Outstanding(j)' <= Outstanding(j) + Penalty(stakes[j].amount)
            /\ wave[j] + 1 \in Nat
        BY <2>3, <2>4, <2>5, <3>1, PenaltyType
      <4> DEFINE most == Outstanding(j) + Penalty(stakes[j].amount)
                 w == wave[j] + 1
      <4>3. /\ most \in Nat /\ w \in Nat /\ Outstanding(j)' \in 0 .. most
            /\ Covers(taken, most, w, stakes[j].amount)
        BY <2>3, <4>1, <4>2
      <4> HIDE DEF most, w
      <4>4. Covers(taken, Outstanding(j)', w, stakes'[j].amount)
        BY <2>4, <4>3, CoverGrows
      <4> QED
        BY <2>6, <3>1, <4>4 DEF w
    <3>2. CASE j # i
      <4>1. Outstanding(j)' <= Outstanding(j)
        BY <2>3, <2>5, <3>2
      <4>2. Covers(taken, Outstanding(j)', wave[j], stakes'[j].amount)
        BY <2>3, <2>4, <2>6, <4>1, CoverGrows
      <4>3. wave[j] + (IF j \in {i} THEN 1 ELSE 0) = wave[j]
        BY <2>4, <3>2
      <4> QED
        BY <2>6, <4>2, <4>3
    <3> QED
      BY <3>1, <3>2
  <2>7. StillCovered(j, {i}, {})
    BY <2>6 DEF StillCovered
  <2>8. stakes'[j].amount \in Nat
    BY <2>4
  <2> QED
    BY <1>8, <2>1, <2>7, <2>8, CoverStep
<1>13. PenaltiesCovered'
  BY <1>12 DEF PenaltiesCovered
<1> QED
  BY <1>8, <1>9, <1>10, <1>11, <1>13 DEF StackInv

\* forceSlash keeps what StakeManager keeps: stake and balance fall together,
\* and the lock stays.
LEMMA ForceSlashKeeps ==
    ASSUME IInv, NEW i \in Indexers, NEW penalty \in Nat, ForceSlash(i, penalty)
    PROVE  /\ IInv'
           /\ \A j \in Indexers : stakes'[j].amount <= stakes[j].amount
<1> DEFINE new == [stakes[i] EXCEPT !.amount = @ - penalty]
<1>1. /\ stakes[i].amount >= penalty /\ balance >= penalty
      /\ stakes' = [stakes EXCEPT ![i] = new]
      /\ balance' = balance - penalty
      /\ UNCHANGED <<wallet, now, queued, stranded, queuedAt>>
  BY DEF ForceSlash, IInv, TypeOK
<1>2. /\ stakes[i] \in [amount : Nat, lockedUntil : Nat]
      /\ stakes[i].amount \in Nat /\ balance \in Nat /\ stranded \in Nat
  BY DEF IInv, TypeOK
<1>3. /\ new \in [amount : Nat, lockedUntil : Nat]
      /\ new.amount = stakes[i].amount - penalty
      /\ new.lockedUntil = stakes[i].lockedUntil
  BY <1>1, <1>2
<1> HIDE DEF new
<1>4. TypeOK'
  BY <1>1, <1>2, <1>3 DEF IInv, TypeOK
<1>5. StakesBacked'
  <2>1. /\ Staked \in Nat /\ Staked' \in Nat
        /\ Staked' + stakes[i].amount = Staked + new.amount
    BY <1>1, <1>3, StakedChange DEF IInv
  <2>2. Staked' = Staked - penalty
    BY <1>1, <1>2, <1>3, <2>1
  <2>3. Queued' = Queued /\ Queued \in Nat
    BY <1>1, TotalsType DEF IInv, Queued
  <2> QED
    BY <1>1, <1>2, <2>1, <2>2, <2>3 DEF IInv, StakesBacked
<1>6. LocksHold'
  BY <1>1, <1>3 DEF IInv, TypeOK, LocksHold
<1>7. \A j \in Indexers : stakes'[j].amount <= stakes[j].amount
  BY <1>1, <1>2, <1>3 DEF IInv, TypeOK
<1> QED
  BY <1>4, <1>5, <1>6, <1>7 DEF IInv

\* slash keeps the invariant: what it takes was pending until then, and is not
\* pending afterwards.
LEMMA SlashKeeps ==
    ASSUME StackInv, NEW id \in DOMAIN challenges, NEW valid \in BOOLEAN,
           Slash(id, valid)
    PROVE  StackInv' /\ PaysUnbonded
<1> DEFINE old == challenges[id]
           new == Resolved(challenges[id])
           penalty == Penalty(challenges[id].stakeAtRisk)
<1>1. /\ ~ old.resolved
      /\ challenges' = [challenges EXCEPT ![id] = new]
      /\ IF valid THEN ForceSlash(id.indexer, penalty)
         ELSE UNCHANGED <<vars, slashed>>
      /\ UNCHANGED <<delegatedStake, delegatorShares, delegated, purse, peak,
                     atRisk, openings>>
  BY DEF Slash, delegation
<1>2. Records(challenges) /\ id.indexer \in Indexers /\ old \in Challenge
  BY DEF StackInv, StackTypeOK, Records, ChallengeIds
<1>3. old.stakeAtRisk \in Nat /\ new \in Challenge /\ new.resolved
  BY <1>2 DEF Challenge, Resolved
<1>4. penalty \in Nat
  BY <1>3, PenaltyType
<1>5. /\ Cost(id.indexer, id, old) = penalty
      /\ \A j \in Indexers \ {id.indexer} : Cost(j, id, old) = 0
      /\ \A j \in Indexers : Cost(j, id, new) = 0
  BY <1>1, <1>3 DEF Cost
<1> HIDE DEF new, old, penalty
<1>6. /\ DOMAIN challenges' = DOMAIN challenges
      /\ \A x \in DOMAIN challenges \ {id} : challenges'[x] = challenges[x]
      /\ challenges'[id] = new
  BY <1>1
<1>7. Records(challenges')
  BY <1>2, <1>3, <1>6 DEF Records
<1>8. /\ wallet' = wallet
      /\ \/ slashed' = slashed
         \/ slashed' = [slashed EXCEPT ![id.indexer] = @ + penalty]
  BY <1>1 DEF ForceSlash, vars
<1>9. StackTypeOK'
  <2>1. Watch({}, {})
    BY DEF Slash
  <2> QED
    BY <1>1, <1>2, <1>4, <1>7, <1>8, <2>1, HistoryType DEF StackInv, StackTypeOK
<1>10. IInv' /\ \A j \in Indexers : stakes'[j].amount <= stakes[j].amount
  <2>1. CASE valid
    BY <1>1, <1>2, <1>4, <2>1, ForceSlashKeeps DEF StackInv
  <2>2. CASE ~ valid
    BY <1>1, <2>2 DEF StackInv, IInv, TypeOK, StakesBacked, Staked, Queued, LocksHold, vars
  <2> QED
    BY <2>1, <2>2
<1>11. PenaltiesPending'
  <2> SUFFICES ASSUME NEW j \in Indexers
               PROVE  slashed'[j] + Pending(j, challenges') <= atRisk'[j]
    BY DEF PenaltiesPending
  <2>1. /\ slashed[j] \in Nat /\ atRisk[j] \in Nat /\ atRisk'[j] = atRisk[j]
        /\ slashed[j] + Pending(j, challenges) <= atRisk[j]
    BY <1>1 DEF StackInv, StackTypeOK, PenaltiesPending
  <2>2. /\ Pending(j, challenges) \in Nat /\ Pending(j, challenges') \in Nat
        /\ Cost(j, id, old) \in Nat
    BY <1>2, <1>7, PendingType, CostType
  <2>3. DOMAIN challenges' = DOMAIN challenges \cup {id}
    BY <1>6
  <2>4. Pending(j, challenges') + Cost(j, id, old) = Pending(j, challenges) + 0
    <3>1. id \in DOMAIN challenges =>
              Pending(j, challenges') + Cost(j, id, challenges[id])
                  = Pending(j, challenges) + Cost(j, id, challenges'[id])
      <4>1. \A x \in DOMAIN challenges \ {id} : challenges'[x] = challenges[x]
        BY <1>6
      <4> QED
        BY <1>2, <1>7, <2>3, <4>1, PendingChange
    <3>2. challenges[id] = old /\ Cost(j, id, challenges'[id]) = 0
      BY <1>5, <1>6 DEF old
    <3> QED
      BY <3>1, <3>2
  <2>5. slashed'[j] <= slashed[j] + Cost(j, id, old) /\ slashed'[j] \in Nat
    <3>1. CASE j = id.indexer
      BY <1>4, <1>5, <1>8, <2>1, <3>1 DEF StackInv, StackTypeOK
    <3>2. CASE j # id.indexer
      BY <1>5, <1>8, <2>1, <3>2 DEF StackInv, StackTypeOK
    <3> QED
      BY <3>1, <3>2
  <2> QED
    BY <2>1, <2>2, <2>4, <2>5
<1>12. PeaksHold'
  <2> SUFFICES ASSUME NEW j \in Indexers PROVE stakes'[j].amount <= peak'[j]
    BY DEF PeaksHold
  <2>1. stakes'[j].amount \in Nat /\ stakes[j].amount \in Nat /\ peak[j] \in Nat
    BY <1>10 DEF StackInv, StackTypeOK, IInv, TypeOK
  <2>2. stakes[j].amount <= peak[j] /\ peak'[j] = peak[j]
    BY <1>1 DEF StackInv, PeaksHold
  <2> QED
    BY <1>10, <2>1, <2>2
<1>13. DelegationsBacked' /\ WithinPeakCapacity'
  BY <1>1 DEF StackInv, DelegationsBacked, WithinPeakCapacity
<1>14. PaysUnbonded
  BY <1>8, NobodyPaid DEF StackInv, IInv
<1>15. ASSUME NEW j \in Indexers PROVE Covered(j)'
  <2>1. Watch({}, {})
    BY DEF Slash
  <2> DEFINE was == Owed(j, challenges, now)[id]
             is  == Owed(j, challenges', now')[id]
             less == stakes[j].amount - stakes'[j].amount
  <2>2. now \in Nat /\ now' = now
    BY <1>1 DEF StackInv, IInv, TypeOK, ForceSlash, vars
  <2>3. was = IF id.indexer = j THEN penalty ELSE 0
    BY <1>1 DEF Owed, Slash, InTime, old, penalty
  <2>4. is = 0
    BY <1>3, <1>6 DEF Owed
  <2>5. /\ stakes[j].amount \in Nat /\ stakes'[j].amount \in Nat /\ less \in Nat
        /\ wave[j] \in Nat /\ less <= stakes[j].amount
    BY <1>9, <1>10 DEF StackInv, StackTypeOK, IInv, TypeOK
  <2>6. less \in {0, was}
    <3>1. CASE valid
      <4>1. stakes' = [stakes EXCEPT ![id.indexer].amount = @ - penalty]
        BY <1>1, <3>1 DEF ForceSlash
      <4>2. stakes[j] \in [amount : Nat, lockedUntil : Nat]
        BY DEF StackInv, IInv, TypeOK
      <4>3. stakes'[j].amount = stakes[j].amount - (IF id.indexer = j THEN penalty ELSE 0)
        BY <1>4, <4>1, <4>2 DEF StackInv, IInv, TypeOK
      <4> HIDE DEF was
      <4> QED
        BY <1>4, <2>3, <2>5, <4>3
    <3>2. CASE ~ valid
      <4>1. stakes' = stakes
        BY <1>1, <3>2 DEF vars
      <4> QED
        BY <2>5, <4>1
    <3> QED
      BY <3>1, <3>2
  <2> HIDE DEF was, is
  <2>7. /\ Outstanding(j) \in Nat /\ Outstanding(j)' \in Nat
        /\ Outstanding(j)' + was <= Outstanding(j) + is
    <3>1. DOMAIN challenges' = DOMAIN challenges \cup {id}
      BY <1>6
    <3>2. \A x \in DOMAIN challenges \ {id} : challenges'[x] = challenges[x]
      BY <1>6
    <3> QED
      BY <1>2, <1>7, <2>2, <3>1, <3>2, OutstandingChange DEF was, is
  <2>8. was \in Nat
    BY <1>4, <2>3
  <2>9. stakes'[j].amount = stakes[j].amount - less
    BY <2>5
  <2> HIDE DEF less
  <2>10. less <= Outstanding(j) /\ Outstanding(j)' <= Outstanding(j) - less
    BY <2>4, <2>6, <2>7, <2>8
  <2>11. ASSUME NEW taken \in Nat, j \notin {},
                Covers(taken, Outstanding(j), wave[j], stakes[j].amount)
         PROVE  \E more \in Nat :
                    Covers(more, Outstanding(j)',
                           wave[j] + (IF j \in {} THEN 1 ELSE 0), stakes'[j].amount)
    <3> DEFINE more == taken + less
               most == Outstanding(j) - less
    <3>1. Covers(more, most, wave[j], stakes'[j].amount)
      BY <2>5, <2>7, <2>9, <2>10, <2>11, CoverSlashed
    <3>2. more \in Nat /\ most \in Nat /\ Outstanding(j)' \in 0 .. most
      BY <2>5, <2>7, <2>10
    <3> HIDE DEF more, most
    <3>3. Covers(more, Outstanding(j)', wave[j], stakes'[j].amount)
      <4>1. stakes'[j].amount <= stakes'[j].amount
        BY <2>5
      <4> QED
        BY <2>5, <3>1, <3>2, <4>1, CoverGrows
    <3>4. wave[j] + (IF j \in {} THEN 1 ELSE 0) = wave[j]
      BY <2>5
    <3> QED
      BY <3>2, <3>3, <3>4
  <2>12. StillCovered(j, {}, {})
    BY <2>11 DEF StillCovered
  <2> QED
    BY <1>9, <2>1, <2>5, <2>12, CoverStep
<1>16. PenaltiesCovered'
  BY <1>15 DEF PenaltiesCovered
<1> QED
  BY <1>9, <1>10, <1>11, <1>12, <1>13, <1>14, <1>16 DEF StackInv

\* The DelegationManager's books after a change of one indexer's delegations and
\* one delegator's shares by the same amount.
LEMMA BooksChange ==
    ASSUME StackInv, NEW d \in Delegators, NEW i \in Indexers,
           NEW shares \in Nat, NEW total \in Nat, delegated' \in Nat,
           delegatorShares' = [delegatorShares EXCEPT ![d] = shares],
           delegatedStake' = [delegatedStake EXCEPT ![i] = total],
           delegated' + delegatorShares[d] = delegated + shares,
           delegated' + delegatedStake[i] = delegated + total
    PROVE  DelegationsBacked'
<1>1. /\ delegatedStake \in [Indexers -> Nat] /\ delegatorShares \in [Delegators -> Nat]
      /\ delegated \in Nat
      /\ delegated = Tally(delegatedStake, Indexers)
      /\ delegated = Tally(delegatorShares, Delegators)
  BY DEF StackInv, StackTypeOK, DelegationsBacked
<1> DEFINE f == delegatedStake
           g == delegatedStake'
           p == delegatorShares
           q == delegatorShares'
<1>2. /\ f \in [Indexers -> Nat] /\ g \in [Indexers -> Nat] /\ g[i] = total
      /\ \A y \in Indexers \ {i} : f[y] = g[y]
      /\ p \in [Delegators -> Nat] /\ q \in [Delegators -> Nat] /\ q[d] = shares
      /\ \A y \in Delegators \ {d} : p[y] = q[y]
  BY <1>1
<1>3. /\ delegated = Tally(f, Indexers) /\ delegated = Tally(p, Delegators)
      /\ delegated' + f[i] = delegated + total
      /\ delegated' + p[d] = delegated + shares
      /\ delegated' \in Nat /\ f[i] \in Nat /\ p[d] \in Nat
  BY <1>1
<1> HIDE DEF f, g, p, q
<1>4. Tally(g, Indexers) + f[i] = Tally(f, Indexers) + g[i]
  BY <1>2, TallyUpdate, IndexersAssumption
<1>5. Tally(q, Delegators) + p[d] = Tally(p, Delegators) + q[d]
  BY <1>2, TallyUpdate, DelegatorsAssumption
<1>6. Tally(g, Indexers) \in Nat /\ Tally(q, Delegators) \in Nat
  BY <1>2, TallyType, IndexersAssumption, DelegatorsAssumption
<1>7. delegated' = Tally(g, Indexers) /\ delegated' = Tally(q, Delegators)
  BY <1>2, <1>3, <1>4, <1>5, <1>6
<1> QED
  BY <1>7 DEF DelegationsBacked, g, q

\* delegate keeps the invariant.
LEMMA DelegateKeeps ==
    ASSUME StackInv, NEW d \in Delegators, NEW i \in Indexers,
           NEW amount \in DelegationAmounts, Delegate(d, i, amount)
    PROVE  StackInv' /\ PaysUnbonded
<1>1. amount \in Nat
  BY StackAssumption
<1>2. StackTypeOK
  BY DEF StackInv
<1> DEFINE shares == delegatorShares[d] + amount
           total  == delegatedStake[i] + amount
<1>3. /\ total <= stakes[i].amount * CapacityMultiple
      /\ purse[d] >= amount
      /\ delegatorShares' = [delegatorShares EXCEPT ![d] = shares]
      /\ delegatedStake' = [delegatedStake EXCEPT ![i] = total]
      /\ purse' = [purse EXCEPT ![d] = @ - amount]
      /\ delegated' = delegated + amount
      /\ UNCHANGED <<stakes, wallet, balance, now, queued, stranded, queuedAt,
                     challenges, slashed, atRisk, openings, peak, wave, escaped>>
  BY <1>1, <1>2, SharesAreAmounts DEF Delegate, Fits, vars, slashing, history
<1>4. /\ delegatorShares[d] \in Nat /\ delegatedStake[i] \in Nat /\ delegated \in Nat
      /\ purse[d] \in Nat /\ purse[d] - amount \in Nat
      /\ shares \in Nat /\ total \in Nat
  BY <1>1, <1>2, <1>3 DEF StackTypeOK
<1>5. /\ delegated' + delegatorShares[d] = delegated + shares
      /\ delegated' + delegatedStake[i] = delegated + total
      /\ delegated' \in Nat
  BY <1>1, <1>3, <1>4
<1> HIDE DEF shares, total
<1>6. StackTypeOK'
  BY <1>2, <1>3, <1>4, <1>5 DEF StackTypeOK
<1>7. DelegationsBacked'
  BY <1>3, <1>4, <1>5, BooksChange
<1>8. WithinPeakCapacity'
  <2>1. /\ stakes[i].amount \in Nat /\ peak[i] \in Nat /\ stakes[i].amount <= peak[i]
        /\ CapacityMultiple \in Nat
    BY StackAssumption DEF StackInv, StackTypeOK, PeaksHold, IInv, TypeOK
  <2>2. CapacityMultiple * stakes[i].amount <= CapacityMultiple * peak[i]
    BY <2>1, CapacityGrows
  <2>3. stakes[i].amount * CapacityMultiple = CapacityMultiple * stakes[i].amount
    BY <2>1
  <2>4. CapacityMultiple * stakes[i].amount \in Nat /\ CapacityMultiple * peak[i] \in Nat
    BY <2>1
  <2>5. total <= CapacityMultiple * peak[i]
    BY <1>3, <1>4, <2>2, <2>3, <2>4
  <2> QED
    BY <1>2, <1>3, <2>5 DEF StackInv, StackTypeOK, WithinPeakCapacity
<1>9. IInv' /\ PaysUnbonded
  BY <1>3, NobodyPaid DEF StackInv, IInv, TypeOK, StakesBacked, Staked, Queued, LocksHold
<1>10. PeaksHold' /\ PenaltiesPending' /\ PenaltiesCovered'
  BY <1>3, CoverKept DEF StackInv, PeaksHold, PenaltiesPending
<1> QED
  BY <1>6, <1>7, <1>8, <1>9, <1>10 DEF StackInv

\* undelegate keeps the invariant, also for shares bought from another indexer.
LEMMA UndelegateKeeps ==
    ASSUME StackInv, NEW d \in Delegators, NEW i \in Indexers,
           NEW amount \in DelegationAmounts, Undelegate(d, i, amount)
    PROVE  StackInv' /\ PaysUnbonded
<1>1. amount \in Nat
  BY StackAssumption
<1>2. StackTypeOK
  BY DEF StackInv
<1> DEFINE shares == delegatorShares[d] - amount
           total  == delegatedStake[i] - amount
<1>3. /\ delegatorShares[d] >= amount /\ delegatedStake[i] >= amount
      /\ delegated >= amount
      /\ delegatorShares' = [delegatorShares EXCEPT ![d] = shares]
      /\ delegatedStake' = [delegatedStake EXCEPT ![i] = total]
      /\ purse' = [purse EXCEPT ![d] = @ + amount]
      /\ delegated' = delegated - amount
      /\ UNCHANGED <<stakes, wallet, balance, now, queued, stranded, queuedAt,
                     challenges, slashed, atRisk, openings, peak, wave, escaped>>
  BY <1>1, <1>2, SharesAreAmounts DEF Undelegate, vars, slashing, history
<1>4. /\ delegatorShares[d] \in Nat /\ delegatedStake[i] \in Nat /\ delegated \in Nat
      /\ purse[d] + amount \in Nat
      /\ shares \in Nat /\ total \in Nat /\ total <= delegatedStake[i]
  BY <1>1, <1>2, <1>3 DEF StackTypeOK
<1>5. /\ delegated' + delegatorShares[d] = delegated + shares
      /\ delegated' + delegatedStake[i] = delegated + total
      /\ delegated' \in Nat
  BY <1>1, <1>3, <1>4
<1> HIDE DEF shares, total
<1>6. StackTypeOK'
  BY <1>2, <1>3, <1>4, <1>5 DEF StackTypeOK
<1>7. DelegationsBacked'
  BY <1>3, <1>4, <1>5, BooksChange
<1>8. WithinPeakCapacity'
  <2>1. peak[i] \in Nat /\ CapacityMultiple \in Nat
    BY <1>2, StackAssumption DEF StackTypeOK
  <2>2. CapacityMultiple * peak[i] \in Nat
    BY <2>1
  <2>3. delegatedStake[i] <= CapacityMultiple * peak[i]
    BY DEF StackInv, WithinPeakCapacity
  <2>4. total <= CapacityMultiple * peak[i]
    BY <1>4, <2>2, <2>3
  <2> QED
    BY <1>2, <1>3, <2>4 DEF StackInv, StackTypeOK, WithinPeakCapacity
<1>9. IInv' /\ PaysUnbonded
  BY <1>3, NobodyPaid DEF StackInv, IInv, TypeOK, StakesBacked, Staked, Queued, LocksHold
<1>10. PeaksHold' /\ PenaltiesPending' /\ PenaltiesCovered'
  BY <1>3, CoverKept DEF StackInv, PeaksHold, PenaltiesPending
<1> QED
  BY <1>6, <1>7, <1>8, <1>9, <1>10 DEF StackInv

\* Every step of the stack keeps the invariant and pays nobody before time.
LEMMA StackNextKeeps ==
    ASSUME StackInv, [StackNext]_stack
    PROVE  StackInv' /\ PaysUnbonded
<1>1. CASE StakeStep
  BY <1>1, StakeStepKeeps
<1>2. CASE \E i \in Indexers, c \in Challengers, e \in Evidence : OpenChallenge(i, c, e)
  BY <1>2, OpenChallengeKeeps
<1>3. CASE \E i \in Indexers, d \in Delegators, amount \in DelegationAmounts :
              Delegate(d, i, amount)
  BY <1>3, DelegateKeeps
<1>4. CASE \E i \in Indexers, d \in Delegators, amount \in DelegationAmounts :
              Undelegate(d, i, amount)
  BY <1>4, UndelegateKeeps
<1>5. CASE \E id \in DOMAIN challenges, valid \in BOOLEAN : Slash(id, valid)
  BY <1>5, SlashKeeps
<1>6. CASE UNCHANGED stack
  <2>1. UNCHANGED <<stakes, wallet, balance, now, queued, stranded, queuedAt>>
    BY <1>6 DEF stack, vars
  <2>2. UNCHANGED <<challenges, slashed, atRisk, openings, delegatedStake,
                    delegatorShares, delegated, purse, peak, wave, escaped>>
    BY <1>6 DEF stack, slashing, delegation, history
  <2>3. IInv' /\ PaysUnbonded
    BY <2>1, NobodyPaid DEF StackInv, IInv, TypeOK, StakesBacked, Staked, Queued, LocksHold
  <2>4. /\ StackTypeOK' /\ DelegationsBacked' /\ PeaksHold' /\ WithinPeakCapacity'
        /\ PenaltiesPending' /\ PenaltiesCovered'
    BY <2>1, <2>2, CoverKept DEF StackInv, StackTypeOK, DelegationsBacked, PeaksHold,
                                 WithinPeakCapacity, PenaltiesPending
  <2> QED
    BY <2>3, <2>4 DEF StackInv
<1> QED
  BY <1>1, <1>2, <1>3, <1>4, <1>5, <1>6 DEF StackNext

\* The invariant holds when the contracts are deployed.
LEMMA StackInitInv == StackInit => StackInv
<1> SUFFICES ASSUME StackInit PROVE StackInv
  OBVIOUS
<1>1. IInv
  BY InitIInv DEF StackInit
<1>2. DOMAIN challenges = {}
  BY DEF StackInit
<1>3. StackTypeOK
  BY <1>2, FS_EmptySet, StackAssumption DEF StackInit, StackTypeOK, Records
<1>4. DelegationsBacked
  <2>1. Tally(delegatedStake, Indexers) = 0
    BY TallyZero DEF StackInit
  <2>2. Tally(delegatorShares, Delegators) = 0
    BY TallyZero DEF StackInit
  <2> QED
    BY <2>1, <2>2 DEF StackInit, DelegationsBacked
<1>5. PeaksHold
  BY DEF StackInit, Init, PeaksHold
<1>6. WithinPeakCapacity
  BY StackAssumption DEF StackInit, WithinPeakCapacity
<1>7. PenaltiesPending
  <2> SUFFICES ASSUME NEW i \in Indexers
               PROVE  slashed[i] + Pending(i, challenges) <= atRisk[i]
    BY DEF PenaltiesPending
  <2>1. Pending(i, challenges) = 0
    BY <1>2, TallyZero DEF Pending
  <2> QED
    BY <2>1 DEF StackInit
<1>8. PenaltiesCovered
  <2> SUFFICES ASSUME NEW i \in Indexers PROVE Covered(i)
    BY DEF PenaltiesCovered
  <2>1. Outstanding(i) = 0
    <3>1. \A id \in DOMAIN challenges : Owed(i, challenges, now)[id] = 0
      BY <1>2
    <3> QED
      BY <3>1, TallyZero, OutstandingIsOwed
  <2>2. wave[i] = 0 /\ stakes[i].amount \in Nat
    BY <1>1 DEF StackInit, IInv, TypeOK
  <2>3. Covers(0, 0, 0, stakes[i].amount)
    BY <2>2, CoverNothing
  <2> QED
    BY <2>1, <2>2, <2>3 DEF Covered
<1> QED
  BY <1>1, <1>3, <1>4, <1>5, <1>6, <1>7, <1>8 DEF StackInv

-----------------------------------------------------------------------------
(* The theorems about the stack.                                           *)

\* The inductive invariant holds of every reachable state of the stack.
THEOREM StackInductive == StackSpec => []StackInv
<1>1. StackInv /\ [StackNext]_stack => StackInv'
  BY StackNextKeeps
<1> QED
  BY <1>1, StackInitInv, PTL DEF StackSpec

\* Slashes take no more from an indexer than the penalties of the challenges
\* opened against it, also when a challenge is opened again in its block.
THEOREM PenaltiesAlwaysBounded == StackSpec => []PenaltiesBounded
<1>1. StackInv => PenaltiesBounded
  <2> SUFFICES ASSUME StackInv, NEW i \in Indexers PROVE slashed[i] <= atRisk[i]
    BY DEF PenaltiesBounded
  <2>1. Pending(i, challenges) \in Nat
    BY PendingType DEF StackInv, StackTypeOK
  <2>2. /\ slashed[i] \in Nat /\ atRisk[i] \in Nat
        /\ slashed[i] + Pending(i, challenges) <= atRisk[i]
    BY DEF StackInv, StackTypeOK, PenaltiesPending
  <2> QED
    BY <2>1, <2>2
<1> QED
  BY <1>1, StackInductive, PTL

\* Slashes alone leave an indexer enough stake for every penalty that can still
\* be collected from it.
THEOREM AlwaysEscapesByExit == StackSpec => []EscapesByExit
<1>1. StackInv => EscapesByExit
  <2> SUFFICES ASSUME StackInv, NEW i \in Indexers, ~ escaped[i],
                      wave[i] * SlashPercent <= 10000
               PROVE  Outstanding(i) <= stakes[i].amount
    BY DEF EscapesByExit
  <2>1. Covered(i) /\ wave[i] \in Nat /\ Outstanding(i) \in Nat /\ stakes[i].amount \in Nat
    <3>1. Records(challenges) /\ now \in Nat
      BY DEF StackInv, StackTypeOK, IInv, TypeOK
    <3>2. Outstanding(i) \in Nat
      BY <3>1, OutstandingType
    <3> QED
      BY <3>2 DEF StackInv, StackTypeOK, IInv, TypeOK, PenaltiesCovered
  <2>2. PICK taken \in Nat : Covers(taken, Outstanding(i), wave[i], stakes[i].amount)
    BY <2>1 DEF Covered
  <2> QED
    BY <2>1, <2>2, WithinStake
<1> QED
  BY <1>1, StackInductive, PTL

\* The delegations to an indexer stay within the capacity of its largest stake.
THEOREM AlwaysWithinPeakCapacity == StackSpec => []WithinPeakCapacity
<1>1. StackInv => WithinPeakCapacity
  BY DEF StackInv
<1> QED
  BY <1>1, StackInductive, PTL

\* The DelegationManager holds what its two ledgers say.
THEOREM DelegationsAlwaysBacked == StackSpec => []DelegationsBacked
<1>1. StackInv => DelegationsBacked
  BY DEF StackInv
<1> QED
  BY <1>1, StackInductive, PTL

\* StakeManager holds its stakes and queues also when stake is slashed.
THEOREM StackStakesBacked == StackSpec => []StakesBacked
<1>1. StackInv => StakesBacked
  BY DEF StackInv, IInv
<1> QED
  BY <1>1, StackInductive, PTL

\* Slashing and delegation let nobody out of the unbonding period either.
THEOREM StackExitsAfterUnbonding == StackSpec => ExitAfterUnbonding
<1>1. StackInv /\ [StackNext]_stack => [PaysUnbonded]_vars
  BY StackNextKeeps
<1> QED
  BY <1>1, StackInductive, PTL DEF StackSpec, ExitAfterUnbonding
=============================================================================
