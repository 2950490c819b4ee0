------------------------- MODULE DelegationPoolProofs -------------------------
(***************************************************************************)
(* Proofs, for every value of the constants, of the safety properties of   *)
(* DelegationPool.  No conjunct of the inductive invariant IInv is         *)
(* inductive alone: the types of the subtractions rest on the prices, the  *)
(* prices on the shares being accounted for, the bound on claims on the    *)
(* shares again.                                                           *)
(***************************************************************************)
EXTENDS DelegationPool, LedgerLemmas

\* A queued exit is locked for a full unbonding period from the last request.
ExitsLocked ==
    \A d \in Delegators :
        withdrawals[d].amount > 0
            => withdrawals[d].unlockTime >= exitedAt[d] + UnbondingPeriod

\* No step lowers the tokens behind a share of a pool that keeps issuing shares (a
\* price is compared by cross multiplication).
KeepsPrices ==
    \A i \in Indexers :
        pools'[i].shares > 0 =>
            pools'[i].tokens * pools[i].shares
                >= pools[i].tokens * pools'[i].shares

IInv == /\ TypeOK
        /\ SharesAccounted
        /\ PoolsPriced
        /\ Backed
        /\ ClaimsWithinRewards
        /\ ExitsLocked

-----------------------------------------------------------------------------
(* The contract's sums are naturals, and no delegator holds more shares    *)
(* than there are.                                                         *)

\* The sums over delegators and indexers are natural numbers.
LEMMA SumTypes ==
    ASSUME TypeOK
    PROVE  /\ \A i \in Indexers : Held(i) \in Nat
           /\ Pooled \in Nat /\ Pending \in Nat /\ Accrued \in Nat
<1>1. \A i \in Indexers : [d \in Delegators |-> sharesOf[d][i]] \in [Delegators -> Nat]
  BY DEF TypeOK
<1>2. [i \in Indexers |-> pools[i].tokens] \in [Indexers -> Nat]
  BY DEF TypeOK
<1>3. [d \in Delegators |-> withdrawals[d].amount] \in [Delegators -> Nat]
  BY DEF TypeOK
<1>4. claimable \in [Indexers -> Nat]
  BY DEF TypeOK
<1> QED
  BY <1>1, <1>2, <1>3, <1>4, TallyType, HoldersAssumption
     DEF Held, Pooled, Pending, Accrued

\* No delegator holds more shares of a pool than it has issued.
LEMMA HoldingWithinIssue ==
    ASSUME TypeOK, SharesAccounted, NEW d \in Delegators, NEW i \in Indexers
    PROVE  sharesOf[d][i] <= pools[i].shares
<1> DEFINE f == [e \in Delegators |-> sharesOf[e][i]]
<1>1. f \in [Delegators -> Nat]
  BY DEF TypeOK
<1>2. f[d] <= Tally(f, Delegators)
  BY <1>1, TallyAtLeastPart, HoldersAssumption
<1> QED
  BY <1>2 DEF SharesAccounted, Held

-----------------------------------------------------------------------------
(* What each calculation of the contract yields in a state of IInv.        *)

\* What a deposit mints is a natural number and keeps the pool priced.
LEMMA DelegateFacts ==
    ASSUME IInv, NEW i \in Indexers, NEW amount \in Nat
    PROVE  LET p == pools[i]
               m == SharesForAmount(amount, p.tokens, p.shares)
           IN  /\ m \in Nat
               /\ p.shares + m <= p.tokens + amount
               /\ \/ p.shares = 0
                  \/ p.tokens * (p.shares + m) <= (p.tokens + amount) * p.shares
<1>1. pools[i].tokens \in Nat /\ pools[i].shares \in Nat
  BY DEF IInv, TypeOK
<1>2. /\ pools[i].shares <= pools[i].tokens
      /\ pools[i].shares = 0 => pools[i].tokens = 0
  BY <1>1 DEF IInv, PoolsPriced
<1> QED
  BY <1>1, <1>2, MintKeepsPrice

\* What a burn pays out is covered by the pool and keeps it priced.
LEMMA UndelegateFacts ==
    ASSUME IInv, NEW d \in Delegators, NEW i \in Indexers, NEW shares \in Nat,
           pools[i].shares # 0, shares <= sharesOf[d][i]
    PROVE  LET p   == pools[i]
               out == AmountForShares(shares, p.tokens, p.shares)
           IN  /\ out \in Nat
               /\ out <= p.tokens
               /\ shares <= p.shares
               /\ p.shares - shares <= p.tokens - out
               /\ shares = p.shares => out = p.tokens
               /\ p.tokens * (p.shares - shares) <= (p.tokens - out) * p.shares
<1>1. pools[i].tokens \in Nat /\ pools[i].shares \in Nat \ {0}
  BY DEF IInv, TypeOK
<1>2. pools[i].shares <= pools[i].tokens
  BY <1>1 DEF IInv, PoolsPriced
<1>3. sharesOf[d][i] \in Nat /\ sharesOf[d][i] <= pools[i].shares
  BY HoldingWithinIssue DEF IInv, TypeOK
<1>4. shares <= pools[i].shares
  BY <1>1, <1>3
<1> QED
  BY <1>1, <1>2, <1>4, BurnKeepsPrice

\* What a claim owes is an integer, at most the rewards just pulled.
LEMMA ClaimFacts ==
    ASSUME IInv, NEW d \in Delegators, NEW i \in Indexers, pools[i].shares # 0
    PROVE  LET owed == RewardShare(sharesOf[d][i],
                                   pools[i].tokens + claimable[i],
                                   claimable[i], pools[i].shares)
           IN  owed \in Int /\ owed <= claimable[i]
<1>1. /\ pools[i].tokens \in Nat /\ pools[i].shares \in Nat \ {0}
      /\ claimable[i] \in Nat /\ sharesOf[d][i] \in Nat
  BY DEF IInv, TypeOK
<1>2. sharesOf[d][i] <= pools[i].shares
  BY HoldingWithinIssue DEF IInv
<1>3. (pools[i].tokens + claimable[i]) - claimable[i] = pools[i].tokens
  BY <1>1
<1> QED
  BY <1>1, <1>2, <1>3, RewardShareBounded DEF RewardShare

-----------------------------------------------------------------------------
(* Every step keeps every conjunct of IInv.                                *)

\* The types are kept: no subtraction goes below zero.
LEMMA TypeStep ==
    ASSUME IInv, [Next]_vars
    PROVE  TypeOK'
<1>1. ASSUME NEW d \in Delegators, NEW i \in Indexers,
             NEW amount \in DepositAmounts, Delegate(d, i, amount)
      PROVE  TypeOK'
  <2>1. amount \in Nat
    BY <1>1, InputsAssumption
  <2>2. SharesForAmount(amount, pools[i].tokens, pools[i].shares) \in Nat
    BY <2>1, DelegateFacts
  <2> QED
    BY <1>1, <2>1, <2>2 DEF IInv, TypeOK, Delegate, Mint, environment
<1>2. ASSUME NEW d \in Delegators, NEW i \in Indexers,
             NEW shares \in ShareAmounts, Undelegate(d, i, shares)
      PROVE  TypeOK'
  <2> DEFINE out == AmountForShares(shares, pools[i].tokens, pools[i].shares)
  <2>1. shares \in Nat
    BY <1>2, InputsAssumption
  <2>2. out \in Nat
    BY <1>2, <2>1, UndelegateFacts DEF Undelegate, MayBurn
  <2>3. pools[i].tokens >= out /\ pools[i].shares >= shares
    BY <1>2 DEF Undelegate
  <2>4. shares <= sharesOf[d][i]
    BY <1>2 DEF Undelegate, MayBurn
  <2> HIDE DEF out
  <2>5. Burn(pools[i], shares, out) \in [tokens : Nat, shares : Nat]
    BY <2>1, <2>2, <2>3 DEF IInv, TypeOK, Burn
  <2>6. Queued(withdrawals[d], out, now + UnbondingPeriod)
          \in [amount : Nat, unlockTime : Nat]
    BY <2>2, ParametersAssumption DEF IInv, TypeOK, Queued, Later
  <2>7. pools' \in [Indexers -> [tokens : Nat, shares : Nat]]
    BY <1>2, <2>5 DEF IInv, TypeOK, Undelegate, out
  <2>8. withdrawals' \in [Delegators -> [amount : Nat, unlockTime : Nat]]
    BY <1>2, <2>6 DEF IInv, TypeOK, Undelegate, out
  <2>9. sharesOf' \in [Delegators -> [Indexers -> Nat]]
    BY <1>2, <2>1, <2>4 DEF IInv, TypeOK, Undelegate
  <2> QED
    BY <1>2, <2>7, <2>8, <2>9 DEF IInv, TypeOK, Undelegate, environment
<1>3. ASSUME NEW d \in Delegators, NEW i \in Indexers, ClaimRewards(d, i)
      PROVE  TypeOK'
  <2> DEFINE total == pools[i].tokens + claimable[i]
             owed  == RewardShare(sharesOf[d][i], total, claimable[i],
                                  pools[i].shares)
  <2>1. claimable[i] \in Nat
    BY DEF IInv, TypeOK
  <2>2. owed \in Int /\ owed > 0
    BY <1>3, ClaimFacts DEF ClaimRewards
  <2>3. balance + claimable[i] >= owed
    BY <1>3 DEF ClaimRewards
  <2>4. owed \in Nat
    BY <2>2
  <2>5. /\ pools' = [pools EXCEPT ![i] = Mint(@, claimable[i], 0)]
        /\ claimable' = [claimable EXCEPT ![i] = 0]
        /\ balance' = (balance + claimable[i]) - owed
        /\ wallet' = [wallet EXCEPT ![d] = @ + owed]
        /\ claimed' = claimed + owed
    BY <1>3 DEF ClaimRewards
  <2> HIDE DEF total, owed
  <2> QED
    BY <1>3, <2>1, <2>3, <2>4, <2>5 DEF IInv, TypeOK, ClaimRewards, Mint
<1>4. ASSUME NEW d \in Delegators, Withdraw(d)
      PROVE  TypeOK'
  BY <1>4 DEF IInv, TypeOK, Withdraw, PaidOut, environment
<1>5. ASSUME NEW i \in Indexers, NEW amount \in RewardAmounts,
             AccrueRewards(i, amount)
      PROVE  TypeOK'
  BY <1>5, InputsAssumption DEF IInv, TypeOK, AccrueRewards, contract
<1>6. ASSUME NEW i \in Indexers, NEW amount \in StakeLevels,
             SetSelfStake(i, amount)
      PROVE  TypeOK'
  BY <1>6, InputsAssumption DEF IInv, TypeOK, SetSelfStake, contract
<1>7. CASE Tick
  BY <1>7 DEF IInv, TypeOK, Tick, contract
<1>8. CASE UNCHANGED vars
  BY <1>8 DEF IInv, TypeOK, vars, environment
<1> QED
  BY <1>1, <1>2, <1>3, <1>4, <1>5, <1>6, <1>7, <1>8 DEF Next

\* Pools stay priced.
LEMMA PricedStep ==
    ASSUME IInv, [Next]_vars
    PROVE  PoolsPriced'
<1>1. ASSUME NEW d \in Delegators, NEW i \in Indexers,
             NEW amount \in DepositAmounts, Delegate(d, i, amount)
      PROVE  PoolsPriced'
  <2>1. amount \in Nat
    BY <1>1, InputsAssumption
  <2> DEFINE m == SharesForAmount(amount, pools[i].tokens, pools[i].shares)
  <2>2. m \in Nat /\ pools[i].shares + m <= pools[i].tokens + amount
    BY <2>1, DelegateFacts
  <2>3. pools[i].shares + m = 0 => pools[i].tokens + amount = 0
    <3>1. pools[i].shares = 0 => m = amount
      BY DEF SharesForAmount
    <3> QED
      BY <1>1, <2>1, <2>2, <3>1 DEF Delegate, IInv, TypeOK
  <2>4. pools' = [pools EXCEPT ![i] = Mint(pools[i], amount, m)]
    BY <1>1 DEF Delegate
  <2> HIDE DEF m
  <2> QED
    BY <2>2, <2>3, <2>4 DEF IInv, TypeOK, PoolsPriced, Mint
<1>2. ASSUME NEW d \in Delegators, NEW i \in Indexers,
             NEW shares \in ShareAmounts, Undelegate(d, i, shares)
      PROVE  PoolsPriced'
  <2> DEFINE out == AmountForShares(shares, pools[i].tokens, pools[i].shares)
  <2>1. shares \in Nat
    BY <1>2, InputsAssumption
  <2>2. /\ out \in Nat /\ out <= pools[i].tokens /\ shares <= pools[i].shares
        /\ pools[i].shares - shares <= pools[i].tokens - out
        /\ shares = pools[i].shares => out = pools[i].tokens
    BY <1>2, <2>1, UndelegateFacts DEF Undelegate, MayBurn
  <2>3. pools' = [pools EXCEPT ![i] = Burn(pools[i], shares, out)]
    BY <1>2 DEF Undelegate
  <2> HIDE DEF out
  <2>4. /\ pools'[i].tokens = pools[i].tokens - out
        /\ pools'[i].shares = pools[i].shares - shares
        /\ \A j \in Indexers \ {i} : pools'[j] = pools[j]
    BY <2>3 DEF IInv, TypeOK, Burn
  <2>5. pools[i].tokens \in Nat /\ pools[i].shares \in Nat
    BY DEF IInv, TypeOK
  <2>6. pools'[i].tokens >= pools'[i].shares
    BY <2>1, <2>2, <2>4, <2>5
  <2>7. pools'[i].shares = 0 => pools'[i].tokens = 0
    BY <2>1, <2>2, <2>4, <2>5
  <2> QED
    BY <2>4, <2>6, <2>7 DEF IInv, PoolsPriced
<1>3. ASSUME NEW d \in Delegators, NEW i \in Indexers, ClaimRewards(d, i)
      PROVE  PoolsPriced'
  <2>1. pools' = [pools EXCEPT ![i] = Mint(@, claimable[i], 0)]
    BY <1>3 DEF ClaimRewards
  <2>2. pools[i].shares # 0
    BY <1>3 DEF ClaimRewards
  <2> QED
    BY <2>1, <2>2 DEF IInv, TypeOK, PoolsPriced, Mint
<1>4. ASSUME NEW d \in Delegators, Withdraw(d)
      PROVE  PoolsPriced'
  BY <1>4 DEF IInv, PoolsPriced, Withdraw
<1>5. ASSUME NEW i \in Indexers, NEW amount \in RewardAmounts,
             AccrueRewards(i, amount)
      PROVE  PoolsPriced'
  BY <1>5 DEF IInv, PoolsPriced, AccrueRewards, contract
<1>6. ASSUME NEW i \in Indexers, NEW amount \in StakeLevels,
             SetSelfStake(i, amount)
      PROVE  PoolsPriced'
  BY <1>6 DEF IInv, PoolsPriced, SetSelfStake, contract
<1>7. CASE Tick
  BY <1>7 DEF IInv, PoolsPriced, Tick, contract
<1>8. CASE UNCHANGED vars
  BY <1>8 DEF IInv, PoolsPriced, vars
<1> QED
  BY <1>1, <1>2, <1>3, <1>4, <1>5, <1>6, <1>7, <1>8 DEF Next

\* A change to what one delegator holds in one pool leaves the other pools'
\* sums alone.
LEMMA SharesElsewhere ==
    ASSUME TypeOK, NEW d \in Delegators, NEW i \in Indexers, NEW n,
           sharesOf' = [sharesOf EXCEPT ![d][i] = n],
           NEW j \in Indexers \ {i}
    PROVE  Held(j)' = Held(j)
<1>1. \A e \in Delegators : sharesOf'[e][j] = sharesOf[e][j]
  BY DEF TypeOK
<1> QED
  BY <1>1 DEF Held

\* Shares stay accounted for.
LEMMA SharesStep ==
    ASSUME IInv, [Next]_vars
    PROVE  SharesAccounted'
<1>1. ASSUME NEW d \in Delegators, NEW i \in Indexers,
             NEW amount \in DepositAmounts, Delegate(d, i, amount)
      PROVE  SharesAccounted'
  <2> DEFINE m == SharesForAmount(amount, pools[i].tokens, pools[i].shares)
             f == [e \in Delegators |-> sharesOf[e][i]]
             g == [e \in Delegators |-> sharesOf'[e][i]]
  <2>1. m \in Nat
    BY <1>1, InputsAssumption, DelegateFacts
  <2>2. /\ pools' = [pools EXCEPT ![i] = Mint(pools[i], amount, m)]
        /\ sharesOf' = [sharesOf EXCEPT ![d][i] = @ + m]
    BY <1>1 DEF Delegate
  <2> HIDE DEF m
  <2>3. /\ f \in [Delegators -> Nat] /\ g \in [Delegators -> Nat]
        /\ g[d] = f[d] + m /\ \A e \in Delegators \ {d} : f[e] = g[e]
    BY <2>1, <2>2 DEF IInv, TypeOK
  <2>4. Held(i) = Tally(f, Delegators) /\ Held(i)' = Tally(g, Delegators)
    BY DEF Held
  <2> HIDE DEF f, g
  <2>5. Tally(g, Delegators) + f[d] = Tally(f, Delegators) + g[d]
    BY <2>3, TallyUpdate, HoldersAssumption
  <2>6. Tally(f, Delegators) \in Nat /\ Tally(g, Delegators) \in Nat
    BY <2>3, TallyType, HoldersAssumption
  <2>7. Held(i)' = Held(i) + m
    BY <2>1, <2>3, <2>4, <2>5, <2>6
  <2>8. pools'[i].shares = pools[i].shares + m
    BY <2>2 DEF IInv, TypeOK, Mint
  <2>9. \A j \in Indexers \ {i} : pools'[j].shares = pools[j].shares /\ Held(j)' = Held(j)
    BY <2>2, SharesElsewhere DEF IInv, TypeOK
  <2> QED
    BY <2>7, <2>8, <2>9 DEF IInv, SharesAccounted
<1>2. ASSUME NEW d \in Delegators, NEW i \in Indexers,
             NEW shares \in ShareAmounts, Undelegate(d, i, shares)
      PROVE  SharesAccounted'
  <2> DEFINE out == AmountForShares(shares, pools[i].tokens, pools[i].shares)
             f == [e \in Delegators |-> sharesOf[e][i]]
             g == [e \in Delegators |-> sharesOf'[e][i]]
  <2>1. shares \in Nat /\ shares <= sharesOf[d][i]
    BY <1>2, InputsAssumption DEF Undelegate, MayBurn
  <2>2. /\ pools' = [pools EXCEPT ![i] = Burn(pools[i], shares, out)]
        /\ sharesOf' = [sharesOf EXCEPT ![d][i] = @ - shares]
    BY <1>2 DEF Undelegate
  <2>3. /\ f \in [Delegators -> Nat] /\ g \in [Delegators -> Nat]
        /\ g[d] = f[d] - shares /\ \A e \in Delegators \ {d} : f[e] = g[e]
    BY <2>1, <2>2 DEF IInv, TypeOK
  <2>4. Held(i) = Tally(f, Delegators) /\ Held(i)' = Tally(g, Delegators)
    BY DEF Held
  <2> HIDE DEF f, g, out
  <2>5. Tally(g, Delegators) + f[d] = Tally(f, Delegators) + g[d]
    BY <2>3, TallyUpdate, HoldersAssumption
  <2>6. Tally(f, Delegators) \in Nat /\ Tally(g, Delegators) \in Nat
    BY <2>3, TallyType, HoldersAssumption
  <2>7. Held(i)' = Held(i) - shares
    BY <2>1, <2>3, <2>4, <2>5, <2>6
  <2>8. pools'[i].shares = pools[i].shares - shares
    BY <2>2 DEF IInv, TypeOK, Burn
  <2>9. \A j \in Indexers \ {i} : pools'[j].shares = pools[j].shares /\ Held(j)' = Held(j)
    BY <2>2, SharesElsewhere DEF IInv, TypeOK
  <2> QED
    BY <2>7, <2>8, <2>9 DEF IInv, SharesAccounted
<1>3. ASSUME NEW d \in Delegators, NEW i \in Indexers, ClaimRewards(d, i)
      PROVE  SharesAccounted'
  <2>1. \A j \in Indexers : pools'[j].shares = pools[j].shares
    BY <1>3 DEF IInv, TypeOK, ClaimRewards, Mint
  <2>2. \A j \in Indexers : Held(j)' = Held(j)
    BY <1>3 DEF Held, ClaimRewards
  <2> QED
    BY <2>1, <2>2 DEF IInv, SharesAccounted
<1>4. ASSUME NEW d \in Delegators, Withdraw(d)
      PROVE  SharesAccounted'
  BY <1>4 DEF IInv, SharesAccounted, Held, Withdraw
<1>5. ASSUME NEW i \in Indexers, NEW amount \in RewardAmounts,
             AccrueRewards(i, amount)
      PROVE  SharesAccounted'
  BY <1>5 DEF IInv, SharesAccounted, Held, AccrueRewards, contract
<1>6. ASSUME NEW i \in Indexers, NEW amount \in StakeLevels,
             SetSelfStake(i, amount)
      PROVE  SharesAccounted'
  BY <1>6 DEF IInv, SharesAccounted, Held, SetSelfStake, contract
<1>7. CASE Tick
  BY <1>7 DEF IInv, SharesAccounted, Held, Tick, contract
<1>8. CASE UNCHANGED vars
  BY <1>8 DEF IInv, SharesAccounted, Held, vars
<1> QED
  BY <1>1, <1>2, <1>3, <1>4, <1>5, <1>6, <1>7, <1>8 DEF Next

\* A change to one pool changes the pooled total by as much.
LEMMA PooledChange ==
    ASSUME TypeOK, TypeOK', NEW x \in Indexers, NEW n,
           pools' = [pools EXCEPT ![x] = n]
    PROVE  /\ Pooled \in Nat /\ Pooled' \in Nat
           /\ Pooled' + pools[x].tokens = Pooled + pools'[x].tokens
<1> DEFINE f == [y \in Indexers |-> pools[y].tokens]
           g == [y \in Indexers |-> pools'[y].tokens]
<1>1. f \in [Indexers -> Nat] /\ g \in [Indexers -> Nat]
  BY DEF TypeOK
<1>2. \A y \in Indexers \ {x} : f[y] = g[y]
  BY DEF TypeOK
<1>3. f[x] = pools[x].tokens /\ g[x] = pools'[x].tokens
  OBVIOUS
<1>4. Pooled = Tally(f, Indexers) /\ Pooled' = Tally(g, Indexers)
  BY DEF Pooled
<1> HIDE DEF f, g
<1>5. Tally(g, Indexers) + f[x] = Tally(f, Indexers) + g[x]
  BY <1>1, <1>2, TallyUpdate, HoldersAssumption
<1>6. Tally(f, Indexers) \in Nat /\ Tally(g, Indexers) \in Nat
  BY <1>1, TallyType, HoldersAssumption
<1> QED
  BY <1>3, <1>4, <1>5, <1>6

\* A change to one queue slot changes the queued total by as much.
LEMMA PendingChange ==
    ASSUME TypeOK, TypeOK', NEW x \in Delegators, NEW n,
           withdrawals' = [withdrawals EXCEPT ![x] = n]
    PROVE  /\ Pending \in Nat /\ Pending' \in Nat
           /\ Pending' + withdrawals[x].amount = Pending + withdrawals'[x].amount
<1> DEFINE f == [y \in Delegators |-> withdrawals[y].amount]
           g == [y \in Delegators |-> withdrawals'[y].amount]
<1>1. f \in [Delegators -> Nat] /\ g \in [Delegators -> Nat]
  BY DEF TypeOK
<1>2. \A y \in Delegators \ {x} : f[y] = g[y]
  BY DEF TypeOK
<1>3. f[x] = withdrawals[x].amount /\ g[x] = withdrawals'[x].amount
  OBVIOUS
<1>4. Pending = Tally(f, Delegators) /\ Pending' = Tally(g, Delegators)
  BY DEF Pending
<1> HIDE DEF f, g
<1>5. Tally(g, Delegators) + f[x] = Tally(f, Delegators) + g[x]
  BY <1>1, <1>2, TallyUpdate, HoldersAssumption
<1>6. Tally(f, Delegators) \in Nat /\ Tally(g, Delegators) \in Nat
  BY <1>1, TallyType, HoldersAssumption
<1> QED
  BY <1>3, <1>4, <1>5, <1>6

\* A change to one indexer's rewards changes their total by as much.
LEMMA AccruedChange ==
    ASSUME TypeOK, TypeOK', NEW x \in Indexers, NEW n,
           claimable' = [claimable EXCEPT ![x] = n]
    PROVE  /\ Accrued \in Nat /\ Accrued' \in Nat
           /\ Accrued' + claimable[x] = Accrued + claimable'[x]
<1> DEFINE f == [y \in Indexers |-> claimable[y]]
           g == [y \in Indexers |-> claimable'[y]]
<1>1. f \in [Indexers -> Nat] /\ g \in [Indexers -> Nat]
  BY DEF TypeOK
<1>2. \A y \in Indexers \ {x} : f[y] = g[y]
  BY DEF TypeOK
<1>3. f[x] = claimable[x] /\ g[x] = claimable'[x]
  OBVIOUS
<1>4. Accrued = Tally(f, Indexers) /\ Accrued' = Tally(g, Indexers)
  BY <1>1, TallySame DEF TypeOK, Accrued
<1> HIDE DEF f, g
<1>5. Tally(g, Indexers) + f[x] = Tally(f, Indexers) + g[x]
  BY <1>1, <1>2, TallyUpdate, HoldersAssumption
<1>6. Tally(f, Indexers) \in Nat /\ Tally(g, Indexers) \in Nat
  BY <1>1, TallyType, HoldersAssumption
<1> QED
  BY <1>3, <1>4, <1>5, <1>6

\* The books stay backed.
LEMMA BackedStep ==
    ASSUME IInv, [Next]_vars
    PROVE  Backed'
<1>1. ASSUME NEW d \in Delegators, NEW i \in Indexers,
             NEW amount \in DepositAmounts, Delegate(d, i, amount)
      PROVE  Backed'
  <2> DEFINE m == SharesForAmount(amount, pools[i].tokens, pools[i].shares)
  <2>1. /\ pools' = [pools EXCEPT ![i] = Mint(pools[i], amount, m)]
        /\ balance' = balance + amount
        /\ claimed' = claimed /\ withdrawals' = withdrawals
    BY <1>1 DEF Delegate
  <2>2. amount \in Nat /\ pools[i].tokens \in Nat
    BY InputsAssumption DEF IInv, TypeOK
  <2> HIDE DEF m
  <2>3. pools'[i].tokens = pools[i].tokens + amount
    BY <2>1 DEF IInv, TypeOK, Mint
  <2>4. /\ Pooled \in Nat /\ Pooled' \in Nat
        /\ Pooled' + pools[i].tokens = Pooled + pools'[i].tokens
    BY <2>1, PooledChange, TypeStep DEF IInv
  <2>5. Pending' = Pending /\ Pending \in Nat
    BY <2>1, SumTypes DEF Pending, IInv
  <2>6. Pooled' = Pooled + amount
    BY <2>2, <2>3, <2>4
  <2>7. balance \in Nat /\ claimed \in Nat
    BY DEF IInv, TypeOK
  <2> QED
    BY <2>1, <2>2, <2>4, <2>5, <2>6, <2>7 DEF IInv, Backed
<1>2. ASSUME NEW d \in Delegators, NEW i \in Indexers,
             NEW shares \in ShareAmounts, Undelegate(d, i, shares)
      PROVE  Backed'
  <2> DEFINE out == AmountForShares(shares, pools[i].tokens, pools[i].shares)
             slot == Queued(withdrawals[d], out, now + UnbondingPeriod)
  <2>1. /\ pools' = [pools EXCEPT ![i] = Burn(pools[i], shares, out)]
        /\ withdrawals' = [withdrawals EXCEPT ![d] = slot]
        /\ balance' = balance /\ claimed' = claimed
    BY <1>2 DEF Undelegate
  <2>2. shares \in Nat
    BY InputsAssumption
  <2>3. out \in Nat
    BY <1>2, <2>2, UndelegateFacts DEF Undelegate, MayBurn
  <2>4. slot.amount = withdrawals[d].amount + out
    BY DEF Queued
  <2> HIDE DEF out, slot
  <2>5. pools[i].tokens \in Nat /\ withdrawals[d].amount \in Nat
    BY DEF IInv, TypeOK
  <2>6. pools'[i].tokens = pools[i].tokens - out
    BY <2>1 DEF IInv, TypeOK, Burn
  <2>7. withdrawals'[d].amount = withdrawals[d].amount + out
    BY <2>1, <2>4 DEF IInv, TypeOK
  <2>8. /\ Pooled \in Nat /\ Pooled' \in Nat
        /\ Pooled' + pools[i].tokens = Pooled + pools'[i].tokens
    BY <2>1, PooledChange, TypeStep DEF IInv
  <2>9. /\ Pending \in Nat /\ Pending' \in Nat
        /\ Pending' + withdrawals[d].amount = Pending + withdrawals'[d].amount
    BY <2>1, PendingChange, TypeStep DEF IInv
  <2>10. Pooled' = Pooled - out
    BY <2>3, <2>5, <2>6, <2>8
  <2>11. Pending' = Pending + out
    BY <2>3, <2>5, <2>7, <2>9
  <2>12. Pooled' + Pending' = Pooled + Pending
    BY <2>3, <2>8, <2>9, <2>10, <2>11
  <2> QED
    BY <2>1, <2>12 DEF IInv, Backed
<1>3. ASSUME NEW d \in Delegators, NEW i \in Indexers, ClaimRewards(d, i)
      PROVE  Backed'
  <2> DEFINE owed == RewardShare(sharesOf[d][i], pools[i].tokens + claimable[i],
                                 claimable[i], pools[i].shares)
  <2>1. /\ pools' = [pools EXCEPT ![i] = Mint(pools[i], claimable[i], 0)]
        /\ balance' = (balance + claimable[i]) - owed
        /\ claimed' = claimed + owed /\ withdrawals' = withdrawals
    BY <1>3 DEF ClaimRewards
  <2>2. owed \in Int
    BY <1>3, ClaimFacts DEF ClaimRewards
  <2> HIDE DEF owed
  <2>3. /\ claimable[i] \in Nat /\ pools[i].tokens \in Nat
        /\ balance \in Nat /\ claimed \in Nat
    BY DEF IInv, TypeOK
  <2>4. pools'[i].tokens = pools[i].tokens + claimable[i]
    BY <2>1 DEF IInv, TypeOK, Mint
  <2>5. /\ Pooled \in Nat /\ Pooled' \in Nat
        /\ Pooled' + pools[i].tokens = Pooled + pools'[i].tokens
    BY <2>1, PooledChange, TypeStep DEF IInv
  <2>6. Pending' = Pending /\ Pending \in Nat
    BY <2>1, SumTypes DEF Pending, IInv
  <2>7. balance' + claimed' = balance + claimed + claimable[i]
    BY <2>1, <2>2, <2>3
  <2>8. Pooled' = Pooled + claimable[i]
    BY <2>3, <2>4, <2>5
  <2> QED
    BY <2>3, <2>5, <2>6, <2>7, <2>8 DEF IInv, Backed
<1>4. ASSUME NEW d \in Delegators, Withdraw(d)
      PROVE  Backed'
  <2>1. /\ withdrawals' = [withdrawals EXCEPT ![d] = PaidOut(withdrawals[d])]
        /\ balance' = balance - withdrawals[d].amount
        /\ claimed' = claimed /\ pools' = pools
    BY <1>4 DEF Withdraw
  <2>2. /\ withdrawals[d].amount \in Nat
        /\ balance \in Nat /\ claimed \in Nat
    BY DEF IInv, TypeOK
  <2>3. withdrawals'[d].amount = 0
    BY <2>1 DEF IInv, TypeOK, PaidOut
  <2>4. /\ Pending \in Nat /\ Pending' \in Nat
        /\ Pending' + withdrawals[d].amount = Pending + withdrawals'[d].amount
    BY <2>1, PendingChange, TypeStep DEF IInv
  <2>5. Pooled' = Pooled /\ Pooled \in Nat
    BY <2>1, SumTypes DEF Pooled, IInv
  <2> QED
    BY <2>1, <2>2, <2>3, <2>4, <2>5 DEF IInv, Backed
<1>5. ASSUME NEW i \in Indexers, NEW amount \in RewardAmounts,
             AccrueRewards(i, amount)
      PROVE  Backed'
  BY <1>5 DEF IInv, Backed, Pooled, Pending, AccrueRewards, contract
<1>6. ASSUME NEW i \in Indexers, NEW amount \in StakeLevels,
             SetSelfStake(i, amount)
      PROVE  Backed'
  BY <1>6 DEF IInv, Backed, Pooled, Pending, SetSelfStake, contract
<1>7. CASE Tick
  BY <1>7 DEF IInv, Backed, Pooled, Pending, Tick, contract
<1>8. CASE UNCHANGED vars
  BY <1>8 DEF IInv, Backed, Pooled, Pending, vars
<1> QED
  BY <1>1, <1>2, <1>3, <1>4, <1>5, <1>6, <1>7, <1>8 DEF Next

\* Claims stay within the rewards pulled.
LEMMA ClaimsStep ==
    ASSUME IInv, [Next]_vars
    PROVE  ClaimsWithinRewards'
<1>1. ASSUME NEW d \in Delegators, NEW i \in Indexers,
             NEW amount \in DepositAmounts, Delegate(d, i, amount)
      PROVE  ClaimsWithinRewards'
  BY <1>1 DEF IInv, ClaimsWithinRewards, Accrued, Delegate, environment
<1>2. ASSUME NEW d \in Delegators, NEW i \in Indexers,
             NEW shares \in ShareAmounts, Undelegate(d, i, shares)
      PROVE  ClaimsWithinRewards'
  BY <1>2 DEF IInv, ClaimsWithinRewards, Accrued, Undelegate, environment
<1>3. ASSUME NEW d \in Delegators, NEW i \in Indexers, ClaimRewards(d, i)
      PROVE  ClaimsWithinRewards'
  <2> DEFINE owed == RewardShare(sharesOf[d][i], pools[i].tokens + claimable[i],
                                 claimable[i], pools[i].shares)
  <2>1. /\ claimable' = [claimable EXCEPT ![i] = 0]
        /\ claimed' = claimed + owed /\ feesLeft' = feesLeft
    BY <1>3 DEF ClaimRewards
  <2>2. owed \in Int /\ owed <= claimable[i]
    BY <1>3, ClaimFacts DEF ClaimRewards
  <2> HIDE DEF owed
  <2>3. /\ claimable[i] \in Nat /\ claimed \in Nat /\ feesLeft \in Nat
        /\ claimable'[i] = 0
    BY <2>1 DEF IInv, TypeOK
  <2>4. /\ Accrued \in Nat /\ Accrued' \in Nat
        /\ Accrued' + claimable[i] = Accrued + claimable'[i]
    BY <2>1, AccruedChange, TypeStep DEF IInv
  <2>5. Accrued' = Accrued - claimable[i]
    BY <2>3, <2>4
  <2>6. claimed' + feesLeft' + Accrued' <= claimed + feesLeft + Accrued
    BY <2>1, <2>2, <2>3, <2>4, <2>5
  <2>7. claimed' + feesLeft' + Accrued' \in Int
    BY <2>1, <2>2, <2>3, <2>4
  <2> QED
    BY <2>3, <2>4, <2>6, <2>7, ParametersAssumption
       DEF IInv, ClaimsWithinRewards
<1>4. ASSUME NEW d \in Delegators, Withdraw(d)
      PROVE  ClaimsWithinRewards'
  BY <1>4 DEF IInv, ClaimsWithinRewards, Accrued, Withdraw, environment
<1>5. ASSUME NEW i \in Indexers, NEW amount \in RewardAmounts,
             AccrueRewards(i, amount)
      PROVE  ClaimsWithinRewards'
  <2>1. /\ claimable' = [claimable EXCEPT ![i] = @ + amount]
        /\ feesLeft' = feesLeft - amount /\ claimed' = claimed
    BY <1>5 DEF AccrueRewards, contract
  <2>2. /\ claimable[i] \in Nat /\ claimed \in Nat /\ feesLeft \in Nat
        /\ amount \in Nat /\ claimable'[i] = claimable[i] + amount
    BY <2>1, InputsAssumption DEF IInv, TypeOK
  <2>3. /\ Accrued \in Nat /\ Accrued' \in Nat
        /\ Accrued' + claimable[i] = Accrued + claimable'[i]
    BY <2>1, AccruedChange, TypeStep DEF IInv
  <2>4. Accrued' = Accrued + amount
    BY <2>2, <2>3
  <2>5. claimed' + feesLeft' + Accrued' = claimed + feesLeft + Accrued
    BY <2>1, <2>2, <2>3, <2>4
  <2> QED
    BY <2>5 DEF IInv, ClaimsWithinRewards
<1>6. ASSUME NEW i \in Indexers, NEW amount \in StakeLevels,
             SetSelfStake(i, amount)
      PROVE  ClaimsWithinRewards'
  BY <1>6 DEF IInv, ClaimsWithinRewards, Accrued, SetSelfStake, contract
<1>7. CASE Tick
  BY <1>7 DEF IInv, ClaimsWithinRewards, Accrued, Tick, contract
<1>8. CASE UNCHANGED vars
  BY <1>8 DEF IInv, ClaimsWithinRewards, Accrued, vars, environment
<1> QED
  BY <1>1, <1>2, <1>3, <1>4, <1>5, <1>6, <1>7, <1>8 DEF Next

\* Queued exits stay locked long enough.
LEMMA LockedStep ==
    ASSUME IInv, [Next]_vars
    PROVE  ExitsLocked'
<1>1. ASSUME NEW d \in Delegators, NEW i \in Indexers,
             NEW amount \in DepositAmounts, Delegate(d, i, amount)
      PROVE  ExitsLocked'
  BY <1>1 DEF IInv, ExitsLocked, Delegate
<1>2. ASSUME NEW d \in Delegators, NEW i \in Indexers,
             NEW shares \in ShareAmounts, Undelegate(d, i, shares)
      PROVE  ExitsLocked'
  <2> DEFINE out == AmountForShares(shares, pools[i].tokens, pools[i].shares)
             slot == Queued(withdrawals[d], out, now + UnbondingPeriod)
  <2>1. /\ withdrawals' = [withdrawals EXCEPT ![d] = slot]
        /\ exitedAt' = [exitedAt EXCEPT ![d] = now]
    BY <1>2 DEF Undelegate
  <2>2. slot.unlockTime >= now + UnbondingPeriod
    BY ParametersAssumption DEF IInv, TypeOK, Queued, Later
  <2> HIDE DEF slot
  <2> QED
    BY <2>1, <2>2 DEF IInv, TypeOK, ExitsLocked
<1>3. ASSUME NEW d \in Delegators, NEW i \in Indexers, ClaimRewards(d, i)
      PROVE  ExitsLocked'
  BY <1>3 DEF IInv, ExitsLocked, ClaimRewards
<1>4. ASSUME NEW d \in Delegators, Withdraw(d)
      PROVE  ExitsLocked'
  BY <1>4 DEF IInv, TypeOK, ExitsLocked, Withdraw, PaidOut
<1>5. ASSUME NEW i \in Indexers, NEW amount \in RewardAmounts,
             AccrueRewards(i, amount)
      PROVE  ExitsLocked'
  BY <1>5 DEF IInv, ExitsLocked, AccrueRewards, contract
<1>6. ASSUME NEW i \in Indexers, NEW amount \in StakeLevels,
             SetSelfStake(i, amount)
      PROVE  ExitsLocked'
  BY <1>6 DEF IInv, ExitsLocked, SetSelfStake, contract
<1>7. CASE Tick
  BY <1>7 DEF IInv, ExitsLocked, Tick, contract
<1>8. CASE UNCHANGED vars
  BY <1>8 DEF IInv, ExitsLocked, vars
<1> QED
  BY <1>1, <1>2, <1>3, <1>4, <1>5, <1>6, <1>7, <1>8 DEF Next

\* A pool that does not change keeps its price.
LEMMA PriceReflexive ==
    ASSUME TypeOK, NEW j \in Indexers
    PROVE  pools[j].tokens * pools[j].shares >= pools[j].tokens * pools[j].shares
<1>1. pools[j].tokens \in Nat /\ pools[j].shares \in Nat
  BY DEF TypeOK
<1> QED
  BY <1>1

\* No step lowers a price.
LEMMA PriceStep ==
    ASSUME IInv, [Next]_vars
    PROVE  KeepsPrices
<1>1. ASSUME NEW d \in Delegators, NEW i \in Indexers,
             NEW amount \in DepositAmounts, Delegate(d, i, amount)
      PROVE  KeepsPrices
  <2> DEFINE m == SharesForAmount(amount, pools[i].tokens, pools[i].shares)
  <2>1. /\ pools[i].tokens \in Nat /\ pools[i].shares \in Nat
        /\ amount \in Nat
    BY InputsAssumption DEF IInv, TypeOK
  <2>2. /\ m \in Nat
        /\ \/ pools[i].shares = 0
           \/ pools[i].tokens * (pools[i].shares + m)
                <= (pools[i].tokens + amount) * pools[i].shares
    BY <2>1, DelegateFacts
  <2>3. pools' = [pools EXCEPT ![i] = Mint(pools[i], amount, m)]
    BY <1>1 DEF Delegate
  <2> HIDE DEF m
  <2>4. /\ pools'[i].tokens = pools[i].tokens + amount
        /\ pools'[i].shares = pools[i].shares + m
        /\ \A j \in Indexers \ {i} : pools'[j] = pools[j]
    BY <2>3 DEF IInv, TypeOK, Mint
  <2>5. pools[i].shares = 0 => pools[i].tokens = 0
    BY DEF IInv, PoolsPriced
  <2>6. pools'[i].tokens * pools[i].shares >= pools[i].tokens * pools'[i].shares
    BY <2>1, <2>2, <2>4, <2>5
  <2> QED
    BY <2>4, <2>6, PriceReflexive DEF IInv, KeepsPrices
<1>2. ASSUME NEW d \in Delegators, NEW i \in Indexers,
             NEW shares \in ShareAmounts, Undelegate(d, i, shares)
      PROVE  KeepsPrices
  <2> DEFINE out == AmountForShares(shares, pools[i].tokens, pools[i].shares)
  <2>1. /\ pools[i].tokens \in Nat /\ pools[i].shares \in Nat
        /\ shares \in Nat
    BY InputsAssumption DEF IInv, TypeOK
  <2>2. /\ out \in Nat
        /\ pools[i].tokens * (pools[i].shares - shares)
             <= (pools[i].tokens - out) * pools[i].shares
    BY <1>2, <2>1, UndelegateFacts DEF Undelegate, MayBurn
  <2>3. pools' = [pools EXCEPT ![i] = Burn(pools[i], shares, out)]
    BY <1>2 DEF Undelegate
  <2>4. /\ pools'[i].tokens = pools[i].tokens - out
        /\ pools'[i].shares = pools[i].shares - shares
        /\ \A j \in Indexers \ {i} : pools'[j] = pools[j]
    BY <2>3 DEF IInv, TypeOK, Burn
  <2> HIDE DEF out
  <2>5. pools'[i].tokens * pools[i].shares >= pools[i].tokens * pools'[i].shares
    BY <2>1, <2>2, <2>4
  <2> QED
    BY <2>4, <2>5, PriceReflexive DEF IInv, KeepsPrices
<1>3. ASSUME NEW d \in Delegators, NEW i \in Indexers, ClaimRewards(d, i)
      PROVE  KeepsPrices
  <2>1. /\ pools[i].tokens \in Nat /\ pools[i].shares \in Nat
        /\ claimable[i] \in Nat
    BY DEF IInv, TypeOK
  <2>2. pools' = [pools EXCEPT ![i] = Mint(pools[i], claimable[i], 0)]
    BY <1>3 DEF ClaimRewards
  <2>3. /\ pools'[i].tokens = pools[i].tokens + claimable[i]
        /\ pools'[i].shares = pools[i].shares
        /\ \A j \in Indexers \ {i} : pools'[j] = pools[j]
    BY <2>2 DEF IInv, TypeOK, Mint
  <2>4. pools'[i].tokens * pools[i].shares >= pools[i].tokens * pools'[i].shares
    BY <2>1, <2>3
  <2> QED
    BY <2>3, <2>4, PriceReflexive DEF IInv, KeepsPrices
<1>4. ASSUME NEW d \in Delegators, Withdraw(d)
      PROVE  KeepsPrices
  BY <1>4, PriceReflexive DEF IInv, KeepsPrices, Withdraw
<1>5. ASSUME NEW i \in Indexers, NEW amount \in RewardAmounts,
             AccrueRewards(i, amount)
      PROVE  KeepsPrices
  BY <1>5, PriceReflexive DEF IInv, KeepsPrices, AccrueRewards, contract
<1>6. ASSUME NEW i \in Indexers, NEW amount \in StakeLevels,
             SetSelfStake(i, amount)
      PROVE  KeepsPrices
  BY <1>6, PriceReflexive DEF IInv, KeepsPrices, SetSelfStake, contract
<1>7. CASE Tick
  BY <1>7, PriceReflexive DEF IInv, KeepsPrices, Tick, contract
<1>8. CASE UNCHANGED vars
  BY <1>8, PriceReflexive DEF IInv, KeepsPrices, vars
<1> QED
  BY <1>1, <1>2, <1>3, <1>4, <1>5, <1>6, <1>7, <1>8 DEF Next

\* A step that leaves the pools alone is a stutter of the vaults, and so is any
\* change of a pool to itself.
LEMMA VaultStep ==
    ASSUME IInv, [Next]_vars
    PROVE  [Vault!Next]_pools
<1>1. ASSUME NEW d \in Delegators, NEW i \in Indexers,
             NEW amount \in DepositAmounts, Delegate(d, i, amount)
      PROVE  Vault!Deposit(i)
  <2> DEFINE m == SharesForAmount(amount, pools[i].tokens, pools[i].shares)
  <2>1. /\ pools[i] = [tokens |-> pools[i].tokens, shares |-> pools[i].shares]
        /\ pools[i].tokens \in Nat /\ pools[i].shares \in Nat
        /\ amount \in Nat /\ amount > 0
        /\ pools[i].shares = 0 => pools[i].tokens = 0
        /\ pools[i].shares # 0 => pools[i].tokens # 0
    BY <1>1, InputsAssumption DEF IInv, TypeOK, PoolsPriced, Delegate
  <2>2. /\ m \in Nat
        /\ pools[i].shares = 0 => m = amount
        /\ pools[i].shares # 0 =>
              /\ m * pools[i].tokens <= amount * pools[i].shares
              /\ amount * pools[i].shares < (m + 1) * pools[i].tokens
    BY <2>1, MintIsFair
  <2>3. pools' = [pools EXCEPT ![i] = Mint(pools[i], amount, m)]
    BY <1>1 DEF Delegate
  <2> HIDE DEF m
  <2>4. /\ pools'[i] = [tokens |-> pools[i].tokens + amount, shares |-> pools[i].shares + m]
        /\ pools' = [pools EXCEPT ![i] = pools'[i]]
    BY <2>3 DEF IInv, TypeOK, Mint
  <2>5. /\ pools'[i].tokens = pools[i].tokens + amount
        /\ pools'[i].shares = pools[i].shares + m
    BY <2>4
  <2>6. /\ pools[i].tokens < pools'[i].tokens
        /\ pools[i].shares <= pools'[i].shares
        /\ pools'[i].shares - pools[i].shares = m
        /\ pools'[i].tokens - pools[i].tokens = amount
    BY <2>1, <2>2, <2>5
  <2>7. CASE pools[i].shares = 0
    BY <2>1, <2>2, <2>4, <2>5, <2>6, <2>7 DEF Vault!Deposit, Vault!OnlyAt
  <2>8. CASE pools[i].shares # 0
    BY <2>2, <2>4, <2>6, <2>8 DEF Vault!Deposit, Vault!OnlyAt
  <2> QED
    BY <2>7, <2>8
<1>2. ASSUME NEW d \in Delegators, NEW i \in Indexers,
             NEW shares \in ShareAmounts, Undelegate(d, i, shares)
      PROVE  Vault!Redeem(i)
  <2> DEFINE out == AmountForShares(shares, pools[i].tokens, pools[i].shares)
  <2>1. /\ pools[i].tokens \in Nat /\ pools[i].shares \in Nat \ {0}
        /\ shares \in Nat /\ shares > 0
    BY <1>2, InputsAssumption DEF IInv, TypeOK, Undelegate, MayBurn
  <2>2. /\ out \in Nat /\ out <= pools[i].tokens
        /\ shares <= pools[i].shares
        /\ shares = pools[i].shares => out = pools[i].tokens
    BY <1>2, <2>1, UndelegateFacts DEF Undelegate, MayBurn
  <2>3. /\ out * pools[i].shares <= shares * pools[i].tokens
        /\ shares * pools[i].tokens < (out + 1) * pools[i].shares
    BY <2>1, BurnIsFair
  <2>4. pools' = [pools EXCEPT ![i] = Burn(pools[i], shares, out)]
    BY <1>2 DEF Undelegate
  <2> HIDE DEF out
  <2>5. /\ pools'[i].tokens = pools[i].tokens - out
        /\ pools'[i].shares = pools[i].shares - shares
        /\ pools' = [pools EXCEPT ![i] = pools'[i]]
    BY <2>4 DEF IInv, TypeOK, Burn
  <2>6. /\ pools'[i].shares < pools[i].shares
        /\ pools'[i].tokens <= pools[i].tokens
        /\ pools'[i].shares = 0 => pools'[i].tokens = 0
        /\ pools[i].tokens - pools'[i].tokens = out
        /\ pools[i].shares - pools'[i].shares = shares
    BY <2>1, <2>2, <2>5
  <2> QED
    BY <2>3, <2>5, <2>6 DEF Vault!Redeem, Vault!OnlyAt
<1>3. ASSUME NEW d \in Delegators, NEW i \in Indexers, ClaimRewards(d, i)
      PROVE  Vault!Donate(i)
  <2>1. /\ pools[i].tokens \in Nat /\ pools[i].shares \in Nat \ {0}
        /\ claimable[i] \in Nat
    BY <1>3 DEF IInv, TypeOK, ClaimRewards
  <2> DEFINE owed == RewardShare(sharesOf[d][i], pools[i].tokens + claimable[i],
                                 claimable[i], pools[i].shares)
  <2>2. owed \in Int /\ owed <= claimable[i] /\ owed > 0
    BY <1>3, <2>1, ClaimFacts DEF ClaimRewards
  <2> HIDE DEF owed
  <2>3. claimable[i] > 0
    BY <2>1, <2>2
  <2>4. pools' = [pools EXCEPT ![i] = Mint(pools[i], claimable[i], 0)]
    BY <1>3 DEF ClaimRewards
  <2>5. /\ pools'[i].tokens = pools[i].tokens + claimable[i]
        /\ pools'[i].shares = pools[i].shares
        /\ pools' = [pools EXCEPT ![i] = pools'[i]]
    BY <2>1, <2>4 DEF IInv, TypeOK, Mint
  <2>6. pools[i].tokens < pools'[i].tokens
    BY <2>1, <2>3, <2>5
  <2> QED
    BY <2>1, <2>5, <2>6 DEF Vault!Donate, Vault!OnlyAt
<1>4. ASSUME NEW d \in Delegators, Withdraw(d)
      PROVE  UNCHANGED pools
  BY <1>4 DEF Withdraw
<1>5. ASSUME NEW i \in Indexers, NEW amount \in RewardAmounts,
             AccrueRewards(i, amount)
      PROVE  UNCHANGED pools
  BY <1>5 DEF AccrueRewards, contract
<1>6. ASSUME NEW i \in Indexers, NEW amount \in StakeLevels,
             SetSelfStake(i, amount)
      PROVE  UNCHANGED pools
  BY <1>6 DEF SetSelfStake, contract
<1>7. CASE Tick
  BY <1>7 DEF Tick, contract
<1>8. CASE UNCHANGED vars
  BY <1>8 DEF vars
<1> QED
  BY <1>1, <1>2, <1>3, <1>4, <1>5, <1>6, <1>7, <1>8 DEF Next, Vault!Next

\* No step pays an exit before its time.
LEMMA UnbondedStep ==
    ASSUME IInv, [Next]_vars
    PROVE  PaysUnbonded
<1>1. ASSUME NEW d \in Delegators, NEW i \in Indexers,
             NEW amount \in DepositAmounts, Delegate(d, i, amount)
      PROVE  PaysUnbonded
  BY <1>1 DEF IInv, TypeOK, PaysUnbonded, Delegate
<1>2. ASSUME NEW d \in Delegators, NEW i \in Indexers,
             NEW shares \in ShareAmounts, Undelegate(d, i, shares)
      PROVE  PaysUnbonded
  <2> DEFINE out == AmountForShares(shares, pools[i].tokens, pools[i].shares)
             slot == Queued(withdrawals[d], out, now + UnbondingPeriod)
  <2>1. shares \in Nat
    BY InputsAssumption
  <2>2. out \in Nat
    BY <1>2, <2>1, UndelegateFacts DEF Undelegate, MayBurn
  <2>3. withdrawals' = [withdrawals EXCEPT ![d] = slot]
    BY <1>2 DEF Undelegate
  <2> HIDE DEF out
  <2>4. slot.amount = withdrawals[d].amount + out
    BY DEF Queued
  <2> HIDE DEF slot
  <2>5. \A e \in Delegators : ~(withdrawals'[e].amount < withdrawals[e].amount)
    BY <2>2, <2>3, <2>4 DEF IInv, TypeOK
  <2> QED
    BY <2>5 DEF PaysUnbonded
<1>3. ASSUME NEW d \in Delegators, NEW i \in Indexers, ClaimRewards(d, i)
      PROVE  PaysUnbonded
  BY <1>3 DEF IInv, TypeOK, PaysUnbonded, ClaimRewards
<1>4. ASSUME NEW d \in Delegators, Withdraw(d)
      PROVE  PaysUnbonded
  <2>1. now >= withdrawals[d].unlockTime /\ withdrawals[d].amount > 0
    BY <1>4 DEF Withdraw
  <2>2. withdrawals[d].unlockTime >= exitedAt[d] + UnbondingPeriod
    BY <2>1 DEF IInv, ExitsLocked
  <2>3. /\ now \in Nat /\ withdrawals[d].unlockTime \in Nat
        /\ exitedAt[d] + UnbondingPeriod \in Nat
    BY ParametersAssumption DEF IInv, TypeOK
  <2>4. now >= exitedAt[d] + UnbondingPeriod
    BY <2>1, <2>2, <2>3
  <2>5. \A e \in Delegators \ {d} : withdrawals'[e] = withdrawals[e]
    BY <1>4 DEF IInv, TypeOK, Withdraw
  <2> QED
    BY <2>4, <2>5 DEF IInv, TypeOK, PaysUnbonded
<1>5. ASSUME NEW i \in Indexers, NEW amount \in RewardAmounts,
             AccrueRewards(i, amount)
      PROVE  PaysUnbonded
  BY <1>5 DEF IInv, TypeOK, PaysUnbonded, AccrueRewards, contract
<1>6. ASSUME NEW i \in Indexers, NEW amount \in StakeLevels,
             SetSelfStake(i, amount)
      PROVE  PaysUnbonded
  BY <1>6 DEF IInv, TypeOK, PaysUnbonded, SetSelfStake, contract
<1>7. CASE Tick
  BY <1>7 DEF IInv, TypeOK, PaysUnbonded, Tick, contract
<1>8. CASE UNCHANGED vars
  BY <1>8 DEF IInv, TypeOK, PaysUnbonded, vars
<1> QED
  BY <1>1, <1>2, <1>3, <1>4, <1>5, <1>6, <1>7, <1>8 DEF Next

-----------------------------------------------------------------------------
(* The theorems.                                                           *)

\* The invariant holds when the contract is deployed.
LEMMA InitIInv == Init => IInv
<1> SUFFICES ASSUME Init PROVE IInv
  OBVIOUS
<1>1. TypeOK
  BY ParametersAssumption, InputsAssumption DEF Init, TypeOK
<1>2. \A i \in Indexers : Held(i) = 0
  BY TallyZero DEF Init, Held
<1>3. Pooled = 0
  BY TallyZero DEF Init, Pooled
<1>4. Pending = 0
  BY TallyZero DEF Init, Pending
<1>5. Accrued = 0
  BY TallyZero DEF Init, Accrued
<1>6. SharesAccounted
  BY <1>2 DEF Init, SharesAccounted
<1>7. PoolsPriced
  BY DEF Init, PoolsPriced
<1>8. Backed
  BY <1>3, <1>4 DEF Init, Backed
<1>9. ClaimsWithinRewards
  BY <1>5, ParametersAssumption DEF Init, ClaimsWithinRewards
<1>10. ExitsLocked
  BY DEF Init, ExitsLocked
<1> QED
  BY <1>1, <1>6, <1>7, <1>8, <1>9, <1>10 DEF IInv

\* The inductive invariant holds of every reachable state.
THEOREM Inductive == Spec => []IInv
<1>1. Init => IInv
  BY InitIInv
<1>2. IInv /\ [Next]_vars => IInv'
  <2> SUFFICES ASSUME IInv, [Next]_vars PROVE IInv'
    OBVIOUS
  <2> QED
    BY TypeStep, SharesStep, PricedStep, BackedStep, ClaimsStep, LockedStep
       DEF IInv
<1> QED
  BY <1>1, <1>2, PTL DEF Spec

\* Every variable keeps its type: no checked subtraction of the contract goes
\* below zero.
THEOREM TypeCorrect == Spec => []TypeOK
<1>1. IInv => TypeOK
  BY DEF IInv
<1> QED
  BY <1>1, Inductive, PTL

\* The shares of every pool are exactly those its delegators hold.
THEOREM SharesAlwaysAccounted == Spec => []SharesAccounted
<1>1. IInv => SharesAccounted
  BY DEF IInv
<1> QED
  BY <1>1, Inductive, PTL

\* No pool has tokens without shares, and none has fewer tokens than shares:
\* no reachable call divides by zero.
THEOREM PoolsAlwaysPriced == Spec => []PoolsPriced
<1>1. IInv => PoolsPriced
  BY DEF IInv
<1> QED
  BY <1>1, Inductive, PTL

\* The contract's balance and what claims have paid make up its books.
THEOREM AlwaysBacked == Spec => []Backed
<1>1. IInv => Backed
  BY DEF IInv
<1> QED
  BY <1>1, Inductive, PTL

\* Claims never pay more than the rewards pulled.
THEOREM ClaimsAlwaysWithinRewards == Spec => []ClaimsWithinRewards
<1>1. IInv => ClaimsWithinRewards
  BY DEF IInv
<1> QED
  BY <1>1, Inductive, PTL

SameConversions ==
    \A i \in Indexers, n \in Nat :
        LET p == pools[i]
        IN  /\ AmountToShares(n, p.tokens, p.shares) = SharesForAmount(n, p.tokens, p.shares)
            /\ SharesToAmount(n, p.tokens, p.shares) = AmountForShares(n, p.tokens, p.shares)

\* The library delegation/libraries/shareMath.sol converts every amount of every
\* reachable pool as the contract's own one does, although it defaults a divisor
\* the contract divides by: the contract could import it instead.
THEOREM LibrariesAgree == Spec => []SameConversions
<1>1. IInv => SameConversions
  <2> SUFFICES ASSUME IInv, NEW i \in Indexers, NEW n \in Nat
               PROVE  /\ AmountToShares(n, pools[i].tokens, pools[i].shares)
                            = SharesForAmount(n, pools[i].tokens, pools[i].shares)
                      /\ SharesToAmount(n, pools[i].tokens, pools[i].shares)
                            = AmountForShares(n, pools[i].tokens, pools[i].shares)
    BY DEF SameConversions
  <2>1. pools[i].tokens = 0 => pools[i].shares = 0
    BY DEF IInv, TypeOK, PoolsPriced
  <2> QED
    BY <2>1, Zenon DEF AmountToShares, SharesForAmount, SharesToAmount, AmountForShares
<1> QED
  BY <1>1, Inductive, PTL

\* No call of anybody lowers the price of a pool's shares.
THEOREM PricesNeverFall == Spec => [][KeepsPrices]_vars
<1>1. IInv /\ [Next]_vars => [KeepsPrices]_vars
  BY PriceStep
<1> QED
  BY <1>1, Inductive, PTL DEF Spec

\* No step lowers what a delegator's holding can be redeemed for, but its own
\* redemption of some of it.
KeepsWorth ==
    \A d \in Delegators, i \in Indexers :
        LET held == sharesOf[d][i]
        IN  0 < held /\ held <= sharesOf'[d][i] =>
                AmountForShares(held, pools[i].tokens, pools[i].shares)
                    <= AmountForShares(held, pools'[i].tokens, pools'[i].shares)

\* No delegator holds more shares of a pool than it has issued.
WithinIssue ==
    \A d \in Delegators, i \in Indexers : sharesOf[d][i] <= pools[i].shares

\* A holding that its delegator leaves alone never loses worth by the deposits,
\* exits and claims of others: what undelegate would pay for it, rounded down as
\* it is, does not fall.
THEOREM HoldingsKeepTheirWorth == Spec => [][KeepsWorth]_vars
<1>1. IInv => WithinIssue
  BY HoldingWithinIssue DEF IInv, WithinIssue
<1>2. IInv /\ IInv' /\ WithinIssue /\ WithinIssue' /\ [Next]_vars => [KeepsWorth]_vars
  <2> SUFFICES ASSUME IInv, IInv', WithinIssue, WithinIssue', [Next]_vars,
                      NEW d \in Delegators, NEW i \in Indexers,
                      0 < sharesOf[d][i], sharesOf[d][i] <= sharesOf'[d][i]
               PROVE  AmountForShares(sharesOf[d][i], pools[i].tokens, pools[i].shares)
                        <= AmountForShares(sharesOf[d][i], pools'[i].tokens, pools'[i].shares)
    BY DEF KeepsWorth
  <2>1. /\ sharesOf[d][i] \in Nat /\ sharesOf'[d][i] \in Nat
        /\ pools[i].tokens \in Nat /\ pools[i].shares \in Nat
        /\ pools'[i].tokens \in Nat /\ pools'[i].shares \in Nat
    BY DEF IInv, TypeOK
  <2>2. sharesOf[d][i] <= pools[i].shares /\ sharesOf'[d][i] <= pools'[i].shares
    BY DEF WithinIssue
  <2>3. pools[i].shares > 0 /\ pools'[i].shares > 0
    BY <2>1, <2>2
  <2>4. pools[i].tokens * pools'[i].shares <= pools'[i].tokens * pools[i].shares
    BY <2>1, <2>3, PriceStep DEF KeepsPrices
  <2> QED
    BY <2>1, <2>3, <2>4, WorthGrows
<1> QED
  BY <1>1, <1>2, Inductive, PTL DEF Spec

\* What any deposit would mint can be redeemed at once for no more than it.
RoundTripsLose ==
    \A i \in Indexers, amount \in Nat :
        LET p      == pools[i]
            minted == SharesForAmount(amount, p.tokens, p.shares)
        IN  minted > 0 =>
                AmountForShares(minted, p.tokens + amount, p.shares + minted) <= amount

\* Whatever rewards and exits have made of a pool's price, a delegate followed by
\* an undelegate of what it minted gains nothing: both divisions round against
\* the caller.
THEOREM RoundTripsAlwaysLose == Spec => []RoundTripsLose
<1>1. IInv => RoundTripsLose
  <2> SUFFICES ASSUME IInv, NEW i \in Indexers, NEW amount \in Nat,
                      SharesForAmount(amount, pools[i].tokens, pools[i].shares) > 0
               PROVE  LET m == SharesForAmount(amount, pools[i].tokens, pools[i].shares)
                      IN  AmountForShares(m, pools[i].tokens + amount, pools[i].shares + m)
                            <= amount
    BY DEF RoundTripsLose
  <2>1. /\ pools[i].tokens \in Nat /\ pools[i].shares \in Nat
        /\ pools[i].shares = 0 <=> pools[i].tokens = 0
    BY DEF IInv, TypeOK, PoolsPriced
  <2> QED
    BY <2>1, RoundTripBounded
<1> QED
  BY <1>1, Inductive, PTL

\* The pools implement the share vault: the initial pools are empty vaults, and
\* every step is one of a vault or leaves the vaults alone.
THEOREM PoolsImplementVaults == Spec => PoolsAreVaults
<1>1. Init => Vault!Init
  BY DEF Init, Vault!Init
<1>2. IInv /\ [Next]_vars => [Vault!Next]_pools
  BY VaultStep
<1> QED
  BY <1>1, <1>2, Inductive, PTL DEF Spec, PoolsAreVaults, Vault!Spec

\* No exit is paid before its unbonding period is over.
THEOREM UnbondingAlwaysRespected == Spec => UnbondingRespected
<1>1. IInv /\ [Next]_vars => [PaysUnbonded]_vars
  BY UnbondedStep
<1> QED
  BY <1>1, Inductive, PTL DEF Spec, UnbondingRespected
=============================================================================
