\* One pool shared by two delegators: a capacity multiple that deposits
\* can exceed, rewards that make the share price fractional, and
\* exits queued at two different times in the one slot of a delegator.
CONSTANTS
    Delegators = {alice, bob}
    Indexers = {indexer}
    CapacityMultiple = 6
    UnbondingPeriod = 1
    InitialWallet = 4
    RewardBudget = 2
    DepositAmounts = {1, 3}
    ShareAmounts = {1, 2}
    RewardAmounts = {1, 2}
    StakeLevels = {0, 1}
    MaxTime = 2
SPECIFICATION FairSpec
INVARIANTS
    TypeOK
    SharesAccounted
    PoolsPriced
    Backed
    ClaimsWithinRewards
PROPERTIES
    PoolsAreVaults
    UnbondingRespected
    ExitsPaid
