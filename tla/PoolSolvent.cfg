\* A claim is paid from the balance and left on the pool's books.
CONSTANTS
    Delegators = {alice, bob}
    Indexers = {indexer}
    CapacityMultiple = 16
    UnbondingPeriod = 1
    InitialWallet = 4
    RewardBudget = 3
    DepositAmounts = {1, 3}
    ShareAmounts = {1, 3}
    RewardAmounts = {1, 3}
    StakeLevels = {0, 1}
    MaxTime = 2
SPECIFICATION Spec
INVARIANT
    Solvent
CHECK_DEADLOCK FALSE
