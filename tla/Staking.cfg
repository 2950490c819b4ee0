\* Two indexers who stake, queue and withdraw while they are challenged and
\* delegated to.  A stake can be cut to a third after a challenge, so that one
\* resolved too late would cost more than the next one leaves.
CONSTANTS
    Indexers = {indexer1, indexer2}
    UnbondingPeriod = 1
    InitialWallet = 6
    Amounts = {2}
    MaxTime = 3
    Challengers = {challenger}
    Evidence = {uri}
    SlashPercent = 5000
    Window = 1
    Delegators = {delegator1, delegator2}
    CapacityMultiple = 2
    Purse = 12
    DelegationAmounts = {12}
    MaxOpenings = 2
SPECIFICATION StackSpec
SYMMETRY Symmetry
INVARIANTS
    TypeOK
    StakesBacked
    PenaltiesBounded
    EscapesByExit
    WithinPeakCapacity
    DelegationsBacked
PROPERTIES
    ExitAfterUnbonding
CHECK_DEADLOCK FALSE
