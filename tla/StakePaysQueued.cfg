\* withdraw pays the remaining stake, not the queued one.
CONSTANTS
    Indexers = {indexer}
    UnbondingPeriod = 2
    InitialWallet = 3
    Amounts = {1, 3}
    MaxTime = 5
SPECIFICATION Spec
PROPERTY
    PaysQueued
CHECK_DEADLOCK FALSE
