\* Two commands, a node that may lose one transaction.
CONSTANTS
    MaxRuns = 2
    MaxLost = 1
SPECIFICATION FairSpec
INVARIANTS
    TypeOK
    NotLockedOut
    PrintedInPlace
    PoolWired
PROPERTIES
    CommandsEnd
CHECK_DEADLOCK FALSE
