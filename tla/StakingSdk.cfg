\* Two delegations of different amounts, another call and a stake in one wallet.
CONSTANTS
    large = large
    small = small
    claim = claim
    stake = stake
    Calls <- MCCalls
    Op <- MCOp
    Amount <- MCAmount
    Funds = 6
    Rooms = {0, 2}
    MaxPending = 2
    MaxLostReplies = 1
SPECIFICATION FairSpec
INVARIANTS
    TypeOK
    DelegatedOnce
    AllowanceWithinRequest
PROPERTIES
    DelegationsMade
CHECK_DEADLOCK FALSE
