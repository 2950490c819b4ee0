\* Two keepers over four days after the first mint, with a year of five days.
\* The cap is within reach of the mints.
CONSTANTS
    Keepers = {keeper1, keeper2}
    Day = 3
    Year = 15
    RateNum = 3
    RateDen = 100
    FeeBurnBps = 100
    Deployed = 31
    InitialSupply = 1000
    MaxSupply = 1092
    PayerFunds = 250
    FeeAmounts = {90, 160}
    RunWithin = 2
    MaxFailures = 2
    MaxTime = 48
SPECIFICATION Spec
SYMMETRY Symmetry
INVARIANTS
    TypeOK
    FeesAccounted
    WithinRate
    KeepsUp
CHECK_DEADLOCK FALSE
