\* The real tax rates, with amounts large enough for either tax to be paid.
CONSTANTS
    v1 = v1
    v2 = v2
    Curators = {carol, dave}
    Graphs = {v1, v2}
    CurationTaxBps = 250
    MigrationTaxBps = 100
    InitialWallet = 120
    SignalAmounts = {40, 120}
    ShareAmounts = {39, 117}
    Upgrades <- MCUpgrades
    MaxMigrations = 2
SPECIFICATION Spec
SYMMETRY Symmetry
INVARIANTS
    TypeOK
    CurvesPriced
    CurvesBacked
    HoldingsCovered
CHECK_DEADLOCK FALSE
