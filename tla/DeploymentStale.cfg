\* deployAll reads the addresses an earlier run deployed.
CONSTANTS
    MaxRuns = 2
    MaxLost = 0
SPECIFICATION Spec
INVARIANTS
    ReadsItsOwnBack
CHECK_DEADLOCK FALSE
