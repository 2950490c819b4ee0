\* Two signals and a foreign message, with a repeated log, a failure, a lost
\* transaction and a crash; the relayer's checks and the receiver may say no.
CONSTANTS
    Subscribed = "core"
    Sender = "bridge"
    Verdicts = {TRUE, FALSE}
    Outcomes = {TRUE, FALSE}
    MaxSignals = 2
    MaxForeign = 1
    MaxRepeats = 1
    MaxFailures = 1
    MaxLost = 1
    MaxCrashes = 1
SPECIFICATION FairSpec
INVARIANTS
    BridgeTypeOK
    RelayedOncePerLog
    DoneMeansRelayed
    RefusedByRace
PROPERTIES
    HandlersSettle
CHECK_DEADLOCK FALSE
