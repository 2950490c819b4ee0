\* Two signals in a row, with subscription, checks and receiver repaired, and
\* with no failure, no crash, no lost transaction and no repeated log.
CONSTANTS
    Subscribed = "core"
    Sender = "bridge"
    Verdicts = {TRUE}
    Outcomes = {TRUE}
    MaxSignals = 2
    MaxForeign = 0
    MaxRepeats = 0
    MaxFailures = 0
    MaxLost = 0
    MaxCrashes = 0
SPECIFICATION FairSpec
PROPERTY
    SignalsRelayed
CHECK_DEADLOCK FALSE
