\* Three known ways a model process goes wrong; -continue reports all.
SPECIFICATION FairSpec
CONSTANTS
    MaxLaunches = 1
    MaxFaults = 1
    MayDie = TRUE
INVARIANTS
    SignalsAreExact
    OneModel
PROPERTIES
    AbandonedIsReaped
CHECK_DEADLOCK FALSE
