SPECIFICATION FairSpec
CONSTANTS
    MaxLaunches = 2
    MaxFaults = 2
    MayDie = TRUE
INVARIANTS
    OneChild
    ClosedLeavesNothing
PROPERTIES
    AllIsEnded
CHECK_DEADLOCK FALSE
