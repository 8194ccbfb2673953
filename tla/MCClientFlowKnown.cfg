\* One save that fails is enough to fight a won battle again.
SPECIFICATION FlowSpec
CONSTANTS
    NumWorlds = 1
    MaxCrashes = 0
    MaxFailures = 1
    MaxDamages = 0
    Missing = Missing
    Damaged = Damaged
INVARIANTS
    WonIsNotRefought
CHECK_DEADLOCK FALSE
