SPECIFICATION SidecarSpec
CONSTANTS
    MaxStarts = 2
    MaxMishaps = 2
    MaxInterrupts = 1
    GameMayDie = TRUE
CHECK_DEADLOCK FALSE
INVARIANTS
    NoServerLeft
    OneFailureIsSurvived
PROPERTIES
    EndsAreReached
