\* Three known ways a server or its model goes wrong; -continue reports all.
SPECIFICATION ServingSpec
CONSTANTS
    MaxStarts = 1
    MaxMishaps = 0
    MaxInterrupts = 0
    GameMayDie = TRUE
INVARIANTS
    ModelEndsWithServer
    DisposedIsStopped
PROPERTIES
    ServerEndsWithGame
CHECK_DEADLOCK FALSE
