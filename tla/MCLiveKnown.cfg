\* Two known ways a preparation goes wrong; -continue reports both.
SPECIFICATION Spec
CONSTANTS
    Preps = {p1}
    Closer = Closer
    NoOne = NoOne
    MaxEpoch = 1
    MaxCrashes = 0
    RequestIds = {r1}
    NumSlots = 1
    CacheMisses = TRUE
    MaxSession = 1
    MaxCancels = 0
    MayDelete = TRUE
    MayClose = FALSE
CHECK_DEADLOCK FALSE
INVARIANTS
    DeletedStaysDeleted
    SlowStartFallsBack
