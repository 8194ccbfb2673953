SPECIFICATION LiveSpec
CONSTANTS
    Preps = {p1}
    Closer = Closer
    NoOne = NoOne
    MaxEpoch = 2
    MaxCrashes = 1
    RequestIds = {r1}
    NumSlots = 2
    CacheMisses = TRUE
    MaxSession = 2
    MaxCancels = 1
    MayDelete = TRUE
    MayClose = TRUE
CHECK_DEADLOCK FALSE
INVARIANTS
    CloseReaps
PROPERTIES
    EverythingEnds
