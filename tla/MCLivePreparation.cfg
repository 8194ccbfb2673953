SPECIFICATION Spec
CONSTANTS
    Preps = {p1, p2}
    Closer = Closer
    NoOne = NoOne
    MaxEpoch = 2
    MaxCrashes = 1
    RequestIds = {r1, r2}
    NumSlots = 1
    CacheMisses = TRUE
    MaxSession = 1
    MaxCancels = 1
    MayDelete = FALSE
    MayClose = FALSE
SYMMETRY Symmetry
CHECK_DEADLOCK FALSE
INVARIANTS
    StoppedIsReaped
    OneEvaluation
    WorkerIsAttended
    FallbackAfterAck
