SPECIFICATION Spec
CONSTANTS
    Servers = {q1, q2}
    MaxProfiles = 1
    MaxSessions = 2
    MaxEvents = 2
    MaxInstant = 3
INVARIANTS
    AuditsHold
    NextSessionOpens
    FailureMeansChange
SYMMETRY Symmetry
CHECK_DEADLOCK FALSE
