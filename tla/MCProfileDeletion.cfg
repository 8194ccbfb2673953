SPECIFICATION Spec
CONSTANTS
    Servers = {q1, q2}
    MaxProfiles = 1
    MaxSessions = 2
    MaxEvents = 2
    MaxInstant = 2
INVARIANTS
    DeletedLeavesNothing
CHECK_DEADLOCK FALSE
