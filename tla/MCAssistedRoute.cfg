\* The assisted route with three faults and one event of another command.
SPECIFICATION LiveSpec
CONSTANTS
    Ids = {1, 2, 3, 4, 5, 6, 7, 8}
    Sheets = {s1, s2}
    MaxFaults = 3
    MaxMoves = 1
    None = None
INVARIANTS
    ShownIsStored
    FeedbackIsRecorded
PROPERTIES
    RouteEnds
CHECK_DEADLOCK FALSE
