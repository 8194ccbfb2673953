\* Two known ways the route goes wrong; -continue reports both.
SPECIFICATION Spec
CONSTANTS
    Ids = {1, 2, 3, 4, 5, 6, 7, 8}
    Sheets = {s1, s2}
    MaxFaults = 1
    MaxMoves = 0
    None = None
INVARIANTS
    CompletionIsReached
    FeedbackIsRead
CHECK_DEADLOCK FALSE
