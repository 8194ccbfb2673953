SPECIFICATION Spec
CONSTANTS
    NumItems = 2
    Requests = {1, 2, 3, 4, 5}
    Sheets = {{1}, {1, 2}}
    NoSubmission = NoSubmission
    NoSheet = NoSheet
    NoCall = NoCall
    MaxFaults = 2
    TimesOut = FALSE
INVARIANTS
    AlwaysAWayOn
CHECK_DEADLOCK FALSE
