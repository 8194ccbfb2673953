SPECIFICATION LiveSpec
CONSTANTS
    NumItems = 2
    Requests = {1, 2, 3, 4, 5}
    Sheets = {{1}, {1, 2}}
    NoSubmission = NoSubmission
    NoSheet = NoSheet
    NoCall = NoCall
    MaxFaults = 3
    TimesOut = TRUE
INVARIANTS
    ShownIsRecorded
PROPERTIES
    TrialEnds
CHECK_DEADLOCK FALSE
