SPECIFICATION LiveSpec
CONSTANTS
    NumItems = 2
    Requests = {r1, r2}
    Sheets = {{1}, {1, 2}}
    NoSubmission = NoSubmission
    Procs = {p1}
    MaxSession = 2
    MaxCampaign = 1
    MaxCrashes = 2
PROPERTIES
    RevealIsRecorded
    LockIsScored
    ClosedUnlessRotated
