SPECIFICATION LiveSpec
CONSTANTS
    NumItems = 2
    Requests = {r1}
    Sheets = {{1}, {1, 2}}
    NoSubmission = NoSubmission
    Procs = {p1}
    MaxSession = 2
    MaxCampaign = 0
    MaxCrashes = 0
PROPERTIES
    RevealedIsClosed
