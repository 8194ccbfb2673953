SPECIFICATION Spec
CONSTANTS
    NumItems = 2
    Requests = {r1, r2}
    Sheets = {{1}, {1, 2}}
    NoSubmission = NoSubmission
    Procs = {p1, p2}
    MaxSession = 2
    MaxCampaign = 1
    MaxCrashes = 0
SYMMETRY Symmetry
INVARIANTS
    QuizLoads
    SnapshotsAreAccepted
    EventsInsideTheirSession
    OneAnswerDisclosed
    DrainNeverFails
PROPERTIES
    WritesAreLegal
    ImplementsTwoPass
