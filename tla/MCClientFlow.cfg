SPECIFICATION LiveFlowSpec
CONSTANTS
    NumWorlds = 3
    MaxCrashes = 3
    MaxFailures = 3
    MaxDamages = 2
    Missing = Missing
    Damaged = Damaged
INVARIANTS
    RestartResumes
    RefoughtOnlyIfRestarted
PROPERTIES
    CampaignEnds
CHECK_DEADLOCK FALSE
