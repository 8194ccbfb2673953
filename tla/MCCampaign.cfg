SPECIFICATION Spec
CONSTANTS
    NumWorlds = 2
    CoreSkills <- OneSkill
    LeadInItems <- MidLeadIns
    BossItems = 1
    FinaleItems = 1
    BossPass = 1
    FinalePass = 0
    TrialItems = 1
    TrialPass = 1
    RequiredItems = 3
    Window = 2
    WindowCorrect = 1
    NoBatch = NoBatch
    Styles <- RightOrMissed
    MaxSecondWinds = 1
    MaxTrials = 3
INVARIANTS
    LockedOutKnownWays
    HistoryBrokenByLateWinds
    OneActivity
    RepliesLeadOn
CHECK_DEADLOCK FALSE
