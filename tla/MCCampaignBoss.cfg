SPECIFICATION Spec
CONSTANTS
    NumWorlds = 3
    CoreSkills <- CatalogSkills
    LeadInItems <- CatalogLeadIns
    BossItems = 8
    FinaleItems = 10
    BossPass = 6
    FinalePass = 8
    TrialItems = 3
    TrialPass = 2
    RequiredItems = 16
    Window = 10
    WindowCorrect = 7
    Styles <- RightThenCorrected
    NoBatch = NoBatch
    MaxSecondWinds = 0
    MaxTrials = 3
INVARIANTS
    BossVictoryCounts
CHECK_DEADLOCK FALSE
