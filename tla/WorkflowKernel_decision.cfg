CONSTANTS
    N = 3
    Gate = 3
    IsReview = FALSE
    StartPaused = TRUE
    Keys = {key1, key2}
    Repairers = {ops}
    MaxRuns = 1
    MaxReplays = 0
    None = None
SPECIFICATION FairSpec
INVARIANTS
    CancelledIsUndone
PROPERTIES
    PauseHolds
    CancelIsCarriedOut
    DecisionIsCarriedOut
CHECK_DEADLOCK FALSE
