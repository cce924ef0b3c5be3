CONSTANTS
    N = 2
    Gate = 1
    IsReview = TRUE
    StartPaused = FALSE
    Keys = {key1, key2}
    Repairers = {}
    MaxRuns = 2
    MaxReplays = 1
    None = None
SPECIFICATION Spec
SYMMETRY Symmetric
INVARIANTS
    KernelRowFits
    GateNeedsApproval
PROPERTIES
    OldRunsAreIsolated
    CancelStopsSteps
    TerminalIsFinal
CHECK_DEADLOCK FALSE
