CONSTANTS
    Results = {calm, surge}
    None = None
    MaxAttempts = 2
    MaxFaults = 2
SPECIFICATION FairSpec
INVARIANTS
    ForecastRowsFit
    StagingIsClean
PROPERTIES
    RunEnds
CHECK_DEADLOCK FALSE
