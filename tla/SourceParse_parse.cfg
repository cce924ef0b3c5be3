CONSTANTS
    MaxJobs = 2
    MaxAttempts = 2
    MaxRequests = 2
    Excerpts = {e1}
    None = None
SPECIFICATION FairSpec
INVARIANTS
    ParseRowsFit
PROPERTIES
    ShownRightfully
    EndIsFinal
    RunSettlesJob
CHECK_DEADLOCK FALSE
