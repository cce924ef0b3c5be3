CONSTANTS
    Results = {calm, surge}
    None = None
    MaxAttempts = 2
    MaxFaults = 1
SPECIFICATION Spec
INVARIANT PublishedIsKept
CHECK_DEADLOCK FALSE
