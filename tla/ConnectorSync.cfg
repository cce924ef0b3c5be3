CONSTANTS
    Uploads = {u1, u2}
    First = first
    Keys = {k1, k2}
    SyncKeys = {c1, c2}
    MaxRequests = 2
    MaxTries = 2
    Scenarios = {"users", "sync"}
    None = None
SYMMETRY Symmetry
SPECIFICATION SyncSpec
INVARIANTS
    SyncRowsFit
    BatchIsTrue
CHECK_DEADLOCK FALSE
