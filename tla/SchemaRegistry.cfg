CONSTANTS
    drive = drive
    pump1 = pump1
    pump2 = pump2
    root = root
    vendor = vendor
    flow = flow
    head = head
    speed = speed
    Packs = {"drive", "pump"}
    Place <- MCPlace
    PackVersions = {drive, pump1, pump2}
    PackOf <- MCPackOf
    Rank <- MCRank
    Needs <- MCNeeds
    Signer <- MCSigner
    SigningKeys = {root, vendor}
    Root = root
    Registered = {drive, pump1}
    Declares <- MCDeclares
    Names = {n1, n2}
    Locals = {{flow}}
    Compositions = {{drive}}
    MaxInstalls = 2
    MaxVersions = 2
    MaxAttempts = 2
    MaxRequests = 4
SPECIFICATION InstallSpec
SYMMETRY Symmetric
INVARIANTS
    InstallRowsFit
PROPERTIES
    EffectIsKept
    PublishedOnce
CHECK_DEADLOCK FALSE
