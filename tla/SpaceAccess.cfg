SPECIFICATION Spec
CONSTANTS
    Users <- MCUsers
    Admin = adm
    adm = adm
    ann = ann
    bob = bob
    svc = svc
    Services = {svc}
    Provisioned <- MCProvisioned
    Clearance <- MCClearance
    Levels = {1, 2}
    TenantPolicies <- MCTenantPolicies
    Policies <- MCPolicies
    Contents = {good, bad}
    Infected = {bad}
    Keys = {k}
    MaxRequests = 4
    MaxOpen = 2
    None = None
INVARIANTS
    FactsAreTrue
PROPERTIES
    ChainOfAuthority
    SettledStays
CHECK_DEADLOCK FALSE
