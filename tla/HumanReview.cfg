CONSTANTS
    ann = ann
    bob = bob
    cat = cat
    Users = {ann, bob, cat}
    Author = ann
    Qualified <- MCQualified
    Policies <- MCPolicies
    MaxRevisions = 2
    MaxTransfers = 1
    MaxFaults = 1
    Interventions <- MCInterventions
    MaxOps = 1
    None = None
SPECIFICATION FairSpec
INVARIANTS
    ReviewRowsFit
    AcceptedAsPromoted
    IndependentFinalApproval
PROPERTIES
    DecisionIsCarriedOut
CHECK_DEADLOCK FALSE
