CONSTANTS
    ann = ann
    pia = pia
    bob = bob
    Actors = {ann, pia, bob}
    Makers <- MCMakers
    Publishers <- MCPublishers
    Reviewers <- MCPublishers
    Operators = {}
    Candidates = {c1}
    Versions = {v1}
    Sources = {s1}
    Conflicts = {k1}
    Channels = {stable}
    Keys = {key1, key2}
    MaxAttempts = 2
    MaxMoves = 0
    None = None
SPECIFICATION FairSpec
INVARIANTS
    ReleaseRowsFit
    IndependentApproval
    OutcomeIsTrue
PROPERTIES
    PublishesUnderCurrentGate
    NothingIsUndone
    DecisionIsCarriedOut
