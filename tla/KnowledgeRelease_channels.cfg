CONSTANTS
    ann = ann
    pia = pia
    bob = bob
    Actors = {ann, pia}
    Makers = {ann}
    Publishers = {pia}
    Reviewers = {pia}
    Operators = {pia}
    Candidates = {c1, c2}
    Versions = {v1, v2}
    Sources = {s1}
    Conflicts = {}
    Channels = {stable}
    Keys = {key1, key2}
    MaxAttempts = 1
    MaxMoves = 3
    None = None
SPECIFICATION Spec
SYMMETRY Symmetric
INVARIANTS
    ChannelHistory
PROPERTIES
    SwitchesWhatWasRead
    ImplementsLedger
