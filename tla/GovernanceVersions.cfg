SPECIFICATION Spec
CONSTANTS
    Claim = {c1}
    Evidence = {e1, e2}
    Readable = {e1, e2}
    Proposal = {p1, p2, p3}
    Ops <- VersionRunOps
    Cited <- AnyEvidence
    MaxSeq = 5
    None = None
SYMMETRY Interchangeable
INVARIANTS
    TypeOK
    NoLostUpdate
    VersionsFollowSequence
    NoRevivalInPlace
    EveryCommitAnnounced
PROPERTY ImplementsGovernedMemory
CHECK_DEADLOCK FALSE
