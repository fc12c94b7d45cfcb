SPECIFICATION Spec
CONSTANTS
    Claim = {c1}
    Evidence = {e1}
    Readable = {e1}
    Proposal = {p1, p2}
    Ops <- VersionRunOps
    Cited <- AnyEvidence
    MaxSeq = 3
    None = None
SYMMETRY Interchangeable
INVARIANT EveryRevokedGroundingBlocked
CHECK_DEADLOCK FALSE
