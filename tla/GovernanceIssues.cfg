SPECIFICATION FoundedSpec
CONSTANTS
    Claim = {c1}
    Evidence = {e1, e2}
    Readable = {e1, e2}
    Proposal = {p1, p2, p3, p4}
    Ops <- IssueRunOps
    Cited <- AtMostOne
    MaxSeq = 5
    None = None
    founder = p1
    founding = {e1}
    claim = c1
SYMMETRY Followers
INVARIANTS
    OneLiveIssuePerClaim
    IssueReplayable
    AsOfStatusIsCurrent
    ConflictKeepsBothBranches
PROPERTIES
    DecisionsAreAtomic
    IssuesClosedByDischarge
CHECK_DEADLOCK FALSE
