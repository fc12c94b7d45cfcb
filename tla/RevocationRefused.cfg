SPECIFICATION SettledSpec
CONSTANTS
    Claim = {c1}
    Evidence = {e1, e2}
    Readable = {e1, e2}
    Proposal = {p1, p2, p3, p4}
    Ops <- ConflictOps
    Cited <- AnyEvidence
    MaxSeq = 6
    None = None
    claim = c1
    founder = p1
    challenger = p2
    settler = p3
    founding = {e1}
    challenging = {e2}
    settling = {e2}
INVARIANT RevocationNeverRefused
CHECK_DEADLOCK FALSE
