SPECIFICATION SettledSpec
CONSTANTS
    Claim = {c1}
    Evidence = {e1, e2}
    Readable = {e1, e2}
    Proposal = {p1, p2, p3, p4, p5}
    Ops <- ReopenOps
    Cited <- AnyEvidence
    MaxSeq = 7
    None = None
    claim = c1
    founder = p1
    challenger = p2
    settler = p3
    founding = {e2}
    challenging = {e1}
    settling = {e1, e2}
PROPERTY RevocationReopens
CHECK_DEADLOCK FALSE
