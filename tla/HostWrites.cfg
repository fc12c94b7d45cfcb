SPECIFICATION Spec
CONSTANTS
    n1 = n1
    n2 = n2
    n3 = n3
    s1 = s1
    s2 = s2
    s3 = s3
    p1 = p1
    p2 = p2
    p3 = p3
    NoteKey <- Notes
    StateKey <- States
    ProposalKey <- Proposals
    Workloads <- Families
    Evidence = {e1}
    Conn = {c1, c2}
    MaxVersion = 2
    None = None
INVARIANTS
    TypeOK
    EffectOnce
    NoLostUpdate
    OneActiveState
PROPERTY ImplementsAtomicWrites
SYMMETRY Interchangeable
CHECK_DEADLOCK FALSE
