SPECIFICATION FairSpec
CONSTANTS
    Evidence = {e1, e2}
    Held = {}
    Revocable = {e1, e2}
    Worker = {w1, w2}
    MaxAttempts = 2
    None = None
INVARIANTS
    TypeOK
    ErasedUnreferenced
    NoRequestForgotten
PROPERTIES
    SharedBytesKept
    RevokedBytesGo
CHECK_DEADLOCK FALSE
