SPECIFICATION Spec
CONSTANTS
    Evidence = {e1, e2}
    Held = {}
    Revocable = {}
    Worker = {w1}
    MaxAttempts = 1
    None = None
SYMMETRY Captures
INVARIANT LiveEvidenceHasBytes
CHECK_DEADLOCK FALSE
