SPECIFICATION Spec
CONSTANTS
    Worker = {w1}
    MaxEvent = 3
    MaxOpen = 1
    BatchSize = 2
    MaxAttempts = 2
    MaxRebuilds = 1
    None = None
INVARIANT PurgedStaysPurged
CHECK_DEADLOCK FALSE
