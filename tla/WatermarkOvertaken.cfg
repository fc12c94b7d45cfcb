SPECIFICATION Spec
CONSTANTS
    Worker = {w1}
    MaxEvent = 3
    MaxOpen = 2
    BatchSize = 2
    MaxAttempts = 2
    MaxRebuilds = 1
    None = None
INVARIANT WatermarkCoversCommitted
CHECK_DEADLOCK FALSE
