SPECIFICATION Spec
CONSTANTS
    Worker = {w1, w2}
    MaxEvent = 3
    MaxOpen = 1
    BatchSize = 2
    MaxAttempts = 2
    MaxRebuilds = 0
    None = None
SYMMETRY Replicas
INVARIANTS
    TypeOK
    WatermarkCoversCommitted
    DeliveredIsIndexed
PROPERTY ImplementsReadYourWrites
CHECK_DEADLOCK FALSE
