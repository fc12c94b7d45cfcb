SPECIFICATION FairSpec
CONSTANTS
    Worker = {w1}
    MaxEvent = 2
    MaxOpen = 2
    BatchSize = 1
    MaxAttempts = 3
    MaxRebuilds = 1
    None = None
INVARIANTS
    PurgedStaysPurged
    DeliveredIsIndexed
PROPERTY EveryEventSettles
CHECK_DEADLOCK FALSE
