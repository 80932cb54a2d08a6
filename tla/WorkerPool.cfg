SPECIFICATION FairPoolSpec
CONSTANTS
    MinWorkers = 1
    MaxWorkers = 3
    ScaleUpThreshold = 1
    IdleTime = 2
    InitialCount = 2
    MaxThreads = 4
    MaxNodes = 4
INVARIANTS
    PoolWithinBounds
PROPERTY
    QueueIsServed
CHECK_DEADLOCK FALSE
