SPECIFICATION FairSpec
CONSTANTS
    w = w
    r1 = r1
    p1 = p1
    Requests = {w, r1}
    Servers = {p1}
    server <- Shared
    Limits = {1, 2}
    MaxEvents = 2
    QueueSize = 1
    MaxFailures = 1
INVARIANTS
    CountedWhileServed
    OverLeavesNothing
    GapsExplained
    MissedOnlyByTimer
PROPERTIES
    OverLimitOnlyByRace
    StreamEnds
CHECK_DEADLOCK FALSE
