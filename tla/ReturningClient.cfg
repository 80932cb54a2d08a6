SPECIFICATION ReturnFairSpec
CONSTANTS
    Dispatcher = Dispatcher
    Caller = Caller
    NoThread = NoThread
    Threads = {Dispatcher, Caller}
    MaxEvents = 2
    QueueSize = 1
    BufferSize = 1
INVARIANTS
    GapsOfReturn
    ReturnEndsRightly
PROPERTIES
    NothingLost
    StreamEnds
CHECK_DEADLOCK FALSE
