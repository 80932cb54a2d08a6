SPECIFICATION FairSpec
CONSTANTS
    f1 = f1
    f2 = f2
    k1 = k1
    k2 = k2
    u1 = u1
    Forms = {f1, f2}
    Workers = {k1, k2}
    first = k1
    Users = {u1}
    MaxFailures = 1
    MaxCrashes = 1
INVARIANTS
    PausedMeansResumable
    DecidedOnceUnlessRaced
    LostOnlyByEarlyAnswer
PROPERTIES
    RevivedOnlyByRunning
    RunEnds
CHECK_DEADLOCK FALSE
