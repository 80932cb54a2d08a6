SPECIFICATION FairIterationSpec
CONSTANTS
    N = 3
    parallel_nums = 2
    K = 1
INVARIANTS
    OutputsInPlace
    UpdatesLostOnlyByOverlap
PROPERTY
    NodeEnds
CHECK_DEADLOCK FALSE
