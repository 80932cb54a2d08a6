SPECIFICATION Spec
CONSTANTS
    MaxChunks = 2
    Moderated = TRUE
INVARIANTS
    EndIsReported
PROPERTY
    RequestEnds
CHECK_DEADLOCK FALSE
