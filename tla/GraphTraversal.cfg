SPECIFICATION Spec
CONSTANTS
    N = 4
    HandleCount = 2
INVARIANTS
    WalkAgreesWithClosedForm
    RunsIffReached
CHECK_DEADLOCK FALSE
