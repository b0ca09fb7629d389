SPECIFICATION FairSpec
CONSTANTS
    Timeout = 2
    Threshold = 5
INVARIANTS
    HungLoopFound
PROPERTIES
    KilledForCause
    HungProcessEnds
CHECK_DEADLOCK FALSE
