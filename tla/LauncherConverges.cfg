SPECIFICATION Spec
CONSTANTS
    Batch <- EveryState
    MaxPublished = 4
    MaxPageEvents = 0
INVARIANTS PageConverges
CHECK_DEADLOCK FALSE
