SPECIFICATION Spec
CONSTANTS
    Timeout = 2
    Threshold = 5
INVARIANT GivenTimeToRecover
CHECK_DEADLOCK FALSE
