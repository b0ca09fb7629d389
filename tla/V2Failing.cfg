SPECIFICATION FairSpec
CONSTANTS
    MaxMemorySavingIterations = 1
    EngineMayFail = TRUE
    MaxRequests = 2
INVARIANTS OneCallInFlight NoLostWakeup
PROPERTIES DeadDelegateUntouched Drains
CHECK_DEADLOCK FALSE
