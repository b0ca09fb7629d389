SPECIFICATION Spec
CONSTANTS
    MaxMemorySavingIterations = 2
    EngineMayFail = FALSE
    MaxRequests = 4
INVARIANTS PageAgrees
PROPERTIES ReadyWhenSettled ImplementsPage
CHECK_DEADLOCK FALSE
