SPECIFICATION FairSpec
CONSTANTS
    MaxMemorySavingIterations = 3
    MaxRequests = 6
PROPERTIES ImplementsPage DelegateSettles
CHECK_DEADLOCK FALSE
