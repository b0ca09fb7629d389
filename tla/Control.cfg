SPECIFICATION FairSpec
CONSTANTS
    Sinks = {s1}
    URLs = {u1, u2}
    Blank = blank
    LoadBlankPageOnSuspendEnabled = TRUE
    MaxRequests = 5
INVARIANTS
    LastAcceptedWins
    SinksAgree
PROPERTIES
    Settles
    DestructorReturns
CHECK_DEADLOCK FALSE
