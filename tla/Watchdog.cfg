SPECIFICATION FairSpec
CONSTANTS
    maxUnresponsiveTimeMs = 10500
    MaxProcesses = 2
    TicksPerPoll = 2
    MaxDelay = 1
PROPERTIES KillsAfterTimeout HangEnds
CHECK_DEADLOCK FALSE
