SPECIFICATION Spec
CONSTANTS
    HttpPages = {"a1", "b"}
    OtherPages = {"blank"}
    StartPage = "blank"
    HostOf <- Host
    MaxLoads = 3
    MaxCount = 2
    MaxStarts = 3
    Configurations <- Found
    MaxCalls = 3
    Sinks = {s1, s2}
    JarSinks = {s1}
    Getters = {g1, g2}
    MaxWrites = 2
    MaxGets = 2
    Letters = {97, 98}
    MaxText = 5
    checksum <- crc_checksum
    MaxSpawned = 3
    Size = 3
    Word = 8
INVARIANTS
    NoEarlyFinish
    SampledForItsPage
    CallbacksFindTheirTarget
    LastReference
    SettingsAgree
    RequestsCarryHeaders
    CalledWhileHeld
    AnswerIsNewEnough
    SetReachesStore
    RoundTrip
PROPERTIES
    EndIsReported
    LossDeactivates
    OperationalIsJustified
CHECK_DEADLOCK FALSE
