SPECIFICATION Spec
CONSTANTS
    Sessions <- AllSessions
    PollRecords = 2
    EmptyDrains = 2
    PostStopPolls = 2
    MaxThreads = 1
    Pages = 3
    Faults = TRUE
INVARIANTS
    TypeOK
    CleanExit
    SectionsCover
    SidecarMatchesLive
    ThreadSidecarsReplay
    WrapIsReal
    ExtentIsLowerBound
