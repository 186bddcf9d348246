SPECIFICATION Spec
CONSTANTS
    Sessions <- PausedTrace
    PollRecords = 2
    EmptyDrains = 2
    PostStopPolls = 2
    MaxThreads = 1
    Pages = 3
    Faults = FALSE
INVARIANT
    TargetNotLeftSuspended
