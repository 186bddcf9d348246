SPECIFICATION FairSpec
CONSTANTS
    Sessions <- LiveSessions
    PollRecords = 2
    EmptyDrains = 2
    PostStopPolls = 2
    MaxThreads = 1
    Pages = 3
    Faults = TRUE
PROPERTIES
    PausedResumes
    TimedRunEnds
