SPECIFICATION FairSpec
CONSTANTS
    BatchSize = 2
    MaxRetries = 1
    HasTimer = TRUE
    MaxEvents = 3
    MaxSnapshots = 1
    MaxDrops = 0
PROPERTIES
    ShutdownReturns
    EveryEventSettles
