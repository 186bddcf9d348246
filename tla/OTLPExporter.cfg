SPECIFICATION Spec
CONSTANTS
    BatchSize = 2
    MaxRetries = 1
    HasTimer = TRUE
    MaxEvents = 3
    MaxSnapshots = 1
    MaxDrops = 1
INVARIANTS
    TypeOK
    IInv
    TakesAreRuns
    DrainedWhenInvalid
    CopiesBounded
    DropsNotInflated
PROPERTIES
    NoRequestAfterSettled
    DeliverySpec
