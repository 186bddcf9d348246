SPECIFICATION FairSpec
CONSTANTS
    Options <- MarkedOptions
    Shapes <- PrintingClauses
    Keys <- Aggregations
    BufferSize = 2
    Faults = TRUE
    MaxFirings = 3
    MaxRecords = 2
INVARIANTS
    WholeStacks
    BodiesInOrder
    SnapshotsPartition
    AllAccounted
PROPERTIES
    SignalEnds
