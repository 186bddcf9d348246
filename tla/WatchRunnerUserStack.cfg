SPECIFICATION Spec
CONSTANTS
    Options <- UserStack
    Shapes <- OneClause
    Keys <- NoAggregations
    BufferSize = 2
    Faults = FALSE
    MaxFirings = 2
    MaxRecords = 0
INVARIANTS
    RightStack
