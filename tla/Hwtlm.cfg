SPECIFICATION Spec
CONSTANTS
    Domains = {package, dram}
    Width = 2
    MaxEnergy = 4
    MaxTime = 2
INVARIANT
    EnergyAccounted
PROPERTY
    WatchEnds
