SPECIFICATION Spec
CONSTANTS
    Elf <- Files
    Mains = {"pie", "fixed", "flat"}
    Libs = {"lib"}
    Interp = "ld"
    KernelPath = "kernel"
    Names <- AllNames
    Specs <- Arguments
    Slides = {16, 24, 32}
    PageSize = 2
    Fallback = 2
    UserLimit = 40
    MaxRanges = 4
    PageUnits = 2
    BufUnits = 5
    MaxExecs = 2
    Ips <- Addresses
INVARIANTS
    SavedWhole
    ImageTrue
    FallbackTrue
    FindsLast
    LookupTrue
    FilterTrue
PROPERTY
    LookupSpec
