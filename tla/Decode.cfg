SPECIFICATION Spec
CHECK_DEADLOCK FALSE
CONSTANTS
    Symbols = {f, g}
    Stubs = {u}
    Kernel = {g}
    NameOf <- Names
    Formats = {"profile", "tree", "collapsed"}
    MaxGaps = 1
    MaxStackDepth = 2
    MaxStacks = 2
    LineSize = 4
    StacksCap = 1
    ChildrenCap = 1
    MaxExecuted <- Executed
    MaxFrames = 4
INVARIANTS
    TypeOK
    ShadowIsStack
    CallsCounted
    TimesAddUp
    ProfileTimeBounded
    PointersLive
    StacksCounted
