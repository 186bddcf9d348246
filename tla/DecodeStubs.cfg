SPECIFICATION Spec
CHECK_DEADLOCK FALSE
CONSTANTS
    Symbols = {f, g}
    Stubs = {u}
    Kernel = {g}
    NameOf <- Names
    Formats = {"tree"}
    MaxGaps = 0
    MaxStackDepth = 2
    MaxStacks = 2
    LineSize = 4
    StacksCap = 1
    ChildrenCap = 1
    MaxExecuted <- TreeExecuted
    MaxFrames = 4
INVARIANT
    PushedUntilReturn
