CONSTANTS
    HeapCells = 3
    ImemWords = 4
    PerfMod = 8
    Arg1Span = 2
    PowerUp <- MCPowerUp
    Programs <- ResetPrograms
    RegInits <- ResetRegInits
    RxBytes = {}
    MayReset = TRUE
SPECIFICATION Spec
INVARIANTS NoDanglingPointer CountersAreTrue
PROPERTIES ImplementsISA
