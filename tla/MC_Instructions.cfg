CONSTANTS
    HeapCells = 3
    ImemWords = 5
    PerfMod = 1
    Arg1Span = 2
    PowerUp <- MCPowerUp
    Programs <- InstructionPrograms
    RegInits <- InstructionRegInits
    RxBytes = {65}
    MayReset = FALSE
SPECIFICATION Spec
INVARIANTS NoDanglingPointer CarIsOlder ErrorIsPrecise UnitsAreAwaited
PROPERTIES ImplementsISA InstructionEnds
