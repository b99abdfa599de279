CONSTANTS
    HeapCells = 4
    ImemWords = 4
    PerfMod = 8
    Arg1Span = 2
    PowerUp <- MCPowerUp
    Programs <- MonitorPrograms
    RegInits <- MonitorRegInits
    RxBytes = {1, 2, 3, 4, 6, 11}
    MayReset = FALSE
SPECIFICATION Spec
INVARIANT HeapReplyIsForAddress
