\* Eight clocks per bit.  The receiver samples ClkPerBit \div 2 + 1 clocks
\* into a bit, so an edge may come ClkPerBit \div 2 - 2 clocks early or
\* ClkPerBit \div 2 + 1 late, and not one more in either direction.  The
\* bytes tell the eight bits and their order apart.
CONSTANTS
    ClkPerBit = 8
    Bytes = {0, 1, 85, 128, 170, 255}
    Early = 2
    Late = 5
    Calm = 6
    ImemWords = 4
    LoSpan = 2
    Jobs <- MCJobs
    Garbage <- MCGarbage
    GarbageRegs = {0, 3}
    RearmGap = 3
    BlindRearm = FALSE
SPECIFICATION SerialSpec
INVARIANTS BusyIsSending SentIsLoaded
PROPERTIES ImplementsChannel LoadedIsSent
