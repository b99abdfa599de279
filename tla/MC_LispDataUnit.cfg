CONSTANTS
    HeapCells = 2
    PowerUp <- MCPowerUp
    OperandA <- MCOperandA
    OperandB <- MCOperandB
SPECIFICATION Spec
INVARIANTS PipelineInv
PROPERTIES ImplementsStore CarWrittenOnce
