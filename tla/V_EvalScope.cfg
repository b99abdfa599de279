CONSTANTS
    Inputs <- MCInputs
    EvalImages <- MCImages
    HeapCells = 360
SPECIFICATION UnitsSpec
INVARIANT ValueIsLexical
CHECK_DEADLOCK FALSE
