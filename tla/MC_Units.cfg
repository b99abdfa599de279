CONSTANTS
    Inputs <- MCInputs
    EvalImages <- MCImages
    HeapCells = 360
SPECIFICATION UnitsSpec
INVARIANTS DoneIsSandhi ChainsStayInLayer TransformsAgree RightUntilLost StackIsBalanced
PROPERTIES EveryRunEnds EvaluationEnds
CHECK_DEADLOCK FALSE
