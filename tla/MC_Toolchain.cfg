CONSTANTS
    Projects <- MCProjects
    SYMBOL_BASE_ID = 900
    MaxId = 901
    Registry <- MCRegistry
    Corpora <- MCCorpora
    CorpusSize = 17
    SELECTED_ORDINALS <- MCOrdinals
    Uses <- MCUses
    MaxRuns = 2
    NoAnswer = NoAnswer
    Empty = Empty
    Text = Text
    CASES <- MCCases
    Answers <- MCAnswers
    Observations <- MCObservations
    CHECKS <- MCChecks
    Versions = {1, 2, 3}
    MaxClaims = 2
SPECIFICATION ToolSpec
INVARIANTS LinesConserved NamesResolve SymbolsApart MnemonicIsMeant ShownNameIsNoted EvidenceIsWitnessed SabotageIsRed NoFalseGreen
PROPERTY EveryAssemblyEnds
CHECK_DEADLOCK FALSE
