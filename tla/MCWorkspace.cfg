SPECIFICATION Spec
CONSTANTS
    Order <- MCOrder
    Flags <- MCFlags
    Scripts <- MCScripts
    Programs <- MCPrograms
    Whens <- MCWhens
    InitialFs <- MCInitialFs
    Paths <- MCPaths
    ReadCalls <- MCReadCalls
    Texts <- MCTexts
    EditCalls <- MCEditCalls
    Patterns <- MCPatterns
    Needles <- MCNeedles
    MaxRead = 4
    MaxPath = 3
    MaxGlob = 1
    MaxHits = 2
    MaxVisits = 3
    MaxTotal = 3
    MaxNum = 9
    MaxSteps = 8
    MaxOut = 4
    MaxSource = 4
    MaxFile = 2
    MaxLine = 1
    MaxShown = 2
    MaxWrite = 2
    MaxList = 2
    MaxCalls = 2
    MaxRuns = 1
    MaxBefore = 0
    MaxOthers = 1
    MaxFaults = 1
    MaxUsed = 4
INVARIANTS
    ScriptMeaning
    AbortClean
    SkipReported
    ReplacedKnown
    PageExact
CHECK_DEADLOCK FALSE
