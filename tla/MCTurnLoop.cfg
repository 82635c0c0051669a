CONSTANTS
    Tool = {"read", "write"}
    ReadOnly = {"read"}
    PreserveRecent = 2
    Threshold = 2
    MaxSteps = 2
    MaxCalls = 1
    MaxInputs = 3
    MaxTurns = 2
SPECIFICATION Spec
INVARIANTS RequestPaired HistoryKept RemindersExact LoopBounded
\* Every request is used up.
CHECK_DEADLOCK FALSE
