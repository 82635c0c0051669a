CONSTANTS
    Task = {a, b}
    NoTask = NoTask
    Msg = {m1, m2}
    MaxDepth = 1
    MaxFaults = 1
SPECIFICATION Spec
INVARIANTS ReadExactly
PROPERTIES InboxDrains
\* Every message was sent and every task has ended.
CHECK_DEADLOCK FALSE
