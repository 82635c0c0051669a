CONSTANTS
    Task = {b}
    Continuation = {b}
    MaxLive = 1
    MaxLifetime = 2
    CacheCap = 0
    MaxFaults = 2
SPECIFICATION Spec
PROPERTIES WaiterReturns SlotReleased
\* Every task id is used up and every caller has returned.
CHECK_DEADLOCK FALSE
