CONSTANTS
    Task = {a, b}
    Continuation = {b}
    MaxLive = 1
    MaxLifetime = 2
    CacheCap = 1
    MaxFaults = 2
SPECIFICATION Spec
INVARIANTS QuotaExact OneChannel EndsOnce
\* Every task id is used up and every caller has returned.
CHECK_DEADLOCK FALSE
