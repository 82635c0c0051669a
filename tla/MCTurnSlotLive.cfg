CONSTANTS
    Turn = {t1, t2, t3}
    NoTurn = NoTurn
    Canceller = {}
    MaxRestarts = 1
    Deletes = FALSE
    SlowDriver = TRUE
SPECIFICATION Spec
INVARIANTS RestNotRunning
PROPERTIES QueuedStarts
CHECK_DEADLOCK FALSE
