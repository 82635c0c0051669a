CONSTANTS
    Turn = {t1, t2, t3}
    NoTurn = NoTurn
    Canceller = {c1}
    MaxRestarts = 0
    Deletes = TRUE
    SlowDriver = TRUE
SPECIFICATION Spec
SYMMETRY Symmetry
INVARIANTS TypeOK OneDriver SlotExact
\* Every request is used up and every task has ended: the server is idle.
CHECK_DEADLOCK FALSE
