CONSTANTS
    Task = {a, b}
    NoTask = NoTask
    Lease = {l1, l2, l3}
    NoLease = NoLease
    Worker = {w1, w2}
    TTL = 2
    BeatEvery = 1
    MaxFaults = 1
SPECIFICATION Spec
INVARIANTS SettledOnce LeaseExcludes
PROPERTIES ImplementsSettlement EventuallyDelivered
