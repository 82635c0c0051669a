CONSTANTS
    a = a
    b = b
    Publisher = {p, q}
    NoPublisher = NoPublisher
    Session = {a, b}
    Client = {c}
    Filter <- MCFilter
    MaxId = 3
    Cap = 1
    Window = 2
    PageLimit = 1
    MaxFaults = 2
SPECIFICATION Spec
INVARIANTS IdsInOrder NoGap
PROPERTIES CatchesUp
