CONSTANTS
    A = A  B = B  C = C  D = D  E = E
    s1 = s1  s2 = s2  w1 = w1  w2 = w2  rd = rd  up = up
    ws = ws  dot = dot  p = p  q = q
    Turn = {A, B, C, D, E}
    NoTurn = NoTurn
    Call = {s1, s2, w1, w2, rd, up}
    NoCall = NoCall
    Batch <- MCBatch
    Exclusive = {up}
    Claims <- MCClaims
    Raw = {ws, dot, p, q}
    Canon <- MCCanon
    Boot = {ws}
    Rank <- MCRank
    Refusable = {s2, w2}
    Child <- MCChild
    Above <- MCAbove
    Cancellable = {A, E}
    MaxPerTurn = 2
    MaxGlobal = 2
SPECIFICATION Spec
INVARIANTS Exclusion OrderKept NoDeadlock
\* Every batch has ended, or every permit is held by a call that waits for its child.
CHECK_DEADLOCK FALSE
