CONSTANTS
    w = w
    q = q
    s = s
    t = t
    p = p
    badGlob = badGlob
    Call = {w, q}
    Reply = {r1, r2}
    Session = {s, t}
    SessionOf <- MCSessionOf
    Perm = {p, badGlob}
    PermOf <- MCPermOf
    Covers <- MCCovers
    BadGlob = {badGlob}
    Hardened = {}
    Manner <- MCManner
    OutOfScope = {}
    ContinueOnAsk = {}
    AskUser = {q}
    Seed <- MCSeed
    MaxFaults = 1
SPECIFICATION Spec
INVARIANTS AnswersKept NoOrphans
PROPERTIES CallEnds
\* Every call has ended and every request is answered.
CHECK_DEADLOCK FALSE
