INIT Init
NEXT Next
CONSTANTS
    s1 = s1
    Events = {1, 2}
    Keys = {k1, k2}
    Subs = {s1}
    Attempts = {1, 2, 3, 4, 5, 6}
    Workers = {w1, w2}
    Callers = {c1, c2, c3}
    None = None
    MaxRetries <- RetriesOne
    Batch = 2
    MaxCrashes = 1
INVARIANTS
    TypeOK
    OneEventPerKey
    OneChain
    OpenIsLast
    OneSenderAtATime
SYMMETRY Alike
CHECK_DEADLOCK FALSE
