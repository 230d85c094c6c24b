SPECIFICATION Spec
CONSTANTS
    s1 = s1
    Events = {1, 2}
    Keys = {k}
    Subs = {s1}
    Attempts = {1, 2, 3, 4}
    Workers = {w1, w2}
    Callers = {c1, c2, c3}
    None = None
    MaxRetries <- RetriesOne
    Batch = 2
    MaxCrashes = 1
PROPERTY ImplementsOutbox
\* nothing is due and no request is left: the system stops
CHECK_DEADLOCK FALSE
