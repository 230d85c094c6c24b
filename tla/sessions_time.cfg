SPECIFICATION Spec
CONSTANTS
    None = None
    Users = {u1}
    Families = {f1}
    Tokens = {t1, t2}
    Reqs = {r1, r2}
    Lifetime = 3
    IdleLimit = 2
    MaxTime = 3
    MaxVersion = 1
INVARIANTS
    NoActivityPastLifetime
    IdleJudgedAlike
    DeadlocksHaveACause
PROPERTIES
    NoActivityAfterIdle
    RowsOnlyAge
