SPECIFICATION Spec
CONSTANTS
    None = None
    Users = {u1}
    Families = {f1, f2}
    Tokens = {t1, t2, t3}
    Reqs = {r1, r2}
    Lifetime = 2
    IdleLimit = 1
    MaxTime = 0
    MaxVersion = 1
SYMMETRY Symmetry
INVARIANTS
    TypeOK
    SoleLiveToken
    SuccessorChain
    LogoutAllIsTotal
    JwtKeepsLoginVersion
PROPERTIES
    ClosedForGood
    ReplayKillsFamily
    ImplementsRegistry
