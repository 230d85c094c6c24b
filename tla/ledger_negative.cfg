SPECIFICATION Spec
CONSTANTS
    None = None
    k1 = k1
    k2 = k2
    Keys = {k1}
    Rows = {x1}
    Movements = {m1, m2, m3, m4, m5}
    Reqs = {r1, r2}
    Ops = {"entry", "issue", "reserve", "release", "adjust"}
    Rank <- InOrderOne
    Twins <- NowhereOne
    Covers <- ItselfOne
    Quantities = {1}
    MinQty <- MinusOne
    MaxQty = 2
SYMMETRY Alike
INVARIANTS
    NeverNegative
