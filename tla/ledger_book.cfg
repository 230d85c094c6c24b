SPECIFICATION Spec
CONSTANTS
    None = None
    k1 = k1
    k2 = k2
    Keys = {k1, k2}
    Rows = {x1, x2}
    Movements = {m1, m2, m3, m4}
    Reqs = {r1, r2}
    Ops = {"entry", "issue", "transfer", "reserve", "release"}
    Rank <- InOrder
    Twins <- OtherWarehouse
    Covers <- Itself
    Quantities = {1}
    MinQty <- MinusOne
    MaxQty = 2
SYMMETRY Alike
INVARIANTS
    TypeOK
    BalancesAgree
    SomeoneProceeds
PROPERTIES
    ImplementsBook
