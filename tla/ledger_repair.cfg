SPECIFICATION Spec
CONSTANTS
    None = None
    k1 = k1
    k2 = k2
    Keys = {k1, k2}
    Rows = {x1, x2}
    Movements = {m1, m2}
    Reqs = {r1, r2}
    Ops = {"issue", "plain", "adjust", "delete_stock", "delete_movement"}
    Rank <- InOrder
    Twins <- Nowhere
    Covers <- LotOfOne
    Quantities = {1}
    MinQty <- MinusOne
    MaxQty = 1
SYMMETRY Alike
INVARIANTS
    TwoRowsFromOneTransfer
PROPERTIES
    TakesOnlyAvailable
