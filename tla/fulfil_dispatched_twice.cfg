SPECIFICATION Spec
CONSTANTS
    None = None
    o1 = o1
    o2 = o2
    l1 = l1
    l2 = l2
    p1 = p1
    p2 = p2
    x1 = x1
    x2 = x2
    s1 = s1
    s2 = s2
    Orders = {o1}
    Lines = {l1}
    Shipments = {s1}
    Rows = {x1}
    Products = {p1}
    Reqs = {r1, r2}
    OrderOf <- OneOrder
    ProductOf <- SameProduct
    Ordered <- OneEach
    RowProduct <- RowsOfOne
    Opening <- TwoAndOne
    MaxQty = 2
    MaxShip = 1
INVARIANTS
    DispatchedOnce
