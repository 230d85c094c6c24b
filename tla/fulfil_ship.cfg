SPECIFICATION Spec
CONSTANTS
    None = None
    o1 = o1
    o2 = o2
    l1 = l1
    l2 = l2
    p1 = p1
    p2 = p2
    x1 = x1
    x2 = x2
    s1 = s1
    s2 = s2
    Orders = {o1, o2}
    Lines = {l1, l2}
    Shipments = {s1}
    Rows = {x1, x2}
    Products = {p1}
    Reqs = {r1, r2}
    OrderOf <- TwoOrders
    ProductOf <- SameProduct
    Ordered <- OneAndTwo
    RowProduct <- RowsOfOne
    Opening <- OneInEach
    MaxQty = 2
    MaxShip = 1
SYMMETRY Alike
INVARIANTS
    TypeOK
    StockArithmetic
    ShipmentsLedgered
    ReservationsMatchAllocations
    AllocatedMeansAll
    ShippedMeansAllShipped
    DeadlocksHaveACause
PROPERTIES
    ImplementsAccount
