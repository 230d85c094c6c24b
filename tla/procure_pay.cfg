SPECIFICATION Spec
CONSTANTS
    o1 = o1  o2 = o2
    l1 = l1  l2 = l2  l3 = l3
    g1 = g1  g2 = g2  g3 = g3
    i1 = i1  i2 = i2
    b1 = b1  b2 = b2  b3 = b3  b4 = b4
    a1 = a1
    Orders = {o1, o2}
    Lines = {l1, l2, l3}
    Grns = {g1, g2, g3}
    Invoices = {i1, i2}
    Bills = {b1, b2, b3, b4}
    Agreements = {a1}
    Reqs = {r1, r2}
    None = None
    OrderOf <- Line
    Ordered <- Quantity
    GrnOrder <- Receipt
    Accepted <- Arrived
    InvoiceOrder <- Bill
    InvoiceOf <- Invoice
    LineOf <- Item
    Billed <- Asking
    Price <- Exact
    AgreementOf <- Release
    Agreed <- Limit
    Tolerance = 0
    AutoApprove = FALSE
    Legacy = {g1}
    Late = FALSE
    MaxRuns = 2
INVARIANTS
    TypeOK
    EachReceiptOnce
    StatusFollowsReceipts
    AgreementKept
    ApprovedAsSeen
    NoCircularWait
PROPERTY
    ImplementsAccrual
SYMMETRY Alike
CHECK_DEADLOCK FALSE
