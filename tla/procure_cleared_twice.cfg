SPECIFICATION Spec
CONSTANTS
    o1 = o1  o2 = o2
    l1 = l1  l2 = l2  l3 = l3
    g1 = g1  g2 = g2  g3 = g3
    i1 = i1  i2 = i2
    b1 = b1  b2 = b2  b3 = b3  b4 = b4
    a1 = a1
    Orders = {o1}
    Lines = {l1}
    Grns = {g1}
    Invoices = {i1, i2}
    Bills = {b1, b2}
    Agreements = {}
    Reqs = {r1}
    None = None
    OrderOf <- LineOne
    Ordered <- QuantityOne
    GrnOrder <- ReceiptOne
    Accepted <- ArrivedOne
    InvoiceOrder <- Bill
    InvoiceOf <- InvoiceOne
    LineOf <- ItemOne
    Billed <- AskingOne
    Price <- ExactOne
    AgreementOf <- ReleaseOne
    Agreed <- LimitOne
    Tolerance = 0
    AutoApprove = FALSE
    Legacy = {}
    Late = TRUE
    MaxRuns = 2
INVARIANT
    ClearedWithinAccrued
CHECK_DEADLOCK FALSE
