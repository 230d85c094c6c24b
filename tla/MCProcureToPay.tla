--------------------------- MODULE MCProcureToPay ---------------------------
(* Small instances of ProcureToPay for TLC: two orders released from one     *)
(* agreement, o1 received in two parts and billed by two invoices, one of    *)
(* which bills l2 by two lines.                                              *)
EXTENDS ProcureToPay, TLC

CONSTANTS o1, o2, l1, l2, l3, g1, g2, g3, i1, i2, b1, b2, b3, b4, a1

Line == l1 :> o1 @@ l2 :> o1 @@ l3 :> o2
Quantity == l1 :> 2 @@ l2 :> 2 @@ l3 :> 2
Receipt == g1 :> o1 @@ g2 :> o1 @@ g3 :> o2
Arrived == g1 :> (l1 :> 1) @@ g2 :> (l1 :> 1 @@ l2 :> 1) @@ g3 :> (l3 :> 1)
Bill == i1 :> o1 @@ i2 :> o1
Invoice == b1 :> i1 @@ b2 :> i2 @@ b3 :> i2 @@ b4 :> i2
Item == b1 :> l1 @@ b2 :> l1 @@ b3 :> l2 @@ b4 :> l2
Asking == b1 :> 1 @@ b2 :> 2 @@ b3 :> 1 @@ b4 :> 1
Exact == i1 :> "within" @@ i2 :> "exact"
Release == o1 :> a1 @@ o2 :> a1
Limit == a1 :> 3

\* one line, one receipt, two invoices that each bill all of it
LineOne == l1 :> o1
QuantityOne == l1 :> 1
ReceiptOne == g1 :> o1
ArrivedOne == g1 :> (l1 :> 1)
InvoiceOne == b1 :> i1 @@ b2 :> i2
ItemOne == b1 :> l1 @@ b2 :> l1
AskingOne == b1 :> 1 @@ b2 :> 1
ExactOne == i1 :> "exact" @@ i2 :> "exact"
ReleaseOne == o1 :> None
LimitOne == <<>>

\* the same, with one invoice that bills all of it by two lines
InvoiceTwo == b1 :> i1 @@ b2 :> i1
BillTwo == i1 :> o1
ExactTwo == i1 :> "exact"

\* Requests are interchangeable.
Alike == Permutations(Reqs)
=============================================================================
