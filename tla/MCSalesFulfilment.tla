------------------------- MODULE MCSalesFulfilment -------------------------
(* Small instances of SalesFulfilment for TLC. *)
EXTENDS SalesFulfilment, TLC

CONSTANTS o1, o2, l1, l2, p1, p2, x1, x2, s1, s2

\* One line per order, of one product in two rows.
TwoOrders == l1 :> o1 @@ l2 :> o2
SameProduct == [l \in Lines |-> p1]
OneEach == [l \in Lines |-> 1]
OneAndTwo == l1 :> 1 @@ l2 :> 2
RowsOfOne == [x \in Rows |-> p1]
OneInEach == [x \in Rows |-> 1]
TwoAndOne == [x \in Rows |-> IF x = x1 THEN 2 ELSE 1]

\* One order of two lines, of one or of two products.
OneOrder == [l \in Lines |-> o1]
TwoProducts == l1 :> p1 @@ l2 :> p2
RowsOfTwo == x1 :> p1 @@ x2 :> p2

Alike == Permutations(Reqs)
=============================================================================
