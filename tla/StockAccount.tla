---------------------------- MODULE StockAccount ----------------------------
(***************************************************************************)
(* What the sales side promises about the stock of a warehouse, product by *)
(* product: goods are promised only while unpromised goods are there, and  *)
(* never more leaves than is there, whoever asks and in whatever order.    *)
(* services/sales_service.py is shown to implement this by SalesFulfilment. *)
(***************************************************************************)
EXTENDS Integers

CONSTANTS
    Products,
    Quantities   \* quantities one call may move, by product

VARIABLES
    onHand,      \* goods in the warehouse
    reserved     \* goods promised to orders

account == <<onHand, reserved>>

Plus(f, g) == [p \in Products |-> f[p] + g[p]]
Minus(f, g) == [p \in Products |-> f[p] - g[p]]
AtMost(f, g) == \A p \in Products : f[p] <= g[p]

Init == onHand \in [Products -> Nat] /\ reserved = [p \in Products |-> 0]

Reserve(q) ==
    /\ AtMost(q, Minus(onHand, reserved))
    /\ reserved' = Plus(reserved, q)
    /\ UNCHANGED onHand

Release(q) ==
    /\ AtMost(q, reserved)
    /\ reserved' = Minus(reserved, q)
    /\ UNCHANGED onHand

\* Goods that leave were promised in part (u) or not at all, and what stays
\* still covers every promise.
Issue(q, u) ==
    /\ AtMost(q, onHand) /\ AtMost(u, q) /\ AtMost(u, reserved)
    /\ onHand' = Minus(onHand, q)
    /\ reserved' = Minus(reserved, u)
    /\ AtMost(reserved', onHand')

Next == \E q \in Quantities :
    \/ Reserve(q) \/ Release(q)
    \/ \E u \in Quantities : Issue(q, u)

Spec == Init /\ [][Next]_account
=============================================================================
