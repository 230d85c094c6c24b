--------------------------- MODULE MCStockLedger ---------------------------
(* Small instances of StockLedger for TLC. *)
EXTENDS StockLedger, TLC

CONSTANTS k1, k2

InOrder == k1 :> 1 @@ k2 :> 2
MinusOne == -1

\* An item in two warehouses.
OtherWarehouse == k1 :> {k2} @@ k2 :> {k1}
Itself == k1 :> {k1} @@ k2 :> {k2}

\* An item at k1 and a lot of it at k2, in one warehouse.
Nowhere == k1 :> {} @@ k2 :> {}
LotOfOne == k1 :> {k1, k2} @@ k2 :> {k2}

\* An item in one warehouse.
InOrderOne == k1 :> 1
NowhereOne == k1 :> {}
ItselfOne == k1 :> {k1}

\* Identifiers of rows and of requests are interchangeable.
Alike == Permutations(Rows) \cup Permutations(Reqs) \cup Permutations(Movements)
=============================================================================
