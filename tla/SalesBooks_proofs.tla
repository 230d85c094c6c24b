------------------------- MODULE SalesBooks_proofs -------------------------
(***************************************************************************)
(* The books of the sales side, proved for any number of orders, lines,    *)
(* shipments, stock rows and requests: what left the stock rows is what    *)
(* the shipments issued, what is reserved is what the lines hold, and the  *)
(* calls implement the account of the warehouse.                           *)
(*                                                                         *)
(* To the locks' invariant (IInv) this adds what the computed quantities   *)
(* stand for: a dispatch moves what its shipment says, and a cancellation  *)
(* gives back what its lines hold.                                         *)
(***************************************************************************)
EXTENDS SalesFulfilment_proofs, Sums_proofs

MovesItsShipment(r) ==
    req[r].op = "dispatch" =>
        /\ req[r].pc \in {"ship", "order", "rows"}
        /\ req[r].ship \in Shipments /\ ship[req[r].ship].status # "none"
        /\ req[r].pc # "ship" => req[r].qty = ship[req[r].ship].qty

GivesBackAll(r) ==
    req[r].op = "cancel" /\ Decided(r) =>
        \A l \in Lines : req[r].qty[l] > 0 => req[r].qty[l] = allocated[l]

Purpose == \A r \in Reqs : MovesItsShipment(r) /\ GivesBackAll(r)

\* The documents of the shipments that exist stay what they are, and nothing
\* is issued.
ShipmentsKept == \A s \in Shipments :
    /\ ship[s].status # "none" => ship'[s].status # "none" /\ ship'[s].qty = ship[s].qty
    /\ ship'[s].issues = ship[s].issues
    /\ ship[s].issues = 0 \/ ship'[s].qty = ship[s].qty

Books(r) == Allocate(r) \/ Cancel(r) \/ Dispatch(r)

-----------------------------------------------------------------------------
(* The steps that move no goods.                                           *)

\* What a step that moves no goods and changes no shipment says of its
\* request.
LEMMA PurposeKept ==
    ASSUME TypeOK, Purpose, NEW r \in Reqs, NEW y \in RequestRow,
           req' = [req EXCEPT ![r] = y], ShipmentsKept, allocated' = allocated,
           y.op = "dispatch" =>
              /\ y.pc \in {"ship", "order", "rows"}
              /\ y.ship \in Shipments /\ ship[y.ship].status # "none"
              /\ y.pc # "ship" => y.qty = ship[y.ship].qty,
           y.op = "cancel" /\ y.pc = "rows" =>
              \A l \in Lines : y.qty[l] > 0 => y.qty[l] = allocated[l]
    PROVE  Purpose'
<1>0. req \in [Reqs -> Request] /\ Request \subseteq RequestRow
    BY DEF TypeOK, Request
<1>1. ASSUME NEW q \in Reqs
      PROVE  MovesItsShipment(q)' /\ GivesBackAll(q)'
  <2>1. CASE q = r
    <3>1. req'[q] = y
        BY <1>0, <2>1
    <3>2. MovesItsShipment(q)'
        BY <3>1 DEF MovesItsShipment, ShipmentsKept
    <3>3. GivesBackAll(q)'
        BY <3>1 DEF GivesBackAll, Decided
    <3> QED
        BY <3>2, <3>3
  <2>2. CASE q # r
    <3>1. req'[q] = req[q]
        BY <1>0, <2>2
    <3>2. MovesItsShipment(q) /\ GivesBackAll(q)
        BY DEF Purpose
    <3>3. MovesItsShipment(q)'
        BY <3>1, <3>2 DEF MovesItsShipment, ShipmentsKept
    <3>4. GivesBackAll(q)'
        BY <3>1, <3>2 DEF GivesBackAll, Decided
    <3> QED
        BY <3>3, <3>4
  <2> QED
      BY <2>1, <2>2
<1> QED
    BY <1>1 DEF Purpose

\* Nothing but the request changes.
Still == ship' = ship /\ stock' = stock /\ shipped' = shipped /\ allocated' = allocated

LEMMA StillKept ==
    ASSUME ship' = ship
    PROVE  ShipmentsKept
BY DEF ShipmentsKept

\* Starting a call.
LEMMA PurposeStart ==
    ASSUME TypeOK, TypeOK', Purpose, NEW r \in Reqs, Start(r)
    PROVE  Purpose' /\ Still /\ ShipmentsKept
<1>0. req \in [Reqs -> Request] /\ req'[r] \in RequestRow /\ req[r] \in RequestRow
    BY DEF TypeOK, Request
<1>1. NoReq.pc = "idle" /\ NoReq.op = "none"
    BY DEF NoReq
<1>2. ASSUME NEW op, NEW pc, NEW o, NEW s, Call(r, op, pc, o, s), pc # "rows",
             op = "dispatch" => pc = "ship" /\ s \in Shipments /\ ship[s].status # "none"
      PROVE  Purpose' /\ Still /\ ShipmentsKept
  <2> DEFINE y == [req[r] EXCEPT !.op = op, !.pc = pc, !.order = o, !.ship = s]
  <2>1. req' = [req EXCEPT ![r] = y] /\ Still
      BY <1>2 DEF Call, Move, orders, Still
  <2>2. y.op = op /\ y.pc = pc /\ y.ship = s
      BY <1>0 DEF RequestRow
  <2> HIDE DEF y
  <2>3. y \in RequestRow
      BY <1>0, <2>1
  <2>4. ShipmentsKept
      BY <2>1, StillKept DEF Still
  <2> QED
      BY <1>2, <2>1, <2>2, <2>3, <2>4, PurposeKept DEF Still
<1>3. ASSUME NEW y, Move(r, y), y.op \in {"pick", "invoice"}
      PROVE  Purpose' /\ Still /\ ShipmentsKept
  <2>1. req' = [req EXCEPT ![r] = y] /\ Still
      BY <1>3 DEF Move, orders, Still
  <2>2. y \in RequestRow
      BY <1>0, <2>1
  <2>3. ShipmentsKept
      BY <2>1, StillKept DEF Still
  <2> QED
      BY <1>3, <2>1, <2>2, <2>3, PurposeKept DEF Still
<1>4. ASSUME NEW s \in Shipments, InvoiceStart(r, s)
      PROVE  Purpose' /\ Still /\ ShipmentsKept
    BY <1>0, <1>3, <1>4 DEF InvoiceStart, RequestRow
<1>5. ASSUME NEW s \in Shipments, NEW l \in Lines, PickStart(r, s, l)
      PROVE  Purpose' /\ Still /\ ShipmentsKept
    BY <1>0, <1>3, <1>5 DEF PickStart, RequestRow
<1>6. ASSUME NEW s \in Shipments, DispatchStart(r, s)
      PROVE  Purpose' /\ Still /\ ShipmentsKept
    BY <1>2, <1>6 DEF DispatchStart
<1> QED
    BY <1>2, <1>4, <1>5, <1>6 DEF Start, ConfirmStart, CreateStart, AllocateStart, CancelStart,
       StartPickingStart, DeliverStart

\* Moving on, and giving up.
LEMMA PurposeMoves ==
    ASSUME TypeOK, TypeOK', Purpose, NEW r \in Reqs,
           \/ DeliverInsert(r) \/ PickFlush(r) \/ LockShipment(r) \/ LockOrder(r)
           \/ (\E x \in Rows : LockRow(r, x)) \/ Insufficient(r) \/ InvoiceInsert(r) \/ Abort(r)
    PROVE  Purpose' /\ Still /\ ShipmentsKept
<1>0. req \in [Reqs -> Request] /\ req'[r] \in RequestRow /\ req[r] \in RequestRow
    BY DEF TypeOK, Request
<1>1. MovesItsShipment(r) /\ GivesBackAll(r)
    BY DEF Purpose
<1>2. ASSUME NEW y, Move(r, y),
             y.op = "dispatch" =>
                /\ y.pc \in {"ship", "order", "rows"}
                /\ y.ship \in Shipments /\ ship[y.ship].status # "none"
                /\ y.pc # "ship" => y.qty = ship[y.ship].qty,
             y.op = "cancel" /\ y.pc = "rows" =>
                \A l \in Lines : y.qty[l] > 0 => y.qty[l] = allocated[l]
      PROVE  Purpose' /\ Still /\ ShipmentsKept
  <2>1. req' = [req EXCEPT ![r] = y] /\ Still
      BY <1>2 DEF Move, orders, Still
  <2>2. y \in RequestRow
      BY <1>0, <2>1
  <2>3. ShipmentsKept
      BY <2>1, StillKept DEF Still
  <2> QED
      BY <1>2, <2>1, <2>2, <2>3, PurposeKept DEF Still
<1>3. CASE Reject(r)
  <2>1. NoReq.op = "none"
      BY DEF NoReq
  <2> QED
      BY <1>2, <1>3, <2>1 DEF Reject
<1>4. ASSUME NEW pc, Move(r, [req[r] EXCEPT !.pc = pc]),
             req[r].op # "dispatch", pc # "rows"
      PROVE  Purpose' /\ Still /\ ShipmentsKept
  <2> DEFINE y == [req[r] EXCEPT !.pc = pc]
  <2>1. y.op = req[r].op /\ y.pc = pc
      BY <1>0 DEF RequestRow
  <2> HIDE DEF y
  <2> QED
      BY <1>2, <1>4, <2>1 DEF y
<1>5. CASE DeliverInsert(r) \/ PickFlush(r) \/ InvoiceInsert(r)
  <2>1. req[r].op # "dispatch"
      BY <1>1, <1>5 DEF MovesItsShipment, DeliverInsert, PickFlush, InvoiceInsert
  <2> QED
      BY <1>3, <1>4, <1>5, <2>1 DEF DeliverInsert, PickFlush, InvoiceInsert
<1>6. CASE LockShipment(r)
  <2> DEFINE y == [req[r] EXCEPT !.qty = ship[req[r].ship].qty, !.pc = "order"]
  <2>1. y.op = req[r].op /\ y.ship = req[r].ship /\ y.pc = "order" /\ y.qty = ship[req[r].ship].qty
      BY <1>0 DEF RequestRow
  <2>2. Move(r, y) \/ Reject(r)
      BY <1>6 DEF LockShipment
  <2> HIDE DEF y
  <2> QED
      BY <1>1, <1>2, <1>3, <2>1, <2>2 DEF MovesItsShipment
<1>7. CASE LockOrder(r)
  <2>1. ASSUME NEW q, Move(r, [req[r] EXCEPT !.qty = q, !.pc = "rows"]),
               req[r].op = "dispatch" => q = req[r].qty /\ req[r].pc = "order",
               req[r].op = "cancel" => q = Holds(req[r].order)
        PROVE  Purpose' /\ Still /\ ShipmentsKept
    <3> DEFINE y == [req[r] EXCEPT !.qty = q, !.pc = "rows"]
    <3>1. y.op = req[r].op /\ y.ship = req[r].ship /\ y.pc = "rows" /\ y.qty = q
        BY <1>0 DEF RequestRow
    <3> HIDE DEF y
    <3>2. y.op = "cancel" => \A l \in Lines : y.qty[l] > 0 => y.qty[l] = allocated[l]
        BY <2>1, <3>1 DEF Holds
    <3>3. y.op = "dispatch" => /\ y.ship \in Shipments /\ ship[y.ship].status # "none"
                               /\ y.qty = ship[y.ship].qty
        BY <1>1, <2>1, <3>1 DEF MovesItsShipment
    <3> QED
        BY <1>2, <2>1, <3>1, <3>2, <3>3 DEF y
  <2> QED
      BY <1>3, <1>7, <2>1 DEF LockOrder, Enter
<1>8. ASSUME NEW x \in Rows, LockRow(r, x)
      PROVE  Purpose' /\ Still /\ ShipmentsKept
  <2> DEFINE y == [req[r] EXCEPT !.held = @ \cup {x}, !.seen[x] = stock[x]]
  <2>1. Move(r, y)
      BY <1>8 DEF LockRow
  <2>2. y.op = req[r].op /\ y.pc = req[r].pc /\ y.ship = req[r].ship /\ y.qty = req[r].qty
      BY <1>0 DEF RequestRow
  <2> HIDE DEF y
  <2> QED
      BY <1>1, <1>2, <2>1, <2>2 DEF MovesItsShipment, GivesBackAll, Decided
<1> QED
    BY <1>3, <1>5, <1>6, <1>7, <1>8 DEF Insufficient, Abort

\* Commits that move no goods.
LEMMA PurposeWrites ==
    ASSUME TypeOK, TypeOK', Purpose, NEW r \in Reqs,
           \/ ConfirmWrite(r) \/ CreateShipment(r) \/ StartPicking(r) \/ Deliver(r)
           \/ PickCommit(r) \/ Invoice(r)
    PROVE  /\ Purpose' /\ ShipmentsKept
           /\ stock' = stock /\ shipped' = shipped /\ allocated' = allocated
<1>0. ship \in [Shipments -> ShipmentRow] /\ NoReq \in RequestRow
    BY NoReqType DEF TypeOK, Request
<1>1. /\ Finish(r) /\ stock' = stock /\ shipped' = shipped /\ allocated' = allocated
    BY DEF ConfirmWrite, CreateShipment, StartPicking, Deliver, PickCommit, Invoice, SetShip, orders
<1>2. ASSUME NEW s, NEW x, ship' = [ship EXCEPT ![s] = x],
             \/ x.qty = ship[s].qty /\ x.issues = ship[s].issues /\ x.status # "none"
             \/ x.qty = ship[s].qty /\ x.issues = ship[s].issues /\ x.status = ship[s].status
             \/ ship[s] = NoShip /\ x.issues = 0 /\ x.status # "none"
      PROVE  ShipmentsKept
  <2>1. NoShip.status = "none" /\ NoShip.issues = 0
      BY DEF NoShip
  <2> QED
      BY <1>0, <1>2, <2>1 DEF ShipmentsKept
<1>3. ASSUME NEW s \in Shipments, NEW st, SetShip(s, [ship[s] EXCEPT !.status = st]), st # "none"
      PROVE  ShipmentsKept
    BY <1>0, <1>2, <1>3 DEF SetShip, ShipmentRow
<1>4. ShipmentsKept
  <2>1. CASE ConfirmWrite(r)
      BY <2>1, StillKept DEF ConfirmWrite
  <2>2. CASE CreateShipment(r)
    <3>1. PICK s \in Shipments, q \in [Lines -> 0 .. MaxShip] :
              /\ ship[s] = NoShip
              /\ ship' = [ship EXCEPT ![s] = [NoShip EXCEPT !.status = "pending",
                                                !.order = req[r].order, !.qty = q]]
        BY <2>2 DEF CreateShipment, SetShip
    <3> QED
        BY <1>2, <3>1 DEF NoShip
  <2>3. CASE StartPicking(r) \/ Deliver(r)
    <3> DEFINE s == req[r].ship
    <3>1. PICK st \in {"picking", "delivered"} : ship' = [ship EXCEPT ![s] = [ship[s] EXCEPT !.status = st]]
        BY <2>3 DEF StartPicking, Deliver, SetShip
    <3>2. CASE s \in Shipments
      <4> DEFINE x == [ship[s] EXCEPT !.status = st]
      <4>1. x.qty = ship[s].qty /\ x.issues = ship[s].issues /\ x.status # "none"
          BY <1>0, <3>2 DEF ShipmentRow
      <4>2. ship' = [ship EXCEPT ![s] = x]
          BY <3>1
      <4> HIDE DEF x, s
      <4> QED
          BY <1>2, <4>1, <4>2
    <3>3. CASE s \notin Shipments
        BY <1>0, <3>1, <3>3, StillKept
    <3> QED
        BY <3>2, <3>3
  <2>4. CASE PickCommit(r)
    <3> DEFINE s == req[r].ship
               x == [ship[s] EXCEPT !.picked = @ \cup {req[r].line},
                                    !.status = IF req[r].pc = "pack" THEN "packed" ELSE @]
    <3>1. ship' = [ship EXCEPT ![s] = x]
        BY <2>4 DEF PickCommit, SetShip
    <3>2. CASE s \in Shipments
      <4>1. x.qty = ship[s].qty /\ x.issues = ship[s].issues
            /\ (x.status = "packed" \/ x.status = ship[s].status)
          BY <1>0, <3>2 DEF ShipmentRow
      <4> HIDE DEF x
      <4> QED
          BY <1>2, <3>1, <4>1
    <3>3. CASE s \notin Shipments
        BY <1>0, <3>1, <3>3, StillKept
    <3> QED
        BY <3>2, <3>3
  <2>5. CASE Invoice(r)
    <3> DEFINE s == req[r].ship
               x == [ship[s] EXCEPT !.invoices = @ + 1]
    <3>1. ship' = [ship EXCEPT ![s] = x]
        BY <2>5 DEF Invoice
    <3>2. CASE s \in Shipments
      <4>1. x.qty = ship[s].qty /\ x.issues = ship[s].issues /\ x.status = ship[s].status
          BY <1>0, <3>2 DEF ShipmentRow
      <4> HIDE DEF x
      <4> QED
          BY <1>2, <3>1, <4>1
    <3>3. CASE s \notin Shipments
        BY <1>0, <3>1, <3>3, StillKept
    <3> QED
        BY <3>2, <3>3
  <2> QED
      BY <2>1, <2>2, <2>3, <2>4, <2>5
<1>5. NoReq.op = "none"
    BY DEF NoReq
<1> QED
    BY <1>0, <1>1, <1>4, <1>5, PurposeKept DEF Finish

-----------------------------------------------------------------------------
(* Sums over the rows and lines of a product.                              *)

\* Goods in rows are counted by natural numbers.
LEMMA InRowsType ==
    ASSUME NEW f, \A x \in Rows : f[x] \in Nat, NEW p
    PROVE  InRows(f, p) \in Nat /\ Summable([x \in RowsOf(p) |-> f[x]])
<1>1. IsFiniteSet(RowsOf(p)) /\ RowsOf(p) \subseteq Rows
    BY FulfilmentAssumption, FS_Subset DEF RowsOf
<1>2. Summable([x \in RowsOf(p) |-> f[x]])
    BY <1>1 DEF Summable
<1> QED
    BY <1>2, SumType DEF InRows

\* What is in every row in two parts is there in two parts.
LEMMA InRowsAdd ==
    ASSUME NEW f, NEW g, NEW h, NEW p,
           \A x \in Rows : f[x] \in Nat /\ g[x] \in Nat /\ h[x] = f[x] + g[x]
    PROVE  InRows(h, p) = InRows(f, p) + InRows(g, p)
<1> DEFINE F == [x \in RowsOf(p) |-> f[x]]
           G == [x \in RowsOf(p) |-> g[x]]
           H == [x \in RowsOf(p) |-> h[x]]
<1>1. Summable(F) /\ Summable(G)
    BY InRowsType
<1>2. H = [x \in DOMAIN F |-> F[x] + G[x]]
    BY DEF RowsOf
<1>3. DOMAIN G = DOMAIN F
    OBVIOUS
<1> HIDE DEF F, G, H
<1>4. Sum(H) = Sum(F) + Sum(G)
    BY <1>1, <1>2, <1>3, SumAdd
<1> QED
    BY <1>4 DEF InRows, F, G, H

\* More in every row is more.
LEMMA InRowsMonotone ==
    ASSUME NEW f, NEW g, NEW p,
           \A x \in Rows : f[x] \in Nat /\ g[x] \in Nat /\ f[x] <= g[x]
    PROVE  InRows(f, p) <= InRows(g, p)
<1> DEFINE F == [x \in RowsOf(p) |-> f[x]]
           G == [x \in RowsOf(p) |-> g[x]]
<1>1. Summable(F) /\ Summable(G)
    BY InRowsType
<1>2. \A x \in DOMAIN F : x \in DOMAIN G /\ F[x] <= G[x]
    BY DEF RowsOf
<1> HIDE DEF F, G
<1>3. Sum(F) <= Sum(G)
    BY <1>1, <1>2, SumMonotone
<1> QED
    BY <1>3 DEF InRows, F, G

\* Equal rows, equal sums.
LEMMA InRowsSame ==
    ASSUME NEW f, NEW g, NEW p, \A x \in RowsOf(p) : f[x] = g[x]
    PROVE  InRows(f, p) = InRows(g, p)
<1>1. [x \in RowsOf(p) |-> f[x]] = [x \in RowsOf(p) |-> g[x]]
    OBVIOUS
<1> QED
    BY <1>1 DEF InRows

\* Quantities of lines add up to a natural number.
LEMMA InLinesType ==
    ASSUME NEW f, \A l \in Lines : f[l] \in Nat, NEW p
    PROVE  InLines(f, p) \in Nat /\ Summable([l \in LinesFor(p) |-> f[l]])
<1>1. IsFiniteSet(LinesFor(p)) /\ LinesFor(p) \subseteq Lines
    BY FulfilmentAssumption, FS_Subset DEF LinesFor
<1>2. Summable([l \in LinesFor(p) |-> f[l]])
    BY <1>1 DEF Summable
<1> QED
    BY <1>2, SumType DEF InLines

\* Changing one line changes the sum by the change of the line.
LEMMA InLinesPoint ==
    ASSUME NEW f, NEW g, NEW p, NEW l \in LinesFor(p),
           \A k \in Lines : f[k] \in Nat /\ g[k] \in Nat,
           \A k \in LinesFor(p) : k # l => g[k] = f[k]
    PROVE  /\ f[l] <= InLines(f, p)
           /\ InLines(g, p) = InLines(f, p) - f[l] + g[l]
<1> DEFINE F == [k \in LinesFor(p) |-> f[k]]
           G == [k \in LinesFor(p) |-> g[k]]
<1>1. Summable(F) /\ Summable(G)
    BY InLinesType
<1>2. Without(F, l) = Without(G, l)
    BY DEF Without
<1>3. l \in DOMAIN F /\ l \in DOMAIN G /\ F[l] = f[l] /\ G[l] = g[l]
    OBVIOUS
<1>4. f[l] \in Nat /\ g[l] \in Nat
    BY DEF LinesFor
<1> HIDE DEF F, G
<1>5. /\ Sum(F) = F[l] + Sum(Without(F, l)) /\ Sum(G) = G[l] + Sum(Without(F, l))
      /\ Sum(Without(F, l)) \in Nat
    BY <1>1, <1>2, <1>3, SumPoint, SumType
<1>6. f[l] <= Sum(F) /\ Sum(G) = Sum(F) - f[l] + g[l]
    BY <1>3, <1>4, <1>5
<1> QED
    BY <1>6 DEF InLines, F, G

\* Equal lines, equal sums.
LEMMA InLinesSame ==
    ASSUME NEW f, NEW g, NEW p, \A l \in LinesFor(p) : f[l] = g[l]
    PROVE  InLines(f, p) = InLines(g, p)
<1>1. [l \in LinesFor(p) |-> f[l]] = [l \in LinesFor(p) |-> g[l]]
    OBVIOUS
<1> QED
    BY <1>1 DEF InLines

-----------------------------------------------------------------------------
(* What an allocation, a cancellation and a dispatch do to the goods of a  *)
(* product, in terms of what is in the rows and not of what was read.      *)

\* A request knows of a row what is in it, or nothing.
LEMMA RowAsRead ==
    ASSUME IInv, NEW r \in Reqs, NEW x \in Rows
    PROVE  /\ stock[x].onHand \in Nat /\ stock[x].reserved \in Nat
           /\ stock[x].reserved <= stock[x].onHand
           /\ stock[x].available = stock[x].onHand - stock[x].reserved
           /\ x \in Held(r) => req[r].seen[x] = stock[x]
           /\ x \notin Held(r) => req[r].seen[x] = NoRow
<1>1. stock[x] \in StockRow
    BY DEF IInv, TypeOK
<1> QED
    BY <1>1 DEF IInv, RowInv, StockArithmetic, SeenIsCurrent, UnseenIsEmpty, StockRow

\* Once it waits for no more rows, it holds all rows of what it moves.
LEMMA HoldsItsRows ==
    ASSUME NEW r, Wanted(r) = {}, NEW p, Parts(r, p) # {}
    PROVE  RowsOf(p) \subseteq Held(r)
<1>1. PICK l \in Lines : ProductOf[l] = p /\ req[r].qty[l] > 0
    BY DEF Parts
<1> QED
    BY <1>1 DEF Wanted, RowsOf

\* The goods of p that a request moves when at most one of its lines is of p.
LEMMA OneLineMoves ==
    ASSUME IInv, NEW r \in Reqs, NEW p \in Products, NEW m \in LastLineOnly(r)
    PROVE  /\ m[p] \in Nat
           /\ Parts(r, p) = {} => m[p] = 0
           /\ \A l : Parts(r, p) = {l} => m[p] = req[r].qty[l]
<1>1. m \in [Products -> Quantity]
    BY DEF LastLineOnly
<1>2. IF Parts(r, p) = {} THEN m[p] = 0 ELSE \E l \in Parts(r, p) : m[p] = req[r].qty[l]
    BY DEF LastLineOnly
<1>3. m[p] \in Nat
    BY <1>1, FulfilmentAssumption DEF Quantity
<1>4. ASSUME NEW l, Parts(r, p) = {l}
      PROVE  m[p] = req[r].qty[l]
    BY <1>2, <1>4, Zenon
<1> QED
    BY <1>2, <1>3, <1>4, Zenon

LEMMA AllocateEffect ==
    ASSUME IInv, NEW r \in Reqs, Allocate(r)
    PROVE  \E t :
        /\ \A x \in Rows :
             /\ t[x] \in Nat /\ t[x] <= stock[x].onHand - stock[x].reserved
             /\ stock'[x].onHand = stock[x].onHand
             /\ stock'[x].reserved = stock[x].reserved + t[x]
        /\ \A p \in Products :
             /\ Parts(r, p) = {} => InRows(t, p) = 0
             /\ \A l \in Lines : Parts(r, p) = {l} => InRows(t, p) = req[r].qty[l]
<1>1. PICK m \in LastLineOnly(r) : \E t \in Takes(r, m, SeenAvailable(r)) : Store(r, t, ReserveIn)
    BY DEF Allocate
<1>2. PICK t \in Takes(r, m, SeenAvailable(r)) : Store(r, t, ReserveIn)
    BY <1>1
<1>3. stock \in [Rows -> StockRow]
    BY DEF IInv, TypeOK
<1>4. ASSUME NEW x \in Rows
      PROVE  /\ SeenAvailable(r)[x] \in Nat
             /\ t[x] \in Nat /\ t[x] <= stock[x].onHand - stock[x].reserved
             /\ stock'[x].onHand = stock[x].onHand
             /\ stock'[x].reserved = stock[x].reserved + t[x]
  <2>1. t[x] \in Nat /\ t[x] <= req[r].seen[x].available
      BY <1>2, FulfilmentAssumption DEF Takes, SeenAvailable, Quantity
  <2>2. CASE x \in Held(r) /\ t[x] > 0
    <3>1. stock'[x] = ReserveIn(stock[x], stock[x], t[x])
        BY <1>2, <2>2, RowAsRead DEF Store
    <3>2. stock[x] \in StockRow
        BY <1>3
    <3>3. stock'[x].onHand = stock[x].onHand /\ stock'[x].reserved = stock[x].reserved + t[x]
        BY <3>1, <3>2 DEF ReserveIn, StockRow
    <3> QED
        BY <2>1, <2>2, <3>3, RowAsRead DEF SeenAvailable
  <2>3. CASE ~(x \in Held(r) /\ t[x] > 0)
    <3>1. stock'[x] = stock[x]
        BY <1>2, <2>3 DEF Store
    <3>2. x \notin Held(r) => req[r].seen[x].available = 0
        BY RowAsRead DEF NoRow
    <3>3. t[x] = 0
        BY <2>1, <2>3, <3>2
    <3> QED
        BY <2>1, <3>1, <3>2, <3>3, RowAsRead DEF SeenAvailable
  <2> QED
      BY <2>2, <2>3
<1>5. ASSUME NEW p \in Products
      PROVE  /\ Parts(r, p) = {} => InRows(t, p) = 0
             /\ \A l \in Lines : Parts(r, p) = {l} => InRows(t, p) = req[r].qty[l]
  <2>1. InRows(SeenAvailable(r), p) \in Nat
      BY <1>4, InRowsType
  <2>2. InRows(t, p) = Lower(m[p], InRows(SeenAvailable(r), p))
      BY <1>2 DEF Takes
  <2>3. ASSUME NEW l \in Lines, Parts(r, p) = {l}
        PROVE  m[p] <= InRows(SeenAvailable(r), p)
    <3>1. ProductOf[l] = p
        BY <2>3 DEF Parts
    <3> QED
        BY <2>3, <3>1, OneLineMoves DEF Allocate, Sufficient
  <2> QED
      BY <2>1, <2>2, <2>3, OneLineMoves DEF Lower
<1> QED
    BY <1>4, <1>5

LEMMA CancelEffect ==
    ASSUME IInv, NEW r \in Reqs, Cancel(r)
    PROVE  \E t :
        /\ \A x \in Rows :
             /\ t[x] \in Nat /\ t[x] <= stock[x].reserved
             /\ stock'[x].onHand = stock[x].onHand
             /\ stock[x].reserved = stock'[x].reserved + t[x]
             /\ stock'[x].reserved \in Nat
        /\ \A p \in Products :
             /\ Parts(r, p) = {} => InRows(t, p) = 0
             /\ \A l \in Lines : Parts(r, p) = {l} =>
                    InRows(t, p) = Lower(req[r].qty[l], InRows(Reserved, p))
<1>1. PICK m \in LastLineOnly(r) : \E t \in Takes(r, m, SeenReserved(r)) : Store(r, t, ReleaseIn)
    BY DEF Cancel
<1>2. PICK t \in Takes(r, m, SeenReserved(r)) : Store(r, t, ReleaseIn)
    BY <1>1
<1>3. stock \in [Rows -> StockRow]
    BY DEF IInv, TypeOK
<1>4. ASSUME NEW x \in Rows
      PROVE  /\ SeenReserved(r)[x] \in Nat
             /\ t[x] \in Nat /\ t[x] <= stock[x].reserved
             /\ stock'[x].onHand = stock[x].onHand
             /\ stock[x].reserved = stock'[x].reserved + t[x]
             /\ stock'[x].reserved \in Nat
  <2>1. t[x] \in Nat /\ t[x] <= req[r].seen[x].reserved
      BY <1>2, FulfilmentAssumption DEF Takes, SeenReserved, Quantity
  <2>2. CASE x \in Held(r) /\ t[x] > 0
    <3>1. stock'[x] = ReleaseIn(stock[x], stock[x], t[x])
        BY <1>2, <2>2, RowAsRead DEF Store
    <3>2. stock[x] \in StockRow
        BY <1>3
    <3>3. stock'[x].onHand = stock[x].onHand /\ stock'[x].reserved = stock[x].reserved - t[x]
        BY <3>1, <3>2 DEF ReleaseIn, StockRow
    <3> QED
        BY <2>1, <2>2, <3>3, RowAsRead DEF SeenReserved
  <2>3. CASE ~(x \in Held(r) /\ t[x] > 0)
    <3>1. stock'[x] = stock[x]
        BY <1>2, <2>3 DEF Store
    <3>2. x \notin Held(r) => req[r].seen[x].reserved = 0
        BY RowAsRead DEF NoRow
    <3>3. t[x] = 0
        BY <2>1, <2>3, <3>2
    <3> QED
        BY <2>1, <3>1, <3>2, <3>3, RowAsRead DEF SeenReserved
  <2> QED
      BY <2>2, <2>3
<1>5. ASSUME NEW p \in Products
      PROVE  /\ Parts(r, p) = {} => InRows(t, p) = 0
             /\ \A l \in Lines : Parts(r, p) = {l} =>
                    InRows(t, p) = Lower(req[r].qty[l], InRows(Reserved, p))
  <2>1. InRows(SeenReserved(r), p) \in Nat
      BY <1>4, InRowsType
  <2>2. InRows(t, p) = Lower(m[p], InRows(SeenReserved(r), p))
      BY <1>2 DEF Takes
  <2>3. ASSUME Parts(r, p) # {}
        PROVE  InRows(SeenReserved(r), p) = InRows(Reserved, p)
    <3>1. RowsOf(p) \subseteq Held(r) /\ RowsOf(p) \subseteq Rows
        BY <2>3, HoldsItsRows DEF Cancel, Ready, RowsOf
    <3>2. \A x \in RowsOf(p) : SeenReserved(r)[x] = Reserved[x]
        BY <3>1, RowAsRead DEF SeenReserved, Reserved
    <3> QED
        BY <3>2, InRowsSame
  <2> QED
      BY <2>1, <2>2, <2>3, OneLineMoves DEF Lower
<1> QED
    BY <1>4, <1>5

LEMMA DispatchEffect ==
    ASSUME IInv, NEW r \in Reqs, Dispatch(r)
    PROVE  \E t :
        /\ \A x \in Rows :
             /\ t[x] \in Nat /\ stock[x].onHand = stock'[x].onHand + t[x]
             /\ stock'[x].onHand \in Nat
             /\ stock'[x].reserved = IF stock[x].reserved > t[x]
                                     THEN stock[x].reserved - t[x] ELSE 0
        /\ \A p \in Products : InRows(t, p) = InLines(req[r].qty, p)
<1>1. PICK t \in Takes(r, Issued(r), SeenOnHand(r)) : Store(r, t, IssueFrom)
    BY DEF Dispatch, Issuable
<1>2. stock \in [Rows -> StockRow]
    BY DEF IInv, TypeOK
<1>3. ASSUME NEW x \in Rows
      PROVE  /\ SeenOnHand(r)[x] \in Nat
             /\ t[x] \in Nat /\ stock[x].onHand = stock'[x].onHand + t[x]
             /\ stock'[x].onHand \in Nat
             /\ stock'[x].reserved = IF stock[x].reserved > t[x]
                                     THEN stock[x].reserved - t[x] ELSE 0
  <2>1. t[x] \in Nat /\ t[x] <= req[r].seen[x].onHand
      BY <1>1, FulfilmentAssumption DEF Takes, SeenOnHand, Quantity
  <2>2. CASE x \in Held(r) /\ t[x] > 0
    <3>1. stock'[x] = IssueFrom(stock[x], stock[x], t[x])
        BY <1>1, <2>2, RowAsRead DEF Store
    <3>2. /\ stock'[x].onHand = stock[x].onHand - t[x]
          /\ stock'[x].reserved = IF stock[x].reserved > t[x]
                                  THEN stock[x].reserved - t[x] ELSE 0
        BY <3>1 DEF IssueFrom
    <3> QED
        BY <2>1, <2>2, <3>2, RowAsRead DEF SeenOnHand
  <2>3. CASE ~(x \in Held(r) /\ t[x] > 0)
    <3>1. stock'[x] = stock[x]
        BY <1>1, <2>3 DEF Store
    <3>2. x \notin Held(r) => req[r].seen[x].onHand = 0
        BY RowAsRead DEF NoRow
    <3>3. t[x] = 0
        BY <2>1, <2>3, <3>2
    <3> QED
        BY <2>1, <3>1, <3>2, <3>3, RowAsRead DEF SeenOnHand
  <2> QED
      BY <2>2, <2>3
<1>4. ASSUME NEW p \in Products
      PROVE  InRows(t, p) = InLines(req[r].qty, p)
  <2>1. InRows(SeenOnHand(r), p) \in Nat
      BY <1>3, InRowsType
  <2>2. InRows(t, p) = Lower(InLines(req[r].qty, p), InRows(SeenOnHand(r), p))
      BY <1>1 DEF Takes, Issued
  <2>3. InLines(req[r].qty, p) <= InRows(SeenOnHand(r), p)
      BY DEF Dispatch, InStock, Issued
  <2> QED
      BY <2>2, <2>3 DEF Lower
<1> QED
    BY <1>3, <1>4

-----------------------------------------------------------------------------
(* What the other requests are about survives the steps that move goods:   *)
(* they change the lines of the order they have locked, and no quantities  *)
(* of a shipment.                                                          *)

LEMMA PurposeBooks ==
    ASSUME IInv, Purpose, NEW r \in Reqs, Books(r)
    PROVE  Purpose'
<1> DEFINE o == req[r].order
<1>1. /\ req \in [Reqs -> Request] /\ ship \in [Shipments -> ShipmentRow]
      /\ req' = [req EXCEPT ![r] = NoReq] /\ Decided(r) /\ OrderInv
      /\ allocated \in [Lines -> Quantity]
    BY DEF IInv, TypeOK, Books, Allocate, Cancel, Dispatch, Ready, Finish, Decided
<1>2. \A l \in Lines : OrderOf[l] # o => allocated'[l] = allocated[l]
    BY <1>1 DEF Books, Allocate, Cancel, Dispatch, LinesOf, OrderInv, CancelsOwnLines, Ready
<1>3. \A s \in Shipments :
         ship[s].status # "none" => ship'[s].status # "none" /\ ship'[s].qty = ship[s].qty
  <2>1. CASE ship' = ship
      BY <2>1
  <2>2. CASE Dispatch(r)
    <3>1. ship' = [ship EXCEPT ![req[r].ship].status = "dispatched", ![req[r].ship].issues = @ + 1]
        BY <2>2 DEF Dispatch
    <3> QED
        BY <1>1, <3>1 DEF ShipmentRow
  <2> QED
      BY <2>1, <2>2 DEF Books, Allocate, Cancel
<1>4. ASSUME NEW q \in Reqs
      PROVE  MovesItsShipment(q)' /\ GivesBackAll(q)'
  <2>1. CASE q = r
      BY <1>1, <2>1 DEF MovesItsShipment, GivesBackAll, NoReq
  <2>2. CASE q # r
    <3>1. req'[q] = req[q]
        BY <1>1, <2>2
    <3>2. MovesItsShipment(q) /\ GivesBackAll(q)
        BY DEF Purpose
    <3>3. MovesItsShipment(q)'
        BY <1>3, <3>1, <3>2 DEF MovesItsShipment
    <3>4. Decided(q) => req[q].order # o
        BY <1>1, <2>2 DEF OrderInv, OrdersExclusive
    <3>5. Decided(q) /\ req[q].op = "cancel" =>
              \A l \in Lines : req[q].qty[l] > 0 => allocated'[l] = allocated[l]
        BY <1>1, <1>2, <3>4 DEF OrderInv, CancelsOwnLines
    <3>6. GivesBackAll(q)'
        BY <3>1, <3>2, <3>5 DEF GivesBackAll, Decided
    <3> QED
        BY <3>3, <3>6
  <2> QED
      BY <2>1, <2>2
<1> QED
    BY <1>4 DEF Purpose

\* Every step keeps what requests are about, and one that moves no goods
\* leaves all counts alone.
LEMMA PurposeNext ==
    ASSUME IInv, IInv', Purpose, [Next]_vars
    PROVE  /\ Purpose'
           /\ \/ \E r \in Reqs : Books(r)
              \/ /\ ShipmentsKept
                 /\ stock' = stock /\ shipped' = shipped /\ allocated' = allocated
<1>1. TypeOK /\ TypeOK'
    BY DEF IInv
<1>2. CASE UNCHANGED vars
  <2>1. /\ ship' = ship /\ req' = req
        /\ stock' = stock /\ shipped' = shipped /\ allocated' = allocated
      BY <1>2 DEF vars
  <2>2. Purpose'
      BY <2>1 DEF Purpose, MovesItsShipment, GivesBackAll, Decided
  <2> QED
      BY <2>1, <2>2, StillKept
<1>3. ASSUME NEW r \in Reqs, Start(r) \/ Proceed(r) \/ Abort(r)
      PROVE  /\ Purpose'
             /\ \/ Books(r)
                \/ /\ ShipmentsKept
                   /\ stock' = stock /\ shipped' = shipped /\ allocated' = allocated
  <2>1. CASE Start(r)
      BY <1>1, <2>1, PurposeStart DEF Still
  <2>2. CASE \/ DeliverInsert(r) \/ PickFlush(r) \/ LockShipment(r) \/ LockOrder(r)
             \/ (\E x \in Rows : LockRow(r, x)) \/ Insufficient(r) \/ InvoiceInsert(r) \/ Abort(r)
      BY <1>1, <2>2, PurposeMoves DEF Still
  <2>3. CASE \/ ConfirmWrite(r) \/ CreateShipment(r) \/ StartPicking(r) \/ Deliver(r)
             \/ PickCommit(r) \/ Invoice(r)
      BY <1>1, <2>3, PurposeWrites
  <2>4. CASE Books(r)
      BY <2>4, PurposeBooks
  <2> QED
      BY <1>3, <2>1, <2>2, <2>3, <2>4 DEF Proceed, Books
<1> QED
    BY <1>2, <1>3 DEF Next

-----------------------------------------------------------------------------
(* Nothing leaves without a document.                                      *)

\* What the shipments issued, of a product and for a line.
OfProduct(p) == [s \in Shipments |-> IssuedBy(s, p)]
ForLine(l) == [s \in Shipments |-> ship[s].issues * ship[s].qty[l]]

\* Products of natural numbers.
LEMMA Times ==
    ASSUME NEW m \in Nat, NEW n \in Nat
    PROVE  m * n \in Nat /\ 0 * n = 0 /\ (m + 1) * n = m * n + n
OBVIOUS

\* The quantities issued are natural numbers.
LEMMA IssuedType ==
    ASSUME TypeOK
    PROVE  /\ \A s \in Shipments : /\ ship[s].issues \in Nat
                                   /\ \A l \in Lines : ship[s].qty[l] \in Nat
                                   /\ \A p : InLines(ship[s].qty, p) \in Nat
           /\ \A p : Summable(OfProduct(p))
           /\ \A l \in Lines : Summable(ForLine(l))
<1>1. ASSUME NEW s \in Shipments
      PROVE  ship[s].issues \in Nat /\ \A l \in Lines : ship[s].qty[l] \in Nat
    BY FulfilmentAssumption DEF TypeOK, ShipmentRow, Quantity
<1>2. \A s \in Shipments : \A p : InLines(ship[s].qty, p) \in Nat
    BY <1>1, InLinesType
<1>3. \A p : Summable(OfProduct(p))
    BY <1>1, <1>2, Times, FulfilmentAssumption DEF OfProduct, IssuedBy, Summable
<1>4. \A l \in Lines : Summable(ForLine(l))
    BY <1>1, Times, FulfilmentAssumption DEF ForLine, Summable
<1> QED
    BY <1>1, <1>2, <1>3, <1>4

Ledgered ==
    /\ \A p \in Products : InRows(OnHand, p) + Sum(OfProduct(p)) = InRows(Opening, p)
    /\ \A l \in Lines : shipped[l] = Sum(ForLine(l))

\* A step that moves no goods.
LEMMA LedgeredKept ==
    ASSUME TypeOK, TypeOK', Ledgered, ShipmentsKept, stock' = stock, shipped' = shipped
    PROVE  Ledgered'
<1>1. ASSUME NEW p
      PROVE  OfProduct(p)' = OfProduct(p)
  <2>1. ASSUME NEW s \in Shipments
        PROVE  ship'[s].issues * InLines(ship'[s].qty, p) = ship[s].issues * InLines(ship[s].qty, p)
    <3>1. InLines(ship[s].qty, p) \in Nat
        BY IssuedType
    <3>2. InLines(ship'[s].qty, p) \in Nat
      <4>1. \A l \in Lines : ship'[s].qty[l] \in Nat
          BY FulfilmentAssumption DEF TypeOK, ShipmentRow, Quantity
      <4> QED
          BY <4>1, InLinesType
    <3>3. CASE ship[s].issues = 0
        BY <3>1, <3>2, <3>3, Times DEF ShipmentsKept
    <3>4. CASE ship'[s].qty = ship[s].qty
        BY <3>4 DEF ShipmentsKept
    <3> QED
        BY <3>3, <3>4 DEF ShipmentsKept
  <2> QED
      BY <2>1 DEF OfProduct, IssuedBy, InLines
<1>2. ASSUME NEW l \in Lines
      PROVE  ForLine(l)' = ForLine(l)
  <2>1. ASSUME NEW s \in Shipments
        PROVE  ship'[s].issues * ship'[s].qty[l] = ship[s].issues * ship[s].qty[l]
    <3>1. ship[s].qty[l] \in Nat /\ ship'[s].qty[l] \in Nat
        BY FulfilmentAssumption DEF TypeOK, ShipmentRow, Quantity
    <3>2. CASE ship[s].issues = 0
        BY <3>1, <3>2, Times DEF ShipmentsKept
    <3>3. CASE ship'[s].qty = ship[s].qty
        BY <3>3 DEF ShipmentsKept
    <3> QED
        BY <3>2, <3>3 DEF ShipmentsKept
  <2> QED
      BY <2>1 DEF ForLine
<1>3. \A p : InRows(OnHand, p)' = InRows(OnHand, p)
    BY DEF InRows, OnHand
<1> QED
    BY <1>1, <1>2, <1>3 DEF Ledgered

\* An allocation or a cancellation leaves what is on hand.
LEMMA LedgeredPromises ==
    ASSUME IInv, Ledgered, NEW r \in Reqs, Allocate(r) \/ Cancel(r)
    PROVE  Ledgered'
<1>1. \A x \in Rows : stock'[x].onHand = stock[x].onHand
    BY AllocateEffect, CancelEffect
<1>2. OnHand' = OnHand
    BY <1>1 DEF OnHand
<1>3. ship' = ship /\ shipped' = shipped
    BY DEF Allocate, Cancel
<1> QED
    BY <1>2, <1>3 DEF Ledgered, InRows, OfProduct, IssuedBy, InLines, ForLine

\* A dispatch takes from the rows what it adds to its movements, and adds
\* that to its lines.
LEMMA LedgeredDispatch ==
    ASSUME IInv, IInv', Purpose, Ledgered, NEW r \in Reqs, Dispatch(r)
    PROVE  Ledgered'
<1> DEFINE s == req[r].ship
<1>1. TypeOK /\ TypeOK' /\ ship \in [Shipments -> ShipmentRow] /\ shipped \in [Lines -> Nat]
    BY DEF IInv, TypeOK
<1>2. s \in Shipments /\ req[r].qty = ship[s].qty
    BY DEF Purpose, MovesItsShipment, Dispatch, Ready
<1>3. /\ ship'[s].issues = ship[s].issues + 1
      /\ \A i \in Shipments : ship'[i].qty = ship[i].qty
      /\ \A i \in Shipments : i # s => ship'[i] = ship[i]
    BY <1>1, <1>2 DEF Dispatch, ShipmentRow
<1>4. PICK t :
        /\ \A x \in Rows :
             /\ t[x] \in Nat /\ stock[x].onHand = stock'[x].onHand + t[x]
             /\ stock'[x].onHand \in Nat
             /\ stock'[x].reserved = IF stock[x].reserved > t[x]
                                     THEN stock[x].reserved - t[x] ELSE 0
        /\ \A p \in Products : InRows(t, p) = InLines(req[r].qty, p)
    BY DispatchEffect
<1>5. ASSUME NEW p \in Products
      PROVE  (InRows(OnHand, p) + Sum(OfProduct(p)) = InRows(Opening, p))'
  <2> DEFINE f == OfProduct(p)
             g == [i \in Shipments |-> ship'[i].issues * InLines(ship'[i].qty, p)]
             k == InLines(ship[s].qty, p)
             left == [x \in Rows |-> stock'[x].onHand]
  <2>1. OfProduct(p)' = g /\ InRows(OnHand, p)' = InRows(left, p)
      BY DEF OfProduct, IssuedBy, InLines, InRows, OnHand
  <2>2. \A x \in Rows : left[x] \in Nat /\ t[x] \in Nat /\ OnHand[x] = left[x] + t[x]
      BY <1>4 DEF OnHand
  <2>3. InRows(OnHand, p) = InRows(left, p) + InRows(t, p)
      BY <2>2, InRowsAdd
  <2>4. InRows(t, p) = k
      BY <1>2, <1>4
  <2>5. InRows(left, p) \in Nat
      BY <2>2, InRowsType
  <2>6. k \in Nat /\ ship[s].issues \in Nat /\ Summable(f)
      BY <1>1, <1>2, IssuedType
  <2>7. f[s] = ship[s].issues * k /\ g[s] = (ship[s].issues + 1) * k
      BY <1>2, <1>3 DEF OfProduct, IssuedBy
  <2>8. DOMAIN f = Shipments /\ DOMAIN g = Shipments
      BY DEF OfProduct
  <2>9. \A i \in Shipments : i # s => g[i] = f[i]
      BY <1>3 DEF OfProduct, IssuedBy
  <2>10. f[s] \in Nat /\ g[s] = f[s] + k /\ g[s] \in Nat
      BY <2>6, <2>7, Times
  <2> HIDE DEF f, g, k, left
  <2>11. Summable(g)
      BY <1>2, <2>6, <2>8, <2>9, <2>10 DEF Summable
  <2>12. Sum(g) = Sum(f) + k /\ Sum(f) \in Nat
    <3>1. Sum(f) \in Nat
        BY <2>6, SumType
    <3>2. Sum(g) = Sum(f) - f[s] + g[s]
        BY <1>2, <2>6, <2>8, <2>9, <2>11, SumChange
    <3> QED
        BY <2>6, <2>10, <3>1, <3>2
  <2>13. InRows(OnHand, p) + Sum(f) = InRows(Opening, p)
      BY DEF Ledgered, f
  <2>14. InRows(left, p) + Sum(g) = InRows(Opening, p)
      BY <2>3, <2>4, <2>5, <2>6, <2>12, <2>13
  <2>15. InRows(Opening, p)' = InRows(Opening, p)
      BY DEF InRows
  <2> QED
      BY <2>1, <2>14, <2>15
<1>6. ASSUME NEW l \in Lines
      PROVE  (shipped[l] = Sum(ForLine(l)))'
  <2> DEFINE f == ForLine(l)
             g == [i \in Shipments |-> ship'[i].issues * ship'[i].qty[l]]
             k == ship[s].qty[l]
  <2>1. ForLine(l)' = g
      BY DEF ForLine
  <2>2. shipped'[l] = shipped[l] + k
      BY <1>2 DEF Dispatch, ShippedNow
  <2>3. k \in Nat /\ ship[s].issues \in Nat /\ Summable(f)
      BY <1>1, <1>2, IssuedType
  <2>4. f[s] = ship[s].issues * k /\ g[s] = (ship[s].issues + 1) * k
      BY <1>2, <1>3 DEF ForLine
  <2>5. DOMAIN f = Shipments /\ DOMAIN g = Shipments
      BY DEF ForLine
  <2>6. \A i \in Shipments : i # s => g[i] = f[i]
      BY <1>3 DEF ForLine
  <2>7. shipped[l] = Sum(f)
      BY DEF Ledgered
  <2> HIDE DEF f, g, k
  <2>8. f[s] \in Nat /\ g[s] = f[s] + k /\ g[s] \in Nat
      BY <2>3, <2>4, Times
  <2>9. Summable(g)
      BY <1>2, <2>3, <2>5, <2>6, <2>8 DEF Summable
  <2>10. Sum(g) = Sum(f) - f[s] + g[s] /\ Sum(f) \in Nat
      BY <1>2, <2>3, <2>5, <2>6, <2>9, SumChange, SumType
  <2>11. shipped'[l] = Sum(g)
      BY <2>2, <2>3, <2>7, <2>8, <2>10
  <2> QED
      BY <2>1, <2>11
<1> QED
    BY <1>5, <1>6 DEF Ledgered

\* Before the first call nothing is issued, and requests are about nothing.
LEMMA InitBooks ==
    ASSUME Init
    PROVE  Purpose /\ Ledgered
<1>1. Purpose
    BY DEF Init, Purpose, MovesItsShipment, GivesBackAll, NoReq
<1>2. \A s \in Shipments : ship[s].issues = 0 /\ ship[s].qty = NoQty
    BY DEF Init, NoShip
<1>3. TypeOK
    BY InitInv DEF IInv
<1>4. ASSUME NEW p \in Products
      PROVE  InRows(OnHand, p) + Sum(OfProduct(p)) = InRows(Opening, p)
  <2>1. \A x \in Rows : OnHand[x] = Opening[x] /\ Opening[x] \in Nat
      BY FulfilmentAssumption DEF Init, OnHand
  <2>2. InRows(OnHand, p) = InRows(Opening, p)
      BY <2>1, InRowsSame DEF RowsOf
  <2>3. ASSUME NEW s \in Shipments
        PROVE  OfProduct(p)[s] = 0
    <3> DEFINE k == InLines(ship[s].qty, p)
    <3>1. k \in Nat
        BY <1>3, IssuedType
    <3>2. OfProduct(p)[s] = 0 * k
        BY <1>2 DEF OfProduct, IssuedBy
    <3> HIDE DEF k
    <3> QED
        BY <3>1, <3>2, Times
  <2>4. Sum(OfProduct(p)) = 0
      BY <2>3, SumNothing DEF OfProduct
  <2>5. InRows(Opening, p) \in Nat
      BY <2>1, InRowsType
  <2> QED
      BY <2>2, <2>4, <2>5
<1>5. ASSUME NEW l \in Lines
      PROVE  shipped[l] = Sum(ForLine(l))
  <2>1. \A s \in Shipments : ForLine(l)[s] = 0
      BY <1>2, <1>3, IssuedType, Times DEF ForLine
  <2>2. Sum(ForLine(l)) = 0
      BY <2>1, SumNothing DEF ForLine
  <2> QED
      BY <2>2 DEF Init, NoQty
<1> QED
    BY <1>1, <1>4, <1>5 DEF Ledgered

BooksInv == IInv /\ Purpose /\ Ledgered

\* The books hold in every state.
THEOREM BooksAreKept == Spec => []BooksInv
<1>1. Init => BooksInv
    BY InitInv, InitBooks DEF BooksInv
<1>2. IInv /\ IInv' /\ BooksInv /\ [Next]_vars => BooksInv'
  <2> SUFFICES ASSUME IInv, IInv', Purpose, Ledgered, [Next]_vars
               PROVE  Purpose' /\ Ledgered'
      BY DEF BooksInv
  <2>1. Purpose'
      BY PurposeNext
  <2>2. CASE \E r \in Reqs : Books(r)
      BY <2>1, <2>2, LedgeredPromises, LedgeredDispatch DEF Books
  <2>3. CASE ShipmentsKept /\ stock' = stock /\ shipped' = shipped
      BY <2>1, <2>3, LedgeredKept DEF IInv
  <2> QED
      BY <2>1, <2>2, <2>3, PurposeNext
<1> QED
    BY <1>1, <1>2, InductiveInvariant, PTL DEF Spec

\* Nothing leaves the stock rows without an ISSUE movement, nothing is issued
\* that is not taken off them, and the shipped quantity of a line is what the
\* movements took for it, whichever dispatches overlap or are repeated.
THEOREM NothingLeavesUndocumented == Spec => []ShipmentsLedgered
<1>1. BooksInv => ShipmentsLedgered
    BY DEF BooksInv, Ledgered, ShipmentsLedgered, OfProduct, ForLine
<1> QED
    BY <1>1, BooksAreKept, PTL

-----------------------------------------------------------------------------
(* What is reserved is what the lines hold, if no order has two lines of a *)
(* product (the last of several lines undoes what the others reserved).    *)

OneLineEach == \A k, l \in Lines :
    OrderOf[k] = OrderOf[l] /\ ProductOf[k] = ProductOf[l] => k = l

Untouched == \A s \in Shipments : ship[s].issues = 0
Match(p) == /\ InRows(Reserved, p) <= InLines(allocated, p)
            /\ Untouched => InRows(Reserved, p) = InLines(allocated, p)
Matched == \A p \in Products : Match(p)

\* What is reserved and what lines hold are natural numbers.
LEMMA MatchType ==
    ASSUME TypeOK
    PROVE  /\ \A x \in Rows : Reserved[x] \in Nat
           /\ \A l \in Lines : allocated[l] \in Nat
           /\ \A p : InRows(Reserved, p) \in Nat /\ InLines(allocated, p) \in Nat
<1>1. \A x \in Rows : Reserved[x] \in Nat
    BY DEF TypeOK, StockRow, Reserved
<1>2. \A l \in Lines : allocated[l] \in Nat
    BY FulfilmentAssumption DEF TypeOK, Quantity
<1> QED
    BY <1>1, <1>2, InRowsType, InLinesType

\* An allocation or a cancellation moves the goods of one line of a product,
\* or of none.
LEMMA OnePart ==
    ASSUME OneLineEach, IInv, NEW r \in Reqs, Allocate(r) \/ Cancel(r), NEW p
    PROVE  /\ Parts(r, p) = {} \/ \E l \in LinesFor(p) : Parts(r, p) = {l}
           /\ \A l \in Lines : req[r].qty[l] > 0 => OrderOf[l] = req[r].order
<1>1. ASSUME NEW l \in Lines, req[r].qty[l] > 0
      PROVE  OrderOf[l] = req[r].order
  <2>1. CASE Allocate(r)
    <3>1. req[r].qty = Need(req[r].order)
        BY <2>1 DEF IInv, OrderInv, NeedIsCurrent, Allocate, Ready, Decided
    <3> QED
        BY <1>1, <3>1 DEF Need
  <2>2. CASE Cancel(r)
      BY <1>1, <2>2 DEF IInv, OrderInv, CancelsOwnLines, Cancel, Ready, Decided
  <2> QED
      BY <2>1, <2>2
<1>2. ASSUME Parts(r, p) # {}
      PROVE  \E l \in LinesFor(p) : Parts(r, p) = {l}
  <2>1. PICK l : l \in Parts(r, p)
      BY <1>2
  <2>2. \A k \in Parts(r, p) : k = l
      BY <1>1, <2>1 DEF Parts, OneLineEach
  <2> QED
      BY <2>1, <2>2 DEF Parts, LinesFor
<1> QED
    BY <1>1, <1>2

\* A step that moves no goods.
LEMMA MatchedKept ==
    ASSUME Matched, ShipmentsKept, stock' = stock, allocated' = allocated
    PROVE  Matched'
<1>1. Reserved' = Reserved
    BY DEF Reserved
<1>2. Untouched' => Untouched
    BY DEF Untouched, ShipmentsKept
<1> QED
    BY <1>1, <1>2 DEF Matched, Match, InRows, InLines

\* An allocation reserves for each line what it adds to it.
LEMMA MatchedAllocate ==
    ASSUME OneLineEach, IInv, IInv', Matched, NEW r \in Reqs, Allocate(r)
    PROVE  Matched'
<1> DEFINE o == req[r].order
<1>1. TypeOK /\ TypeOK'
    BY DEF IInv
<1>2. PICK t :
        /\ \A x \in Rows :
             /\ t[x] \in Nat /\ t[x] <= stock[x].onHand - stock[x].reserved
             /\ stock'[x].onHand = stock[x].onHand
             /\ stock'[x].reserved = stock[x].reserved + t[x]
        /\ \A p \in Products :
             /\ Parts(r, p) = {} => InRows(t, p) = 0
             /\ \A l \in Lines : Parts(r, p) = {l} => InRows(t, p) = req[r].qty[l]
    BY AllocateEffect
<1>3. \A x \in Rows : Reserved[x] \in Nat /\ t[x] \in Nat /\ Reserved'[x] = Reserved[x] + t[x]
    BY <1>1, <1>2, MatchType DEF Reserved
<1>4. /\ \A l \in Lines : allocated[l] \in Nat /\ allocated'[l] \in Nat
      /\ \A p : InRows(Reserved, p) \in Nat /\ InLines(allocated, p) \in Nat
  <2>1. \A l \in Lines : allocated'[l] \in Nat
      BY <1>1, FulfilmentAssumption DEF TypeOK, Quantity
  <2> QED
      BY <1>1, <2>1, MatchType
<1>5. /\ req[r].qty = Need(o) /\ ship' = ship
      /\ \A l \in Lines : allocated'[l] = IF l \in LinesOf(o) /\ req[r].qty[l] > 0
                                          THEN Ordered[l] ELSE allocated[l]
    BY DEF IInv, OrderInv, NeedIsCurrent, Allocate, Ready, Decided
<1>6. ASSUME NEW p \in Products
      PROVE  Match(p)'
  <2> DEFINE A == InLines(allocated, p)
             B == InLines(allocated', p)
             R == InRows(Reserved, p)
             T == InRows(t, p)
             S == InRows(Reserved', p)
  <2>1. S = R + T /\ R \in Nat /\ A \in Nat
      BY <1>3, <1>4, InRowsAdd
  <2>2. B = A + T /\ T \in Nat
    <3>1. CASE Parts(r, p) = {}
      <4>1. \A l \in LinesFor(p) : allocated'[l] = allocated[l]
          BY <1>5, <3>1 DEF Parts, LinesFor
      <4> QED
          BY <1>2, <1>4, <3>1, <4>1, InLinesSame
    <3>2. ASSUME NEW l \in LinesFor(p), Parts(r, p) = {l}
          PROVE  B = A + T /\ T \in Nat
      <4>1. l \in Lines /\ req[r].qty[l] > 0 /\ OrderOf[l] = o
          BY <3>2, OnePart DEF Parts, LinesFor
      <4>2. T = req[r].qty[l]
          BY <1>2, <3>2, <4>1
      <4>3. \A k \in LinesFor(p) : k # l => allocated'[k] = allocated[k]
          BY <1>5, <3>2 DEF Parts, LinesFor
      <4>4. B = A - allocated[l] + allocated'[l]
          BY <1>4, <4>3, InLinesPoint
      <4>5. allocated'[l] = Ordered[l] /\ req[r].qty[l] = Ordered[l] - allocated[l]
          BY <1>5, <4>1 DEF Need, LinesOf
      <4>6. allocated[l] \in Nat /\ Ordered[l] \in Nat /\ req[r].qty[l] \in Nat
          BY <1>4, <4>1, <4>5, FulfilmentAssumption
      <4> HIDE DEF A, B, T
      <4> QED
          BY <2>1, <4>2, <4>4, <4>5, <4>6
    <3> QED
        BY <3>1, <3>2, OnePart
  <2>3. R <= A /\ (Untouched => R = A)
      BY DEF Matched, Match
  <2>4. InLines(allocated, p)' = B /\ InRows(Reserved, p)' = S
      BY DEF InLines, InRows
  <2>5. Untouched' <=> Untouched
      BY <1>5 DEF Untouched
  <2> HIDE DEF A, B, R, S, T
  <2>6. S <= B /\ (Untouched => S = B)
      BY <2>1, <2>2, <2>3
  <2> QED
      BY <2>4, <2>5, <2>6 DEF Match
<1> QED
    BY <1>6 DEF Matched

\* A cancellation gives back what the lines held, as far as it is there.
LEMMA MatchedCancel ==
    ASSUME OneLineEach, IInv, IInv', Purpose, Matched, NEW r \in Reqs, Cancel(r)
    PROVE  Matched'
<1>1. TypeOK /\ TypeOK'
    BY DEF IInv
<1>2. PICK t :
        /\ \A x \in Rows :
             /\ t[x] \in Nat /\ t[x] <= stock[x].reserved
             /\ stock'[x].onHand = stock[x].onHand
             /\ stock[x].reserved = stock'[x].reserved + t[x]
             /\ stock'[x].reserved \in Nat
        /\ \A p \in Products :
             /\ Parts(r, p) = {} => InRows(t, p) = 0
             /\ \A l \in Lines : Parts(r, p) = {l} =>
                    InRows(t, p) = Lower(req[r].qty[l], InRows(Reserved, p))
    BY CancelEffect
<1>3. \A x \in Rows : Reserved'[x] \in Nat /\ t[x] \in Nat /\ Reserved[x] = Reserved'[x] + t[x]
    BY <1>1, <1>2, MatchType DEF Reserved
<1>4. /\ \A l \in Lines : allocated[l] \in Nat /\ allocated'[l] \in Nat
      /\ \A p : InRows(Reserved, p) \in Nat /\ InLines(allocated, p) \in Nat
  <2>1. \A l \in Lines : allocated'[l] \in Nat
      BY <1>1, FulfilmentAssumption DEF TypeOK, Quantity
  <2> QED
      BY <1>1, <2>1, MatchType
<1>5. /\ ship' = ship
      /\ \A l \in Lines : allocated'[l] = IF req[r].qty[l] > 0 THEN 0 ELSE allocated[l]
      /\ \A l \in Lines : req[r].qty[l] > 0 => req[r].qty[l] = allocated[l]
    BY DEF Purpose, GivesBackAll, Cancel, Ready, Decided
<1>6. ASSUME NEW p \in Products
      PROVE  Match(p)'
  <2> DEFINE A == InLines(allocated, p)
             B == InLines(allocated', p)
             R == InRows(Reserved, p)
             T == InRows(t, p)
             S == InRows(Reserved', p)
  <2>1. R = S + T /\ R \in Nat /\ A \in Nat /\ S \in Nat /\ T \in Nat
    <3>1. R = S + T
        BY <1>3, InRowsAdd
    <3>2. S \in Nat /\ T \in Nat
        BY <1>3, InRowsType
    <3> QED
        BY <1>4, <3>1, <3>2
  <2>2. R <= A /\ (Untouched => R = A)
      BY DEF Matched, Match
  <2>3. S <= B /\ (R = A => S = B)
    <3>1. CASE Parts(r, p) = {}
      <4>1. \A l \in LinesFor(p) : allocated'[l] = allocated[l]
          BY <1>5, <3>1 DEF Parts, LinesFor
      <4>2. B = A /\ T = 0
          BY <1>2, <3>1, <4>1, InLinesSame
      <4> HIDE DEF A, B, R, S, T
      <4> QED
          BY <2>1, <2>2, <4>2
    <3>2. ASSUME NEW l \in LinesFor(p), Parts(r, p) = {l}
          PROVE  S <= B /\ (R = A => S = B)
      <4> DEFINE q == allocated[l]
      <4>1. l \in Lines /\ req[r].qty[l] > 0
          BY <3>2 DEF Parts, LinesFor
      <4>2. T = Lower(q, R) /\ q \in Nat /\ allocated'[l] = 0
          BY <1>2, <1>4, <1>5, <3>2, <4>1
      <4>3. \A k \in LinesFor(p) : k # l => allocated'[k] = allocated[k]
          BY <1>5, <3>2 DEF Parts, LinesFor
      <4>4. B = A - q + allocated'[l] /\ q <= A
          BY <1>4, <4>3, InLinesPoint
      <4> HIDE DEF A, B, R, S, T, q
      <4> QED
          BY <2>1, <2>2, <4>2, <4>4 DEF Lower
    <3> QED
        BY <3>1, <3>2, OnePart
  <2>4. InLines(allocated, p)' = B /\ InRows(Reserved, p)' = S
      BY DEF InLines, InRows
  <2>5. Untouched' <=> Untouched
      BY <1>5 DEF Untouched
  <2> HIDE DEF A, B, R, S, T
  <2> QED
      BY <2>2, <2>3, <2>4, <2>5 DEF Match
<1> QED
    BY <1>6 DEF Matched

\* A dispatch reserves nothing, and from then on a shipment was issued.
LEMMA MatchedDispatch ==
    ASSUME IInv, IInv', Purpose, Matched, NEW r \in Reqs, Dispatch(r)
    PROVE  Matched'
<1> DEFINE s == req[r].ship
<1>1. TypeOK /\ TypeOK' /\ ship \in [Shipments -> ShipmentRow]
    BY DEF IInv, TypeOK
<1>2. s \in Shipments
    BY DEF Purpose, MovesItsShipment, Dispatch, Ready
<1>3. ship'[s].issues = ship[s].issues + 1 /\ ship[s].issues \in Nat
    BY <1>1, <1>2 DEF Dispatch, ShipmentRow
<1>4. ~Untouched'
    BY <1>2, <1>3 DEF Untouched
<1>5. \A x \in Rows : Reserved[x] \in Nat /\ Reserved'[x] \in Nat /\ Reserved'[x] <= Reserved[x]
  <2>1. PICK t : \A x \in Rows :
             /\ t[x] \in Nat /\ stock[x].onHand = stock'[x].onHand + t[x]
             /\ stock'[x].onHand \in Nat
             /\ stock'[x].reserved = IF stock[x].reserved > t[x]
                                     THEN stock[x].reserved - t[x] ELSE 0
      BY DispatchEffect
  <2>2. \A x \in Rows : stock[x].reserved \in Nat
      BY RowAsRead
  <2> QED
      BY <2>1, <2>2 DEF Reserved
<1>6. ASSUME NEW p \in Products
      PROVE  Match(p)'
  <2> DEFINE A == InLines(allocated, p)
             R == InRows(Reserved, p)
             S == InRows(Reserved', p)
  <2>1. S <= R /\ S \in Nat
      BY <1>5, InRowsMonotone, InRowsType
  <2>2. R <= A /\ R \in Nat /\ A \in Nat
      BY <1>1, MatchType DEF Matched, Match
  <2>3. InLines(allocated, p)' = A /\ InRows(Reserved, p)' = S
      BY DEF InLines, InRows, Dispatch
  <2> HIDE DEF A, R, S
  <2>4. S <= A
      BY <2>1, <2>2
  <2> QED
      BY <1>4, <2>3, <2>4 DEF Match
<1> QED
    BY <1>6 DEF Matched

\* At the start nothing is reserved and no line holds anything.
LEMMA InitMatched ==
    ASSUME Init
    PROVE  Matched
<1>1. \A x \in Rows : Reserved[x] = 0
    BY DEF Init, Reserved
<1>2. \A l \in Lines : allocated[l] = 0
    BY DEF Init, NoQty
<1>3. ASSUME NEW p
      PROVE  InRows(Reserved, p) = 0 /\ InLines(allocated, p) = 0
  <2>1. InRows(Reserved, p) = 0
      BY <1>1, SumNothing DEF InRows, RowsOf
  <2>2. InLines(allocated, p) = 0
      BY <1>2, SumNothing DEF InLines, LinesFor
  <2> QED
      BY <2>1, <2>2
<1> QED
    BY <1>3 DEF Matched, Match

\* While no order has two lines of a product: goods are never reserved beyond
\* what order lines hold, and until the first dispatch the two are the same,
\* whichever allocations and cancellations of whichever orders overlap.
THEOREM ReservedIsWhatLinesHold ==
    ASSUME OneLineEach
    PROVE  Spec => []ReservationsMatchAllocations
<1>1. Init => Matched
    BY InitMatched
<1>2. BooksInv /\ BooksInv' /\ Matched /\ [Next]_vars => Matched'
  <2> SUFFICES ASSUME IInv, IInv', Purpose, Matched, [Next]_vars
               PROVE  Matched'
      BY DEF BooksInv
  <2>1. CASE \E r \in Reqs : Books(r)
      BY <2>1, MatchedAllocate, MatchedCancel, MatchedDispatch DEF Books
  <2>2. CASE ShipmentsKept /\ stock' = stock /\ allocated' = allocated
      BY <2>2, MatchedKept
  <2> QED
      BY <2>1, <2>2, PurposeNext
<1>3. Matched => ReservationsMatchAllocations
    BY DEF Matched, Match, Untouched, ReservationsMatchAllocations
<1> QED
    BY <1>1, <1>2, <1>3, BooksAreKept, PTL DEF Spec

-----------------------------------------------------------------------------
(* The account of the warehouse, product by product.                       *)

Goods == [p \in Products |-> InRows(OnHand, p)]
Promised == [p \in Products |-> InRows(Reserved, p)]
ByProduct(t) == [p \in Products |-> InRows(t, p)]

\* What is in the rows, and that sums are natural numbers.
LEMMA GoodsType ==
    ASSUME IInv
    PROVE  /\ \A x \in Rows : /\ OnHand[x] \in Nat /\ Reserved[x] \in Nat
                              /\ OnHand[x] = stock[x].onHand /\ Reserved[x] = stock[x].reserved
                              /\ Reserved[x] <= OnHand[x]
           /\ \A p \in Products : Goods[p] \in Nat /\ Promised[p] \in Nat
<1>1. \A x \in Rows : /\ OnHand[x] \in Nat /\ Reserved[x] \in Nat
                      /\ OnHand[x] = stock[x].onHand /\ Reserved[x] = stock[x].reserved
                      /\ Reserved[x] <= OnHand[x]
  <2>1. stock \in [Rows -> StockRow]
      BY DEF IInv, TypeOK
  <2> QED
      BY <2>1 DEF IInv, RowInv, StockArithmetic, OnHand, Reserved, StockRow
<1> QED
    BY <1>1, InRowsType DEF Goods, Promised

\* What a step takes from what is on hand was there at the start.
LEMMA TakesAreQuantities ==
    ASSUME BooksInv, NEW t, \A x \in Rows : t[x] \in Nat /\ t[x] <= stock[x].onHand
    PROVE  ByProduct(t) \in [Products -> 0 .. Sum(Opening)]
<1> SUFFICES ASSUME NEW p \in Products PROVE InRows(t, p) \in 0 .. Sum(Opening)
    BY DEF ByProduct
<1>1. /\ \A x \in Rows : OnHand[x] \in Nat /\ OnHand[x] = stock[x].onHand
      /\ TypeOK
    BY GoodsType DEF BooksInv, IInv
<1>2. InRows(t, p) <= InRows(OnHand, p) /\ InRows(t, p) \in Nat /\ InRows(OnHand, p) \in Nat
    BY <1>1, InRowsMonotone, InRowsType
<1>3. InRows(OnHand, p) <= InRows(Opening, p)
  <2>1. InRows(OnHand, p) + Sum(OfProduct(p)) = InRows(Opening, p)
      BY DEF BooksInv, Ledgered
  <2>2. Sum(OfProduct(p)) \in Nat
      BY <1>1, IssuedType, SumType
  <2> QED
      BY <1>2, <2>1, <2>2
<1>4. InRows(Opening, p) <= Sum(Opening) /\ InRows(Opening, p) \in Nat /\ Sum(Opening) \in Nat
  <2> DEFINE F == [x \in RowsOf(p) |-> Opening[x]]
  <2>1. \A x \in Rows : Opening[x] \in Nat
      BY FulfilmentAssumption
  <2>2. Summable(F) /\ InRows(Opening, p) \in Nat
      BY <2>1, InRowsType
  <2>3. DOMAIN Opening = Rows /\ Summable(Opening)
      BY <2>1, FulfilmentAssumption DEF Summable
  <2>4. \A x \in DOMAIN F : x \in DOMAIN Opening /\ F[x] <= Opening[x]
      BY <2>1, <2>3 DEF RowsOf
  <2> HIDE DEF F
  <2>5. Sum(F) <= Sum(Opening)
      BY <2>2, <2>3, <2>4, SumMonotone
  <2> QED
      BY <2>2, <2>3, <2>5, SumType DEF InRows, F
<1> QED
    BY <1>2, <1>3, <1>4

\* The account opens with what is in the rows and no promise.
LEMMA AccountInit ==
    ASSUME Init
    PROVE  Account!Init
<1>1. \A p \in Products : InRows(OnHand, p) \in Nat
    BY InitInv, GoodsType DEF Goods
<1>2. \A x \in Rows : Reserved[x] = 0
    BY DEF Init, Reserved
<1>3. \A p \in Products : InRows(Reserved, p) = 0
    BY <1>2, SumNothing DEF InRows, RowsOf
<1> QED
    BY <1>1, <1>3 DEF Account!Init

\* An allocation promises goods that are not promised.
LEMMA AllocatePromises ==
    ASSUME BooksInv, NEW r \in Reqs, Allocate(r)
    PROVE  Account!Next
<1>0. IInv
    BY DEF BooksInv
<1>1. PICK t : \A x \in Rows :
             /\ t[x] \in Nat /\ t[x] <= stock[x].onHand - stock[x].reserved
             /\ stock'[x].onHand = stock[x].onHand
             /\ stock'[x].reserved = stock[x].reserved + t[x]
    BY <1>0, AllocateEffect
<1> DEFINE q == ByProduct(t)
           free == [x \in Rows |-> OnHand[x] - Reserved[x]]
<1>2. \A x \in Rows : /\ OnHand[x] \in Nat /\ Reserved[x] \in Nat /\ t[x] \in Nat
                      /\ free[x] \in Nat /\ t[x] <= free[x] /\ t[x] <= stock[x].onHand
                      /\ OnHand[x] = free[x] + Reserved[x]
                      /\ OnHand'[x] = OnHand[x] /\ Reserved'[x] = Reserved[x] + t[x]
    BY <1>0, <1>1, GoodsType DEF OnHand, Reserved
<1>3. q \in [Products -> 0 .. Sum(Opening)]
    BY <1>2, TakesAreQuantities
<1>4. ASSUME NEW p \in Products
      PROVE  /\ q[p] <= Goods[p] - Promised[p]
             /\ InRows(Reserved', p) = Promised[p] + q[p]
             /\ InRows(OnHand', p) = Goods[p]
  <2> HIDE DEF free
  <2>1. InRows(t, p) <= InRows(free, p) /\ InRows(free, p) \in Nat /\ InRows(t, p) \in Nat
      BY <1>2, InRowsMonotone, InRowsType
  <2>2. InRows(OnHand, p) = InRows(free, p) + InRows(Reserved, p)
      BY <1>2, InRowsAdd
  <2>3. InRows(Reserved, p) \in Nat
      BY <1>2, InRowsType
  <2>4. InRows(Reserved', p) = InRows(Reserved, p) + InRows(t, p)
      BY <1>2, InRowsAdd
  <2>5. InRows(OnHand', p) = InRows(OnHand, p)
      BY <1>2, InRowsSame DEF RowsOf
  <2> QED
      BY <2>1, <2>2, <2>3, <2>4, <2>5 DEF Goods, Promised, ByProduct
<1>5. Goods' = Goods /\ Promised' = [p \in Products |-> Promised[p] + q[p]]
    BY <1>4 DEF Goods, Promised, InRows
<1>6. Account!Reserve(q)
    BY <1>4, <1>5 DEF Account!Reserve, Account!AtMost, Account!Plus, Account!Minus, Goods, Promised
<1> HIDE DEF q
<1> QED
    BY <1>3, <1>6 DEF Account!Next

\* A cancellation takes back promises.
LEMMA CancelReleases ==
    ASSUME BooksInv, NEW r \in Reqs, Cancel(r)
    PROVE  Account!Next
<1>0. IInv
    BY DEF BooksInv
<1>1. PICK t : \A x \in Rows :
             /\ t[x] \in Nat /\ t[x] <= stock[x].reserved
             /\ stock'[x].onHand = stock[x].onHand
             /\ stock[x].reserved = stock'[x].reserved + t[x]
             /\ stock'[x].reserved \in Nat
    BY <1>0, CancelEffect
<1> DEFINE q == ByProduct(t)
<1>2. \A x \in Rows : /\ OnHand[x] \in Nat /\ Reserved[x] \in Nat /\ t[x] \in Nat
                      /\ t[x] <= Reserved[x] /\ t[x] <= stock[x].onHand
                      /\ Reserved'[x] \in Nat
                      /\ OnHand'[x] = OnHand[x] /\ Reserved[x] = Reserved'[x] + t[x]
    BY <1>0, <1>1, GoodsType DEF OnHand, Reserved
<1>3. q \in [Products -> 0 .. Sum(Opening)]
    BY <1>2, TakesAreQuantities
<1>4. ASSUME NEW p \in Products
      PROVE  /\ q[p] <= Promised[p]
             /\ InRows(Reserved', p) = Promised[p] - q[p]
             /\ InRows(OnHand', p) = Goods[p]
  <2>1. InRows(t, p) <= InRows(Reserved, p) /\ InRows(t, p) \in Nat /\ InRows(Reserved', p) \in Nat
      BY <1>2, InRowsMonotone, InRowsType
  <2>2. InRows(Reserved, p) = InRows(Reserved', p) + InRows(t, p)
      BY <1>2, InRowsAdd
  <2>3. InRows(OnHand', p) = InRows(OnHand, p)
      BY <1>2, InRowsSame DEF RowsOf
  <2> QED
      BY <2>1, <2>2, <2>3 DEF Goods, Promised, ByProduct
<1>5. Goods' = Goods /\ Promised' = [p \in Products |-> Promised[p] - q[p]]
    BY <1>4 DEF Goods, Promised, InRows
<1>6. Account!Release(q)
    BY <1>4, <1>5 DEF Account!Release, Account!AtMost, Account!Minus, Goods, Promised
<1> HIDE DEF q
<1> QED
    BY <1>3, <1>6 DEF Account!Next

\* A dispatch issues goods, promised ones first, and what stays covers every
\* promise.
LEMMA DispatchIssues ==
    ASSUME BooksInv, BooksInv', NEW r \in Reqs, Dispatch(r)
    PROVE  Account!Next
<1>0. IInv /\ IInv'
    BY DEF BooksInv
<1>1. PICK t : \A x \in Rows :
             /\ t[x] \in Nat /\ stock[x].onHand = stock'[x].onHand + t[x]
             /\ stock'[x].onHand \in Nat
             /\ stock'[x].reserved = IF stock[x].reserved > t[x]
                                     THEN stock[x].reserved - t[x] ELSE 0
    BY <1>0, DispatchEffect
<1> DEFINE q == ByProduct(t)
           d == [x \in Rows |-> Reserved[x] - Reserved'[x]]
           u == ByProduct(d)
<1>2. \A x \in Rows : /\ OnHand[x] \in Nat /\ Reserved[x] \in Nat /\ t[x] \in Nat
                      /\ t[x] <= OnHand[x] /\ t[x] <= stock[x].onHand
                      /\ OnHand'[x] \in Nat /\ OnHand[x] = OnHand'[x] + t[x]
    BY <1>0, <1>1, GoodsType DEF OnHand, Reserved
<1>3. ASSUME NEW x \in Rows
      PROVE  /\ Reserved'[x] \in Nat /\ d[x] \in Nat /\ d[x] <= t[x] /\ d[x] <= Reserved[x]
             /\ d[x] <= stock[x].onHand /\ Reserved[x] = Reserved'[x] + d[x]
             /\ Reserved'[x] <= OnHand'[x]
  <2>1. Reserved'[x] = IF Reserved[x] > t[x] THEN Reserved[x] - t[x] ELSE 0
      BY <1>1 DEF Reserved
  <2>2. Reserved'[x] <= OnHand'[x]
      BY <1>0 DEF IInv, RowInv, StockArithmetic, OnHand, Reserved
  <2>3. d[x] = Reserved[x] - Reserved'[x]
      OBVIOUS
  <2> HIDE DEF d
  <2>4. Reserved[x] \in Nat /\ t[x] \in Nat /\ OnHand[x] \in Nat /\ t[x] <= stock[x].onHand
      BY <1>2
  <2>5. Reserved'[x] \in Nat /\ d[x] \in Nat /\ d[x] <= t[x] /\ d[x] <= Reserved[x]
        /\ Reserved[x] = Reserved'[x] + d[x]
      BY <2>1, <2>3, <2>4
  <2>6. d[x] <= stock[x].onHand
      BY <1>0, <2>4, <2>5, GoodsType
  <2> QED
      BY <2>2, <2>5, <2>6
<1> HIDE DEF d
<1>4. q \in [Products -> 0 .. Sum(Opening)] /\ u \in [Products -> 0 .. Sum(Opening)]
    BY <1>2, <1>3, TakesAreQuantities
<1>5. ASSUME NEW p \in Products
      PROVE  /\ q[p] <= Goods[p] /\ u[p] <= q[p] /\ u[p] <= Promised[p]
             /\ InRows(Reserved', p) = Promised[p] - u[p]
             /\ InRows(OnHand', p) = Goods[p] - q[p]
             /\ InRows(Reserved', p) <= InRows(OnHand', p)
  <2>1. /\ InRows(t, p) <= InRows(OnHand, p) /\ InRows(d, p) <= InRows(t, p)
        /\ InRows(d, p) <= InRows(Reserved, p) /\ InRows(Reserved', p) <= InRows(OnHand', p)
      BY <1>2, <1>3, InRowsMonotone
  <2>2. /\ InRows(t, p) \in Nat /\ InRows(d, p) \in Nat
        /\ InRows(OnHand', p) \in Nat /\ InRows(Reserved', p) \in Nat
      BY <1>2, <1>3, InRowsType
  <2>3. InRows(Reserved, p) = InRows(Reserved', p) + InRows(d, p)
      BY <1>2, <1>3, InRowsAdd
  <2>4. InRows(OnHand, p) = InRows(OnHand', p) + InRows(t, p)
      BY <1>2, InRowsAdd
  <2> QED
      BY <2>1, <2>2, <2>3, <2>4 DEF Goods, Promised, ByProduct
<1>6. /\ Goods' = [p \in Products |-> Goods[p] - q[p]]
      /\ Promised' = [p \in Products |-> Promised[p] - u[p]]
      /\ \A p \in Products : Promised'[p] <= Goods'[p]
    BY <1>5 DEF Goods, Promised, InRows
<1>7. Account!Issue(q, u)
    BY <1>5, <1>6 DEF Account!Issue, Account!AtMost, Account!Minus, Goods, Promised
<1> HIDE DEF q, u
<1> QED
    BY <1>4, <1>7 DEF Account!Next

\* Sales orders, with all their overlapping calls, keep the account of the
\* warehouse: they promise only what is there, take promises back, and issue
\* goods together with their promise.
THEOREM SalesKeepTheAccount == Spec => ImplementsAccount
<1>1. Init => Account!Init
    BY AccountInit
<1>2. BooksInv /\ BooksInv' /\ [Next]_vars => [Account!Next]_Account!account
  <2> SUFFICES ASSUME BooksInv, BooksInv', [Next]_vars
               PROVE  [Account!Next]_Account!account
      OBVIOUS
  <2>1. CASE \E r \in Reqs : Books(r)
      BY <2>1, AllocatePromises, CancelReleases, DispatchIssues DEF Books
  <2>2. CASE stock' = stock
    <3>1. OnHand' = OnHand /\ Reserved' = Reserved
        BY <2>2 DEF OnHand, Reserved
    <3>2. UNCHANGED Account!account
        BY <3>1 DEF Account!account, InRows
    <3> QED
        BY <3>2
  <2> QED
      BY <2>1, <2>2, PurposeNext DEF BooksInv
<1> QED
    BY <1>1, <1>2, BooksAreKept, PTL DEF Spec, ImplementsAccount, Account!Spec

-----------------------------------------------------------------------------
(* Waiting for locks. *)

InFlight(r) == req[r] # NoReq

\* A call that creates a shipment finds the identifier and the quantities
\* for it; their supply is a bound of the model.
Creates(r) == \E s \in Shipments, q \in [Lines -> 0 .. MaxShip] :
    ship[s] = NoShip /\ q # NoQty
Served(r) == InFlight(r) /\ (req[r].op = "create" => Creates(r))

\* The next step of r finds the locks it needs and, where it takes goods,
\* rows to take them from.
MovesOn(r) ==
    /\ Free(r)
    /\ \/ req[r].pc \in {"insert", "line", "pick", "pack", "ship", "order", "bill"}
       \/ req[r].pc = "write" /\ (req[r].op = "create" => Creates(r))
TakesRow(r) == req[r].pc = "rows" /\ Wanted(r) \ HeldByOthers(r) # {}
MovesGoods(r) ==
    /\ req[r].pc = "rows" /\ Wanted(r) = {} /\ Free(r)
    /\ \/ req[r].op = "allocate" /\ \E m \in LastLineOnly(r) : Takes(r, m, SeenAvailable(r)) # {}
       \/ req[r].op = "cancel" /\ \E m \in LastLineOnly(r) : Takes(r, m, SeenReserved(r)) # {}
       \/ req[r].op = "dispatch" /\ Takes(r, Issued(r), Issuable(r)) # {}
GoesOn(r) == MovesOn(r) \/ TakesRow(r) \/ MovesGoods(r)

\* While a call is in flight, one of them can go on, or some of them wait
\* for each other, of which the database aborts one.
NobodyStuck ==
    (\E r \in Reqs : Served(r)) =>
        \/ \E r \in Reqs : InFlight(r) /\ GoesOn(r)
        \/ \E S \in SUBSET Reqs : Deadlocked(S)

\* y is the state x of a call one step on.
Later == {<<"insert", "write">>, <<"insert", "bill">>, <<"line", "pick">>, <<"line", "pack">>,
          <<"ship", "order">>, <<"order", "rows">>}
Nearer(x, y) ==
    \/ x # NoReq /\ y = NoReq
    \/ <<x.pc, y.pc>> \in Later
    \/ x.pc = "rows" /\ y.pc = "rows" /\ x.held \subseteq y.held /\ x.held # y.held

\* No call ever goes back, whatever the others do.
NobodyGoesBack ==
    [][\A r \in Reqs : InFlight(r) /\ req'[r] # req[r] => Nearer(req[r], req'[r])]_vars

\* Where a call of each kind can be; stock rows are only held at the last step.
Stages ==
    {"confirm", "create", "start", "deliver"} \X {"write"} \cup
    {"deliver", "invoice"} \X {"insert"} \cup
    {"pick"} \X {"line", "pick", "pack"} \cup
    {<<"dispatch", "ship">>, <<"invoice", "bill">>} \cup
    {"allocate", "cancel", "dispatch"} \X {"order", "rows"}
Staged(x) == x = NoReq \/ (<<x.op, x.pc>> \in Stages /\ (x.held # {} => x.pc = "rows"))
StageInv ==
    /\ \A r \in Reqs : Staged(req[r])
    /\ \A x \in Rows : stock[x].onHand <= MaxQty

\* What a step of r does to r and to nobody else.
Steps(r) ==
    /\ \A q \in Reqs \ {r} : req'[q] = req[q]
    /\ Staged(req'[r])
    /\ InFlight(r) => Nearer(req[r], req'[r])

\* A call that starts enters one of its stages and touches no stock row.
LEMMA StartSteps ==
    ASSUME TypeOK, NEW r \in Reqs, Start(r)
    PROVE  Steps(r) /\ stock' = stock
<1>1. req \in [Reqs -> Request] /\ req[r] \in RequestRow
  BY DEF TypeOK, Request
<1>2. NoReq.held = {}
  BY DEF NoReq
<1>3. ASSUME NEW op, NEW pc, NEW o, NEW s, Call(r, op, pc, o, s), <<op, pc>> \in Stages
      PROVE  Steps(r) /\ stock' = stock
  <2>1. req[r] = NoReq /\ stock' = stock
    BY <1>3 DEF Call, Move
  <2>2. req'[r].op = op /\ req'[r].pc = pc /\ req'[r].held = {}
    BY <1>1, <1>2, <1>3 DEF Call, Move, RequestRow
  <2>3. \A q \in Reqs \ {r} : req'[q] = req[q]
    BY <1>1, <1>3 DEF Call, Move
  <2> QED
    BY <1>3, <2>1, <2>2, <2>3 DEF Steps, Staged, InFlight
<1>4. ASSUME NEW s, NEW l, PickStart(r, s, l)
      PROVE  Steps(r) /\ stock' = stock
  <2>1. req[r] = NoReq /\ stock' = stock
    BY <1>4 DEF PickStart, Move
  <2>2. req'[r].op = "pick" /\ req'[r].pc = "line" /\ req'[r].held = {}
    BY <1>1, <1>2, <1>4 DEF PickStart, Move, RequestRow
  <2>3. \A q \in Reqs \ {r} : req'[q] = req[q]
    BY <1>1, <1>4 DEF PickStart, Move
  <2> QED
    BY <2>1, <2>2, <2>3 DEF Steps, Staged, InFlight, Stages
<1>5. ASSUME NEW s, InvoiceStart(r, s)
      PROVE  Steps(r) /\ stock' = stock
  <2>1. req[r] = NoReq /\ stock' = stock
    BY <1>5 DEF InvoiceStart, Move
  <2>2. req'[r].op = "invoice" /\ req'[r].pc = "insert" /\ req'[r].held = {}
    BY <1>1, <1>2, <1>5 DEF InvoiceStart, Move, RequestRow
  <2>3. \A q \in Reqs \ {r} : req'[q] = req[q]
    BY <1>1, <1>5 DEF InvoiceStart, Move
  <2> QED
    BY <2>1, <2>2, <2>3 DEF Steps, Staged, InFlight, Stages
<1> QED
  BY <1>3, <1>4, <1>5 DEF Start, ConfirmStart, CreateStart, AllocateStart, CancelStart,
     StartPickingStart, DeliverStart, DispatchStart, Stages

\* A call that ends.
LEMMA EndSteps ==
    ASSUME TypeOK, NEW r \in Reqs, Finish(r)
    PROVE  Steps(r)
<1>1. req'[r] = NoReq /\ \A q \in Reqs \ {r} : req'[q] = req[q]
  BY DEF TypeOK, Finish
<1> QED
  BY <1>1 DEF Steps, Staged, InFlight, Nearer

\* A call that goes on is nearer to its end, in one of its stages or over.
LEMMA ProceedSteps ==
    ASSUME TypeOK, StageInv, NEW r \in Reqs, Proceed(r) \/ Abort(r)
    PROVE  Steps(r)
<1>1. req \in [Reqs -> Request] /\ req[r] \in RequestRow /\ Staged(req[r])
  BY DEF TypeOK, Request, StageInv
<1>2. Reject(r) => Finish(r)
  BY DEF Reject, Move, Finish
<1>3. CASE Finish(r) \/ Reject(r)
  BY <1>2, <1>3, EndSteps
<1>4. \/ Finish(r) \/ Reject(r)
      \/ DeliverInsert(r) \/ PickFlush(r) \/ LockShipment(r) \/ LockOrder(r)
      \/ (\E x \in Rows : LockRow(r, x)) \/ InvoiceInsert(r)
  BY DEF Proceed, Abort, ConfirmWrite, CreateShipment, StartPicking, Deliver, PickCommit,
     Allocate, Cancel, Dispatch, Insufficient, Invoice
<1>5. ASSUME NEW y, Move(r, y), Staged(y), Nearer(req[r], y)
      PROVE  Steps(r)
  <2>1. req'[r] = y /\ \A q \in Reqs \ {r} : req'[q] = req[q]
    BY <1>1, <1>5 DEF Move
  <2> QED
    BY <1>5, <2>1 DEF Steps
<1>6. ASSUME NEW pc, Move(r, [req[r] EXCEPT !.pc = pc]), req[r] # NoReq,
             <<req[r].op, pc>> \in Stages, <<req[r].pc, pc>> \in Later
      PROVE  Steps(r)
  <2> DEFINE y == [req[r] EXCEPT !.pc = pc]
  <2>1. y.op = req[r].op /\ y.pc = pc /\ y.held = req[r].held
    BY <1>1 DEF RequestRow
  <2>2. req[r].held = {}
    BY <1>1, <1>6 DEF Staged, Later
  <2> HIDE DEF y
  <2> QED
    BY <1>5, <1>6, <2>1, <2>2 DEF Staged, Nearer, y
<1>7. NoReq.pc = "idle"
  BY DEF NoReq
<1>8. CASE DeliverInsert(r)
  BY <1>1, <1>3, <1>6, <1>7, <1>8 DEF DeliverInsert, Stages, Later
<1>9. CASE PickFlush(r)
  <2>1. req[r].op = "pick" /\ req[r].pc = "line"
    BY <1>1, <1>7, <1>9 DEF PickFlush, Staged, Stages
  <2> QED
    BY <1>6, <1>7, <1>9, <2>1 DEF PickFlush, Stages, Later
<1>10. CASE InvoiceInsert(r)
  BY <1>6, <1>7, <1>10 DEF InvoiceInsert, Stages, Later
<1>11. CASE LockShipment(r)
  <2> DEFINE y == [req[r] EXCEPT !.qty = ship[req[r].ship].qty, !.pc = "order"]
  <2>1. y.op = req[r].op /\ y.pc = "order" /\ y.held = req[r].held
    BY <1>1 DEF RequestRow
  <2>2. req[r].op = "dispatch" /\ req[r].held = {} /\ req[r].pc = "ship"
    BY <1>1, <1>7, <1>11 DEF LockShipment, Staged, Stages
  <2>3. Staged(y) /\ Nearer(req[r], y)
    BY <2>1, <2>2 DEF Staged, Stages, Nearer, Later
  <2> QED
    BY <1>3, <1>5, <1>11, <2>3 DEF LockShipment
<1>12. CASE LockOrder(r)
  <2>1. req[r].op \in {"allocate", "cancel", "dispatch"} /\ req[r].held = {} /\ req[r].pc = "order"
    BY <1>1, <1>7, <1>12 DEF LockOrder, Staged, Stages
  <2>2. ASSUME NEW q, Move(r, [req[r] EXCEPT !.qty = q, !.pc = "rows"])
        PROVE  Steps(r)
    <3> DEFINE y == [req[r] EXCEPT !.qty = q, !.pc = "rows"]
    <3>1. y.op = req[r].op /\ y.pc = "rows" /\ y.held = req[r].held
      BY <1>1 DEF RequestRow
    <3>2. Staged(y) /\ Nearer(req[r], y)
      BY <2>1, <3>1 DEF Staged, Stages, Nearer, Later
    <3> QED
      BY <1>5, <2>2, <3>2
  <2> QED
    BY <1>3, <1>12, <2>2 DEF LockOrder, Enter
<1>13. ASSUME NEW x \in Rows, LockRow(r, x)
       PROVE  Steps(r)
  <2> DEFINE y == [req[r] EXCEPT !.held = @ \cup {x}, !.seen[x] = stock[x]]
  <2>1. y.op = req[r].op /\ y.pc = req[r].pc /\ y.held = req[r].held \cup {x}
    BY <1>1 DEF RequestRow
  <2>2. x \notin req[r].held /\ req[r].pc = "rows"
    BY <1>13 DEF LockRow, Wanted, Held
  <2>3. Staged(y) /\ Nearer(req[r], y)
    BY <1>1, <1>7, <2>1, <2>2 DEF Staged, Nearer
  <2> QED
    BY <1>5, <1>13, <2>3 DEF LockRow
<1> QED
  BY <1>3, <1>4, <1>8, <1>9, <1>10, <1>11, <1>12, <1>13

\* No row ever holds more than at the start.
LEMMA RowsStayBounded ==
    ASSUME IInv, StageInv, NEW r \in Reqs, Start(r) \/ Proceed(r) \/ Abort(r)
    PROVE  \A x \in Rows : stock'[x].onHand <= MaxQty
<1>0. TypeOK /\ RowInv /\ stock \in [Rows -> StockRow]
  BY DEF IInv, TypeOK
<1>1. \A x \in Rows : stock[x].onHand <= MaxQty /\ stock[x].onHand \in Nat
  BY <1>0 DEF StageInv, StockRow
<1>2. CASE stock' = stock
  BY <1>1, <1>2
<1>3. ASSUME NEW move, NEW cap, NEW t \in Takes(r, move, cap),
             Store(r, t, ReserveIn) \/ Store(r, t, ReleaseIn) \/ Store(r, t, IssueFrom),
             NEW x \in Rows
      PROVE  stock'[x].onHand <= MaxQty
  <2>1. t[x] \in Nat /\ MaxQty \in Nat
    BY FulfilmentAssumption DEF Takes, Quantity
  <2>2. CASE stock'[x] = stock[x]
    BY <1>1, <2>2
  <2>3. CASE stock'[x] # stock[x]
    <3>1. x \in Held(r)
      BY <1>3, <2>3 DEF Store
    <3>2. req[r].seen[x] = stock[x] /\ stock[x] \in StockRow
      BY <1>0, <3>1 DEF RowInv, SeenIsCurrent
    <3>3. \/ stock'[x] = ReserveIn(stock[x], stock[x], t[x])
          \/ stock'[x] = ReleaseIn(stock[x], stock[x], t[x])
          \/ stock'[x] = IssueFrom(stock[x], stock[x], t[x])
      BY <1>3, <2>3, <3>2 DEF Store
    <3>4. /\ ReserveIn(stock[x], stock[x], t[x]).onHand = stock[x].onHand
          /\ ReleaseIn(stock[x], stock[x], t[x]).onHand = stock[x].onHand
          /\ IssueFrom(stock[x], stock[x], t[x]).onHand = stock[x].onHand - t[x]
      <4> DEFINE w == stock[x]
                 n == t[x]
      <4>1. w \in StockRow
        BY <3>2
      <4> HIDE DEF w, n
      <4>2. /\ ReserveIn(w, w, n).onHand = w.onHand
            /\ ReleaseIn(w, w, n).onHand = w.onHand
            /\ IssueFrom(w, w, n).onHand = w.onHand - n
        BY <4>1 DEF ReserveIn, ReleaseIn, IssueFrom, StockRow
      <4> QED
        BY <4>2 DEF w, n
    <3>5. stock'[x].onHand = stock[x].onHand \/ stock'[x].onHand = stock[x].onHand - t[x]
      BY <3>3, <3>4
    <3> QED
      BY <1>1, <2>1, <3>5
  <2> QED
    BY <2>2, <2>3
<1>4. CASE Allocate(r)
  BY <1>3, <1>4 DEF Allocate
<1>5. CASE Cancel(r)
  BY <1>3, <1>5 DEF Cancel
<1>6. CASE Dispatch(r)
  BY <1>3, <1>6 DEF Dispatch
<1>7. CASE Start(r)
  BY <1>0, <1>2, <1>7, StartSteps
<1>8. stock' = stock \/ Allocate(r) \/ Cancel(r) \/ Dispatch(r) \/ Start(r)
  BY DEF Proceed, Abort, ConfirmWrite, CreateShipment, StartPicking, Deliver, DeliverInsert,
     PickFlush, PickCommit, LockShipment, LockOrder, LockRow, Insufficient, Invoice, InvoiceInsert,
     Reject, Move, SetShip, Enter
<1> QED
  BY <1>2, <1>4, <1>5, <1>6, <1>7, <1>8

\* Every step keeps the calls in their stages and the rows within bounds.
LEMMA StagesKept == ASSUME IInv, StageInv, [Next]_vars PROVE StageInv'
<1>1. CASE UNCHANGED vars
  BY <1>1 DEF StageInv, vars
<1>2. ASSUME NEW r \in Reqs, Start(r) \/ Proceed(r) \/ Abort(r)
      PROVE  StageInv'
  <2>1. Steps(r)
    BY <1>2, StartSteps, ProceedSteps DEF IInv
  <2>2. \A x \in Rows : stock'[x].onHand <= MaxQty
    BY <1>2, RowsStayBounded
  <2> QED
    BY <2>1, <2>2 DEF StageInv, Steps
<1> QED
  BY <1>1, <1>2 DEF Next

\* Goods can always be taken as the calls take them, as far as there are any.
LEMMA TakesExist ==
    ASSUME NEW r, NEW move \in [Products -> Nat], NEW cap \in [Rows -> Quantity],
           \A p \in Products : Parts(r, p) = {} => move[p] = 0
    PROVE  Takes(r, move, cap) # {}
<1> DEFINE C(p) == [x \in RowsOf(p) |-> cap[x]]
           Part(p, u) ==
              /\ u \in [RowsOf(p) -> Nat]
              /\ \A x \in RowsOf(p) : u[x] <= cap[x]
              /\ Sum(u) = Lower(move[p], InRows(cap, p))
              /\ \A x, y \in RowsOf(p) : 0 < u[x] /\ u[x] < cap[x] /\ 0 < u[y] /\ u[y] < cap[y] => x = y
<1>0. MaxQty \in Nat /\ (\A x \in Rows : cap[x] \in 0 .. MaxQty /\ RowProduct[x] \in Products)
  BY FulfilmentAssumption DEF Quantity
<1>1. ASSUME NEW p \in Products
      PROVE  \E u : Part(p, u)
  <2>1. InRows(cap, p) \in Nat /\ Summable(C(p)) /\ InRows(cap, p) = Sum(C(p))
    BY <1>0, InRowsType DEF InRows
  <2>2. Lower(move[p], InRows(cap, p)) \in 0 .. Sum(C(p))
    BY <2>1 DEF Lower
  <2>3. DOMAIN C(p) = RowsOf(p) /\ \A x \in RowsOf(p) : C(p)[x] = cap[x]
    OBVIOUS
  <2> HIDE DEF C
  <2>4. PICK u \in [RowsOf(p) -> Nat] :
           /\ \A x \in RowsOf(p) : u[x] <= C(p)[x]
           /\ Sum(u) = Lower(move[p], InRows(cap, p))
           /\ \A x, y \in RowsOf(p) : 0 < u[x] /\ u[x] < C(p)[x] /\ 0 < u[y] /\ u[y] < C(p)[y] => x = y
    BY <2>1, <2>2, <2>3, SumPart
  <2> QED
    BY <2>3, <2>4
<1> DEFINE U(p) == CHOOSE u : Part(p, u)
           t == [x \in Rows |-> U(RowProduct[x])[x]]
<1>2. \A p \in Products : Part(p, U(p))
  BY <1>1
<1>3. ASSUME NEW x \in Rows
      PROVE  t[x] \in Quantity /\ t[x] <= cap[x]
  <2>1. Part(RowProduct[x], U(RowProduct[x])) /\ x \in RowsOf(RowProduct[x])
    BY <1>0, <1>2 DEF RowsOf
  <2>2. t[x] = U(RowProduct[x])[x]
    OBVIOUS
  <2> HIDE DEF U, t
  <2> QED
    BY <1>0, <2>1, <2>2 DEF Quantity
<1>4. ASSUME NEW p \in Products
      PROVE  /\ InRows(t, p) = Lower(move[p], InRows(cap, p))
             /\ Cardinality({x \in RowsOf(p) : 0 < t[x] /\ t[x] < cap[x]}) <= Cardinality(Parts(r, p))
  <2> DEFINE B == {x \in RowsOf(p) : 0 < t[x] /\ t[x] < cap[x]}
  <2>1. Part(p, U(p))
    BY <1>2
  <2>2. \A x \in RowsOf(p) : t[x] = U(p)[x]
    <3>1. \A x \in RowsOf(p) : x \in Rows /\ RowProduct[x] = p
      BY DEF RowsOf
    <3> HIDE DEF U
    <3> QED
      BY <3>1
  <2>3. [x \in RowsOf(p) |-> t[x]] = U(p)
    <3> HIDE DEF U, t
    <3> QED
      BY <2>1, <2>2
  <2>4. InRows(t, p) = Lower(move[p], InRows(cap, p))
    BY <2>1, <2>3 DEF InRows
  <2>5. IsFiniteSet(Parts(r, p)) /\ Cardinality(Parts(r, p)) \in Nat
    BY FulfilmentAssumption, FS_Subset, FS_CardinalityType DEF Parts
  <2>6. \A x, y \in B : x = y
    <3> HIDE DEF U, t
    <3> QED
      BY <2>1, <2>2
  <2> SUFFICES Cardinality(B) <= Cardinality(Parts(r, p))
    <3> HIDE DEF t
    <3> QED
      BY <2>4
  <2>7. CASE B = {}
    <3>1. Cardinality(B) = 0
      BY <2>7, FS_EmptySet
    <3> HIDE DEF B
    <3> QED
      BY <2>5, <3>1
  <2>8. CASE B # {}
    <3>1. PICK x \in B : B = {x}
      <4> HIDE DEF B
      <4> QED
        BY <2>6, <2>8
    <3>2. Cardinality(B) = 1
      BY <3>1, FS_Singleton
    <3>3. Parts(r, p) # {}
      <4> SUFFICES ASSUME Parts(r, p) = {}
                   PROVE  FALSE
        OBVIOUS
      <4>0. InRows(cap, p) \in Nat
        <5>1. \A y \in Rows : cap[y] \in Nat
          BY <1>0
        <5> HIDE DEF B, t, U
        <5> QED
          BY <5>1, InRowsType
      <4>1. Lower(move[p], InRows(cap, p)) = 0
        <5>1. Parts(r, p) = {} => move[p] = 0
          BY <1>4
        <5>2. move[p] = 0
          BY <5>1
        <5> QED
          BY <4>0, <5>2 DEF Lower
      <4>2. \A y \in Rows : t[y] \in Nat
        BY <1>3, FulfilmentAssumption DEF Quantity
      <4>3. x \in RowsOf(p) /\ t[x] > 0
        BY <3>1
      <4> DEFINE F == [y \in RowsOf(p) |-> t[y]]
      <4>4. Summable(F) /\ DOMAIN F = RowsOf(p) /\ F[x] = t[x]
        BY <4>2, <4>3, InRowsType
      <4>5. Sum(F) = F[x] + Sum(Without(F, x)) /\ Summable(Without(F, x))
        <5> HIDE DEF F
        <5> QED
          BY <4>3, <4>4, SumPoint
      <4>6. Sum(Without(F, x)) \in Nat
        BY <4>5, SumType
      <4>7. Sum(F) = 0
        BY <2>4, <4>1 DEF InRows
      <4>8. F[x] \in Nat
        BY <4>2, <4>4, <4>3 DEF RowsOf
      <4> HIDE DEF F, t
      <4> QED
        BY <4>3, <4>4, <4>5, <4>6, <4>7, <4>8
    <3>4. Cardinality(Parts(r, p)) # 0
      BY <2>5, <3>3, FS_EmptySet
    <3> HIDE DEF B
    <3> QED
      BY <2>5, <3>2, <3>4
  <2> QED
    BY <2>7, <2>8
<1>5. t \in [Rows -> Quantity]
  BY <1>3
<1>6. t \in Takes(r, move, cap)
  <2> HIDE DEF t
  <2> QED
    BY <1>3, <1>4, <1>5 DEF Takes
<1> QED
  BY <1>6

\* What a call has seen of the rows is a quantity.
LEMMA SeenAreQuantities ==
    ASSUME IInv, StageInv, NEW r \in Reqs
    PROVE  /\ SeenAvailable(r) \in [Rows -> Quantity] /\ SeenReserved(r) \in [Rows -> Quantity]
           /\ SeenOnHand(r) \in [Rows -> Quantity]
<1>1. ASSUME NEW x \in Rows
      PROVE  /\ req[r].seen[x].available \in Quantity /\ req[r].seen[x].reserved \in Quantity
             /\ req[r].seen[x].onHand \in Quantity
  <2>1. stock[x].onHand \in 0 .. MaxQty /\ stock[x].reserved \in 0 .. MaxQty
        /\ stock[x].available \in 0 .. MaxQty
    BY RowAsRead, FulfilmentAssumption DEF StageInv
  <2>2. req[r].seen[x] = stock[x] \/ req[r].seen[x] = NoRow
    BY RowAsRead
  <2> QED
    BY <2>1, <2>2, FulfilmentAssumption DEF Quantity, NoRow
<1> QED
  BY <1>1 DEF SeenAvailable, SeenReserved, SeenOnHand

\* A call that has all its rows finds goods in them, as far as there are any.
LEMMA FindsGoods ==
    ASSUME IInv, StageInv, NEW r \in Reqs
    PROVE  /\ \E m \in LastLineOnly(r) : Takes(r, m, SeenAvailable(r)) # {}
           /\ \E m \in LastLineOnly(r) : Takes(r, m, SeenReserved(r)) # {}
           /\ Takes(r, Issued(r), Issuable(r)) # {}
<1>0. req[r].qty \in [Lines -> Quantity] /\ MaxQty \in Nat
  BY FulfilmentAssumption DEF IInv, TypeOK, Request, RequestRow
<1>1. PICK m \in LastLineOnly(r) : TRUE
  <2> DEFINE m == [p \in Products |-> IF Parts(r, p) = {} THEN 0
                                      ELSE req[r].qty[CHOOSE l \in Parts(r, p) : TRUE]]
  <2>1. ASSUME NEW p \in Products
        PROVE  /\ m[p] \in Quantity
               /\ IF Parts(r, p) = {} THEN m[p] = 0 ELSE \E l \in Parts(r, p) : m[p] = req[r].qty[l]
    <3>1. CASE Parts(r, p) = {}
      BY <1>0, <3>1 DEF Quantity
    <3>2. CASE Parts(r, p) # {}
      <4>1. (CHOOSE l \in Parts(r, p) : TRUE) \in Parts(r, p)
        BY <3>2
      <4> QED
        BY <1>0, <3>2, <4>1 DEF Parts
    <3> QED
      BY <3>1, <3>2
  <2> HIDE DEF m
  <2>2. m \in [Products -> Quantity]
    BY <2>1 DEF m
  <2> QED
    BY <2>1, <2>2 DEF LastLineOnly
<1>2. m \in [Products -> Nat] /\ \A p \in Products : Parts(r, p) = {} => m[p] = 0
  BY <1>0 DEF LastLineOnly, Quantity
<1>3. Issued(r) \in [Products -> Nat] /\ \A p \in Products : Parts(r, p) = {} => Issued(r)[p] = 0
  <2>1. ASSUME NEW p \in Products
        PROVE  /\ InLines(req[r].qty, p) \in Nat
               /\ Parts(r, p) = {} => InLines(req[r].qty, p) = 0
    <3>1. \A l \in Lines : req[r].qty[l] \in Nat
      BY <1>0 DEF Quantity
    <3>2. Parts(r, p) = {} => \A l \in LinesFor(p) : req[r].qty[l] = 0
      BY <3>1 DEF Parts, LinesFor
    <3> DEFINE F == [l \in LinesFor(p) |-> req[r].qty[l]]
    <3>3. Parts(r, p) = {} => \A l \in DOMAIN F : F[l] = 0
      BY <3>2
    <3>4. Parts(r, p) = {} => Sum(F) = 0
      BY <3>3, SumNothing
    <3> QED
      BY <3>1, <3>4, InLinesType DEF InLines
  <2> QED
    BY <2>1 DEF Issued
<1> QED
  BY <1>2, <1>3, SeenAreQuantities, TakesExist DEF Issuable

\* Who blocks another call is in flight, and does not wait for an identifier.
LEMMA BlockersAreServed ==
    ASSUME StageInv, NEW q \in Reqs, NEW r \in Reqs, Blocks(q, r)
    PROVE  Served(q) /\ q # r
<1>1. Staged(req[q])
  BY DEF StageInv
<1>2. NoReq.pc = "idle" /\ NoReq.op = "none" /\ NoReq.held = {}
  BY DEF NoReq
<1>3. \/ req[q].pc \in {"rows", "bill", "order", "pick", "pack"}
      \/ req[q].op = "deliver"
      \/ req[q].held # {}
  BY DEF Blocks, OrderLock, ShipLock, Picks, Held
<1>4. req[q] # NoReq
  BY <1>2, <1>3
<1>5. req[q].op # "create"
  BY <1>1, <1>3, <1>4 DEF Staged, Stages
<1> QED
  BY <1>4, <1>5 DEF Served, InFlight, Blocks

\* A call that cannot go on waits for one that is served.
LEMMA StuckIsBlocked ==
    ASSUME IInv, StageInv, NEW r \in Reqs, Served(r), ~GoesOn(r)
    PROVE  \E q \in Reqs : Served(q) /\ Blocks(q, r)
<1>1. Staged(req[r]) /\ req[r] # NoReq
  BY DEF StageInv, Served, InFlight
<1>2. CASE req[r].pc = "rows" /\ Wanted(r) # {}
  <2>1. Wanted(r) \subseteq HeldByOthers(r)
    BY <1>2 DEF GoesOn, TakesRow
  <2>2. PICK x \in Wanted(r), q \in Reqs \ {r} : x \in Held(q)
    BY <1>2, <2>1 DEF HeldByOthers
  <2>3. Blocks(q, r)
    BY <1>2, <2>1, <2>2 DEF Blocks
  <2> QED
    BY <2>3, BlockersAreServed
<1>3. CASE req[r].pc # "rows" \/ Wanted(r) = {}
  <2>1. ~Free(r)
    <3>1. CASE req[r].pc = "rows"
      <4>1. req[r].op \in {"allocate", "cancel", "dispatch"} /\ Wanted(r) = {}
        BY <1>1, <1>3, <3>1 DEF Staged, Stages
      <4> QED
        BY <3>1, <4>1, FindsGoods DEF GoesOn, MovesGoods
    <3>2. CASE req[r].pc # "rows"
      <4>1. req[r].pc \in {"insert", "line", "pick", "pack", "ship", "order", "bill", "write"}
        BY <1>1, <3>2 DEF Staged, Stages
      <4> QED
        BY <4>1 DEF GoesOn, MovesOn, Served
    <3> QED
      BY <3>1, <3>2
  <2>2. PICK q \in Reqs : Blocks(q, r)
    BY <2>1 DEF Free
  <2> QED
    BY <2>2, BlockersAreServed
<1> QED
  BY <1>2, <1>3

\* What is said of the stages of a call holds always.
LEMMA StagesHold == Spec => [](IInv /\ StageInv)
<1>1. Init => StageInv
  <2> SUFFICES ASSUME Init
               PROVE  StageInv
    OBVIOUS
  <2> QED
    BY FulfilmentAssumption DEF Init, StageInv, Staged
<1>2. IInv /\ StageInv /\ [Next]_vars => StageInv'
  BY StagesKept
<1> QED
  BY <1>1, <1>2, InductiveInvariant, PTL DEF Spec

\* The calls of sales_service.py are never all stuck: one of them can take its
\* next step, and finds the goods for it, or some wait for each other in a
\* way that the database ends, for any number of them.
THEOREM CallsNeverStuck == Spec => []NobodyStuck
<1>1. ASSUME IInv, StageInv
      PROVE  NobodyStuck
  <2> DEFINE S == {r \in Reqs : Served(r)}
  <2> SUFFICES ASSUME S # {}, \A r \in S : ~GoesOn(r)
               PROVE  Deadlocked(S)
    BY DEF NobodyStuck, Served
  <2>1. \A r \in S : \E q \in S : Blocks(q, r)
    BY <1>1, StuckIsBlocked
  <2> QED
    BY <2>1 DEF Deadlocked
<1> QED
  BY <1>1, StagesHold, PTL

\* No call goes back, whatever the others do.
THEOREM CallsGoForward == Spec => NobodyGoesBack
<1>1. ASSUME IInv, StageInv, [Next]_vars
      PROVE  [\A r \in Reqs : InFlight(r) /\ req'[r] # req[r] => Nearer(req[r], req'[r])]_vars
  <2>1. ASSUME NEW r \in Reqs, Start(r) \/ Proceed(r) \/ Abort(r)
        PROVE  Steps(r)
    BY <1>1, <2>1, StartSteps, ProceedSteps DEF IInv
  <2>2. CASE Next
    BY <2>1, <2>2 DEF Next, Steps
  <2>3. CASE UNCHANGED vars
    BY <2>3
  <2> QED
    BY <1>1, <2>2, <2>3
<1> QED
  BY <1>1, StagesHold, PTL DEF Spec, NobodyGoesBack

\* A call has only so many steps before it: no sequence of its states, each
\* nearer to the end than the one before, goes on for ever.
THEOREM CallsRunOut ==
    IsWellFoundedOn({z \in Request \X Request : Nearer(z[2], z[1])}, Request)
<1> DEFINE R == {z \in Request \X Request : Nearer(z[2], z[1])}
<1>1. ASSUME NEW T \in SUBSET Request, T # {}
      PROVE  \E x \in T : \A y \in T : ~Nearer(x, y)
  <2> DEFINE At(pcs) == {x \in T : x.pc \in pcs}
  <2>0. NoReq.pc = "idle"
    BY DEF NoReq
  <2>1. CASE NoReq \in T
    BY <2>0, <2>1 DEF Nearer, Later
  <2>2. CASE NoReq \notin T /\ At({"idle", "write", "bill", "pick", "pack"}) # {}
    BY <2>2 DEF Nearer, Later
  <2>3. CASE NoReq \notin T /\ At({"rows"}) # {}
    <3> DEFINE U == {Rows \ x.held : x \in At({"rows"})}
    <3>0. PICK x0 : x0 \in At({"rows"})
      BY <2>3
    <3>1. U \in SUBSET SUBSET Rows /\ U # {} /\ IsFiniteSet(Rows)
      <4>1. Rows \ x0.held \in U
        BY <3>0
      <4>2. \A u \in U : u \subseteq Rows
        OBVIOUS
      <4> HIDE DEF U
      <4> QED
        BY <4>1, <4>2, FulfilmentAssumption
    <3>2. PICK u \in U : \A v \in U : v \subseteq u => v = u
      <4> HIDE DEF U
      <4> QED
        BY <3>1, LeastSet
    <3>3. PICK x \in At({"rows"}) : u = Rows \ x.held
      OBVIOUS
    <3>4. ASSUME NEW y \in T, Nearer(x, y)
          PROVE  FALSE
      <4>1. y.pc = "rows" /\ x.held \subseteq y.held /\ x.held # y.held
        BY <2>3, <3>3, <3>4 DEF Nearer, Later
      <4>2. x.held \subseteq Rows /\ y.held \subseteq Rows
        BY DEF Request, RequestRow
      <4>3. Rows \ y.held \in U /\ Rows \ y.held \subseteq u /\ Rows \ y.held # u
        BY <3>3, <4>1, <4>2
      <4> QED
        BY <3>2, <4>3
    <3> QED
      BY <3>3, <3>4
  <2>4. CASE NoReq \notin T /\ At({"rows"}) = {} /\ At({"order"}) # {}
    BY <2>4 DEF Nearer, Later
  <2>5. CASE NoReq \notin T /\ At({"order"}) = {} /\ At({"ship"}) # {}
    BY <2>5 DEF Nearer, Later
  <2>6. CASE NoReq \notin T /\ At({"idle", "write", "bill", "pick", "pack"}) = {} /\ At({"insert", "line"}) # {}
    BY <2>6 DEF Nearer, Later
  <2>7. \A x \in T : x.pc \in {"idle", "write", "insert", "line", "pick", "pack", "ship", "order", "rows", "bill"}
    BY DEF Request, RequestRow
  <2> QED
    BY <1>1, <2>1, <2>2, <2>3, <2>4, <2>5, <2>6, <2>7
<1>2. \A T \in SUBSET Request : T # {} => \E x \in T : \A y \in T : ~(<<y, x>> \in R)
  BY <1>1
<1> HIDE DEF R
<1>3. IsWellFoundedOn(R, Request)
  BY <1>2, MinWF
<1> QED
  BY <1>3 DEF R

\* The places of two calls one of which waits for the other.
LEMMA WhoBlocks ==
    ASSUME StageInv, NEW q \in Reqs, NEW r \in Reqs, Blocks(q, r)
    PROVE  /\ q # r
           /\ req[r].pc = "order" => req[q].pc \in {"rows", "bill"}
           /\ req[r].pc = "bill" => req[q].pc = "rows" \/ BilledTwice(q, r)
           /\ req[r].pc = "pack" => PacksDispatched(r, q)
           /\ req[r].pc = "rows" => req[q].pc \in {"pick", "pack"} \/ (req[q].pc = "rows" /\ Wanted(r) # {}
                                                                      /\ Held(q) \cap Wanted(r) # {})
           /\ req[r].pc \in {"insert", "ship", "write", "line"} =>
                req[q].pc \in {"order", "rows", "bill", "write", "pick", "pack"}
           /\ req[q].pc = "write" => req[r].pc = "ship"
           /\ req[r].pc \notin {"pick", "idle"}
<1>1. Staged(req[q]) /\ Staged(req[r]) /\ NoReq.pc = "idle" /\ NoReq.op = "none" /\ NoReq.held = {}
  BY DEF StageInv, NoReq
<1>2. /\ OrderLock(q) = "update" => req[q].pc = "rows"
      /\ OrderLock(q) # "none" => req[q].pc \in {"rows", "bill"}
  BY DEF OrderLock
<1>3. /\ ShipLock(q) = "update" => req[q].op = "dispatch" /\ req[q].pc \in {"order", "rows"}
      /\ ShipLock(q) # "none" => req[q].pc \in {"order", "rows", "bill", "write"}
      /\ req[q].pc = "write" => ShipLock(q) # "update"
  BY DEF ShipLock
<1>4. Held(q) # {} => req[q].pc = "rows"
  BY <1>1 DEF Held, Staged
<1>5. Picks(q) => req[q].pc \in {"pick", "pack"}
  BY DEF Picks
<1>6. CASE /\ req[q].order = req[r].order
           /\ \/ req[r].pc \in {"order", "bill"} /\ OrderLock(q) # "none"
              \/ req[r].pc = "insert" /\ OrderLock(q) = "update"
              \/ /\ req[r].op \in {"confirm", "create"} /\ req[r].pc = "write"
                 /\ OrderLock(q) = "update"
  BY <1>2, <1>6 DEF Blocks, BilledTwice
<1>7. CASE /\ req[q].ship = req[r].ship
           /\ \/ req[r].pc = "ship" /\ ShipLock(q) # "none"
              \/ req[r].pc \in {"insert", "pack"} /\ ShipLock(q) = "update"
              \/ /\ req[r].op \in {"start", "deliver"} /\ req[r].pc = "write"
                 /\ ShipLock(q) = "update"
              \/ req[r].pc = "line" /\ req[q].line = req[r].line /\ Picks(q)
              \/ req[r].op = "dispatch" /\ req[r].pc = "rows" /\ Wanted(r) = {} /\ Picks(q)
  BY <1>3, <1>5, <1>7 DEF Blocks, LocksShipment, PacksDispatched
<1>8. CASE /\ req[r].pc = "rows" /\ Wanted(r) # {} /\ Wanted(r) \subseteq HeldByOthers(r)
           /\ Held(q) \cap Wanted(r) # {}
  BY <1>4, <1>8 DEF Blocks
<1> QED
  BY <1>6, <1>7, <1>8 DEF Blocks, LocksShipment

\* Every deadlock of sales calls whose shipments carry lines of their own order
\* has one of three causes, for any number of calls: the row locks of
\* allocation, cancellation and dispatch, which come in no fixed order, two
\* invoices of one order, or a pick that packs against a dispatch. No other mix
\* of calls can wait in a circle.
THEOREM CausesOfSalesDeadlock == Spec => []DeadlocksHaveACause
<1>1. ASSUME IInv, StageInv, NEW S \in SUBSET Reqs, Deadlocked(S)
      PROVE  \E q, r \in S : q # r /\ (RowsApart(q, r) \/ BilledTwice(q, r) \/ PacksDispatched(q, r))
  <2> DEFINE Found == \E q, r \in S :
                        q # r /\ (RowsApart(q, r) \/ BilledTwice(q, r) \/ PacksDispatched(q, r))
  <2>1. \A r \in S : \E q \in S : Blocks(q, r)
    BY <1>1 DEF Deadlocked
  <2>2. ASSUME NEW r \in S, req[r].pc = "pack" PROVE Found
    <3>1. PICK q \in S : Blocks(q, r)
      BY <2>1
    <3>2. q # r /\ PacksDispatched(r, q)
      BY <1>1, <2>2, <3>1, WhoBlocks
    <3> QED
      BY <3>2
  <2>3. ASSUME NEW r \in S, req[r].pc = "rows" PROVE Found
    <3>1. PICK q \in S : Blocks(q, r)
      BY <2>1
    <3>2. PICK p \in S : Blocks(p, q)
      BY <2>1
    <3>3. CASE req[q].pc = "pack"
      BY <2>2, <3>3
    <3>4. CASE req[q].pc # "pack"
      <4>1. req[q].pc = "rows" /\ Held(q) \cap Wanted(r) # {} /\ q # r
        BY <1>1, <2>3, <3>1, <3>2, <3>4, WhoBlocks
      <4>2. CASE req[p].pc = "pack"
        BY <2>2, <4>2
      <4>3. CASE req[p].pc # "pack"
        <5>1. \E o \in S : Blocks(o, p)
          BY <2>1
        <5>2. req[p].pc # "pick"
          BY <1>1, <5>1, WhoBlocks
        <5>3. Wanted(q) # {}
          BY <1>1, <3>2, <4>1, <4>3, <5>2, WhoBlocks
        <5> QED
          BY <2>3, <4>1, <5>3 DEF RowsApart
      <4> QED
        BY <4>2, <4>3
    <3> QED
      BY <3>3, <3>4
  <2>4. ASSUME NEW r \in S, req[r].pc = "bill" PROVE Found
    <3>1. PICK q \in S : Blocks(q, r)
      BY <2>1
    <3>2. q # r /\ (req[q].pc = "rows" \/ BilledTwice(q, r))
      BY <1>1, <2>4, <3>1, WhoBlocks
    <3> QED
      BY <2>3, <3>2
  <2>5. ASSUME NEW r \in S, req[r].pc = "order" PROVE Found
    <3>1. PICK q \in S : Blocks(q, r)
      BY <2>1
    <3>2. req[q].pc \in {"rows", "bill"}
      BY <1>1, <2>5, <3>1, WhoBlocks
    <3> QED
      BY <2>3, <2>4, <3>2
  <2>6. ASSUME NEW r \in S, req[r].pc \in {"order", "rows", "bill", "pack"} PROVE Found
    BY <2>2, <2>3, <2>4, <2>5, <2>6
  <2>7. \A r \in S : req[r].pc \in {"insert", "ship", "write", "line", "order", "rows", "bill", "pack"}
    <3>1. \A r \in S : req[r].pc \notin {"pick", "idle"}
      BY <1>1, <2>1, WhoBlocks
    <3> QED
      BY <1>1, <3>1 DEF IInv, TypeOK, Request, RequestRow
  <2>8. PICK r \in S : TRUE
    BY <1>1 DEF Deadlocked
  <2>9. PICK q \in S, p \in S : Blocks(q, r) /\ Blocks(p, q)
    BY <2>1
  <2>10. CASE req[r].pc \in {"insert", "ship", "write", "line"} /\ req[q].pc = "write"
    <3>1. req[p].pc \in {"order", "rows", "bill", "write", "pick", "pack"} /\ req[p].pc # "write"
      BY <1>1, <2>9, <2>10, WhoBlocks
    <3> QED
      BY <2>6, <2>7, <3>1
  <2>11. CASE req[r].pc \in {"insert", "ship", "write", "line"} /\ req[q].pc # "write"
    <3>1. req[q].pc \in {"order", "rows", "bill", "write", "pick", "pack"}
      BY <1>1, <2>9, <2>11, WhoBlocks
    <3> QED
      BY <2>6, <2>7, <2>11, <3>1
  <2> QED
    BY <2>6, <2>7, <2>10, <2>11
<1>2. IInv /\ StageInv => DeadlocksHaveACause
  BY <1>1 DEF DeadlocksHaveACause
<1> QED
  BY <1>2, StagesHold, PTL
=============================================================================
