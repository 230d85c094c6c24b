----------------------- MODULE SalesFulfilment_proofs -----------------------
(***************************************************************************)
(* Proofs about SalesFulfilment for any number of orders, lines, shipments,*)
(* stock rows and requests. The inductive invariant says what the locks    *)
(* are for: a request that holds a stock row has read what the row still   *)
(* is, nobody else holds it, and the quantities computed under the lock of *)
(* an order are still the ones its lines ask for.                          *)
(***************************************************************************)
EXTENDS SalesFulfilment, TLAPS

SeenIsCurrent == \A r \in Reqs : \A x \in Held(r) : req[r].seen[x] = stock[x]
UnseenIsEmpty == \A r \in Reqs : \A x \in Rows \ Held(r) : req[r].seen[x] = NoRow
RowsExclusive == \A q, r \in Reqs : q # r => Held(q) \cap Held(r) = {}
RowInv == StockArithmetic /\ SeenIsCurrent /\ UnseenIsEmpty /\ RowsExclusive

\* r has locked its order and decided what to move.
Decided(r) == req[r].pc = "rows"

NeedIsCurrent == \A r \in Reqs :
    Decided(r) /\ req[r].op = "allocate" => req[r].qty = Need(req[r].order)
CancelsOwnLines == \A r \in Reqs :
    Decided(r) /\ req[r].op = "cancel" =>
        \A l \in Lines : req[r].qty[l] > 0 => OrderOf[l] = req[r].order
CancelsWholeOrder == \A r \in Reqs :
    Decided(r) /\ req[r].op = "cancel" =>
        \/ \A l \in Lines : req[r].qty[l] = 0
        \/ \A l \in LinesOf(req[r].order) : req[r].qty[l] = allocated[l]
OrdersExclusive == \A q, r \in Reqs :
    q # r /\ Decided(q) /\ Decided(r) => req[q].order # req[r].order
AllocationsBounded == \A l \in Lines : allocated[l] <= Ordered[l]
OrderInv == /\ NeedIsCurrent /\ CancelsOwnLines /\ CancelsWholeOrder /\ OrdersExclusive
            /\ AllocationsBounded /\ AllocatedMeansAll

IInv == TypeOK /\ RowInv /\ OrderInv

-----------------------------------------------------------------------------
\* A request that is not running has the shape of a request.
LEMMA NoReqType == NoReq \in Request
BY FulfilmentAssumption DEF NoReq, Request, RequestRow, NoQty, Quantity, NoRow, StockRow, SOStatus

\* The invariant holds before the first call.
THEOREM InitInv == Init => IInv
<1> SUFFICES ASSUME Init PROVE IInv
    OBVIOUS
<1> USE FulfilmentAssumption
<1>1. TypeOK
  <2>1. NoQty \in [Lines -> Quantity] /\ NoQty \in [Lines -> Nat]
      BY DEF NoQty, Quantity
  <2>2. NoShip \in ShipmentRow
      BY <2>1 DEF NoShip, ShipmentRow
  <2>3. stock \in [Rows -> StockRow]
      BY DEF Init, StockRow
  <2> QED
      BY <2>1, <2>2, <2>3, NoReqType DEF Init, TypeOK, SOStatus
<1>2. RowInv
  <2>1. \A r \in Reqs : req[r].held = {} /\ req[r].seen = [x \in Rows |-> NoRow]
      BY DEF Init, NoReq
  <2>2. StockArithmetic
      BY DEF Init, StockArithmetic
  <2> QED
      BY <2>1, <2>2 DEF RowInv, SeenIsCurrent, UnseenIsEmpty, RowsExclusive, Held
<1>3. OrderInv
  <2>1. \A r \in Reqs : req[r].pc = "idle"
      BY DEF Init, NoReq
  <2>2. AllocationsBounded
      BY DEF Init, AllocationsBounded, NoQty
  <2>3. AllocatedMeansAll
      BY DEF Init, AllocatedMeansAll, NoQty, LinesOf
  <2> QED
      BY <2>1, <2>2, <2>3 DEF OrderInv, NeedIsCurrent, CancelsOwnLines, CancelsWholeOrder,
                              OrdersExclusive, Decided
<1> QED
    BY <1>1, <1>2, <1>3 DEF IInv

-----------------------------------------------------------------------------
\* A step that changes no stock row and locks none keeps the invariant on rows.
LEMMA KeepRows ==
    ASSUME TypeOK, RowInv, NEW r \in Reqs, NEW y \in Request,
           req' = [req EXCEPT ![r] = y], stock' = stock,
           \/ y.held = req[r].held /\ y.seen = req[r].seen
           \/ y.held = {} /\ y.seen = NoReq.seen
    PROVE  RowInv'
<1>0. req \in [Reqs -> Request]
    BY DEF TypeOK
<1>1. \A q \in Reqs : \/ req'[q].held = req[q].held /\ req'[q].seen = req[q].seen
                      \/ req'[q].held = {} /\ req'[q].seen = NoReq.seen
    BY <1>0
<1>2. NoReq.seen = [x \in Rows |-> NoRow]
    BY DEF NoReq
<1>3. SeenIsCurrent'
    BY <1>1 DEF RowInv, SeenIsCurrent, Held
<1>4. UnseenIsEmpty'
    BY <1>1, <1>2 DEF RowInv, UnseenIsEmpty, Held
<1>5. RowsExclusive'
    BY <1>1 DEF RowInv, RowsExclusive, Held
<1>6. StockArithmetic'
    BY DEF RowInv, StockArithmetic
<1> QED
    BY <1>3, <1>4, <1>5, <1>6 DEF RowInv

\* A step that allocates nothing and decides nothing keeps the invariant on
\* orders.
LEMMA KeepOrders ==
    ASSUME TypeOK, OrderInv, NEW r \in Reqs, NEW y \in Request,
           req' = [req EXCEPT ![r] = y], allocated' = allocated,
           \A o \in Orders : status'[o] = "allocated" => status[o] = "allocated",
           \/ y.pc # "rows"
           \/ /\ Decided(r)
              /\ y.op = req[r].op /\ y.order = req[r].order /\ y.qty = req[r].qty
    PROVE  OrderInv'
<1>0. req \in [Reqs -> Request]
    BY DEF TypeOK
<1>1. \A q \in Reqs : Decided(q)' =>
        /\ Decided(q)
        /\ req'[q].op = req[q].op /\ req'[q].order = req[q].order /\ req'[q].qty = req[q].qty
    BY <1>0 DEF Decided
<1>2. \A o : Need(o)' = Need(o)
    BY DEF Need
<1>3. NeedIsCurrent'
    BY <1>1, <1>2 DEF OrderInv, NeedIsCurrent
<1>4. CancelsOwnLines' /\ CancelsWholeOrder'
    BY <1>1 DEF OrderInv, CancelsOwnLines, CancelsWholeOrder, LinesOf
<1>5. OrdersExclusive'
    BY <1>1 DEF OrderInv, OrdersExclusive
<1>6. AllocationsBounded' /\ AllocatedMeansAll'
    BY DEF OrderInv, AllocationsBounded, AllocatedMeansAll, LinesOf
<1> QED
    BY <1>3, <1>4, <1>5, <1>6 DEF OrderInv

\* A request that goes on without touching a table keeps the invariant.
LEMMA MoveInv ==
    ASSUME IInv, NEW r \in Reqs, NEW y \in Request, Move(r, y),
           \/ y.held = req[r].held /\ y.seen = req[r].seen
           \/ y.held = {} /\ y.seen = NoReq.seen,
           \/ y.pc # "rows"
           \/ /\ Decided(r)
              /\ y.op = req[r].op /\ y.order = req[r].order /\ y.qty = req[r].qty
    PROVE  IInv'
<1>1. /\ req' = [req EXCEPT ![r] = y] /\ stock' = stock /\ allocated' = allocated
      /\ status' = status /\ shipped' = shipped /\ ship' = ship
    BY DEF Move, orders
<1>2. TypeOK /\ RowInv /\ OrderInv
    BY DEF IInv
<1>3. TypeOK'
    BY <1>1, <1>2 DEF TypeOK
<1>4. RowInv'
    BY <1>1, <1>2, KeepRows
<1>5. OrderInv'
    BY <1>1, <1>2, KeepOrders
<1> QED
    BY <1>3, <1>4, <1>5 DEF IInv

\* A refusal or a rollback keeps the invariant: it only gives locks back.
LEMMA RejectInv ==
    ASSUME IInv, NEW r \in Reqs, Reject(r)
    PROVE  IInv'
<1>1. NoReq.held = {} /\ NoReq.pc # "rows"
    BY DEF NoReq
<1> QED
    BY <1>1, NoReqType, MoveInv DEF Reject

\* A request that ends by writing shipments or statuses, without calling an
\* order allocated, keeps the invariant.
LEMMA FinishInv ==
    ASSUME IInv, NEW r \in Reqs, Finish(r),
           UNCHANGED <<allocated, shipped, stock>>,
           ship' \in [Shipments -> ShipmentRow],
           status' \in [Orders -> SOStatus],
           \A o \in Orders : status'[o] = "allocated" => status[o] = "allocated"
    PROVE  IInv'
<1>1. req' = [req EXCEPT ![r] = NoReq]
    BY DEF Finish
<1>2. TypeOK /\ RowInv /\ OrderInv
    BY DEF IInv
<1>3. NoReq.held = {} /\ NoReq.pc # "rows"
    BY DEF NoReq
<1>4. TypeOK'
    BY <1>1, <1>2, NoReqType DEF TypeOK
<1>5. RowInv'
    BY <1>1, <1>2, <1>3, NoReqType, KeepRows
<1>6. OrderInv'
    BY <1>1, <1>2, <1>3, NoReqType, KeepOrders
<1> QED
    BY <1>4, <1>5, <1>6 DEF IInv

-----------------------------------------------------------------------------
(* Calls that start: what a new request holds is nothing. *)

\* A new request that holds nothing yet keeps the invariant.
LEMMA StartInv ==
    ASSUME IInv, NEW r \in Reqs, req[r] = NoReq, NEW y \in Request, Move(r, y),
           y.held = NoReq.held, y.seen = NoReq.seen, y.pc # "rows"
    PROVE  IInv'
BY MoveInv

\* The calls that only name an order or a shipment are such requests.
LEMMA CallInv ==
    ASSUME IInv, NEW r \in Reqs,
           NEW op \in {"confirm", "create", "start", "deliver", "allocate", "cancel", "dispatch"},
           NEW pc \in {"write", "insert", "ship", "order"},
           NEW o \in Orders \cup {None}, NEW s \in Shipments \cup {None},
           pc = "ship" => s \in Shipments,
           Call(r, op, pc, o, s)
    PROVE  IInv'
<1>1. req[r] = NoReq /\ req[r] \in Request
    BY NoReqType DEF Call
<1> DEFINE y == [req[r] EXCEPT !.op = op, !.pc = pc, !.order = o, !.ship = s]
<1>2. req[r] \in RequestRow
    BY <1>1 DEF Request
<1>5. y.pc = pc /\ y.ship = s
    BY <1>2 DEF RequestRow
<1>6. y \in RequestRow
    BY <1>2 DEF RequestRow
<1>3. y.held = NoReq.held /\ y.seen = NoReq.seen /\ y.pc # "rows"
    BY <1>1 DEF NoReq
<1>4. Move(r, y)
    BY DEF Call
<1> HIDE DEF y
<1>7. y \in Request
    BY <1>5, <1>6 DEF Request
<1> QED
    BY <1>1, <1>3, <1>4, <1>7, StartInv

\* Every way a call may start keeps the invariant.
LEMMA StartsInv ==
    ASSUME IInv, NEW r \in Reqs, Start(r)
    PROVE  IInv'
<1>0. /\ ship \in [Shipments -> ShipmentRow] /\ status \in [Orders -> SOStatus]
      /\ req \in [Reqs -> Request] /\ req[r] \in Request
    BY DEF IInv, TypeOK
<1>1. ASSUME NEW o \in Orders, ConfirmStart(r, o) \/ CreateStart(r, o)
                               \/ AllocateStart(r, o) \/ CancelStart(r, o)
      PROVE  IInv'
    BY <1>1, CallInv DEF ConfirmStart, CreateStart, AllocateStart, CancelStart
<1>2. ASSUME NEW s \in Shipments, StartPickingStart(r, s) \/ DeliverStart(r, s)
                                  \/ DispatchStart(r, s)
      PROVE  IInv'
  <2>1. ship[s].order \in Orders \cup {None}
      BY <1>0 DEF ShipmentRow
  <2> QED
      BY <1>2, <2>1, CallInv DEF StartPickingStart, DeliverStart, DispatchStart
<1>3. ASSUME NEW s \in Shipments, InvoiceStart(r, s)
      PROVE  IInv'
  <2> DEFINE o == ship[s].order
             y == [req[r] EXCEPT !.op = "invoice", !.pc = "insert", !.ship = s,
                                 !.order = o, !.saw = status[o] = "shipped"]
  <2>1. req[r] = NoReq /\ Move(r, y)
      BY <1>3 DEF InvoiceStart
  <2>2. o \in Orders \cup {None}
      BY <1>0 DEF ShipmentRow
  <2>3. y \in RequestRow /\ y.pc = "insert"
      BY <1>0, <2>2 DEF Request, RequestRow
  <2>5. y.held = NoReq.held /\ y.seen = NoReq.seen /\ y.pc # "rows"
      BY <2>1 DEF NoReq
  <2> HIDE DEF y
  <2>4. y \in Request
      BY <2>3 DEF Request
  <2> QED
      BY <2>1, <2>4, <2>5, StartInv
<1>4. ASSUME NEW s \in Shipments, NEW l \in Lines, PickStart(r, s, l)
      PROVE  IInv'
  <2> DEFINE y == [req[r] EXCEPT !.op = "pick", !.pc = "line", !.ship = s, !.line = l]
  <2>1. req[r] = NoReq /\ Move(r, y)
      BY <1>4 DEF PickStart
  <2>4. y \in RequestRow /\ y.pc = "line" /\ y.line = l
      BY <1>0 DEF Request, RequestRow
  <2>3. y.held = NoReq.held /\ y.seen = NoReq.seen /\ y.pc # "rows"
      BY <2>1 DEF NoReq
  <2> HIDE DEF y
  <2>2. y \in Request
      BY <2>4 DEF Request
  <2> QED
      BY <2>1, <2>2, <2>3, StartInv
<1> QED
    BY <1>1, <1>2, <1>3, <1>4 DEF Start

-----------------------------------------------------------------------------
(* Calls that go on, or are refused, without touching a table. *)

\* A request that goes on to another step than taking stock rows keeps the
\* invariant, whatever quantities it has chosen.
LEMMA GoOnInv ==
    ASSUME IInv, NEW r \in Reqs,
           NEW pc \in {"write", "insert", "pick", "pack", "order", "bill"},
           NEW q \in [Lines -> Quantity],
           pc \in {"pick", "pack"} => req[r].line \in Lines,
           Move(r, [req[r] EXCEPT !.pc = pc, !.qty = q])
    PROVE  IInv'
<1>1. req[r] \in Request
    BY DEF IInv, TypeOK
<1> DEFINE y == [req[r] EXCEPT !.pc = pc, !.qty = q]
<1>5. y \in RequestRow /\ y.pc = pc /\ y.line = req[r].line
    BY <1>1 DEF Request, RequestRow
<1>3. y.held = req[r].held /\ y.seen = req[r].seen /\ y.pc # "rows"
    BY <1>1 DEF Request, RequestRow
<1>4. Move(r, y)
    OBVIOUS
<1> HIDE DEF y
<1>2. y \in Request
    BY <1>5 DEF Request
<1> QED
    BY <1>2, <1>3, <1>4, MoveInv

\* The same for a request that keeps its quantities.
LEMMA StepOnInv ==
    ASSUME IInv, NEW r \in Reqs,
           NEW pc \in {"write", "insert", "pick", "pack", "order", "bill"},
           pc \in {"pick", "pack"} => req[r].line \in Lines,
           Move(r, [req[r] EXCEPT !.pc = pc])
    PROVE  IInv'
<1>1. req[r] \in Request
    BY DEF IInv, TypeOK
<1>2. req[r].qty \in [Lines -> Quantity]
    BY <1>1 DEF Request, RequestRow
<1>3. [req[r] EXCEPT !.pc = pc] = [req[r] EXCEPT !.pc = pc, !.qty = req[r].qty]
    BY <1>1 DEF Request, RequestRow
<1> QED
    BY <1>2, <1>3, GoOnInv

\* A dispatch that is granted the lock of its shipment, or refused there.
LEMMA LockShipmentInv ==
    ASSUME IInv, NEW r \in Reqs, LockShipment(r)
    PROVE  IInv'
<1> DEFINE s == req[r].ship
<1>1. CASE ship[s].status \in {"pending", "picking", "packed"}
  <2>1. Move(r, [req[r] EXCEPT !.qty = ship[s].qty, !.pc = "order"])
      BY <1>1 DEF LockShipment
  <2>2. s \in Shipments
      BY DEF LockShipment, IInv, TypeOK, Request
  <2>3. ship[s].qty \in [Lines -> Quantity]
      BY <2>2 DEF IInv, TypeOK, ShipmentRow
  <2> QED
      BY <2>1, <2>2, <2>3, GoOnInv
<1>2. CASE ~(ship[s].status \in {"pending", "picking", "packed"})
    BY <1>2, RejectInv DEF LockShipment
<1> QED
    BY <1>1, <1>2

\* The waiting steps of deliveries, picks and invoices, refusals and rollbacks.
LEMMA QuietInv ==
    ASSUME IInv, NEW r \in Reqs,
           DeliverInsert(r) \/ PickFlush(r) \/ Insufficient(r) \/ InvoiceInsert(r) \/ Abort(r)
    PROVE  IInv'
<1>1. CASE DeliverInsert(r)
    BY <1>1, StepOnInv, RejectInv DEF DeliverInsert
<1>2. CASE PickFlush(r)
  <2>1. req[r].line \in Lines
      BY <1>2 DEF PickFlush, IInv, TypeOK, Request
  <2> QED
      BY <1>2, <2>1, StepOnInv DEF PickFlush
<1>3. CASE Insufficient(r) \/ Abort(r)
    BY <1>3, RejectInv DEF Insufficient, Abort
<1>4. CASE InvoiceInsert(r)
    BY <1>4, StepOnInv DEF InvoiceInsert
<1> QED
    BY <1>1, <1>2, <1>3, <1>4

(* Calls that end with a status or a shipment written. *)

\* A request whose last step writes one shipment keeps the invariant.
LEMMA ShipInv ==
    ASSUME IInv, NEW r \in Reqs, Finish(r), NEW s, NEW x,
           SetShip(s, x), s \in Shipments => x \in ShipmentRow
    PROVE  IInv'
<1>1. ship \in [Shipments -> ShipmentRow] /\ status \in [Orders -> SOStatus]
    BY DEF IInv, TypeOK
<1>2. /\ ship' \in [Shipments -> ShipmentRow] /\ status' = status
      /\ UNCHANGED <<allocated, shipped, stock>>
    BY <1>1 DEF SetShip, orders
<1> QED
    BY <1>1, <1>2, FinishInv

\* A request whose last step writes one order as confirmed or invoiced, or as
\* it is, keeps the invariant.
LEMMA StatusInv ==
    ASSUME IInv, NEW r \in Reqs, Finish(r), UNCHANGED <<allocated, shipped, stock>>,
           ship' \in [Shipments -> ShipmentRow],
           NEW o, NEW v, status' = [status EXCEPT ![o] = v],
           v = "confirmed" \/ v = "invoiced" \/ v = status[o]
    PROVE  IInv'
<1>1. status \in [Orders -> SOStatus]
    BY DEF IInv, TypeOK
<1>2. status' \in [Orders -> SOStatus]
    BY <1>1 DEF SOStatus
<1>3. \A p \in Orders : status'[p] = "allocated" => status[p] = "allocated"
    BY <1>1
<1> QED
    BY <1>2, <1>3, FinishInv

\* The writes of confirmations, new shipments, pickings, deliveries and
\* invoices keep the invariant, stale or not.
LEMMA WritesInv ==
    ASSUME IInv, NEW r \in Reqs,
           ConfirmWrite(r) \/ CreateShipment(r) \/ StartPicking(r) \/ Deliver(r)
           \/ PickCommit(r) \/ Invoice(r)
    PROVE  IInv'
<1>1. /\ ship \in [Shipments -> ShipmentRow] /\ req[r] \in Request
    BY DEF IInv, TypeOK
<1>2. CASE ConfirmWrite(r)
    BY <1>1, <1>2, StatusInv DEF ConfirmWrite
<1>3. CASE CreateShipment(r)
  <2>1. PICK s \in Shipments, q \in [Lines -> 0 .. MaxShip] :
          SetShip(s, [NoShip EXCEPT !.status = "pending", !.order = req[r].order, !.qty = q])
      BY <1>3 DEF CreateShipment
  <2>2. q \in [Lines -> Quantity]
      BY FulfilmentAssumption DEF Quantity
  <2>3. req[r].order \in Orders \cup {None}
      BY <1>1 DEF Request, RequestRow
  <2>4. [NoShip EXCEPT !.status = "pending", !.order = req[r].order, !.qty = q] \in ShipmentRow
      BY <2>2, <2>3 DEF NoShip, ShipmentRow
  <2>5. Finish(r)
      BY <1>3 DEF CreateShipment
  <2> QED
      BY <2>1, <2>4, <2>5, ShipInv
<1>4. CASE StartPicking(r)
  <2>1. req[r].ship \in Shipments =>
            [ship[req[r].ship] EXCEPT !.status = "picking"] \in ShipmentRow
      BY <1>1 DEF ShipmentRow
  <2> QED
      BY <1>4, <2>1, ShipInv DEF StartPicking
<1>5. CASE Deliver(r)
  <2>1. req[r].ship \in Shipments =>
            [ship[req[r].ship] EXCEPT !.status = "delivered"] \in ShipmentRow
      BY <1>1 DEF ShipmentRow
  <2> QED
      BY <1>5, <2>1, ShipInv DEF Deliver
<1>6. CASE PickCommit(r)
  <2> DEFINE s == req[r].ship
             x == [ship[s] EXCEPT
                     !.picked = @ \cup {req[r].line},
                     !.status = IF req[r].pc = "pack" THEN "packed" ELSE @]
  <2>1. req[r].line \in Lines
      BY <1>1, <1>6 DEF PickCommit, Picks, Request
  <2>2. s \in Shipments => x \in ShipmentRow
      BY <1>1, <2>1 DEF ShipmentRow
  <2>3. Finish(r) /\ SetShip(s, x)
      BY <1>6 DEF PickCommit
  <2> HIDE DEF x
  <2> QED
      BY <2>2, <2>3, ShipInv
<1>7. CASE Invoice(r)
  <2> DEFINE s == req[r].ship
  <2>1. ship' = [ship EXCEPT ![s] = [ship[s] EXCEPT !.invoices = @ + 1]]
      BY <1>7 DEF Invoice
  <2>4. ASSUME s \in Shipments PROVE [ship[s] EXCEPT !.invoices = @ + 1] \in ShipmentRow
    <3>1. ship[s] \in ShipmentRow
        BY <1>1, <2>4
    <3>2. ship[s].invoices + 1 \in Nat
        BY <3>1 DEF ShipmentRow
    <3> QED
        BY <3>1, <3>2 DEF ShipmentRow
  <2>2. ship' \in [Shipments -> ShipmentRow]
      BY <1>1, <2>1, <2>4
  <2>3. Billed(r) = "invoiced" \/ Billed(r) = status[req[r].order]
      BY DEF Billed
  <2> QED
      BY <1>7, <2>2, <2>3, StatusInv DEF Invoice
<1> QED
    BY <1>2, <1>3, <1>4, <1>5, <1>6, <1>7

-----------------------------------------------------------------------------
(* The order lock: no other request has decided about the same order. *)

\* A request that is granted the order lock computes what the order needs while
\* no other request can change it.
LEMMA EnterInv ==
    ASSUME IInv, NEW r \in Reqs, NEW q \in [Lines -> Quantity],
           req[r].pc = "order", Free(r),
           Move(r, [req[r] EXCEPT !.qty = q, !.pc = "rows"]),
           req[r].op = "allocate" => q = Need(req[r].order),
           req[r].op = "cancel" => \A l \in Lines : q[l] > 0 => OrderOf[l] = req[r].order,
           req[r].op = "cancel" => \/ \A l \in Lines : q[l] = 0
                                   \/ \A l \in LinesOf(req[r].order) : q[l] = allocated[l]
    PROVE  IInv'
<1>1. TypeOK /\ RowInv /\ OrderInv /\ req \in [Reqs -> Request] /\ req[r] \in RequestRow
    BY DEF IInv, TypeOK, Request
<1> DEFINE y == [req[r] EXCEPT !.qty = q, !.pc = "rows"]
<1>2. /\ req' = [req EXCEPT ![r] = y] /\ stock' = stock /\ allocated' = allocated
      /\ status' = status /\ shipped' = shipped /\ ship' = ship
    BY DEF Move, orders
<1>3. /\ y.pc = "rows" /\ y.qty = q /\ y.op = req[r].op /\ y.order = req[r].order
      /\ y.held = req[r].held /\ y.seen = req[r].seen
    BY <1>1 DEF RequestRow
<1>4. y \in RequestRow
    BY <1>1 DEF RequestRow
<1> HIDE DEF y
<1>5. y \in Request
    BY <1>3, <1>4 DEF Request
<1>6. TypeOK'
    BY <1>1, <1>2, <1>5 DEF TypeOK
<1>7. RowInv'
    BY <1>1, <1>2, <1>3, <1>5, KeepRows
<1>8. \A p \in Reqs : p # r /\ Decided(p) => req[p].order # req[r].order
    BY DEF Free, Blocks, OrderLock, Decided
<1>9. req'[r] = y /\ \A p \in Reqs : p # r => req'[p] = req[p]
    BY <1>1, <1>2
<1>10. \A o : Need(o)' = Need(o)
    BY <1>2 DEF Need
<1>11. OrdersExclusive'
    BY <1>1, <1>3, <1>8, <1>9 DEF OrderInv, OrdersExclusive, Decided
<1>12. NeedIsCurrent'
    BY <1>1, <1>3, <1>9, <1>10 DEF OrderInv, NeedIsCurrent, Decided
<1>13. CancelsOwnLines'
    BY <1>1, <1>3, <1>9 DEF OrderInv, CancelsOwnLines, Decided
<1>15. CancelsWholeOrder'
    BY <1>1, <1>2, <1>3, <1>9 DEF OrderInv, CancelsWholeOrder, Decided, LinesOf
<1>14. AllocationsBounded' /\ AllocatedMeansAll'
    BY <1>1, <1>2 DEF OrderInv, AllocationsBounded, AllocatedMeansAll, LinesOf
<1> QED
    BY <1>6, <1>7, <1>11, <1>12, <1>13, <1>14, <1>15 DEF IInv, OrderInv

\* Allocations, cancellations and dispatches enter their order that way or are
\* refused.
LEMMA LockOrderInv ==
    ASSUME IInv, NEW r \in Reqs, LockOrder(r)
    PROVE  IInv'
<1> DEFINE o == req[r].order
<1>1. /\ allocated \in [Lines -> Quantity] /\ req[r] \in RequestRow
      /\ req[r].pc = "order" /\ Free(r)
    BY DEF IInv, TypeOK, Request, LockOrder
<1>2. CASE Reject(r)
    BY <1>2, RejectInv
<1>3. CASE req[r].op = "allocate" /\ Move(r, [req[r] EXCEPT !.qty = Need(o), !.pc = "rows"])
  <2>1. Need(o) \in [Lines -> Quantity]
      BY <1>1, FulfilmentAssumption DEF Need, Quantity
  <2> QED
      BY <1>1, <1>3, <2>1, EnterInv
<1>4. CASE req[r].op = "cancel" /\ Move(r, [req[r] EXCEPT !.qty = Holds(o), !.pc = "rows"])
  <2>1. Holds(o) \in [Lines -> Quantity]
      BY <1>1, FulfilmentAssumption DEF Holds, Quantity
  <2>2. \A l \in Lines : Holds(o)[l] > 0 => OrderOf[l] = o
      BY <1>1 DEF Holds
  <2>3. \/ \A l \in Lines : Holds(o)[l] = 0
        \/ \A l \in LinesOf(o) : Holds(o)[l] = allocated[l]
      BY DEF Holds, LinesOf
  <2> QED
      BY <1>1, <1>4, <2>1, <2>2, <2>3, EnterInv
<1>5. CASE req[r].op = "dispatch" /\ Move(r, [req[r] EXCEPT !.qty = req[r].qty, !.pc = "rows"])
  <2>1. req[r].qty \in [Lines -> Quantity]
      BY <1>1 DEF RequestRow
  <2> QED
      BY <1>1, <1>5, <2>1, EnterInv
<1> QED
    BY <1>2, <1>3, <1>4, <1>5 DEF LockOrder, Enter

\* A stock row that is read when its lock is granted is seen as it is, and by
\* nobody else who could write it.
LEMMA LockRowInv ==
    ASSUME IInv, NEW r \in Reqs, NEW x \in Rows, LockRow(r, x)
    PROVE  IInv'
<1>1. /\ TypeOK /\ RowInv /\ OrderInv /\ req \in [Reqs -> Request] /\ req[r] \in RequestRow
      /\ stock \in [Rows -> StockRow]
    BY DEF IInv, TypeOK, Request
<1> DEFINE y == [req[r] EXCEPT !.held = @ \cup {x}, !.seen[x] = stock[x]]
<1>2. /\ req' = [req EXCEPT ![r] = y] /\ stock' = stock /\ allocated' = allocated
      /\ status' = status /\ shipped' = shipped /\ ship' = ship
    BY DEF LockRow, Move, orders
<1>3. /\ req[r].pc = "rows" /\ y.pc = "rows" /\ y.qty = req[r].qty /\ y.op = req[r].op
      /\ y.order = req[r].order
      /\ y.held = req[r].held \cup {x} /\ y.seen = [req[r].seen EXCEPT ![x] = stock[x]]
    BY <1>1 DEF RequestRow, LockRow
<1>4. y.held \in SUBSET Rows /\ y.seen \in [Rows -> StockRow]
    BY <1>1, <1>3 DEF RequestRow
<1>5. y \in RequestRow
    BY <1>1, <1>4 DEF RequestRow
<1> HIDE DEF y
<1>6. y \in Request
    BY <1>3, <1>5 DEF Request
<1>7. TypeOK'
    BY <1>1, <1>2, <1>6 DEF TypeOK
<1>8. OrderInv'
    BY <1>1, <1>2, <1>3, <1>6, KeepOrders DEF Decided
<1>9. req'[r] = y /\ \A p \in Reqs : p # r => req'[p] = req[p]
    BY <1>1, <1>2
<1>10. req[r].seen \in [Rows -> StockRow]
    BY <1>1 DEF RequestRow
<1>11. SeenIsCurrent'
  <2> SUFFICES ASSUME NEW p \in Reqs, NEW z \in Held(p)'
               PROVE  req'[p].seen[z] = stock'[z]
      BY DEF SeenIsCurrent
  <2>1. CASE p # r
      BY <1>1, <1>2, <1>9, <2>1 DEF RowInv, SeenIsCurrent, Held
  <2>2. CASE p = r /\ z = x
      BY <1>2, <1>3, <1>9, <1>10, <2>2
  <2>3. CASE p = r /\ z # x
    <3>1. z \in req[r].held
        BY <1>3, <1>9, <2>3 DEF Held
    <3>2. req[r].seen[z] = stock[z]
        BY <1>1, <3>1 DEF RowInv, SeenIsCurrent, Held
    <3>3. z \in Rows
        BY <1>1, <3>1 DEF RequestRow
    <3> QED
        BY <1>2, <1>3, <1>9, <1>10, <2>3, <3>2, <3>3
  <2> QED
      BY <2>1, <2>2, <2>3
<1>12. UnseenIsEmpty'
    BY <1>1, <1>3, <1>9, <1>10 DEF RowInv, UnseenIsEmpty, Held
<1>13. x \notin HeldByOthers(r)
    BY DEF LockRow
<1>14. RowsExclusive'
    BY <1>1, <1>3, <1>9, <1>13 DEF RowInv, RowsExclusive, Held, HeldByOthers
<1>15. StockArithmetic'
    BY <1>1, <1>2 DEF RowInv, StockArithmetic
<1> QED
    BY <1>7, <1>8, <1>11, <1>12, <1>14, <1>15 DEF IInv, RowInv

-----------------------------------------------------------------------------
(* The stock rows a request takes from: it holds them, so nobody else does *)
(* and what it read of them is what they are.                              *)

Sound(x) ==
    /\ x \in StockRow
    /\ x.reserved <= x.onHand
    /\ x.available = x.onHand - x.reserved

\* Rows that are sound before a step and that only their holder changed, to
\* sound ones, keep the invariant.
LEMMA StoredRows ==
    ASSUME TypeOK, RowInv, NEW r \in Reqs, req' = [req EXCEPT ![r] = NoReq],
           stock' = [x \in Rows |-> stock'[x]],
           \A x \in Rows : stock'[x] = stock[x] \/ (x \in Held(r) /\ Sound(stock'[x]))
    PROVE  stock' \in [Rows -> StockRow] /\ RowInv'
<1>1. req \in [Reqs -> Request] /\ stock \in [Rows -> StockRow]
    BY DEF TypeOK
<1>2. /\ req'[r].held = {} /\ req'[r].seen = [x \in Rows |-> NoRow]
      /\ \A q \in Reqs : q # r => req'[q] = req[q]
    BY <1>1 DEF NoReq
<1>3. \A q \in Reqs : Held(q) \subseteq Rows
    BY <1>1 DEF Held, Request, RequestRow
<1>4. \A q \in Reqs : q # r => \A x \in Held(q) : x \in Rows /\ x \notin Held(r)
    BY <1>3 DEF RowInv, RowsExclusive
<1>5. SeenIsCurrent'
    BY <1>2, <1>4 DEF RowInv, SeenIsCurrent, Held
<1>6. UnseenIsEmpty'
    BY <1>2 DEF RowInv, UnseenIsEmpty, Held
<1>7. RowsExclusive'
    BY <1>2 DEF RowInv, RowsExclusive, Held
<1>8. ASSUME NEW x \in Rows
      PROVE  Sound(stock'[x])
    BY <1>1 DEF RowInv, StockArithmetic, Sound
<1>9. StockArithmetic'
    BY <1>8 DEF StockArithmetic, Sound, StockRow
<1> QED
    BY <1>5, <1>6, <1>7, <1>8, <1>9 DEF RowInv, Sound

\* An allocation promises what its rows have available.
LEMMA ReservedRows ==
    ASSUME TypeOK, RowInv, NEW r \in Reqs, req' = [req EXCEPT ![r] = NoReq],
           NEW move, NEW t \in Takes(r, move, SeenAvailable(r)), Store(r, t, ReserveIn)
    PROVE  stock' \in [Rows -> StockRow] /\ RowInv'
<1>1. ASSUME NEW x \in Rows, stock'[x] # stock[x]
      PROVE  x \in Held(r) /\ Sound(stock'[x])
  <2>1. x \in Held(r) /\ stock'[x] = ReserveIn(stock[x], req[r].seen[x], t[x])
      BY <1>1 DEF Store
  <2>2. req[r].seen[x] = stock[x]
      BY <2>1 DEF RowInv, SeenIsCurrent
  <2>3. t[x] \in Nat /\ t[x] <= stock[x].available
      BY <2>2, FulfilmentAssumption DEF Takes, SeenAvailable, Quantity
  <2>4. /\ stock[x] \in StockRow
        /\ stock[x].reserved <= stock[x].onHand
        /\ stock[x].available = stock[x].onHand - stock[x].reserved
      BY DEF TypeOK, RowInv, StockArithmetic
  <2>5. /\ stock[x].onHand \in Nat /\ stock[x].reserved \in Nat
        /\ stock[x].available \in Nat
      BY <2>4 DEF StockRow
  <2>6. stock'[x] = [onHand |-> stock[x].onHand, reserved |-> stock[x].reserved + t[x],
                     available |-> stock[x].available - t[x]]
      BY <2>1, <2>2, <2>4 DEF ReserveIn, StockRow
  <2> QED
      BY <2>1, <2>3, <2>4, <2>5, <2>6 DEF Sound, StockRow
<1>2. stock' = [x \in Rows |-> stock'[x]]
    BY DEF Store
<1> QED
    BY <1>1, <1>2, StoredRows

\* A cancellation takes back what its rows have reserved.
LEMMA ReleasedRows ==
    ASSUME TypeOK, RowInv, NEW r \in Reqs, req' = [req EXCEPT ![r] = NoReq],
           NEW move, NEW t \in Takes(r, move, SeenReserved(r)), Store(r, t, ReleaseIn)
    PROVE  stock' \in [Rows -> StockRow] /\ RowInv'
<1>1. ASSUME NEW x \in Rows, stock'[x] # stock[x]
      PROVE  x \in Held(r) /\ Sound(stock'[x])
  <2>1. x \in Held(r) /\ stock'[x] = ReleaseIn(stock[x], req[r].seen[x], t[x])
      BY <1>1 DEF Store
  <2>2. req[r].seen[x] = stock[x]
      BY <2>1 DEF RowInv, SeenIsCurrent
  <2>3. t[x] \in Nat /\ t[x] <= stock[x].reserved
      BY <2>2, FulfilmentAssumption DEF Takes, SeenReserved, Quantity
  <2>4. /\ stock[x] \in StockRow
        /\ stock[x].reserved <= stock[x].onHand
        /\ stock[x].available = stock[x].onHand - stock[x].reserved
      BY DEF TypeOK, RowInv, StockArithmetic
  <2>5. /\ stock[x].onHand \in Nat /\ stock[x].reserved \in Nat
        /\ stock[x].available \in Nat
      BY <2>4 DEF StockRow
  <2>6. stock'[x] = [onHand |-> stock[x].onHand, reserved |-> stock[x].reserved - t[x],
                     available |-> stock[x].onHand - (stock[x].reserved - t[x])]
      BY <2>1, <2>2, <2>4 DEF ReleaseIn, StockRow
  <2>7. /\ stock[x].reserved - t[x] \in Nat
        /\ stock[x].reserved - t[x] <= stock[x].onHand
        /\ stock[x].onHand - (stock[x].reserved - t[x]) \in Nat
      BY <2>3, <2>4, <2>5
  <2> QED
      BY <2>1, <2>5, <2>6, <2>7 DEF Sound, StockRow
<1>2. stock' = [x \in Rows |-> stock'[x]]
    BY DEF Store
<1> QED
    BY <1>1, <1>2, StoredRows

\* A dispatch takes what its rows hold, reserved goods first.
LEMMA IssuedRows ==
    ASSUME TypeOK, RowInv, NEW r \in Reqs, req' = [req EXCEPT ![r] = NoReq],
           NEW move, NEW t \in Takes(r, move, SeenOnHand(r)), Store(r, t, IssueFrom)
    PROVE  stock' \in [Rows -> StockRow] /\ RowInv'
<1>1. ASSUME NEW x \in Rows, stock'[x] # stock[x]
      PROVE  x \in Held(r) /\ Sound(stock'[x])
  <2>1. x \in Held(r) /\ stock'[x] = IssueFrom(stock[x], req[r].seen[x], t[x])
      BY <1>1 DEF Store
  <2>2. req[r].seen[x] = stock[x]
      BY <2>1 DEF RowInv, SeenIsCurrent
  <2>3. t[x] \in Nat /\ t[x] <= stock[x].onHand
      BY <2>2, FulfilmentAssumption DEF Takes, SeenOnHand, Quantity
  <2>4. /\ stock[x] \in StockRow
        /\ stock[x].reserved <= stock[x].onHand
        /\ stock[x].available = stock[x].onHand - stock[x].reserved
      BY DEF TypeOK, RowInv, StockArithmetic
  <2>5. /\ stock[x].onHand \in Nat /\ stock[x].reserved \in Nat
        /\ stock[x].available \in Nat
      BY <2>4 DEF StockRow
  <2> DEFINE kept == IF stock[x].reserved > t[x] THEN stock[x].reserved - t[x] ELSE 0
             left == stock[x].onHand - t[x]
  <2>6. stock'[x] = [onHand |-> left, reserved |-> kept, available |-> left - kept]
      BY <2>1, <2>2 DEF IssueFrom
  <2>7. left \in Nat /\ kept \in Nat /\ kept <= left /\ left - kept \in Nat
      BY <2>3, <2>4, <2>5
  <2> HIDE DEF kept, left
  <2> QED
      BY <2>1, <2>6, <2>7 DEF Sound, StockRow
<1>2. stock' = [x \in Rows |-> stock'[x]]
    BY DEF Store
<1> QED
    BY <1>1, <1>2, StoredRows

-----------------------------------------------------------------------------
(* The order a request has locked: it alone decides what its lines hold. *)

\* A request that has locked its order may change what its lines hold and what
\* its status says, within the bounds, without disturbing any other request.
LEMMA OwnOrder ==
    ASSUME TypeOK, OrderInv, NEW r \in Reqs, Decided(r), req' = [req EXCEPT ![r] = NoReq],
           NEW o, o = req[r].order,
           \A l \in Lines : OrderOf[l] # o => allocated'[l] = allocated[l],
           \A l \in Lines : allocated'[l] <= Ordered[l],
           \A p \in Orders : p # o => status'[p] = status[p],
           \/ \A l \in LinesOf(o) : allocated'[l] = Ordered[l]
           \/ /\ o \in Orders => status'[o] # "allocated"
              /\ \/ \A l \in LinesOf(o) : allocated'[l] = 0
                 \/ allocated' = allocated
    PROVE  OrderInv'
<1>1. req \in [Reqs -> Request]
    BY DEF TypeOK
<1>2. /\ req'[r].pc # "rows"
      /\ \A q \in Reqs : q # r => req'[q] = req[q]
    BY <1>1 DEF NoReq
<1>3. \A q \in Reqs : Decided(q)' => Decided(q) /\ req'[q] = req[q] /\ req[q].order # o
    BY <1>2 DEF Decided, OrderInv, OrdersExclusive
<1>4. \A p : p # o => Need(p)' = Need(p)
    BY DEF Need
<1>5. NeedIsCurrent'
    BY <1>3, <1>4 DEF OrderInv, NeedIsCurrent
<1>6. CancelsOwnLines' /\ CancelsWholeOrder'
  <2>1. CancelsOwnLines'
      BY <1>3 DEF OrderInv, CancelsOwnLines
  <2>2. \A p : p # o => \A l \in LinesOf(p) : allocated'[l] = allocated[l]
      BY DEF LinesOf
  <2>3. CancelsWholeOrder'
      BY <1>3, <2>2 DEF OrderInv, CancelsWholeOrder, LinesOf
  <2> QED
      BY <2>1, <2>3
<1>7. OrdersExclusive'
    BY <1>3 DEF OrderInv, OrdersExclusive
<1>8. AllocationsBounded'
    BY DEF AllocationsBounded
<1>9. AllocatedMeansAll'
  <2>1. ASSUME NEW p \in Orders, p # o
        PROVE  /\ \A l \in LinesOf(p) : allocated'[l] = allocated[l]
               /\ status'[p] = status[p]
      BY <2>1 DEF LinesOf
  <2>2. AllocatedMeansAll
      BY DEF OrderInv
  <2>3. \A p \in Orders : LinesOf(p)' = LinesOf(p)
      BY DEF LinesOf
  <2> QED
      BY <2>1, <2>2, <2>3 DEF AllocatedMeansAll
<1> QED
    BY <1>5, <1>6, <1>7, <1>8, <1>9 DEF OrderInv

\* An allocation gives every line all it ordered and keeps the invariant.
LEMMA AllocateInv ==
    ASSUME IInv, NEW r \in Reqs, Allocate(r)
    PROVE  IInv'
<1> DEFINE o == req[r].order
<1>1. /\ TypeOK /\ RowInv /\ OrderInv
      /\ status \in [Orders -> SOStatus] /\ allocated \in [Lines -> Quantity]
    BY DEF IInv, TypeOK
<1>2. /\ req[r].op = "allocate" /\ Decided(r) /\ req' = [req EXCEPT ![r] = NoReq]
      /\ shipped' = shipped /\ ship' = ship
      /\ allocated' = [l \in Lines |-> IF l \in LinesOf(o) /\ req[r].qty[l] > 0
                                       THEN Ordered[l] ELSE allocated[l]]
      /\ status' = [status EXCEPT ![o] = "allocated"]
    BY DEF Allocate, Ready, Decided, Finish
<1>3. PICK m \in LastLineOnly(r) : \E t \in Takes(r, m, SeenAvailable(r)) : Store(r, t, ReserveIn)
    BY DEF Allocate
<1>4. stock' \in [Rows -> StockRow] /\ RowInv'
    BY <1>1, <1>2, <1>3, ReservedRows
<1>5. req[r].qty = Need(o)
    BY <1>1, <1>2 DEF OrderInv, NeedIsCurrent
<1>6. \A l \in LinesOf(o) : allocated'[l] = Ordered[l]
  <2> SUFFICES ASSUME NEW l \in LinesOf(o) PROVE allocated'[l] = Ordered[l]
      OBVIOUS
  <2>1. l \in Lines /\ OrderOf[l] = o
      BY DEF LinesOf
  <2>2. allocated[l] \in Nat /\ Ordered[l] \in Nat /\ allocated[l] <= Ordered[l]
      BY <1>1, <2>1, FulfilmentAssumption DEF Quantity, OrderInv, AllocationsBounded
  <2>3. CASE allocated[l] < Ordered[l]
      BY <1>2, <1>5, <2>1, <2>2, <2>3 DEF Need
  <2>4. CASE allocated[l] = Ordered[l]
      BY <1>2, <2>1, <2>4
  <2> QED
      BY <2>2, <2>3, <2>4
<1>7. \A l \in Lines : OrderOf[l] # o => allocated'[l] = allocated[l]
    BY <1>2 DEF LinesOf
<1>8. \A l \in Lines : allocated'[l] <= Ordered[l]
    BY <1>1, <1>2, FulfilmentAssumption DEF OrderInv, AllocationsBounded
<1>9. OrderInv'
    BY <1>1, <1>2, <1>6, <1>7, <1>8, OwnOrder
<1>10. allocated' \in [Lines -> Quantity]
  <2>1. Ordered \in [Lines -> Quantity]
      BY FulfilmentAssumption DEF Quantity
  <2> QED
      BY <1>1, <1>2, <2>1
<1>11. status' \in [Orders -> SOStatus]
    BY <1>1, <1>2 DEF SOStatus
<1>12. TypeOK'
    BY <1>1, <1>2, <1>4, <1>10, <1>11, NoReqType DEF TypeOK
<1> QED
    BY <1>4, <1>9, <1>12 DEF IInv

\* A cancellation empties only its own lines and keeps the invariant.
LEMMA CancelInv ==
    ASSUME IInv, NEW r \in Reqs, Cancel(r)
    PROVE  IInv'
<1> DEFINE o == req[r].order
<1>1. /\ TypeOK /\ RowInv /\ OrderInv
      /\ status \in [Orders -> SOStatus] /\ allocated \in [Lines -> Quantity]
    BY DEF IInv, TypeOK
<1>2. /\ req[r].op = "cancel" /\ Decided(r) /\ req' = [req EXCEPT ![r] = NoReq]
      /\ shipped' = shipped /\ ship' = ship
      /\ allocated' = [l \in Lines |-> IF req[r].qty[l] > 0 THEN 0 ELSE allocated[l]]
      /\ status' = [status EXCEPT ![o] = "cancelled"]
    BY DEF Cancel, Ready, Decided, Finish
<1>3. PICK m \in LastLineOnly(r) : \E t \in Takes(r, m, SeenReserved(r)) : Store(r, t, ReleaseIn)
    BY DEF Cancel
<1>4. stock' \in [Rows -> StockRow] /\ RowInv'
    BY <1>1, <1>2, <1>3, ReleasedRows
<1>5. \A l \in Lines : req[r].qty[l] > 0 => OrderOf[l] = o
    BY <1>1, <1>2 DEF OrderInv, CancelsOwnLines
<1>6. \A l \in Lines : OrderOf[l] # o => allocated'[l] = allocated[l]
    BY <1>2, <1>5
<1>7. \A l \in Lines : allocated'[l] <= Ordered[l]
    BY <1>1, <1>2, FulfilmentAssumption DEF OrderInv, AllocationsBounded
<1>8. o \in Orders => status'[o] # "allocated"
    BY <1>1, <1>2
<1>13. (\A l \in LinesOf(o) : allocated'[l] = 0) \/ allocated' = allocated
  <2>1. req[r].qty \in [Lines -> Quantity] /\ LinesOf(o) \subseteq Lines
      BY DEF IInv, TypeOK, Request, RequestRow, LinesOf
  <2>2. CASE \A l \in Lines : req[r].qty[l] = 0
      BY <1>1, <1>2, <2>2
  <2>3. CASE \A l \in LinesOf(o) : req[r].qty[l] = allocated[l]
      BY <1>1, <1>2, <2>1, <2>3, FulfilmentAssumption DEF Quantity
  <2> QED
      BY <1>1, <1>2, <2>2, <2>3 DEF OrderInv, CancelsWholeOrder
<1>9. OrderInv'
    BY <1>1, <1>2, <1>6, <1>7, <1>8, <1>13, OwnOrder
<1>10. allocated' \in [Lines -> Quantity]
  <2>1. 0 \in Quantity
      BY FulfilmentAssumption DEF Quantity
  <2> QED
      BY <1>1, <1>2, <2>1
<1>11. status' \in [Orders -> SOStatus]
    BY <1>1, <1>2 DEF SOStatus
<1>12. TypeOK'
    BY <1>1, <1>2, <1>4, <1>10, <1>11, NoReqType DEF TypeOK
<1> QED
    BY <1>4, <1>9, <1>12 DEF IInv

\* A dispatch issues goods it holds and keeps the invariant.
LEMMA DispatchInv ==
    ASSUME IInv, NEW r \in Reqs, Dispatch(r)
    PROVE  IInv'
<1> DEFINE o == req[r].order
           s == req[r].ship
<1>1. /\ TypeOK /\ RowInv /\ OrderInv
      /\ status \in [Orders -> SOStatus] /\ shipped \in [Lines -> Nat]
      /\ ship \in [Shipments -> ShipmentRow] /\ allocated \in [Lines -> Quantity]
      /\ req[r].qty \in [Lines -> Quantity]
    BY DEF IInv, TypeOK, Request, RequestRow
<1>2. /\ Decided(r) /\ req' = [req EXCEPT ![r] = NoReq] /\ allocated' = allocated
      /\ shipped' = [l \in Lines |-> shipped[l] + req[r].qty[l]]
    BY DEF Dispatch, Ready, Decided, Finish, ShippedNow
<1>3. PICK t \in Takes(r, Issued(r), SeenOnHand(r)) : Store(r, t, IssueFrom)
    BY DEF Dispatch, Issuable
<1>4. stock' \in [Rows -> StockRow] /\ RowInv'
    BY <1>1, <1>2, <1>3, IssuedRows
<1>5. PICK outcome \in {"shipped", "picking"} : status' = [status EXCEPT ![o] = outcome]
    BY DEF Dispatch
<1>6. status' \in [Orders -> SOStatus]
    BY <1>1, <1>5 DEF SOStatus
<1>7. o \in Orders => status'[o] # "allocated"
    BY <1>1, <1>5
<1>13. \A p \in Orders : p # o => status'[p] = status[p]
    BY <1>1, <1>5
<1>8. \A l \in Lines : allocated'[l] <= Ordered[l]
    BY <1>1, <1>2 DEF OrderInv, AllocationsBounded
<1>14. \A l \in Lines : OrderOf[l] # o => allocated'[l] = allocated[l]
    BY <1>2
<1>9. OrderInv'
    BY <1>1, <1>2, <1>7, <1>8, <1>13, <1>14, OwnOrder
<1>10. shipped' \in [Lines -> Nat]
    BY <1>1, <1>2, FulfilmentAssumption DEF Quantity
<1>11. ship' \in [Shipments -> ShipmentRow]
  <2> DEFINE x == [ship[s] EXCEPT !.status = "dispatched", !.issues = ship[s].issues + 1]
  <2>1. ship' = [ship EXCEPT ![s] = x]
      BY DEF Dispatch
  <2>2. ASSUME s \in Shipments PROVE x \in ShipmentRow
    <3>1. ship[s] \in ShipmentRow
        BY <1>1, <2>2
    <3>2. ship[s].issues + 1 \in Nat
        BY <3>1 DEF ShipmentRow
    <3> QED
        BY <3>1, <3>2 DEF ShipmentRow
  <2> HIDE DEF x
  <2> QED
      BY <1>1, <2>1, <2>2
<1>12. TypeOK'
    BY <1>1, <1>2, <1>4, <1>6, <1>10, <1>11, NoReqType DEF TypeOK
<1> QED
    BY <1>4, <1>9, <1>12 DEF IInv

-----------------------------------------------------------------------------
\* Every step of every request keeps the invariant.
LEMMA NextInv ==
    ASSUME IInv, [Next]_vars
    PROVE  IInv'
<1>1. CASE UNCHANGED vars
  <2>1. /\ status' = status /\ allocated' = allocated /\ shipped' = shipped
        /\ ship' = ship /\ stock' = stock /\ req' = req
      BY <1>1 DEF vars
  <2>2. TypeOK' /\ RowInv'
      BY <2>1 DEF IInv, TypeOK, RowInv, StockArithmetic, SeenIsCurrent, UnseenIsEmpty,
                  RowsExclusive, Held
  <2>3. \A o : Need(o)' = Need(o)
      BY <2>1 DEF Need
  <2>4. OrderInv'
      BY <2>1, <2>3 DEF IInv, OrderInv, NeedIsCurrent, CancelsOwnLines, CancelsWholeOrder,
                        OrdersExclusive, LinesOf, AllocationsBounded, AllocatedMeansAll, Decided
  <2> QED
      BY <2>2, <2>4 DEF IInv
<1>2. ASSUME NEW r \in Reqs, Start(r) \/ Proceed(r) \/ Abort(r)
      PROVE  IInv'
  <2>1. CASE Start(r)
      BY <2>1, StartsInv
  <2>2. CASE ConfirmWrite(r) \/ CreateShipment(r) \/ StartPicking(r) \/ Deliver(r)
             \/ PickCommit(r) \/ Invoice(r)
      BY <2>2, WritesInv
  <2>3. CASE DeliverInsert(r) \/ PickFlush(r) \/ Insufficient(r) \/ InvoiceInsert(r)
             \/ Abort(r)
      BY <2>3, QuietInv
  <2>4. CASE LockShipment(r)
      BY <2>4, LockShipmentInv
  <2>5. CASE LockOrder(r)
      BY <2>5, LockOrderInv
  <2>6. CASE \E x \in Rows : LockRow(r, x)
      BY <2>6, LockRowInv
  <2>7. CASE Allocate(r) \/ Cancel(r) \/ Dispatch(r)
      BY <2>7, AllocateInv, CancelInv, DispatchInv
  <2> QED
      BY <1>2, <2>1, <2>2, <2>3, <2>4, <2>5, <2>6, <2>7 DEF Proceed
<1> QED
    BY <1>1, <1>2 DEF Next

\* The invariant of the locks holds in every state: what a request read of a
\* stock row it holds is still true when it writes the row, and what it
\* computed for an order under its lock is still what the order needs.
THEOREM InductiveInvariant == Spec => []IInv
<1>1. Init => IInv
    BY InitInv
<1>2. IInv /\ [Next]_vars => IInv'
    BY NextInv
<1> QED
    BY <1>1, <1>2, PTL DEF Spec

\* Orders, shipments, stock rows and requests keep their declared shape.
THEOREM FulfilmentTypeCorrect == Spec => []TypeOK
<1>1. IInv => TypeOK
    BY DEF IInv
<1> QED
    BY <1>1, InductiveInvariant, PTL

\* However many allocations, cancellations and dispatches overlap, over
\* however many rows: no stock row promises more than it holds, and available
\* is on hand less reserved.
THEOREM StockNeverOversold == Spec => []StockArithmetic
<1>1. IInv => StockArithmetic
    BY DEF IInv, RowInv
<1> QED
    BY <1>1, InductiveInvariant, PTL

\* The lines of an order hold all they ordered or nothing, and all of it while
\* the order is called allocated, whatever other requests about the order and
\* about the same goods run meanwhile.
THEOREM AllocatedOrdersHoldAll == Spec => []AllocatedMeansAll
<1>1. IInv => AllocatedMeansAll
    BY DEF IInv, OrderInv
<1> QED
    BY <1>1, InductiveInvariant, PTL

-----------------------------------------------------------------------------
(* Shipped orders. An invoice writes the status it derived from the order  *)
(* it loaded before any lock; the argument is that goods shipped stay      *)
(* shipped, so an order once seen complete is complete.                    *)

FullyShipped(o) == \A l \in LinesOf(o) : shipped[l] >= Ordered[l]
SawFullyShipped == \A r \in Reqs : req[r].saw => FullyShipped(req[r].order)
ShippedInv == ShippedMeansAllShipped /\ SawFullyShipped

\* A step that takes no shipped goods back, calls no incomplete order shipped
\* and lets nobody see one as shipped keeps the invariant on shipped orders.
LEMMA ShippedKept ==
    ASSUME TypeOK, TypeOK', ShippedInv, NEW r \in Reqs, NEW y,
           req' = [req EXCEPT ![r] = y],
           \A l \in Lines : shipped'[l] >= shipped[l],
           \A o \in Orders : status'[o] \in {"shipped", "invoiced"} =>
                                status[o] \in {"shipped", "invoiced"} \/ FullyShipped(o)',
           y.saw => FullyShipped(y.order)
    PROVE  ShippedInv'
<1> USE FulfilmentAssumption
<1>0. /\ req \in [Reqs -> Request]
      /\ shipped \in [Lines -> Nat] /\ shipped' \in [Lines -> Nat]
      /\ Ordered \in [Lines -> Nat]
    BY DEF TypeOK
<1>1. ASSUME NEW o, FullyShipped(o)
      PROVE  FullyShipped(o)'
    BY <1>0, <1>1 DEF FullyShipped, LinesOf
<1>2. ShippedMeansAllShipped'
    BY <1>1 DEF ShippedInv, ShippedMeansAllShipped, FullyShipped, LinesOf
<1>3. ASSUME NEW q \in Reqs, req'[q].saw
      PROVE  FullyShipped(req[q].order)'
  <2>1. CASE q = r
    <3>1. req'[q] = y
        BY <1>0, <2>1
    <3> QED
        BY <1>0, <1>3, <3>1 DEF FullyShipped, LinesOf
  <2>2. CASE q # r
    <3>1. req'[q] = req[q]
        BY <1>0, <2>2
    <3>2. FullyShipped(req[q].order)
        BY <1>3, <3>1 DEF ShippedInv, SawFullyShipped
    <3> QED
        BY <1>0, <3>1, <3>2 DEF FullyShipped, LinesOf
  <2> QED
      BY <2>1, <2>2
<1> QED
    BY <1>2, <1>3 DEF ShippedInv, SawFullyShipped

\* A step that leaves orders alone, by a request that sees what it saw of the
\* same order, or nothing.
LEMMA ShippedQuiet ==
    ASSUME TypeOK, TypeOK', ShippedInv, NEW r \in Reqs, NEW y,
           req' = [req EXCEPT ![r] = y], shipped' = shipped, status' = status,
           ~y.saw \/ (y.saw = req[r].saw /\ y.order = req[r].order)
    PROVE  ShippedInv'
<1>1. \A l \in Lines : shipped'[l] >= shipped[l]
    BY DEF TypeOK
<1>2. y.saw => FullyShipped(y.order)
    BY DEF ShippedInv, SawFullyShipped
<1> QED
    BY <1>1, <1>2, ShippedKept

\* Starting a call: only an invoice looks at what its order is, and what it
\* sees is so.
LEMMA ShippedStart ==
    ASSUME TypeOK, TypeOK', ShippedInv, NEW r \in Reqs, Start(r)
    PROVE  ShippedInv'
<1>0. req \in [Reqs -> Request] /\ status \in [Orders -> SOStatus] /\ ship \in [Shipments -> ShipmentRow]
    BY DEF TypeOK
<1>1. ~NoReq.saw
    BY DEF NoReq
<1>2. ASSUME NEW op, NEW pc, NEW o, NEW s, Call(r, op, pc, o, s)
      PROVE  ShippedInv'
  <2> DEFINE y == [req[r] EXCEPT !.op = op, !.pc = pc, !.order = o, !.ship = s]
  <2>1. req' = [req EXCEPT ![r] = y] /\ shipped' = shipped /\ status' = status
      BY <1>2 DEF Call, Move, orders
  <2>2. ~y.saw
      BY <1>1, <1>2 DEF Call, NoReq
  <2> HIDE DEF y
  <2> QED
      BY <2>1, <2>2, ShippedQuiet
<1>3. ASSUME NEW s \in Shipments, InvoiceStart(r, s)
      PROVE  ShippedInv'
  <2> DEFINE o == ship[s].order
             y == [req[r] EXCEPT !.op = "invoice", !.pc = "insert", !.ship = s,
                                 !.order = o, !.saw = status[o] = "shipped"]
  <2>1. req' = [req EXCEPT ![r] = y] /\ shipped' = shipped /\ status' = status
      BY <1>3 DEF InvoiceStart, Move, orders
  <2>2. y.order = o /\ y.saw = (status[o] = "shipped")
      BY <1>0 DEF Request, RequestRow
  <2> HIDE DEF y
  <2>3. o \in Orders \cup {None}
      BY <1>0 DEF ShipmentRow
  <2>4. y.saw => FullyShipped(o)
    <3>1. CASE o \in Orders
        BY <2>2, <3>1 DEF ShippedInv, ShippedMeansAllShipped, FullyShipped
    <3>2. CASE o = None
        BY <3>2, FulfilmentAssumption DEF FullyShipped, LinesOf
    <3> QED
        BY <2>3, <3>1, <3>2
  <2>5. \A l \in Lines : shipped'[l] >= shipped[l]
      BY <2>1 DEF TypeOK
  <2> QED
      BY <2>1, <2>2, <2>4, <2>5, ShippedKept
<1>4. ASSUME NEW s \in Shipments, NEW l \in Lines, PickStart(r, s, l)
      PROVE  ShippedInv'
  <2> DEFINE y == [req[r] EXCEPT !.op = "pick", !.pc = "line", !.ship = s, !.line = l]
  <2>1. req' = [req EXCEPT ![r] = y] /\ shipped' = shipped /\ status' = status
      BY <1>4 DEF PickStart, Move, orders
  <2>2. ~y.saw
      BY <1>1, <1>4 DEF PickStart, NoReq
  <2> HIDE DEF y
  <2> QED
      BY <2>1, <2>2, ShippedQuiet
<1> QED
    BY <1>2, <1>3, <1>4 DEF Start, ConfirmStart, CreateStart, AllocateStart, CancelStart,
       StartPickingStart, DeliverStart, DispatchStart

\* A commit that leaves shipped quantities alone.
LEMMA ShippedFinish ==
    ASSUME TypeOK, TypeOK', ShippedInv, NEW r \in Reqs, Finish(r), shipped' = shipped,
           \A o \in Orders : status'[o] \in {"shipped", "invoiced"} =>
                                status[o] \in {"shipped", "invoiced"} \/ FullyShipped(o)
    PROVE  ShippedInv'
<1>1. ~NoReq.saw
    BY DEF NoReq
<1>2. \A l \in Lines : shipped'[l] >= shipped[l]
    BY DEF TypeOK
<1>3. \A o : FullyShipped(o)' <=> FullyShipped(o)
    BY DEF FullyShipped, LinesOf
<1> QED
    BY <1>1, <1>2, <1>3, ShippedKept DEF Finish

\* Steps that only move a request on, or end it without a commit.
LEMMA ShippedMoves ==
    ASSUME TypeOK, TypeOK', ShippedInv, NEW r \in Reqs,
           \/ DeliverInsert(r) \/ PickFlush(r) \/ LockShipment(r) \/ LockOrder(r)
           \/ (\E x \in Rows : LockRow(r, x)) \/ Insufficient(r) \/ InvoiceInsert(r) \/ Abort(r)
    PROVE  ShippedInv'
<1>0. req[r] \in RequestRow
    BY DEF TypeOK, Request
<1>1. ASSUME NEW y, Move(r, y), ~y.saw \/ (y.saw = req[r].saw /\ y.order = req[r].order)
      PROVE  ShippedInv'
    BY <1>1, ShippedQuiet DEF Move, orders
<1>2. CASE Reject(r)
  <2>1. ~NoReq.saw
      BY DEF NoReq
  <2> QED
      BY <1>1, <1>2, <2>1 DEF Reject
<1>3. ASSUME NEW pc, Move(r, [req[r] EXCEPT !.pc = pc])
      PROVE  ShippedInv'
    BY <1>0, <1>1, <1>3 DEF RequestRow
<1>4. ASSUME NEW q, NEW pc, Move(r, [req[r] EXCEPT !.qty = q, !.pc = pc])
      PROVE  ShippedInv'
    BY <1>0, <1>1, <1>4 DEF RequestRow
<1>5. ASSUME NEW x \in Rows, LockRow(r, x)
      PROVE  ShippedInv'
  <2> DEFINE y == [req[r] EXCEPT !.held = @ \cup {x}, !.seen[x] = stock[x]]
  <2>1. Move(r, y)
      BY <1>5 DEF LockRow
  <2>2. y.saw = req[r].saw /\ y.order = req[r].order
      BY <1>0 DEF RequestRow
  <2> HIDE DEF y
  <2> QED
      BY <1>1, <2>1, <2>2
<1>6. CASE LockOrder(r)
    BY <1>2, <1>4, <1>6 DEF LockOrder, Enter
<1>7. CASE LockShipment(r)
    BY <1>2, <1>4, <1>7 DEF LockShipment
<1> QED
    BY <1>2, <1>3, <1>5, <1>6, <1>7 DEF DeliverInsert, PickFlush, Insufficient, InvoiceInsert, Abort

\* Commits that change no shipped quantity. An invoice calls the order
\* invoiced only if it saw it shipped.
LEMMA ShippedWrites ==
    ASSUME TypeOK, TypeOK', ShippedInv, NEW r \in Reqs,
           \/ ConfirmWrite(r) \/ CreateShipment(r) \/ StartPicking(r) \/ Deliver(r)
           \/ PickCommit(r) \/ Allocate(r) \/ Cancel(r) \/ Invoice(r)
    PROVE  ShippedInv'
<1>0. status \in [Orders -> SOStatus]
    BY DEF TypeOK
<1> DEFINE o == req[r].order
<1>1. CASE CreateShipment(r) \/ StartPicking(r) \/ Deliver(r) \/ PickCommit(r)
  <2>1. Finish(r) /\ shipped' = shipped /\ status' = status
      BY <1>1 DEF CreateShipment, StartPicking, Deliver, PickCommit, SetShip, orders
  <2> QED
      BY <2>1, ShippedFinish
<1>2. CASE ConfirmWrite(r) \/ Allocate(r) \/ Cancel(r)
  <2>1. /\ Finish(r) /\ shipped' = shipped
        /\ \/ status' = [status EXCEPT ![o] = "confirmed"]
           \/ status' = [status EXCEPT ![o] = "allocated"]
           \/ status' = [status EXCEPT ![o] = "cancelled"]
      BY <1>2 DEF ConfirmWrite, Allocate, Cancel
  <2>2. \A i \in Orders : status'[i] \in {"shipped", "invoiced"} =>
                              status[i] \in {"shipped", "invoiced"}
      BY <1>0, <2>1
  <2> QED
      BY <2>1, <2>2, ShippedFinish
<1>3. CASE Invoice(r)
  <2>1. Finish(r) /\ shipped' = shipped /\ status' = [status EXCEPT ![o] = Billed(r)]
      BY <1>3 DEF Invoice
  <2>2. \A i \in Orders : status'[i] = IF i = o THEN Billed(r) ELSE status[i]
      BY <1>0, <2>1
  <2>3. req[r].saw => FullyShipped(o)
      BY DEF ShippedInv, SawFullyShipped
  <2>4. \A i \in Orders : status'[i] \in {"shipped", "invoiced"} =>
                              status[i] \in {"shipped", "invoiced"} \/ FullyShipped(i)
      BY <2>2, <2>3 DEF Billed
  <2> QED
      BY <2>1, <2>4, ShippedFinish
<1> QED
    BY <1>1, <1>2, <1>3

\* A dispatch adds to what is shipped, and calls the order shipped only when
\* that completes every line.
LEMMA ShippedDispatch ==
    ASSUME TypeOK, TypeOK', ShippedInv, NEW r \in Reqs, Dispatch(r)
    PROVE  ShippedInv'
<1> DEFINE o == req[r].order
<1>0. /\ status \in [Orders -> SOStatus] /\ req[r] \in RequestRow
      /\ shipped \in [Lines -> Nat] /\ MaxQty \in Nat
    BY FulfilmentAssumption DEF TypeOK, Request
<1>1. \A l \in Lines : shipped'[l] >= shipped[l]
    BY <1>0 DEF Dispatch, ShippedNow, RequestRow, Quantity
<1>2. ASSUME NEW i \in Orders, status'[i] \in {"shipped", "invoiced"}
      PROVE  status[i] \in {"shipped", "invoiced"} \/ FullyShipped(i)'
  <2>1. PICK st \in {"shipped", "picking"} :
            Judges(o, st) /\ status' = [status EXCEPT ![o] = st]
      BY DEF Dispatch
  <2>2. CASE i = o
    <3>1. \A l \in LinesOf(i) : shipped'[l] >= Ordered[l]
        BY <1>0, <1>2, <2>1, <2>2 DEF Judges
    <3> QED
        BY <3>1 DEF FullyShipped, LinesOf
  <2>3. CASE i # o
      BY <1>0, <1>2, <2>1, <2>3
  <2> QED
      BY <2>2, <2>3
<1>3. ~NoReq.saw
    BY DEF NoReq
<1> QED
    BY <1>1, <1>2, <1>3, ShippedKept DEF Dispatch, Finish

\* Every step keeps what is called shipped complete.
LEMMA ShippedNext ==
    ASSUME TypeOK, TypeOK', ShippedInv, [Next]_vars
    PROVE  ShippedInv'
<1>1. CASE UNCHANGED vars
    BY <1>1 DEF vars, ShippedInv, ShippedMeansAllShipped, SawFullyShipped, FullyShipped, LinesOf
<1>2. ASSUME NEW r \in Reqs, Start(r) \/ Proceed(r) \/ Abort(r)
      PROVE  ShippedInv'
    BY <1>2, ShippedStart, ShippedMoves, ShippedWrites, ShippedDispatch DEF Proceed
<1> QED
    BY <1>1, <1>2 DEF Next

\* An order that is called shipped or invoiced has every line issued in full,
\* although statuses are written from what was loaded before any lock.
THEOREM ShippedOrdersAreComplete == Spec => []ShippedMeansAllShipped
<1>1. Init => ShippedInv
  <2>1. ASSUME Init PROVE \A r \in Reqs : ~req[r].saw
      BY <2>1 DEF Init, NoReq
  <2>2. ASSUME Init PROVE ShippedMeansAllShipped
      BY <2>2 DEF Init, ShippedMeansAllShipped
  <2> QED
      BY <2>1, <2>2 DEF ShippedInv, SawFullyShipped
<1>2. TypeOK /\ TypeOK' /\ ShippedInv /\ [Next]_vars => ShippedInv'
    BY ShippedNext
<1>3. ShippedInv => ShippedMeansAllShipped
    BY DEF ShippedInv
<1> QED
    BY <1>1, <1>2, <1>3, FulfilmentTypeCorrect, PTL DEF Spec

-----------------------------------------------------------------------------
(* Shipments dispatched twice. A run shows that a late start of picking    *)
(* puts a dispatched shipment back; what follows shows that nothing else   *)
(* does, although packing and delivering also write a status over one that *)
(* was read a step earlier.                                                *)

\* A start of picking that finds the status it checked still there. The code
\* checks it once and then writes whatever the shipment has become.
StartsHitPending == \A r \in Reqs : StartPicking(r) => ship[req[r].ship].status = "pending"

Open == {"pending", "picking", "packed"}
Gone == {"dispatched", "delivered"}

\* What a request x relies on when it writes a shipment. A dispatch from its
\* lock on, a delivery from its insert on; a pick may find the shipment packed.
Dispatching(x) == x.op = "dispatch" /\ x.pc \in {"order", "rows"}
Delivering(x) == x.op = "deliver" /\ x.pc = "write"
Relies(x) ==
    /\ Dispatching(x) => ship[x.ship].status \in Open
    /\ x.pc = "pack" => ship[x.ship].status \in {"picking", "packed"}
    /\ Delivering(x) => ship[x.ship].status \in Gone
NamesShipment(x) ==
    x.op \in {"start", "deliver", "dispatch"} \/ x.pc \in {"line", "pick", "pack"} => x.ship \in Shipments

IssuedWhenGone == \A s \in Shipments : ship[s].issues = IF ship[s].status \in Gone THEN 1 ELSE 0
OneDispatcher == \A q, r \in Reqs :
    q # r /\ Dispatching(req[q]) /\ Dispatching(req[r]) => req[q].ship # req[r].ship
OnceInv == /\ IssuedWhenGone /\ OneDispatcher
           /\ \A r \in Reqs : NamesShipment(req[r]) /\ Relies(req[r])

\* A request that goes on to y while no shipment changes.
LEMMA OnceMove ==
    ASSUME TypeOK, OnceInv, NEW r \in Reqs, NEW y, req' = [req EXCEPT ![r] = y], ship' = ship,
           NamesShipment(y), Relies(y),
           Dispatching(y) => \A q \in Reqs \ {r} : Dispatching(req[q]) => req[q].ship # y.ship
    PROVE  OnceInv'
<1>1. \A q \in Reqs : req'[q] = IF q = r THEN y ELSE req[q]
  BY DEF TypeOK
<1>2. IssuedWhenGone'
  BY DEF OnceInv, IssuedWhenGone
<1>3. OneDispatcher'
  BY <1>1 DEF OnceInv, OneDispatcher
<1>4. ASSUME NEW q \in Reqs PROVE (NamesShipment(req[q]) /\ Relies(req[q]))'
  <2>1. CASE q = r
    BY <1>1, <2>1 DEF NamesShipment, Relies, Dispatching, Delivering
  <2>2. CASE q # r
    BY <1>1, <2>2 DEF OnceInv, NamesShipment, Relies, Dispatching, Delivering
  <2> QED
    BY <2>1, <2>2
<1> QED
  BY <1>2, <1>3, <1>4 DEF OnceInv

\* A request that ends, having written shipment s or nothing, where the new
\* row suits the others that rely on the shipment.
LEMMA OnceWrite ==
    ASSUME TypeOK, OnceInv, NEW r \in Reqs, Finish(r),
           NEW s \in Shipments, NEW z, ship' = [ship EXCEPT ![s] = z],
           z.issues = IF z.status \in Gone THEN 1 ELSE 0,
           \A q \in Reqs \ {r} : req[q].ship = s =>
               /\ Dispatching(req[q]) => z.status \in Open
               /\ req[q].pc = "pack" => z.status \in {"picking", "packed"}
               /\ Delivering(req[q]) => z.status \in Gone
    PROVE  OnceInv'
<1>1. \A q \in Reqs : req'[q] = IF q = r THEN NoReq ELSE req[q]
  BY DEF TypeOK, Finish
<1>2. \A i \in Shipments : ship'[i] = IF i = s THEN z ELSE ship[i]
  BY DEF TypeOK
<1>3. NoReq.op = "none" /\ NoReq.pc = "idle"
  BY DEF NoReq
<1>4. IssuedWhenGone'
  BY <1>2 DEF OnceInv, IssuedWhenGone
<1>5. OneDispatcher'
  BY <1>1, <1>3 DEF OnceInv, OneDispatcher, Dispatching
<1>6. ASSUME NEW q \in Reqs PROVE (NamesShipment(req[q]) /\ Relies(req[q]))'
  <2>1. CASE q = r
    BY <1>1, <1>3, <2>1 DEF NamesShipment, Relies, Dispatching, Delivering
  <2>2. CASE q # r
    <3>1. NamesShipment(req[q]) /\ Relies(req[q]) /\ req'[q] = req[q]
      BY <1>1, <2>2 DEF OnceInv
    <3>2. req[q].ship \in Shipments => ship'[req[q].ship] = IF req[q].ship = s THEN z ELSE ship[req[q].ship]
      BY <1>2
    <3>3. NamesShipment(req[q])'
      BY <3>1 DEF NamesShipment
    <3>4. Relies(req[q])'
      BY <2>2, <3>1, <3>2 DEF NamesShipment, Relies, Dispatching, Delivering
    <3> QED
      BY <3>3, <3>4
  <2> QED
    BY <2>1, <2>2
<1> QED
  BY <1>4, <1>5, <1>6 DEF OnceInv

\* A request that starts relies on nothing yet.
LEMMA OnceStart ==
    ASSUME TypeOK, OnceInv, NEW r \in Reqs, Start(r)
    PROVE  OnceInv'
<1>0. req[r] \in RequestRow
  BY DEF TypeOK, Request
<1>1. ASSUME NEW op, NEW pc, NEW o, NEW s, Call(r, op, pc, o, s),
             pc \in {"write", "insert", "order", "ship"},
             op \in {"start", "deliver", "dispatch"} => s \in Shipments,
             op = "deliver" => pc = "insert", op = "dispatch" => pc = "ship"
      PROVE  OnceInv'
  <2> DEFINE y == [req[r] EXCEPT !.op = op, !.pc = pc, !.order = o, !.ship = s]
  <2>1. y.op = op /\ y.pc = pc /\ y.ship = s
    BY <1>0 DEF RequestRow
  <2>2. NamesShipment(y) /\ Relies(y) /\ ~Dispatching(y)
    BY <1>1, <2>1 DEF NamesShipment, Relies, Dispatching, Delivering
  <2>3. req' = [req EXCEPT ![r] = y] /\ ship' = ship
    BY <1>1 DEF Call, Move
  <2> QED
    BY <2>2, <2>3, OnceMove
<1>2. ASSUME NEW s \in Shipments, NEW l, PickStart(r, s, l)
      PROVE  OnceInv'
  <2> DEFINE y == [req[r] EXCEPT !.op = "pick", !.pc = "line", !.ship = s, !.line = l]
  <2>1. y.op = "pick" /\ y.pc = "line" /\ y.ship = s
    BY <1>0 DEF RequestRow
  <2>2. NamesShipment(y) /\ Relies(y) /\ ~Dispatching(y)
    BY <2>1 DEF NamesShipment, Relies, Dispatching, Delivering
  <2>3. req' = [req EXCEPT ![r] = y] /\ ship' = ship
    BY <1>2 DEF PickStart, Move
  <2> QED
    BY <2>2, <2>3, OnceMove
<1>3. ASSUME NEW s \in Shipments, InvoiceStart(r, s)
      PROVE  OnceInv'
  <2> DEFINE y == [req[r] EXCEPT !.op = "invoice", !.pc = "insert", !.ship = s,
                                 !.order = ship[s].order, !.saw = status[ship[s].order] = "shipped"]
  <2>1. y.op = "invoice" /\ y.pc = "insert" /\ y.ship = s
    BY <1>0 DEF RequestRow
  <2>2. NamesShipment(y) /\ Relies(y) /\ ~Dispatching(y)
    BY <2>1 DEF NamesShipment, Relies, Dispatching, Delivering
  <2>3. req' = [req EXCEPT ![r] = y] /\ ship' = ship
    BY <1>3 DEF InvoiceStart, Move
  <2> QED
    BY <2>2, <2>3, OnceMove
<1> QED
  BY <1>1, <1>2, <1>3 DEF Start, ConfirmStart, CreateStart, AllocateStart, CancelStart,
     StartPickingStart, DeliverStart, DispatchStart

\* A request that goes on keeps the shipment it names, and reads the status
\* of the shipment when it begins to rely on it.
LEMMA OnceGoOn ==
    ASSUME TypeOK, OnceInv, NEW r \in Reqs,
           \/ DeliverInsert(r) \/ PickFlush(r) \/ LockShipment(r) \/ LockOrder(r)
           \/ (\E x \in Rows : LockRow(r, x)) \/ InvoiceInsert(r)
    PROVE  OnceInv'
<1>0. req[r] \in Request /\ req[r] \in RequestRow /\ NamesShipment(req[r]) /\ Relies(req[r])
  BY DEF TypeOK, Request, OnceInv
<1>1. ASSUME NEW y, Move(r, y), y.ship = req[r].ship, NamesShipment(y), Relies(y),
             Dispatching(y) => Dispatching(req[r])
      PROVE  OnceInv'
  <2>1. Dispatching(y) => \A q \in Reqs \ {r} : Dispatching(req[q]) => req[q].ship # y.ship
    BY <1>1 DEF OnceInv, OneDispatcher
  <2>2. req' = [req EXCEPT ![r] = y] /\ ship' = ship
    BY <1>1 DEF Move
  <2> QED
    BY <1>1, <2>1, <2>2, OnceMove
<1>2. ASSUME Reject(r) PROVE OnceInv'
  <2>1. NamesShipment(NoReq) /\ Relies(NoReq) /\ ~Dispatching(NoReq)
    BY DEF NoReq, NamesShipment, Relies, Dispatching, Delivering
  <2>2. req' = [req EXCEPT ![r] = NoReq] /\ ship' = ship
    BY <1>2 DEF Reject, Move
  <2> QED
    BY <2>1, <2>2, OnceMove
<1>3. CASE DeliverInsert(r)
  <2> DEFINE y == [req[r] EXCEPT !.pc = "write"]
  <2>1. y.op = req[r].op /\ y.pc = "write" /\ y.ship = req[r].ship
    BY <1>0 DEF RequestRow
  <2>2. CASE ship[req[r].ship].status = "dispatched"
    <3>1. NamesShipment(y) /\ Relies(y) /\ ~Dispatching(y)
      BY <1>0, <1>3, <2>1, <2>2 DEF DeliverInsert, NamesShipment, Relies, Dispatching, Delivering, Gone
    <3> QED
      BY <1>1, <1>3, <2>1, <2>2, <3>1 DEF DeliverInsert
  <2>3. CASE ship[req[r].ship].status # "dispatched"
    BY <1>2, <1>3, <2>3 DEF DeliverInsert
  <2> QED
    BY <2>2, <2>3
<1>4. CASE PickFlush(r)
  <2>1. PICK pc \in {"pick", "pack"} :
          /\ Move(r, [req[r] EXCEPT !.pc = pc])
          /\ pc = "pack" => ship[req[r].ship].status = "picking"
    BY <1>4 DEF PickFlush
  <2> DEFINE y == [req[r] EXCEPT !.pc = pc]
  <2>2. y.op = req[r].op /\ y.pc = pc /\ y.ship = req[r].ship
    BY <1>0 DEF RequestRow
  <2>3. NamesShipment(y) /\ Relies(y) /\ ~Dispatching(y)
    BY <1>0, <1>4, <2>1, <2>2 DEF PickFlush, NamesShipment, Relies, Dispatching, Delivering
  <2> QED
    BY <1>1, <2>1, <2>2, <2>3
<1>5. CASE InvoiceInsert(r)
  <2> DEFINE y == [req[r] EXCEPT !.pc = "bill"]
  <2>1. y.op = "invoice" /\ y.pc = "bill" /\ y.ship = req[r].ship
    BY <1>0, <1>5 DEF RequestRow, InvoiceInsert
  <2>2. NamesShipment(y) /\ Relies(y) /\ ~Dispatching(y)
    BY <2>1 DEF NamesShipment, Relies, Dispatching, Delivering
  <2> QED
    BY <1>1, <1>5, <2>1, <2>2 DEF InvoiceInsert
<1>6. CASE LockShipment(r)
  <2> DEFINE y == [req[r] EXCEPT !.qty = ship[req[r].ship].qty, !.pc = "order"]
  <2>1. y.op = req[r].op /\ y.pc = "order" /\ y.ship = req[r].ship
    BY <1>0 DEF RequestRow
  <2>2. CASE ship[req[r].ship].status \in Open
    <3>1. NamesShipment(y) /\ Relies(y)
      BY <1>0, <2>1, <2>2 DEF NamesShipment, Relies, Dispatching, Delivering
    <3>2. ASSUME NEW q \in Reqs \ {r}, Dispatching(req[q]) PROVE req[q].ship # y.ship
      <4>1. ShipLock(q) = "update"
        BY <3>2 DEF ShipLock, Dispatching
      <4>2. ~Blocks(q, r) /\ req[r].pc = "ship"
        BY <1>6 DEF LockShipment, Free
      <4> QED
        BY <2>1, <4>1, <4>2 DEF Blocks, LocksShipment
    <3>3. req' = [req EXCEPT ![r] = y] /\ ship' = ship
      BY <1>6, <2>2 DEF LockShipment, Move, Open
    <3> HIDE DEF y
    <3> QED
      BY <3>1, <3>2, <3>3, OnceMove
  <2>3. CASE ship[req[r].ship].status \notin Open
    BY <1>2, <1>6, <2>3 DEF LockShipment, Open
  <2> QED
    BY <2>2, <2>3
<1>7. CASE LockOrder(r)
  <2>1. ASSUME NEW q, Move(r, [req[r] EXCEPT !.qty = q, !.pc = "rows"])
        PROVE  OnceInv'
    <3> DEFINE y == [req[r] EXCEPT !.qty = q, !.pc = "rows"]
    <3>1. y.op = req[r].op /\ y.pc = "rows" /\ y.ship = req[r].ship /\ req[r].pc = "order"
      BY <1>0, <1>7 DEF RequestRow, LockOrder
    <3>2. NamesShipment(y) /\ Relies(y) /\ (Dispatching(y) => Dispatching(req[r]))
      BY <1>0, <3>1 DEF NamesShipment, Relies, Dispatching, Delivering
    <3> QED
      BY <1>1, <2>1, <3>1, <3>2
  <2> QED
    BY <1>2, <1>7, <2>1 DEF LockOrder, Enter
<1>8. ASSUME NEW x \in Rows, LockRow(r, x)
      PROVE  OnceInv'
  <2> DEFINE y == [req[r] EXCEPT !.held = @ \cup {x}, !.seen[x] = stock[x]]
  <2>1. y.op = req[r].op /\ y.pc = req[r].pc /\ y.ship = req[r].ship
    BY <1>0 DEF RequestRow
  <2>2. NamesShipment(y) /\ Relies(y) /\ (Dispatching(y) => Dispatching(req[r]))
    BY <1>0, <2>1 DEF NamesShipment, Relies, Dispatching, Delivering
  <2> QED
    BY <1>1, <1>8, <2>1, <2>2 DEF LockRow
<1> QED
  BY <1>3, <1>4, <1>5, <1>6, <1>7, <1>8

\* A request that ends without touching a shipment.
LEMMA OnceEnd ==
    ASSUME TypeOK, OnceInv, NEW r \in Reqs, Finish(r), ship' = ship
    PROVE  OnceInv'
<1>1. req' = [req EXCEPT ![r] = NoReq]
  BY DEF Finish
<1>2. NamesShipment(NoReq) /\ Relies(NoReq) /\ ~Dispatching(NoReq)
  BY DEF NoReq, NamesShipment, Relies, Dispatching, Delivering
<1> QED
  BY <1>1, <1>2, OnceMove

\* A new shipment is one that nobody names in vain: who relies on a shipment
\* relies on one that exists.
LEMMA OnceCreate ==
    ASSUME TypeOK, OnceInv, NEW r \in Reqs, CreateShipment(r)
    PROVE  OnceInv'
<1>1. PICK s \in Shipments, q \in [Lines -> 0 .. MaxShip] :
        /\ ship[s] = NoShip
        /\ SetShip(s, [NoShip EXCEPT !.status = "pending", !.order = req[r].order, !.qty = q])
  BY DEF CreateShipment
<1> DEFINE z == [NoShip EXCEPT !.status = "pending", !.order = req[r].order, !.qty = q]
<1>2. z.issues = 0 /\ z.status = "pending" /\ NoShip.status = "none"
  BY DEF NoShip
<1>3. \A i \in Reqs : req[i].ship = s => /\ ~Dispatching(req[i]) /\ ~Delivering(req[i])
                                         /\ req[i].pc # "pack"
  BY <1>1, <1>2 DEF OnceInv, Relies, Open, Gone
<1>4. ship' = [ship EXCEPT ![s] = z] /\ Finish(r)
  BY <1>1 DEF SetShip, CreateShipment
<1> HIDE DEF z
<1>5. z.issues = IF z.status \in Gone THEN 1 ELSE 0
  BY <1>2 DEF Gone
<1>6. \A i \in Reqs \ {r} : req[i].ship = s =>
        /\ Dispatching(req[i]) => z.status \in Open
        /\ req[i].pc = "pack" => z.status \in {"picking", "packed"}
        /\ Delivering(req[i]) => z.status \in Gone
  BY <1>3
<1> QED
  BY <1>4, <1>5, <1>6, OnceWrite

\* The writes of one shipment. Packing comes over nothing but picking and
\* packed, delivering over nothing but dispatched and delivered, and picking
\* over nothing but pending where the start was in time.
LEMMA OnceStatus ==
    ASSUME TypeOK, OnceInv, StartsHitPending, NEW r \in Reqs,
           StartPicking(r) \/ Deliver(r) \/ PickCommit(r)
    PROVE  OnceInv'
<1> DEFINE s == req[r].ship
<1>1. NamesShipment(req[r]) /\ Relies(req[r]) /\ Finish(r)
  BY DEF OnceInv, StartPicking, Deliver, PickCommit
<1>2. s \in Shipments
  BY <1>1 DEF NamesShipment, StartPicking, Deliver, PickCommit, Picks
<1>3. ship[s] \in ShipmentRow /\ ship[s].issues = IF ship[s].status \in Gone THEN 1 ELSE 0
  BY <1>2 DEF TypeOK, OnceInv, IssuedWhenGone
<1>4. \A q \in Reqs \ {r} : Relies(req[q])
  BY DEF OnceInv
<1>5. CASE StartPicking(r)
  <2> DEFINE z == [ship[s] EXCEPT !.status = "picking"]
  <2>1. z.issues = ship[s].issues /\ z.status = "picking" /\ ship[s].status = "pending"
    BY <1>3, <1>5 DEF ShipmentRow, StartsHitPending
  <2>2. ship' = [ship EXCEPT ![s] = z]
    BY <1>5 DEF StartPicking, SetShip
  <2> HIDE DEF z
  <2>3. z.issues = IF z.status \in Gone THEN 1 ELSE 0
    BY <1>3, <2>1 DEF Gone
  <2>4. \A q \in Reqs \ {r} : req[q].ship = s =>
          /\ Dispatching(req[q]) => z.status \in Open
          /\ req[q].pc = "pack" => z.status \in {"picking", "packed"}
          /\ Delivering(req[q]) => z.status \in Gone
    BY <1>4, <2>1 DEF Relies, Open, Gone
  <2> QED
    BY <1>1, <1>2, <2>2, <2>3, <2>4, OnceWrite
<1>6. CASE Deliver(r)
  <2> DEFINE z == [ship[s] EXCEPT !.status = "delivered"]
  <2>1. z.issues = ship[s].issues /\ z.status = "delivered" /\ ship[s].status \in Gone
    BY <1>1, <1>3, <1>6 DEF ShipmentRow, Deliver, Relies, Delivering
  <2>2. ship' = [ship EXCEPT ![s] = z]
    BY <1>6 DEF Deliver, SetShip
  <2> HIDE DEF z
  <2>3. z.issues = IF z.status \in Gone THEN 1 ELSE 0
    BY <1>3, <2>1 DEF Gone
  <2>4. \A q \in Reqs \ {r} : req[q].ship = s =>
          /\ Dispatching(req[q]) => z.status \in Open
          /\ req[q].pc = "pack" => z.status \in {"picking", "packed"}
          /\ Delivering(req[q]) => z.status \in Gone
    BY <1>4, <2>1 DEF Relies, Open, Gone
  <2> QED
    BY <1>1, <1>2, <2>2, <2>3, <2>4, OnceWrite
<1>7. CASE PickCommit(r)
  <2> DEFINE z == [ship[s] EXCEPT !.picked = @ \cup {req[r].line},
                                  !.status = IF req[r].pc = "pack" THEN "packed" ELSE @]
  <2>1. /\ z.issues = ship[s].issues
        /\ z.status = IF req[r].pc = "pack" THEN "packed" ELSE ship[s].status
        /\ req[r].pc = "pack" => ship[s].status \in {"picking", "packed"}
    BY <1>1, <1>3 DEF ShipmentRow, Relies
  <2>2. ship' = [ship EXCEPT ![s] = z]
    BY <1>7 DEF PickCommit, SetShip
  <2> HIDE DEF z
  <2>3. z.issues = IF z.status \in Gone THEN 1 ELSE 0
    BY <1>3, <2>1 DEF Gone
  <2>4. \A q \in Reqs \ {r} : req[q].ship = s =>
          /\ Dispatching(req[q]) => z.status \in Open
          /\ req[q].pc = "pack" => z.status \in {"picking", "packed"}
          /\ Delivering(req[q]) => z.status \in Gone
    BY <1>4, <2>1 DEF Relies, Open, Gone
  <2> QED
    BY <1>1, <1>2, <2>2, <2>3, <2>4, OnceWrite
<1> QED
  BY <1>5, <1>6, <1>7

\* A dispatch finds the shipment open and alone: nobody else has it locked,
\* and nobody is about to pack it.
LEMMA OnceDispatch ==
    ASSUME TypeOK, OnceInv, NEW r \in Reqs, Dispatch(r)
    PROVE  OnceInv'
<1> DEFINE s == req[r].ship
           z == [ship[s] EXCEPT !.status = "dispatched", !.issues = @ + 1]
<1>1. Dispatching(req[r]) /\ Finish(r) /\ Free(r) /\ Wanted(r) = {} /\ req[r].pc = "rows"
  BY DEF Dispatch, Ready, Dispatching
<1>2. s \in Shipments /\ ship[s].status \in Open
  BY <1>1 DEF OnceInv, NamesShipment, Relies, Dispatching
<1>3. ship[s] \in ShipmentRow /\ ship[s].issues = 0
  BY <1>2 DEF TypeOK, OnceInv, IssuedWhenGone, Open, Gone
<1>4. z.status = "dispatched" /\ z.issues = 1
  BY <1>3 DEF ShipmentRow
<1>5. ship' = [ship EXCEPT ![s] = z]
  BY <1>2, <1>3 DEF Dispatch, ShipmentRow
<1>6. ASSUME NEW q \in Reqs \ {r}, req[q].ship = s
      PROVE  ~Dispatching(req[q]) /\ req[q].pc # "pack"
  <2>1. ~Dispatching(req[q])
    BY <1>1, <1>6 DEF OnceInv, OneDispatcher
  <2>2. ~Blocks(q, r)
    BY <1>1 DEF Free
  <2>3. ~Picks(q)
    BY <1>1, <1>6, <2>2 DEF Blocks, Dispatching
  <2> QED
    BY <2>1, <2>3 DEF Picks
<1> HIDE DEF z
<1>7. z.issues = IF z.status \in Gone THEN 1 ELSE 0
  BY <1>4 DEF Gone
<1>8. \A q \in Reqs \ {r} : req[q].ship = s =>
        /\ Dispatching(req[q]) => z.status \in Open
        /\ req[q].pc = "pack" => z.status \in {"picking", "packed"}
        /\ Delivering(req[q]) => z.status \in Gone
  BY <1>4, <1>6 DEF Gone
<1>9. s \in Shipments /\ Finish(r)
  BY <1>1, <1>2
<1> QED
  BY <1>5, <1>7, <1>8, <1>9, OnceWrite, ZenonT(30)

\* An invoice leaves the status of its shipment and its goods alone.
LEMMA OnceInvoice ==
    ASSUME TypeOK, OnceInv, NEW r \in Reqs, Invoice(r)
    PROVE  OnceInv'
<1> DEFINE s == req[r].ship
           z == [ship[s] EXCEPT !.invoices = @ + 1]
<1>1. CASE s \in Shipments
  <2>1. ship[s] \in ShipmentRow /\ ship[s].issues = IF ship[s].status \in Gone THEN 1 ELSE 0
    BY <1>1 DEF TypeOK, OnceInv, IssuedWhenGone
  <2>2. z.issues = ship[s].issues /\ z.status = ship[s].status
    BY <2>1 DEF ShipmentRow
  <2>3. ship' = [ship EXCEPT ![s] = z] /\ Finish(r)
    BY <1>1, <2>1 DEF Invoice, ShipmentRow
  <2> HIDE DEF z
  <2>4. z.issues = IF z.status \in Gone THEN 1 ELSE 0
    BY <2>1, <2>2
  <2>5. \A q \in Reqs \ {r} : req[q].ship = s =>
          /\ Dispatching(req[q]) => z.status \in Open
          /\ req[q].pc = "pack" => z.status \in {"picking", "packed"}
          /\ Delivering(req[q]) => z.status \in Gone
    BY <2>2 DEF OnceInv, Relies
  <2> QED
    BY <1>1, <2>3, <2>4, <2>5, OnceWrite
<1>2. CASE s \notin Shipments
  <2>1. ship' = ship /\ Finish(r)
    BY <1>2 DEF Invoice, TypeOK
  <2> QED
    BY <2>1, OnceEnd
<1> QED
  BY <1>1, <1>2

\* Every step but a late start of picking keeps shipments from a second dispatch.
LEMMA OnceNext ==
    ASSUME TypeOK, OnceInv, [Next]_vars, [StartsHitPending]_vars
    PROVE  OnceInv'
<1>1. CASE UNCHANGED vars
  BY <1>1 DEF vars, OnceInv, IssuedWhenGone, OneDispatcher, NamesShipment, Relies, Dispatching,
     Delivering
<1>2. ASSUME NEW r \in Reqs, Proceed(r), StartsHitPending
      PROVE  OnceInv'
  <2>1. CASE \/ DeliverInsert(r) \/ PickFlush(r) \/ LockShipment(r) \/ LockOrder(r)
             \/ (\E x \in Rows : LockRow(r, x)) \/ InvoiceInsert(r)
    BY <2>1, OnceGoOn
  <2>2. CASE ConfirmWrite(r) \/ Allocate(r) \/ Cancel(r)
    BY <2>2, OnceEnd DEF ConfirmWrite, Allocate, Cancel
  <2>3. CASE Insufficient(r)
    BY <2>3, OnceEnd DEF Insufficient, Reject, Move, Finish
  <2>4. CASE StartPicking(r) \/ Deliver(r) \/ PickCommit(r)
    BY <1>2, <2>4, OnceStatus
  <2>5. CASE CreateShipment(r) \/ Dispatch(r) \/ Invoice(r)
    BY <2>5, OnceCreate, OnceDispatch, OnceInvoice
  <2> QED
    BY <1>2, <2>1, <2>2, <2>3, <2>4, <2>5, ZenonT(30) DEF Proceed
<1>3. ASSUME NEW r \in Reqs, Abort(r)
      PROVE  OnceInv'
  BY <1>3, OnceEnd DEF Abort, Reject, Move, Finish
<1> QED
  BY <1>1, <1>2, <1>3, OnceStart DEF Next

\* If no start of picking comes after the shipment has left pending, the
\* promise of sales_service.py:488-489 holds: no shipment is dispatched
\* twice, whatever retries, picks, deliveries and other dispatches overlap.
\* The late start the run finds is the only way.
THEOREM OnlyLateStartsDispatchTwice ==
    Spec /\ [][StartsHitPending]_vars => []DispatchedOnce
<1>1. Init => OnceInv
  <2> SUFFICES ASSUME Init PROVE OnceInv
    OBVIOUS
  <2>1. \A r \in Reqs : req[r].op = "none" /\ req[r].pc = "idle"
    BY DEF Init, NoReq
  <2>2. \A s \in Shipments : ship[s].issues = 0 /\ ship[s].status = "none"
    BY DEF Init, NoShip
  <2> QED
    BY <2>1, <2>2 DEF OnceInv, IssuedWhenGone, OneDispatcher, NamesShipment, Relies, Dispatching,
       Delivering, Gone
<1>2. TypeOK /\ OnceInv /\ [Next]_vars /\ [StartsHitPending]_vars => OnceInv'
  BY OnceNext
<1>3. OnceInv => DispatchedOnce
  BY DEF OnceInv, IssuedWhenGone, DispatchedOnce
<1> QED
  BY <1>1, <1>2, <1>3, FulfilmentTypeCorrect, PTL DEF Spec
=============================================================================
