-------------------------- MODULE SalesFulfilment --------------------------
(***************************************************************************)
(* Sales orders from confirmation to invoice (services/sales_service.py    *)
(* with the endpoints of endpoints/sales.py and endpoints/delivery.py) on  *)
(* the stock rows of one warehouse.                                        *)
(*                                                                         *)
(* Every endpoint call is a request r that runs one database transaction   *)
(* at READ COMMITTED; req[r] holds its progress. Allocation, cancellation  *)
(* and dispatch validate and compute under FOR UPDATE locks, on rows they  *)
(* read when the lock was granted. The other calls check a status that     *)
(* they loaded without a lock and write later, whatever the row holds by   *)
(* then. Which locks a request holds follows from the step it is at.       *)
(*                                                                         *)
(* Prices, dates, credit limits, quality gates and the prepayment check    *)
(* only decide whether a call is refused, which Abort covers. Lots and     *)
(* blocked rows, which narrow the rows a line may use, are left out. A     *)
(* shipment may carry lines of any order (nothing checks them against its  *)
(* own); each is of the product of the order line it names, and names      *)
(* another one than the rest.                                              *)
(*                                                                         *)
(* A definition whose name ends in _Something is the definition it stands  *)
(* before with one slip in it; the runs show that the properties notice.   *)
(***************************************************************************)
EXTENDS Integers, FiniteSets, Sums

CONSTANTS
    Orders, Lines, Shipments, Rows, Products, Reqs, None,
    OrderOf,     \* the order of each line
    ProductOf,   \* the product of each line
    Ordered,     \* its ordered_quantity
    RowProduct,  \* the product of each stock row
    Opening,     \* the goods in each row at the start
    MaxQty,      \* no row holds more, no shipment line asks for more
    MaxShip      \* bound of the exploration: largest quantity of a shipment line

ASSUME FulfilmentAssumption ==
    /\ None \notin Orders \cup Shipments \cup Lines
    /\ IsFiniteSet(Rows) /\ IsFiniteSet(Lines) /\ IsFiniteSet(Shipments)
    /\ OrderOf \in [Lines -> Orders] /\ ProductOf \in [Lines -> Products]
    /\ RowProduct \in [Rows -> Products]
    /\ MaxQty \in Nat /\ MaxShip \in 0 .. MaxQty
    /\ Ordered \in [Lines -> 1 .. MaxQty]
    /\ Opening \in [Rows -> 0 .. MaxQty]

VARIABLES
    status,      \* sales_orders.status
    allocated,   \* so_lines.allocated_quantity
    shipped,     \* so_lines.shipped_quantity
    ship,        \* shipments with their lines, ISSUE movements and invoices
    stock,       \* the rows of stock
    req          \* the requests in flight

orders == <<status, allocated, shipped>>
vars == <<status, allocated, shipped, ship, stock, req>>

-----------------------------------------------------------------------------
Quantity == 0 .. MaxQty
NoQty == [l \in Lines |-> 0]

SOStatus == {"draft", "confirmed", "allocated", "picking", "shipped", "invoiced", "cancelled"}

\* issues counts the times its ISSUE movements were written. A shipment that
\* was not created yet has status "none".
ShipmentRow ==
    [status : {"none", "pending", "picking", "packed", "dispatched", "delivered"},
     order : Orders \cup {None}, qty : [Lines -> Quantity], picked : SUBSET Lines,
     issues : Nat, invoices : Nat]

StockRow == [onHand : Nat, reserved : Nat, available : Nat]

NoShip == [status |-> "none", order |-> None, qty |-> NoQty, picked |-> {},
           issues |-> 0, invoices |-> 0]

NoRow == [onHand |-> 0, reserved |-> 0, available |-> 0]

\* saw: the order was shipped when it was loaded; qty: what an allocation,
\* cancellation or dispatch moves, by line; held: the stock rows it has
\* locked; seen: what it read of them
NoReq == [op |-> "none", pc |-> "idle", order |-> None, ship |-> None, line |-> None,
          saw |-> FALSE, qty |-> NoQty, held |-> {}, seen |-> [x \in Rows |-> NoRow]]

LinesOf(o) == {l \in Lines : OrderOf[l] = o}
LinesFor(p) == {l \in Lines : ProductOf[l] = p}
RowsOf(p) == {x \in Rows : RowProduct[x] = p}
Packages(s) == {l \in Lines : ship[s].qty[l] > 0}
Held(r) == req[r].held

\* Goods of product p in a function f on rows, or on lines.
InRows(f, p) == Sum([x \in RowsOf(p) |-> f[x]])
InLines(f, p) == Sum([l \in LinesFor(p) |-> f[l]])

OnHand == [x \in Rows |-> stock[x].onHand]
Reserved == [x \in Rows |-> stock[x].reserved]

Init ==
    /\ status = [o \in Orders |-> "draft"]
    /\ allocated = NoQty /\ shipped = NoQty
    /\ ship = [s \in Shipments |-> NoShip]
    /\ stock = [x \in Rows |-> [onHand |-> Opening[x], reserved |-> 0,
                                available |-> Opening[x]]]
    /\ req = [r \in Reqs |-> NoReq]

-----------------------------------------------------------------------------
(* Locks. FOR UPDATE on an order or a shipment ("update") keeps every      *)
(* other writer and lock out; the foreign keys of a new invoice or proof   *)
(* of delivery ("share") only keep FOR UPDATE out. A pick holds its        *)
(* shipment line from its first flush on, and a dispatch writes all lines  *)
(* of its shipment.                                                        *)

OrderLock(q) == CASE req[q].pc = "rows" -> "update"
                  [] req[q].pc = "bill" -> "share"
                  [] OTHER -> "none"
ShipLock(q) == CASE req[q].op = "dispatch" /\ req[q].pc \in {"order", "rows"} -> "update"
                 [] req[q].pc = "bill" -> "share"
                 [] req[q].op = "deliver" /\ req[q].pc = "write" -> "share"
                 [] OTHER -> "none"
Picks(q) == req[q].pc \in {"pick", "pack"}

\* A second lock on a shipment that deliver has already shared.
LocksShipment_Deliver(r) ==
    req[r].pc = "ship" \/ (req[r].op = "deliver" /\ req[r].pc = "write")
LocksShipment(r) == req[r].pc = "ship"

\* The stock rows r has still to lock.
Wanted(r) == {x \in Rows \ Held(r) :
                \E l \in Lines : req[r].qty[l] > 0 /\ ProductOf[l] = RowProduct[x]}
HeldByOthers(r) == UNION {Held(q) : q \in Reqs \ {r}}

Blocks(q, r) ==
    /\ q # r
    /\ \/ /\ req[q].order = req[r].order
          /\ \/ req[r].pc \in {"order", "bill"} /\ OrderLock(q) # "none"
             \/ req[r].pc = "insert" /\ OrderLock(q) = "update"
             \/ /\ req[r].op \in {"confirm", "create"} /\ req[r].pc = "write"
                /\ OrderLock(q) = "update"
       \/ /\ req[q].ship = req[r].ship
          /\ \/ LocksShipment(r) /\ ShipLock(q) # "none"
             \/ req[r].pc \in {"insert", "pack"} /\ ShipLock(q) = "update"
             \/ /\ req[r].op \in {"start", "deliver"} /\ req[r].pc = "write"
                /\ ShipLock(q) = "update"
             \/ req[r].pc = "line" /\ req[q].line = req[r].line /\ Picks(q)
             \/ req[r].op = "dispatch" /\ req[r].pc = "rows" /\ Wanted(r) = {} /\ Picks(q)
       \/ /\ req[r].pc = "rows" /\ Wanted(r) # {} /\ Wanted(r) \subseteq HeldByOthers(r)
          /\ Held(q) \cap Wanted(r) # {}

Free(r) == \A q \in Reqs : ~Blocks(q, r)

Move(r, x) == req' = [req EXCEPT ![r] = x] /\ UNCHANGED <<orders, ship, stock>>
Finish(r) == req' = [req EXCEPT ![r] = NoReq]
Reject(r) == Move(r, NoReq)
SetShip(s, x) == ship' = [ship EXCEPT ![s] = x] /\ UNCHANGED <<orders, stock>>

Call(r, op, pc, o, s) ==
    /\ req[r] = NoReq
    /\ Move(r, [req[r] EXCEPT !.op = op, !.pc = pc, !.order = o, !.ship = s])

-----------------------------------------------------------------------------
(* Calls that load, check and write without a lock in between. The write   *)
(* of a status goes by primary key alone.                                  *)

ConfirmStart(r, o) ==
    /\ status[o] = "draft"
    /\ Call(r, "confirm", "write", o, None)

\* UPDATE waits for a lock on the row, not for the status that was checked
ConfirmWrite(r) ==
    /\ req[r].op = "confirm" /\ req[r].pc = "write" /\ Free(r)
    /\ status' = [status EXCEPT ![req[r].order] = "confirmed"]
    /\ Finish(r) /\ UNCHANGED <<allocated, shipped, ship, stock>>

CreateStart(r, o) ==
    /\ status[o] \in {"confirmed", "allocated", "picking"}
    /\ Call(r, "create", "write", o, None)

\* any lines and quantities: those of other orders, and over the ordered ones
CreateShipment(r) ==
    /\ req[r].op = "create" /\ req[r].pc = "write" /\ Free(r)
    /\ \E s \in Shipments, q \in [Lines -> 0 .. MaxShip] :
         /\ ship[s] = NoShip
         /\ q # NoQty
         /\ SetShip(s, [NoShip EXCEPT !.status = "pending", !.order = req[r].order,
                                       !.qty = q])
    /\ Finish(r)

StartPickingStart(r, s) ==
    /\ ship[s].status = "pending"
    /\ Call(r, "start", "write", None, s)

StartPicking(r) ==
    /\ req[r].op = "start" /\ req[r].pc = "write" /\ Free(r)
    /\ SetShip(req[r].ship, [ship[req[r].ship] EXCEPT !.status = "picking"])
    /\ Finish(r)

\* create_pod flushes the proof of delivery, whose foreign key locks the
\* shipment, and only then reads its status
DeliverStart(r, s) ==
    /\ ship[s].status # "none"
    /\ Call(r, "deliver", "insert", None, s)

DeliverInsert(r) ==
    /\ req[r].op = "deliver" /\ req[r].pc = "insert" /\ Free(r)
    /\ IF ship[req[r].ship].status = "dispatched"
       THEN Move(r, [req[r] EXCEPT !.pc = "write"])
       ELSE Reject(r)

Deliver(r) ==
    /\ req[r].op = "deliver" /\ req[r].pc = "write" /\ Free(r)
    /\ SetShip(req[r].ship, [ship[req[r].ship] EXCEPT !.status = "delivered"])
    /\ Finish(r)

-----------------------------------------------------------------------------
(* pick_line flushes its line, then reads the other lines and the status   *)
(* of the shipment, as committed, and packs the shipment if it is the last.*)

PickStart(r, s, l) ==
    /\ req[r] = NoReq
    /\ l \in Packages(s)
    /\ Move(r, [req[r] EXCEPT !.op = "pick", !.pc = "line", !.ship = s, !.line = l])

PickFlush(r) ==
    LET s == req[r].ship
        last == /\ Packages(s) \subseteq ship[s].picked \cup {req[r].line}
                /\ ship[s].status = "picking"
    IN  /\ req[r].pc = "line" /\ Free(r)
        /\ Move(r, [req[r] EXCEPT !.pc = IF last THEN "pack" ELSE "pick"])

PickCommit(r) ==
    LET s == req[r].ship IN
    /\ Picks(r) /\ Free(r)
    /\ SetShip(s, [ship[s] EXCEPT
                     !.picked = @ \cup {req[r].line},
                     !.status = IF req[r].pc = "pack" THEN "packed" ELSE @])
    /\ Finish(r)

-----------------------------------------------------------------------------
(* allocate_so, cancel_so and dispatch_shipment lock the shipment (dispatch*)
(* only), then the order, then stock rows. Each check follows its lock.    *)

AllocateStart(r, o) == Call(r, "allocate", "order", o, None)
CancelStart(r, o) == Call(r, "cancel", "order", o, None)
DispatchStart(r, s) ==
    /\ ship[s].status # "none"
    /\ Call(r, "dispatch", "ship", ship[s].order, s)

LockShipment(r) ==
    /\ req[r].pc = "ship" /\ Free(r)
    /\ IF ship[req[r].ship].status \in {"pending", "picking", "packed"}
       THEN Move(r, [req[r] EXCEPT !.qty = ship[req[r].ship].qty, !.pc = "order"])
       ELSE Reject(r)

Enter(r, ok, q) ==
    IF ok THEN Move(r, [req[r] EXCEPT !.qty = q, !.pc = "rows"]) ELSE Reject(r)

\* What the lines of an order still need, and what they hold, by line.
Need(o) == [l \in Lines |-> IF OrderOf[l] = o /\ allocated[l] < Ordered[l]
                            THEN Ordered[l] - allocated[l] ELSE 0]
Holds(o) == [l \in Lines |-> IF OrderOf[l] = o /\ status[o] = "allocated"
                             THEN allocated[l] ELSE 0]

LockOrder_Unlocked(r) ==
    LET o == req[r].order IN
    /\ req[r].pc = "order"
    /\ \/ req[r].op = "allocate" /\ Enter(r, status[o] = "confirmed", Need(o))
       \/ req[r].op = "cancel"
          /\ Enter(r, status[o] \in {"draft", "confirmed", "allocated"}, Holds(o))
       \/ req[r].op = "dispatch" /\ Enter(r, TRUE, req[r].qty)

\* The status of the order does not matter to a dispatch.
LockOrder(r) ==
    LET o == req[r].order IN
    /\ req[r].pc = "order" /\ Free(r)
    /\ \/ req[r].op = "allocate" /\ Enter(r, status[o] = "confirmed", Need(o))
       \/ req[r].op = "cancel"
          /\ Enter(r, status[o] \in {"draft", "confirmed", "allocated"}, Holds(o))
       \/ req[r].op = "dispatch" /\ Enter(r, TRUE, req[r].qty)

LockRow_Unlocked(r, x) ==
    /\ req[r].pc = "rows"
    /\ x \in Wanted(r)
    /\ Move(r, [req[r] EXCEPT !.held = @ \cup {x}, !.seen[x] = stock[x]])

\* The rows come back in no fixed order.
LockRow(r, x) ==
    /\ req[r].pc = "rows"
    /\ x \in Wanted(r) \ HeldByOthers(r)
    /\ Move(r, [req[r] EXCEPT !.held = @ \cup {x}, !.seen[x] = stock[x]])

-----------------------------------------------------------------------------
(* The stock rows are taken one after the other, as much as each allows,   *)
(* until the quantity of a line is there.                                  *)

\* The lines of product p that a request moves goods for.
Parts(r, p) == {l \in Lines : ProductOf[l] = p /\ req[r].qty[l] > 0}

Lower(a, b) == IF a <= b THEN a ELSE b

\* Ways to take move[p] of every product, as far as cap allows; every line
\* leaves one row at most that it took a part of.
Takes(r, move, cap) ==
    {t \in [Rows -> Quantity] :
       /\ \A x \in Rows : t[x] <= cap[x]
       /\ \A p \in Products :
            /\ InRows(t, p) = Lower(move[p], InRows(cap, p))
            /\ Cardinality({x \in RowsOf(p) : 0 < t[x] /\ t[x] < cap[x]})
                 <= Cardinality(Parts(r, p))}

\* The session does not flush by itself and every SELECT ... FOR UPDATE
\* overwrites the rows in it: of several lines of one product, the last one
\* undoes what the others did to the stock rows.
LastLineOnly(r) ==
    {m \in [Products -> Quantity] : \A p \in Products :
       IF Parts(r, p) = {} THEN m[p] = 0 ELSE \E l \in Parts(r, p) : m[p] = req[r].qty[l]}

SeenAvailable(r) == [x \in Rows |-> req[r].seen[x].available]
SeenReserved(r) == [x \in Rows |-> req[r].seen[x].reserved]
SeenOnHand(r) == [x \in Rows |-> req[r].seen[x].onHand]

\* UPDATE of the rows something was taken from: the columns it writes are
\* computed from what was read.
Store(r, t, row(_, _, _)) ==
    stock' = [x \in Rows |-> IF x \in Held(r) /\ t[x] > 0
                             THEN row(stock[x], req[r].seen[x], t[x]) ELSE stock[x]]

ReserveIn(row, read, n) ==
    [row EXCEPT !.reserved = read.reserved + n, !.available = read.available - n]

ReleaseIn(row, read, n) ==
    [row EXCEPT !.reserved = read.reserved - n,
                !.available = read.onHand - (read.reserved - n)]

IssueFrom_KeepReserved(row, read, n) ==
    [row EXCEPT !.onHand = read.onHand - n, !.available = read.available - n]

IssueFrom(row, read, n) ==
    LET kept == IF read.reserved > n THEN read.reserved - n ELSE 0
    IN  [onHand |-> read.onHand - n, reserved |-> kept, available |-> read.onHand - n - kept]

-----------------------------------------------------------------------------
Ready(r, op) == req[r].op = op /\ req[r].pc = "rows" /\ Wanted(r) = {} /\ Free(r)

Sufficient(r, cap) == \A l \in Lines : req[r].qty[l] <= InRows(cap, ProductOf[l])

Allocate(r) ==
    LET o == req[r].order IN
    /\ Ready(r, "allocate")
    /\ Sufficient(r, SeenAvailable(r))
    /\ \E m \in LastLineOnly(r) : \E t \in Takes(r, m, SeenAvailable(r)) : Store(r, t, ReserveIn)
    /\ allocated' = [l \in Lines |-> IF l \in LinesOf(o) /\ req[r].qty[l] > 0
                                     THEN Ordered[l] ELSE allocated[l]]
    /\ status' = [status EXCEPT ![o] = "allocated"]
    /\ Finish(r) /\ UNCHANGED <<shipped, ship>>

Cancel(r) ==
    LET o == req[r].order IN
    /\ Ready(r, "cancel")
    /\ \E m \in LastLineOnly(r) : \E t \in Takes(r, m, SeenReserved(r)) : Store(r, t, ReleaseIn)
    /\ allocated' = [l \in Lines |-> IF req[r].qty[l] > 0 THEN 0 ELSE allocated[l]]
    /\ status' = [status EXCEPT ![o] = "cancelled"]
    /\ Finish(r) /\ UNCHANGED <<shipped, ship>>

\* Lines are flushed one by one, so the goods of all of them are issued.
Issued(r) == [p \in Products |-> InLines(req[r].qty, p)]

Issuable_ReservedOnly(r) == SeenReserved(r)
Issuable(r) == SeenOnHand(r)

InStock(r) == \A p \in Products : Issued(r)[p] <= InRows(SeenOnHand(r), p)

ShippedNow_Overwritten(r) == [l \in Lines |-> IF req[r].qty[l] > 0 THEN req[r].qty[l] ELSE shipped[l]]
ShippedNow(r) == [l \in Lines |-> shipped[l] + req[r].qty[l]]

\* Something was shipped for o on a shipment of another order.
ShippedElsewhere(o) == \E s \in Shipments, l \in LinesOf(o) :
    ship[s].order # o /\ ship[s].issues > 0 /\ ship[s].qty[l] > 0

\* The lines are read after the last lock: what a shipment of another order
\* commits for them in between is not seen.
Judges(o, st) ==
    LET all == \A l \in LinesOf(o) : shipped'[l] >= Ordered[l]
    IN  IF st = "shipped" THEN all ELSE ~all \/ ShippedElsewhere(o)

\* Reserved goods may be taken, whoever they are reserved for.
Dispatch(r) ==
    LET s == req[r].ship
        o == req[r].order
    IN  /\ Ready(r, "dispatch")
        /\ InStock(r)
        /\ \E t \in Takes(r, Issued(r), Issuable(r)) : Store(r, t, IssueFrom)
        /\ shipped' = ShippedNow(r)
        /\ ship' = [ship EXCEPT ![s].status = "dispatched", ![s].issues = @ + 1]
        /\ \E st \in {"shipped", "picking"} :
              Judges(o, st) /\ status' = [status EXCEPT ![o] = st]
        /\ Finish(r) /\ UNCHANGED allocated

\* 422 INSUFFICIENT_STOCK: the transaction is rolled back
Insufficient(r) ==
    /\ req[r].pc = "rows" /\ Wanted(r) = {}
    /\ \/ req[r].op = "allocate" /\ ~Sufficient(r, SeenAvailable(r))
       \/ req[r].op = "dispatch" /\ ~InStock(r)
    /\ Reject(r)

-----------------------------------------------------------------------------
(* invoice_from_shipment: the shipment, its invoice and its order are      *)
(* loaded; the insert locks both rows by their foreign keys; the order is  *)
(* then locked FOR UPDATE, but what the session loaded of it is kept.      *)

InvoiceStart(r, s) ==
    /\ req[r] = NoReq
    /\ ship[s].status = "dispatched" /\ ship[s].invoices = 0
    /\ Move(r, [req[r] EXCEPT !.op = "invoice", !.pc = "insert", !.ship = s,
                              !.order = ship[s].order, !.saw = status[ship[s].order] = "shipped"])

InvoiceInsert(r) ==
    /\ req[r].op = "invoice" /\ req[r].pc = "insert" /\ Free(r)
    /\ Move(r, [req[r] EXCEPT !.pc = "bill"])

Billed_Always(r) == "invoiced"
Billed(r) == IF req[r].saw THEN "invoiced" ELSE status[req[r].order]

Invoice(r) ==
    /\ req[r].pc = "bill" /\ Free(r)
    /\ ship' = [ship EXCEPT ![req[r].ship].invoices = @ + 1]
    /\ status' = [status EXCEPT ![req[r].order] = Billed(r)]
    /\ Finish(r) /\ UNCHANGED <<allocated, shipped, stock>>

\* ROLLBACK: a check not modelled, request timeout, client gone, worker
\* killed, deadlock victim.
Abort(r) == req[r] # NoReq /\ Reject(r)

-----------------------------------------------------------------------------
Start(r) ==
    \/ \E o \in Orders : ConfirmStart(r, o) \/ CreateStart(r, o) \/ AllocateStart(r, o)
                         \/ CancelStart(r, o)
    \/ \E s \in Shipments : StartPickingStart(r, s) \/ DeliverStart(r, s)
                            \/ DispatchStart(r, s) \/ InvoiceStart(r, s)
    \/ \E s \in Shipments, l \in Lines : PickStart(r, s, l)

Proceed(r) ==
    \/ ConfirmWrite(r) \/ CreateShipment(r) \/ StartPicking(r)
    \/ DeliverInsert(r) \/ Deliver(r)
    \/ PickFlush(r) \/ PickCommit(r)
    \/ LockShipment(r) \/ LockOrder(r) \/ \E x \in Rows : LockRow(r, x)
    \/ Allocate(r) \/ Cancel(r) \/ Dispatch(r) \/ Insufficient(r)
    \/ InvoiceInsert(r) \/ Invoice(r)

Next == \E r \in Reqs : Start(r) \/ Proceed(r) \/ Abort(r)

Spec == Init /\ [][Next]_vars

-----------------------------------------------------------------------------
(* A set of requests each of which waits for another one of the set.       *)

Deadlocked(S) == S # {} /\ \A r \in S : \E q \in S : Blocks(q, r)

-----------------------------------------------------------------------------
RequestRow ==
    [op : {"none", "confirm", "create", "start", "deliver", "pick", "allocate", "cancel",
           "dispatch", "invoice"},
     pc : {"idle", "write", "insert", "line", "pick", "pack", "ship", "order", "rows", "bill"},
     order : Orders \cup {None}, ship : Shipments \cup {None}, line : Lines \cup {None},
     saw : BOOLEAN, qty : [Lines -> Quantity],
     held : SUBSET Rows, seen : [Rows -> StockRow]]
Request == {x \in RequestRow :
               /\ x.pc \in {"line", "pick", "pack"} => x.line \in Lines
               /\ x.pc = "ship" => x.ship \in Shipments}

\* Orders, shipments, stock rows and requests have the declared shape.
TypeOK ==
    /\ status \in [Orders -> SOStatus]
    /\ allocated \in [Lines -> Quantity]
    /\ shipped \in [Lines -> Nat]
    /\ ship \in [Shipments -> ShipmentRow]
    /\ stock \in [Rows -> StockRow]
    /\ req \in [Reqs -> Request]

\* Stock arithmetic holds in every row, whatever allocations, cancellations
\* and dispatches overlap: nothing is promised that is not there, nothing is
\* negative, and available is what is on hand and not reserved.
StockArithmetic == \A x \in Rows :
    /\ 0 <= stock[x].reserved /\ stock[x].reserved <= stock[x].onHand
    /\ stock[x].available = stock[x].onHand - stock[x].reserved

\* Nothing leaves or enters without a document: what is on hand and what the
\* ISSUE movements of all shipments took is the opening stock, and the shipped
\* quantity of an order line is what the movements of the order's shipments
\* took for it, whichever shipments of the order overlap.
IssuedBy(s, p) == ship[s].issues * InLines(ship[s].qty, p)
ShipmentsLedgered ==
    /\ \A p \in Products :
          InRows(OnHand, p) + Sum([s \in Shipments |-> IssuedBy(s, p)]) = InRows(Opening, p)
    /\ \A l \in Lines :
          shipped[l] = Sum([s \in Shipments |-> ship[s].issues * ship[s].qty[l]])

\* While an order has one line per product, stock is never reserved beyond
\* what order lines say they hold, and until something is dispatched the two
\* are the same goods: overlapping allocations of one order do not reserve
\* twice, and a cancellation gives everything back.
ReservationsMatchAllocations ==
    LET Untouched == \A s \in Shipments : ship[s].issues = 0 IN
    \A p \in Products :
        /\ InRows(Reserved, p) <= InLines(allocated, p)
        /\ Untouched => InRows(Reserved, p) = InLines(allocated, p)

\* An order is only called shipped or invoiced when every line of it has
\* been issued in full, by however many shipments.
ShippedMeansAllShipped == \A o \in Orders :
    status[o] \in {"shipped", "invoiced"} => \A l \in LinesOf(o) : shipped[l] >= Ordered[l]

\* An order holds all it ordered or nothing, in every line and at every status,
\* and all of it while it is called allocated: no allocation or cancellation
\* works on a part, and no status is mistaken under the order lock.
AllocatedMeansAll == \A o \in Orders :
    LET All == \A l \in LinesOf(o) : allocated[l] = Ordered[l]
        Nothing == \A l \in LinesOf(o) : allocated[l] = 0
    IN  (All \/ Nothing) /\ (status[o] = "allocated" => All)

\* Why sales calls wait in a circle: two of them have each locked a stock row
\* and want others; two invoices of one order have locked it by their foreign
\* keys and want it alone; or the last pick of a shipment wants to mark it
\* packed while a dispatch has it locked and wants the picked line. No other
\* mix of calls does. (A dispatch of lines of another order locks them without
\* their order; those waits are not modelled, so such a dispatch is excused.)
RowsApart(q, r) ==
    /\ req[q].pc = "rows" /\ req[r].pc = "rows"
    /\ Wanted(q) # {} /\ Held(q) \cap Wanted(r) # {}
BilledTwice(q, r) == req[q].pc = "bill" /\ req[r].pc = "bill" /\ req[q].order = req[r].order
PacksDispatched(q, r) ==
    /\ req[q].pc = "pack" /\ req[r].op = "dispatch" /\ req[r].pc \in {"order", "rows"}
    /\ req[q].ship = req[r].ship
CarriesOthers(r) == req[r].op = "dispatch" /\ \E l \in Lines :
    ship[req[r].ship].qty[l] > 0 /\ OrderOf[l] # ship[req[r].ship].order
DeadlocksHaveACause == \A S \in SUBSET Reqs : Deadlocked(S) =>
    \/ \E q, r \in S : q # r /\ (RowsApart(q, r) \/ BilledTwice(q, r) \/ PacksDispatched(q, r))
    \/ \E r \in S : CarriesOthers(r)

-----------------------------------------------------------------------------
(* What the documentation says and the code does not keep.                 *)

\* services/sales_service.py:488-489: a retry cannot dispatch a stale
\* shipment twice.
DispatchedOnce == \A s \in Shipments : ship[s].issues <= 1

-----------------------------------------------------------------------------
(* The stock of the warehouse, product by product.                         *)

Account == INSTANCE StockAccount WITH
    Quantities <- [Products -> 0 .. Sum(Opening)],
    onHand <- [p \in Products |-> InRows(OnHand, p)],
    reserved <- [p \in Products |-> InRows(Reserved, p)]

\* Every step of the sales side promises goods that are there, takes a
\* promise back, or issues goods and their promise together.
ImplementsAccount == Account!Spec
=============================================================================
