---------------------------- MODULE StockLedger ----------------------------
(***************************************************************************)
(* The stock rows and the movement ledger: services/inventory_service.py   *)
(* and crud/inventory.py behind endpoints/inventory.py, with the           *)
(* reservations that services/sales_service.py makes on the same rows.     *)
(*                                                                         *)
(* A stock identity (a key: warehouse, item and lot) should have one row.  *)
(* Every endpoint call is a request that runs one transaction at READ      *)
(* COMMITTED; req[r] holds its progress. Whoever may insert a row takes an *)
(* advisory lock on its key first; every call locks the rows it writes     *)
(* with FOR UPDATE. A select that has to wait locks the rows that it found *)
(* first: a row inserted in between is missed, one deleted is gone.        *)
(* Adjusting and deleting a row are decided by what was loaded before the  *)
(* lock, as a locking select does not refresh an object that the session   *)
(* holds already. Everything a transaction writes appears at its commit.   *)
(*                                                                         *)
(* Permissions, missing masters and malformed requests only refuse a call, *)
(* which Abort covers. Costs, dates and lots' attributes are left out.     *)
(* The calls modelled name the warehouses that their kind needs and a      *)
(* positive quantity.                                                      *)
(*                                                                         *)
(* A definition whose name ends in _Something is the definition it stands  *)
(* before with one slip in it; the runs show that the properties notice.   *)
(***************************************************************************)
EXTENDS Integers, FiniteSets, Sums

CONSTANTS
    Keys, Rows, Movements, Reqs, None,
    Ops,         \* the endpoints in use
    Rank,        \* the order of the keys as strings
    Twins,       \* the keys of the same item and lot in other warehouses,
                 \* the places that stock_transfer accepts as a destination
    Covers,      \* the keys that a reversal at a key selects: every lot of
                 \* the warehouse when the movement names no lot
    Quantities,  \* the quantities of a call
    MinQty,      \* bounds of the exploration: no commit takes a row below MinQty
    MaxQty       \* or above MaxQty, or reserves more than MaxQty of it

AllOps == {"entry", "issue", "transfer", "plain", "adjust", "delete_stock",
           "delete_movement", "reserve", "release"}

ASSUME LedgerAssumption ==
    /\ None \notin Keys \cup Movements \cup Rows
    /\ Ops \subseteq AllOps
    /\ IsFiniteSet(Keys) /\ IsFiniteSet(Movements)
    /\ Rank \in [Keys -> 1 .. Cardinality(Keys)]
    /\ \A j, k \in Keys : Rank[j] = Rank[k] => j = k
    /\ Twins \in [Keys -> SUBSET Keys] /\ \A k \in Keys : k \notin Twins[k]
    /\ Covers \in [Keys -> SUBSET Keys] /\ \A k \in Keys : k \in Covers[k]
    /\ Quantities \subseteq Nat \ {0} /\ MinQty \in Int /\ MaxQty \in Nat

VARIABLES
    stock,       \* the rows of stocks
    moves,       \* the rows of stock_movements
    req          \* the requests in flight

vars == <<stock, moves, req>>

-----------------------------------------------------------------------------
StockRow == [key : Keys \cup {None}, onHand : Int, reserved : Nat, available : Int]
NoRow == [key |-> None, onHand |-> 0, reserved |-> 0, available |-> 0]

\* RETURN counts as receipt and WRITE_OFF as issue
Movement == [kind : {"receipt", "issue", "transfer", "adjustment"},
             from : Keys \cup {None}, to : Keys \cup {None}, qty : Nat]
NoMove == [kind |-> "adjustment", from |-> None, to |-> None, qty |-> 0]

\* move: the movement to post or to delete; id: the one to delete; keys: the
\* advisory locks; todo: the keys whose rows are still to select; found: what
\* the select at work has found; rows: the rows locked; seen: what was read
NoReq == [op |-> "none", pc |-> "idle", move |-> NoMove, id |-> None, keys |-> {},
          todo |-> {}, found |-> {}, rows |-> {}, seen |-> [x \in Rows |-> NoRow]]

Init ==
    /\ stock = [x \in Rows |-> NoRow]
    /\ moves = [m \in Movements |-> NoMove]
    /\ req = [r \in Reqs |-> NoReq]

Posting == {"entry", "issue", "transfer", "plain"}
Stale == {"adjust", "delete_stock"}

\* An adjustment has one place, the destination if there is one.
Place(m) == IF m.to # None THEN m.to ELSE m.from
Sides(m) == IF m.kind = "adjustment" THEN {Place(m)} \ {None} ELSE {m.from, m.to} \ {None}

\* What a movement adds to key k, as crud/inventory.py applies it.
Effect(m, k) ==
    IF m.kind = "adjustment" THEN (IF k = Place(m) THEN m.qty ELSE 0)
    ELSE (IF k = m.to THEN m.qty ELSE 0) - (IF k = m.from THEN m.qty ELSE 0)

Delta(r, k) == IF req[r].op = "delete_movement" THEN - Effect(req[r].move, k)
               ELSE Effect(req[r].move, k)

Selects(r, k) == IF req[r].op = "delete_movement" THEN Covers[k] ELSE {k}

SourceFirst(m, S) == IF m.from \in S THEN m.from ELSE m.to
Sorted(m, S) == IF {m.from, m.to} \subseteq S /\ Rank[m.to] < Rank[m.from] THEN m.to
                ELSE SourceFirst(m, S)

\* Advisory locks are taken in the order of the keys. The rows of a transfer
\* are selected in that order too, those of a plain movement and of a
\* reversal source first.
FirstIdentity_Source(m, S) == SourceFirst(m, S)
FirstIdentity(m, S) == Sorted(m, S)
NextIdentity(r) == FirstIdentity(req[r].move, Sides(req[r].move) \ req[r].keys)
NextKey(r) == IF req[r].op = "transfer" THEN Sorted(req[r].move, req[r].todo)
              ELSE SourceFirst(req[r].move, req[r].todo)

RowsHeldByOthers_Unlocked(r) == {}
RowsHeldByOthers(r) == UNION {req[q].rows : q \in Reqs \ {r}}

Move(r, x) == req' = [req EXCEPT ![r] = x] /\ UNCHANGED <<stock, moves>>
Finish(r) == req' = [req EXCEPT ![r] = NoReq]
Reject(r) == Move(r, NoReq)

\* A new row or movement takes an identifier that nobody has seen.
UnusedRow(x) == stock[x] = NoRow /\ \A q \in Reqs : x \notin req[q].found \cup req[q].rows
UnusedId(m) == moves[m] = NoMove /\ \A q \in Reqs : req[q].id # m

-----------------------------------------------------------------------------
(* Calls. *)

\* pg_advisory_xact_lock, or nothing where the dialect has no such lock
Granted_Always(r, k) == TRUE
Granted(r, k) == \A q \in Reqs : k \notin req[q].keys

\* A call that waits for its first lock has read nothing that counts: it
\* begins when it gets that lock.
Holding(r, m, keys) ==
    [req[r] EXCEPT !.keys = keys, !.pc = IF Sides(m) \subseteq keys THEN "rows" ELSE "keys"]

CallPost(r, op, m) ==
    /\ req[r] = NoReq /\ op \in Ops
    /\ Granted(r, FirstIdentity(m, Sides(m)))
    /\ Move(r, [Holding(r, m, {FirstIdentity(m, Sides(m))}) EXCEPT
                !.op = op, !.move = m, !.todo = Sides(m)])

Receipt(k, q) == [kind |-> "receipt", from |-> None, to |-> k, qty |-> q]
Issue(k, q) == [kind |-> "issue", from |-> k, to |-> None, qty |-> q]
Transfer(j, k, q) == [kind |-> "transfer", from |-> j, to |-> k, qty |-> q]
Adjustment(j, k, q) == [kind |-> "adjustment", from |-> j, to |-> k, qty |-> q]

StockEntry(r) == \E k \in Keys, q \in Quantities : CallPost(r, "entry", Receipt(k, q))
StockIssue(r) == \E k \in Keys, q \in Quantities : CallPost(r, "issue", Issue(k, q))
StockTransfer(r) == \E j \in Keys, q \in Quantities : \E k \in Twins[j] :
    CallPost(r, "transfer", Transfer(j, k, q))

\* A movement posted by itself, of any kind, whatever is there: nothing keeps
\* the two warehouses of a transfer apart, as stock_transfer does.
CreateMovement(r) == \E k \in Keys, q \in Quantities :
    \E m \in {Receipt(k, q), Issue(k, q), Adjustment(None, k, q), Adjustment(k, None, q)}
             \cup {Transfer(j, k, q) : j \in Twins[k] \cup {k}} : CallPost(r, "plain", m)

\* The endpoint loads the row, the permission check reads it, and the service
\* selects it again with a lock.
CallRow(r, op, x) ==
    /\ req[r] = NoReq /\ op \in Ops /\ stock[x] # NoRow
    /\ Move(r, [req[r] EXCEPT !.op = op, !.pc = "wait", !.found = {x}, !.seen[x] = stock[x]])

AdjustStock(r) == \E x \in Rows : CallRow(r, "adjust", x)
DeleteStock(r) == \E x \in Rows : CallRow(r, "delete_stock", x)

\* Sales orders lock a row and read it under the lock.
CallOrder(r, op, x) ==
    /\ req[r] = NoReq /\ op \in Ops /\ stock[x] # NoRow
    /\ x \notin RowsHeldByOthers(r)
    /\ Move(r, [req[r] EXCEPT !.op = op, !.pc = "commit", !.rows = {x}, !.seen[x] = stock[x]])

ReserveRow(r) == \E x \in Rows : CallOrder(r, "reserve", x)
ReleaseRow(r) == \E x \in Rows : CallOrder(r, "release", x)

DeleteMovement(r) == \E m \in Movements :
    /\ req[r] = NoReq /\ "delete_movement" \in Ops /\ moves[m] # NoMove
    /\ Move(r, [req[r] EXCEPT !.op = "delete_movement", !.pc = "rows", !.id = m,
                              !.move = moves[m], !.todo = Sides(moves[m])])

-----------------------------------------------------------------------------
(* Locks. *)

\* the second identity of a transfer
LockIdentity(r) ==
    /\ req[r].pc = "keys" /\ Granted(r, NextIdentity(r))
    /\ Move(r, Holding(r, req[r].move, req[r].keys \cup {NextIdentity(r)}))

\* The row that a select finds, once its lock is granted. scalar_one_or_none
\* fails on two rows; a row that was named must exist.
Locked(r, found) ==
    LET got == {x \in found : stock[x] # NoRow}
        todo == req[r].todo \ {NextKey(r)}
        seen == [x \in Rows |-> IF x \in got /\ req[r].op \notin Stale THEN stock[x]
                                ELSE req[r].seen[x]]
    IN IF (req[r].todo = {} /\ got = {}) \/ (\E x, y \in got : x # y)
       THEN Reject(r)
       ELSE Move(r, [req[r] EXCEPT !.rows = @ \cup got, !.found = {}, !.seen = seen,
                     !.todo = todo, !.pc = IF todo = {} THEN "commit" ELSE "rows"])

Matching(r) == {x \in Rows : stock[x].key \in Selects(r, NextKey(r))}

Select(r) ==
    /\ req[r].pc = "rows"
    /\ IF Matching(r) \cap RowsHeldByOthers(r) = {}
       THEN Locked(r, Matching(r))
       ELSE Move(r, [req[r] EXCEPT !.pc = "wait", !.found = Matching(r)])

Lock(r) ==
    /\ req[r].pc = "wait" /\ req[r].found \cap RowsHeldByOthers(r) = {}
    /\ Locked(r, req[r].found)

-----------------------------------------------------------------------------
(* Commits. A flush writes the columns that differ from what was loaded.   *)

Written(x, s, h) == [stock[x] EXCEPT
    !.onHand = h,
    !.available = IF h - s.reserved = s.available THEN @ ELSE h - s.reserved]

\* The row that r has locked for key k, if it found one.
Found(r, k) == {x \in req[r].rows : req[r].seen[x].key \in Selects(r, k)}
InRange(f) == \A x \in Rows : f[x].onHand <= MaxQty /\ f[x].onHand >= MinQty

\* stock_issue and stock_transfer want the goods to be available
Covered(r) ==
    req[r].op \in {"issue", "transfer"} =>
        \E x \in Found(r, req[r].move.from) : req[r].seen[x].available >= req[r].move.qty

\* new[k] is the row inserted for a key without one
Posted(r, new) == [x \in Rows |->
    IF \E k \in Sides(req[r].move) : x = new[k]
    THEN LET k == CHOOSE k \in Sides(req[r].move) : x = new[k]
         IN [key |-> k, onHand |-> Delta(r, k), reserved |-> 0, available |-> Delta(r, k)]
    ELSE IF \E k \in Sides(req[r].move) : x \in Found(r, k)
    THEN LET k == CHOOSE k \in Sides(req[r].move) : x \in Found(r, k)
         IN Written(x, req[r].seen[x], req[r].seen[x].onHand + Delta(r, k))
    ELSE stock[x]]

\* The two sides are one key, which has no row.
AddsTwice(r) ==
    req[r].move.kind = "transfer" /\ req[r].move.from = req[r].move.to /\ req[r].rows = {}

CommitPost(r) ==
    /\ req[r].op \in Posting /\ req[r].pc = "commit" /\ Covered(r) /\ ~AddsTwice(r)
    /\ \E m \in Movements, new \in [Sides(req[r].move) -> Rows \cup {None}] :
         /\ UnusedId(m)
         /\ \A k \in Sides(req[r].move) : (new[k] = None) <=> (Found(r, k) # {})
         /\ \A k \in Sides(req[r].move) : new[k] # None => UnusedRow(new[k])
         /\ \A j, k \in Sides(req[r].move) : new[j] = new[k] /\ new[j] # None => j = k
         /\ InRange(Posted(r, new))
         /\ stock' = Posted(r, new)
         /\ moves' = [moves EXCEPT ![m] = req[r].move]
    /\ Finish(r)

\* Taking from a key and adding to it both find no row, as nothing is flushed
\* in between, and each adds one.
CommitToItself(r) ==
    /\ req[r].op \in Posting /\ req[r].pc = "commit" /\ Covered(r) /\ AddsTwice(r)
    /\ \E m \in Movements, x, y \in Rows :
         LET Opened(q) == [key |-> req[r].move.to, onHand |-> q, reserved |-> 0, available |-> q]
         IN /\ UnusedId(m) /\ UnusedRow(x) /\ UnusedRow(y) /\ x # y
            /\ stock' = [stock EXCEPT ![x] = Opened(- req[r].move.qty),
                                      ![y] = Opened(req[r].move.qty)]
            /\ InRange(stock')
            /\ moves' = [moves EXCEPT ![m] = req[r].move]
    /\ Finish(r)

CommitAdjust(r) ==
    /\ req[r].op = "adjust" /\ req[r].pc = "commit"
    /\ \E m \in Movements, x \in req[r].rows, h \in 0 .. MaxQty :
         LET s == req[r].seen[x] IN
         /\ UnusedId(m) /\ h # s.onHand
         /\ stock' = [stock EXCEPT ![x] = Written(x, s, h)]
         /\ moves' = [moves EXCEPT ![m] =
                        IF h > s.onHand THEN Adjustment(None, s.key, h - s.onHand)
                        ELSE Adjustment(s.key, None, s.onHand - h)]
    /\ Finish(r)

CommitDeleteStock(r) ==
    /\ req[r].op = "delete_stock" /\ req[r].pc = "commit"
    /\ \E x \in req[r].rows : /\ req[r].seen[x].onHand = 0
                              /\ stock' = [stock EXCEPT ![x] = NoRow]
    /\ Finish(r) /\ UNCHANGED moves

\* A reversal below zero is refused; a key without a row is skipped. The
\* movement goes, or was gone.
CommitDeleteMovement(r) ==
    /\ req[r].op = "delete_movement" /\ req[r].pc = "commit"
    /\ LET new == Posted(r, [k \in Sides(req[r].move) |-> None]) IN
         /\ \A k \in Sides(req[r].move), x \in Rows : x \in Found(r, k) => new[x].onHand >= 0
         /\ InRange(new)
         /\ stock' = new
    /\ moves' = [moves EXCEPT ![req[r].id] = NoMove]
    /\ Finish(r)

CommitReserve(r) ==
    /\ req[r].op = "reserve" /\ req[r].pc = "commit"
    /\ \E x \in req[r].rows, q \in Quantities :
         LET s == req[r].seen[x] IN
         /\ s.available >= q /\ s.reserved + q <= MaxQty   \* bound
         /\ stock' = [stock EXCEPT ![x].reserved = s.reserved + q,
                                   ![x].available = s.available - q]
    /\ Finish(r) /\ UNCHANGED moves

\* without min()
CommitRelease_Unbounded(r) ==
    /\ req[r].op = "release" /\ req[r].pc = "commit"
    /\ \E x \in req[r].rows, q \in Quantities :
         LET s == req[r].seen[x] IN
         stock' = [stock EXCEPT ![x].reserved = s.reserved - q,
                                ![x].available = s.onHand - (s.reserved - q)]
    /\ Finish(r) /\ UNCHANGED moves

CommitRelease(r) ==
    /\ req[r].op = "release" /\ req[r].pc = "commit"
    /\ \E x \in req[r].rows, q \in Quantities :
         LET s == req[r].seen[x] IN
         /\ s.reserved >= q
         /\ stock' = [stock EXCEPT ![x].reserved = s.reserved - q,
                                   ![x].available = s.onHand - (s.reserved - q)]
    /\ Finish(r) /\ UNCHANGED moves

\* A refusal, an error, a closed connection or a deadlock victim: rolled back.
Abort(r) == req[r] # NoReq /\ Reject(r)

Start(r) ==
    \/ StockEntry(r) \/ StockIssue(r) \/ StockTransfer(r) \/ CreateMovement(r)
    \/ AdjustStock(r) \/ DeleteStock(r) \/ ReserveRow(r) \/ ReleaseRow(r)
    \/ DeleteMovement(r)
\* an UPDATE that matches no row is an error
Commit(r) ==
    /\ \A x \in req[r].rows : stock[x] # NoRow
    /\ \/ CommitPost(r) \/ CommitToItself(r) \/ CommitAdjust(r) \/ CommitDeleteStock(r)
       \/ CommitDeleteMovement(r) \/ CommitReserve(r) \/ CommitRelease(r)

Next == \E r \in Reqs : Start(r) \/ LockIdentity(r) \/ Select(r) \/ Lock(r) \/ Commit(r) \/ Abort(r)
Spec == Init /\ [][Next]_vars
-----------------------------------------------------------------------------
(* Properties. *)

Request ==
    [op : AllOps \cup {"none"}, pc : {"idle", "keys", "rows", "wait", "commit"},
     move : Movement, id : Movements \cup {None}, keys : SUBSET Keys, todo : SUBSET Keys,
     found : SUBSET Rows, rows : SUBSET Rows, seen : [Rows -> StockRow]]

\* Every variable stays within its type.
TypeOK ==
    /\ stock \in [Rows -> StockRow]
    /\ moves \in [Movements -> Movement]
    /\ req \in [Reqs -> Request]

\* No identity has two rows, although two first receipts both find none and
\* no unique constraint exists: the advisory locks of inventory_locking.py do
\* it. A second row would fail every later call. Only without movements posted
\* by themselves.
OneRowPerIdentity ==
    \A x, y \in Rows : stock[x].key # None /\ stock[x].key = stock[y].key => x = y

\* With every endpoint in use an identity has two rows only while a transfer
\* from its warehouse to itself stands in the ledger: no two calls ever insert
\* a row each, and such a transfer cannot be deleted while both rows are there.
TwoRowsFromOneTransfer ==
    \A x, y \in Rows : stock[x].key # None /\ stock[x].key = stock[y].key /\ x # y =>
        \E m \in Movements : /\ moves[m].kind = "transfer"
                             /\ moves[m].from = stock[x].key /\ moves[m].to = stock[x].key

\* While rows are only posted to and reserved, nothing is negative, no more
\* is promised than is there, and the stored available quantity, which every
\* check trusts, is the difference.
BalancesAgree ==
    \A x \in Rows : /\ stock[x].available = stock[x].onHand - stock[x].reserved
                    /\ stock[x].available >= 0

\* "Stock cannot go negative" (services/inventory_service.py:5).
NeverNegative == \A x \in Rows : stock[x].onHand >= 0

Waits(r) ==
    \/ req[r].pc = "keys" /\ ~Granted(r, NextIdentity(r))
    \/ req[r].pc = "wait" /\ req[r].found \cap RowsHeldByOthers(r) # {}

\* As long as calls are in flight one of them is not waiting for a lock: two
\* transfers in opposite directions never wait for each other.
SomeoneProceeds ==
    (\E r \in Reqs : req[r] # NoReq) => \E r \in Reqs : req[r] # NoReq /\ ~Waits(r)

\* Goods that an issue or a transfer takes out of a row are available in it
\* at the very commit, whatever other calls have done since the check.
TakesOnlyAvailable ==
    [][\A r \in Reqs, x \in Rows :
         /\ req[r].op \in {"issue", "transfer"} /\ req'[r] = NoReq
         /\ stock'[x].onHand < stock[x].onHand
         => stock[x].available >= stock[x].onHand - stock'[x].onHand]_vars

\* By identity: the goods in its row, those promised, and what the movements
\* brought less what they took.
RowsOf(k) == {x \in Rows : stock[x].key = k}
Quantity == [k \in Keys |-> Sum([x \in RowsOf(k) |-> stock[x].onHand])]
Promised == [k \in Keys |-> Sum([x \in RowsOf(k) |-> stock[x].reserved])]
Added(m, k) == IF Effect(m, k) > 0 THEN Effect(m, k) ELSE 0
Taken(m, k) == IF Effect(m, k) < 0 THEN - Effect(m, k) ELSE 0
PostedTo == [k \in Keys |-> Sum([m \in Movements |-> Added(moves[m], k)])
                            - Sum([m \in Movements |-> Taken(moves[m], k)])]

Book == INSTANCE StockBook WITH quantity <- Quantity, promised <- Promised, posted <- PostedTo

\* Entries, issues, transfers and reservations keep the book of stock: the
\* movements explain every quantity, transfers are not seen half done, and
\* promised goods stay.
ImplementsBook == Book!Spec
=============================================================================
