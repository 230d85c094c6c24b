# Verification of the FMCG ERP backend

TLA+ models of the transactional core of the ERP (`src/backend/app`), TLC runs on small instances, and theorems that
TLAPS proves for every instance.

## 1. The system

The backend is a FastAPI application on asynchronous SQLAlchemy and PostgreSQL. Several worker processes serve requests;
each request owns a session, that is one transaction at READ COMMITTED (`db/session.py`: `autoflush=False`,
`expire_on_commit=False`). An endpoint reads, writes and commits; an exception, a timeout (`main.py`) or a killed worker
rolls back. Nothing else serialises requests: what is correct about the system rests on row locks (`FOR UPDATE`),
advisory locks, unique constraints and foreign keys, and every hard behaviour is an interleaving of transactions. The
only background activity is the webhook dispatcher, one task per worker.

| Part | State | Operations | Interacts with | Hard behaviour | Correct means |
|---|---|---|---|---|---|
| Login sessions (`services/auth_refresh_tokens.py`, `core/deps.py`, `endpoints/auth.py`) | `auth_refresh_tokens`, `users.auth_session_version` | login, refresh, authenticate, logout, logout-all | every endpoint authenticates through it; the audit log locks its users | rotations, replays and revocations of one family overlap; lost responses; idle and absolute limits; lock order | one live token per session, replay and logout final, limits never extended |
| Sales fulfilment (`services/sales_service.py`, `endpoints/sales.py`) | orders, lines, shipments, invoices, payments | create, confirm, allocate, cancel, ship, pick, dispatch, invoice, pay | stock rows it reserves and deducts | handlers validate objects loaded before they take the lock; retried dispatch | an order is reserved and shipped once, stock and documents agree |
| Stock ledger (`services/inventory_service.py`, `crud/inventory.py`) | `stock`, `stock_movements`, `lots` | entry, issue, transfer, adjust, delete, reverse a movement | called by sales, procurement, production, WMS, QMS | read before the lock, used after it; deadlocks of multi-row locks | quantity never negative, available = on hand - reserved, ledger explains the stock |
| Webhook outbox (`services/webhook_service.py`, `webhook_dispatcher.py`) | events, attempts, subscriptions | publish, claim, send, retry, replay | business services stage events in their transaction | several dispatchers, crash between the call and its commit, retries | nothing sent before its commit, every delivery settled, one chain of attempts per delivery |
| Lockout and blocklist (`core/login_limiter.py`, `core/token_blocklist.py`) | Redis or process memory | count, lock, revoke | login, authentication | fallback store differs per worker | a locked account stays locked |
| Procurement to payment (`procurement_service.py`, `invoice_match_service.py`, `finance_service.py`, `endpoints/finance.py`) | purchase orders, agreements, goods receipts, matches, purchase invoices | receive, value, match, rerun, review, post, pay | stock ledger, general ledger | overlapping receipts, a match of documents that change, lock order over five operations | each receipt counts once, agreements are kept, no receipt is cleared twice, nothing overpaid |
| Finance | journals, posting events, periods | post, reverse, close | every operational service | double posting, closing while posting | balanced journals, one posting per source document |
| Production, shop floor | orders, operations, history | release, start, report, complete | stock, quality | concurrent reports | history is append-only and follows the state machine |
| Approvals, WMS, cycle count, QMS, recall, shelf life, bank reconciliation, M-Pesa, subscriptions, subcontracting | status fields and lines | status transitions | stock, finance | stale status checks | each transition from its source state, once |
| Planning (MPS, MRP, BOM), utilities, HR, AI, reports, integrations, frontend | results and records | calculations, record keeping | - | - | functional correctness, not concurrency |

`PROJECT.json` lists every part with its sources and the reason why it is or is not modelled, and the hazards with the
line where each one bites.

## 2. Modules

| Module | Models |
|---|---|
| `SessionRegistry` | what the session service promises: open once, one carrier, hand over to a never-used token, closed for good |
| `RefreshSessions` | the refresh-token service and its endpoints, transaction step by transaction step |
| `StockAccount` | what the sales side promises about the stock of a warehouse: promise only what is there, issue only what is there |
| `SalesFulfilment` | sales orders and shipments from confirmation to invoice on the stock rows |
| `StockBook` | what the inventory service promises: quantity and sum of movements change together, no call takes what another was promised |
| `StockLedger` | the inventory endpoints on stock rows that may not exist yet, with advisory and row locks |
| `Outbox` | what the webhook outbox promises: at least once, nothing before its commit, everything settled at last |
| `WebhookDelivery` | publishing, dispatchers, retries by hand and replays, with crashes and lost answers |
| `Accrual` | what receiving and invoicing owe the books: accrued, taken off once, paid at most in full |
| `ProcureToPay` | receipts, valuation, three-way match, review, posting and payment under their lock order |
| `Sums` | sums over finite domains, counted unit by unit |
| `MC<module>` | small instances for TLC |
| `<module>_proofs` | the inductive invariant of each of the five detailed modules and the theorems |
| `SessionRows_proofs`, `SalesBooks_proofs` | what `RefreshSessions` and `SalesFulfilment` guarantee beyond their locks: the rows of a session, the books of the sales side, the refinements, who waits for whom |
| `Sums_proofs` | facts about sums and finite sets that most of the others rest on |

Each detailed module has its abstract one as an INSTANCE under a refinement mapping, and a property `Implements...` that
a run checks. The five detailed modules meet in rows and not in calls: `SalesFulfilment` and `StockLedger` both act on
the stock rows, the latter with the reservations of the former as two of its operations; a receipt of `ProcureToPay`
enters stock as `StockLedger`'s entry does, inside the same transaction.

In all modules a step of a request is what happens between two points where another transaction can come in: acquiring a
lock, a statement that reads committed data, the commit. `req[r]` (`proc[p]` for webhooks) is a transaction in flight,
its locks and what it has read or written and not yet committed; `NoReq` is idle. `Abort` is any rollback: a refusal, a
timeout, a lost connection, a killed worker, a deadlock victim. Definitions named `X_Something` stand before `X` and
hold one plausible slip each (a dropped lock, an off-by-one, a missing reset). Substituting one for `X` makes a run
fail; they are not part of the specification.

### RefreshSessions

`tok` holds the committed rows of `auth_refresh_tokens`, `version`, `active` and `compliant` the columns of `users` the
code consults, `jwts` the access JWTs handed out, `now` the database clock, `pend[r]` the uncommitted rows of a request.
Reads see `tok`, writes go to `pend`, `Commit` installs them and hands out the JWT. Locks are PostgreSQL's: `FOR UPDATE`
of the user row excludes the `KEY SHARE` that a foreign key check of an audit row takes, and a family has one advisory
lock.

Clients are unconstrained: any request may present any token or JWT ever issued, any number of times. The password
check, cookies, the JWT's own expiry and the blocklist are left out, which only adds behaviours. `loginAt` and
`loginVer` record history for the properties and are read by no guard.

### SalesFulfilment

`status` is `sales_orders.status`; `allocated` and `shipped` are the two counters of an order line; `ship[s]` is a
shipment with its lines, the picked ones, the number of times its ISSUE movements were written and the number of its
invoices; `stock[x]` is a row of `stock` (`onHand`, `reserved`, `available`, all three stored columns). Nothing is
committed before the last step of a call, so that step changes the tables at once.

There are two kinds of calls. Confirming, creating a shipment, starting to pick, delivering and invoicing check a status
loaded without a lock and write later, by primary key, whatever the row holds by then (`ConfirmStart` then
`ConfirmWrite`, and so on). SQLAlchemy writes only the columns that changed, so a stale write overwrites a status and
nothing else. Allocating, cancelling and dispatching lock the shipment (dispatch only), the order and the stock rows
(`LockShipment`, `LockOrder`, `LockRow` once per row, in any order), validate after each lock, and `Allocate`, `Cancel`
or `Dispatch` computes the columns from what was read with the locks (`seen`). `Blocks(q, r)` says when q keeps r
waiting. It covers the key-share locks of foreign keys: a new invoice or proof of delivery keeps `FOR UPDATE` out, an
uncommitted `FOR UPDATE` keeps them out.

`LastLineOnly` is what `autoflush=False` and `populate_existing` do together: the rows changed for one line of an
allocation are not flushed before the next line's locking SELECT overwrites them in the session, so of several lines of
one product the last one alone is stored. `Takes` lets a quantity be taken from the rows greedily in any row order,
because no SELECT has an `ORDER BY`.

Left out: prices, dates, credit limits, quality gates, prepayments (they only refuse a call, which `Abort` covers), a
second warehouse (a shipment's warehouse only selects rows), lots and blocked rows (they narrow the rows of a line),
editing of draft orders. The rows of the order lines have no locks of their own in the model: the lines a dispatch
updates belong to the order it has locked, unless the shipment carries lines of another order (nothing checks what is
shipped against the order), and then a dispatch can also wait, at its flush, for a row lock that the model does not
have. The statement on deadlocks excuses such dispatches by name (`CarriesOthers`).

### StockLedger

`stock[x]` is a row of `stocks` with its key, `moves[m]` a row of `stock_movements`. A key is a stock identity:
warehouse, item and lot. Entry, issue, transfer and the plain movement endpoint (`CallPost`) take the advisory lock of
every key they touch, in the order of the keys as strings (`LockIdentity`), then select the rows (`Select`, and `Lock`
when a row is held by another), then commit. A select that waits locks the rows that it found before it waited: a row
inserted meanwhile is missed, one deleted is gone. `AdjustStock` and `DeleteStock` decide by the row that the endpoint
loaded before the lock (`Stale`), because a locking SELECT does not refresh an object the session already holds.
`Written` leaves out a column whose new value equals the loaded one. `ReserveRow` and `ReleaseRow` are what a sales
allocation and a cancellation do to one row. `stock_transfer` refuses a transfer from a warehouse to itself, the plain
movement endpoint does not: its two upserts in one session then find no row, as nothing is flushed in between, and each
adds one (`CommitToItself`). A plain movement is modelled with the warehouses its type needs and a positive quantity,
which the schema leaves to the caller.

`Ops` selects the endpoints in use, so that what holds while rows are only posted to (`BalancesAgree`, `ImplementsBook`)
is told apart from what holds with repairs in use too (`TwoRowsFromOneTransfer`, `TakesOnlyAvailable`). `Covers` is the
set of keys a reversal selects: every lot, when the movement names none.

### WebhookDelivery

`events` holds the keys of committed events, `rows` the delivery attempts, `received` what receivers have accepted.
`proc[p]` is a dispatcher (`Workers`) or a request made once (`Callers`). A publisher inserts the event with ON CONFLICT
DO NOTHING (`InsertEvent` waits for another insert of its key) and its first attempts. `ClaimPending` and `ClaimRetry`
lock with SKIP LOCKED; `Spawn` writes the repetition of an attempt before it is sent; `Call` is the HTTP request, inside
the transaction: accepted and confirmed, accepted with the answer lost, or not accepted. `CommitSend` records all calls
of the batch at once, and a `Crash`, an error or a lock cycle (`Victim`) before it forgets them although receivers may
have accepted. A replay locks its events in order, reads the last attempts from its snapshot, locks them, and skips
deliveries that are due by then (`Replayed`). An insert shares the lock of its event (the foreign key), a replay takes
it exclusively.

Left out: payloads, signatures, filters and schemas; which subscriptions match an event, when a retry is due and the
order in a batch are any choice. An answer that PostgreSQL cannot store (a NUL character) fails the batch outside the
try block (`webhook_service.py:819`); `Call` takes answers to be storable.

### ProcureToPay

`status`, `received`, `grn`, `consumed`, `match` and `invoice` are the columns of orders, order lines, receipts,
agreements, match headers (with lines and receipt links) and invoices that decide anything. A request locks the invoice,
then the order, then the blanket agreement (`Wanted`), reads under those locks and writes all at its commit. The
endpoint of a receipt loads it before the lock, and `StillDraft` is the refreshed test after it. `Judged` is the match:
what was received less what payable matches of other invoices bill (`Prior`), a verdict for each line, the gravest of
them for the invoice. An invoice has lines of its own (`Bills`), and several of them may ask for one order line (`On`):
the match judges each of them alone (`LineVerdict`) and the posting clears each of them alone (`ClearsOf`). `Fresh` is
what posting demands of an approved match: same receipts, all valued, same earlier bills. `Clears` is what posting takes
off the accrual. An order has one line of an item, since a match blocks an invoice whose item fits several. `StatusFor`
derives the order status from its lines.

Orders start placed: `procurement.py:356-383` offers marking an order ORDERED and cancelling it only under the action
"edit", which `PROCUREMENT_ACTION_STATUSES` (`procurement_service.py:183`) allows for drafts alone, so by the API no
order leaves APPROVED that way (lines 185 and 187 of the table say otherwise). Prices are exact, within or beyond
tolerance; a unit costs one; stock rows, cost layers and journals are written in the same transaction and left out.
`Late` says whether the match of a posted invoice may be rerun or reviewed. The code never asks, so `Late = TRUE` is the
code; with `Late = FALSE` the run and two theorems show what holds as long as nobody does it, for the order lines that
no invoice bills by two of its lines (`OnceBilled`). `Legacy` receipts were posted before valuation was part of posting;
a valuation that is refused because the goods have moved since is covered by `Abort`.

## 3. Runs

| Run | Question | Bounds |
|---|---|---|
| `sessions_locks` | do two overlapping requests ever break single succession, finality of replay and logout, totality of logout-all, the implementation of `SessionRegistry`? | one user, two sessions, three tokens, two requests, one logout-all, clock still |
| `sessions_time` | do the idle and absolute limits hold while the clock runs between any two steps, and which circles of waits are there? | one session, two tokens, two requests, lifetime 3, idle limit 2, clock to 3 |
| `fulfil_ship` | do row arithmetic, movements, allocations, reservations, shipped quantities and order status agree, which circles of waits are there, and do the rows implement `StockAccount`? | two orders of 1 and 2 pieces, two rows of 1, one shipment with lines of either or both orders, two requests |
| `fulfil_dispatched_twice` (violated) | is a shipment dispatched once? | one line, one shipment, two pieces |
| `ledger_book` | do entries, issues, transfers and reservations implement `StockBook`, keep balances and never wait in a circle? | two warehouses, two rows, four movements, quantity 1, two requests |
| `ledger_repair` | with plain movements, adjustments and deletions too, does an identity have two rows only by a transfer to its own warehouse, and is what a checked call takes there at its commit? | an item and a lot of it, two rows, two movements, two requests, no reservations |
| `ledger_negative` (violated) | does stock stay above zero? | one key, one row, five movements, two requests |
| `webhook_chains` | one event per key, one chain per delivery, one sender at a time? | two dispatchers, three requests, two events, one subscription with one retry, six attempts, a crash |
| `webhook_promise` | do the attempts implement `Outbox`, liveness included? | the same with one key and four attempts |
| `procure_pay` | do receiving, matching, reviewing, posting and paying keep the books and implement `Accrual`? | two orders of one agreement, three lines, three receipts (one legacy), two invoices with four lines, two on one order line, two requests, two runs of matches |
| `procure_cleared_twice` (violated) | do posted invoices clear no more than was received? | one line, one receipt, two invoices, one request |
| `procure_billed_twice` (violated) | does one invoice clear no more than was received, when no match is touched late? | one order line, one receipt, one invoice with two lines on it, one request |

Why these are enough. Two requests meet every pairwise conflict, and requests interact only through locks and committed
rows; what three or more could add is covered by the theorems, which have no bound. Three tokens give a chain with a
consumed predecessor, a live row and an insert in flight; two families give logout-all something to miss. A lifetime of
3 with an idle limit of 2 puts both boundaries and a clock tick at each of them inside the bound. An order of 2 on rows
of 1 makes an allocation span rows, and the stock is one piece short of the two orders together. With the single
shipment of `fulfil_ship` a second dispatch of it stands for a second partial shipment (the stale start-picking of the
finding makes it reachable). Two warehouses make transfers meet in opposite directions; an item and its lot make a
reversal select two rows (`MultipleResultsFound`). Six attempts let a retry, a replay and a retry by hand extend the
chains of two events. In `procure_pay` the receipts of two orders together exceed the agreement by one piece, the
invoices together bill more than arrives, the legacy receipt is one that blocks posting until it is valued, and one
invoice bills an order line twice, which the refinement leaves out, beside lines that it covers. `ledger_repair` does
without reservations, whose theorem (`Available`) covers all endpoints together. `MinQty`, `MaxQty`, `MaxShip`,
`Movements`, `Rows`, `Attempts`, `MaxCrashes` and `MaxRuns` bound the exploration and are no limits of the code;
`MaxRetries` and `Batch` are columns and settings of the code.

Fairness is assumed of webhooks alone: weak fairness of each process's work, which holds because a dispatcher polls for
ever (`webhook_dispatcher.py:72` catches what escapes a cycle), a claim skips locked rows instead of waiting for them,
and the database ends one of the transactions in a lock cycle. Publishing, replaying and retrying by hand need not
happen. That a session or sales call ends is not checked: assuming that the database ends one transaction of each
deadlock would assume most of it. What is checked, without fairness, is which deadlocks there are
(`DeadlocksHaveACause`), and what is proved is that nothing else keeps a call from its end (Progress, section 4).

`CHECK_DEADLOCK FALSE` stands where the system may stop: requests to publish, replay or retry are made once each, and
when all goods are received, billed and paid nothing more happens.

### Findings

- `fulfil_dispatched_twice`: `sales_service.py:488-489` says that a retry cannot dispatch a stale shipment twice.
  `start_picking` (447-449) checks `PENDING` on a shipment it did not lock; written after a dispatch it puts the
  shipment back to `PICKING`, and the next dispatch issues the goods again. Stock and shipped quantities still agree
  with the movements (`fulfil_ship`).
- `ledger_negative`: `inventory_service.py:5` says that stock cannot go negative. An adjustment computes the available
  quantity from the row loaded before the lock, and a flush leaves out a column that ends at its loaded value; after
  adjustments that overlap a reservation and its release, available exceeds on hand, and an issue trusts it.
- `procure_cleared_twice`: rejecting (or rerunning) the match of an invoice in the general ledger frees its quantity for
  the next invoice, which clears the same receipt again.
- `procure_billed_twice`: the match takes off what *other* invoices bill (`invoice_match_service.py:230`) and judges
  each line of an invoice by the same remainder, and posting clears each line against all receipts
  (`finance_service.py:760`). An invoice with two lines of one item, each for all that was received, is fully matched,
  posted and cleared twice. The audit criteria of the task
  (`coordination/sessions/M06.S03.T001/CHATGPT_AUDIT_CRITERIA_V01.md:12`) hold such an invoice from payment.

Met while modelling, without a run of their own (they have the same causes, or are deadlocks that the database
resolves):

- `auth_refresh_tokens.py:174-175` and `186-188` say that refresh takes the user lock before the family lock in the
  order every path uses. `revoke_refresh_family` (371) does not: logout takes the family lock and then flushes audit
  rows whose foreign key locks the user row. A refresh of the same session can deadlock with it: it is one of the two
  causes that `DeadlocksHaveACause` names, and TLC reaches it in the instance of `sessions_time`.
- `sales_service.py:633-634` refuses a second invoice of a shipment on data loaded without a lock and without a unique
  constraint behind it: two overlapping calls both invoice. The same shape lets a stale confirmation (308) overwrite
  `CANCELLED` or `ALLOCATED`, and two pickers (472) who finish the last two lines both miss that they are done.
- `sales_service.py:364`: of two lines of one product only the last one is reserved (`LastLineOnly`).
  `ReservationsMatchAllocations` is checked where orders have one line per product.
- `sales_service.py:563`: a dispatch needs goods on hand, not a reservation, and lowers the reserved quantity of the row
  whoever it belongs to.
- `crud/inventory.py:126-138`: a plain transfer from a warehouse to itself opens two rows of one identity, one of them
  negative, where `docs/user-manual/module-manuals/supply-chain/07-inventory-stock.md:13` says "Each stock record
  (position) represents a unique combination of product + warehouse + lot number." `TwoRowsFromOneTransfer` shows that
  this is the only way to two rows. They are not removed by deleting the movement, whose reversal then finds several
  rows and refuses.
- `inventory_service.py:421`: a row is deleted although a receipt came in after it was loaded. `511`, `508` and `461`:
  the deletion of a movement of a write-down adds or subtracts the wrong way or twice. `crud/inventory.py:106`: plain
  movements subtract without a check. `ledger_repair` includes all of them, and what it checks holds in spite of them.
- `invoice_match_service.py:179` with `finance_service.py:721`: an approved match whose receipts or earlier bills have
  changed can be neither posted nor rerun. A receipt line that was rejected in full is never valued and keeps the
  invoices of its line from being posted.
- The approval of a purchase order writes its status over a cancellation committed meanwhile.

## 4. Theorems

Every theorem holds for any sets of requests, rows, documents and limits, from the module's named assumption (`None` is
no id, quantities are naturals, sums are over finite sets, documents refer to each other within their sets) and from
what its statement assumes besides, which is named below.

**`RefreshSessions_proofs`**: `TypeOK`, `SoleLiveToken`, `LogoutAllIsTotal` and the action property `ClosedForGood`.
None is inductive: what a commit does was decided earlier, from rows that may have changed. `IInv` adds what the locks
guarantee about a decision still in `pend`: *Shape* (what the program counter says about locks held), *Versions* (the
version read, and the families listed, under the user lock are still right), *OldWrites* (an uncommitted change of a row
needs its family's lock and only ever consumes or revokes), *NewWrites* (an uncommitted successor leaves no other live
row behind, and its family cannot be closed meanwhile) and *Apart* (two requests share no lock and no new row).
`NewWrites` and `Apart` together are the reason a commit cannot add a second live row or revive a closed family. Steps
that leave the tables alone go through `QuietStep`, `ReadStep` or `RevokeStep`, so that only `Commit` and `TouchActive`
argue about rows.

**`SessionRows_proofs`**: the remaining safety properties of the sessions (`NoActivityPastLifetime`, `IdleJudgedAlike`,
`SuccessorChain`, `JwtKeepsLoginVersion`, `RowsOnlyAge`, `NoActivityAfterIdle`, `ReplayKillsFamily`) and the refinement
`ImplementsRegistry`. On top of `IInv`, which says that a pending commit cannot be overtaken, `RInv` says what is in it.
*Ages*: an expiry counts from the login and activity lies before it. *Committed*: the rows of a family agree on login
and activity, are chained, and carry the version of the family's JWTs. *Newcomer*: an uncommitted new row continues its
family's login and comes with a stamp of every row that it leaves behind. *Change*: an uncommitted change only ages a
row and links the one that it consumes to the new one. *Replay*: a refresh that found its token consumed revokes the
family. The refinement follows commit by commit: an insert alone opens, an insert with a consumed row hands over,
revocations close.

**`SalesFulfilment_proofs`**: `TypeOK` (no stock column is ever negative), `StockArithmetic` and `AllocatedMeansAll`.
`StockArithmetic` is not inductive: a row is computed from what was read earlier. `IInv` has two halves. *RowInv*: what
a request read of a row it holds is still what the row is (`SeenIsCurrent`), rows it does not hold are blank to it, and
two requests hold no common row. *OrderInv*: of the requests that have entered the order lock, no two are about one
order (`OrdersExclusive`), so what an allocation computed is still what the order needs (`NeedIsCurrent`) and a
cancellation touches only its own lines and takes back all of them (`CancelsOwnLines`, `CancelsWholeOrder`): an order
holds all that it needs or nothing. `StoredRows` says that rows only their holder changed, to sound ones, keep the first
half; `OwnOrder` that the holder of an order lock may change its lines and status, within bounds, without disturbing the
second. The stale writes of statuses go through `StatusInv`: they never turn an order into an allocated one.
`ShippedMeansAllShipped` needs only that shipped quantities grow: a writer that once saw its order complete is right to
call it so later (`ShippedInv`). `OnlyLateStartsDispatchTwice` is the other side of the finding of section 3: if every
start of picking finds its shipment still pending (`StartsHitPending`), no shipment is dispatched twice. The invariant
`OnceInv` says that a shipment has left stock once if it is dispatched or delivered and never otherwise, that one
request at most is past the lock of a dispatch, and that whoever is about to pack, dispatch or deliver still finds the
status it checked: the lock of the picked line keeps a dispatch away from a pending packing, the foreign key of the
proof of delivery from a delivery.

**`SalesBooks_proofs`**: `ShipmentsLedgered`, `ReservationsMatchAllocations` and the refinement `ImplementsAccount`. To
`IInv` it adds what the computed quantities stand for (`Purpose`: a dispatch moves what its shipment says, a
cancellation gives back what its lines hold), and then proves for each commit that both sides of an equation change by
the same sum. `ReservationsMatchAllocations` is a theorem under `OneLineEach` (no order has two lines of a product), the
case that the code gets right; the finding about two lines is in section 3. Its last part is about progress, see below.

**`StockLedger_proofs`**: `TypeOK`, `TwoRowsFromOneTransfer` and the action property `TakesOnlyAvailable` with every
endpoint in use; `OneRowPerIdentity` without plain movements (`OneRow`); `BalancesAgree`, `SomeoneProceeds` and the
refinement `ImplementsBook` under `Ops \subseteq Sound` (entries, issues, transfers, reservations, releases). That two
rows have one cause is not inductive, because the commit inserts what an earlier select did not find. `IInv` says that a
request in `Posting` that is past its selects either has the row of each of its keys or knows that there is none
(`Good`), which stays true because it holds the advisory lock of the key (`Exclusive`) and nobody without that lock
inserts. Two rows of a key come from a transfer to itself (`Explained`), and while both are there its deletion is
refused (`Blocked`). A select that waits has found the row of its key already, if there is one. Rows read under a lock
are unchanged, except for adjustments and deletions, which is where the assumption of the last three comes from.
`SomeoneProceeds` rests on `Orderly`: a call that awaits a key holds only smaller ones, and holds or awaits rows of its
own keys alone. Of the calls that wait, the one with the greatest key waits for nobody; there is one because the keys
are finitely many. `StockNotNegative` is the other side of the finding on negative stock: without adjustments and
movements posted by themselves (`Ops` without `"adjust"` and `"plain"`), no quantity is ever negative, with deletions
and reversals in use.

**`WebhookDelivery_proofs`**: `TypeOK`, `OneEventPerKey`, `OneChain`, `OpenIsLast` and `OneSenderAtATime`. `RowInv` says
what a chain is: numbered, linked, with one attempt that nobody repeats, its last; what is due is such an attempt.
`ProcInv` says who may extend it: a sender holds the last attempt of each delivery that it sends or repeats, or has
written the repetition of one that it holds (`Sending`); a publisher alone writes first attempts of an event that is not
committed (`Publishing`); a replay that has locked its events sees all their last attempts, and nobody else can add one
(`Replaying`); two transactions share no attempt, no event lock and no key (`Apart`). `Grow` proves that attempts added
at the ends of chains keep `RowInv`, once for all commits; `Moves` and `Commits` that a step leaves the others' part
intact. `PromisesAreKept` is the refinement of `Outbox` without its fairness: a transaction records as sent only what
was accepted (`SentReceived`), and each commit only settles a delivery that is owed or makes one owed again (`Settles`).

**`ProcureToPay_proofs`**: `TypeOK` (nothing is overpaid), `EachReceiptOnce`, `StatusFollowsReceipts`, `AgreementKept`,
`ApprovedAsSeen` and `NoCircularWait` with no assumption on `Late`; that no order line of `OnceBilled` is cleared beyond
what was received (`NoReceiptClearedTwice`) and the refinement `ImplementsAccrual`, whose accrual is that of those
lines, under `~Late`. `NoCircularWait` is about the locks of invoices, orders and agreements: a receipt also takes
advisory locks of stock identities and of the receiving gate, which are outside the model, so nothing is said of a
receipt against inventory calls. `ApprovedAsSeen` is about the run of the match and says nothing of what is posted on
it. A request holds exactly the locks that its place says (`Shape`, `HeldBy`) and no two hold one (`Exclusive`), so what
it read is still true at its commit (`Current`), and each commit keeps the documents (`DocInv`). Deadlock freedom
follows from `Shape`: the request of a circle furthest along the order invoice, order, agreement waits for nobody. For
the accrual, `ClearInv` adds that every posted invoice is counted by the matches of the others (`PostedCounted`), which
is what `Late` breaks, and that what a posting is about to clear is still covered (`Covered`). Of an order line in
`OnceBilled` an invoice clears what its one line takes (`OneBillCleared`); with two, each may take all of it, which is
what `procure_billed_twice` shows. The refinement is proved step by step: a receipt or a valuation accrues, a posting
posts, a payment pays, everything else stutters.

**Progress.** Three modules prove what it takes, besides fair scheduling, for everything under way to end: for sessions
(`SessionRows_proofs`), sales (`SalesBooks_proofs`) and deliveries (`WebhookDelivery_proofs`):

| | sessions | sales | deliveries |
|---|---|---|---|
| while something is under way, one of them can go on, or some wait for each other in a way that the database breaks | `RequestsNeverStuck` | `CallsNeverStuck` | `DispatchersNeverStuck` |
| no step of anybody takes one of them back | `RequestsGoForward` | `CallsGoForward` | `TransactionsGoForward` |
| the relation "nearer to the end" is well-founded | `RequestsRunOut` | `CallsRunOut` | `TransactionsRunOut` |

So each has finitely many steps to take and is only ever kept from one by a lock. Where the code needs it, the first row
says more than that locks are free: a sales call finds the goods for its next step, because what it checked under its
locks bounds what it takes. "Can go on" is spelled out (`GoesOn`) since ENABLED cannot be reasoned about; the bounds of
the models (identifiers, shipments, attempts that have run out) are excused by name. That fairness turns these facts
into the settlement promised by `Outbox` is left to `webhook_promise`; for sessions and sales no run assumes it. The
third row assumes finitely many attempts, events or families where the measure counts them, and `DispatchersNeverStuck`
finitely many processes.

Deadlocks are part of all three, and three theorems say which there are. The first two are checked by runs too
(`DeadlocksHaveACause`), and none of the causes is listed in vain: asked for the opposite on the instances of the runs,
TLC finds each. They are what a change of the lock order would have to remove.

- Sessions (`CausesOfDeadlock`): a circle of waits contains a request that asks for the user row, to write its audit
  row, after it has locked a family (`idle_audit`, `logout_audit`), or two logins of one user; all other paths lock the
  user before a family. It rests on `LockInv`, which says what a request has locked at each place, and so does
  `WaitingStaysWithinUser`: a request only ever waits for one of the same user, whatever tokens clients mix.
- Sales (`CausesOfSalesDeadlock`): two calls have each locked a stock row and want others, two invoices of one order
  want it alone after both locked it by their foreign keys, or the last pick of a shipment packs against a dispatch. A
  dispatch that carries lines of an order it has not locked is excused: the locks of their rows are not modelled.
- Deliveries (`OnlyRepeatsMeetReplays`, for finitely many events): a retry, by a dispatcher or by hand, waits for an
  event that a replay has locked, and a replay waits for what the retry holds. First attempts are never in a circle, and
  replays alone never make one, because they lock their events in ascending order (`Ascending`).

**`Sums_proofs`**: a sum is the cardinality of a set of units, so that it needs no recursion and no induction: that sums
are naturals, that one value can be taken out, that they grow with their values and add up place by place is proved from
the library's theorems on cardinality.

Every safety property that a passing run checks is also a theorem, and so are the five refinements, that of `Outbox` up
to its liveness. Model-checked only: the liveness in `ImplementsOutbox`, because the prover does not handle ENABLED and
fairness. The four findings are counterexamples and stay with TLC; for each there is a theorem that what it violates
holds without its cause (`OnlyLateStartsDispatchTwice`, `StockNotNegative`, and `NoReceiptClearedTwice` for two of
them).

## 5. What remains

1. Receivables (`sales_service.py:299`, `746`, `789`): the credit check, two payments of one sales invoice and the
   overdue run, each deciding on unlocked sums.
2. FIFO cost layers (`inventory_service.py:698`) and the postings to the general ledger, with period close.
3. `LoginLimiter` with its two stores (`login_limiter.py:128`), and the blocklist (`token_blocklist.py:72`), where each
   worker falls back to its own memory when Redis is away.
4. Cycle count (`cycle_count_service.py:411`, which adjusts stock rows without the identity lock), production history,
   WMS, QMS, BOM explosion against a reference definition.

## 6. Not modelled

`PROJECT.json` lists every part with the reason. In short: adapters to external services, reports, record keeping with
one status field per row, and batch calculations over decimals that nothing concurrent consumes make up most of the
240,000 lines and have little that a state machine could show; the five modelled components are where transactions meet.
Inside them are left out: password and one-time-code checks, tokens' cryptography, cookies, editing of draft orders,
sales payments, lots with their deletion, cost layers and journals, event definitions and their versions, secrets and
signatures, requisitions, quotations and amendments, landed cost, serialisation and wording of errors.
