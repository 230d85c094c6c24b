---------------------------- MODULE ProcureToPay ----------------------------
(***************************************************************************)
(* From the receipt of purchased goods to the payment of their invoice:    *)
(* services/procurement_service.py (post_grn, its valuation),              *)
(* services/invoice_match_service.py (three-way match and its review),     *)
(* post_purchase_invoice of services/finance_service.py and the payment    *)
(* endpoint of endpoints/finance.py.                                       *)
(*                                                                         *)
(* A request is one transaction at READ COMMITTED: it locks the invoice,   *)
(* then the order, then the blanket agreement of the order, reads under    *)
(* those locks, and writes all at its commit. Rows of an order (lines,     *)
(* receipts, receipt lines) are only locked under the lock of the order.   *)
(*                                                                         *)
(* Orders are placed and documents are drafts at first; one that nobody    *)
(* has touched behaves as one not yet entered. Prices are exact, within or *)
(* beyond the tolerance; every unit costs one, units, currencies and       *)
(* suppliers agree and no two invoices look alike. An item has one line in *)
(* an order, as the match asks for, and any number of lines in an invoice. *)
(* Stock rows, cost layers and journals are left out: they are written in  *)
(* the same transaction.                                                   *)
(*                                                                         *)
(* A definition whose name ends in _Something is the definition it stands  *)
(* before with one slip in it; the runs show that the properties notice.   *)
(***************************************************************************)
EXTENDS Integers, FiniteSets, Sums

CONSTANTS
    Orders, Lines, Grns, Invoices, Bills, Agreements,
    Reqs,          \* overlapping requests
    None,
    OrderOf,       \* the order of each line
    Ordered,       \* ordered_quantity
    GrnOrder, Accepted,        \* the order and the lines of each receipt
    InvoiceOrder,  \* the order of each invoice
    InvoiceOf, LineOf, Billed, \* the invoice, order line and quantity of each invoice line
    Price,         \* how the price of each invoice compares
    AgreementOf, Agreed,       \* the agreement of an order, agreed_quantity
    Tolerance,     \* quantity_tolerance_pct of the rule
    AutoApprove,          \* auto_approve_within_tolerance of the rule
    Legacy,        \* receipts posted before valuation was part of posting
    Late,          \* whether the match of a posted invoice may be rerun or reviewed
    MaxRuns        \* bound of the exploration: runs of all matches

LinesOf(o) == {l \in Lines : OrderOf[l] = o}
Released(a) == {l \in Lines : AgreementOf[OrderOf[l]] = a}

\* The receipts of G with line l and what they brought of it.
Sources(G, l) == {g \in G : l \in DOMAIN Accepted[g]}
Brought(G, l) == Sum([g \in Sources(G, l) |-> Accepted[g][l]])

\* The lines of an invoice, the order lines they ask for and how much of each:
\* nothing keeps two lines of an invoice from asking for the same one.
BillsOf(i) == {b \in Bills : InvoiceOf[b] = i}
Asked(i) == {LineOf[b] : b \in BillsOf(i)}
On(i, l) == {b \in BillsOf(i) : LineOf[b] = l}
BilledOn(i, l) == Sum([b \in On(i, l) |-> Billed[b]])
Total(i) == Sum([b \in BillsOf(i) |-> Billed[b]])

ASSUME ProcureAssumption ==
    /\ None \notin Orders \cup Grns \cup Invoices \cup Agreements
    /\ Orders \cap Invoices = {} /\ Orders \cap Agreements = {} /\ Invoices \cap Agreements = {}
    /\ Grns \cap Invoices = {}
    /\ IsFiniteSet(Lines) /\ IsFiniteSet(Grns) /\ IsFiniteSet(Bills)
    /\ IsFiniteSet(Invoices)
    /\ OrderOf \in [Lines -> Orders] /\ Ordered \in [Lines -> Nat \ {0}]
    /\ GrnOrder \in [Grns -> Orders] /\ InvoiceOrder \in [Invoices -> Orders]
    /\ \A g \in Grns :
          /\ DOMAIN Accepted[g] \subseteq LinesOf(GrnOrder[g])
          /\ Accepted[g] \in [DOMAIN Accepted[g] -> Nat]
    /\ InvoiceOf \in [Bills -> Invoices] /\ LineOf \in [Bills -> Lines]
    /\ Billed \in [Bills -> Nat \ {0}]
    /\ \A b \in Bills : OrderOf[LineOf[b]] = InvoiceOrder[InvoiceOf[b]]
    /\ \A i \in Invoices : BillsOf(i) # {}
    /\ Price \in [Invoices -> {"exact", "within", "beyond"}]
    /\ AgreementOf \in [Orders -> Agreements \cup {None}] /\ Agreed \in [Agreements -> Nat]
    /\ Tolerance \in Nat /\ AutoApprove \in BOOLEAN /\ Late \in BOOLEAN
    /\ Legacy \subseteq Grns /\ MaxRuns \in Nat
    /\ \A a \in Agreements : Sum([l \in Released(a) |-> Brought(Legacy, l)]) <= Agreed[a]

VARIABLES
    status,        \* purchase_orders.status
    received,      \* purchase_order_lines.received_quantity
    grn,           \* goods_receipts.status, "valued" once its lines are in the ledger
    consumed,      \* blanket_purchase_agreements.consumed_quantity
    match,         \* invoice_match_headers with their lines and receipt links
    invoice,       \* purchase_invoices with their posting
    req            \* the transactions

vars == <<status, received, grn, consumed, match, invoice, req>>

-----------------------------------------------------------------------------
Nothing == [l \in Lines |-> 0]

\* prior: prev_invoiced_qty of each line; receipts: those linked; todo: what
\* the lines still require; seen: the run that was approved; payments: the sum
\* of the payment rows; cleared: what the posting took off the accrual
NoMatch == [status |-> "none", run |-> 0, reviewed |-> FALSE, todo |-> "none",
            prior |-> Nothing, receipts |-> {}, seen |-> 0]
NoPosting == [status |-> "draft", paid |-> 0, payments |-> 0, cleared |-> Nothing]

\* held: the rows locked; run: the run reviewed; saw: a balance read under
\* its lock; judged and cleared: what is written at the commit
NoReq == [op |-> "none", pc |-> "idle", doc |-> None, held |-> {}, run |-> 0,
          amount |-> 0, saw |-> 0, judged |-> NoMatch, cleared |-> Nothing]

Posted(i) == invoice[i].status # "draft"

\* The posted receipts of an order.
Receipts(o) == {g \in Grns : GrnOrder[g] = o /\ grn[g] # "draft"}

StatusFor_Any(o, got) ==
    IF \E l \in LinesOf(o) : got[l] >= Ordered[l] THEN "received"
    ELSE IF \E l \in LinesOf(o) : got[l] > 0 THEN "partial" ELSE status[o]
StatusFor(o, got) ==
    IF \A l \in LinesOf(o) : got[l] >= Ordered[l] THEN "received"
    ELSE IF \E l \in LinesOf(o) : got[l] > 0 THEN "partial" ELSE status[o]

Init ==
    /\ grn = [g \in Grns |-> IF g \in Legacy THEN "posted" ELSE "draft"]
    /\ received = [l \in Lines |-> Brought(Legacy, l)]
    /\ status = [o \in Orders |->
         IF \A l \in LinesOf(o) : Brought(Legacy, l) >= Ordered[l] THEN "received"
         ELSE IF \E l \in LinesOf(o) : Brought(Legacy, l) > 0 THEN "partial" ELSE "ordered"]
    /\ consumed = [a \in Agreements |->
         Sum([l \in Released(a) |-> Brought(Legacy, l)])]
    /\ match = [i \in Invoices |-> NoMatch]
    /\ invoice = [i \in Invoices |-> NoPosting]
    /\ req = [r \in Reqs |-> NoReq]

-----------------------------------------------------------------------------
(* Transactions. *)

OrderOfReq(r) ==
    IF req[r].op \in {"receive", "value"} THEN GrnOrder[req[r].doc] ELSE InvoiceOrder[req[r].doc]

\* The row whose lock a request asks for: the order of the locks is invoice,
\* order, agreement on every path.
Wanted_OrderFirst(r) ==
    IF req[r].pc = "invoice" THEN IF req[r].op = "post" THEN OrderOfReq(r) ELSE req[r].doc
    ELSE IF req[r].pc = "order" THEN IF req[r].op = "post" THEN req[r].doc ELSE OrderOfReq(r)
    ELSE IF req[r].pc = "agreement" THEN AgreementOf[OrderOfReq(r)] ELSE None
Wanted(r) ==
    IF req[r].pc = "invoice" THEN req[r].doc
    ELSE IF req[r].pc = "order" THEN OrderOfReq(r)
    ELSE IF req[r].pc = "agreement" THEN AgreementOf[OrderOfReq(r)] ELSE None
Free(r) == \A q \in Reqs \ {r} : Wanted(r) \notin req[q].held

Documents == <<status, received, grn, consumed, match, invoice>>
Move(r, x) == req' = [req EXCEPT ![r] = x] /\ UNCHANGED Documents

\* Requests that would be refused, or answered, on what never changes back
\* (a draft to be valued, a posted invoice to be posted) do not begin.
Begin(r, op, d, pc) ==
    /\ req[r] = NoReq
    /\ Move(r, [NoReq EXCEPT !.op = op, !.doc = d, !.pc = pc])
End(r) == Move(r, NoReq)
Commit(r) == req' = [req EXCEPT ![r] = NoReq]

\* r takes the lock it waits for and goes on to pc, or is refused.
Take(r, pc) == [req[r] EXCEPT !.held = @ \cup {Wanted(r)}, !.pc = pc]

Abort(r) == req[r] # NoReq /\ End(r)

-----------------------------------------------------------------------------
(* Receiving. *)

\* The endpoint loads the receipt before post_grn locks the order.
ReceiveStart(r, g) == grn[g] = "draft" /\ Begin(r, "receive", g, "order")

StillDraft_Loaded(g) == TRUE
StillDraft(g) == grn[g] = "draft"

ReceiveLockOrder(r) ==
    LET o == OrderOfReq(r) IN
    /\ req[r].op = "receive" /\ req[r].pc = "order" /\ Free(r)
    /\ IF status[o] \in {"ordered", "partial"} /\ StillDraft(req[r].doc)
       THEN Move(r, Take(r, IF AgreementOf[o] = None THEN "commit" ELSE "agreement"))
       ELSE End(r)

BroughtBy(g) == Sum(Accepted[g])

ReceiveLockAgreement_Unlocked(r) ==
    LET g == req[r].doc  a == AgreementOf[OrderOfReq(r)] IN
    /\ req[r].pc = "agreement"
    /\ IF /\ \A l \in DOMAIN Accepted[g] : received[l] + Accepted[g][l] <= Ordered[l]
          /\ consumed[a] + BroughtBy(g) <= Agreed[a]
       THEN Move(r, [req[r] EXCEPT !.pc = "commit", !.saw = consumed[a]])
       ELSE End(r)

ReceiveLockAgreement(r) ==
    LET g == req[r].doc  a == AgreementOf[OrderOfReq(r)] IN
    /\ req[r].pc = "agreement" /\ Free(r)
    /\ IF /\ \A l \in DOMAIN Accepted[g] :
                 Accepted[g][l] > 0 => received[l] + Accepted[g][l] <= Ordered[l]
          /\ consumed[a] + BroughtBy(g) <= Agreed[a]
       THEN Move(r, [Take(r, "commit") EXCEPT !.saw = consumed[a]])
       ELSE End(r)

\* The receipt, its order and agreement, and its valuation are one commit.
CommitReceipt(r) ==
    LET g == req[r].doc
        o == OrderOfReq(r)
        got == [l \in Lines |-> received[l] + IF l \in DOMAIN Accepted[g] THEN Accepted[g][l] ELSE 0]
    IN
    /\ req[r].op = "receive" /\ req[r].pc = "commit"
    /\ received' = got
    /\ status' = [status EXCEPT ![o] = StatusFor(o, got)]
    /\ grn' = [grn EXCEPT ![g] = IF BroughtBy(g) > 0 THEN "valued" ELSE "posted"]
    /\ consumed' = [a \in Agreements |->
         IF a = AgreementOf[o] THEN req[r].saw + BroughtBy(g) ELSE consumed[a]]
    /\ UNCHANGED <<match, invoice>> /\ Commit(r)

\* A receipt posted before is valued by an endpoint of its own.
ValueStart(r, g) == grn[g] = "posted" /\ Begin(r, "value", g, "order")

ValueLockOrder(r) ==
    /\ req[r].op = "value" /\ req[r].pc = "order" /\ Free(r)
    /\ IF grn[req[r].doc] = "posted" /\ BroughtBy(req[r].doc) > 0
       THEN Move(r, Take(r, "commit"))
       ELSE End(r)

CommitValuation(r) ==
    /\ req[r].op = "value" /\ req[r].pc = "commit"
    /\ grn' = [grn EXCEPT ![req[r].doc] = "valued"]
    /\ UNCHANGED <<status, received, consumed, match, invoice>> /\ Commit(r)

-----------------------------------------------------------------------------
(* Matching. *)

\* _prev_invoiced_qtys: what the payable matches of other invoices bill.
Counted_Matched == {"matched", "tolerated"}
Counted == {"matched", "tolerated", "approved"}
Others(i, l) == {j \in Invoices \ {i} : match[j].status \in Counted /\ l \in Asked(j)}
Prior(i, l) == Sum([j \in Others(i, l) |-> BilledOn(j, l)])
PriorOf(i) == [l \in Lines |-> IF l \in Asked(i) THEN Prior(i, l) ELSE 0]

Billable(G, prior, l) == IF Brought(G, l) > prior[l] THEN Brought(G, l) - prior[l] ELSE 0

\* _evaluate_line_status: each line of an invoice is judged alone
LineVerdict(b, G, prior) ==
    LET l == LineOf[b]
        n == Billed[b]
        price == Price[InvoiceOf[b]]
        most == Billable(G, prior, l)
        beyond == 100 * (most - n) > Tolerance * most \/ price = "beyond"
    IN  IF Sources(G, l) = {} \/ 100 * n > most * (100 + Tolerance) THEN "blocked"
        ELSE IF beyond THEN "mismatch"
        ELSE IF n = most /\ price = "exact" THEN "matched" ELSE "tolerated"

\* _derive_overall_status: the gravest verdict of the lines
Gravest(V) ==
    IF "blocked" \in V THEN "blocked" ELSE IF "mismatch" \in V THEN "mismatch"
    ELSE IF "tolerated" \in V THEN "tolerated" ELSE "matched"

Judged(i) ==
    LET G == Receipts(InvoiceOrder[i])
        verdict == Gravest({LineVerdict(b, G, PriorOf(i)) : b \in BillsOf(i)})
    IN  [NoMatch EXCEPT
            !.status = verdict, !.run = match[i].run + 1,
            !.todo = IF verdict = "matched" \/ (verdict = "tolerated" /\ AutoApprove) THEN "none"
                     ELSE IF verdict = "blocked" THEN "blocked" ELSE "exception",
            !.prior = PriorOf(i), !.receipts = G]

MatchStart(r, i, op) ==
    /\ op = IF match[i].status = "none" THEN "match" ELSE "rerun"
    /\ Sum([j \in Invoices |-> match[j].run]) < MaxRuns
    /\ Begin(r, op, i, "invoice")

LockInvoice(r) ==
    /\ req[r].op \in {"match", "rerun", "approve", "reject", "escalate"}
    /\ req[r].pc = "invoice" /\ Free(r)
    /\ Move(r, Take(r, "order"))

\* Nothing in the code asks whether the invoice is posted already.
MayJudge(i) == Late \/ ~Posted(i)

MatchLockOrder_Unlocked(r) ==
    LET i == req[r].doc IN
    /\ req[r].op \in {"match", "rerun"} /\ req[r].pc = "order"
    /\ IF match[i].status = "none" \/ (req[r].op = "rerun" /\ ~match[i].reviewed /\ MayJudge(i))
       THEN Move(r, [req[r] EXCEPT !.pc = "commit", !.judged = Judged(i)])
       ELSE End(r)

MatchLockOrder(r) ==
    LET i == req[r].doc IN
    /\ req[r].op \in {"match", "rerun"} /\ req[r].pc = "order" /\ Free(r)
    /\ IF match[i].status = "none" \/ (req[r].op = "rerun" /\ ~match[i].reviewed /\ MayJudge(i))
       THEN Move(r, [Take(r, "commit") EXCEPT !.judged = Judged(i)])
       ELSE End(r)

\* A reviewer decides on the run that was on the screen.
ReviewStart(r, i, op, n) ==
    /\ op \in {"approve", "reject", "escalate"} /\ n \in 1 .. match[i].run
    /\ req[r] = NoReq
    /\ Move(r, [NoReq EXCEPT !.op = op, !.doc = i, !.pc = "invoice", !.run = n])

StillCurrent_Loaded(r) == TRUE
StillCurrent(r) == match[req[r].doc].run = req[r].run

Reviewed(m, op, run) ==
    [m EXCEPT !.reviewed = TRUE,
              !.status = IF op = "approve" THEN "approved" ELSE IF op = "reject" THEN "rejected" ELSE @,
              !.todo = IF op = "approve" THEN "none" ELSE @,
              !.seen = IF op = "approve" THEN run ELSE @]

ReviewLockOrder(r) ==
    LET m == match[req[r].doc] IN
    /\ req[r].op \in {"approve", "reject", "escalate"} /\ req[r].pc = "order" /\ Free(r)
    /\ IF /\ StillCurrent(r) /\ MayJudge(req[r].doc)
          /\ req[r].op = "approve" => m.todo = "exception"
       THEN Move(r, [Take(r, "commit") EXCEPT !.judged = Reviewed(m, req[r].op, req[r].run)])
       ELSE End(r)

CommitMatch(r) ==
    /\ req[r].op \in {"match", "rerun", "approve", "reject", "escalate"} /\ req[r].pc = "commit"
    /\ match' = [match EXCEPT ![req[r].doc] = req[r].judged]
    /\ UNCHANGED <<status, received, grn, consumed, invoice>> /\ Commit(r)

-----------------------------------------------------------------------------
(* Posting and paying. *)

PostStart(r, i) == ~Posted(i) /\ Begin(r, "post", i, "invoice")

\* A posting that exists is answered with it.
PostLockInvoice(r) ==
    /\ req[r].op = "post" /\ req[r].pc = "invoice" /\ Free(r)
    /\ IF Posted(req[r].doc) THEN End(r) ELSE Move(r, Take(r, "order"))

Payable(m) == m.status \in {"matched", "approved"} \/ (m.status = "tolerated" /\ AutoApprove)

\* The match still describes the receipts, all in the ledger, and what the
\* other invoices bill.
Fresh_Links(i, l) ==
    LET G == Receipts(InvoiceOrder[i]) IN
    /\ Sources(match[i].receipts, l) = Sources(G, l)
    /\ \A g \in Sources(G, l) : grn[g] = "valued" /\ Accepted[g][l] > 0
Fresh(i, l) ==
    LET G == Receipts(InvoiceOrder[i]) IN
    /\ Sources(match[i].receipts, l) = Sources(G, l)
    /\ \A g \in Sources(G, l) : grn[g] = "valued" /\ Accepted[g][l] > 0
    /\ match[i].prior[l] = Prior(i, l)

\* A line of an invoice takes what the prior bills left of the receipts, and
\* so does the next one of the same item.
ClearsOf(b) ==
    LET i == InvoiceOf[b]
        most == Billable(Receipts(InvoiceOrder[i]), match[i].prior, LineOf[b])
    IN  IF Billed[b] <= most THEN Billed[b] ELSE most
Clears(i) == [l \in Lines |-> Sum([b \in On(i, l) |-> ClearsOf(b)])]

PostLockOrder(r) ==
    LET i == req[r].doc IN
    /\ req[r].op = "post" /\ req[r].pc = "order" /\ Free(r)
    /\ IF Payable(match[i]) /\ \A l \in Asked(i) : Fresh(i, l)
       THEN Move(r, [Take(r, "commit") EXCEPT !.cleared = Clears(i)])
       ELSE End(r)

CommitPosting(r) ==
    /\ req[r].op = "post" /\ req[r].pc = "commit"
    /\ invoice' = [invoice EXCEPT ![req[r].doc] =
         [NoPosting EXCEPT !.status = "received", !.cleared = req[r].cleared]]
    /\ UNCHANGED <<status, received, grn, consumed, match>> /\ Commit(r)

PayStart(r, i, n) ==
    /\ req[r] = NoReq /\ Posted(i) /\ n \in 1 .. Total(i)
    /\ Move(r, [NoReq EXCEPT !.op = "pay", !.doc = i, !.pc = "invoice", !.amount = n])

PayLockInvoice_Unlocked(r) ==
    LET i == req[r].doc IN
    /\ req[r].op = "pay" /\ req[r].pc = "invoice"
    /\ IF invoice[i].status \in {"received", "partly"} /\ invoice[i].paid + req[r].amount <= Total(i)
       THEN Move(r, [req[r] EXCEPT !.pc = "commit", !.saw = invoice[i].paid])
       ELSE End(r)
PayLockInvoice(r) ==
    LET i == req[r].doc IN
    /\ req[r].op = "pay" /\ req[r].pc = "invoice" /\ Free(r)
    /\ IF invoice[i].status \in {"received", "partly"} /\ invoice[i].paid + req[r].amount <= Total(i)
       THEN Move(r, [Take(r, "commit") EXCEPT !.saw = invoice[i].paid])
       ELSE End(r)

CommitPayment(r) ==
    LET i == req[r].doc
        paid == req[r].saw + req[r].amount
    IN
    /\ req[r].op = "pay" /\ req[r].pc = "commit"
    /\ invoice' = [invoice EXCEPT ![i].paid = paid,
                                  ![i].payments = @ + req[r].amount,
                                  ![i].status = IF paid >= Total(i) THEN "paid" ELSE "partly"]
    /\ UNCHANGED <<status, received, grn, consumed, match>> /\ Commit(r)

-----------------------------------------------------------------------------
Request(r) ==
    \/ \E g \in Grns : ReceiveStart(r, g) \/ ValueStart(r, g)
    \/ \E i \in Invoices :
          \/ \E op \in {"match", "rerun"} : MatchStart(r, i, op)
          \/ \E op \in {"approve", "reject", "escalate"}, n \in 1 .. MaxRuns : ReviewStart(r, i, op, n)
          \/ PostStart(r, i)
          \/ \E n \in 1 .. Total(i) : PayStart(r, i, n)

Step(r) ==
    \/ ReceiveLockOrder(r) \/ ReceiveLockAgreement(r) \/ CommitReceipt(r)
    \/ ValueLockOrder(r) \/ CommitValuation(r)
    \/ LockInvoice(r) \/ MatchLockOrder(r) \/ ReviewLockOrder(r) \/ CommitMatch(r)
    \/ PostLockInvoice(r) \/ PostLockOrder(r) \/ CommitPosting(r)
    \/ PayLockInvoice(r) \/ CommitPayment(r)

Next == \E r \in Reqs : Request(r) \/ Step(r) \/ Abort(r)
Spec == Init /\ [][Next]_vars

-----------------------------------------------------------------------------
(* Properties. *)

MatchRow ==
    [status : {"none", "matched", "tolerated", "mismatch", "blocked", "approved", "rejected"},
     run : Nat, reviewed : BOOLEAN, todo : {"none", "exception", "blocked"},
     prior : [Lines -> Nat], receipts : SUBSET Grns, seen : Nat]
Request_ ==
    [op : {"none", "receive", "value", "match", "rerun", "approve", "reject", "escalate", "post", "pay"},
     pc : {"idle", "invoice", "order", "agreement", "commit"},
     doc : Grns \cup Invoices \cup {None}, held : SUBSET (Invoices \cup Orders \cup Agreements),
     run : Nat, amount : Nat, saw : Nat, judged : MatchRow, cleared : [Lines -> Nat]]

\* Every document and every request has the declared shape; an invoice is
\* never paid beyond its total, neither by its balance nor by the sum of its
\* payments, although two of them may meet.
TypeOK ==
    /\ status \in [Orders -> {"ordered", "partial", "received"}]
    /\ received \in [Lines -> Nat]
    /\ grn \in [Grns -> {"draft", "posted", "valued"}]
    /\ consumed \in [Agreements -> Nat]
    /\ match \in [Invoices -> MatchRow]
    /\ \A i \in Invoices : invoice[i] \in
         [status : {"draft", "received", "partly", "paid"}, paid : 0 .. Total(i), payments : 0 .. Total(i),
          cleared : [Lines -> Nat]]
    /\ req \in [Reqs -> Request_]

\* A receipt counts once for its order lines, although its posting is
\* repeated, overlaps with another or is rolled back.
EachReceiptOnce == \A l \in Lines : received[l] = Brought({g \in Grns : grn[g] # "draft"}, l)

\* An order is called received when, and only when, every line of it is there
\* in full, and partially received when something of it is.
StatusFollowsReceipts == \A o \in Orders :
    /\ status[o] = "received" <=> \A l \in LinesOf(o) : received[l] >= Ordered[l]
    /\ status[o] = "ordered" => \A l \in LinesOf(o) : received[l] = 0

\* What is consumed of an agreement is what its orders received and never
\* more than was agreed, also when two of its orders are received at once.
AgreementKept == \A a \in Agreements :
    /\ consumed[a] = Sum([l \in Released(a) |-> received[l]])
    /\ consumed[a] <= Agreed[a]

\* An exception is approved for the run of the match that the approver saw,
\* although reruns and reviews wait for each other.
ApprovedAsSeen == \A i \in Invoices : match[i].status = "approved" => match[i].seen = match[i].run

\* Invoices never take more off the accrual of a line than was received.
Cleared(l) == Sum([i \in Invoices |-> invoice[i].cleared[l]])
Valued(l) == Brought({g \in Grns : grn[g] = "valued"}, l)
ClearedWithinAccrued == \A l \in Lines : Cleared(l) <= Valued(l)

\* No requests wait for each other in a circle for invoices, orders and
\* agreements, which matching, reviewing, posting, paying and receiving lock.
NoCircularWait == \A S \in SUBSET Reqs :
    S # {} => \E r \in S : \A q \in S \ {r} : Wanted(r) \notin req[q].held

\* The order lines that no invoice bills by two of its lines.
OnceBilled == {l \in Lines : \A i \in Invoices : \A b, c \in On(i, l) : b = c}

Books == INSTANCE Accrual WITH
    Lines <- OnceBilled,
    Owed <- [i \in Invoices |-> Total(i)],
    open <- [l \in OnceBilled |-> Valued(l) - Cleared(l)],
    posted <- {i \in Invoices : Posted(i)},
    paid <- [i \in Invoices |-> invoice[i].payments]

\* Receiving, posting and paying keep the accrual: no receipt is taken off
\* twice by invoices that were matched, approved and posted in any order, and
\* nothing is paid before it is posted or beyond its total. It speaks of the
\* order lines that no invoice bills by two of its lines: such an invoice may
\* take one receipt off twice by itself.
ImplementsAccrual == Books!Spec
=============================================================================
