------------------------ MODULE ProcureToPay_proofs ------------------------
(***************************************************************************)
(* What the runs of ProcureToPay check on two overlapping requests, proved *)
(* for any number of orders, receipts, invoices and requests.              *)
(*                                                                         *)
(* The argument: a request that stands before its commit holds the locks   *)
(* of everything it has read (Exclusive, Shape), so what it read is still  *)
(* true when it commits (Current). Every commit then keeps the books.      *)
(***************************************************************************)
EXTENDS ProcureToPay, Sums_proofs

-----------------------------------------------------------------------------
(* Quantities.                                                              *)

Gain(g, l) == IF l \in DOMAIN Accepted[g] THEN Accepted[g][l] ELSE 0

\* What receipts bring of a line is a natural number.
LEMMA BroughtType ==
    ASSUME NEW G \in SUBSET Grns, NEW l
    PROVE  /\ Summable([g \in Sources(G, l) |-> Accepted[g][l]])
           /\ Brought(G, l) \in Nat
<1> DEFINE f == [g \in Sources(G, l) |-> Accepted[g][l]]
<1>1. IsFiniteSet(Sources(G, l))
  BY ProcureAssumption, FS_Subset DEF Sources
<1>2. \A g \in Sources(G, l) : Accepted[g][l] \in Nat
  BY ProcureAssumption DEF Sources
<1>3. Summable(f)
  BY <1>1, <1>2 DEF Summable
<1> QED
  BY <1>3, SumType DEF Brought

\* One more receipt brings what it accepted.
LEMMA BroughtAdd ==
    ASSUME NEW G \in SUBSET Grns, NEW g \in Grns \ G, NEW l
    PROVE  Brought(G \cup {g}, l) = Brought(G, l) + Gain(g, l) /\ Gain(g, l) \in Nat
<1> DEFINE f == [h \in Sources(G \cup {g}, l) |-> Accepted[h][l]]
           e == [h \in Sources(G, l) |-> Accepted[h][l]]
<1>1. Summable(f) /\ Summable(e) /\ Brought(G, l) \in Nat
  BY BroughtType
<1>2. Gain(g, l) \in Nat
  BY ProcureAssumption DEF Gain
<1>3. CASE l \in DOMAIN Accepted[g]
  <2>1. g \in DOMAIN f /\ f[g] = Gain(g, l)
    BY <1>3 DEF Sources, Gain
  <2>2. DOMAIN f \ {g} = Sources(G, l)
    BY DEF Sources
  <2>3. Without(f, g) = e
    BY <2>2 DEF Without
  <2>4. Sum(f) = f[g] + Sum(e)
    <3> HIDE DEF f, e
    <3> QED
      BY <1>1, <2>1, <2>3, SumPoint
  <2>5. Sum(f) = Brought(G \cup {g}, l) /\ Sum(e) = Brought(G, l)
    BY DEF Brought
  <2> HIDE DEF f, e
  <2> QED
    BY <1>1, <1>2, <2>1, <2>4, <2>5
<1>4. CASE l \notin DOMAIN Accepted[g]
  <2>1. Sources(G \cup {g}, l) = Sources(G, l)
    BY <1>4 DEF Sources
  <2>2. Brought(G \cup {g}, l) = Brought(G, l)
    BY <2>1 DEF Brought
  <2>3. Gain(g, l) = 0
    BY <1>4 DEF Gain
  <2> QED
    BY <1>1, <2>2, <2>3
<1> QED
  BY <1>3, <1>4

\* What a receipt brings is the gain of the lines of its agreement.
LEMMA GainOfAgreement ==
    ASSUME NEW g \in Grns, NEW a, AgreementOf[GrnOrder[g]] = a
    PROVE  /\ Summable([l \in Released(a) |-> Gain(g, l)])
           /\ Sum([l \in Released(a) |-> Gain(g, l)]) = BroughtBy(g)
           /\ BroughtBy(g) \in Nat
<1> DEFINE f == [l \in Released(a) |-> Gain(g, l)]
<1>1. IsFiniteSet(Released(a))
  BY ProcureAssumption, FS_Subset DEF Released
<1>2. \A l \in Released(a) : Gain(g, l) \in Nat
  BY ProcureAssumption DEF Gain
<1>3. Summable(f)
  BY <1>1, <1>2 DEF Summable
<1>4. DOMAIN Accepted[g] \subseteq Released(a)
  BY ProcureAssumption DEF LinesOf, Released
<1>5. Sum(f) = Sum(Accepted[g])
  BY <1>4, SumZeros DEF Gain
<1> QED
  BY <1>3, <1>5, SumType DEF BroughtBy

\* Totals, bills and previous bills are natural numbers.
LEMMA BillTypes ==
    /\ \A i \in Invoices : Total(i) \in Nat
    /\ \A i \in Invoices : \A l :
          Summable([b \in On(i, l) |-> Billed[b]]) /\ BilledOn(i, l) \in Nat
    /\ \A i \in Invoices : \A l : Prior(i, l) \in Nat
    /\ \A g \in Grns : BroughtBy(g) \in Nat
<1>1. ASSUME NEW B \in SUBSET Bills
      PROVE  Summable([b \in B |-> Billed[b]]) /\ Sum([b \in B |-> Billed[b]]) \in Nat
  <2>1. IsFiniteSet(B) /\ \A b \in B : Billed[b] \in Nat
    BY ProcureAssumption, FS_Subset
  <2>2. Summable([b \in B |-> Billed[b]])
    BY <2>1 DEF Summable
  <2> QED
    BY <2>2, SumType
<1>2. \A i \in Invoices : Total(i) \in Nat
  BY <1>1 DEF Total, BillsOf
<1>3. ASSUME NEW i \in Invoices, NEW l
      PROVE  Summable([b \in On(i, l) |-> Billed[b]]) /\ BilledOn(i, l) \in Nat
  <2>1. On(i, l) \in SUBSET Bills
    BY DEF On, BillsOf
  <2> QED
    BY <1>1, <2>1 DEF BilledOn
<1>4. ASSUME NEW i \in Invoices, NEW l
      PROVE  /\ Summable([j \in Others(i, l) |-> BilledOn(j, l)])
             /\ Prior(i, l) \in Nat
  <2>1. IsFiniteSet(Others(i, l))
    BY ProcureAssumption, FS_Subset DEF Others
  <2>2. \A j \in Others(i, l) : BilledOn(j, l) \in Nat
    BY <1>3 DEF Others
  <2>3. Summable([j \in Others(i, l) |-> BilledOn(j, l)])
    BY <2>1, <2>2 DEF Summable
  <2> QED
    BY <2>3, SumType DEF Prior
<1>5. ASSUME NEW g \in Grns
      PROVE  BroughtBy(g) \in Nat
  BY GainOfAgreement
<1> QED
  BY <1>2, <1>3, <1>4, <1>5

-----------------------------------------------------------------------------
(* The invariant.                                                           *)

Judging == {"match", "rerun", "approve", "reject", "escalate"}

Ord(x) == IF x.op \in {"receive", "value"} THEN GrnOrder[x.doc] ELSE InvoiceOrder[x.doc]

HoldsInvoice(x) == \/ x.op \in Judging \cup {"post"} /\ x.pc \in {"order", "commit"}
                   \/ x.op = "pay" /\ x.pc = "commit"
HoldsOrder(x) == x.op # "pay" /\ x.pc \in {"agreement", "commit"}
HoldsAgreement(x) == x.op = "receive" /\ x.pc = "commit" /\ AgreementOf[Ord(x)] # None

HeldBy(x) ==
    (IF HoldsInvoice(x) THEN {x.doc} ELSE {})
    \cup (IF HoldsOrder(x) THEN {Ord(x)} ELSE {})
    \cup (IF HoldsAgreement(x) THEN {AgreementOf[Ord(x)]} ELSE {})

\* A request holds what its operation has locked up to its place.
Shape(x) ==
    /\ \/ x.op = "none" /\ x.pc = "idle"
       \/ /\ x.op = "receive" /\ x.doc \in Grns /\ x.pc \in {"order", "agreement", "commit"}
          /\ x.pc = "agreement" => AgreementOf[Ord(x)] # None
       \/ x.op = "value" /\ x.doc \in Grns /\ x.pc \in {"order", "commit"}
       \/ x.op \in Judging \cup {"post"} /\ x.doc \in Invoices /\ x.pc \in {"invoice", "order", "commit"}
       \/ x.op = "pay" /\ x.doc \in Invoices /\ x.pc \in {"invoice", "commit"}
    /\ x.held = HeldBy(x)

\* What a request has read still holds.
ReceiptCurrent(x) ==
    x.op = "receive" /\ x.pc \in {"agreement", "commit"} => grn[x.doc] = "draft"
AgreementCurrent(x) ==
    HoldsAgreement(x) =>
        /\ x.saw = consumed[AgreementOf[Ord(x)]]
        /\ x.saw + BroughtBy(x.doc) <= Agreed[AgreementOf[Ord(x)]]
ValueCurrent(x) == x.op = "value" => grn[x.doc] # "draft"
JudgedCurrent(x) ==
    x.op \in Judging /\ x.pc = "commit" /\ x.judged.status = "approved" => x.judged.seen = x.judged.run
PostCurrent(x) == x.op = "post" /\ x.pc \in {"order", "commit"} => ~Posted(x.doc)
PayCurrent(x) ==
    /\ x.op = "pay" => x.amount > 0 /\ Posted(x.doc)
    /\ x.op = "pay" /\ x.pc = "commit" =>
          x.saw = invoice[x.doc].paid /\ x.saw + x.amount <= Total(x.doc)
Current(x) ==
    /\ ReceiptCurrent(x) /\ AgreementCurrent(x) /\ ValueCurrent(x)
    /\ JudgedCurrent(x) /\ PostCurrent(x) /\ PayCurrent(x)

\* The balance of an invoice is the sum of its payments.
InvoiceRow(i) ==
    [status : {"draft", "received", "partly", "paid"}, paid : 0 .. Total(i), payments : 0 .. Total(i),
     cleared : [Lines -> Nat]]
PaidTogether ==
    /\ invoice = [i \in Invoices |-> invoice[i]]
    /\ \A i \in Invoices :
          /\ invoice[i].paid = invoice[i].payments
          /\ ~Posted(i) => invoice[i].paid = 0

DocTypes ==
    /\ status \in [Orders -> {"ordered", "partial", "received"}]
    /\ received \in [Lines -> Nat]
    /\ grn \in [Grns -> {"draft", "posted", "valued"}]
    /\ consumed \in [Agreements -> Nat]
    /\ match \in [Invoices -> MatchRow]
    /\ \A i \in Invoices : invoice[i] \in InvoiceRow(i)

DocInv ==
    /\ DocTypes /\ PaidTogether
    /\ EachReceiptOnce /\ StatusFollowsReceipts /\ AgreementKept /\ ApprovedAsSeen

Exclusive == \A p, q \in Reqs : p # q => req[p].held \cap req[q].held = {}

ReqInv ==
    /\ req \in [Reqs -> Request_] /\ Exclusive
    /\ \A q \in Reqs : Shape(req[q]) /\ Current(req[q])

IInv == DocInv /\ ReqInv

\* The invariant has the types among its parts.
LEMMA Types == IInv => TypeOK
<1> QED
  BY DEF IInv, DocInv, DocTypes, ReqInv, TypeOK, InvoiceRow

-----------------------------------------------------------------------------
(* Steps of one request.                                                    *)

\* A request that has ended reads and holds nothing.
LEMMA Empties == NoReq \in Request_ /\ Shape(NoReq) /\ Current(NoReq) /\ NoReq.held = {}
<1>1. NoMatch \in MatchRow /\ Nothing \in [Lines -> Nat]
  BY DEF NoMatch, MatchRow, Nothing
<1>2. NoReq \in Request_
  BY <1>1 DEF NoReq, Request_
<1>3. Shape(NoReq)
  BY DEF Shape, NoReq, HeldBy, HoldsInvoice, HoldsOrder, HoldsAgreement, Judging
<1>4. Current(NoReq)
  BY DEF NoReq, Current, ReceiptCurrent, AgreementCurrent, HoldsAgreement, ValueCurrent,
         JudgedCurrent, PostCurrent, PayCurrent, Judging
<1> QED
  BY <1>2, <1>3, <1>4 DEF NoReq

\* r holds no more than before, or one more row that was free.
Grants(r, x) ==
    \/ x.held \subseteq req[r].held
    \/ Free(r) /\ x.held \subseteq req[r].held \cup {Wanted(r)}

\* A step of one request that writes nothing yet keeps the invariant.
LEMMA Moves ==
    ASSUME NEW r \in Reqs, NEW x \in Request_,
           IInv, Shape(x), Current(x), Grants(r, x), Move(r, x)
    PROVE  IInv'
<1>1. /\ status' = status /\ received' = received /\ grn' = grn
      /\ consumed' = consumed /\ match' = match /\ invoice' = invoice
  BY DEF Move, Documents
<1>2. req' = [req EXCEPT ![r] = x] /\ req \in [Reqs -> Request_]
  BY DEF Move, IInv, ReqInv
<1>3. req'[r] = x /\ \A q \in Reqs \ {r} : req'[q] = req[q]
  BY <1>2
<1>4. DocInv'
  BY <1>1 DEF IInv, DocInv, DocTypes, PaidTogether, Posted, EachReceiptOnce,
              StatusFollowsReceipts, AgreementKept, ApprovedAsSeen
<1>5. (req \in [Reqs -> Request_])'
  BY <1>2
<1>6. Exclusive'
  <2> SUFFICES ASSUME NEW p \in Reqs, NEW q \in Reqs, p # q
               PROVE  req'[p].held \cap req'[q].held = {}
    BY DEF Exclusive
  <2>1. \A u \in Reqs \ {r} : x.held \cap req[u].held = {}
    BY DEF Grants, Free, IInv, ReqInv, Exclusive
  <2> QED
    BY <1>3, <2>1 DEF IInv, ReqInv, Exclusive
<1>7. ASSUME NEW q \in Reqs
      PROVE  Shape(req[q])' /\ Current(req[q])'
  <2>1. Shape(req'[q])
    BY <1>3 DEF IInv, ReqInv
  <2>2. Current(req'[q])
    BY <1>3 DEF IInv, ReqInv
  <2>3. Shape(req[q])'
    BY <2>1 DEF Shape, HeldBy, HoldsInvoice, HoldsOrder, HoldsAgreement, Ord
  <2>4. Current(req[q])'
    BY <1>1, <2>2 DEF Current, ReceiptCurrent, AgreementCurrent, HoldsAgreement, ValueCurrent,
         JudgedCurrent, PostCurrent, PayCurrent, Posted, Ord
  <2> QED
    BY <2>3, <2>4
<1> QED
  BY <1>4, <1>5, <1>6, <1>7 DEF IInv, ReqInv

\* A request may always be given up.
LEMMA EndKeeps ==
    ASSUME NEW r \in Reqs, IInv, End(r)
    PROVE  IInv'
<1>1. Grants(r, NoReq)
  BY Empties DEF Grants
<1> QED
  BY <1>1, Empties, Moves DEF End

\* A commit keeps the invariant if it keeps the documents and what the other
\* requests have read.
LEMMA Commits ==
    ASSUME NEW r \in Reqs, IInv, Commit(r), DocInv',
           \A q \in Reqs \ {r} : Current(req[q])'
    PROVE  IInv'
<1>1. req' = [req EXCEPT ![r] = NoReq] /\ req \in [Reqs -> Request_]
  BY DEF Commit, IInv, ReqInv
<1>2. req'[r] = NoReq /\ \A q \in Reqs \ {r} : req'[q] = req[q]
  BY <1>1
<1>3. (req \in [Reqs -> Request_])'
  BY <1>1, Empties
<1>4. Exclusive'
  BY <1>2, Empties DEF IInv, ReqInv, Exclusive
<1>5. ASSUME NEW q \in Reqs
      PROVE  Shape(req[q])' /\ Current(req[q])'
  <2>1. Shape(req'[q])
    BY <1>2, Empties DEF IInv, ReqInv
  <2>2. Shape(req[q])'
    BY <2>1 DEF Shape, HeldBy, HoldsInvoice, HoldsOrder, HoldsAgreement, Ord
  <2>3. CASE q = r
    <3>1. req'[q] = NoReq
      BY <1>2, <2>3
    <3>2. Current(req[q])'
      BY <3>1 DEF NoReq, Current, ReceiptCurrent, AgreementCurrent, HoldsAgreement, ValueCurrent,
         JudgedCurrent, PostCurrent, PayCurrent, Judging
    <3> QED
      BY <2>2, <3>2
  <2> QED
    BY <2>2, <2>3
<1> QED
  BY <1>3, <1>4, <1>5 DEF IInv, ReqInv

-----------------------------------------------------------------------------
(* Requests begin.                                                          *)

\* A request that begins locks nothing yet.
LEMMA Begins ==
    ASSUME NEW r \in Reqs, NEW x \in Request_, IInv, Move(r, x), Current(x), x.held = {},
           \/ x.op \in {"receive", "value"} /\ x.doc \in Grns /\ x.pc = "order"
           \/ x.op \in Judging \cup {"post", "pay"} /\ x.doc \in Invoices /\ x.pc = "invoice"
    PROVE  IInv'
<1>1. Shape(x)
  BY DEF Shape, HeldBy, HoldsInvoice, HoldsOrder, HoldsAgreement, Judging
<1>2. Grants(r, x)
  BY DEF Grants
<1> QED
  BY <1>1, <1>2, Moves

\* Beginning keeps the invariant.
LEMMA RequestKeeps ==
    ASSUME NEW r \in Reqs, IInv, Request(r)
    PROVE  IInv'
<1>0. NoReq \in Request_
  BY Empties
<1>1. ASSUME NEW op \in {"receive", "value"}, NEW g \in Grns, Begin(r, op, g, "order"),
             op = "value" => grn[g] # "draft"
      PROVE  IInv'
  <2> DEFINE x == [NoReq EXCEPT !.op = op, !.doc = g, !.pc = "order"]
  <2>1. Move(r, x)
    BY <1>1 DEF Begin
  <2>2. x \in Request_
    BY <1>0 DEF Request_
  <2>3. x.op = op /\ x.doc = g /\ x.pc = "order" /\ x.held = {}
    BY DEF NoReq
  <2> HIDE DEF x
  <2>4. Current(x)
    BY <1>1, <2>3 DEF Current, ReceiptCurrent, AgreementCurrent, HoldsAgreement, ValueCurrent,
       JudgedCurrent, PostCurrent, PayCurrent, Judging
  <2> QED
    BY <2>1, <2>2, <2>3, <2>4, Begins
<1>2. ASSUME NEW op \in {"match", "rerun", "post"}, NEW i \in Invoices, Begin(r, op, i, "invoice")
      PROVE  IInv'
  <2> DEFINE x == [NoReq EXCEPT !.op = op, !.doc = i, !.pc = "invoice"]
  <2>1. Move(r, x)
    BY <1>2 DEF Begin
  <2>2. x \in Request_
    BY <1>0 DEF Request_
  <2>3. x.op = op /\ x.doc = i /\ x.pc = "invoice" /\ x.held = {}
    BY DEF NoReq
  <2> HIDE DEF x
  <2>4. Current(x)
    BY <2>3 DEF Current, ReceiptCurrent, AgreementCurrent, HoldsAgreement, ValueCurrent,
       JudgedCurrent, PostCurrent, PayCurrent, Judging
  <2> QED
    BY <2>1, <2>2, <2>3, <2>4, Begins DEF Judging
<1>3. ASSUME NEW i \in Invoices, NEW op \in {"approve", "reject", "escalate"},
             NEW n \in 1 .. MaxRuns, ReviewStart(r, i, op, n)
      PROVE  IInv'
  <2> DEFINE x == [NoReq EXCEPT !.op = op, !.doc = i, !.pc = "invoice", !.run = n]
  <2>1. Move(r, x)
    BY <1>3 DEF ReviewStart
  <2>2. n \in Nat
    BY ProcureAssumption
  <2>3. x \in Request_
    BY <1>0, <2>2 DEF Request_
  <2>4. x.op = op /\ x.doc = i /\ x.pc = "invoice" /\ x.held = {}
    BY DEF NoReq
  <2> HIDE DEF x
  <2>5. Current(x)
    BY <2>4 DEF Current, ReceiptCurrent, AgreementCurrent, HoldsAgreement, ValueCurrent,
       JudgedCurrent, PostCurrent, PayCurrent, Judging
  <2> QED
    BY <2>1, <2>3, <2>4, <2>5, Begins DEF Judging
<1>4. ASSUME NEW i \in Invoices, NEW n \in 1 .. Total(i), PayStart(r, i, n)
      PROVE  IInv'
  <2> DEFINE x == [NoReq EXCEPT !.op = "pay", !.doc = i, !.pc = "invoice", !.amount = n]
  <2>1. Move(r, x) /\ Posted(i)
    BY <1>4 DEF PayStart
  <2>2. n \in Nat /\ n > 0
    BY BillTypes
  <2>3. x \in Request_
    BY <1>0, <2>2 DEF Request_
  <2>4. x.op = "pay" /\ x.doc = i /\ x.pc = "invoice" /\ x.held = {} /\ x.amount = n
    BY <1>0 DEF NoReq, Request_
  <2> HIDE DEF x
  <2>5. Current(x)
    BY <2>1, <2>2, <2>4 DEF Current, ReceiptCurrent, AgreementCurrent, HoldsAgreement, ValueCurrent,
       JudgedCurrent, PostCurrent, PayCurrent, Judging
  <2> QED
    BY <2>1, <2>3, <2>4, <2>5, Begins
<1>5. CASE \E g \in Grns : ReceiveStart(r, g) \/ ValueStart(r, g)
  BY <1>1, <1>5 DEF ReceiveStart, ValueStart
<1>6. CASE \E i \in Invoices : \/ \E op \in {"match", "rerun"} : MatchStart(r, i, op)
                               \/ PostStart(r, i)
  BY <1>2, <1>6 DEF MatchStart, PostStart
<1> QED
  BY <1>3, <1>4, <1>5, <1>6 DEF Request

-----------------------------------------------------------------------------
(* Requests take locks and read.                                            *)

\* What a request that takes a lock has become.
LEMMA Takes ==
    ASSUME NEW r \in Reqs, IInv, NEW pc \in {"order", "agreement", "commit"},
           Wanted(r) \in Invoices \cup Orders \cup Agreements
    PROVE  LET x == Take(r, pc) IN
           /\ x \in Request_ /\ x.pc = pc /\ x.held = req[r].held \cup {Wanted(r)}
           /\ x.op = req[r].op /\ x.doc = req[r].doc /\ x.run = req[r].run
           /\ x.amount = req[r].amount /\ x.saw = req[r].saw
           /\ x.judged = req[r].judged /\ x.cleared = req[r].cleared
<1>1. req[r] \in Request_
  BY DEF IInv, ReqInv
<1>2. req[r].held \cup {Wanted(r)} \in SUBSET (Invoices \cup Orders \cup Agreements)
  BY <1>1 DEF Request_
<1> QED
  BY <1>1, <1>2 DEF Take, Request_

\* Locking the order of a receipt, for its posting.
LEMMA ReceiveLockOrderKeeps ==
    ASSUME NEW r \in Reqs, IInv, ReceiveLockOrder(r)
    PROVE  IInv'
<1>1. CASE End(r)
  BY <1>1, EndKeeps
<1>2. CASE ~End(r)
  <2> DEFINE o == OrderOfReq(r)
             pc == IF AgreementOf[o] = None THEN "commit" ELSE "agreement"
             x == Take(r, pc)
  <2>1. /\ req[r].op = "receive" /\ req[r].pc = "order" /\ Free(r)
        /\ grn[req[r].doc] = "draft" /\ Move(r, x)
    BY <1>2 DEF ReceiveLockOrder, StillDraft
  <2>2. Shape(req[r])
    BY DEF IInv, ReqInv
  <2>3. req[r].doc \in Grns /\ req[r].held = {}
    BY <2>1, <2>2 DEF Shape, HeldBy, HoldsInvoice, HoldsOrder, HoldsAgreement, Judging
  <2>4. o = GrnOrder[req[r].doc] /\ o \in Orders /\ Wanted(r) = o
    BY <2>1, <2>3, ProcureAssumption DEF OrderOfReq, Wanted
  <2>5. /\ x \in Request_ /\ x.pc = pc /\ x.held = {o} /\ x.op = "receive" /\ x.doc = req[r].doc
    BY <2>1, <2>3, <2>4, Takes
  <2>6. pc \in {"commit", "agreement"} /\ (pc = "commit" <=> AgreementOf[o] = None)
    OBVIOUS
  <2> HIDE DEF x, pc, o
  <2>7. Ord(x) = o
    BY <2>4, <2>5 DEF Ord
  <2>8. Shape(x)
    BY <2>3, <2>5, <2>6, <2>7 DEF Shape, HeldBy, HoldsInvoice, HoldsOrder, HoldsAgreement, Judging
  <2>9. Current(x)
    BY <2>1, <2>5, <2>6, <2>7 DEF Current, ReceiptCurrent, AgreementCurrent, HoldsAgreement, ValueCurrent,
       JudgedCurrent, PostCurrent, PayCurrent, Judging
  <2>10. Grants(r, x)
    BY <2>1, <2>4, <2>5 DEF Grants
  <2> QED
    BY <2>1, <2>5, <2>8, <2>9, <2>10, Moves
<1> QED
  BY <1>1, <1>2

\* Locking the agreement.
LEMMA ReceiveLockAgreementKeeps ==
    ASSUME NEW r \in Reqs, IInv, ReceiveLockAgreement(r)
    PROVE  IInv'
<1>1. CASE End(r)
  BY <1>1, EndKeeps
<1>2. CASE ~End(r)
  <2> DEFINE g == req[r].doc
             o == OrderOfReq(r)
             a == AgreementOf[o]
             y == Take(r, "commit")
             x == [y EXCEPT !.saw = consumed[a]]
  <2>1. /\ req[r].pc = "agreement" /\ Free(r)
        /\ consumed[a] + BroughtBy(g) <= Agreed[a] /\ Move(r, x)
    BY <1>2 DEF ReceiveLockAgreement
  <2>2. Shape(req[r]) /\ Current(req[r])
    BY DEF IInv, ReqInv
  <2>3. req[r].op = "receive" /\ g \in Grns /\ AgreementOf[Ord(req[r])] # None
    BY <2>1, <2>2 DEF Shape
  <2>4. o = GrnOrder[g] /\ o = Ord(req[r]) /\ o \in Orders /\ Wanted(r) = a /\ a \in Agreements
    BY <2>1, <2>3, ProcureAssumption DEF OrderOfReq, Wanted, Ord
  <2>5. req[r].held = {o} /\ grn[g] = "draft"
    BY <2>1, <2>2, <2>3, <2>4
       DEF Shape, HeldBy, HoldsInvoice, HoldsOrder, HoldsAgreement, Judging, Current, ReceiptCurrent
  <2>6. y \in Request_ /\ y.pc = "commit" /\ y.held = {o, a} /\ y.op = "receive" /\ y.doc = g
    BY <2>3, <2>4, <2>5, Takes
  <2> HIDE DEF y
  <2>7. consumed[a] \in Nat
    BY <2>4 DEF IInv, DocInv, DocTypes
  <2>8. /\ x \in Request_ /\ x.pc = "commit" /\ x.held = {o, a} /\ x.op = "receive"
        /\ x.doc = g /\ x.saw = consumed[a]
    BY <2>6, <2>7 DEF Request_
  <2> HIDE DEF x
  <2>9. Ord(x) = o
    BY <2>4, <2>8 DEF Ord
  <2>10. Shape(x)
    BY <2>3, <2>4, <2>8, <2>9 DEF Shape, HeldBy, HoldsInvoice, HoldsOrder, HoldsAgreement, Judging
  <2>11. Current(x)
    BY <2>1, <2>5, <2>8, <2>9 DEF Current, ReceiptCurrent, AgreementCurrent, HoldsAgreement, ValueCurrent,
       JudgedCurrent, PostCurrent, PayCurrent, Judging
  <2>12. Grants(r, x)
    BY <2>1, <2>4, <2>5, <2>8 DEF Grants
  <2> QED
    BY <2>1, <2>8, <2>10, <2>11, <2>12, Moves
<1> QED
  BY <1>1, <1>2

\* Locking the order of a receipt, for its valuation.
LEMMA ValueLockOrderKeeps ==
    ASSUME NEW r \in Reqs, IInv, ValueLockOrder(r)
    PROVE  IInv'
<1>1. CASE End(r)
  BY <1>1, EndKeeps
<1>2. CASE ~End(r)
  <2> DEFINE o == OrderOfReq(r)
             x == Take(r, "commit")
  <2>1. /\ req[r].op = "value" /\ req[r].pc = "order" /\ Free(r)
        /\ grn[req[r].doc] = "posted" /\ Move(r, x)
    BY <1>2 DEF ValueLockOrder
  <2>2. Shape(req[r])
    BY DEF IInv, ReqInv
  <2>3. req[r].doc \in Grns /\ req[r].held = {}
    BY <2>1, <2>2 DEF Shape, HeldBy, HoldsInvoice, HoldsOrder, HoldsAgreement, Judging
  <2>4. o = GrnOrder[req[r].doc] /\ o \in Orders /\ Wanted(r) = o
    BY <2>1, <2>3, ProcureAssumption DEF OrderOfReq, Wanted
  <2>5. /\ x \in Request_ /\ x.pc = "commit" /\ x.held = {o} /\ x.op = "value" /\ x.doc = req[r].doc
    BY <2>1, <2>3, <2>4, Takes
  <2> HIDE DEF x, o
  <2>6. Ord(x) = o
    BY <2>4, <2>5 DEF Ord
  <2>7. Shape(x)
    BY <2>3, <2>5, <2>6 DEF Shape, HeldBy, HoldsInvoice, HoldsOrder, HoldsAgreement, Judging
  <2>8. Current(x)
    BY <2>1, <2>5 DEF Current, ReceiptCurrent, AgreementCurrent, HoldsAgreement, ValueCurrent,
       JudgedCurrent, PostCurrent, PayCurrent, Judging
  <2>9. Grants(r, x)
    BY <2>1, <2>4, <2>5 DEF Grants
  <2> QED
    BY <2>1, <2>5, <2>7, <2>8, <2>9, Moves
<1> QED
  BY <1>1, <1>2

\* Locking the invoice, for a match, a review or the posting.
LEMMA LockInvoiceKeeps ==
    ASSUME NEW r \in Reqs, IInv, LockInvoice(r) \/ PostLockInvoice(r)
    PROVE  IInv'
<1>1. CASE End(r)
  BY <1>1, EndKeeps
<1>2. CASE ~End(r)
  <2> DEFINE i == req[r].doc
             x == Take(r, "order")
  <2>1. /\ req[r].op \in Judging \cup {"post"} /\ req[r].pc = "invoice" /\ Free(r)
        /\ req[r].op = "post" => ~Posted(i)
        /\ Move(r, x)
    BY <1>2 DEF LockInvoice, PostLockInvoice, Judging
  <2>2. Shape(req[r])
    BY DEF IInv, ReqInv
  <2>3. i \in Invoices /\ req[r].held = {}
    BY <2>1, <2>2 DEF Shape, HeldBy, HoldsInvoice, HoldsOrder, HoldsAgreement, Judging
  <2>4. Wanted(r) = i
    BY <2>1 DEF Wanted
  <2>5. /\ x \in Request_ /\ x.pc = "order" /\ x.held = {i} /\ x.op = req[r].op /\ x.doc = i
    BY <2>1, <2>3, <2>4, Takes
  <2> HIDE DEF x
  <2>6. Shape(x)
    BY <2>1, <2>3, <2>5 DEF Shape, HeldBy, HoldsInvoice, HoldsOrder, HoldsAgreement, Judging
  <2>7. Current(x)
    BY <2>1, <2>5 DEF Current, ReceiptCurrent, AgreementCurrent, HoldsAgreement, ValueCurrent,
       JudgedCurrent, PostCurrent, PayCurrent, Judging
  <2>8. Grants(r, x)
    BY <2>1, <2>4, <2>5 DEF Grants
  <2> QED
    BY <2>1, <2>5, <2>6, <2>7, <2>8, Moves
<1> QED
  BY <1>1, <1>2

\* Locking the order after the invoice.
LEMMA LockOrderAfter ==
    ASSUME NEW r \in Reqs, IInv, req[r].op \in Judging \cup {"post"}, req[r].pc = "order"
    PROVE  LET i == req[r].doc  o == InvoiceOrder[i] IN
           /\ i \in Invoices /\ o \in Orders /\ Wanted(r) = o /\ req[r].held = {i}
           /\ req[r].op = "post" => ~Posted(i)
<1>1. Shape(req[r]) /\ Current(req[r])
  BY DEF IInv, ReqInv
<1>2. req[r].doc \in Invoices /\ req[r].held = {req[r].doc}
  BY <1>1 DEF Shape, HeldBy, HoldsInvoice, HoldsOrder, HoldsAgreement, Judging
<1>3. Wanted(r) = InvoiceOrder[req[r].doc]
  BY DEF Wanted, OrderOfReq, Judging
<1>4. req[r].op = "post" => ~Posted(req[r].doc)
  BY <1>1 DEF Current, PostCurrent
<1> QED
  BY <1>2, <1>3, <1>4, ProcureAssumption

\* A request that locks the order after the invoice and knows what to write.
LEMMA Decides ==
    ASSUME NEW r \in Reqs, IInv, req[r].op \in Judging \cup {"post"}, req[r].pc = "order", Free(r),
           NEW x \in Request_, Move(r, x), JudgedCurrent(x),
           x.pc = "commit", x.op = req[r].op, x.doc = req[r].doc,
           x.held = req[r].held \cup {Wanted(r)}
    PROVE  IInv'
<1>1. /\ req[r].doc \in Invoices /\ req[r].held = {req[r].doc}
      /\ Wanted(r) = InvoiceOrder[req[r].doc]
      /\ req[r].op = "post" => ~Posted(req[r].doc)
  BY LockOrderAfter
<1>2. Ord(x) = InvoiceOrder[req[r].doc]
  BY DEF Ord, Judging
<1>3. Shape(x)
  BY <1>1, <1>2 DEF Shape, HeldBy, HoldsInvoice, HoldsOrder, HoldsAgreement, Judging
<1>4. Current(x)
  BY <1>1 DEF Current, ReceiptCurrent, AgreementCurrent, HoldsAgreement, ValueCurrent,
     PostCurrent, PayCurrent, Judging
<1>5. Grants(r, x)
  BY DEF Grants
<1> QED
  BY <1>3, <1>4, <1>5, Moves

\* What a match finds is a match, not approved.
LEMMA JudgedType ==
    ASSUME NEW i \in Invoices, match[i] \in MatchRow
    PROVE  Judged(i) \in MatchRow /\ Judged(i).status \in {"matched", "tolerated", "mismatch", "blocked"}
<1> DEFINE G == Receipts(InvoiceOrder[i])
           verdict == Gravest({LineVerdict(b, G, PriorOf(i)) : b \in BillsOf(i)})
<1>1. verdict \in {"matched", "tolerated", "mismatch", "blocked"}
  BY DEF Gravest
<1>2. PriorOf(i) \in [Lines -> Nat]
  BY BillTypes DEF PriorOf
<1>3. G \in SUBSET Grns
  BY DEF Receipts
<1>4. NoMatch \in MatchRow
  BY DEF NoMatch, MatchRow, Nothing
<1>5. match[i].run + 1 \in Nat
  BY DEF MatchRow
<1>6. Judged(i) = [NoMatch EXCEPT
            !.status = verdict, !.run = match[i].run + 1,
            !.todo = IF verdict = "matched" \/ (verdict = "tolerated" /\ AutoApprove) THEN "none"
                     ELSE IF verdict = "blocked" THEN "blocked" ELSE "exception",
            !.prior = PriorOf(i), !.receipts = G]
  BY DEF Judged
<1> HIDE DEF verdict, G
<1> QED
  BY <1>1, <1>2, <1>3, <1>4, <1>5, <1>6 DEF MatchRow

\* The decision of a match.
LEMMA MatchLockOrderKeeps ==
    ASSUME NEW r \in Reqs, IInv, MatchLockOrder(r)
    PROVE  IInv'
<1>1. CASE End(r)
  BY <1>1, EndKeeps
<1>2. CASE ~End(r)
  <2> DEFINE i == req[r].doc
             y == Take(r, "commit")
             j == Judged(i)
             x == [y EXCEPT !.judged = j]
  <2>1. req[r].op \in {"match", "rerun"} /\ req[r].pc = "order" /\ Free(r) /\ Move(r, x)
    BY <1>2 DEF MatchLockOrder
  <2>2. i \in Invoices /\ Wanted(r) \in Orders
    BY <2>1, LockOrderAfter DEF Judging
  <2>3. /\ y \in Request_ /\ y.pc = "commit" /\ y.op = req[r].op /\ y.doc = i
        /\ y.held = req[r].held \cup {Wanted(r)}
    BY <2>2, Takes
  <2>4. match[i] \in MatchRow
    BY <2>2 DEF IInv, DocInv, DocTypes
  <2>5. j \in MatchRow /\ j.status # "approved"
    BY <2>2, <2>4, JudgedType
  <2> HIDE DEF y, j
  <2>6. /\ x \in Request_ /\ x.pc = "commit" /\ x.op = req[r].op /\ x.doc = i /\ x.judged = j
        /\ x.held = req[r].held \cup {Wanted(r)}
    BY <2>3, <2>5 DEF Request_
  <2> HIDE DEF x
  <2>7. JudgedCurrent(x)
    BY <2>5, <2>6 DEF JudgedCurrent
  <2> QED
    BY <2>1, <2>6, <2>7, Decides DEF Judging
<1> QED
  BY <1>1, <1>2

\* The decision of a reviewer.
LEMMA ReviewLockOrderKeeps ==
    ASSUME NEW r \in Reqs, IInv, ReviewLockOrder(r)
    PROVE  IInv'
<1>1. CASE End(r)
  BY <1>1, EndKeeps
<1>2. CASE ~End(r)
  <2> DEFINE i == req[r].doc
             y == Take(r, "commit")
             j == Reviewed(match[i], req[r].op, req[r].run)
             x == [y EXCEPT !.judged = j]
  <2>1. /\ req[r].op \in {"approve", "reject", "escalate"} /\ req[r].pc = "order" /\ Free(r)
        /\ Move(r, x) /\ match[i].run = req[r].run
    BY <1>2 DEF ReviewLockOrder, StillCurrent
  <2>2. i \in Invoices /\ Wanted(r) \in Orders
    BY <2>1, LockOrderAfter DEF Judging
  <2>3. /\ y \in Request_ /\ y.pc = "commit" /\ y.op = req[r].op /\ y.doc = i
        /\ y.held = req[r].held \cup {Wanted(r)}
    BY <2>2, Takes
  <2>4. match[i] \in MatchRow /\ (match[i].status = "approved" => match[i].seen = match[i].run)
    BY <2>2 DEF IInv, DocInv, DocTypes, ApprovedAsSeen
  <2>5. req[r].run \in Nat
    BY <2>1, <2>4 DEF MatchRow
  <2>6. j \in MatchRow /\ (j.status = "approved" => j.seen = j.run)
    BY <2>1, <2>4, <2>5 DEF Reviewed, MatchRow
  <2> HIDE DEF y, j
  <2>7. /\ x \in Request_ /\ x.pc = "commit" /\ x.op = req[r].op /\ x.doc = i /\ x.judged = j
        /\ x.held = req[r].held \cup {Wanted(r)}
    BY <2>3, <2>6 DEF Request_
  <2> HIDE DEF x
  <2>8. JudgedCurrent(x)
    BY <2>6, <2>7 DEF JudgedCurrent
  <2> QED
    BY <2>1, <2>7, <2>8, Decides DEF Judging
<1> QED
  BY <1>1, <1>2

\* What an invoice takes off the accrual is a natural number for every line.
LEMMA ClearsType ==
    ASSUME NEW i \in Invoices, match[i] \in MatchRow
    PROVE  Clears(i) \in [Lines -> Nat]
<1>1. Receipts(InvoiceOrder[i]) \in SUBSET Grns
  BY DEF Receipts
<1>2. ASSUME NEW l \in Lines, NEW b \in On(i, l)
      PROVE  ClearsOf(b) \in Nat
  <2>1. b \in Bills /\ InvoiceOf[b] = i /\ LineOf[b] = l /\ Billed[b] \in Nat
    BY ProcureAssumption DEF On, BillsOf
  <2>2. Brought(Receipts(InvoiceOrder[i]), l) \in Nat /\ match[i].prior[l] \in Nat
    BY <1>1, BroughtType DEF MatchRow
  <2>3. Billable(Receipts(InvoiceOrder[i]), match[i].prior, l) \in Nat
    BY <2>2 DEF Billable
  <2> QED
    BY <2>1, <2>3 DEF ClearsOf
<1>3. ASSUME NEW l \in Lines
      PROVE  Sum([b \in On(i, l) |-> ClearsOf(b)]) \in Nat
  <2>1. IsFiniteSet(On(i, l))
    BY ProcureAssumption, FS_Subset DEF On, BillsOf
  <2>2. Summable([b \in On(i, l) |-> ClearsOf(b)])
    BY <1>2, <2>1 DEF Summable
  <2> QED
    BY <2>2, SumType
<1> QED
  BY <1>3 DEF Clears

\* The decision to post.
LEMMA PostLockOrderKeeps ==
    ASSUME NEW r \in Reqs, IInv, PostLockOrder(r)
    PROVE  IInv'
<1>1. CASE End(r)
  BY <1>1, EndKeeps
<1>2. CASE ~End(r)
  <2> DEFINE i == req[r].doc
             y == Take(r, "commit")
             c == Clears(i)
             x == [y EXCEPT !.cleared = c]
  <2>1. req[r].op = "post" /\ req[r].pc = "order" /\ Free(r) /\ Move(r, x)
    BY <1>2 DEF PostLockOrder
  <2>2. i \in Invoices /\ Wanted(r) \in Orders
    BY <2>1, LockOrderAfter
  <2>3. /\ y \in Request_ /\ y.pc = "commit" /\ y.op = req[r].op /\ y.doc = i
        /\ y.held = req[r].held \cup {Wanted(r)}
    BY <2>2, Takes
  <2>4. match[i] \in MatchRow
    BY <2>2 DEF IInv, DocInv, DocTypes
  <2>5. c \in [Lines -> Nat]
    BY <2>2, <2>4, ClearsType
  <2> HIDE DEF y, c
  <2>6. /\ x \in Request_ /\ x.pc = "commit" /\ x.op = req[r].op /\ x.doc = i /\ x.cleared = c
        /\ x.held = req[r].held \cup {Wanted(r)}
    BY <2>3, <2>5 DEF Request_
  <2> HIDE DEF x
  <2>7. JudgedCurrent(x)
    BY <2>1, <2>6 DEF JudgedCurrent, Judging
  <2> QED
    BY <2>1, <2>6, <2>7, Decides
<1> QED
  BY <1>1, <1>2

\* Locking the invoice for a payment.
LEMMA PayLockInvoiceKeeps ==
    ASSUME NEW r \in Reqs, IInv, PayLockInvoice(r)
    PROVE  IInv'
<1>1. CASE End(r)
  BY <1>1, EndKeeps
<1>2. CASE ~End(r)
  <2> DEFINE i == req[r].doc
             y == Take(r, "commit")
             x == [y EXCEPT !.saw = invoice[i].paid]
  <2>1. /\ req[r].op = "pay" /\ req[r].pc = "invoice" /\ Free(r) /\ Move(r, x)
        /\ invoice[i].paid + req[r].amount <= Total(i)
    BY <1>2 DEF PayLockInvoice
  <2>2. Shape(req[r]) /\ Current(req[r])
    BY DEF IInv, ReqInv
  <2>3. i \in Invoices /\ req[r].held = {}
    BY <2>1, <2>2 DEF Shape, HeldBy, HoldsInvoice, HoldsOrder, HoldsAgreement, Judging
  <2>4. Wanted(r) = i /\ req[r].amount > 0 /\ Posted(i)
    BY <2>1, <2>2 DEF Wanted, Current, PayCurrent
  <2>5. /\ y \in Request_ /\ y.pc = "commit" /\ y.op = "pay" /\ y.doc = i
        /\ y.held = {i} /\ y.amount = req[r].amount
    BY <2>1, <2>3, <2>4, Takes
  <2>6. invoice[i].paid \in Nat
    BY <2>3, BillTypes DEF IInv, DocInv, DocTypes, InvoiceRow
  <2> HIDE DEF y
  <2>7. /\ x \in Request_ /\ x.pc = "commit" /\ x.op = "pay" /\ x.doc = i /\ x.saw = invoice[i].paid
        /\ x.held = {i} /\ x.amount = req[r].amount
    BY <2>5, <2>6 DEF Request_
  <2> HIDE DEF x
  <2>8. Shape(x)
    BY <2>3, <2>7 DEF Shape, HeldBy, HoldsInvoice, HoldsOrder, HoldsAgreement, Judging
  <2>9. Current(x)
    BY <2>1, <2>4, <2>7 DEF Current, ReceiptCurrent, AgreementCurrent, HoldsAgreement, ValueCurrent,
       JudgedCurrent, PostCurrent, PayCurrent, Judging
  <2>10. Grants(r, x)
    BY <2>1, <2>4, <2>7 DEF Grants
  <2> QED
    BY <2>1, <2>7, <2>8, <2>9, <2>10, Moves
<1> QED
  BY <1>1, <1>2

-----------------------------------------------------------------------------
(* Requests commit.                                                         *)

\* The posting of a receipt keeps the documents and what the others have read.
LEMMA CommitReceiptKeeps ==
    ASSUME NEW r \in Reqs, IInv, CommitReceipt(r)
    PROVE  IInv'
<1> DEFINE g == req[r].doc
           o == GrnOrder[g]
           a == AgreementOf[o]
           got == [l \in Lines |-> received[l] + Gain(g, l)]
<1>1. req[r].op = "receive" /\ req[r].pc = "commit" /\ Shape(req[r]) /\ Current(req[r])
  BY DEF CommitReceipt, IInv, ReqInv
<1>2. g \in Grns /\ o \in Orders /\ grn[g] = "draft" /\ o = Ord(req[r]) /\ o = OrderOfReq(r)
  BY <1>1, ProcureAssumption DEF Shape, Current, ReceiptCurrent, Judging, Ord, OrderOfReq
<1>3. /\ o \in req[r].held
      /\ a # None => /\ a \in req[r].held /\ a \in Agreements
                     /\ req[r].saw = consumed[a] /\ consumed[a] + BroughtBy(g) <= Agreed[a]
  BY <1>1, <1>2, ProcureAssumption
     DEF Shape, HeldBy, HoldsOrder, HoldsAgreement, Current, AgreementCurrent
<1>4. /\ received' = got
      /\ status' = [status EXCEPT ![o] = StatusFor(o, got)]
      /\ grn' = [grn EXCEPT ![g] = IF BroughtBy(g) > 0 THEN "valued" ELSE "posted"]
      /\ consumed' = [b \in Agreements |-> IF b = a THEN req[r].saw + BroughtBy(g) ELSE consumed[b]]
      /\ match' = match /\ invoice' = invoice /\ Commit(r)
  <2>1. got = [l \in Lines |-> received[l] + IF l \in DOMAIN Accepted[g] THEN Accepted[g][l] ELSE 0]
    BY DEF Gain
  <2> QED
    BY <1>2, <2>1 DEF CommitReceipt
<1>5. /\ received \in [Lines -> Nat] /\ status \in [Orders -> {"ordered", "partial", "received"}]
      /\ grn \in [Grns -> {"draft", "posted", "valued"}] /\ consumed \in [Agreements -> Nat]
  BY DEF IInv, DocInv, DocTypes
<1>6. \A l \in Lines : Gain(g, l) \in Nat /\ got[l] = received[l] + Gain(g, l) /\ got[l] \in Nat
  <2>1. \A l \in Lines : Gain(g, l) \in Nat
    BY <1>2, ProcureAssumption DEF Gain
  <2> QED
    BY <2>1, <1>5
<1>7. \A l \in Lines : OrderOf[l] # o => Gain(g, l) = 0
  BY <1>2, ProcureAssumption DEF Gain, LinesOf
<1>8. BroughtBy(g) \in Nat
  BY <1>2, BillTypes
<1>9. got \in [Lines -> Nat]
  BY <1>6
<1> HIDE DEF got
<1>10. DocTypes'
  <2>1. received' \in [Lines -> Nat]
    BY <1>4, <1>9
  <2>2. StatusFor(o, got) \in {"ordered", "partial", "received"}
    BY <1>2, <1>5 DEF StatusFor
  <2>3. status' \in [Orders -> {"ordered", "partial", "received"}]
    BY <1>2, <1>4, <1>5, <2>2
  <2>4. grn' \in [Grns -> {"draft", "posted", "valued"}]
    BY <1>2, <1>4, <1>5
  <2>5. consumed' \in [Agreements -> Nat]
    <3>1. \A b \in Agreements : b = a => req[r].saw + BroughtBy(g) \in Nat
      BY <1>3, <1>5, <1>8, ProcureAssumption
    <3> QED
      BY <1>4, <1>5, <3>1
  <2> QED
    BY <1>4, <2>1, <2>3, <2>4, <2>5 DEF IInv, DocInv, DocTypes
<1>11. EachReceiptOnce'
  <2> DEFINE G == {h \in Grns : grn[h] # "draft"}
             H == {h \in Grns : grn'[h] # "draft"}
  <2>1. H = G \cup {g} /\ g \in Grns \ G
    BY <1>2, <1>4, <1>5
  <2> SUFFICES ASSUME NEW l \in Lines
               PROVE  received'[l] = Brought(H, l)
    BY DEF EachReceiptOnce, Brought, Sources
  <2>2. received[l] = Brought(G, l)
    BY DEF IInv, DocInv, EachReceiptOnce
  <2>3. G \in SUBSET Grns
    OBVIOUS
  <2> HIDE DEF G, H
  <2>4. Brought(H, l) = Brought(G, l) + Gain(g, l)
    BY <2>1, <2>3, BroughtAdd
  <2> QED
    BY <1>4, <1>6, <2>2, <2>4
<1>12. StatusFollowsReceipts'
  <2> SUFFICES ASSUME NEW p \in Orders
               PROVE  /\ status'[p] = "received" <=> \A l \in LinesOf(p) : got[l] >= Ordered[l]
                      /\ status'[p] = "ordered" => \A l \in LinesOf(p) : got[l] = 0
    BY <1>4 DEF StatusFollowsReceipts, LinesOf
  <2>1. /\ status[p] = "received" <=> \A l \in LinesOf(p) : received[l] >= Ordered[l]
        /\ status[p] = "ordered" => \A l \in LinesOf(p) : received[l] = 0
    BY DEF IInv, DocInv, StatusFollowsReceipts
  <2>2. LinesOf(p) \subseteq Lines /\ \A l \in LinesOf(p) : OrderOf[l] = p /\ Ordered[l] \in Nat \ {0}
    BY ProcureAssumption DEF LinesOf
  <2>3. CASE p # o
    <3>1. \A l \in LinesOf(p) : got[l] = received[l]
      BY <1>5, <1>6, <1>7, <2>2, <2>3
    <3>2. status'[p] = status[p]
      BY <1>4, <1>5, <2>3
    <3> QED
      BY <2>1, <3>1, <3>2
  <2>4. CASE p = o
    <3>1. status'[p] = StatusFor(o, got)
      BY <1>2, <1>4, <1>5, <2>4
    <3>2. CASE \A l \in LinesOf(o) : got[l] >= Ordered[l]
      BY <2>4, <3>1, <3>2 DEF StatusFor
    <3>3. CASE /\ ~\A l \in LinesOf(o) : got[l] >= Ordered[l]
               /\ \E l \in LinesOf(o) : got[l] > 0
      BY <2>4, <3>1, <3>3 DEF StatusFor
    <3>4. CASE /\ ~\A l \in LinesOf(o) : got[l] >= Ordered[l]
               /\ ~\E l \in LinesOf(o) : got[l] > 0
      <4>1. StatusFor(o, got) = status[o]
        BY <3>4 DEF StatusFor
      <4>2. \A l \in LinesOf(o) : got[l] = 0
        BY <1>9, <2>2, <2>4, <3>4
      <4>3. ~\A l \in LinesOf(o) : received[l] >= Ordered[l]
        BY <1>5, <1>6, <2>2, <2>4, <3>4
      <4> QED
        BY <2>1, <2>4, <3>1, <3>4, <4>1, <4>2, <4>3
    <3> QED
      BY <3>2, <3>3, <3>4
  <2> QED
    BY <2>3, <2>4
<1>13. AgreementKept'
  <2> SUFFICES ASSUME NEW b \in Agreements
               PROVE  /\ consumed'[b] = Sum([l \in Released(b) |-> got[l]])
                      /\ consumed'[b] <= Agreed[b]
    BY <1>4 DEF AgreementKept, Released
  <2> DEFINE f == [l \in Released(b) |-> received[l]]
             d == [l \in Released(b) |-> Gain(g, l)]
             s == [l \in Released(b) |-> got[l]]
  <2>1. consumed[b] = Sum(f) /\ consumed[b] <= Agreed[b]
    BY DEF IInv, DocInv, AgreementKept
  <2>2. Released(b) \subseteq Lines
    BY DEF Released
  <2>3. CASE b = a
    <3>1. Summable(d) /\ Sum(d) = BroughtBy(g)
      BY <1>2, <2>3, GainOfAgreement
    <3>2. IsFiniteSet(Released(b))
      BY <2>2, ProcureAssumption, FS_Subset
    <3>3. Summable(f)
      BY <1>5, <2>2, <3>2 DEF Summable
    <3>4. s = [l \in DOMAIN f |-> f[l] + d[l]]
      BY <1>6, <2>2
    <3> HIDE DEF f, d, s
    <3>5. DOMAIN d = DOMAIN f
      BY DEF f, d
    <3>6. Sum(s) = Sum(f) + Sum(d)
      BY <3>1, <3>3, <3>4, <3>5, SumAdd
    <3>7. consumed'[b] = consumed[b] + BroughtBy(g) /\ consumed[b] + BroughtBy(g) <= Agreed[b]
      BY <1>3, <1>4, <2>3, ProcureAssumption
    <3>8. consumed'[b] = Sum(s)
      BY <2>1, <3>1, <3>6, <3>7
    <3> QED
      BY <3>7, <3>8 DEF s
  <2>4. CASE b # a
    <3>1. \A l \in Released(b) : got[l] = received[l]
      BY <1>5, <1>6, <1>7, <2>2, <2>4 DEF Released
    <3>2. s = f
      BY <3>1
    <3>3. consumed'[b] = consumed[b]
      BY <1>4, <2>4
    <3> QED
      BY <2>1, <3>2, <3>3
  <2> QED
    BY <2>3, <2>4
<1>14. ApprovedAsSeen' /\ PaidTogether'
  BY <1>4 DEF IInv, DocInv, ApprovedAsSeen, PaidTogether, Posted
<1>15. ASSUME NEW q \in Reqs \ {r}
       PROVE  Current(req[q])'
  <2>1. req'[q] = req[q]
    BY <1>4 DEF Commit, IInv, ReqInv
  <2> DEFINE x == req[q]
  <2>2. Shape(x) /\ Current(x) /\ x.held \cap req[r].held = {}
    BY DEF IInv, ReqInv, Exclusive
  <2> HIDE DEF x
  <2>3. HoldsOrder(x) => Ord(x) # o
    BY <1>3, <2>2 DEF Shape, HeldBy
  <2>4. HoldsAgreement(x) => AgreementOf[Ord(x)] # a /\ AgreementOf[Ord(x)] \in Agreements
    <3>1. HoldsAgreement(x) => AgreementOf[Ord(x)] # a
      BY <1>3, <2>2 DEF Shape, HeldBy, HoldsAgreement
    <3>2. HoldsAgreement(x) => x.doc \in Grns /\ Ord(x) = GrnOrder[x.doc]
      BY <2>2 DEF Shape, HoldsAgreement, Ord, Judging
    <3> QED
      BY <3>1, <3>2, ProcureAssumption DEF HoldsAgreement
  <2> USE DEF x
  <2>5. ReceiptCurrent(req[q])'
    BY <1>2, <1>4, <1>5, <2>1, <2>2, <2>3 DEF Current, ReceiptCurrent, HoldsOrder, Ord
  <2>6. AgreementCurrent(req[q])'
    BY <1>4, <2>1, <2>2, <2>4 DEF Current, AgreementCurrent, HoldsAgreement, Ord
  <2>7. ValueCurrent(req[q])'
    BY <1>2, <1>4, <1>5, <2>1, <2>2 DEF Current, ValueCurrent
  <2>8. JudgedCurrent(req[q])' /\ PostCurrent(req[q])' /\ PayCurrent(req[q])'
    BY <1>4, <2>1, <2>2 DEF Current, JudgedCurrent, PostCurrent, PayCurrent, Posted
  <2> QED
    BY <2>5, <2>6, <2>7, <2>8 DEF Current
<1> QED
  BY <1>4, <1>10, <1>11, <1>12, <1>13, <1>14, <1>15, Commits DEF DocInv

\* A valuation leaves all but its receipt alone.
LEMMA CommitValuationKeeps ==
    ASSUME NEW r \in Reqs, IInv, CommitValuation(r)
    PROVE  IInv'
<1> DEFINE g == req[r].doc
<1>1. req[r].op = "value" /\ Shape(req[r]) /\ Current(req[r])
  BY DEF CommitValuation, IInv, ReqInv
<1>2. g \in Grns /\ grn[g] # "draft" /\ grn \in [Grns -> {"draft", "posted", "valued"}]
  BY <1>1 DEF Shape, Current, ValueCurrent, Judging, IInv, DocInv, DocTypes
<1>3. /\ grn' = [grn EXCEPT ![g] = "valued"] /\ Commit(r)
      /\ status' = status /\ received' = received
      /\ consumed' = consumed /\ match' = match /\ invoice' = invoice
  BY DEF CommitValuation
<1>4. \A h \in Grns : grn'[h] # "draft" <=> grn[h] # "draft"
  BY <1>2, <1>3
<1>5. DocTypes' /\ PaidTogether' /\ StatusFollowsReceipts' /\ AgreementKept' /\ ApprovedAsSeen'
  BY <1>2, <1>3 DEF IInv, DocInv, DocTypes, PaidTogether, Posted,
     StatusFollowsReceipts, AgreementKept, ApprovedAsSeen
<1>6. EachReceiptOnce'
  <2>1. {h \in Grns : grn'[h] # "draft"} = {h \in Grns : grn[h] # "draft"}
    BY <1>4
  <2> QED
    BY <1>3, <2>1 DEF IInv, DocInv, EachReceiptOnce
<1>7. ASSUME NEW q \in Reqs \ {r}
      PROVE  Current(req[q])'
  <2>1. req'[q] = req[q]
    BY <1>3 DEF Commit, IInv, ReqInv
  <2>2. Shape(req[q]) /\ Current(req[q])
    BY DEF IInv, ReqInv
  <2>3. req[q].op \in {"receive", "value"} => req[q].doc \in Grns
    BY <2>2 DEF Shape, Judging
  <2>4. req[q].op = "receive" /\ req[q].pc \in {"agreement", "commit"} => req[q].doc # g
    BY <1>2, <2>2 DEF Current, ReceiptCurrent
  <2>5. ReceiptCurrent(req[q])' /\ ValueCurrent(req[q])'
    BY <1>2, <1>3, <1>4, <2>1, <2>2, <2>3, <2>4 DEF Current, ReceiptCurrent, ValueCurrent
  <2> QED
    BY <1>3, <2>1, <2>2, <2>5 DEF Current, AgreementCurrent, HoldsAgreement,
       JudgedCurrent, PostCurrent, PayCurrent, Posted, Ord
<1> QED
  BY <1>3, <1>5, <1>6, <1>7, Commits DEF DocInv

\* A decision on a match keeps approvals with the run that was seen.
LEMMA CommitMatchKeeps ==
    ASSUME NEW r \in Reqs, IInv, CommitMatch(r)
    PROVE  IInv'
<1> DEFINE i == req[r].doc
<1>1. req[r].op \in Judging /\ req[r].pc = "commit" /\ req[r] \in Request_ /\ Shape(req[r]) /\ Current(req[r])
  BY DEF CommitMatch, IInv, ReqInv, Judging
<1>2. i \in Invoices /\ match \in [Invoices -> MatchRow] /\ req[r].judged \in MatchRow
  BY <1>1 DEF Shape, Judging, IInv, DocInv, DocTypes, Request_
<1>3. /\ match' = [match EXCEPT ![i] = req[r].judged] /\ Commit(r)
      /\ status' = status /\ received' = received
      /\ consumed' = consumed /\ grn' = grn /\ invoice' = invoice
  BY DEF CommitMatch
<1>4. match' \in [Invoices -> MatchRow]
  BY <1>2, <1>3
<1>5. DocTypes' /\ PaidTogether' /\ StatusFollowsReceipts' /\ AgreementKept' /\ EachReceiptOnce'
  BY <1>3, <1>4 DEF IInv, DocInv, DocTypes, PaidTogether, Posted,
     StatusFollowsReceipts, AgreementKept, EachReceiptOnce
<1>6. ApprovedAsSeen'
  BY <1>1, <1>2, <1>3 DEF IInv, DocInv, ApprovedAsSeen, Current, JudgedCurrent
<1>7. ASSUME NEW q \in Reqs \ {r}
      PROVE  Current(req[q])'
  <2>1. req'[q] = req[q]
    BY <1>3 DEF Commit, IInv, ReqInv
  <2> QED
    BY ZenonT(30), <1>3, <2>1 DEF IInv, ReqInv, Current, ReceiptCurrent, AgreementCurrent, HoldsAgreement,
       ValueCurrent, JudgedCurrent, PostCurrent, PayCurrent, Posted, Ord
<1> QED
  BY <1>3, <1>5, <1>6, <1>7, Commits DEF DocInv

\* A commit that changes one invoice, whose lock it holds, and leaves it
\* posted keeps what the other requests have read.
LEMMA InvoiceCommits ==
    ASSUME NEW r \in Reqs, IInv, Commit(r), HoldsInvoice(req[r]), NEW x,
           invoice' = [invoice EXCEPT ![req[r].doc] = x], x \in InvoiceRow(req[r].doc),
           x.status # "draft", x.paid = x.payments,
           UNCHANGED <<status, received, grn, consumed, match>>
    PROVE  IInv'
<1> DEFINE i == req[r].doc
<1>1. i \in Invoices /\ i \in req[r].held
  BY DEF IInv, ReqInv, Shape, HeldBy, HoldsInvoice, Judging
<1>2. DOMAIN invoice = Invoices
  BY DEF IInv, DocInv, PaidTogether
<1>3. invoice'[i] = x /\ \A j \in Invoices \ {i} : invoice'[j] = invoice[j]
  BY <1>1, <1>2
<1>4. DocTypes'
  <2>1. \A j \in Invoices : invoice'[j] \in InvoiceRow(j)
    BY <1>3 DEF IInv, DocInv, DocTypes
  <2> QED
    BY <2>1 DEF IInv, DocInv, DocTypes, InvoiceRow
<1>5. PaidTogether'
  <2>1. invoice' = [j \in Invoices |-> invoice'[j]]
    BY <1>2
  <2>2. \A j \in Invoices : /\ invoice'[j].paid = invoice'[j].payments
                            /\ invoice'[j].status = "draft" => invoice'[j].paid = 0
    BY <1>3 DEF IInv, DocInv, PaidTogether, Posted
  <2> QED
    BY <2>1, <2>2 DEF PaidTogether, Posted
<1>6. StatusFollowsReceipts' /\ AgreementKept' /\ EachReceiptOnce' /\ ApprovedAsSeen'
  BY DEF IInv, DocInv, StatusFollowsReceipts, AgreementKept, EachReceiptOnce, ApprovedAsSeen
<1>7. ASSUME NEW q \in Reqs \ {r}
      PROVE  Current(req[q])'
  <2>1. req'[q] = req[q]
    BY DEF Commit, IInv, ReqInv
  <2>2. Shape(req[q]) /\ Current(req[q]) /\ req[q].held \cap req[r].held = {}
    BY DEF IInv, ReqInv, Exclusive
  <2>3. HoldsInvoice(req[q]) => req[q].doc # i
    BY <1>1, <2>2 DEF Shape, HeldBy
  <2>4. req[q].op \in {"post", "pay"} => req[q].doc \in Invoices
    BY <2>2 DEF Shape, Judging
  <2>5. PostCurrent(req[q])'
    BY <1>3, <2>1, <2>2, <2>3, <2>4 DEF Current, PostCurrent, Posted, HoldsInvoice
  <2>6. PayCurrent(req[q])'
    BY <1>3, <2>1, <2>2, <2>3, <2>4 DEF Current, PayCurrent, Posted, HoldsInvoice
  <2>7. grn' = grn /\ consumed' = consumed
    OBVIOUS
  <2>8. ReceiptCurrent(req[q])' /\ ValueCurrent(req[q])' /\ JudgedCurrent(req[q])'
    BY <2>1, <2>2, <2>7 DEF Current, ReceiptCurrent, ValueCurrent, JudgedCurrent
  <2>9. AgreementCurrent(req[q])'
    BY <2>1, <2>2, <2>7 DEF Current, AgreementCurrent, HoldsAgreement, Ord
  <2> QED
    BY <2>5, <2>6, <2>8, <2>9 DEF Current
<1> QED
  BY <1>4, <1>5, <1>6, <1>7, Commits DEF DocInv

\* A posting begins with nothing paid.
LEMMA CommitPostingKeeps ==
    ASSUME NEW r \in Reqs, IInv, CommitPosting(r)
    PROVE  IInv'
<1> DEFINE x == [NoPosting EXCEPT !.status = "received", !.cleared = req[r].cleared]
<1>1. /\ req[r].op = "post" /\ req[r].pc = "commit" /\ req[r] \in Request_ /\ Commit(r)
      /\ invoice' = [invoice EXCEPT ![req[r].doc] = x]
      /\ UNCHANGED <<status, received, grn, consumed, match>>
      /\ req[r].doc \in Invoices
  BY DEF CommitPosting, IInv, ReqInv, Shape, Judging
<1>2. req[r].cleared \in [Lines -> Nat] /\ 0 \in 0 .. Total(req[r].doc)
  BY <1>1, BillTypes DEF Request_
<1>3. NoPosting \in InvoiceRow(req[r].doc)
  BY <1>2 DEF NoPosting, InvoiceRow, Nothing
<1>4. x \in InvoiceRow(req[r].doc) /\ x.status # "draft" /\ x.paid = x.payments
  <2>1. NoPosting.paid = 0 /\ NoPosting.payments = 0
    BY DEF NoPosting
  <2> QED
    BY <1>2, <1>3, <2>1 DEF InvoiceRow
<1> HIDE DEF x
<1>5. HoldsInvoice(req[r])
  BY <1>1 DEF HoldsInvoice
<1> QED
  BY <1>1, <1>4, <1>5, InvoiceCommits

\* A payment adds to the balance that was read under the lock.
LEMMA CommitPaymentKeeps ==
    ASSUME NEW r \in Reqs, IInv, CommitPayment(r)
    PROVE  IInv'
<1> DEFINE i == req[r].doc
           paid == req[r].saw + req[r].amount
           x == [invoice[i] EXCEPT !.paid = paid, !.payments = @ + req[r].amount,
                                   !.status = IF paid >= Total(i) THEN "paid" ELSE "partly"]
<1>1. /\ req[r].op = "pay" /\ req[r].pc = "commit" /\ req[r] \in Request_ /\ Commit(r)
      /\ Shape(req[r]) /\ Current(req[r])
      /\ UNCHANGED <<status, received, grn, consumed, match>>
  BY DEF CommitPayment, IInv, ReqInv
<1>2. i \in Invoices /\ req[r].saw = invoice[i].paid /\ paid <= Total(i) /\ req[r].amount \in Nat
  BY <1>1 DEF Shape, Judging, Current, PayCurrent, Request_
<1>3. invoice[i] \in InvoiceRow(i) /\ invoice[i].paid = invoice[i].payments /\ Total(i) \in Nat
  BY <1>2, BillTypes DEF IInv, DocInv, DocTypes, PaidTogether
<1>4. DOMAIN invoice = Invoices
  BY DEF IInv, DocInv, PaidTogether
<1>5. invoice' = [invoice EXCEPT ![i] = x]
  BY <1>2, <1>3, <1>4 DEF CommitPayment, InvoiceRow
<1>6. invoice[i].payments + req[r].amount = paid /\ paid \in 0 .. Total(i)
  BY <1>2, <1>3 DEF InvoiceRow
<1>7. /\ x.paid = paid /\ x.payments = paid /\ x.status # "draft" /\ x \in InvoiceRow(i)
  BY <1>3, <1>6 DEF InvoiceRow
<1>8. HoldsInvoice(req[r])
  BY <1>1 DEF HoldsInvoice
<1> HIDE DEF x, paid
<1> QED
  BY <1>1, <1>5, <1>7, <1>8, InvoiceCommits

-----------------------------------------------------------------------------
(* The invariant holds.                                                     *)

\* The invariant holds of placed orders and draft documents.
LEMMA InitHolds == Init => IInv
<1> SUFFICES ASSUME Init
             PROVE  IInv
  OBVIOUS
<1>1. /\ Legacy \in SUBSET Grns /\ \A l : Brought(Legacy, l) \in Nat
  BY BroughtType, ProcureAssumption
<1>2. \A a \in Agreements : Sum([l \in Released(a) |-> Brought(Legacy, l)]) \in Nat
  <2> TAKE a \in Agreements
  <2> DEFINE f == [l \in Released(a) |-> Brought(Legacy, l)]
  <2>1. IsFiniteSet(Released(a))
    BY ProcureAssumption, FS_Subset DEF Released
  <2>2. Summable(f)
    BY <1>1, <2>1 DEF Summable
  <2> QED
    BY <2>2, SumType
<1>3. /\ status = [o \in Orders |->
            IF \A l \in LinesOf(o) : Brought(Legacy, l) >= Ordered[l] THEN "received"
            ELSE IF \E l \in LinesOf(o) : Brought(Legacy, l) > 0 THEN "partial" ELSE "ordered"]
      /\ received = [l \in Lines |-> Brought(Legacy, l)]
      /\ grn = [g \in Grns |-> IF g \in Legacy THEN "posted" ELSE "draft"]
      /\ consumed = [a \in Agreements |-> Sum([l \in Released(a) |-> Brought(Legacy, l)])]
      /\ match = [i \in Invoices |-> NoMatch]
      /\ invoice = [i \in Invoices |-> NoPosting]
      /\ req = [r \in Reqs |-> NoReq]
  BY DEF Init
<1>4. NoMatch \in MatchRow /\ \A i \in Invoices : NoPosting \in InvoiceRow(i)
  BY BillTypes DEF NoMatch, NoPosting, MatchRow, InvoiceRow, Nothing
<1>5. DocTypes
  <2>1. status \in [Orders -> {"ordered", "partial", "received"}]
    BY <1>3
  <2>2. received \in [Lines -> Nat]
    BY <1>1, <1>3
  <2>3. consumed \in [Agreements -> Nat]
    BY <1>2, <1>3
  <2> QED
    BY <1>3, <1>4, <2>1, <2>2, <2>3 DEF DocTypes
<1>6. PaidTogether
  BY <1>3 DEF PaidTogether, NoPosting
<1>7. EachReceiptOnce
  <2>1. {g \in Grns : grn[g] # "draft"} = Legacy
    BY <1>1, <1>3
  <2> QED
    BY <1>3, <2>1 DEF EachReceiptOnce
<1>8. StatusFollowsReceipts
  <2> SUFFICES ASSUME NEW o \in Orders
               PROVE  /\ status[o] = "received" <=> \A l \in LinesOf(o) : received[l] >= Ordered[l]
                      /\ status[o] = "ordered" => \A l \in LinesOf(o) : received[l] = 0
    BY DEF StatusFollowsReceipts
  <2>1. \A l \in LinesOf(o) : received[l] = Brought(Legacy, l) /\ received[l] \in Nat
    BY <1>1, <1>3 DEF LinesOf
  <2> QED
    BY <1>3, <2>1
<1>9. AgreementKept
  <2>1. \A a \in Agreements : [l \in Released(a) |-> received[l]] = [l \in Released(a) |-> Brought(Legacy, l)]
    BY <1>3 DEF Released
  <2> QED
    BY <1>3, <2>1, ProcureAssumption DEF AgreementKept
<1>10. ApprovedAsSeen
  BY <1>3 DEF ApprovedAsSeen, NoMatch
<1>11. ReqInv
  <2>1. \A r \in Reqs : req[r] = NoReq
    BY <1>3
  <2>2. req \in [Reqs -> Request_]
    BY <1>3, Empties
  <2> QED
    BY <2>1, <2>2, Empties DEF ReqInv, Exclusive
<1> QED
  BY <1>5, <1>6, <1>7, <1>8, <1>9, <1>10, <1>11 DEF IInv, DocInv

\* Every step keeps the invariant.
LEMMA NextKeeps == IInv /\ [Next]_vars => IInv'
<1> SUFFICES ASSUME IInv, [Next]_vars
             PROVE  IInv'
  OBVIOUS
<1>1. CASE UNCHANGED vars
  <2>1. /\ status' = status /\ received' = received /\ grn' = grn /\ consumed' = consumed
        /\ match' = match /\ invoice' = invoice /\ req' = req
    BY <1>1 DEF vars
  <2>2. DocInv'
    BY <2>1 DEF IInv, DocInv, DocTypes, PaidTogether, Posted, EachReceiptOnce,
       StatusFollowsReceipts, AgreementKept, ApprovedAsSeen
  <2>3. (req \in [Reqs -> Request_])' /\ Exclusive'
    BY <2>1 DEF IInv, ReqInv, Exclusive
  <2>4. ASSUME NEW q \in Reqs
        PROVE  Shape(req[q])' /\ Current(req[q])'
    <3>1. Shape(req[q]) /\ Current(req[q])
      BY DEF IInv, ReqInv
    <3>2. Shape(req[q])'
      BY <2>1, <3>1 DEF Shape, HeldBy, HoldsInvoice, HoldsOrder, HoldsAgreement, Ord
    <3>3. ReceiptCurrent(req[q])' /\ ValueCurrent(req[q])' /\ JudgedCurrent(req[q])'
      BY <2>1, <3>1 DEF Current, ReceiptCurrent, ValueCurrent, JudgedCurrent
    <3>4. AgreementCurrent(req[q])'
      BY <2>1, <3>1 DEF Current, AgreementCurrent, HoldsAgreement, Ord
    <3>5. PostCurrent(req[q])' /\ PayCurrent(req[q])'
      BY <2>1, <3>1 DEF Current, PostCurrent, PayCurrent, Posted
    <3> QED
      BY <3>2, <3>3, <3>4, <3>5 DEF Current
  <2>5. ReqInv'
    BY <2>3, <2>4 DEF ReqInv
  <2> QED
    BY <2>2, <2>5 DEF IInv
<1>2. ASSUME NEW r \in Reqs, Request(r) \/ Step(r) \/ Abort(r)
      PROVE  IInv'
  <2>1. CASE Request(r)
    BY <2>1, RequestKeeps
  <2>2. CASE Abort(r)
    BY <2>2, EndKeeps DEF Abort
  <2>3. CASE ReceiveLockOrder(r) \/ ReceiveLockAgreement(r) \/ CommitReceipt(r)
    BY <2>3, ReceiveLockOrderKeeps, ReceiveLockAgreementKeeps, CommitReceiptKeeps
  <2>4. CASE ValueLockOrder(r) \/ CommitValuation(r)
    BY <2>4, ValueLockOrderKeeps, CommitValuationKeeps
  <2>5. CASE LockInvoice(r) \/ MatchLockOrder(r) \/ ReviewLockOrder(r) \/ CommitMatch(r)
    BY <2>5, LockInvoiceKeeps, MatchLockOrderKeeps, ReviewLockOrderKeeps, CommitMatchKeeps
  <2>6. CASE PostLockInvoice(r) \/ PostLockOrder(r) \/ CommitPosting(r)
    BY <2>6, LockInvoiceKeeps, PostLockOrderKeeps, CommitPostingKeeps
  <2>7. CASE PayLockInvoice(r) \/ CommitPayment(r)
    BY <2>7, PayLockInvoiceKeeps, CommitPaymentKeeps
  <2> QED
    BY <1>2, <2>1, <2>2, <2>3, <2>4, <2>5, <2>6, <2>7 DEF Step
<1> QED
  BY <1>1, <1>2 DEF Next

\* Every reachable state satisfies the invariant.
THEOREM InductiveInvariant == Spec => []IInv
<1> QED
  BY InitHolds, NextKeeps, PTL DEF Spec

\* Documents and requests keep their shapes, and no invoice is paid beyond
\* its total, whatever payments meet.
THEOREM ProcureTypeCorrect == Spec => []TypeOK
<1> QED
  BY InductiveInvariant, Types, PTL

\* What an order line has received is the sum of its posted receipts
\* (post_grn), each counted once, for any number of overlapping requests.
THEOREM ReceiptsCountOnce == Spec => []EachReceiptOnce
<1>1. IInv => EachReceiptOnce
  BY DEF IInv, DocInv
<1> QED
  BY <1>1, InductiveInvariant, PTL

\* The status of an order says what its lines have received, although each
\* receipt derives it from its own reading of all the lines.
THEOREM StatusIsTrue == Spec => []StatusFollowsReceipts
<1>1. IInv => StatusFollowsReceipts
  BY DEF IInv, DocInv
<1> QED
  BY <1>1, InductiveInvariant, PTL

\* What a blanket agreement says is consumed is what its orders received, and
\* never more than it promises, however receipts of its orders overlap.
THEOREM AgreementsAreKept == Spec => []AgreementKept
<1>1. IInv => AgreementKept
  BY DEF IInv, DocInv
<1> QED
  BY <1>1, InductiveInvariant, PTL

\* Exceptions are approved for the run that the approver saw (submit_review).
THEOREM ApprovalsAreCurrent == Spec => []ApprovedAsSeen
<1>1. IInv => ApprovedAsSeen
  BY DEF IInv, DocInv
<1> QED
  BY <1>1, InductiveInvariant, PTL

\* Invoice, order, agreement: with one order of the locks no requests wait
\* for each other in a circle.
THEOREM NoDeadlock == Spec => []NoCircularWait
<1>1. IInv => NoCircularWait
  <2> SUFFICES ASSUME IInv, NEW S \in SUBSET Reqs, S # {}
               PROVE  \E r \in S : \A q \in S \ {r} : Wanted(r) \notin req[q].held
    BY DEF NoCircularWait
  <2>1. \A q \in S : Shape(req[q]) /\ req[q] \in Request_ /\ req[q].held = HeldBy(req[q])
    BY DEF IInv, ReqInv, Shape
  <2>2. \A q \in S : req[q].held \subseteq Invoices \cup Orders \cup Agreements
    BY <2>1 DEF Request_
  <2>3. \A q \in S : req[q].pc \in {"idle", "invoice", "order", "agreement", "commit"}
    BY <2>1 DEF Request_
  <2>4. \A q \in S : req[q].pc = "invoice" => req[q].held = {} /\ Wanted(q) \in Invoices
    BY <2>1 DEF Shape, HeldBy, HoldsInvoice, HoldsOrder, HoldsAgreement, Wanted
  <2>5. \A q \in S : req[q].pc = "order" => req[q].held \subseteq Invoices /\ Wanted(q) \in Orders
    <3> SUFFICES ASSUME NEW q \in S, req[q].pc = "order"
                 PROVE  req[q].held \subseteq Invoices /\ Wanted(q) \in Orders
      OBVIOUS
    <3>1. Wanted(q) = Ord(req[q])
      BY DEF Wanted, OrderOfReq, Ord
    <3>2. CASE req[q].op \in {"receive", "value"}
      BY <2>1, <3>1, <3>2, ProcureAssumption
         DEF Shape, HeldBy, HoldsInvoice, HoldsOrder, HoldsAgreement, Ord, Judging
    <3>3. CASE req[q].op \notin {"receive", "value"}
      BY <2>1, <3>1, <3>3, ProcureAssumption
         DEF Shape, HeldBy, HoldsInvoice, HoldsOrder, HoldsAgreement, Ord, Judging
    <3> QED
      BY <3>2, <3>3
  <2>6. \A q \in S : req[q].pc = "agreement" => req[q].held \subseteq Orders /\ Wanted(q) \in Agreements
    <3> SUFFICES ASSUME NEW q \in S, req[q].pc = "agreement"
                 PROVE  req[q].held \subseteq Orders /\ Wanted(q) \in Agreements
      OBVIOUS
    <3>1. req[q].op = "receive" /\ req[q].doc \in Grns /\ AgreementOf[Ord(req[q])] # None
      BY <2>1 DEF Shape
    <3>2. Ord(req[q]) \in Orders /\ Wanted(q) = AgreementOf[Ord(req[q])]
      BY <3>1, ProcureAssumption DEF Wanted, OrderOfReq, Ord
    <3>3. req[q].held = {Ord(req[q])}
      BY <2>1, <3>1 DEF HeldBy, HoldsInvoice, HoldsOrder, HoldsAgreement, Judging
    <3> QED
      BY <3>1, <3>2, <3>3, ProcureAssumption
  <2>7. CASE \E r \in S : req[r].pc \in {"idle", "commit"}
    BY <2>2, <2>7, ProcureAssumption DEF Wanted
  <2>8. CASE \A r \in S : req[r].pc \notin {"idle", "commit"}
    <3>1. CASE \E r \in S : req[r].pc = "agreement"
      BY <2>3, <2>4, <2>5, <2>6, <2>8, <3>1, ProcureAssumption
    <3>2. CASE /\ \A r \in S : req[r].pc # "agreement"
               /\ \E r \in S : req[r].pc = "order"
      BY <2>3, <2>4, <2>5, <2>8, <3>2, ProcureAssumption
    <3>3. CASE \A r \in S : req[r].pc = "invoice"
      BY <2>4, <3>3
    <3> QED
      BY <2>3, <2>8, <3>1, <3>2, <3>3
  <2> QED
    BY <2>7, <2>8
<1> QED
  BY <1>1, InductiveInvariant, PTL

-----------------------------------------------------------------------------
(* The accrual. The match of a posted invoice is left alone (~Late).        *)

MatchCurrent(x) == x.op \in Judging /\ x.pc = "commit" => ~Posted(x.doc)

\* What all invoices take off a line when i takes c.
ClearedWith(i, c, l) == [j \in Invoices |-> IF j = i THEN c[l] ELSE invoice[j].cleared[l]]

\* What the invoices take off the lines that none of them bills twice.
OnceWithinAccrued == \A l \in OnceBilled : Cleared(l) <= Valued(l)

\* Invoice i takes off no more than it bills, and never what is not there.
Covered(i, c) == \A l \in OnceBilled :
    IF l \in Asked(i)
    THEN c[l] <= BilledOn(i, l) /\ Sum(ClearedWith(i, c, l)) <= Valued(l)
    ELSE c[l] = 0
ClearCurrent(x) == x.op = "post" /\ x.pc = "commit" =>
    match[x.doc].status \in Counted /\ Covered(x.doc, x.cleared)

\* A posted invoice is counted by the matches of the others.
PostedCounted == \A i \in Invoices :
    /\ ~Posted(i) => invoice[i].cleared = Nothing
    /\ Posted(i) => match[i].status \in Counted
    /\ \A l \in OnceBilled : IF l \in Asked(i) THEN invoice[i].cleared[l] <= BilledOn(i, l)
                             ELSE invoice[i].cleared[l] = 0

ClearInv ==
    /\ PostedCounted /\ OnceWithinAccrued
    /\ \A q \in Reqs : MatchCurrent(req[q]) /\ ClearCurrent(req[q])

\* An order line that an invoice bills once is billed and cleared by that bill.
LEMMA OneBill ==
    ASSUME NEW i \in Invoices, NEW l \in OnceBilled
    PROVE  /\ l \in Lines
           /\ l \in Asked(i) => \E b \in On(i, l) : On(i, l) = {b}
           /\ l \notin Asked(i) => On(i, l) = {}
<1> QED
  BY DEF OnceBilled, Asked, On

LEMMA OneBillCleared ==
    ASSUME NEW i \in Invoices, NEW l \in OnceBilled, match[i] \in MatchRow
    PROVE  LET most == Billable(Receipts(InvoiceOrder[i]), match[i].prior, l)
               n == BilledOn(i, l)
           IN  Clears(i)[l] = IF l \notin Asked(i) THEN 0 ELSE IF n <= most THEN n ELSE most
<1> DEFINE most == Billable(Receipts(InvoiceOrder[i]), match[i].prior, l)
           f == [b \in On(i, l) |-> ClearsOf(b)]
           n == [b \in On(i, l) |-> Billed[b]]
<1>1. l \in Lines /\ Clears(i)[l] = Sum(f) /\ BilledOn(i, l) = Sum(n)
  BY OneBill DEF Clears, BilledOn
<1>2. CASE l \notin Asked(i)
  <2>1. \A b \in DOMAIN f : f[b] = 0
    BY <1>2, OneBill
  <2> HIDE DEF f
  <2>2. Sum(f) = 0
    BY <2>1, SumNothing
  <2> QED
    BY <1>1, <1>2, <2>2
<1>3. CASE l \in Asked(i)
  <2>1. PICK b \in On(i, l) : On(i, l) = {b}
    BY <1>3, OneBill
  <2>2. b \in Bills /\ InvoiceOf[b] = i /\ LineOf[b] = l /\ Billed[b] \in Nat
    BY ProcureAssumption DEF On, BillsOf
  <2>3. DOMAIN f = {b} /\ f[b] = ClearsOf(b) /\ DOMAIN n = {b} /\ n[b] = Billed[b]
    BY <2>1
  <2>4. ClearsOf(b) = IF Billed[b] <= most THEN Billed[b] ELSE most
    BY <2>2 DEF ClearsOf
  <2>5. most \in Nat
    <3>1. Receipts(InvoiceOrder[i]) \in SUBSET Grns
      BY DEF Receipts
    <3>2. Brought(Receipts(InvoiceOrder[i]), l) \in Nat /\ match[i].prior[l] \in Nat
      BY <1>1, <3>1, BroughtType DEF MatchRow
    <3> QED
      BY <3>2 DEF Billable
  <2> HIDE DEF f, n, most
  <2>6. ClearsOf(b) \in Nat
    BY <2>2, <2>4, <2>5
  <2>7. Sum(f) = ClearsOf(b) /\ Sum(n) = Billed[b]
    BY <2>2, <2>3, <2>6, SumSingle
  <2> QED
    BY <1>1, <1>3, <2>4, <2>7 DEF most
<1> QED
  BY <1>2, <1>3

\* Quantities of the accrual are natural numbers.
LEMMA ClearTypes ==
    ASSUME IInv, NEW l \in Lines
    PROVE  /\ Summable([i \in Invoices |-> invoice[i].cleared[l]])
           /\ Cleared(l) \in Nat /\ Valued(l) \in Nat
           /\ \A i \in Invoices, c \in [Lines -> Nat] :
                 Summable(ClearedWith(i, c, l)) /\ Sum(ClearedWith(i, c, l)) \in Nat
<1> DEFINE f == [i \in Invoices |-> invoice[i].cleared[l]]
<1>1. \A i \in Invoices : invoice[i].cleared[l] \in Nat
  BY DEF IInv, DocInv, DocTypes, InvoiceRow
<1>2. IsFiniteSet(Invoices)
  BY ProcureAssumption
<1>3. Summable(f)
  BY <1>1, <1>2 DEF Summable
<1>4. Cleared(l) \in Nat
  BY <1>3, SumType DEF Cleared
<1>5. Valued(l) \in Nat
  <2>1. {g \in Grns : grn[g] = "valued"} \in SUBSET Grns
    OBVIOUS
  <2> QED
    BY <2>1, BroughtType DEF Valued
<1>6. ASSUME NEW i \in Invoices, NEW c \in [Lines -> Nat]
      PROVE  Summable(ClearedWith(i, c, l)) /\ Sum(ClearedWith(i, c, l)) \in Nat
  <2>1. Summable(ClearedWith(i, c, l))
    BY <1>1, <1>2 DEF Summable, ClearedWith
  <2> QED
    BY <2>1, SumType
<1> QED
  BY <1>3, <1>4, <1>5, <1>6

\* More receipts bring no less.
LEMMA BroughtMore ==
    ASSUME NEW G \in SUBSET Grns, NEW H \in SUBSET Grns, G \subseteq H, NEW l
    PROVE  Brought(G, l) <= Brought(H, l)
<1> DEFINE f == [g \in Sources(G, l) |-> Accepted[g][l]]
           h == [g \in Sources(H, l) |-> Accepted[g][l]]
<1>1. Summable(f) /\ Summable(h)
  BY BroughtType
<1>2. Sources(G, l) \subseteq Sources(H, l)
  BY DEF Sources
<1>3. \A g \in DOMAIN f : g \in DOMAIN h /\ f[g] = h[g] /\ f[g] \in Nat
  BY <1>1, <1>2 DEF Summable
<1> HIDE DEF f, h
<1>4. Sum(f) <= Sum(h)
  BY <1>1, <1>3, SumMonotone
<1> QED
  BY <1>4 DEF f, h, Brought

\* A step towards a commit that is neither a decision on a match nor one to
\* post.
Quiet(x) == x.pc # "commit" \/ x.op \notin Judging \cup {"post"}

\* Beginning, ending and most locks are such steps.
LEMMA QuietMoves ==
    ASSUME NEW r \in Reqs, IInv,
           \/ Request(r) \/ Abort(r) \/ ReceiveLockOrder(r) \/ ReceiveLockAgreement(r)
           \/ ValueLockOrder(r) \/ LockInvoice(r) \/ PostLockInvoice(r) \/ PayLockInvoice(r)
           \/ End(r)
    PROVE  \E x : Move(r, x) /\ Quiet(x)
<1>1. ASSUME End(r)
      PROVE  Move(r, NoReq) /\ Quiet(NoReq)
  BY <1>1 DEF End, Quiet, NoReq
<1>2. req[r] \in Request_
  BY DEF IInv, ReqInv
<1>3. ASSUME NEW pc \in {"order", "agreement", "commit"}, NEW n
      PROVE  /\ Take(r, pc).pc = pc /\ Take(r, pc).op = req[r].op
             /\ [Take(r, pc) EXCEPT !.saw = n].op = req[r].op
             /\ [Take(r, pc) EXCEPT !.saw = n].pc = pc
  BY <1>2 DEF Take, Request_
<1>4. CASE Request(r)
  <2>1. ASSUME NEW op, NEW d, NEW pc \in {"order", "invoice"}, Begin(r, op, d, pc)
        PROVE  \E x : Move(r, x) /\ Quiet(x)
    <3> DEFINE x == [NoReq EXCEPT !.op = op, !.doc = d, !.pc = pc]
    <3>1. Move(r, x)
      BY <2>1 DEF Begin
    <3>2. x.pc = pc
      BY DEF NoReq
    <3> QED
      BY <3>1, <3>2 DEF Quiet
  <2>2. ASSUME NEW i, NEW op, NEW n, ReviewStart(r, i, op, n)
        PROVE  \E x : Move(r, x) /\ Quiet(x)
    <3> DEFINE x == [NoReq EXCEPT !.op = op, !.doc = i, !.pc = "invoice", !.run = n]
    <3>1. Move(r, x)
      BY <2>2 DEF ReviewStart
    <3>2. x.pc = "invoice"
      BY DEF NoReq
    <3> QED
      BY <3>1, <3>2 DEF Quiet
  <2>3. ASSUME NEW i, NEW n, PayStart(r, i, n)
        PROVE  \E x : Move(r, x) /\ Quiet(x)
    <3> DEFINE x == [NoReq EXCEPT !.op = "pay", !.doc = i, !.pc = "invoice", !.amount = n]
    <3>1. Move(r, x)
      BY <2>3 DEF PayStart
    <3>2. x.pc = "invoice"
      BY DEF NoReq
    <3> QED
      BY <3>1, <3>2 DEF Quiet
  <2>4. CASE \E g \in Grns : ReceiveStart(r, g) \/ ValueStart(r, g)
    BY <2>1, <2>4 DEF ReceiveStart, ValueStart
  <2>5. CASE \E i \in Invoices : \/ \E op \in {"match", "rerun"} : MatchStart(r, i, op)
                                 \/ PostStart(r, i)
    BY <2>1, <2>5 DEF MatchStart, PostStart
  <2> QED
    BY <1>4, <2>2, <2>3, <2>4, <2>5 DEF Request
<1>5. CASE End(r) \/ Abort(r)
  BY <1>1, <1>5 DEF Abort
<1>6. CASE ~End(r) /\ ReceiveLockOrder(r)
  <2>1. \E pc \in {"commit", "agreement"} : Move(r, Take(r, pc)) /\ req[r].op = "receive"
    BY <1>6 DEF ReceiveLockOrder
  <2> QED
    BY <1>3, <2>1 DEF Quiet, Judging
<1>7. CASE ~End(r) /\ ReceiveLockAgreement(r)
  <2>1. \E n : Move(r, [Take(r, "commit") EXCEPT !.saw = n])
    BY <1>7 DEF ReceiveLockAgreement
  <2>2. req[r].op = "receive"
    BY <1>7 DEF ReceiveLockAgreement, IInv, ReqInv, Shape
  <2> QED
    BY ZenonT(30), <1>3, <2>1, <2>2 DEF Quiet, Judging
<1>8. CASE ~End(r) /\ ValueLockOrder(r)
  BY <1>3, <1>8 DEF ValueLockOrder, Quiet, Judging
<1>9. CASE ~End(r) /\ (LockInvoice(r) \/ PostLockInvoice(r))
  BY <1>3, <1>9 DEF LockInvoice, PostLockInvoice, Quiet
<1>10. CASE ~End(r) /\ PayLockInvoice(r)
  <2>1. \E n : Move(r, [Take(r, "commit") EXCEPT !.saw = n]) /\ req[r].op = "pay"
    BY <1>10 DEF PayLockInvoice
  <2> QED
    BY ZenonT(30), <1>3, <2>1 DEF Quiet, Judging
<1> QED
  BY <1>4, <1>5, <1>6, <1>7, <1>8, <1>9, <1>10

\* A step that writes nothing keeps the accrual.
LEMMA ClearMoves ==
    ASSUME NEW r \in Reqs, IInv, ClearInv, NEW x, Move(r, x), MatchCurrent(x), ClearCurrent(x)
    PROVE  ClearInv'
<1>1. /\ grn' = grn /\ match' = match /\ invoice' = invoice
  BY DEF Move, Documents
<1>2. req'[r] = x /\ \A q \in Reqs \ {r} : req'[q] = req[q]
  BY DEF Move, IInv, ReqInv
<1>3. PostedCounted' /\ OnceWithinAccrued'
  BY <1>1 DEF ClearInv, PostedCounted, Posted, OnceWithinAccrued, Cleared, Valued
<1>4. ASSUME NEW q \in Reqs
      PROVE  MatchCurrent(req[q])' /\ ClearCurrent(req[q])'
  <2>1. MatchCurrent(req'[q]) /\ ClearCurrent(req'[q])
    BY <1>2 DEF ClearInv
  <2> QED
    BY <1>1, <2>1 DEF MatchCurrent, ClearCurrent, Covered, ClearedWith, Valued, Posted
<1> QED
  BY <1>3, <1>4 DEF ClearInv

\* Also the decision to rerun or review a match, which is of a draft.
LEMMA ClearMatch ==
    ASSUME ~Late, NEW r \in Reqs, IInv, ClearInv, MatchLockOrder(r) \/ ReviewLockOrder(r), ~End(r)
    PROVE  ClearInv'
<1> DEFINE i == req[r].doc
<1>1. PICK j : Move(r, [Take(r, "commit") EXCEPT !.judged = j])
  BY DEF MatchLockOrder, ReviewLockOrder
<1> DEFINE x == [Take(r, "commit") EXCEPT !.judged = j]
<1>2. req[r] \in Request_ /\ req[r].op \in Judging /\ req[r].pc = "order"
  BY DEF MatchLockOrder, ReviewLockOrder, Judging, IInv, ReqInv
<1>3. x.op = req[r].op /\ x.doc = i
  BY <1>2 DEF Take, Request_
<1>4. i \in Invoices
  BY <1>2, LockOrderAfter
<1>5. ~Posted(i)
  <2>1. match[i].status = "none" \/ MayJudge(i)
    BY DEF MatchLockOrder, ReviewLockOrder
  <2>2. Posted(i) => match[i].status \in Counted
    BY <1>4 DEF ClearInv, PostedCounted
  <2> QED
    BY <2>1, <2>2 DEF MayJudge, Counted
<1> HIDE DEF x
<1>6. MatchCurrent(x) /\ ClearCurrent(x)
  BY <1>2, <1>3, <1>5 DEF MatchCurrent, ClearCurrent, Judging
<1> QED
  BY <1>1, <1>6, ClearMoves DEF x

\* A fresh match leaves room for what its invoice takes off: of the valued
\* receipts it leaves to the others what they bill.
LEMMA FreshIsCovered ==
    ASSUME IInv, ClearInv, NEW i \in Invoices, ~Posted(i), Payable(match[i]),
           \A l \in Asked(i) : Fresh(i, l)
    PROVE  match[i].status \in Counted /\ Covered(i, Clears(i))
<1> DEFINE o == InvoiceOrder[i]
           R == Receipts(o)
           V == {g \in Grns : grn[g] = "valued"}
           c == Clears(i)
<1>1. match[i].status \in Counted
  BY DEF Payable, Counted
<1>2. match[i] \in MatchRow /\ c \in [Lines -> Nat]
  BY ClearsType DEF IInv, DocInv, DocTypes
<1>3. ASSUME NEW l \in OnceBilled, l \notin Asked(i)
      PROVE  c[l] = 0
  BY <1>2, <1>3, OneBillCleared
<1>4. ASSUME NEW l \in OnceBilled, l \in Asked(i)
      PROVE  c[l] <= BilledOn(i, l) /\ Sum(ClearedWith(i, c, l)) <= Valued(l)
  <2> DEFINE most == Billable(R, match[i].prior, l)
             n == BilledOn(i, l)
             f == ClearedWith(i, c, l)
             rest == Without(f, i)
             bills == [j \in Others(i, l) |-> BilledOn(j, l)]
  <2>0. l \in Lines
    BY OneBill
  <2>1. c[l] = IF n <= most THEN n ELSE most
    BY <1>2, <1>4, OneBillCleared
  <2>2. n \in Nat
    BY BillTypes
  <2>3. Sources(R, l) = Sources(V, l)
    <3>1. OrderOf[l] = o
      BY <1>4, ProcureAssumption DEF Asked, BillsOf
    <3>2. \A g \in Grns : l \in DOMAIN Accepted[g] => GrnOrder[g] = o
      BY <3>1, ProcureAssumption DEF LinesOf
    <3>3. Fresh(i, l)
      BY <1>4
    <3> QED
      BY <3>2, <3>3 DEF Sources, Receipts, Fresh
  <2>4. Brought(R, l) = Valued(l) /\ Valued(l) \in Nat
    BY <2>0, <2>3, ClearTypes DEF Brought, Valued
  <2>5. match[i].prior[l] = Prior(i, l) /\ Prior(i, l) \in Nat
    BY <1>4, BillTypes DEF Fresh
  <2>6. most = IF Valued(l) > Prior(i, l) THEN Valued(l) - Prior(i, l) ELSE 0
    BY <2>4, <2>5 DEF Billable
  <2>7. Summable(f) /\ Sum(f) \in Nat /\ i \in DOMAIN f /\ f[i] = c[l]
    BY <1>2, <2>0, ClearTypes DEF ClearedWith
  <2>8. Summable(rest) /\ Sum(f) = c[l] + Sum(rest)
    <3> HIDE DEF f, c
    <3> QED
      BY <2>7, SumPoint
  <2>9. Summable(bills)
    <3>1. IsFiniteSet(Others(i, l))
      BY ProcureAssumption, FS_Subset DEF Others
    <3>2. \A j \in Others(i, l) : BilledOn(j, l) \in Nat
      BY BillTypes DEF Others
    <3> QED
      BY <3>1, <3>2 DEF Summable
  <2>10. ASSUME NEW j \in Invoices \ {i}
         PROVE  rest[j] = 0 \/ (j \in Others(i, l) /\ rest[j] <= bills[j])
    <3>1. rest[j] = invoice[j].cleared[l]
      BY DEF Without, ClearedWith
    <3>2. CASE ~Posted(j) \/ l \notin Asked(j)
      BY <2>0, <3>1, <3>2 DEF ClearInv, PostedCounted, Nothing
    <3>3. CASE Posted(j) /\ l \in Asked(j)
      BY <3>1, <3>3 DEF ClearInv, PostedCounted, Others
    <3> QED
      BY <3>2, <3>3
  <2>11. DOMAIN rest = Invoices \ {i} /\ DOMAIN bills = Others(i, l)
    BY DEF Without, ClearedWith
  <2>12. Sum(rest) <= Prior(i, l) /\ Sum(rest) \in Nat
    <3> HIDE DEF rest, bills
    <3>1. Sum(rest) <= Sum(bills) /\ Sum(rest) \in Nat
      BY <2>8, <2>9, <2>10, <2>11, SumMonotone, SumType
    <3>2. Sum(bills) = Prior(i, l)
      BY DEF bills, Prior
    <3> QED
      BY <3>1, <3>2
  <2>13. c[l] \in Nat
    BY <1>2, <2>0
  <2>14. CASE c[l] = 0
    <3>1. invoice[i].cleared[l] = 0
      BY <2>0 DEF ClearInv, PostedCounted, Nothing
    <3>2. f = [j \in Invoices |-> invoice[j].cleared[l]]
      BY <2>14, <3>1 DEF ClearedWith
    <3>3. Sum(f) = Cleared(l)
      BY <3>2 DEF Cleared
    <3>4. Cleared(l) <= Valued(l)
      BY DEF ClearInv, OnceWithinAccrued
    <3> HIDE DEF f, c
    <3> QED
      BY <2>2, <2>14, <3>3, <3>4 DEF f
  <2>15. CASE c[l] # 0
    <3> HIDE DEF f, c, most, n, rest
    <3>1. c[l] <= most /\ most = Valued(l) - Prior(i, l) /\ c[l] <= n
      BY <2>1, <2>2, <2>4, <2>5, <2>6, <2>13, <2>15
    <3>2. Sum(f) <= Valued(l)
      BY <2>4, <2>5, <2>8, <2>12, <2>13, <3>1
    <3> QED
      BY <3>1, <3>2 DEF f, n
  <2> QED
    BY <2>14, <2>15
<1> QED
  BY <1>1, <1>3, <1>4 DEF Covered

\* The decision to post.
LEMMA ClearPost ==
    ASSUME NEW r \in Reqs, IInv, ClearInv, PostLockOrder(r), ~End(r)
    PROVE  ClearInv'
<1> DEFINE i == req[r].doc
           x == [Take(r, "commit") EXCEPT !.cleared = Clears(i)]
<1>1. /\ req[r] \in Request_ /\ req[r].op = "post" /\ req[r].pc = "order" /\ Move(r, x)
      /\ Payable(match[i]) /\ \A l \in Asked(i) : Fresh(i, l)
  BY DEF PostLockOrder, IInv, ReqInv
<1>2. i \in Invoices /\ ~Posted(i)
  BY <1>1, LockOrderAfter
<1>3. x.op = "post" /\ x.doc = i /\ x.cleared = Clears(i)
  BY <1>1 DEF Take, Request_
<1>4. match[i].status \in Counted /\ Covered(i, Clears(i))
  BY <1>1, <1>2, FreshIsCovered
<1> HIDE DEF x
<1>5. MatchCurrent(x) /\ ClearCurrent(x)
  BY <1>3, <1>4 DEF MatchCurrent, ClearCurrent, Judging
<1> QED
  BY <1>1, <1>5, ClearMoves

\* Receipts and valuations only add to what is valued.
LEMMA ClearReceipts ==
    ASSUME NEW r \in Reqs, IInv, ClearInv, CommitReceipt(r) \/ CommitValuation(r)
    PROVE  /\ ClearInv'
           /\ \A l \in Lines : Valued(l)' \in Nat /\ Valued(l) <= Valued(l)' /\ Cleared(l)' = Cleared(l)
           /\ UNCHANGED invoice
<1>1. /\ match' = match /\ invoice' = invoice /\ Commit(r)
      /\ grn \in [Grns -> {"draft", "posted", "valued"}] /\ req[r].doc \in Grns
      /\ \E s \in {"posted", "valued"} : grn' = [grn EXCEPT ![req[r].doc] = s]
      /\ grn[req[r].doc] # "valued" \/ grn' = [grn EXCEPT ![req[r].doc] = "valued"]
  BY DEF CommitReceipt, CommitValuation, IInv, ReqInv, DocInv, DocTypes, Shape, Current,
     ReceiptCurrent, Judging
<1>2. req'[r] = NoReq /\ \A q \in Reqs \ {r} : req'[q] = req[q]
  BY <1>1 DEF Commit, IInv, ReqInv
<1>3. ASSUME NEW l \in Lines
      PROVE  Valued(l)' \in Nat /\ Valued(l) <= Valued(l)' /\ Cleared(l)' = Cleared(l)
  <2> DEFINE V == {g \in Grns : grn[g] = "valued"}
             W == {g \in Grns : grn'[g] = "valued"}
  <2>1. V \subseteq W /\ V \in SUBSET Grns /\ W \in SUBSET Grns
    BY <1>1
  <2>2. Valued(l) = Brought(V, l) /\ Valued(l)' = Brought(W, l)
    BY DEF Valued, Brought, Sources
  <2> HIDE DEF V, W
  <2>3. Brought(V, l) <= Brought(W, l) /\ Brought(W, l) \in Nat
    BY <2>1, BroughtMore, BroughtType
  <2> QED
    BY <1>1, <2>2, <2>3 DEF Cleared
<1>4. PostedCounted'
  BY <1>1 DEF ClearInv, PostedCounted, Posted
<1>5. OnceWithinAccrued'
  <2> SUFFICES ASSUME NEW l \in OnceBilled
               PROVE  Cleared(l)' <= Valued(l)'
    BY DEF OnceWithinAccrued
  <2>0. l \in Lines
    BY DEF OnceBilled
  <2>1. Cleared(l) <= Valued(l) /\ Cleared(l) \in Nat /\ Valued(l) \in Nat
    BY <2>0, ClearTypes DEF ClearInv, OnceWithinAccrued
  <2> QED
    BY <1>3, <2>0, <2>1
<1>6. ASSUME NEW q \in Reqs
      PROVE  MatchCurrent(req[q])' /\ ClearCurrent(req[q])'
  <2>1. CASE q = r
    BY <1>2, <2>1 DEF MatchCurrent, ClearCurrent, NoReq, Judging
  <2>2. CASE q # r
    <3>1. req'[q] = req[q] /\ MatchCurrent(req[q]) /\ ClearCurrent(req[q]) /\ req[q] \in Request_ /\ Shape(req[q])
      BY <1>2, <2>2 DEF ClearInv, IInv, ReqInv
    <3>2. MatchCurrent(req[q])'
      BY <1>1, <3>1 DEF MatchCurrent, Posted
    <3>3. ASSUME NEW k \in Invoices, NEW d \in [Lines -> Nat], Covered(k, d)
          PROVE  Covered(k, d)'
      <4> SUFFICES ASSUME NEW l \in OnceBilled, l \in Asked(k)
                   PROVE  Sum(ClearedWith(k, d, l)) <= Valued(l)'
        BY <1>1, <3>3 DEF Covered, ClearedWith
      <4>0. l \in Lines
        BY DEF OnceBilled
      <4>1. Sum(ClearedWith(k, d, l)) <= Valued(l)
        BY <3>3 DEF Covered
      <4>2. Sum(ClearedWith(k, d, l)) \in Nat /\ Valued(l) \in Nat
        BY <4>0, ClearTypes
      <4> QED
        BY <1>3, <4>0, <4>1, <4>2
    <3>4. ClearCurrent(req[q])'
      <4>1. req[q].op = "post" => req[q].doc \in Invoices /\ req[q].cleared \in [Lines -> Nat]
        BY <3>1 DEF Shape, Judging, Request_
      <4> QED
        BY <1>1, <3>1, <3>3, <4>1 DEF ClearCurrent
    <3> QED
      BY <3>2, <3>4
  <2> QED
    BY <2>1, <2>2
<1> QED
  BY <1>1, <1>3, <1>4, <1>5, <1>6 DEF ClearInv

\* A decision on a match is of a draft, and no other request decides on it.
LEMMA ClearDecisions ==
    ASSUME NEW r \in Reqs, IInv, ClearInv, CommitMatch(r)
    PROVE  ClearInv'
<1> DEFINE i == req[r].doc
<1>1. req[r].op \in Judging /\ req[r].pc = "commit" /\ Shape(req[r]) /\ ~Posted(i)
  BY DEF CommitMatch, IInv, ReqInv, ClearInv, MatchCurrent, Judging
<1>2. i \in Invoices /\ i \in req[r].held
  BY <1>1 DEF Shape, HeldBy, HoldsInvoice, Judging
<1>3. /\ match' = [match EXCEPT ![i] = req[r].judged] /\ Commit(r)
      /\ grn' = grn /\ invoice' = invoice /\ match \in [Invoices -> MatchRow]
  BY DEF CommitMatch, IInv, DocInv, DocTypes
<1>4. req'[r] = NoReq /\ \A q \in Reqs \ {r} : req'[q] = req[q]
  BY <1>3 DEF Commit, IInv, ReqInv
<1>5. PostedCounted'
  BY <1>1, <1>3 DEF ClearInv, PostedCounted, Posted
<1>6. OnceWithinAccrued'
  BY <1>3 DEF ClearInv, OnceWithinAccrued, Cleared, Valued
<1>7. ASSUME NEW q \in Reqs
      PROVE  MatchCurrent(req[q])' /\ ClearCurrent(req[q])'
  <2>1. CASE q = r
    BY <1>4, <2>1 DEF MatchCurrent, ClearCurrent, NoReq, Judging
  <2>2. CASE q # r
    <3>1. /\ req'[q] = req[q] /\ MatchCurrent(req[q]) /\ ClearCurrent(req[q]) /\ Shape(req[q])
          /\ req[q].held \cap req[r].held = {}
      BY <1>4, <2>2 DEF ClearInv, IInv, ReqInv, Exclusive
    <3>2. req[q].op = "post" /\ req[q].pc = "commit" => req[q].doc # i /\ req[q].doc \in Invoices
      BY <1>2, <3>1 DEF Shape, HeldBy, HoldsInvoice, Judging
    <3> QED
      BY <1>3, <3>1, <3>2 DEF MatchCurrent, ClearCurrent, Covered, ClearedWith, Valued, Posted
  <2> QED
    BY <2>1, <2>2
<1> QED
  BY <1>5, <1>6, <1>7 DEF ClearInv

\* What a posting does to the accrual and to the books.
LEMMA ClearPosting ==
    ASSUME NEW r \in Reqs, IInv, ClearInv, CommitPosting(r)
    PROVE  /\ ClearInv'
           /\ req[r].doc \in Invoices /\ ~Posted(req[r].doc)
           /\ \A j \in Invoices \ {req[r].doc} : invoice'[j] = invoice[j]
           /\ invoice'[req[r].doc].status # "draft" /\ invoice'[req[r].doc].payments = 0
           /\ \A l \in OnceBilled : Cleared(l) <= Cleared(l)' /\ Valued(l)' = Valued(l)
<1> DEFINE i == req[r].doc
           c == req[r].cleared
           x == [NoPosting EXCEPT !.status = "received", !.cleared = c]
<1>1. /\ req[r] \in Request_ /\ req[r].op = "post" /\ req[r].pc = "commit" /\ Shape(req[r])
      /\ PostCurrent(req[r]) /\ ClearCurrent(req[r])
  BY DEF CommitPosting, IInv, ReqInv, Current, ClearInv
<1>2. /\ i \in Invoices /\ i \in req[r].held /\ InvoiceOrder[i] \in req[r].held
      /\ ~Posted(i) /\ match[i].status \in Counted /\ Covered(i, c) /\ c \in [Lines -> Nat]
  BY <1>1 DEF Shape, HeldBy, HoldsInvoice, HoldsOrder, Ord, Judging, PostCurrent, ClearCurrent, Request_
<1>3. /\ invoice' = [invoice EXCEPT ![i] = x] /\ Commit(r)
      /\ grn' = grn /\ match' = match /\ DOMAIN invoice = Invoices
  BY DEF CommitPosting, IInv, DocInv, PaidTogether
<1>4. x.status = "received" /\ x.cleared = c /\ x.payments = 0
  BY DEF NoPosting
<1> HIDE DEF x
<1>5. invoice'[i] = x /\ \A j \in Invoices \ {i} : invoice'[j] = invoice[j]
  BY <1>2, <1>3
<1>6. req'[r] = NoReq /\ \A q \in Reqs \ {r} : req'[q] = req[q]
  BY <1>3 DEF Commit, IInv, ReqInv
<1>7. invoice[i].cleared = Nothing
  BY <1>2 DEF ClearInv, PostedCounted
<1>8. ASSUME NEW l \in OnceBilled
      PROVE  /\ Cleared(l) <= Cleared(l)' /\ Cleared(l)' <= Valued(l) /\ Valued(l)' = Valued(l)
  <2> DEFINE f == [j \in Invoices |-> invoice[j].cleared[l]]
             g == ClearedWith(i, c, l)
  <2>0. l \in Lines
    BY DEF OnceBilled
  <2>1. g = [j \in Invoices |-> invoice'[j].cleared[l]]
    BY <1>4, <1>5 DEF ClearedWith
  <2>2. Cleared(l)' = Sum(g)
    BY <2>1 DEF Cleared
  <2>3. Cleared(l) = Sum(f)
    BY DEF Cleared
  <2>4. Summable(f) /\ Summable(g) /\ Sum(g) \in Nat /\ Valued(l) \in Nat
    BY <1>2, <2>0, ClearTypes
  <2>5. \A j \in DOMAIN f : f[j] = 0 \/ (j \in DOMAIN g /\ f[j] <= g[j])
    <3>1. f[i] = 0
      BY <1>2, <1>7, <2>0 DEF Nothing
    <3>2. \A j \in Invoices \ {i} : f[j] = g[j] /\ f[j] \in Nat
      BY <2>4 DEF ClearedWith, Summable
    <3> QED
      BY <3>1, <3>2 DEF ClearedWith
  <2>6. Sum(f) <= Sum(g)
    <3> HIDE DEF f, g
    <3> QED
      BY <2>4, <2>5, SumMonotone
  <2>7. Sum(g) <= Valued(l)
    <3>1. CASE l \in Asked(i)
      BY <1>2, <3>1 DEF Covered
    <3>2. CASE l \notin Asked(i)
      <4>1. c[l] = 0
        BY <1>2, <3>2 DEF Covered
      <4>2. g = f
        BY <1>7, <2>0, <4>1 DEF ClearedWith, Nothing
      <4> QED
        BY <2>3, <4>2 DEF ClearInv, OnceWithinAccrued
    <3> QED
      BY <3>1, <3>2
  <2>8. Valued(l)' = Valued(l)
    BY <1>3 DEF Valued
  <2> QED
    BY <2>2, <2>3, <2>6, <2>7, <2>8
<1>9. PostedCounted'
  <2> SUFFICES ASSUME NEW j \in Invoices
               PROVE  /\ invoice'[j].status = "draft" => invoice'[j].cleared = Nothing
                      /\ invoice'[j].status # "draft" => match[j].status \in Counted
                      /\ \A l \in OnceBilled : IF l \in Asked(j)
                                          THEN invoice'[j].cleared[l] <= BilledOn(j, l)
                                          ELSE invoice'[j].cleared[l] = 0
    BY <1>3 DEF PostedCounted, Posted
  <2>1. CASE j = i
    BY <1>2, <1>4, <1>5, <2>1 DEF Covered
  <2>2. CASE j # i
    BY <1>5, <2>2 DEF ClearInv, PostedCounted, Posted
  <2> QED
    BY <2>1, <2>2
<1>10. OnceWithinAccrued'
  BY <1>8 DEF OnceWithinAccrued
<1>11. ASSUME NEW q \in Reqs
       PROVE  MatchCurrent(req[q])' /\ ClearCurrent(req[q])'
  <2>1. CASE q = r
    BY <1>6, <2>1 DEF MatchCurrent, ClearCurrent, NoReq, Judging
  <2>2. CASE q # r
    <3>1. /\ req'[q] = req[q] /\ MatchCurrent(req[q]) /\ ClearCurrent(req[q]) /\ Shape(req[q])
          /\ req[q].held \cap req[r].held = {}
      BY <1>6, <2>2 DEF ClearInv, IInv, ReqInv, Exclusive
    <3>2. HoldsInvoice(req[q]) => req[q].doc # i /\ req[q].doc \in Invoices
      BY <1>2, <3>1 DEF Shape, HeldBy, HoldsInvoice, Judging
    <3>3. MatchCurrent(req[q])'
      BY <1>5, <3>1, <3>2 DEF MatchCurrent, Posted, HoldsInvoice
    <3>4. ASSUME NEW k \in Invoices, NEW d, Covered(k, d), k # i, InvoiceOrder[k] # InvoiceOrder[i]
          PROVE  Covered(k, d)'
      <4> SUFFICES ASSUME NEW l \in OnceBilled, l \in Asked(k)
                   PROVE  Sum([j \in Invoices |-> IF j = k THEN d[l] ELSE invoice'[j].cleared[l]]) <= Valued(l)'
        BY <3>4 DEF Covered, ClearedWith
      <4>0. l \in Lines
        BY DEF OnceBilled
      <4>1. l \notin Asked(i)
        BY <1>2, <3>4, ProcureAssumption DEF Asked, BillsOf
      <4>2. c[l] = 0 /\ invoice[i].cleared[l] = 0
        BY <1>2, <1>7, <4>0, <4>1 DEF Covered, Nothing
      <4>3. [j \in Invoices |-> IF j = k THEN d[l] ELSE invoice'[j].cleared[l]] = ClearedWith(k, d, l)
        BY <1>4, <1>5, <4>2 DEF ClearedWith
      <4>4. Sum(ClearedWith(k, d, l)) <= Valued(l)
        BY <3>4 DEF Covered
      <4> QED
        BY <1>8, <4>3, <4>4
    <3>5. ClearCurrent(req[q])'
      <4>1. req[q].op = "post" /\ req[q].pc = "commit" =>
               /\ req[q].doc # i /\ req[q].doc \in Invoices
               /\ InvoiceOrder[req[q].doc] # InvoiceOrder[i]
        BY <1>2, <3>1, <3>2 DEF HoldsInvoice, Shape, HeldBy, HoldsOrder, Ord, Judging
      <4> QED
        BY <1>3, <3>1, <3>4, <4>1 DEF ClearCurrent
    <3> QED
      BY <3>3, <3>5
  <2> QED
    BY <2>1, <2>2
<1> QED
  BY <1>2, <1>4, <1>5, <1>8, <1>9, <1>10, <1>11 DEF ClearInv, Posted

\* What a payment does.
LEMMA ClearPayment ==
    ASSUME NEW r \in Reqs, IInv, ClearInv, CommitPayment(r)
    PROVE  /\ ClearInv'
           /\ req[r].doc \in Invoices /\ Posted(req[r].doc) /\ UNCHANGED grn
           /\ \A j \in Invoices : Posted(j)' = Posted(j) /\ invoice'[j].cleared = invoice[j].cleared
           /\ \A j \in Invoices \ {req[r].doc} : invoice'[j] = invoice[j]
           /\ invoice'[req[r].doc].payments > invoice[req[r].doc].payments
           /\ invoice'[req[r].doc].payments <= Total(req[r].doc)
<1> DEFINE i == req[r].doc
           paid == req[r].saw + req[r].amount
           x == [invoice[i] EXCEPT !.paid = paid, !.payments = @ + req[r].amount,
                                   !.status = IF paid >= Total(i) THEN "paid" ELSE "partly"]
<1>1. /\ req[r].op = "pay" /\ req[r].pc = "commit" /\ req[r] \in Request_ /\ Commit(r)
      /\ Shape(req[r]) /\ PayCurrent(req[r])
  BY DEF CommitPayment, IInv, ReqInv, Current
<1>2. /\ i \in Invoices /\ req[r].saw = invoice[i].paid /\ paid <= Total(i)
      /\ req[r].amount \in Nat /\ req[r].amount > 0 /\ Posted(i)
  BY <1>1 DEF Shape, Judging, PayCurrent, Request_
<1>3. invoice[i] \in InvoiceRow(i) /\ invoice[i].paid = invoice[i].payments /\ Total(i) \in Nat
  BY <1>2, BillTypes DEF IInv, DocInv, DocTypes, PaidTogether
<1>4. DOMAIN invoice = Invoices
  BY DEF IInv, DocInv, PaidTogether
<1>5. invoice' = [invoice EXCEPT ![i] = x] /\ grn' = grn /\ match' = match
  BY <1>2, <1>3, <1>4 DEF CommitPayment, InvoiceRow
<1>6. /\ x.cleared = invoice[i].cleared /\ x.status # "draft"
      /\ x.payments = invoice[i].payments + req[r].amount
  BY <1>3 DEF InvoiceRow
<1>7. x.payments > invoice[i].payments /\ x.payments <= Total(i)
  BY <1>2, <1>3, <1>6 DEF InvoiceRow
<1> HIDE DEF x
<1>8. invoice'[i] = x /\ \A j \in Invoices \ {i} : invoice'[j] = invoice[j]
  BY <1>2, <1>4, <1>5
<1>9. \A j \in Invoices : invoice'[j].cleared = invoice[j].cleared
                          /\ (invoice'[j].status = "draft" <=> invoice[j].status = "draft")
  BY <1>2, <1>6, <1>8 DEF Posted
<1>10. req'[r] = NoReq /\ \A q \in Reqs \ {r} : req'[q] = req[q]
  BY <1>1 DEF Commit, IInv, ReqInv
<1>11. PostedCounted'
  BY <1>5, <1>9 DEF ClearInv, PostedCounted, Posted
<1>12. ASSUME NEW l \in OnceBilled
       PROVE  Cleared(l)' = Cleared(l) /\ Valued(l)' = Valued(l)
  BY <1>5, <1>9 DEF Cleared, Valued
<1>13. OnceWithinAccrued'
  BY <1>12 DEF ClearInv, OnceWithinAccrued
<1>14. ASSUME NEW q \in Reqs
       PROVE  MatchCurrent(req[q])' /\ ClearCurrent(req[q])'
  <2>1. CASE q = r
    BY <1>10, <2>1 DEF MatchCurrent, ClearCurrent, NoReq, Judging
  <2>2. CASE q # r
    <3>1. req'[q] = req[q] /\ MatchCurrent(req[q]) /\ ClearCurrent(req[q]) /\ Shape(req[q])
      BY <1>10, <2>2 DEF ClearInv, IInv, ReqInv
    <3>2. MatchCurrent(req[q])'
      BY <1>9, <3>1 DEF MatchCurrent, Posted, Shape, Judging
    <3>3. ASSUME NEW k, NEW d, Covered(k, d)
          PROVE  Covered(k, d)'
      <4>1. \A l \in OnceBilled : [j \in Invoices |-> IF j = k THEN d[l] ELSE invoice'[j].cleared[l]]
                             = [j \in Invoices |-> IF j = k THEN d[l] ELSE invoice[j].cleared[l]]
        BY <1>9
      <4> QED
        BY <1>12, <3>3, <4>1 DEF Covered, ClearedWith
    <3>4. ClearCurrent(req[q])'
      BY <1>5, <3>1, <3>3 DEF ClearCurrent
    <3> QED
      BY <3>2, <3>4
  <2> QED
    BY <2>1, <2>2
<1> QED
  BY <1>2, <1>5, <1>7, <1>8, <1>9, <1>11, <1>13, <1>14 DEF ClearInv, Posted

\* A step is a commit or one that writes nothing.
LEMMA StepKinds ==
    ASSUME NEW r \in Reqs, IInv, ClearInv, Request(r) \/ Step(r) \/ Abort(r)
    PROVE  \/ CommitReceipt(r) \/ CommitValuation(r) \/ CommitMatch(r) \/ CommitPosting(r) \/ CommitPayment(r)
           \/ /\ \E x : Move(r, x)
              /\ ~Late => ClearInv'
<1>1. ASSUME End(r) \/ \E x : Move(r, x) /\ Quiet(x)
      PROVE  (\E x : Move(r, x)) /\ ClearInv'
  <2>1. PICK x : Move(r, x) /\ Quiet(x)
    BY <1>1, QuietMoves
  <2>2. MatchCurrent(x) /\ ClearCurrent(x)
    BY <2>1 DEF Quiet, MatchCurrent, ClearCurrent
  <2> QED
    BY <2>1, <2>2, ClearMoves
<1>2. CASE MatchLockOrder(r) /\ ~End(r)
  BY <1>2, ClearMatch DEF MatchLockOrder
<1>3. CASE ReviewLockOrder(r) /\ ~End(r)
  BY <1>3, ClearMatch DEF ReviewLockOrder
<1>4. CASE PostLockOrder(r) /\ ~End(r)
  BY <1>4, ClearPost DEF PostLockOrder
<1>5. CASE \/ Request(r) \/ Abort(r) \/ ReceiveLockOrder(r) \/ ReceiveLockAgreement(r)
           \/ ValueLockOrder(r) \/ LockInvoice(r) \/ PostLockInvoice(r) \/ PayLockInvoice(r)
  BY <1>1, <1>5, QuietMoves
<1> QED
  BY <1>1, <1>2, <1>3, <1>4, <1>5 DEF Step

\* At first nothing is taken off.
LEMMA ClearInit == Init => ClearInv
<1> SUFFICES ASSUME Init
             PROVE  ClearInv
  OBVIOUS
<1>1. IInv
  BY InitHolds
<1>2. \A i \in Invoices : invoice[i] = NoPosting
  BY DEF Init
<1>3. \A q \in Reqs : req[q] = NoReq
  BY DEF Init
<1>4. PostedCounted
  <2>1. \A i \in Invoices : ~Posted(i) /\ invoice[i].cleared = Nothing
    BY <1>2 DEF Posted, NoPosting
  <2>2. \A l \in OnceBilled : Nothing[l] = 0
    BY DEF Nothing, OnceBilled
  <2>3. \A i \in Invoices : \A l \in OnceBilled : BilledOn(i, l) \in Nat
    BY BillTypes
  <2> QED
    BY <2>1, <2>2, <2>3 DEF PostedCounted
<1>5. OnceWithinAccrued
  <2> SUFFICES ASSUME NEW l \in OnceBilled
               PROVE  Cleared(l) <= Valued(l)
    BY DEF OnceWithinAccrued
  <2>0. l \in Lines
    BY DEF OnceBilled
  <2> DEFINE f == [i \in Invoices |-> invoice[i].cleared[l]]
             V == {g \in Grns : grn[g] = "valued"}
             h == [g \in Sources(V, l) |-> Accepted[g][l]]
  <2>1. Summable(f)
    BY <1>1, <2>0, ClearTypes
  <2>2. \A i \in DOMAIN f : f[i] = 0
    BY <1>2, <2>0 DEF NoPosting, Nothing
  <2>3. V \in SUBSET Grns
    OBVIOUS
  <2>4. Summable(h)
    BY <2>3, BroughtType
  <2>5. Sum(f) <= Sum(h)
    <3> HIDE DEF f, h
    <3> QED
      BY <2>1, <2>2, <2>4, SumMonotone
  <2>6. Sum(f) = Cleared(l)
    BY DEF Cleared
  <2>7. Sum(h) = Valued(l)
    BY DEF Valued, Brought
  <2> QED
    BY <2>5, <2>6, <2>7
<1>6. \A q \in Reqs : MatchCurrent(req[q]) /\ ClearCurrent(req[q])
  BY <1>3 DEF MatchCurrent, ClearCurrent, NoReq, Judging
<1> QED
  BY <1>4, <1>5, <1>6 DEF ClearInv

\* Every step keeps what is taken off within what is there.
LEMMA ClearNext == ~Late /\ IInv /\ ClearInv /\ [Next]_vars => ClearInv'
<1> SUFFICES ASSUME ~Late, IInv, ClearInv, [Next]_vars
             PROVE  ClearInv'
  OBVIOUS
<1>1. CASE UNCHANGED vars
  <2>1. grn' = grn /\ match' = match /\ invoice' = invoice /\ req' = req
    BY <1>1 DEF vars
  <2>2. PostedCounted' /\ OnceWithinAccrued'
    BY <2>1 DEF ClearInv, PostedCounted, Posted, OnceWithinAccrued, Cleared, Valued
  <2>3. ASSUME NEW q \in Reqs
        PROVE  MatchCurrent(req[q])' /\ ClearCurrent(req[q])'
    BY <2>1 DEF ClearInv, MatchCurrent, ClearCurrent, Covered, ClearedWith, Valued, Posted
  <2> QED
    BY <2>2, <2>3 DEF ClearInv
<1>2. ASSUME NEW r \in Reqs, Request(r) \/ Step(r) \/ Abort(r)
      PROVE  ClearInv'
  BY <1>2, StepKinds, ClearReceipts, ClearDecisions, ClearPosting, ClearPayment
<1> QED
  BY <1>1, <1>2 DEF Next

\* As long as the match of a posted invoice is left alone, no more is taken
\* off the accrual of an order line than was received and valued, however
\* many invoices are matched, approved and posted in whatever order, unless
\* some invoice bills that order line by two of its own lines.
THEOREM NoReceiptClearedTwice ==
    ASSUME ~Late
    PROVE  Spec => [](\A l \in OnceBilled : Cleared(l) <= Valued(l))
<1>1. IInv /\ ClearInv /\ [Next]_vars => ClearInv'
  BY ClearNext
<1>2. ClearInv => \A l \in OnceBilled : Cleared(l) <= Valued(l)
  BY DEF ClearInv, OnceWithinAccrued
<1> QED
  BY <1>1, <1>2, ClearInit, InductiveInvariant, PTL DEF Spec

\* Initially nothing is posted or paid.
LEMMA BooksInit == IInv /\ ClearInv /\ Init => Books!Init
<1> SUFFICES ASSUME IInv, ClearInv, Init
             PROVE  Books!Init
  OBVIOUS
<1>1. ASSUME NEW l \in OnceBilled
      PROVE  Valued(l) - Cleared(l) \in Nat
  <2>1. Valued(l) \in Nat /\ Cleared(l) \in Nat
    BY ClearTypes DEF OnceBilled
  <2>2. Cleared(l) <= Valued(l)
    BY DEF ClearInv, OnceWithinAccrued
  <2> QED
    BY <2>1, <2>2
<1>2. \A i \in Invoices : invoice[i] = NoPosting
  BY DEF Init
<1>3. {i \in Invoices : Posted(i)} = {}
  BY <1>2 DEF Posted, NoPosting
<1>4. [i \in Invoices |-> invoice[i].payments] = [i \in Invoices |-> 0]
  BY <1>2 DEF NoPosting
<1> QED
  BY <1>1, <1>3, <1>4 DEF Books!Init

\* Every step is one of the accrual, or none.
LEMMA BooksNext ==
    ASSUME IInv, IInv', ClearInv, ClearInv', [Next]_vars
    PROVE  [Books!Next]_(Books!books)
<1> DEFINE open == [l \in OnceBilled |-> Valued(l) - Cleared(l)]
           posted == {i \in Invoices : Posted(i)}
           paid == [i \in Invoices |-> invoice[i].payments]
<1>1. \A l \in OnceBilled : Valued(l) \in Nat /\ Cleared(l) \in Nat /\ Cleared(l) <= Valued(l)
  BY ClearTypes DEF ClearInv, OnceWithinAccrued, OnceBilled
<1>2. ASSUME NEW l \in OnceBilled
      PROVE  Valued(l)' \in Nat /\ Cleared(l)' \in Nat /\ Cleared(l)' <= Valued(l)'
  <2>1. Cleared(l)' <= Valued(l)'
    BY DEF ClearInv, OnceWithinAccrued
  <2>2. Valued(l)' \in Nat
    <3>1. {g \in Grns : grn'[g] = "valued"} \in SUBSET Grns
      OBVIOUS
    <3> QED
      BY <3>1, BroughtType DEF Valued, Brought, Sources
  <2>3. Cleared(l)' \in Nat
    <3> DEFINE f == [i \in Invoices |-> invoice'[i].cleared[l]]
    <3>1. \A i \in Invoices : invoice'[i].cleared[l] \in Nat
      BY DEF IInv, DocInv, DocTypes, InvoiceRow, OnceBilled
    <3>2. Summable(f)
      BY <3>1, ProcureAssumption DEF Summable
    <3> QED
      BY <3>2, SumType DEF Cleared
  <2> QED
    BY <2>1, <2>2, <2>3
<1>3. open' = [l \in OnceBilled |-> Valued(l)' - Cleared(l)']
  OBVIOUS
<1>4. open \in [OnceBilled -> Nat] /\ open' \in [OnceBilled -> Nat]
  BY <1>1, <1>2, <1>3
<1>5. ASSUME invoice' = invoice, grn' = grn
      PROVE  UNCHANGED Books!books
  BY <1>5 DEF Books!books, Valued, Cleared, Posted
<1>6. CASE UNCHANGED vars
  BY <1>5, <1>6 DEF vars
<1>7. ASSUME NEW r \in Reqs, Request(r) \/ Step(r) \/ Abort(r)
      PROVE  Books!Next \/ UNCHANGED Books!books
  <2>1. CASE CommitReceipt(r) \/ CommitValuation(r)
    <3>1. /\ \A l \in OnceBilled : Valued(l) <= Valued(l)' /\ Cleared(l)' = Cleared(l)
          /\ invoice' = invoice
      BY <2>1, ClearReceipts DEF OnceBilled
    <3>2. posted' = posted /\ paid' = paid
      BY <3>1 DEF Posted
    <3>3. \A l \in OnceBilled : open'[l] >= open[l]
      BY <1>1, <1>2, <1>3, <3>1
    <3>4. CASE open' = open
      BY <3>2, <3>4 DEF Books!books
    <3>5. CASE open' # open
      <4>1. Books!Accrue
        BY <1>4, <3>2, <3>3, <3>5 DEF Books!Accrue
      <4> QED
        BY <4>1 DEF Books!Next
    <3> QED
      BY <3>4, <3>5
  <2>2. CASE CommitMatch(r)
    BY <1>5, <2>2 DEF CommitMatch
  <2>3. CASE CommitPosting(r)
    <3> DEFINE i == req[r].doc
    <3>1. /\ i \in Invoices /\ ~Posted(i) /\ invoice'[i].status # "draft" /\ invoice'[i].payments = 0
          /\ \A j \in Invoices \ {i} : invoice'[j] = invoice[j]
          /\ \A l \in OnceBilled : Cleared(l) <= Cleared(l)' /\ Valued(l)' = Valued(l)
      BY <2>3, ClearPosting
    <3>2. posted' = posted \cup {i} /\ i \notin posted
      BY <3>1 DEF Posted
    <3>3. invoice[i].payments = 0
      BY <3>1 DEF IInv, DocInv, PaidTogether
    <3>4. paid' = paid
      BY <3>1, <3>3
    <3>5. \A l \in OnceBilled : open'[l] <= open[l]
      BY <1>1, <1>2, <1>3, <3>1
    <3> HIDE DEF i, open, posted, paid
    <3>6. Books!Post(i)
      BY <1>4, <3>2, <3>4, <3>5 DEF Books!Post, open, posted, paid
    <3> QED
      BY <3>1, <3>6 DEF Books!Next
  <2>4. CASE CommitPayment(r)
    <3>0. req[r].doc \in Invoices
      BY <2>4, ClearPayment
    <3> PICK i \in Invoices : i = req[r].doc
      BY <3>0
    <3>1. /\ i \in Invoices /\ Posted(i) /\ grn' = grn
          /\ \A j \in Invoices : Posted(j)' = Posted(j) /\ invoice'[j].cleared = invoice[j].cleared
          /\ \A j \in Invoices \ {i} : invoice'[j] = invoice[j]
          /\ invoice'[i].payments > invoice[i].payments
          /\ invoice'[i].payments <= Total(i)
      BY <2>4, ClearPayment
    <3>2. posted' = posted /\ i \in posted
      BY <3>1
    <3>3. open' = open
      BY <3>1 DEF Valued, Cleared
    <3>4. \A j \in Invoices : invoice'[j].payments \in Nat
      BY BillTypes DEF IInv, DocInv, DocTypes, InvoiceRow
    <3>5. \A j \in Invoices : invoice[j].payments \in Nat
      BY BillTypes DEF IInv, DocInv, DocTypes, InvoiceRow
    <3>6. paid[i] < paid'[i] /\ paid'[i] <= Total(i) /\ \A j \in Invoices \ {i} : paid'[j] = paid[j]
      BY <3>1, <3>4, <3>5
    <3>7. paid' \in [Invoices -> Nat]
      BY <3>4
    <3>8. [j \in Invoices |-> Total(j)][i] = Total(i)
      BY <3>1
    <3> HIDE DEF open, posted, paid
    <3>9. Books!Pay(i)
      BY <3>2, <3>3, <3>6, <3>7, <3>8 DEF Books!Pay, open, posted, paid
    <3> QED
      BY <3>9 DEF Books!Next
  <2>5. CASE \E x : Move(r, x)
    BY <1>5, <2>5 DEF Move, Documents
  <2> QED
    BY <1>7, <2>1, <2>2, <2>3, <2>4, <2>5, StepKinds
<1> QED
  BY <1>6, <1>7 DEF Next

\* As long as the match of a posted invoice is left alone, receiving, posting
\* and paying implement the accrual: goods are taken off it once, and only
\* what was posted is paid, at most in full. The accrual is that of the order
\* lines that no invoice bills by two of its lines.
THEOREM AccrualImplemented ==
    ASSUME ~Late
    PROVE  Spec => ImplementsAccrual
<1>1. IInv /\ ClearInv /\ [Next]_vars => ClearInv'
  BY ClearNext
<1>2. IInv /\ IInv' /\ ClearInv /\ ClearInv' /\ [Next]_vars => [Books!Next]_(Books!books)
  BY BooksNext
<1> QED
  BY <1>1, <1>2, ClearInit, InitHolds, NextKeeps, BooksInit, PTL DEF Spec, ImplementsAccrual, Books!Spec
=============================================================================
