------------------------------ MODULE Accrual ------------------------------
(***************************************************************************)
(* What receiving and invoicing owe the books: goods received and not yet  *)
(* invoiced are accrued line by line, an invoice takes its goods off the   *)
(* accrual once and never more than is left of it, and only what an        *)
(* invoice has taken off is paid, at most in full. ProcureToPay is shown   *)
(* to implement it.                                                        *)
(***************************************************************************)
EXTENDS Naturals

CONSTANTS Lines, Invoices,
    Owed          \* the total of each invoice

VARIABLES
    open,         \* what was received of each line and no invoice has taken off
    posted,       \* the invoices in the books
    paid

books == <<open, posted, paid>>

Init == open \in [Lines -> Nat] /\ posted = {} /\ paid = [i \in Invoices |-> 0]

Accrue ==
    /\ open' # open /\ \A l \in Lines : open'[l] >= open[l]
    /\ open' \in [Lines -> Nat]
    /\ UNCHANGED <<posted, paid>>

Post(i) ==
    /\ i \notin posted /\ posted' = posted \cup {i}
    /\ open' \in [Lines -> Nat] /\ \A l \in Lines : open'[l] <= open[l]
    /\ UNCHANGED paid

Pay(i) ==
    /\ i \in posted
    /\ paid[i] < paid'[i] /\ paid'[i] <= Owed[i] /\ paid' \in [Invoices -> Nat]
    /\ \A j \in Invoices \ {i} : paid'[j] = paid[j]
    /\ UNCHANGED <<open, posted>>

Next == Accrue \/ \E i \in Invoices : Post(i) \/ Pay(i)
Spec == Init /\ [][Next]_books
=============================================================================
