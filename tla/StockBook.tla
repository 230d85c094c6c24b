----------------------------- MODULE StockBook -----------------------------
(***************************************************************************)
(* What services/inventory_service.py promises about stock ("Stock cannot  *)
(* go negative", "every mutation writes a StockMovement ledger row"): the  *)
(* quantity of an identity and the sum of its movements change together,   *)
(* both sides of a transfer in one step, and no call takes goods that      *)
(* another one was promised. StockLedger is shown to implement it.         *)
(***************************************************************************)
EXTENDS Integers

CONSTANTS
    Keys,        \* stock identities
    Quantities   \* quantities of one call

VARIABLES
    quantity,    \* goods of each identity
    promised,    \* goods reserved for orders
    posted       \* the sum of its movements

book == <<quantity, promised, posted>>

Init ==
    /\ quantity = [k \in Keys |-> 0]
    /\ promised = [k \in Keys |-> 0]
    /\ posted = [k \in Keys |-> 0]

\* One movement that brings q to the keys of "to" and takes q from those of
\* "from"; what it takes must not be promised.
Post(from, to, q) ==
    /\ \A k \in from : q <= quantity[k] - promised[k]
    /\ LET After(f) == [k \in Keys |-> f[k] + (IF k \in to THEN q ELSE 0)
                                            - (IF k \in from THEN q ELSE 0)]
       IN quantity' = After(quantity) /\ posted' = After(posted)
    /\ UNCHANGED promised

Promise(k, q) ==
    /\ q <= quantity[k] - promised[k]
    /\ promised' = [promised EXCEPT ![k] = @ + q]
    /\ UNCHANGED <<quantity, posted>>

Release(k, q) ==
    /\ q <= promised[k]
    /\ promised' = [promised EXCEPT ![k] = @ - q]
    /\ UNCHANGED <<quantity, posted>>

Next == \E k \in Keys, q \in Quantities :
    \/ Post({}, {k}, q) \/ Post({k}, {}, q)
    \/ \E j \in Keys \ {k} : Post({j}, {k}, q)
    \/ Promise(k, q) \/ Release(k, q)

Spec == Init /\ [][Next]_book
=============================================================================
