------------------------------- MODULE Outbox -------------------------------
(***************************************************************************)
(* What the webhook outbox promises (docs/planning/                        *)
(* M31_DOMAIN_EVENT_ENVELOPE.md): an event and its deliveries appear       *)
(* together with the change that caused them, nothing is sent before,      *)
(* every delivery owed is settled at last, and one settled as done was     *)
(* received. A receiver may get a delivery more than once.                 *)
(* WebhookDelivery is shown to implement it.                               *)
(***************************************************************************)
EXTENDS FiniteSets

CONSTANT Pairs       \* an event and a subscription that wants it

VARIABLES
    duty,            \* what became of the delivery of each pair
    received         \* the pairs whose receiver has accepted a call

outbox == <<duty, received>>

Init == duty = [p \in Pairs |-> "none"] /\ received = {}

Receive(p) ==
    /\ duty[p] # "none"
    /\ received' = received \cup {p} /\ UNCHANGED duty

\* A commit: deliveries become owed, first or again, or are settled. One given
\* up may be sent once more by hand and settled in the same step.
Commit ==
    /\ duty' \in [Pairs -> {"none", "owed", "done", "lost"}]
    /\ \A p \in Pairs : duty'[p] # duty[p] =>
         /\ duty'[p] # "none"
         /\ duty'[p] = "done" => duty[p] \in {"owed", "lost"} /\ p \in received
         /\ duty'[p] = "lost" => duty[p] = "owed"
    /\ UNCHANGED received

Settle(p) == Commit /\ duty[p] = "owed" /\ duty'[p] \in {"done", "lost"}

Next == Commit \/ \E p \in Pairs : Receive(p)
Spec == Init /\ [][Next]_outbox /\ \A p \in Pairs : WF_outbox(Settle(p))
=============================================================================
