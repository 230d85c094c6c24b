------------------------- MODULE MCWebhookDelivery -------------------------
(* Small instances of WebhookDelivery for TLC. *)
EXTENDS WebhookDelivery, TLC

CONSTANT s1

\* One subscription, and one retry at it.
RetriesOne == s1 :> 1

\* Processes and keys are interchangeable.
Alike == Permutations(Workers) \cup Permutations(Callers) \cup Permutations(Keys)
=============================================================================
