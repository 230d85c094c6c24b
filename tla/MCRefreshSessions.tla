------------------------- MODULE MCRefreshSessions -------------------------
(* Small instances of RefreshSessions for TLC. *)
EXTENDS RefreshSessions, TLC

\* Ids are opaque (uuid4, token_urlsafe), users and requests are alike.
Symmetry == Permutations(Families) \cup Permutations(Tokens) \cup Permutations(Reqs)
=============================================================================
