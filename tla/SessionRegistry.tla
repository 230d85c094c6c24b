-------------------------- MODULE SessionRegistry --------------------------
(***************************************************************************)
(* What the refresh-token service promises about a login session, whoever  *)
(* implements it: a session (token family) is opened once by a login, is   *)
(* at any moment carried by exactly one refresh token, hands over to a     *)
(* never-used token when it is refreshed, and once closed stays closed.    *)
(* services/auth_refresh_tokens.py is shown to implement this by           *)
(* RefreshSessions.                                                        *)
(***************************************************************************)
CONSTANTS
    Families,   \* ids of login sessions
    Tokens,     \* refresh credentials
    None        \* no token carries the session

VARIABLES
    phase,      \* phase[f]: "unopened", "open" or "closed"
    carrier,    \* carrier[f]: the token that can still refresh f
    spent       \* tokens that have carried a session at some time

registry == <<phase, carrier, spent>>

Init ==
    /\ phase = [f \in Families |-> "unopened"]
    /\ carrier = [f \in Families |-> None]
    /\ spent = {}

Open(f, t) ==
    /\ phase[f] = "unopened"
    /\ t \notin spent
    /\ phase' = [phase EXCEPT ![f] = "open"]
    /\ carrier' = [carrier EXCEPT ![f] = t]
    /\ spent' = spent \cup {t}

Renew(f, t) ==
    /\ phase[f] = "open"
    /\ t \notin spent
    /\ carrier' = [carrier EXCEPT ![f] = t]
    /\ spent' = spent \cup {t}
    /\ UNCHANGED phase

\* One step may close several sessions: "log out everywhere" is atomic.
Close(F) ==
    /\ \A f \in F : phase[f] = "open"
    /\ phase' = [f \in Families |-> IF f \in F THEN "closed" ELSE phase[f]]
    /\ carrier' = [f \in Families |-> IF f \in F THEN None ELSE carrier[f]]
    /\ UNCHANGED spent

Next ==
    \/ \E f \in Families, t \in Tokens : Open(f, t) \/ Renew(f, t)
    \/ \E F \in SUBSET Families : Close(F)

Spec == Init /\ [][Next]_registry
=============================================================================
