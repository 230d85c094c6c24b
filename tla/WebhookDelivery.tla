-------------------------- MODULE WebhookDelivery --------------------------
(***************************************************************************)
(* The webhook outbox: services/webhook_service.py, the dispatcher of      *)
(* every API worker (services/webhook_dispatcher.py) and the requests that *)
(* publish events, replay them and retry a delivery by hand.               *)
(*                                                                         *)
(* A delivery of an event to a subscription is a chain of attempts, each   *)
(* linked to the one that it repeats. A process runs one transaction at a  *)
(* time at READ COMMITTED; proc[p] holds its locks and what it has written *)
(* and not yet committed. The HTTP call happens inside the transaction, so *)
(* that a rollback forgets it. Inserting an attempt shares the lock of its *)
(* event (the foreign key), which a replay takes exclusively.              *)
(*                                                                         *)
(* Payloads, signatures, filters, schemas and the numbers that limit a     *)
(* request are left out: which subscriptions match is any choice. The      *)
(* moment when a retry is due and the order in a batch are any choice too. *)
(*                                                                         *)
(* A definition whose name ends in _Something is the definition it stands  *)
(* before with one slip in it; the runs show that the properties notice.   *)
(***************************************************************************)
EXTENDS Naturals, FiniteSets

CONSTANTS
    Events,      \* identifiers of event_logs, in the order of created_at
    Keys,        \* idempotency keys; an event without one has a key of its own
    Subs,        \* subscriptions
    Attempts,    \* identifiers of delivery_attempts, in the order of their use
    Workers,     \* dispatchers, one in each API worker
    Callers,     \* requests, each made once
    None,
    MaxRetries,  \* max_retries of each subscription
    Batch,       \* WEBHOOK_DISPATCH_BATCH_SIZE
    MaxCrashes   \* bound of the exploration: transactions lost to a crash

ASSUME DeliveryAssumption ==
    /\ Attempts \subseteq Nat /\ Events \subseteq Nat
    /\ None \notin Attempts \cup Events \cup Keys \cup Subs
    /\ Workers \cap Callers = {}
    /\ MaxRetries \in [Subs -> Nat] /\ Batch \in Nat \ {0} /\ MaxCrashes \in Nat

VARIABLES
    events,      \* webhook_event_logs: the key of each event
    rows,        \* webhook_delivery_attempts
    proc,        \* the transactions
    received,    \* the deliveries whose receiver has accepted a call
    crashes

vars == <<events, rows, proc, received, crashes>>

-----------------------------------------------------------------------------
Procs == Workers \cup Callers
Pairs == Events \X Subs

Row == [event : Events \cup {None}, sub : Subs \cup {None}, no : Nat,
        of : Attempts \cup {None},
        status : {"NONE", "PENDING", "RETRYING", "SENT", "FAILED", "DEAD_LETTER"}]
NoRow == [event |-> None, sub |-> None, no |-> 0, of |-> None, status |-> "NONE"]
Pending(pair, no, of) ==
    [event |-> pair[1], sub |-> pair[2], no |-> no, of |-> of, status |-> "PENDING"]

\* held: the attempts locked; put: the attempts written; todo: those still to
\* be repeated or locked; call: those still to be sent; key and event: what is published;
\* pairs: what is replayed; want and locked: the events to lock and locked by
\* it; shared: the events whose lock it shares
NoProc == [op |-> "idle", pc |-> "idle", held |-> {}, put |-> [a \in Attempts |-> NoRow],
           todo |-> {}, call |-> {}, key |-> None, event |-> None, pairs |-> {},
           want |-> {}, locked |-> {}, shared |-> {}]

\* A worker polls again; a request has been answered. A cycle that failed is
\* logged and the worker polls on.
After(p) == IF p \in Workers THEN NoProc ELSE [NoProc EXCEPT !.op = "done"]
AfterError_Ended(p) == [NoProc EXCEPT !.op = "done"]
AfterError(p) == After(p)

Init ==
    /\ events = [e \in Events |-> None]
    /\ rows = [a \in Attempts |-> NoRow]
    /\ proc = [p \in Procs |-> NoProc]
    /\ received = {} /\ crashes = 0

Open(row) == row.status \in {"PENDING", "RETRYING"}
PairOf(row) == <<row.event, row.sub>>

Others(p) == Procs \ {p}
HeldByOthers(p) == UNION {proc[q].held : q \in Others(p)}
Unused == {a \in Attempts : rows[a] = NoRow /\ \A q \in Procs : proc[q].put[a] = NoRow}
Repeated(a) == \E b \in Attempts : rows[b].of = a

\* New identifiers, the first unused ones.
Fresh(S) == {new \in [S -> Unused] :
    /\ \A x, y \in S : new[x] = new[y] => x = y
    /\ \A a \in Unused : (\A x \in S : new[x] # a) => \A x \in S : new[x] < a}

Move(p, x) == proc' = [proc EXCEPT ![p] = x] /\ UNCHANGED <<events, rows, received, crashes>>
Leave(p) == Move(p, After(p))
Fail(p) == Move(p, AfterError(p))

\* What p has written becomes visible and its locks go.
Write(p) ==
    /\ rows' = [a \in Attempts |-> IF proc[p].put[a] # NoRow THEN proc[p].put[a] ELSE rows[a]]
    /\ proc' = [proc EXCEPT ![p] = After(p)]
    /\ UNCHANGED <<received, crashes>>

-----------------------------------------------------------------------------
(* Publishing. *)

Publish(p) == \E k \in Keys :
    /\ p \in Callers /\ proc[p] = NoProc
    /\ Move(p, IF \E e \in Events : events[e] = k THEN After(p)
               ELSE [NoProc EXCEPT !.op = "publish", !.pc = "insert", !.key = k])

\* INSERT ... ON CONFLICT DO NOTHING waits for another insert of the key.
Arbitrated(p) == \A q \in Others(p) : proc[q].key = proc[p].key => proc[q].event = None
Won_Always(p) == TRUE
Won(p) == \A e \in Events : events[e] # proc[p].key

InsertEvent(p) ==
    /\ proc[p].pc = "insert" /\ Arbitrated(p)
    /\ IF ~Won(p) THEN Leave(p)
       ELSE \E e \in Events, S \in SUBSET Subs : \E new \in Fresh(S) :
            /\ events[e] = None /\ \A q \in Procs : proc[q].event # e
            /\ Move(p, [proc[p] EXCEPT !.pc = "commit", !.event = e,
                 !.put = [a \in Attempts |->
                            IF \E s \in S : new[s] = a
                            THEN Pending(<<e, CHOOSE s \in S : new[s] = a>>, 1, None)
                            ELSE NoRow]])

CommitEvent(p) ==
    /\ proc[p].op = "publish" /\ proc[p].pc = "commit"
    /\ events' = [events EXCEPT ![proc[p].event] = proc[p].key]
    /\ Write(p)

-----------------------------------------------------------------------------
(* Sending. *)

Claimable_Locked(p, status) == {a \in Attempts : rows[a].status = status}
Claimable(p, status) == {a \in Attempts : rows[a].status = status /\ a \notin HeldByOthers(p)}

\* FOR UPDATE SKIP LOCKED
ClaimPending(p) == \E S \in SUBSET Claimable(p, "PENDING") :
    /\ p \in Workers /\ proc[p] = NoProc
    /\ S # {} /\ (S = Claimable(p, "PENDING") \/ Cardinality(S) = Batch)
    /\ Cardinality(S) <= Batch
    /\ Move(p, [NoProc EXCEPT !.op = "pending", !.pc = "send", !.held = S, !.call = S])

ClaimRetry(p) == \E S \in SUBSET Claimable(p, "RETRYING") :
    /\ p \in Workers /\ proc[p] = NoProc
    /\ S # {} /\ Cardinality(S) <= Batch
    /\ Move(p, [NoProc EXCEPT !.op = "retry", !.pc = "send", !.held = S, !.todo = S])

\* The row is locked first; only a delivery given up that nobody has repeated
\* is sent again.
ManualRetry(p) == \E a \in Attempts :
    /\ p \in Callers /\ proc[p] = NoProc /\ rows[a] # NoRow /\ a \notin HeldByOthers(p)
    /\ Move(p, IF rows[a].status \notin {"FAILED", "DEAD_LETTER"} \/ Repeated(a) THEN After(p)
               ELSE [NoProc EXCEPT !.op = "manual", !.pc = "send", !.held = {a}, !.todo = {a}])

EventFree(p, e) == \A q \in Others(p) : e \notin proc[q].locked

\* replay_of_id is unique: a second repetition is an error.
Spawn(p) == \E a \in proc[p].todo :
    /\ proc[p].pc = "send" /\ proc[p].call = {} /\ EventFree(p, rows[a].event)
    /\ IF Repeated(a) THEN Fail(p)
       ELSE \E new \in Fresh({a}) :
            Move(p, [proc[p] EXCEPT
                !.todo = @ \ {a}, !.call = {new[a]}, !.held = @ \cup {new[a]},
                !.shared = @ \cup {rows[a].event},
                !.put = [proc[p].put EXCEPT
                            ![new[a]] = Pending(PairOf(rows[a]), rows[a].no + 1, a),
                            ![a] = IF proc[p].op = "retry"
                                   THEN [rows[a] EXCEPT !.status = "FAILED"] ELSE proc[p].put[a]]])

\* _schedule_retry
Schedule_OneMore(row) == IF row.no - 1 > MaxRetries[row.sub] THEN "DEAD_LETTER" ELSE "RETRYING"
Schedule(row) == IF row.no - 1 >= MaxRetries[row.sub] THEN "DEAD_LETTER" ELSE "RETRYING"

\* The receiver accepts and says so, accepts and the answer is lost, or does
\* not accept; or the payload is too long to be sent.
Call(p) == \E a \in proc[p].call :
    LET row == IF proc[p].put[a] # NoRow THEN proc[p].put[a] ELSE rows[a] IN
    \E accepted \in BOOLEAN, status \in {"SENT", "FAILED", Schedule(row)} :
        /\ status = "SENT" => accepted
        /\ status = "FAILED" => ~accepted
        /\ received' = IF accepted THEN received \cup {PairOf(row)} ELSE received
        /\ proc' = [proc EXCEPT ![p].call = @ \ {a},
                                ![p].put[a] = [row EXCEPT !.status = status]]
        /\ UNCHANGED <<events, rows, crashes>>

CommitSend(p) ==
    /\ proc[p].pc = "send" /\ proc[p].todo = {} /\ proc[p].call = {}
    /\ Write(p) /\ UNCHANGED events

-----------------------------------------------------------------------------
(* Replaying. *)

\* The events are locked one after the other.
Replay(p) == \E P \in SUBSET {x \in Pairs : events[x[1]] # None} :
    /\ p \in Callers /\ proc[p] = NoProc /\ P # {}
    /\ Move(p, [NoProc EXCEPT !.op = "replay", !.pc = "events", !.pairs = P,
                              !.want = {x[1] : x \in P}])

EventFor_Shared(p, e) == TRUE
EventFor(p, e) == \A q \in Others(p) : e \notin proc[q].locked \cup proc[q].shared

LockEvent(p) == \E e \in proc[p].want :
    /\ proc[p].pc = "events" /\ EventFor(p, e)
    /\ \A f \in proc[p].want : e <= f
    /\ Move(p, [proc[p] EXCEPT !.want = @ \ {e}, !.locked = @ \cup {e}])

\* The last attempt of every pair, as committed when the statement begins.
Leaves(P) == {a \in Attempts :
    /\ PairOf(rows[a]) \in P /\ ~Repeated(a)
    /\ \A b \in Attempts : PairOf(rows[b]) = PairOf(rows[a]) /\ ~Repeated(b)
                           => rows[b].no <= rows[a].no}

ReadLeaves(p) ==
    /\ proc[p].pc = "events" /\ proc[p].want = {}
    /\ Move(p, [proc[p] EXCEPT !.pc = "rows", !.todo = Leaves(proc[p].pairs)])

LockLeaf(p) == \E a \in proc[p].todo :
    /\ proc[p].pc = "rows" /\ a \notin HeldByOthers(p)
    /\ Move(p, [proc[p] EXCEPT !.todo = @ \ {a}, !.held = @ \cup {a}])

\* Pairs in flight are skipped, as the locked rows are now.
Replayed_All(p) == proc[p].pairs
Replayed(p) == {x \in proc[p].pairs :
    \A a \in proc[p].held : PairOf(rows[a]) = x => ~Open(rows[a])}
Previous(p, x) == {a \in proc[p].held : PairOf(rows[a]) = x}

Successor(p, x) ==
    IF Previous(p, x) = {} THEN Pending(x, 1, None)
    ELSE LET b == CHOOSE a \in Previous(p, x) : TRUE IN Pending(x, rows[b].no + 1, b)

CommitReplay(p) ==
    /\ proc[p].pc = "rows" /\ proc[p].todo = {}
    /\ IF \E x \in Replayed(p) : \E a \in Previous(p, x) : Repeated(a)
       THEN Fail(p)
       ELSE /\ \E new \in Fresh(Replayed(p)) :
                 rows' = [a \in Attempts |->
                    IF \E x \in Replayed(p) : new[x] = a
                    THEN Successor(p, CHOOSE x \in Replayed(p) : new[x] = a)
                    ELSE rows[a]]
            /\ proc' = [proc EXCEPT ![p] = After(p)]
            /\ UNCHANGED <<events, received, crashes>>

-----------------------------------------------------------------------------
(* Rollbacks. *)

\* p waits for a lock of q.
Waits(p, q) ==
    \/ proc[p].pc = "send" /\ proc[p].call = {}
       /\ \E a \in proc[p].todo : rows[a].event \in proc[q].locked
    \/ proc[p].pc = "events" /\ proc[p].want \cap (proc[q].locked \cup proc[q].shared) # {}
    \/ proc[p].pc = "rows" /\ proc[p].todo \cap proc[q].held # {}

Circle(S) == \A p \in S : (\E q \in S \ {p} : Waits(p, q)) /\ (\E q \in S \ {p} : Waits(q, p))

\* The database ends one of the transactions that wait in a circle.
Victim(p) == (\E S \in SUBSET Procs : p \in S /\ Circle(S)) /\ Fail(p)

\* A worker dies, a connection breaks, an error escapes.
Crash(p) ==
    /\ proc[p].op \notin {"idle", "done"} /\ crashes < MaxCrashes
    /\ proc' = [proc EXCEPT ![p] = AfterError(p)] /\ crashes' = crashes + 1
    /\ UNCHANGED <<events, rows, received>>

Request(p) == Publish(p) \/ ManualRetry(p) \/ Replay(p)
Work(p) ==
    \/ InsertEvent(p) \/ CommitEvent(p)
    \/ ClaimPending(p) \/ ClaimRetry(p) \/ Spawn(p) \/ Call(p) \/ CommitSend(p)
    \/ LockEvent(p) \/ ReadLeaves(p) \/ LockLeaf(p) \/ CommitReplay(p)
    \/ Victim(p)

Next == \E p \in Procs : Request(p) \/ Work(p) \/ Crash(p)

\* The workers go on polling and every transaction goes on, or the database
\* ends it; requests need not come.
Fairness == \A p \in Procs : WF_vars(Work(p))
Spec == Init /\ [][Next]_vars /\ Fairness
-----------------------------------------------------------------------------
(* Properties. *)

Process ==
    [op : {"idle", "done", "publish", "pending", "retry", "manual", "replay"},
     pc : {"idle", "insert", "commit", "send", "events", "rows"},
     held : SUBSET Attempts, put : [Attempts -> Row], todo : SUBSET Attempts,
     call : SUBSET Attempts, key : Keys \cup {None}, event : Events \cup {None},
     pairs : SUBSET Pairs, want : SUBSET Events, locked : SUBSET Events,
     shared : SUBSET Events]

\* Every variable stays within its type, and a retry is only scheduled while
\* max_retries allows it.
TypeOK ==
    /\ events \in [Events -> Keys \cup {None}]
    /\ rows \in [Attempts -> Row]
    /\ \A a \in Attempts : rows[a].status = "RETRYING" => rows[a].no <= MaxRetries[rows[a].sub]
    /\ proc \in [Procs -> Process]
    /\ received \in SUBSET Pairs /\ crashes \in 0 .. MaxCrashes

\* Two requests with one idempotency key never leave two events, although
\* both found none before they inserted.
OneEventPerKey == \A d, e \in Events : events[d] = events[e] /\ events[d] # None => d = e

\* The attempts of a delivery form one chain, numbered in order: retries,
\* replays and repetitions by hand never branch it and never begin a second
\* one, also when they meet.
OneChain ==
    \A a, b \in Attempts :
        /\ rows[a] # NoRow /\ PairOf(rows[a]) = PairOf(rows[b]) /\ rows[a].no = rows[b].no => a = b
        /\ rows[a].of = b => PairOf(rows[a]) = PairOf(rows[b]) /\ rows[a].no = rows[b].no + 1

\* Only the last attempt of a delivery is ever due to be sent, so that a
\* retry never finds itself repeated already, which would fail its batch at
\* every poll.
OpenIsLast ==
    \A a, b \in Attempts :
        Open(rows[a]) /\ PairOf(rows[a]) = PairOf(rows[b]) => rows[b].no <= rows[a].no

Sends(p) == {PairOf(rows[a]) : a \in {b \in proc[p].held : rows[b] # NoRow}}

\* No two processes at a time are sending the same delivery, whichever of its
\* attempts they hold.
OneSenderAtATime ==
    \A p, q \in Procs : p # q /\ proc[p].pc = "send" /\ proc[q].pc = "send" => Sends(p) \cap Sends(q) = {}

Of(x) == {a \in Attempts : PairOf(rows[a]) = x}
Last(x) == CHOOSE a \in Of(x) : \A b \in Of(x) : rows[b].no <= rows[a].no
Duty == [x \in Pairs |->
    IF Of(x) = {} THEN "none"
    ELSE IF Open(rows[Last(x)]) THEN "owed"
    ELSE IF rows[Last(x)].status = "SENT" THEN "done" ELSE "lost"]

Promised == INSTANCE Outbox WITH duty <- Duty

\* Nothing is sent before its event is committed, what counts as delivered
\* was received, and every delivery is settled at last: sent, or given up.
ImplementsOutbox == Promised!Spec
=============================================================================
