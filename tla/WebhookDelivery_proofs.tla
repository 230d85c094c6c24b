----------------------- MODULE WebhookDelivery_proofs -----------------------
(***************************************************************************)
(* What the runs of WebhookDelivery check on a small instance, proved for  *)
(* any number of dispatchers, requests, events and attempts.               *)
(*                                                                         *)
(* The argument: a delivery has at most one attempt that nobody has        *)
(* repeated, its last (RowInv). Whoever adds an attempt holds the lock of  *)
(* the one it repeats, or alone may write the first attempt of its event   *)
(* (Sending, Publishing, Replaying), and these locks exclude each other    *)
(* (Apart). So attempts are only ever added at the end of a chain (Grow),  *)
(* and what the last one says of its delivery changes as Outbox allows.    *)
(***************************************************************************)
EXTENDS WebhookDelivery, Sums_proofs

-----------------------------------------------------------------------------
(* The invariant of the attempts.                                           *)

Used(a) == rows[a] # NoRow
SamePair(a, b) == PairOf(rows[a]) = PairOf(rows[b])
Bounded(row) == row.status = "RETRYING" => row.no <= MaxRetries[row.sub]

\* An attempt belongs to an event that is committed.
Rooted == \A a \in Attempts : Used(a) =>
    /\ rows[a].event \in Events /\ rows[a].sub \in Subs /\ rows[a].no >= 1
    /\ events[rows[a].event] # None
Numbered == \A a, b \in Attempts : Used(a) /\ SamePair(a, b) /\ rows[a].no = rows[b].no => a = b
Linked == \A a, b \in Attempts : rows[a].of = b => SamePair(a, b) /\ rows[a].no = rows[b].no + 1
\* Only the last attempt is not repeated, and there is one.
LeafIsLast == \A a, b \in Attempts :
    Used(a) /\ ~Repeated(a) /\ SamePair(a, b) => rows[b].no <= rows[a].no
HasLeaf == \A a \in Attempts : Used(a) => \E b \in Attempts : SamePair(a, b) /\ ~Repeated(b)
OpenIsLeaf == \A a \in Attempts : Open(rows[a]) => ~Repeated(a)
RetriesBounded == \A a \in Attempts : Bounded(rows[a])

RowInv ==
    /\ events \in [Events -> Keys \cup {None}] /\ rows \in [Attempts -> Row]
    /\ Rooted /\ Numbered /\ Linked /\ LeafIsLast /\ HasLeaf /\ OpenIsLeaf /\ RetriesBounded

\* The attempts a step adds, each the first of its pair or after the last.
First(n) ==
    /\ rows'[n].of = None /\ rows'[n].no = 1
    /\ \A c \in Attempts : PairOf(rows[c]) # PairOf(rows'[n])
After_(n, b) ==
    /\ b \in Attempts /\ rows'[n].of = b /\ Used(b) /\ ~Repeated(b)
    /\ PairOf(rows'[n]) = PairOf(rows[b]) /\ rows'[n].no = rows[b].no + 1 /\ ~Open(rows'[b])
Added(n) ==
    /\ ~Used(n) /\ rows'[n].event \in Events /\ rows'[n].sub \in Subs
    /\ events'[rows'[n].event] # None /\ Bounded(rows'[n])
    /\ First(n) \/ \E b : After_(n, b)

\* An attempt of which a step changes the status at most.
Kept(a) ==
    /\ rows'[a].event = rows[a].event /\ rows'[a].sub = rows[a].sub
    /\ rows'[a].no = rows[a].no /\ rows'[a].of = rows[a].of
    /\ Used(a) \/ rows'[a] = NoRow
    /\ Open(rows'[a]) => Open(rows[a])
    /\ Bounded(rows'[a])

Grown(N) ==
    /\ events' \in [Events -> Keys \cup {None}] /\ rows' \in [Attempts -> Row]
    /\ \A e \in Events : events[e] # None => events'[e] = events[e]
    /\ \A a \in Attempts \ N : Kept(a)
    /\ \A n \in N : Added(n)
    /\ \A n, m \in N : PairOf(rows'[n]) = PairOf(rows'[m]) => n = m

\* An attempt that is used has an event, and only it has.
LEMMA UsedHasEvent ==
    ASSUME RowInv
    PROVE  \A a \in Attempts : /\ Used(a) <=> rows[a].event # None
                               /\ Used(a) => PairOf(rows[a]) \in Pairs
                               /\ ~Used(a) => rows[a].of = None /\ ~Open(rows[a])
<1>1. \A e \in Events : e # None
  BY DeliveryAssumption
<1>2. NoRow.event = None /\ NoRow.of = None /\ NoRow.status = "NONE"
  BY DEF NoRow
<1> QED
  BY <1>1, <1>2 DEF RowInv, Rooted, Used, PairOf, Pairs, Open

\* What belongs to a pair is an attempt in use.
LEMMA PairIsUsed ==
    ASSUME RowInv, NEW a \in Attempts, PairOf(rows[a]) \in Pairs
    PROVE  Used(a)
<1>1. rows[a].event \in Events
  BY DEF PairOf, Pairs
<1>2. rows[a].event # None
  BY <1>1, DeliveryAssumption
<1> QED
  BY <1>2, UsedHasEvent

\* Attempts added at the ends of the chains keep them.
LEMMA Grow ==
    ASSUME RowInv, NEW N \in SUBSET Attempts, Grown(N)
    PROVE  RowInv'
<1>0. /\ rows \in [Attempts -> Row] /\ rows' \in [Attempts -> Row]
      /\ \A e \in Events : e # None
      /\ \A a \in Attempts : a # None
      /\ \A a \in Attempts : rows[a].no \in Nat /\ rows'[a].no \in Nat
  BY DeliveryAssumption DEF RowInv, Grown, Row
<1>1. \A a \in Attempts \ N :
         /\ rows'[a].event = rows[a].event /\ rows'[a].sub = rows[a].sub
         /\ rows'[a].no = rows[a].no /\ rows'[a].of = rows[a].of
         /\ PairOf(rows'[a]) = PairOf(rows[a])
         /\ Open(rows'[a]) => Open(rows[a])
         /\ Bounded(rows'[a])
  BY DEF Grown, Kept, PairOf
<1>2. \A a \in Attempts : Used(a) <=> rows[a].event # None
  BY UsedHasEvent
<1>3. \A a \in Attempts : rows'[a] # NoRow <=> a \in N \/ Used(a)
  <2>1. NoRow.event = None
    BY DEF NoRow
  <2>2. \A a \in N : rows'[a] # NoRow
    BY <1>0, <2>1 DEF Grown, Added
  <2>3. \A a \in Attempts \ N : rows'[a] # NoRow <=> Used(a)
    BY <1>1, <1>2, <2>1 DEF Grown, Kept
  <2> QED
    BY <2>2, <2>3
<1>4. \A n \in N : ~Used(n) /\ \A c \in Attempts : rows[c].of # n
  <2> SUFFICES ASSUME NEW n \in N, NEW c \in Attempts
               PROVE  ~Used(n) /\ rows[c].of # n
    OBVIOUS
  <2>1. ~Used(n) /\ n \in Attempts /\ rows[n].event = None
    BY <1>2 DEF Grown, Added
  <2>2. rows[c].of = n => rows[c].event = None
    BY <2>1 DEF RowInv, Linked, SamePair, PairOf
  <2>3. rows[c].event = None => rows[c].of = None
    BY <1>2, UsedHasEvent
  <2> QED
    BY <1>0, <2>1, <2>2, <2>3
<1>5. \A n \in N : \/ First(n)
                   \/ \E b \in Attempts \ N : After_(n, b)
  BY <1>4 DEF Grown, Added, After_
<1>6. \A n \in N : \A c \in Attempts : rows'[c].of # n
  <2> SUFFICES ASSUME NEW n \in N, NEW c \in Attempts
               PROVE  rows'[c].of # n
    OBVIOUS
  <2>1. CASE c \in N
    BY <1>0, <1>5, <2>1 DEF First, After_
  <2>2. CASE c \notin N
    BY <1>1, <1>4, <2>2
  <2> QED
    BY <2>1, <2>2
<1>7. ASSUME NEW n \in N, NEW c \in Attempts \ N, PairOf(rows'[n]) = PairOf(rows'[c])
      PROVE  \E b \in Attempts \ N : After_(n, b) /\ SamePair(b, c) /\ rows[c].no <= rows[b].no
                                     /\ rows[b].no < rows'[n].no
  <2>1. PairOf(rows'[n]) = PairOf(rows[c])
    BY <1>1, <1>7
  <2>2. PICK b \in Attempts \ N : After_(n, b)
    BY <1>5, <2>1 DEF First
  <2>3. Used(b) /\ ~Repeated(b) /\ SamePair(b, c) /\ rows'[n].no = rows[b].no + 1
    BY <2>1, <2>2 DEF After_, SamePair
  <2>4. rows[c].no <= rows[b].no
    BY <2>3 DEF RowInv, LeafIsLast
  <2> QED
    BY <1>0, <2>2, <2>3, <2>4
<1>8. \A a \in Attempts : (\E b \in Attempts : rows[b].of = a) <=> Repeated(a)
  BY DEF Repeated
<1>9. \A a \in Attempts \ N : (\E b \in Attempts : rows'[b].of = a)
                              <=> Repeated(a) \/ \E n \in N : After_(n, a)
  <2> SUFFICES ASSUME NEW a \in Attempts \ N
               PROVE  (\E b \in Attempts : rows'[b].of = a) <=> Repeated(a) \/ \E n \in N : After_(n, a)
    OBVIOUS
  <2>1. ASSUME NEW n \in N, rows'[n].of = a
        PROVE  After_(n, a)
    BY <1>0, <1>5, <2>1 DEF First, After_
  <2>2. ASSUME NEW b \in Attempts \ N, rows'[b].of = a
        PROVE  Repeated(a)
    BY <1>1, <2>2 DEF Repeated
  <2>3. ASSUME Repeated(a)
        PROVE  \E b \in Attempts : rows'[b].of = a
    <3>1. PICK b \in Attempts : rows[b].of = a
      BY <2>3 DEF Repeated
    <3>2. b \notin N
      BY <1>0, <1>2, <1>4, <3>1, UsedHasEvent
    <3> QED
      BY <1>1, <3>1, <3>2
  <2>4. ASSUME NEW n \in N, After_(n, a)
        PROVE  rows'[n].of = a
    BY <2>4 DEF After_
  <2> QED
    BY <2>1, <2>2, <2>3, <2>4
<1>10. Rooted'
  <2> SUFFICES ASSUME NEW a \in Attempts, rows'[a] # NoRow
               PROVE  /\ rows'[a].event \in Events /\ rows'[a].sub \in Subs /\ rows'[a].no >= 1
                      /\ events'[rows'[a].event] # None
    BY DEF Rooted, Used
  <2>1. CASE a \in N
    <3>1. rows'[a].no >= 1
      BY <1>0, <1>5, <2>1 DEF First, After_
    <3> QED
      BY <2>1, <3>1 DEF Grown, Added
  <2>2. CASE a \notin N
    <3>1. Used(a) /\ rows'[a].event = rows[a].event /\ rows'[a].sub = rows[a].sub /\ rows'[a].no = rows[a].no
      BY <1>1, <1>3, <2>2
    <3> QED
      BY <3>1 DEF RowInv, Rooted, Grown
  <2> QED
    BY <2>1, <2>2
<1>11. Numbered'
  <2> SUFFICES ASSUME NEW a \in Attempts, NEW b \in Attempts, rows'[a] # NoRow,
                      PairOf(rows'[a]) = PairOf(rows'[b]), rows'[a].no = rows'[b].no
               PROVE  a = b
    BY DEF Numbered, Used, SamePair
  <2>1. CASE a \in N /\ b \in N
    BY <2>1 DEF Grown
  <2>2. CASE a \in N /\ b \notin N
    BY <1>0, <1>1, <1>7, <2>2
  <2>3. CASE a \notin N /\ b \in N
    BY <1>0, <1>1, <1>7, <2>3
  <2>4. CASE a \notin N /\ b \notin N
    BY <1>1, <1>3, <2>4 DEF RowInv, Numbered, SamePair
  <2> QED
    BY <2>1, <2>2, <2>3, <2>4
<1>12. Linked'
  <2> SUFFICES ASSUME NEW a \in Attempts, NEW b \in Attempts, rows'[a].of = b
               PROVE  PairOf(rows'[a]) = PairOf(rows'[b]) /\ rows'[a].no = rows'[b].no + 1
    BY DEF Linked, SamePair
  <2>1. b \notin N
    BY <1>6
  <2>2. CASE a \in N
    BY <1>0, <1>1, <1>5, <2>1, <2>2 DEF First, After_
  <2>3. CASE a \notin N
    BY <1>1, <2>1, <2>3 DEF RowInv, Linked, SamePair
  <2> QED
    BY <2>2, <2>3
<1>13. LeafIsLast'
  <2> SUFFICES ASSUME NEW a \in Attempts, NEW b \in Attempts, rows'[a] # NoRow,
                      ~\E c \in Attempts : rows'[c].of = a, PairOf(rows'[a]) = PairOf(rows'[b])
               PROVE  rows'[b].no <= rows'[a].no
    BY DEF LeafIsLast, Used, SamePair, Repeated
  <2>1. CASE a \in N /\ b \in N
    BY <1>0, <2>1 DEF Grown
  <2>2. CASE a \in N /\ b \notin N
    BY <1>0, <1>1, <1>7, <2>2
  <2>3. CASE a \notin N /\ b \in N
    <3>1. PICK d \in Attempts \ N : After_(b, d) /\ SamePair(d, a) /\ rows[a].no <= rows[d].no
      BY <1>7, <2>3
    <3>2. Used(a) /\ ~Repeated(a)
      BY <1>3, <1>9, <2>3
    <3>3. rows[d].no <= rows[a].no
      BY <3>1, <3>2 DEF RowInv, LeafIsLast, SamePair
    <3>4. a = d
      BY <1>0, <3>1, <3>2, <3>3 DEF RowInv, Numbered, SamePair
    <3> QED
      BY <1>9, <2>3, <3>1, <3>4
  <2>4. CASE a \notin N /\ b \notin N
    <3>1. Used(a) /\ ~Repeated(a) /\ SamePair(a, b)
      BY <1>1, <1>3, <1>9, <2>4 DEF SamePair
    <3> QED
      BY <1>1, <2>4, <3>1 DEF RowInv, LeafIsLast
  <2> QED
    BY <2>1, <2>2, <2>3, <2>4
<1>14. HasLeaf'
  <2> SUFFICES ASSUME NEW a \in Attempts, rows'[a] # NoRow
               PROVE  \E b \in Attempts : /\ PairOf(rows'[a]) = PairOf(rows'[b])
                                          /\ ~\E c \in Attempts : rows'[c].of = b
    BY DEF HasLeaf, Used, SamePair, Repeated
  <2>1. CASE a \in N
    BY <1>6, <2>1
  <2>2. CASE a \notin N
    <3>1. PICK b \in Attempts : SamePair(a, b) /\ ~Repeated(b)
      BY <1>3, <2>2 DEF RowInv, HasLeaf
    <3>2. b \notin N
      BY <1>2, <1>3, <1>4, <2>2, <3>1 DEF SamePair, PairOf
    <3>3. PairOf(rows'[a]) = PairOf(rows'[b])
      BY <1>1, <2>2, <3>1, <3>2 DEF SamePair
    <3>4. CASE \E n \in N : After_(n, b)
      <4>1. PICK n \in N : After_(n, b)
        BY <3>4
      <4>2. PairOf(rows'[n]) = PairOf(rows'[a])
        BY <1>1, <3>2, <3>3, <4>1 DEF After_
      <4> QED
        BY <1>6, <4>2
    <3>5. CASE ~\E n \in N : After_(n, b)
      BY <1>9, <3>1, <3>2, <3>3, <3>5
    <3> QED
      BY <3>4, <3>5
  <2> QED
    BY <2>1, <2>2
<1>15. OpenIsLeaf'
  <2> SUFFICES ASSUME NEW a \in Attempts, Open(rows'[a])
               PROVE  ~\E c \in Attempts : rows'[c].of = a
    BY DEF OpenIsLeaf, Repeated, Open
  <2>1. CASE a \in N
    BY <1>6, <2>1
  <2>2. CASE a \notin N
    <3>1. Open(rows[a])
      BY <1>1, <2>2
    <3>2. ~Repeated(a)
      BY <3>1 DEF RowInv, OpenIsLeaf
    <3> QED
      BY <1>9, <2>2, <3>2 DEF After_
  <2> QED
    BY <2>1, <2>2
<1>16. RetriesBounded'
  <2>1. \A a \in Attempts : Bounded(rows'[a])
    BY <1>1 DEF Grown, Added
  <2> QED
    BY <2>1 DEF RetriesBounded, Bounded
<1> QED
  BY <1>0, <1>10, <1>11, <1>12, <1>13, <1>14, <1>15, <1>16 DEF RowInv, Grown

-----------------------------------------------------------------------------
(* The invariant of the transactions.                                       *)

Rest(x) == x = NoProc \/ x = [NoProc EXCEPT !.op = "done"]

\* A publisher alone writes the first attempts of an event not yet committed.
Inserted(x) ==
    /\ x.pc = "commit" /\ x.event \in Events /\ events[x.event] = None
    /\ \A e \in Events : events[e] # x.key
    /\ \A a \in Attempts : x.put[a] # NoRow =>
          /\ ~Used(a) /\ x.put[a].event = x.event /\ x.put[a].sub \in Subs
          /\ x.put[a].no = 1 /\ x.put[a].of = None /\ x.put[a].status = "PENDING"
    /\ \A a, b \in Attempts :
          x.put[a] # NoRow /\ x.put[b] # NoRow /\ x.put[a].sub = x.put[b].sub => a = b
Publishing(x) ==
    /\ x.op = "publish" /\ x.key \in Keys
    /\ x.held = {} /\ x.call = {} /\ x.locked = {} /\ x.shared = {}
    /\ \/ x.pc = "insert" /\ x.event = None /\ \A a \in Attempts : x.put[a] = NoRow
       \/ Inserted(x)

\* What a sender holds is the last attempt of its pair, or its own repetition
\* of one that it holds.
Resending(x, a) ==
    /\ ~Repeated(a)
    /\ x.op # "manual" => Open(rows[a])
    /\ x.op = "manual" => rows[a].status \in {"FAILED", "DEAD_LETTER"} /\ x.put[a] = NoRow
    /\ x.put[a] # NoRow =>
          /\ x.put[a].event = rows[a].event /\ x.put[a].sub = rows[a].sub
          /\ x.put[a].no = rows[a].no /\ x.put[a].of = rows[a].of
          /\ Open(x.put[a]) => Open(rows[a])
          /\ Bounded(x.put[a])
Continues(x, b, a) ==
    /\ a \in x.held /\ a \notin x.todo /\ Used(a)
    /\ x.put[b].of = a /\ x.put[b].event = rows[a].event /\ x.put[b].sub = rows[a].sub
    /\ x.put[b].no = rows[a].no + 1
    /\ rows[a].event \in x.shared
    /\ x.op = "retry" => x.put[a] # NoRow /\ ~Open(x.put[a])
Repeating(x, b) ==
    /\ x.op # "pending" /\ x.put[b] # NoRow /\ Bounded(x.put[b])
    /\ \E a \in Attempts : Continues(x, b, a)
Sending(x) ==
    /\ x.op \in {"pending", "retry", "manual"} /\ x.pc = "send"
    /\ x.key = None /\ x.event = None /\ x.locked = {}
    /\ \A a \in Attempts : x.put[a] # NoRow => a \in x.held
    /\ \A a \in x.held : IF Used(a) THEN Resending(x, a) ELSE Repeating(x, a)
    /\ \A b, c \in x.held : ~Used(b) /\ ~Used(c) /\ x.put[b].of = x.put[c].of => b = c
    /\ \A a \in x.todo : a \in x.held /\ Used(a) /\ x.op # "pending"
    /\ \A a \in x.call : a \in x.held /\ (x.op = "pending" <=> Used(a))

\* A replay alone adds attempts to the events it has locked, after the last.
Tips(P) == {a \in Attempts : PairOf(rows[a]) \in P /\ ~Repeated(a)}
Replaying(x) ==
    /\ x.op = "replay" /\ x.key = None /\ x.event = None /\ x.call = {} /\ x.shared = {}
    /\ \A a \in Attempts : x.put[a] = NoRow
    /\ \A y \in x.pairs : y[1] \in x.want \cup x.locked
    /\ \A e \in x.want \cup x.locked : events[e] # None
    /\ \/ x.pc = "events" /\ x.held = {}
       \/ x.pc = "rows" /\ x.want = {} /\ x.todo \cup x.held = Tips(x.pairs)

Shape(x) == Rest(x) \/ Publishing(x) \/ Sending(x) \/ Replaying(x)

\* Two transactions do not get in each other's way.
Apart(x, y) ==
    /\ x.held \cap y.held = {}
    /\ \A a \in Attempts : x.put[a] = NoRow \/ y.put[a] = NoRow
    /\ x.locked \cap y.locked = {} /\ x.locked \cap y.shared = {} /\ x.shared \cap y.locked = {}
    /\ x.event # None /\ y.event # None => x.event # y.event /\ x.key # y.key

ProcInv ==
    /\ proc \in [Procs -> Process]
    /\ \A p \in Procs : Shape(proc[p])
    /\ \A p, q \in Procs : p # q => Apart(proc[p], proc[q])

IInv ==
    /\ RowInv /\ OneEventPerKey /\ ProcInv
    /\ received \in SUBSET Pairs /\ crashes \in 0 .. MaxCrashes

\* One that rests is in nobody's way.
LEMMA Rests ==
    ASSUME NEW x, Rest(x)
    PROVE  /\ x \in Process /\ Shape(x)
           /\ x.held = {} /\ x.locked = {} /\ x.shared = {} /\ x.event = None
           /\ \A a \in Attempts : x.put[a] = NoRow
           /\ \A y : Apart(x, y) /\ Apart(y, x)
<1>1. NoRow \in Row
  BY DEF NoRow, Row
<1>2. /\ x.op \in {"idle", "done"} /\ x.pc = "idle" /\ x.held = {} /\ x.todo = {} /\ x.call = {}
      /\ x.key = None /\ x.event = None /\ x.pairs = {} /\ x.want = {} /\ x.locked = {} /\ x.shared = {}
      /\ x.put = [a \in Attempts |-> NoRow]
  BY DEF Rest, NoProc
<1>3. x \in Process
  <2>1. [a \in Attempts |-> NoRow] \in [Attempts -> Row]
    BY <1>1
  <2>2. NoProc \in Process
    BY <2>1 DEF NoProc, Process
  <2> QED
    BY <2>2 DEF Rest, Process
<1>4. \A a \in Attempts : x.put[a] = NoRow
  BY <1>2
<1> QED
  BY <1>2, <1>3, <1>4 DEF Shape, Apart

\* After a transaction its process rests.
LEMMA AfterRests == \A p \in Procs : Rest(After(p)) /\ Rest(AfterError(p))
<1> QED
  BY DEF Rest, After, AfterError

\* A step of one transaction that commits nothing keeps the invariant.
LEMMA Moves ==
    ASSUME NEW p \in Procs, NEW x \in Process, IInv, Shape(x),
           \A q \in Procs \ {p} : Apart(x, proc[q]),
           proc' = [proc EXCEPT ![p] = x], UNCHANGED <<events, rows>>,
           received' \in SUBSET Pairs, crashes' \in 0 .. MaxCrashes
    PROVE  IInv'
<1>1. events' = events /\ rows' = rows
  OBVIOUS
<1>2. proc'[p] = x /\ \A q \in Procs \ {p} : proc'[q] = proc[q]
  BY DEF IInv, ProcInv
<1>3. proc' \in [Procs -> Process]
  BY DEF IInv, ProcInv
<1>4. RowInv' /\ OneEventPerKey'
  BY <1>1 DEF IInv, RowInv, Rooted, Numbered, Linked, LeafIsLast, HasLeaf, OpenIsLeaf, RetriesBounded,
     Used, SamePair, Repeated, OneEventPerKey
<1>5. ASSUME NEW q \in Procs
      PROVE  Shape(proc[q])'
  <2>1. Shape(proc'[q])
    BY <1>2 DEF IInv, ProcInv
  <2>2. CASE Rest(proc'[q])
    BY <2>2 DEF Shape, Rest
  <2>3. CASE Publishing(proc'[q])
    BY <1>1, <2>3 DEF Shape, Publishing, Inserted, Used
  <2>4. CASE Sending(proc'[q])
    <3>1. \A a \in Attempts : (Used(a)' <=> Used(a)) /\ (Repeated(a)' <=> Repeated(a))
      BY <1>1 DEF Used, Repeated
    <3>2. proc'[q].held \subseteq Attempts /\ proc'[q].todo \subseteq Attempts
      BY <1>3 DEF Process
    <3>3. ASSUME NEW a \in proc'[q].held
          PROVE  (IF Used(a) THEN Resending(proc[q], a) ELSE Repeating(proc[q], a))'
      <4>1. IF Used(a) THEN Resending(proc'[q], a) ELSE Repeating(proc'[q], a)
        BY <2>4 DEF Sending
      <4>2. Resending(proc'[q], a) => Resending(proc[q], a)'
        BY <1>1, <3>1, <3>2 DEF Resending
      <4>3. Repeating(proc'[q], a) => Repeating(proc[q], a)'
        BY <1>1, <3>1 DEF Repeating, Continues
      <4> QED
        BY <3>1, <3>2, <4>1, <4>2, <4>3
    <3>4. Sending(proc[q])'
      <4>1. \A b \in proc'[q].held \cup proc'[q].todo : Used(b)' <=> Used(b)
        BY <3>1, <3>2
      <4> QED
        BY <2>4, <3>2, <3>3, <4>1 DEF Sending
    <3> QED
      BY <3>4 DEF Shape
  <2>5. CASE Replaying(proc'[q])
    BY <1>1, <2>5 DEF Shape, Replaying, Tips, Repeated
  <2> QED
    BY <2>1, <2>2, <2>3, <2>4, <2>5 DEF Shape
<1>6. ASSUME NEW q \in Procs, NEW s \in Procs, q # s
      PROVE  Apart(proc'[q], proc'[s])
  <2>1. \A y, z : Apart(y, z) => Apart(z, y)
    BY DEF Apart
  <2> QED
    BY <1>2, <1>6, <2>1 DEF IInv, ProcInv
<1>7. ProcInv'
  BY <1>3, <1>5, <1>6 DEF ProcInv, Apart
<1> QED
  BY <1>4, <1>7 DEF IInv

\* Ending a transaction without a commit keeps the invariant.
LEMMA EndKeeps ==
    ASSUME NEW p \in Procs, IInv,
           \/ Leave(p) \/ Fail(p) \/ Crash(p) \/ Victim(p)
    PROVE  IInv'
<1>1. PICK x \in {After(p), AfterError(p)} :
         /\ proc' = [proc EXCEPT ![p] = x] /\ UNCHANGED <<events, rows, received>>
         /\ crashes' = crashes \/ (crashes < MaxCrashes /\ crashes' = crashes + 1)
  BY DEF Leave, Fail, Crash, Victim, Move
<1>2. Rest(x)
  BY AfterRests
<1>3. crashes' \in 0 .. MaxCrashes /\ received' \in SUBSET Pairs
  BY <1>1, DeliveryAssumption DEF IInv
<1>4. x \in Process /\ Shape(x) /\ \A q \in Procs \ {p} : Apart(x, proc[q])
  BY <1>2, Rests
<1> QED
  BY <1>1, <1>3, <1>4, Moves

\* What a commit of p must leave to a transaction y of another process.
Spares(N, y) ==
    /\ \A a \in Attempts : y.put[a] # NoRow \/ a \in y.held => a \notin N
    /\ \A a \in y.held : rows'[a] = rows[a] /\ \A n \in N : rows'[n].of # a
    /\ \A n \in N : rows'[n].event \notin y.locked
    /\ y.event # None => events'[y.event] = events[y.event] /\ \A e \in Events : events'[e] # y.key

\* An attempt that is about to be recorded as sent was accepted.
SentReceived == \A q \in Procs, a \in Attempts :
    proc[q].put[a].status = "SENT" => PairOf(proc[q].put[a]) \in received

\* A commit that adds the attempts N and, seen from outside, only settles what
\* is owed or makes it owed again.
Settles(N) ==
    /\ Grown(N)
    /\ \A a \in Attempts \ N :
          \/ rows'[a] = rows[a]
          \/ Open(rows[a]) /\ (rows'[a].status = "SENT" => PairOf(rows[a]) \in received)
    /\ \A n \in N :
          \/ Open(rows'[n])
          \/ /\ \E b : After_(n, b) /\ rows[b].status # "SENT"
             /\ rows'[n].status = "SENT" => PairOf(rows'[n]) \in received
SomethingSettles == UNCHANGED received /\ \E N \in SUBSET Attempts : Settles(N)

\* A commit keeps the invariant if it adds attempts at the ends of chains and
\* spares the other transactions.
LEMMA Commits ==
    ASSUME NEW p \in Procs, IInv, NEW N \in SUBSET Attempts, Grown(N), OneEventPerKey',
           proc' = [proc EXCEPT ![p] = After(p)], UNCHANGED <<received, crashes>>,
           \A q \in Procs \ {p} : Spares(N, proc[q])
    PROVE  IInv'
<1>1. RowInv'
  BY Grow DEF IInv
<1>2. proc'[p] = After(p) /\ \A q \in Procs \ {p} : proc'[q] = proc[q]
  BY DEF IInv, ProcInv
<1>3. Rest(After(p))
  BY AfterRests
<1>4. proc' \in [Procs -> Process]
  BY <1>3, Rests DEF IInv, ProcInv
<1>5. \A a \in Attempts \ N :
         /\ Used(a)' <=> Used(a)
         /\ PairOf(rows'[a]) = PairOf(rows[a]) /\ rows'[a].of = rows[a].of
  <2>1. \A a \in Attempts \ N : Kept(a)
    BY DEF Grown
  <2>2. \A a \in Attempts : Used(a) <=> rows[a].event # None
    BY UsedHasEvent DEF IInv
  <2>3. NoRow.event = None
    BY DEF NoRow
  <2> QED
    BY <2>1, <2>2, <2>3 DEF Kept, Used, PairOf
<1>6. \A n \in N : ~Used(n) /\ rows[n].of = None /\ rows[n].event = None /\ PairOf(rows[n]) \notin Pairs
  BY UsedHasEvent, DeliveryAssumption DEF IInv, Grown, Added, PairOf, Pairs
<1>7. ASSUME NEW q \in Procs \ {p}, Sending(proc[q])
      PROVE  Sending(proc[q])'
  <2> DEFINE y == proc[q]
  <2>1. \A a \in y.held : a \in Attempts /\ a \notin N /\ rows'[a] = rows[a]
    BY DEF IInv, ProcInv, Process, Spares
  <2>2. \A a \in y.held : Used(a)' <=> Used(a)
    BY <2>1 DEF Used
  <2>3. \A a \in y.held : (\E b \in Attempts : rows'[b].of = a) <=> Repeated(a)
    <3> SUFFICES ASSUME NEW a \in y.held
                 PROVE  (\E b \in Attempts : rows'[b].of = a) <=> Repeated(a)
      OBVIOUS
    <3>1. \A b \in N : rows'[b].of # a
      BY DEF Spares
    <3>2. a # None
      BY <2>1, DeliveryAssumption
    <3> QED
      BY <1>5, <1>6, <3>1, <3>2 DEF Repeated
  <2>4. proc'[q] = y
    BY <1>2
  <2> HIDE DEF y
  <2>5. Sending(y)
    BY <1>7 DEF y
  <2>6. ASSUME NEW a \in y.held
        PROVE  (IF Used(a) THEN Resending(proc[q], a) ELSE Repeating(proc[q], a))'
    <3>1. CASE Used(a)
      <4>1. Resending(y, a)
        BY <2>5, <3>1 DEF Sending
      <4>2. Resending(proc[q], a)'
        BY <2>1, <2>3, <2>4, <4>1 DEF Resending, Repeated
      <4> QED
        BY <2>2, <3>1, <4>2
    <3>2. CASE ~Used(a)
      <4>1. Repeating(y, a)
        BY <2>5, <3>2 DEF Sending
      <4>2. PICK b \in Attempts : Continues(y, a, b)
        BY <4>1 DEF Repeating
      <4>3. b \in y.held
        BY <4>2 DEF Continues
      <4>4. Continues(proc[q], a, b)'
        BY <2>1, <2>2, <2>4, <4>2, <4>3 DEF Continues
      <4>5. Repeating(proc[q], a)'
        BY <2>4, <4>1, <4>4 DEF Repeating
      <4> QED
        BY <2>2, <3>2, <4>5
    <3> QED
      BY <3>1, <3>2
  <2> QED
    BY <2>2, <2>4, <2>5, <2>6 DEF Sending
<1>8. ASSUME NEW q \in Procs \ {p}, Publishing(proc[q])
      PROVE  Publishing(proc[q])'
  <2> DEFINE y == proc[q]
  <2>1. proc'[q] = y /\ Spares(N, y) /\ Publishing(y)
    BY <1>2, <1>8
  <2> HIDE DEF y
  <2>2. \A a \in Attempts : y.put[a] # NoRow => (Used(a)' <=> Used(a))
    BY <1>5, <2>1 DEF Spares
  <2>3. CASE Inserted(y)
    <3>1. y.event # None
      BY <2>3, DeliveryAssumption DEF Inserted
    <3>2. events'[y.event] = None /\ \A e \in Events : events'[e] # y.key
      BY <2>1, <2>3, <3>1 DEF Spares, Inserted
    <3>3. Inserted(proc[q])'
      BY <2>1, <2>2, <2>3, <3>2 DEF Inserted
    <3> QED
      BY <2>1, <3>3 DEF Publishing
  <2>4. CASE ~Inserted(y)
    BY <2>1, <2>4 DEF Publishing
  <2> QED
    BY <2>3, <2>4
<1>9. ASSUME NEW q \in Procs \ {p}, Replaying(proc[q])
      PROVE  Replaying(proc[q])'
  <2> DEFINE y == proc[q]
  <2>1. proc'[q] = y /\ Spares(N, y) /\ Replaying(y) /\ y \in Process
    BY <1>2, <1>9 DEF IInv, ProcInv
  <2> HIDE DEF y
  <2>2. \A e \in y.want \cup y.locked : events'[e] # None
    <3>1. y.want \cup y.locked \subseteq Events
      BY <2>1 DEF Process
    <3> QED
      BY <2>1, <3>1 DEF Replaying, Grown
  <2>3. ASSUME y.want = {}, NEW a \in Attempts
        PROVE  PairOf(rows'[a]) \in y.pairs /\ ~(\E b \in Attempts : rows'[b].of = a)
               <=> PairOf(rows[a]) \in y.pairs /\ ~Repeated(a)
    <3>1. \A n \in N : PairOf(rows'[n]) \notin y.pairs /\ PairOf(rows[n]) \notin y.pairs
      <4>1. \A n \in N : PairOf(rows'[n])[1] = rows'[n].event
        BY DEF PairOf
      <4> QED
        BY <1>6, <2>1, <2>3, <4>1 DEF Replaying, Spares, Process
    <3>2. PairOf(rows'[a]) \in y.pairs <=> PairOf(rows[a]) \in y.pairs
      BY <1>5, <3>1
    <3>3. ASSUME PairOf(rows[a]) \in y.pairs
          PROVE  (\E b \in Attempts : rows'[b].of = a) <=> Repeated(a)
      <4>1. a # None
        BY DeliveryAssumption
      <4>2. \A n \in N : rows'[n].of # a
        BY <3>1, <3>3, <4>1 DEF Grown, Added, First, After_
      <4> QED
        BY <1>5, <1>6, <4>1, <4>2 DEF Repeated
    <3> QED
      BY <3>2, <3>3
  <2>4. y.want = {} => {a \in Attempts : PairOf(rows'[a]) \in y.pairs
                                         /\ ~\E b \in Attempts : rows'[b].of = a} = Tips(y.pairs)
    BY <2>3 DEF Tips
  <2> QED
    BY <2>1, <2>2, <2>4 DEF Replaying, Tips, Repeated
<1>10. ASSUME NEW q \in Procs
       PROVE  Shape(proc[q])'
  <2>1. CASE q = p
    <3>1. Rest(proc'[q])
      BY <1>2, <1>3, <2>1
    <3> QED
      BY <3>1 DEF Rest, Shape
  <2>2. CASE q # p
    <3>1. Shape(proc[q]) /\ proc'[q] = proc[q]
      BY <1>2, <2>2 DEF IInv, ProcInv
    <3>2. CASE Rest(proc[q])
      BY <3>1, <3>2 DEF Rest, Shape
    <3> QED
      BY <1>7, <1>8, <1>9, <2>2, <3>1, <3>2 DEF Shape
  <2> QED
    BY <2>1, <2>2
<1>11. ASSUME NEW q \in Procs, NEW s \in Procs, q # s
       PROVE  Apart(proc'[q], proc'[s])
  <2>1. CASE q = p
    BY <1>2, <1>3, <2>1, Rests
  <2>2. CASE s = p
    BY <1>2, <1>3, <2>2, Rests
  <2>3. CASE q # p /\ s # p
    BY <1>2, <1>11, <2>3 DEF IInv, ProcInv
  <2> QED
    BY <2>1, <2>2, <2>3
<1>12. ProcInv'
  BY <1>4, <1>10, <1>11 DEF ProcInv, Apart
<1> QED
  BY <1>1, <1>12 DEF IInv

\* What a transaction holds or writes is committed or its own, and a replay
\* only locks events that are committed.
LEMMA Placed ==
    ASSUME IInv, NEW q \in Procs
    PROVE  /\ proc[q] \in Process /\ Shape(proc[q])
           /\ \A a \in Attempts : a \in proc[q].held => Used(a) \/ proc[q].put[a] # NoRow
           /\ \A a \in Attempts : proc[q].put[a] # NoRow => a \in proc[q].held \/ ~Used(a)
           /\ \A e \in proc[q].locked : events[e] # None
           /\ proc[q].event # None => Inserted(proc[q])
<1>1. proc[q] \in Process /\ Shape(proc[q])
  BY DEF IInv, ProcInv
<1>2. CASE Rest(proc[q])
  BY <1>1, <1>2, Rests
<1>3. CASE Publishing(proc[q])
  BY <1>1, <1>3 DEF Publishing, Inserted
<1>4. CASE Sending(proc[q])
  BY <1>1, <1>4 DEF Sending, Repeating
<1>5. CASE Replaying(proc[q])
  <2>1. proc[q].held \subseteq Tips(proc[q].pairs)
    BY <1>5 DEF Replaying
  <2>2. proc[q].pairs \subseteq Pairs
    BY <1>1 DEF Process
  <2>3. \A a \in proc[q].held : a \in Attempts /\ PairOf(rows[a]) \in Pairs
    BY <2>1, <2>2 DEF Tips
  <2>4. \A a \in proc[q].held : Used(a)
    BY <2>3, PairIsUsed DEF IInv
  <2> QED
    BY <1>1, <1>5, <2>4 DEF Replaying
<1> QED
  BY <1>1, <1>2, <1>3, <1>4, <1>5 DEF Shape

\* A step that changes no more than its own transaction keeps the invariant.
LEMMA MoveKeeps ==
    ASSUME NEW p \in Procs, NEW x \in Process, IInv, Shape(x),
           \A q \in Procs \ {p} : Apart(x, proc[q]), Move(p, x)
    PROVE  IInv'
<1>1. proc' = [proc EXCEPT ![p] = x] /\ UNCHANGED <<events, rows, received, crashes>>
  BY DEF Move
<1>2. received' \in SUBSET Pairs /\ crashes' \in 0 .. MaxCrashes
  BY <1>1 DEF IInv
<1> QED
  BY <1>1, <1>2, Moves

-----------------------------------------------------------------------------
(* One lemma for each action.                                               *)

\* A request to publish finds the event or goes on to insert it.
LEMMA PublishKeeps == ASSUME IInv, NEW p \in Procs, Publish(p) PROVE IInv'
<1>1. PICK k \in Keys :
        Move(p, IF \E e \in Events : events[e] = k THEN After(p)
                ELSE [NoProc EXCEPT !.op = "publish", !.pc = "insert", !.key = k])
  BY DEF Publish
<1>2. CASE \E e \in Events : events[e] = k
  BY <1>1, <1>2, EndKeeps DEF Leave
<1>3. CASE ~\E e \in Events : events[e] = k
  <2> DEFINE x == [NoProc EXCEPT !.op = "publish", !.pc = "insert", !.key = k]
  <2>1. Move(p, x)
    BY <1>1, <1>3
  <2>2. NoProc \in Process
    BY Rests DEF Rest
  <2>3. x \in Process
    BY <2>2 DEF Process, NoProc
  <2>4. /\ x.op = "publish" /\ x.pc = "insert" /\ x.key = k /\ x.event = None
        /\ x.held = {} /\ x.call = {} /\ x.locked = {} /\ x.shared = {}
        /\ \A a \in Attempts : x.put[a] = NoRow
    BY DEF NoProc
  <2> HIDE DEF x
  <2>5. Shape(x)
    BY <2>4 DEF Shape, Publishing
  <2>6. \A q \in Procs \ {p} : Apart(x, proc[q])
    BY <2>4 DEF Apart
  <2> QED
    BY <2>1, <2>3, <2>5, <2>6, MoveKeeps
<1> QED
  BY <1>2, <1>3

\* The event and its first attempts are written under identifiers of their own.
LEMMA InsertEventKeeps == ASSUME IInv, NEW p \in Procs, InsertEvent(p) PROVE IInv'
<1>1. proc[p].pc = "insert" /\ Arbitrated(p)
  BY DEF InsertEvent
<1>2. proc[p] \in Process /\ Publishing(proc[p]) /\ proc[p].event = None
  BY <1>1, Placed DEF Shape, Rest, NoProc, Publishing, Inserted, Sending, Replaying
<1>3. CASE ~Won(p)
  BY <1>3, EndKeeps DEF InsertEvent
<1>4. CASE Won(p)
  <2>1. PICK e \in Events, S \in SUBSET Subs : \E new \in Fresh(S) :
            /\ events[e] = None /\ \A q \in Procs : proc[q].event # e
            /\ Move(p, [proc[p] EXCEPT !.pc = "commit", !.event = e,
                 !.put = [a \in Attempts |->
                            IF \E s \in S : new[s] = a
                            THEN Pending(<<e, CHOOSE s \in S : new[s] = a>>, 1, None)
                            ELSE NoRow]])
    BY <1>4 DEF InsertEvent
  <2>2. PICK new \in Fresh(S) :
            /\ events[e] = None /\ \A q \in Procs : proc[q].event # e
            /\ Move(p, [proc[p] EXCEPT !.pc = "commit", !.event = e,
                 !.put = [a \in Attempts |->
                            IF \E s \in S : new[s] = a
                            THEN Pending(<<e, CHOOSE s \in S : new[s] = a>>, 1, None)
                            ELSE NoRow]])
    BY <2>1
  <2> DEFINE put == [a \in Attempts |-> IF \E s \in S : new[s] = a
                            THEN Pending(<<e, CHOOSE s \in S : new[s] = a>>, 1, None)
                            ELSE NoRow]
             x == [proc[p] EXCEPT !.pc = "commit", !.event = e, !.put = put]
  <2>3. Move(p, x)
    BY <2>2
  <2>4. ASSUME NEW a \in Attempts, put[a] # NoRow
        PROVE  \E s \in S : /\ new[s] = a /\ a \in Unused
                            /\ put[a] = Pending(<<e, s>>, 1, None)
    <3>1. \E s \in S : new[s] = a
      BY <2>4
    <3>2. PICK s \in S : new[s] = a /\ s = CHOOSE t \in S : new[t] = a
      BY <3>1
    <3>3. new[s] \in Unused
      BY DEF Fresh
    <3> QED
      BY <3>2, <3>3
  <2>5. \A s \in Subs : Pending(<<e, s>>, 1, None) \in Row
    BY DEF Pending, Row
  <2>6. put \in [Attempts -> Row]
    <3>1. NoRow \in Row
      BY DEF NoRow, Row
    <3>2. \A a \in Attempts : put[a] \in Row
      BY <2>4, <2>5, <3>1
    <3> QED
      BY <3>2
  <2>7. /\ x \in Process
        /\ x.op = "publish" /\ x.pc = "commit" /\ x.key = proc[p].key /\ x.event = e
        /\ x.held = {} /\ x.call = {} /\ x.locked = {} /\ x.shared = {} /\ x.put = put
    BY <1>2, <2>6 DEF Process, Publishing
  <2>8. x.key \in Keys /\ \A d \in Events : events[d] # x.key
    BY <1>2, <1>4, <2>7 DEF Publishing, Won
  <2>9. ASSUME NEW a \in Attempts, put[a] # NoRow
        PROVE  /\ ~Used(a) /\ put[a].event = e /\ put[a].sub \in Subs /\ new[put[a].sub] = a
               /\ put[a].no = 1 /\ put[a].of = None /\ put[a].status = "PENDING"
               /\ \A q \in Procs : proc[q].put[a] = NoRow
    <3>1. PICK s \in S : new[s] = a /\ a \in Unused /\ put[a] = Pending(<<e, s>>, 1, None)
      BY <2>4, <2>9
    <3> QED
      BY <3>1 DEF Pending, Unused, Used
  <2> HIDE DEF put, x
  <2>10. Inserted(x)
    BY <2>2, <2>7, <2>8, <2>9 DEF Inserted
  <2>11. Shape(x)
    BY <2>7, <2>8, <2>10 DEF Shape, Publishing
  <2>12. ASSUME NEW q \in Procs \ {p}
         PROVE  Apart(x, proc[q])
    <3>1. proc[q].event # None => proc[q].event # e /\ proc[q].key # x.key
      BY <1>1, <2>2, <2>7 DEF Arbitrated, Others
    <3>2. \A a \in Attempts : x.put[a] = NoRow \/ proc[q].put[a] = NoRow
      BY <2>7, <2>9
    <3> QED
      BY <2>7, <3>1, <3>2 DEF Apart
  <2> QED
    BY <2>3, <2>7, <2>11, <2>12, MoveKeeps
<1> QED
  BY <1>3, <1>4

\* A commit of an event adds the first attempts of pairs that had none.
LEMMA CommitEventKeeps ==
    ASSUME IInv, NEW p \in Procs, CommitEvent(p)
    PROVE  IInv' /\ SomethingSettles
<1> DEFINE N == {a \in Attempts : proc[p].put[a] # NoRow}
<1>1. /\ proc[p].pc = "commit" /\ events' = [events EXCEPT ![proc[p].event] = proc[p].key]
      /\ rows' = [a \in Attempts |-> IF proc[p].put[a] # NoRow THEN proc[p].put[a] ELSE rows[a]]
      /\ proc' = [proc EXCEPT ![p] = After(p)] /\ UNCHANGED <<received, crashes>>
  BY DEF CommitEvent, Write
<1>2. proc[p] \in Process /\ Inserted(proc[p]) /\ proc[p].key \in Keys /\ proc[p].key # None
  BY <1>1, Placed, DeliveryAssumption DEF Shape, Rest, NoProc, Publishing, Inserted, Sending, Replaying
<1>3. PICK x \in Process : x = proc[p]
  BY <1>2
<1>4. RowInv /\ OneEventPerKey /\ \A e \in Events : e # None
  BY DeliveryAssumption DEF IInv
<1>5. /\ Inserted(x) /\ x.event \in Events /\ events[x.event] = None /\ x.event # None
      /\ \A e \in Events : events[e] # x.key
  BY <1>2, <1>3, <1>4 DEF Inserted
<1>6. /\ \A a \in N : rows'[a] = x.put[a] /\ ~Used(a)
      /\ \A a \in Attempts \ N : rows'[a] = rows[a]
  BY <1>1, <1>3, <1>5 DEF Inserted
<1>7. /\ events'[x.event] = x.key /\ \A e \in Events \ {x.event} : events'[e] = events[e]
      /\ events' \in [Events -> Keys \cup {None}]
  BY <1>1, <1>2, <1>3, <1>4, <1>5 DEF RowInv
<1>8. rows' \in [Attempts -> Row]
  BY <1>1, <1>2, <1>4 DEF RowInv, Process
<1>9. \A a \in Attempts \ N : Kept(a)
  BY <1>4, <1>6 DEF Kept, RowInv, RetriesBounded, Used
<1>10. ASSUME NEW n \in N
       PROVE  /\ Added(n) /\ rows'[n].of = None /\ rows'[n].event = x.event /\ Open(rows'[n])
              /\ \A m \in N : PairOf(rows'[n]) = PairOf(rows'[m]) => n = m
  <2>1. /\ rows'[n] = x.put[n] /\ ~Used(n) /\ x.put[n].event = x.event /\ x.put[n].sub \in Subs
        /\ x.put[n].no = 1 /\ x.put[n].of = None /\ x.put[n].status = "PENDING"
    BY <1>3, <1>5, <1>6 DEF Inserted
  <2>2. \A c \in Attempts : PairOf(rows[c]) # PairOf(rows'[n])
    <3> SUFFICES ASSUME NEW c \in Attempts, PairOf(rows[c]) = PairOf(rows'[n])
                 PROVE  FALSE
      OBVIOUS
    <3>1. rows[c].event = x.event
      BY <2>1 DEF PairOf
    <3>2. Used(c)
      BY <1>4, <1>5, <3>1, UsedHasEvent
    <3> QED
      BY <1>4, <1>5, <3>1, <3>2 DEF RowInv, Rooted
  <2>3. Added(n)
    BY <1>2, <1>3, <1>5, <1>7, <2>1, <2>2 DEF Added, First, Bounded
  <2>4. \A m \in N : PairOf(rows'[n]) = PairOf(rows'[m]) => n = m
    BY <1>3, <1>5, <1>6 DEF Inserted, PairOf
  <2> QED
    BY <2>1, <2>3, <2>4 DEF Open
<1>11. N \in SUBSET Attempts /\ \A n \in N : x.put[n] # NoRow /\ n # None
  BY <1>3, DeliveryAssumption
<1> HIDE DEF N
<1>12. \A e \in Events : events[e] # None => events'[e] = events[e]
  BY <1>5, <1>7
<1>13. Grown(N)
  BY <1>7, <1>8, <1>9, <1>10, <1>12 DEF Grown
<1>14. OneEventPerKey'
  BY <1>4, <1>5, <1>7 DEF OneEventPerKey
<1>15. ASSUME NEW q \in Procs \ {p}
       PROVE  Spares(N, proc[q])
  <2>1. PICK y \in Process : y = proc[q]
    BY Placed
  <2>2. Apart(x, y)
    BY <1>3, <2>1 DEF IInv, ProcInv
  <2>3. /\ \A a \in Attempts : a \in y.held => Used(a) \/ y.put[a] # NoRow
        /\ \A e \in y.locked : events[e] # None
        /\ y.event # None => Inserted(y)
    BY <2>1, Placed
  <2>4. \A a \in Attempts : y.put[a] # NoRow \/ a \in y.held => a \notin N
    BY <1>6, <1>11, <2>2, <2>3 DEF Apart
  <2>5. \A a \in y.held : rows'[a] = rows[a] /\ \A n \in N : rows'[n].of # a
    <3>1. \A a \in y.held : a \in Attempts /\ a # None
      BY DeliveryAssumption DEF Process
    <3> QED
      BY <1>6, <1>10, <2>4, <3>1
  <2>6. \A n \in N : rows'[n].event \notin y.locked
    BY <1>5, <1>10, <2>3
  <2>7. y.event # None => events'[y.event] = events[y.event] /\ \A e \in Events : events'[e] # y.key
    BY <1>5, <1>7, <2>2, <2>3 DEF Apart, Inserted
  <2> QED
    BY <2>1, <2>4, <2>5, <2>6, <2>7 DEF Spares
<1>16. Settles(N)
  BY <1>6, <1>10, <1>13 DEF Settles
<1> QED
  BY <1>1, <1>11, <1>13, <1>14, <1>15, <1>16, Commits DEF SomethingSettles

\* What a worker has just claimed is the last attempt of its pair.
LEMMA ClaimKeeps ==
    ASSUME IInv, NEW p \in Procs, NEW S \in SUBSET Attempts,
           \A a \in S : a \notin HeldByOthers(p) /\ Open(rows[a]),
           NEW x, Move(p, x),
           \/ x = [NoProc EXCEPT !.op = "pending", !.pc = "send", !.held = S, !.call = S]
           \/ x = [NoProc EXCEPT !.op = "retry", !.pc = "send", !.held = S, !.todo = S]
    PROVE  IInv'
<1>1. NoProc \in Process
  BY Rests DEF Rest
<1>2. ASSUME x = [NoProc EXCEPT !.op = "pending", !.pc = "send", !.held = S, !.call = S]
      PROVE  /\ x \in Process /\ x.pc = "send" /\ x.key = None /\ x.event = None
             /\ x.locked = {} /\ x.shared = {} /\ x.held = S /\ x.op = "pending"
             /\ x.call = S /\ x.todo = {} /\ x.put = [a \in Attempts |-> NoRow]
  <2>1. x \in Process
    BY <1>1, <1>2 DEF Process
  <2> QED
    BY <1>2, <2>1 DEF NoProc
<1>3. ASSUME x = [NoProc EXCEPT !.op = "retry", !.pc = "send", !.held = S, !.todo = S]
      PROVE  /\ x \in Process /\ x.pc = "send" /\ x.key = None /\ x.event = None
             /\ x.locked = {} /\ x.shared = {} /\ x.held = S /\ x.op = "retry"
             /\ x.call = {} /\ x.todo = S /\ x.put = [a \in Attempts |-> NoRow]
  <2>1. x \in Process
    BY <1>1, <1>3 DEF Process
  <2> QED
    BY <1>3, <2>1 DEF NoProc
<1>4. /\ x \in Process
      /\ x.pc = "send" /\ x.key = None /\ x.event = None /\ x.locked = {} /\ x.shared = {}
      /\ x.held = S /\ \A a \in Attempts : x.put[a] = NoRow
      /\ \/ x.op = "pending" /\ x.call = S /\ x.todo = {}
         \/ x.op = "retry" /\ x.call = {} /\ x.todo = S
  BY <1>2, <1>3
<1>5. \A a \in S : Used(a) /\ ~Repeated(a) /\ Open(rows[a])
  BY UsedHasEvent DEF IInv, RowInv, OpenIsLeaf
<1>6. \A a \in S : Resending(x, a)
  BY <1>4, <1>5 DEF Resending
<1>7. Shape(x)
  BY <1>4, <1>5, <1>6 DEF Shape, Sending
<1>8. \A q \in Procs \ {p} : Apart(x, proc[q])
  BY <1>4 DEF Apart, HeldByOthers, Others
<1> QED
  BY <1>4, <1>7, <1>8, MoveKeeps

\* A worker claims attempts that are due and that nobody holds.
LEMMA ClaimPendingKeeps == ASSUME IInv, NEW p \in Procs, ClaimPending(p) PROVE IInv'
<1>1. PICK S \in SUBSET Claimable(p, "PENDING") :
        Move(p, [NoProc EXCEPT !.op = "pending", !.pc = "send", !.held = S, !.call = S])
  BY DEF ClaimPending
<1>2. S \in SUBSET Attempts /\ \A a \in S : a \notin HeldByOthers(p) /\ Open(rows[a])
  BY DEF Claimable, Open
<1> QED
  BY <1>1, <1>2, ClaimKeeps

\* A worker claims attempts to be repeated.
LEMMA ClaimRetryKeeps == ASSUME IInv, NEW p \in Procs, ClaimRetry(p) PROVE IInv'
<1>1. PICK S \in SUBSET Claimable(p, "RETRYING") :
        Move(p, [NoProc EXCEPT !.op = "retry", !.pc = "send", !.held = S, !.todo = S])
  BY DEF ClaimRetry
<1>2. S \in SUBSET Attempts /\ \A a \in S : a \notin HeldByOthers(p) /\ Open(rows[a])
  BY DEF Claimable, Open
<1> QED
  BY <1>1, <1>2, ClaimKeeps

\* A retry by hand locks an attempt given up that nobody has repeated.
LEMMA ManualRetryKeeps == ASSUME IInv, NEW p \in Procs, ManualRetry(p) PROVE IInv'
<1>1. PICK a \in Attempts :
        /\ rows[a] # NoRow /\ a \notin HeldByOthers(p)
        /\ Move(p, IF rows[a].status \notin {"FAILED", "DEAD_LETTER"} \/ Repeated(a) THEN After(p)
                   ELSE [NoProc EXCEPT !.op = "manual", !.pc = "send", !.held = {a}, !.todo = {a}])
  BY DEF ManualRetry
<1>2. CASE rows[a].status \notin {"FAILED", "DEAD_LETTER"} \/ Repeated(a)
  BY <1>1, <1>2, EndKeeps DEF Leave
<1>3. CASE ~(rows[a].status \notin {"FAILED", "DEAD_LETTER"} \/ Repeated(a))
  <2> DEFINE x == [NoProc EXCEPT !.op = "manual", !.pc = "send", !.held = {a}, !.todo = {a}]
  <2>1. Move(p, x)
    BY <1>1, <1>3
  <2>2. NoProc \in Process
    BY Rests DEF Rest
  <2>3. x \in Process
    BY <2>2 DEF Process, NoProc
  <2>4. /\ x.op = "manual" /\ x.pc = "send" /\ x.key = None /\ x.event = None
        /\ x.locked = {} /\ x.shared = {} /\ x.held = {a} /\ x.call = {} /\ x.todo = {a}
        /\ \A b \in Attempts : x.put[b] = NoRow
    BY DEF NoProc
  <2> HIDE DEF x
  <2>5. Used(a) /\ ~Repeated(a) /\ rows[a].status \in {"FAILED", "DEAD_LETTER"}
    BY <1>1, <1>3 DEF Used
  <2>6. Resending(x, a)
    BY <2>4, <2>5 DEF Resending
  <2>7. Shape(x)
    BY <2>4, <2>5, <2>6 DEF Shape, Sending
  <2>8. \A q \in Procs \ {p} : Apart(x, proc[q])
    BY <1>1, <2>4 DEF Apart, HeldByOthers, Others
  <2> QED
    BY <2>1, <2>3, <2>7, <2>8, MoveKeeps
<1> QED
  BY <1>2, <1>3

\* Only a sender is at its calls.
LEMMA AtSend ==
    ASSUME IInv, NEW p \in Procs, proc[p].pc = "send"
    PROVE  proc[p] \in Process /\ Sending(proc[p])
<1>1. proc[p] \in Process /\ Shape(proc[p])
  BY Placed
<1>2. ~Rest(proc[p]) /\ ~Publishing(proc[p]) /\ ~Replaying(proc[p])
  BY DEF Rest, NoProc, Publishing, Inserted, Replaying
<1> QED
  BY <1>1, <1>2 DEF Shape

\* A sender adds, unseen by others, the repetition of an attempt it holds.
LEMMA SpawnKeeps == ASSUME IInv, NEW p \in Procs, Spawn(p) PROVE IInv'
<1>1. PICK a \in proc[p].todo :
        /\ proc[p].pc = "send" /\ proc[p].call = {} /\ EventFree(p, rows[a].event)
        /\ IF Repeated(a) THEN Fail(p)
           ELSE \E new \in Fresh({a}) :
                Move(p, [proc[p] EXCEPT
                    !.todo = @ \ {a}, !.call = {new[a]}, !.held = @ \cup {new[a]},
                    !.shared = @ \cup {rows[a].event},
                    !.put = [proc[p].put EXCEPT
                                ![new[a]] = Pending(PairOf(rows[a]), rows[a].no + 1, a),
                                ![a] = IF proc[p].op = "retry"
                                       THEN [rows[a] EXCEPT !.status = "FAILED"] ELSE proc[p].put[a]]])
  BY DEF Spawn
<1>2. proc[p] \in Process /\ Sending(proc[p])
  BY <1>1, AtSend
<1>3. PICK z \in Process : z = proc[p]
  BY <1>2
<1>4. CASE Repeated(a)
  BY <1>1, <1>4, EndKeeps
<1>5. CASE ~Repeated(a)
  <2>1. PICK new \in Fresh({a}) :
           Move(p, [proc[p] EXCEPT
                    !.todo = @ \ {a}, !.call = {new[a]}, !.held = @ \cup {new[a]},
                    !.shared = @ \cup {rows[a].event},
                    !.put = [proc[p].put EXCEPT
                                ![new[a]] = Pending(PairOf(rows[a]), rows[a].no + 1, a),
                                ![a] = IF proc[p].op = "retry"
                                       THEN [rows[a] EXCEPT !.status = "FAILED"] ELSE proc[p].put[a]]])
    BY <1>1, <1>5
  <2>2. PICK b \in Unused : b = new[a]
    BY DEF Fresh
  <2>3. /\ a \in Attempts /\ a \in z.held /\ Used(a) /\ z.op \in {"retry", "manual"} /\ a # None
        /\ Resending(z, a) /\ rows[a] \in Row
    BY <1>1, <1>2, <1>3, DeliveryAssumption DEF Sending, Process, IInv, RowInv
  <2>4. /\ b \in Attempts /\ ~Used(b) /\ \A q \in Procs : proc[q].put[b] = NoRow
    BY DEF Unused, Used
  <2> DEFINE put == [z.put EXCEPT ![b] = Pending(PairOf(rows[a]), rows[a].no + 1, a),
                                  ![a] = IF z.op = "retry"
                                         THEN [rows[a] EXCEPT !.status = "FAILED"] ELSE z.put[a]]
             x == [z EXCEPT !.todo = @ \ {a}, !.call = {b}, !.held = @ \cup {b},
                            !.shared = @ \cup {rows[a].event}, !.put = put]
  <2>5. Move(p, x)
    BY <1>3, <2>1, <2>2
  <2>6. a # b /\ z.put \in [Attempts -> Row]
    BY <2>3, <2>4 DEF Process
  <2>7. /\ put[b] = Pending(PairOf(rows[a]), rows[a].no + 1, a)
        /\ put[a] = IF z.op = "retry" THEN [rows[a] EXCEPT !.status = "FAILED"] ELSE z.put[a]
        /\ \A c \in Attempts : c # a /\ c # b => put[c] = z.put[c]
    BY <2>3, <2>4, <2>6
  <2>8. /\ rows[a].event \in Events /\ rows[a].sub \in Subs /\ rows[a].no \in Nat
    BY <2>3 DEF IInv, RowInv, Rooted, Row
  <2>9. /\ put[b] \in Row /\ put[b].event = rows[a].event /\ put[b].sub = rows[a].sub
        /\ put[b].no = rows[a].no + 1 /\ put[b].of = a /\ put[b].status = "PENDING"
    BY <2>3, <2>7, <2>8 DEF Pending, PairOf, Row
  <2>10. [rows[a] EXCEPT !.status = "FAILED"] \in Row
    BY <2>3 DEF Row
  <2>11. put \in [Attempts -> Row]
    <3>1. \A c \in Attempts : put[c] \in Row
      BY <2>3, <2>4, <2>6, <2>7, <2>9, <2>10
    <3> QED
      BY <2>6, <3>1
  <2>12. x = [z EXCEPT !.todo = @ \ {a}, !.call = {b}, !.held = @ \cup {b},
                        !.shared = @ \cup {rows[a].event}, !.put = put]
    OBVIOUS
  <2> HIDE DEF x, put
  <2>13. /\ x.op = z.op /\ x.pc = z.pc /\ x.key = z.key /\ x.event = z.event
         /\ x.pairs = z.pairs /\ x.want = z.want /\ x.locked = z.locked
         /\ x.todo = z.todo \ {a} /\ x.call = {b} /\ x.held = z.held \cup {b}
         /\ x.shared = z.shared \cup {rows[a].event} /\ x.put = put
    BY <2>12 DEF Process
  <2>14. x \in Process
    BY <2>3, <2>4, <2>8, <2>11, <2>12 DEF Process
  <2>15. Sending(z) /\ z.pc = "send"
    BY <1>1, <1>2, <1>3
  <2>16. z.op = "retry" => x.put[a] # NoRow /\ ~Open(x.put[a])
    BY <2>3, <2>7, <2>13 DEF Open, Row, NoRow
  <2>17. \A c \in Attempts : x.put[c] # NoRow => c \in x.held
    BY <2>3, <2>7, <2>13, <2>15 DEF Sending
  <2>18. Resending(x, a)
    <3>1. CASE z.op = "retry"
      BY <2>3, <2>7, <2>13, <2>10, <3>1 DEF Resending, Open, Bounded, Row
    <3>2. CASE z.op = "manual"
      BY <2>3, <2>7, <2>13, <3>2 DEF Resending
    <3> QED
      BY <2>3, <3>1, <3>2
  <2>19. Repeating(x, b)
    <3>1. Continues(x, b, a)
      BY <2>3, <2>7, <2>9, <2>13, <2>16 DEF Continues
    <3>2. x.put[b] # NoRow /\ Bounded(x.put[b])
      BY <2>9, <2>13 DEF NoRow, Bounded
    <3> QED
      BY <2>3, <2>7, <2>13, <3>1, <3>2 DEF Repeating
  <2>20. ASSUME NEW c \in z.held, ~Used(c)
         PROVE  /\ c \in Attempts /\ c # b /\ c # a /\ x.put[c] = z.put[c]
                /\ x.put[c].of # a /\ Repeating(x, c)
    <3>1. Repeating(z, c) /\ c \in Attempts
      BY <2>15, <2>20 DEF Sending, Process
    <3>2. PICK d \in Attempts : Continues(z, c, d)
      BY <3>1 DEF Repeating
    <3>3. c # b /\ c # a
      BY <1>3, <2>3, <2>4, <2>20, <3>1 DEF Repeating
    <3>4. d # a /\ d # b
      BY <1>1, <1>3, <2>4, <3>2 DEF Continues
    <3>5. x.put[c] = z.put[c] /\ x.put[d] = z.put[d]
      BY <2>7, <2>13, <3>1, <3>3, <3>4
    <3>6. Continues(x, c, d)
      BY <2>7, <2>13, <3>2, <3>5 DEF Continues
    <3> QED
      BY <2>7, <2>13, <3>1, <3>2, <3>3, <3>4, <3>5, <3>6 DEF Repeating, Continues
  <2>21. ASSUME NEW c \in z.held, Used(c), c # a
         PROVE  Resending(x, c)
    <3>1. Resending(z, c) /\ c \in Attempts
      BY <2>15, <2>21 DEF Sending, Process
    <3>2. x.put[c] = z.put[c]
      BY <2>4, <2>7, <2>13, <2>21, <3>1
    <3> QED
      BY <2>7, <2>13, <3>1, <3>2 DEF Resending
  <2>22. \A c \in x.held : IF Used(c) THEN Resending(x, c) ELSE Repeating(x, c)
    BY <2>4, <2>7, <2>13, <2>18, <2>19, <2>20, <2>21
  <2>23. \A c, d \in x.held : ~Used(c) /\ ~Used(d) /\ x.put[c].of = x.put[d].of => c = d
    BY <2>7, <2>13, <2>9, <2>15, <2>20 DEF Sending
  <2>24. Sending(x)
    BY <2>3, <2>4, <2>7, <2>13, <2>15, <2>17, <2>22, <2>23 DEF Sending
  <2>25. ASSUME NEW q \in Procs \ {p}
         PROVE  Apart(x, proc[q])
    <3>1. PICK y \in Process : y = proc[q]
      BY Placed
    <3>2. Apart(z, y)
      BY <1>3, <3>1 DEF IInv, ProcInv
    <3>3. b \notin y.held
      BY <2>4, <3>1, Placed
    <3>4. y.put[b] = NoRow /\ y.put[a] = NoRow
      BY <2>3, <2>4, <3>1, <3>2, Placed DEF Apart
    <3>5. rows[a].event \notin y.locked
      BY <1>1, <3>1 DEF EventFree, Others
    <3>6. \A c \in Attempts : x.put[c] = NoRow \/ y.put[c] = NoRow
      BY <2>7, <2>13, <3>2, <3>4 DEF Apart
    <3>7. x.held \cap y.held = {} /\ x.shared \cap y.locked = {}
      BY <2>7, <2>13, <3>2, <3>3, <3>5 DEF Apart
    <3> QED
      BY <2>7, <2>13, <3>1, <3>2, <3>6, <3>7 DEF Apart
  <2> QED
    BY <2>5, <2>14, <2>24, <2>25, MoveKeeps DEF Shape
<1> QED
  BY <1>4, <1>5

\* A call about pair y, which has attempts: its receiver accepts it or not.
Calls(y) ==
    /\ y \in Pairs /\ \E c \in Attempts : PairOf(rows[c]) = y
    /\ received' \in {received, received \cup {y}}
    /\ \A q \in Procs, c \in Attempts :
          \/ proc'[q].put[c] = proc[q].put[c]
          \/ PairOf(proc'[q].put[c]) = y /\ (proc'[q].put[c].status = "SENT" => y \in received')

\* A call only changes the status of an attempt that its sender holds.
LEMMA CallKeeps ==
    ASSUME IInv, NEW p \in Procs, Call(p)
    PROVE  IInv' /\ rows' = rows /\ \E y : Calls(y)
<1>1. PICK a \in proc[p].call : \E row \in {IF proc[p].put[a] # NoRow THEN proc[p].put[a] ELSE rows[a]} :
        \E accepted \in BOOLEAN, status \in {"SENT", "FAILED", Schedule(row)} :
            /\ status = "SENT" => accepted
            /\ received' = IF accepted THEN received \cup {PairOf(row)} ELSE received
            /\ proc' = [proc EXCEPT ![p].call = @ \ {a},
                                    ![p].put[a] = [row EXCEPT !.status = status]]
            /\ UNCHANGED <<events, rows, crashes>>
  BY ZenonT(30) DEF Call
<1>2. PICK row : /\ row = IF proc[p].put[a] # NoRow THEN proc[p].put[a] ELSE rows[a]
                 /\ \E status \in {"SENT", "FAILED", Schedule(row)} :
                      /\ received' = received \cup {PairOf(row)} \/ (received' = received /\ status # "SENT")
                      /\ proc' = [proc EXCEPT ![p].call = @ \ {a},
                                              ![p].put[a] = [row EXCEPT !.status = status]]
                      /\ UNCHANGED <<events, rows, crashes>>
  BY <1>1
<1>3. PICK status \in {"SENT", "FAILED", Schedule(row)} :
         /\ received' = received \cup {PairOf(row)} \/ (received' = received /\ status # "SENT")
         /\ proc' = [proc EXCEPT ![p].call = @ \ {a},
                                 ![p].put[a] = [row EXCEPT !.status = status]]
         /\ UNCHANGED <<events, rows, crashes>>
  BY <1>2
<1>4. proc[p] \in Process /\ Sending(proc[p])
  <2>1. proc[p] \in Process /\ Shape(proc[p])
    BY Placed
  <2>2. ~Rest(proc[p]) /\ ~Publishing(proc[p]) /\ ~Replaying(proc[p])
    BY <1>1 DEF Rest, NoProc, Publishing, Replaying
  <2> QED
    BY <2>1, <2>2 DEF Shape
<1>5. PICK z \in Process : z = proc[p]
  BY <1>4
<1>6. Sending(z) /\ a \in z.call /\ a \in Attempts /\ a \in z.held
  BY <1>4, <1>5 DEF Sending, Process
<1>7. row = IF z.put[a] # NoRow THEN z.put[a] ELSE rows[a]
  BY <1>2, <1>5
<1>8. /\ row \in Row /\ row.event \in Events /\ row.sub \in Subs /\ row.no \in Nat
      /\ Used(a) => /\ z.op = "pending" /\ Resending(z, a)
                    /\ row.event = rows[a].event /\ row.sub = rows[a].sub
                    /\ row.no = rows[a].no /\ row.of = rows[a].of
      /\ ~Used(a) => z.op # "pending" /\ Repeating(z, a) /\ row = z.put[a]
  <2>1. rows[a] \in Row /\ z.put[a] \in Row
    BY <1>6 DEF Process, IInv, RowInv
  <2>2. CASE Used(a)
    <3>1. z.op = "pending" /\ Resending(z, a)
      BY <1>6, <2>2 DEF Sending
    <3>2. rows[a].event \in Events /\ rows[a].sub \in Subs
      BY <1>6, <2>2 DEF IInv, RowInv, Rooted
    <3> QED
      BY <1>7, <2>1, <2>2, <3>1, <3>2 DEF Resending, Row
  <2>3. CASE ~Used(a)
    <3>1. z.op # "pending" /\ Repeating(z, a)
      BY <1>6, <2>3 DEF Sending
    <3>2. PICK d \in Attempts : Continues(z, a, d)
      BY <3>1 DEF Repeating
    <3>3. z.put[a].event \in Events /\ z.put[a].sub \in Subs
      BY <3>2 DEF Continues, IInv, RowInv, Rooted
    <3> QED
      BY <1>7, <2>1, <2>3, <3>1, <3>3 DEF Repeating, Row
  <2> QED
    BY <2>2, <2>3
<1> DEFINE new == [row EXCEPT !.status = status]
           x == [z EXCEPT !.call = @ \ {a}, !.put[a] = new]
<1>9. status \in {"SENT", "FAILED", "DEAD_LETTER", "RETRYING"}
      /\ (status = "RETRYING" => row.no - 1 < MaxRetries[row.sub])
  BY <1>8, DeliveryAssumption DEF Schedule
<1>10. /\ new \in Row /\ new.event = row.event /\ new.sub = row.sub /\ new.no = row.no
       /\ new.of = row.of /\ new.status = status
  BY <1>8, <1>9 DEF Row
<1> HIDE DEF new
<1>11. Bounded(new) /\ new # NoRow
  <2>1. MaxRetries[row.sub] \in Nat
    BY <1>8, DeliveryAssumption
  <2>2. new.status # "NONE"
    BY <1>9, <1>10
  <2> QED
    BY <1>8, <1>9, <1>10, <2>1, <2>2 DEF Bounded, NoRow
<1>12. proc' = [proc EXCEPT ![p] = x]
  BY <1>3, <1>5 DEF IInv, ProcInv, Process, new
<1>13. /\ x.op = z.op /\ x.pc = z.pc /\ x.held = z.held /\ x.todo = z.todo
       /\ x.call = z.call \ {a} /\ x.key = z.key /\ x.event = z.event /\ x.locked = z.locked
       /\ x.shared = z.shared /\ x.put[a] = new
       /\ \A c \in Attempts : c # a => x.put[c] = z.put[c]
  BY <1>6 DEF Process
<1>14. x \in Process
  BY <1>6, <1>10 DEF Process
<1> HIDE DEF x
<1>15. ASSUME NEW c \in z.held, Used(c)
       PROVE  Resending(x, c)
  <2>1. Resending(z, c) /\ c \in Attempts
    BY <1>6, <1>15 DEF Sending, Process
  <2>2. CASE c = a
    BY <1>8, <1>10, <1>11, <1>13, <1>15, <2>1, <2>2 DEF Resending
  <2>3. CASE c # a
    <3>1. x.put[c] = z.put[c]
      BY <1>13, <2>1, <2>3
    <3> QED
      BY <1>13, <2>1, <3>1 DEF Resending
  <2> QED
    BY <2>2, <2>3
<1>16. ASSUME NEW c \in z.held, ~Used(c)
       PROVE  Repeating(x, c) /\ x.put[c].of = z.put[c].of
  <2>1. Repeating(z, c) /\ c \in Attempts
    BY <1>6, <1>16 DEF Sending, Process
  <2>2. /\ x.put[c].of = z.put[c].of /\ x.put[c].event = z.put[c].event
        /\ x.put[c].sub = z.put[c].sub /\ x.put[c].no = z.put[c].no
        /\ x.put[c] # NoRow /\ Bounded(x.put[c])
    BY <1>8, <1>10, <1>11, <1>13, <1>16, <2>1 DEF Repeating
  <2>3. PICK d \in Attempts : Continues(z, c, d)
    BY <2>1 DEF Repeating
  <2>4. z.op = "retry" => x.put[d] = z.put[d]
    BY <1>8, <1>13, <2>3 DEF Continues
  <2>5. Continues(x, c, d)
    BY <1>13, <2>2, <2>3, <2>4 DEF Continues
  <2> QED
    BY <1>13, <2>1, <2>2, <2>5 DEF Repeating
<1>17. Sending(x)
  <2>1. \A c \in Attempts : x.put[c] # NoRow => c \in x.held
    BY <1>6, <1>13 DEF Sending
  <2>2. \A c \in x.held : IF Used(c) THEN Resending(x, c) ELSE Repeating(x, c)
    BY <1>13, <1>15, <1>16
  <2>3. \A c, d \in x.held : ~Used(c) /\ ~Used(d) /\ x.put[c].of = x.put[d].of => c = d
    BY <1>6, <1>13, <1>16 DEF Sending
  <2> QED
    BY <1>6, <1>13, <2>1, <2>2, <2>3 DEF Sending
<1>18. ASSUME NEW q \in Procs \ {p}
       PROVE  Apart(x, proc[q])
  <2>1. PICK y \in Process : y = proc[q]
    BY Placed
  <2>2. Apart(z, y)
    BY <1>5, <2>1 DEF IInv, ProcInv
  <2>3. y.put[a] = NoRow
    <3>1. y.put[a] # NoRow => a \in y.held \/ ~Used(a)
      BY <1>6, <2>1, Placed
    <3>2. ~Used(a) => z.put[a] # NoRow
      BY <1>8 DEF Repeating
    <3> QED
      BY <1>6, <2>2, <3>1, <3>2 DEF Apart
  <2>4. \A c \in Attempts : x.put[c] = NoRow \/ y.put[c] = NoRow
    BY <1>13, <2>2, <2>3 DEF Apart
  <2> QED
    BY <1>13, <2>1, <2>2, <2>4 DEF Apart
<1>19. received' \in SUBSET Pairs
  BY <1>3, <1>8 DEF IInv, PairOf, Pairs
<1>20. UNCHANGED <<events, rows>> /\ crashes' \in 0 .. MaxCrashes
  BY <1>3 DEF IInv
<1>21. IInv'
  BY <1>12, <1>14, <1>17, <1>18, <1>19, <1>20, Moves DEF Shape
<1>22. Calls(PairOf(row))
  <2>1. PairOf(row) \in Pairs /\ \E c \in Attempts : PairOf(rows[c]) = PairOf(row)
    <3>1. CASE Used(a)
      BY <1>6, <1>8, <3>1 DEF PairOf, Pairs
    <3>2. CASE ~Used(a)
      <4>1. PICK d \in Attempts : Continues(z, a, d)
        BY <1>8, <3>2 DEF Repeating
      <4> QED
        BY <1>8, <3>2, <4>1 DEF Continues, PairOf, Pairs
    <3> QED
      BY <3>1, <3>2
  <2>2. received' \in {received, received \cup {PairOf(row)}}
    BY <1>3
  <2>3. ASSUME NEW q \in Procs, NEW c \in Attempts
        PROVE  \/ proc'[q].put[c] = proc[q].put[c]
               \/ /\ PairOf(proc'[q].put[c]) = PairOf(row)
                  /\ proc'[q].put[c].status = "SENT" => PairOf(row) \in received'
    <3>1. CASE q = p /\ c = a
      <4>1. proc'[q].put[c] = new
        BY <1>12, <1>13, <3>1 DEF IInv, ProcInv
      <4>2. PairOf(new) = PairOf(row)
        BY <1>10 DEF PairOf
      <4> QED
        BY <1>3, <1>10, <4>1, <4>2
    <3>2. CASE q = p /\ c # a
      BY <1>5, <1>12, <1>13, <3>2 DEF IInv, ProcInv
    <3>3. CASE q # p
      BY <1>12, <3>3 DEF IInv, ProcInv
    <3> QED
      BY <3>1, <3>2, <3>3
  <2> QED
    BY <2>1, <2>2, <2>3 DEF Calls
<1> QED
  BY <1>3, <1>21, <1>22

\* A commit of a sender adds repetitions of attempts that it holds.
LEMMA CommitSendKeeps ==
    ASSUME IInv, NEW p \in Procs, CommitSend(p)
    PROVE  IInv' /\ (SentReceived => SomethingSettles)
<1> DEFINE N == {a \in Attempts : proc[p].put[a] # NoRow /\ ~Used(a)}
<1>1. /\ proc[p].pc = "send" /\ events' = events
      /\ rows' = [a \in Attempts |-> IF proc[p].put[a] # NoRow THEN proc[p].put[a] ELSE rows[a]]
      /\ proc' = [proc EXCEPT ![p] = After(p)] /\ UNCHANGED <<received, crashes>>
  BY DEF CommitSend, Write
<1>2. proc[p] \in Process /\ Sending(proc[p])
  BY <1>1, AtSend
<1>3. PICK x \in Process : x = proc[p]
  BY <1>2
<1>4. RowInv /\ OneEventPerKey /\ Sending(x) /\ \A a \in Attempts : rows[a] \in Row
  BY <1>2, <1>3 DEF IInv, RowInv
<1>5. \A a \in Attempts : /\ rows'[a] = IF x.put[a] # NoRow THEN x.put[a] ELSE rows[a]
                          /\ x.put[a] # NoRow => a \in x.held
                          /\ a \in N <=> x.put[a] # NoRow /\ ~Used(a)
  BY <1>1, <1>3, <1>4 DEF Sending
<1>6. N \in SUBSET Attempts
  OBVIOUS
<1> HIDE DEF N
<1>7. rows' \in [Attempts -> Row] /\ events' \in [Events -> Keys \cup {None}]
  BY <1>1, <1>3, <1>4 DEF RowInv, Process
<1>8. ASSUME NEW a \in Attempts \ N
      PROVE  /\ Kept(a)
             /\ \/ rows'[a] = rows[a]
                \/ Open(rows[a]) /\ rows'[a] = x.put[a] /\ PairOf(x.put[a]) = PairOf(rows[a])
  <2>1. CASE x.put[a] = NoRow
    <3>1. rows'[a] = rows[a] /\ Bounded(rows[a])
      BY <1>4, <1>5, <2>1 DEF RowInv, RetriesBounded
    <3> QED
      BY <3>1 DEF Kept, Used
  <2>2. CASE x.put[a] # NoRow
    <3>1. rows'[a] = x.put[a] /\ Used(a) /\ Resending(x, a)
      BY <1>4, <1>5, <2>2 DEF Sending
    <3> QED
      BY <2>2, <3>1 DEF Kept, Resending, PairOf
  <2> QED
    BY <2>1, <2>2
<1>9. ASSUME NEW n \in N
      PROVE  /\ rows'[n] = x.put[n] /\ ~Used(n) /\ n \in x.held /\ n \in Attempts
             /\ \E b \in Attempts : /\ After_(n, b) /\ b \in x.held /\ Added(n)
                                    /\ rows'[n].event \in x.shared /\ rows[b].status # "SENT"
  <2>1. /\ rows'[n] = x.put[n] /\ ~Used(n) /\ n \in x.held /\ n \in Attempts /\ Repeating(x, n)
    BY <1>4, <1>5, <1>6 DEF Sending
  <2>2. PICK b \in Attempts : Continues(x, n, b)
    BY <2>1 DEF Repeating
  <2>3. b \in x.held /\ Used(b) /\ Resending(x, b)
    BY <1>4, <2>2 DEF Continues, Sending
  <2>4. ~Open(rows'[b])
    <3>1. CASE x.op = "retry"
      BY <1>5, <2>2, <3>1 DEF Continues
    <3>2. CASE x.op = "manual"
      BY <1>5, <2>3, <3>2 DEF Resending, Open
    <3> QED
      BY <1>4, <2>1, <3>1, <3>2 DEF Sending, Repeating
  <2>5. After_(n, b)
    BY <2>1, <2>2, <2>3, <2>4 DEF After_, Continues, Resending, PairOf
  <2>6. /\ rows[b].event \in Events /\ rows[b].sub \in Subs /\ events[rows[b].event] # None
    BY <1>4, <2>3 DEF RowInv, Rooted
  <2>7. Added(n)
    BY <1>1, <2>1, <2>2, <2>5, <2>6 DEF Added, Continues, Repeating
  <2>8. rows[b].status # "SENT"
    BY <2>3 DEF Resending, Open
  <2> QED
    BY <2>1, <2>2, <2>3, <2>5, <2>7, <2>8 DEF Continues
<1>10. ASSUME NEW n \in N, NEW m \in N, PairOf(rows'[n]) = PairOf(rows'[m])
       PROVE  n = m
  <2>1. PICK b \in Attempts : After_(n, b)
    BY <1>9
  <2>2. PICK c \in Attempts : After_(m, c)
    BY <1>9
  <2>3. /\ Used(b) /\ Used(c) /\ ~Repeated(b) /\ ~Repeated(c) /\ SamePair(b, c)
        /\ rows'[n].of = b /\ rows'[m].of = c
    BY <1>10, <2>1, <2>2 DEF After_, SamePair
  <2>4. rows[b].no <= rows[c].no /\ rows[c].no <= rows[b].no
    BY <1>4, <2>3 DEF RowInv, LeafIsLast, SamePair
  <2>5. rows[b].no \in Nat /\ rows[c].no \in Nat
    BY <1>4 DEF Row
  <2>6. b = c
    BY <1>4, <2>3, <2>4, <2>5 DEF RowInv, Numbered
  <2> QED
    BY <1>4, <1>9, <2>3, <2>6 DEF Sending
<1>11. Grown(N)
  BY <1>1, <1>7, <1>8, <1>9, <1>10 DEF Grown
<1>12. OneEventPerKey'
  BY <1>1, <1>4 DEF OneEventPerKey
<1>13. ASSUME NEW q \in Procs \ {p}
       PROVE  Spares(N, proc[q])
  <2>1. PICK y \in Process : y = proc[q]
    BY Placed
  <2>2. Apart(x, y)
    BY <1>3, <2>1 DEF IInv, ProcInv
  <2>3. y.event # None => Inserted(y)
    BY <2>1, Placed
  <2>4. \A a \in Attempts : y.put[a] # NoRow \/ a \in y.held => a \notin N
    BY <1>5, <2>2 DEF Apart
  <2>5. ASSUME NEW a \in y.held
        PROVE  rows'[a] = rows[a] /\ \A n \in N : rows'[n].of # a
    <3>1. a \in Attempts /\ a \notin x.held
      BY <2>2 DEF Apart, Process
    <3>2. rows'[a] = rows[a]
      BY <1>5, <3>1
    <3>3. \A n \in N : rows'[n].of \in x.held
      BY <1>9 DEF After_
    <3> QED
      BY <3>1, <3>2, <3>3
  <2>6. \A n \in N : rows'[n].event \notin y.locked
    BY <1>9, <2>2 DEF Apart
  <2>7. y.event # None => events'[y.event] = events[y.event] /\ \A e \in Events : events'[e] # y.key
    BY <1>1, <2>3 DEF Inserted
  <2> QED
    BY <2>1, <2>4, <2>5, <2>6, <2>7 DEF Spares
<1>14. ASSUME SentReceived
       PROVE  Settles(N)
  <2>1. \A a \in Attempts : x.put[a].status = "SENT" => PairOf(x.put[a]) \in received
    BY <1>3, <1>14 DEF SentReceived
  <2> QED
    BY <1>6, <1>8, <1>9, <1>11, <2>1 DEF Settles
<1> QED
  BY <1>1, <1>6, <1>11, <1>12, <1>13, <1>14, Commits DEF SomethingSettles

\* The replayed pairs are those of events that are committed.
LEMMA ReplayKeeps == ASSUME IInv, NEW p \in Procs, Replay(p) PROVE IInv'
<1>1. PICK P \in SUBSET {y \in Pairs : events[y[1]] # None} :
        Move(p, [NoProc EXCEPT !.op = "replay", !.pc = "events", !.pairs = P,
                               !.want = {y[1] : y \in P}])
  BY DEF Replay
<1> DEFINE W == {y[1] : y \in P}
           x == [NoProc EXCEPT !.op = "replay", !.pc = "events", !.pairs = P, !.want = W]
<1>2. Move(p, x)
  BY <1>1
<1>3. P \in SUBSET Pairs /\ W \in SUBSET Events /\ \A e \in W : events[e] # None
  BY DEF Pairs
<1>4. \A y \in P : y[1] \in W
  OBVIOUS
<1> HIDE DEF W
<1>5. NoProc \in Process
  BY Rests DEF Rest
<1>6. x \in Process
  BY <1>3, <1>5 DEF Process, NoProc
<1>7. /\ x.op = "replay" /\ x.pc = "events" /\ x.key = None /\ x.event = None /\ x.call = {}
      /\ x.held = {} /\ x.locked = {} /\ x.shared = {} /\ x.pairs = P /\ x.want = W
      /\ \A a \in Attempts : x.put[a] = NoRow
  BY DEF NoProc
<1> HIDE DEF x
<1>8. Replaying(x)
  BY <1>3, <1>4, <1>7 DEF Replaying
<1>9. \A q \in Procs \ {p} : Apart(x, proc[q])
  BY <1>7 DEF Apart
<1> QED
  BY <1>2, <1>6, <1>8, <1>9, MoveKeeps DEF Shape

\* Only a replay locks events and then attempts.
LEMMA AtReplay ==
    ASSUME IInv, NEW p \in Procs, proc[p].pc \in {"events", "rows"}
    PROVE  proc[p] \in Process /\ Replaying(proc[p])
<1>1. proc[p] \in Process /\ Shape(proc[p])
  BY Placed
<1>2. ~Rest(proc[p]) /\ ~Publishing(proc[p]) /\ ~Sending(proc[p])
  BY DEF Rest, NoProc, Publishing, Inserted, Sending
<1> QED
  BY <1>1, <1>2 DEF Shape

\* A replay locks its events against the senders and the other replays.
LEMMA LockEventKeeps == ASSUME IInv, NEW p \in Procs, LockEvent(p) PROVE IInv'
<1>1. PICK e \in proc[p].want :
        /\ proc[p].pc = "events" /\ EventFor(p, e)
        /\ Move(p, [proc[p] EXCEPT !.want = @ \ {e}, !.locked = @ \cup {e}])
  BY DEF LockEvent
<1>2. proc[p] \in Process /\ Replaying(proc[p])
  BY <1>1, AtReplay
<1>3. PICK z \in Process : z = proc[p]
  BY <1>2
<1> DEFINE x == [z EXCEPT !.want = @ \ {e}, !.locked = @ \cup {e}]
<1>4. Move(p, x)
  BY <1>1, <1>3
<1>5. Replaying(z) /\ z.pc = "events" /\ e \in z.want /\ e \in Events
  BY <1>1, <1>2, <1>3 DEF Process
<1>6. /\ x \in Process
      /\ x.op = z.op /\ x.pc = z.pc /\ x.held = z.held /\ x.put = z.put /\ x.todo = z.todo
      /\ x.call = z.call /\ x.key = z.key /\ x.event = z.event /\ x.pairs = z.pairs
      /\ x.shared = z.shared /\ x.want = z.want \ {e} /\ x.locked = z.locked \cup {e}
  BY <1>5 DEF Process
<1> HIDE DEF x
<1>7. Replaying(x)
  BY <1>5, <1>6 DEF Replaying
<1>8. ASSUME NEW q \in Procs \ {p}
      PROVE  Apart(x, proc[q])
  <2>1. Apart(z, proc[q])
    BY <1>3 DEF IInv, ProcInv
  <2>2. e \notin proc[q].locked \cup proc[q].shared
    BY <1>1 DEF EventFor, Others
  <2> QED
    BY <1>6, <2>1, <2>2 DEF Apart
<1> QED
  BY <1>4, <1>6, <1>7, <1>8, MoveKeeps DEF Shape

\* The last attempts of some pairs are those that nobody has repeated.
LEMMA LeavesAre ==
    ASSUME RowInv, NEW P \in SUBSET Pairs
    PROVE  Leaves(P) = Tips(P)
<1>1. ASSUME NEW a \in Attempts, PairOf(rows[a]) \in P, ~Repeated(a), NEW b \in Attempts,
             PairOf(rows[b]) = PairOf(rows[a])
      PROVE  rows[b].no <= rows[a].no
  <2>1. Used(a)
    BY <1>1, PairIsUsed
  <2> QED
    BY <1>1, <2>1 DEF RowInv, LeafIsLast, SamePair
<1> QED
  BY <1>1 DEF Leaves, Tips

\* A replay reads the last attempts when all its events are locked.
LEMMA ReadLeavesKeeps == ASSUME IInv, NEW p \in Procs, ReadLeaves(p) PROVE IInv'
<1>1. /\ proc[p].pc = "events" /\ proc[p].want = {}
      /\ Move(p, [proc[p] EXCEPT !.pc = "rows", !.todo = Leaves(proc[p].pairs)])
  BY DEF ReadLeaves
<1>2. proc[p] \in Process /\ Replaying(proc[p])
  BY <1>1, AtReplay
<1>3. PICK z \in Process : z = proc[p]
  BY <1>2
<1> DEFINE x == [z EXCEPT !.pc = "rows", !.todo = Leaves(z.pairs)]
<1>4. Move(p, x)
  BY <1>1, <1>3
<1>5. Replaying(z) /\ z.pc = "events" /\ z.want = {} /\ z.pairs \in SUBSET Pairs
  BY <1>1, <1>2, <1>3 DEF Process
<1>6. Leaves(z.pairs) = Tips(z.pairs) /\ Tips(z.pairs) \in SUBSET Attempts
  BY <1>5, LeavesAre DEF IInv, Tips
<1>7. /\ x \in Process
      /\ x.op = z.op /\ x.pc = "rows" /\ x.held = z.held /\ x.put = z.put /\ x.todo = Tips(z.pairs)
      /\ x.call = z.call /\ x.key = z.key /\ x.event = z.event /\ x.pairs = z.pairs
      /\ x.shared = z.shared /\ x.want = z.want /\ x.locked = z.locked
  BY <1>6 DEF Process
<1> HIDE DEF x
<1>8. Replaying(x)
  BY <1>5, <1>7 DEF Replaying
<1>9. \A q \in Procs \ {p} : Apart(x, proc[q])
  BY <1>3, <1>7 DEF Apart, IInv, ProcInv
<1> QED
  BY <1>4, <1>7, <1>8, <1>9, MoveKeeps DEF Shape

\* A replay locks an attempt that nobody else holds.
LEMMA LockLeafKeeps == ASSUME IInv, NEW p \in Procs, LockLeaf(p) PROVE IInv'
<1>1. PICK a \in proc[p].todo :
        /\ proc[p].pc = "rows" /\ a \notin HeldByOthers(p)
        /\ Move(p, [proc[p] EXCEPT !.todo = @ \ {a}, !.held = @ \cup {a}])
  BY DEF LockLeaf
<1>2. proc[p] \in Process /\ Replaying(proc[p])
  BY <1>1, AtReplay
<1>3. PICK z \in Process : z = proc[p]
  BY <1>2
<1> DEFINE x == [z EXCEPT !.todo = @ \ {a}, !.held = @ \cup {a}]
<1>4. Move(p, x)
  BY <1>1, <1>3
<1>5. Replaying(z) /\ z.pc = "rows" /\ a \in z.todo /\ a \in Attempts
  BY <1>1, <1>2, <1>3 DEF Process
<1>6. /\ x \in Process
      /\ x.op = z.op /\ x.pc = z.pc /\ x.held = z.held \cup {a} /\ x.put = z.put
      /\ x.todo = z.todo \ {a} /\ x.call = z.call /\ x.key = z.key /\ x.event = z.event
      /\ x.pairs = z.pairs /\ x.shared = z.shared /\ x.want = z.want /\ x.locked = z.locked
  BY <1>5 DEF Process
<1> HIDE DEF x
<1>7. Replaying(x)
  BY <1>5, <1>6 DEF Replaying
<1>8. ASSUME NEW q \in Procs \ {p}
      PROVE  Apart(x, proc[q])
  <2>1. Apart(z, proc[q])
    BY <1>3 DEF IInv, ProcInv
  <2>2. a \notin proc[q].held
    BY <1>1 DEF HeldByOthers, Others
  <2> QED
    BY <1>6, <2>1, <2>2 DEF Apart
<1> QED
  BY <1>4, <1>6, <1>7, <1>8, MoveKeeps DEF Shape

\* A commit of a replay adds one attempt to each pair that is not in flight,
\* after the last if there is one.
LEMMA CommitReplayKeeps ==
    ASSUME IInv, NEW p \in Procs, CommitReplay(p)
    PROVE  IInv' /\ (SomethingSettles \/ Fail(p))
<1>1. proc[p].pc = "rows" /\ proc[p].todo = {}
  BY DEF CommitReplay
<1>2. proc[p] \in Process /\ Replaying(proc[p])
  BY <1>1, AtReplay
<1>3. PICK x \in Process : x = proc[p]
  BY <1>2
<1> DEFINE R == Replayed(p)
<1>4. CASE \E y \in R : \E a \in Previous(p, y) : Repeated(a)
  BY <1>4, EndKeeps DEF CommitReplay
<1>5. CASE ~\E y \in R : \E a \in Previous(p, y) : Repeated(a)
  <2>1. PICK new \in Fresh(R) :
          rows' = [a \in Attempts |-> IF \E y \in R : new[y] = a
                                      THEN Successor(p, CHOOSE y \in R : new[y] = a) ELSE rows[a]]
    BY <1>5 DEF CommitReplay
  <2>2. proc' = [proc EXCEPT ![p] = After(p)] /\ UNCHANGED <<events, received, crashes>>
    BY <1>5 DEF CommitReplay
  <2>3. /\ RowInv /\ OneEventPerKey /\ Replaying(x) /\ x.want = {} /\ x.held = Tips(x.pairs)
        /\ x.pairs \in SUBSET Pairs
    BY <1>1, <1>2, <1>3 DEF IInv, Replaying, Process
  <2>4. ASSUME NEW y \in R
        PROVE  /\ y \in x.pairs /\ y \in Pairs /\ y[1] \in x.locked /\ events[y[1]] # None
               /\ \A a \in x.held : PairOf(rows[a]) = y => ~Open(rows[a])
               /\ Previous(p, y) = {a \in x.held : PairOf(rows[a]) = y}
               /\ new[y] \in Attempts /\ ~Used(new[y])
               /\ \A q \in Procs : proc[q].put[new[y]] = NoRow
    <3>1. y \in x.pairs /\ \A a \in x.held : PairOf(rows[a]) = y => ~Open(rows[a])
      BY <1>3 DEF Replayed
    <3>2. new[y] \in Unused
      BY DEF Fresh
    <3> QED
      BY <1>3, <2>3, <3>1, <3>2 DEF Replaying, Previous, Unused, Used
  <2>5. \A y, w \in R : new[y] = new[w] => y = w
    BY DEF Fresh
  <2> DEFINE N == {new[y] : y \in R}
  <2> HIDE DEF R
  <2>6. N \in SUBSET Attempts
    BY <2>4
  <2>7. \A y \in R : rows'[new[y]] = Successor(p, y)
    <3> SUFFICES ASSUME NEW y \in R
                 PROVE  rows'[new[y]] = Successor(p, y)
      OBVIOUS
    <3>1. (CHOOSE w \in R : new[w] = new[y]) = y
      BY <2>5
    <3> QED
      BY <2>1, <2>4, <3>1
  <2>8. \A a \in Attempts \ N : rows'[a] = rows[a]
    BY <2>1
  <2>9. ASSUME NEW y \in R
        PROVE  /\ rows'[new[y]] \in Row /\ PairOf(rows'[new[y]]) = y /\ Added(new[y])
               /\ rows'[new[y]].event = y[1] /\ Open(rows'[new[y]])
               /\ rows'[new[y]].of \in x.held \cup {None}
    <3>0. new[y] \in N
      OBVIOUS
    <3>1. y[1] \in Events /\ y[2] \in Subs /\ y = <<y[1], y[2]>>
      BY <2>4 DEF Pairs
    <3>2. CASE Previous(p, y) = {}
      <4>1. rows'[new[y]] = Pending(y, 1, None)
        BY <2>7, <3>2 DEF Successor
      <4>2. /\ rows'[new[y]] \in Row /\ rows'[new[y]].event = y[1] /\ rows'[new[y]].sub = y[2]
            /\ rows'[new[y]].no = 1 /\ rows'[new[y]].of = None /\ rows'[new[y]].status = "PENDING"
        BY <3>1, <4>1 DEF Pending, Row
      <4>3. PairOf(rows'[new[y]]) = y
        BY <3>1, <4>2 DEF PairOf
      <4>4. ASSUME NEW c \in Attempts, PairOf(rows[c]) = y
            PROVE  FALSE
        <5>1. Used(c)
          BY <2>3, <2>4, <4>4, PairIsUsed
        <5>2. PICK b \in Attempts : SamePair(c, b) /\ ~Repeated(b)
          BY <2>3, <5>1 DEF RowInv, HasLeaf
        <5>3. b \in Tips(x.pairs) /\ PairOf(rows[b]) = y
          BY <2>4, <4>4, <5>2 DEF SamePair, Tips
        <5> QED
          BY <2>3, <2>4, <3>2, <5>3
      <4>5. First(new[y])
        BY <4>2, <4>3, <4>4 DEF First
      <4> QED
        BY <2>2, <2>4, <3>1, <4>2, <4>3, <4>5 DEF Added, Bounded, Open
    <3>3. CASE Previous(p, y) # {}
      <4>1. PICK b \in Previous(p, y) : rows'[new[y]] = Pending(y, rows[b].no + 1, b)
        BY <2>7, <3>3 DEF Successor
      <4>2. /\ b \in x.held /\ b \in Attempts /\ PairOf(rows[b]) = y /\ ~Repeated(b) /\ ~Open(rows[b])
        BY <2>3, <2>4, <4>1 DEF Tips
      <4>3. Used(b) /\ rows[b].no \in Nat
        BY <2>3, <2>4, <4>2, PairIsUsed DEF RowInv, Row
      <4>4. /\ rows'[new[y]] \in Row /\ rows'[new[y]].event = y[1] /\ rows'[new[y]].sub = y[2]
            /\ rows'[new[y]].no = rows[b].no + 1 /\ rows'[new[y]].of = b
            /\ rows'[new[y]].status = "PENDING"
        BY <3>1, <4>1, <4>2, <4>3 DEF Pending, Row
      <4>5. PairOf(rows'[new[y]]) = y
        BY <3>1, <4>4 DEF PairOf
      <4>6. b \notin N
        BY <2>4, <4>3
      <4>7. rows'[b] = rows[b]
        BY <2>8, <4>2, <4>6
      <4>8. After_(new[y], b)
        BY <4>2, <4>3, <4>4, <4>5, <4>7 DEF After_
      <4> QED
        BY <2>2, <2>4, <3>1, <4>2, <4>4, <4>5, <4>8 DEF Added, Bounded, Open
    <3> QED
      BY <3>2, <3>3
  <2>10. \A n \in N : \E y \in R : n = new[y]
    OBVIOUS
  <2> HIDE DEF N
  <2>11. rows' \in [Attempts -> Row]
    <3>1. \A a \in Attempts : rows'[a] \in Row
      BY <2>3, <2>8, <2>9, <2>10 DEF RowInv
    <3>2. rows' = [a \in Attempts |-> rows'[a]]
      BY <2>1
    <3> QED
      BY <3>1, <3>2
  <2>12. \A a \in Attempts \ N : Kept(a)
    BY <2>3, <2>8 DEF Kept, RowInv, RetriesBounded, Used
  <2>13. \A n, m \in N : PairOf(rows'[n]) = PairOf(rows'[m]) => n = m
    BY <2>9, <2>10
  <2>14. Grown(N)
    BY <2>2, <2>3, <2>9, <2>10, <2>11, <2>12, <2>13 DEF Grown, RowInv
  <2>15. OneEventPerKey'
    BY <2>2, <2>3 DEF OneEventPerKey
  <2>16. ASSUME NEW q \in Procs \ {p}
         PROVE  Spares(N, proc[q])
    <3>1. PICK y \in Process : y = proc[q]
      BY Placed
    <3>2. Apart(x, y)
      BY <1>3, <3>1 DEF IInv, ProcInv
    <3>3. /\ \A a \in Attempts : a \in y.held => Used(a) \/ y.put[a] # NoRow
          /\ y.event # None => Inserted(y)
      BY <3>1, Placed
    <3>4. \A a \in N : ~Used(a) /\ y.put[a] = NoRow /\ a \in Attempts
      BY <2>4, <2>10, <3>1
    <3>5. \A a \in Attempts : y.put[a] # NoRow \/ a \in y.held => a \notin N
      BY <3>3, <3>4
    <3>6. ASSUME NEW a \in y.held
          PROVE  rows'[a] = rows[a] /\ \A n \in N : rows'[n].of # a
      <4>1. a \in Attempts /\ a # None /\ a \notin x.held
        BY <3>2, DeliveryAssumption DEF Apart, Process
      <4>2. rows'[a] = rows[a]
        BY <2>8, <3>5, <4>1
      <4> QED
        BY <2>9, <2>10, <4>1, <4>2
    <3>7. \A n \in N : rows'[n].event \notin y.locked
      BY <2>4, <2>9, <2>10, <3>2 DEF Apart
    <3>8. y.event # None => events'[y.event] = events[y.event] /\ \A e \in Events : events'[e] # y.key
      BY <2>2, <3>3 DEF Inserted
    <3> QED
      BY <3>1, <3>5, <3>6, <3>7, <3>8 DEF Spares
  <2>17. Settles(N)
    BY <2>8, <2>9, <2>10, <2>14 DEF Settles
  <2> QED
    BY <2>2, <2>6, <2>14, <2>15, <2>16, <2>17, Commits DEF SomethingSettles
<1> QED
  BY <1>4, <1>5

-----------------------------------------------------------------------------
(* The theorems.                                                            *)

\* The invariant holds when no event has been published.
LEMMA InitHolds == ASSUME Init PROVE IInv
<1>1. /\ \A e \in Events : events[e] = None
      /\ \A a \in Attempts : rows[a] = NoRow
      /\ \A p \in Procs : proc[p] = NoProc
      /\ received = {} /\ crashes = 0
  BY DEF Init
<1>2. NoRow \in Row /\ NoRow.of = None /\ NoRow.no = 0 /\ NoRow.status = "NONE"
  BY DEF NoRow, Row
<1>3. \A a \in Attempts : a # None
  BY DeliveryAssumption
<1>4. events \in [Events -> Keys \cup {None}] /\ rows \in [Attempts -> Row]
  BY <1>2 DEF Init
<1>5. RowInv
  BY <1>1, <1>2, <1>3, <1>4 DEF RowInv, Rooted, Numbered, Linked, LeafIsLast, HasLeaf, OpenIsLeaf,
     RetriesBounded, Used, Open, Bounded, Repeated
<1>6. Rest(NoProc)
  BY DEF Rest
<1>7. ProcInv
  <2>1. NoProc \in Process /\ Shape(NoProc) /\ Apart(NoProc, NoProc)
    BY <1>6, Rests
  <2>2. proc = [p \in Procs |-> NoProc]
    BY DEF Init
  <2>3. proc \in [Procs -> Process]
    BY <2>1, <2>2
  <2> QED
    BY <1>1, <2>1, <2>3 DEF ProcInv
<1>8. OneEventPerKey
  BY <1>1 DEF OneEventPerKey
<1>9. received \in SUBSET Pairs /\ crashes \in 0 .. MaxCrashes
  BY <1>1, DeliveryAssumption
<1> QED
  BY <1>5, <1>7, <1>8, <1>9 DEF IInv

\* A step that changes nothing keeps the invariant.
LEMMA StutterKeeps == ASSUME IInv, UNCHANGED vars PROVE IInv'
<1>1. events' = events /\ rows' = rows /\ proc' = proc /\ received' = received /\ crashes' = crashes
  BY DEF vars
<1>2. RowInv'
  BY <1>1 DEF IInv, RowInv, Rooted, Numbered, Linked, LeafIsLast, HasLeaf, OpenIsLeaf, RetriesBounded,
     Used, SamePair, Repeated
<1>3. ProcInv'
  BY <1>1 DEF IInv, ProcInv, Shape, Rest, Publishing, Inserted, Sending, Resending, Repeating,
     Continues, Replaying, Tips, Repeated, Used, Apart
<1> QED
  BY <1>1, <1>2, <1>3 DEF IInv, OneEventPerKey

\* Every step keeps the invariant.
LEMMA NextKeeps == ASSUME IInv, [Next]_vars PROVE IInv'
<1>1. ASSUME NEW p \in Procs, Request(p)
      PROVE  IInv'
  BY <1>1, PublishKeeps, ManualRetryKeeps, ReplayKeeps DEF Request
<1>2. ASSUME NEW p \in Procs, Work(p)
      PROVE  IInv'
  BY <1>2, InsertEventKeeps, CommitEventKeeps, ClaimPendingKeeps, ClaimRetryKeeps, SpawnKeeps,
     CallKeeps, CommitSendKeeps, LockEventKeeps, ReadLeavesKeeps, LockLeafKeeps, CommitReplayKeeps,
     EndKeeps DEF Work
<1>3. ASSUME NEW p \in Procs, Crash(p)
      PROVE  IInv'
  BY <1>3, EndKeeps
<1> QED
  BY <1>1, <1>2, <1>3, StutterKeeps DEF Next

\* What is said of the attempts and of the transactions above holds always:
\* webhook_dispatcher.py, webhook_service.py and the requests keep it together.
THEOREM InductiveInvariant == Spec => []IInv
<1>1. Init => IInv
  BY InitHolds
<1>2. IInv /\ [Next]_vars => IInv'
  BY NextKeeps
<1> QED
  BY <1>1, <1>2, PTL DEF Spec

\* Every variable stays within its type, and no retry is scheduled past
\* max_retries, however the transactions meet.
THEOREM DeliveryTypeCorrect == Spec => []TypeOK
<1>1. IInv => TypeOK
  BY DEF IInv, RowInv, ProcInv, RetriesBounded, Bounded, TypeOK
<1> QED
  BY <1>1, InductiveInvariant, PTL

\* Publishing with an idempotency key leaves one event, also when two
\* requests with it meet.
THEOREM KeysAreHonoured == Spec => []OneEventPerKey
<1>1. IInv => OneEventPerKey
  BY DEF IInv
<1> QED
  BY <1>1, InductiveInvariant, PTL

\* The attempts of a delivery form one chain, whatever dispatchers, replays
\* and retries by hand do to it at the same time.
THEOREM ChainsNeverBranch == Spec => []OneChain
<1>1. IInv => OneChain
  BY DEF IInv, RowInv, Numbered, Linked, Used, SamePair, OneChain
<1> QED
  BY <1>1, InductiveInvariant, PTL

\* Only the last attempt of a delivery is due to be sent, so that no batch of
\* retries fails at an attempt that has been repeated.
THEOREM OnlyTheLastIsOpen == Spec => []OpenIsLast
<1>1. ASSUME IInv
      PROVE  OpenIsLast
  <2>1. \A a \in Attempts : Open(rows[a]) => Used(a) /\ ~Repeated(a)
    BY <1>1, UsedHasEvent DEF IInv, RowInv, OpenIsLeaf
  <2> QED
    BY <1>1, <2>1 DEF IInv, RowInv, LeafIsLast, SamePair, OpenIsLast
<1> QED
  BY <1>1, InductiveInvariant, PTL

\* No delivery is being sent by two processes at a time.
THEOREM SendersExclude == Spec => []OneSenderAtATime
<1>1. ASSUME IInv, NEW p \in Procs, NEW q \in Procs, p # q, proc[p].pc = "send", proc[q].pc = "send",
             NEW x \in Sends(p) \cap Sends(q)
      PROVE  FALSE
  <2>1. PICK a \in proc[p].held : rows[a] # NoRow /\ PairOf(rows[a]) = x
    BY <1>1 DEF Sends
  <2>2. PICK b \in proc[q].held : rows[b] # NoRow /\ PairOf(rows[b]) = x
    BY <1>1 DEF Sends
  <2>3. /\ proc[p] \in Process /\ Sending(proc[p]) /\ proc[q] \in Process /\ Sending(proc[q])
    BY <1>1, AtSend
  <2>4. /\ a \in Attempts /\ b \in Attempts /\ Used(a) /\ Used(b)
        /\ ~Repeated(a) /\ ~Repeated(b) /\ SamePair(a, b)
    BY <2>1, <2>2, <2>3 DEF Process, Sending, Resending, Used, SamePair
  <2>5. rows[a].no <= rows[b].no /\ rows[b].no <= rows[a].no
    BY <1>1, <2>4 DEF IInv, RowInv, LeafIsLast, SamePair
  <2>6. rows[a].no \in Nat /\ rows[b].no \in Nat
    BY <1>1, <2>4 DEF IInv, RowInv, Row
  <2>7. a = b
    BY <1>1, <2>4, <2>5, <2>6 DEF IInv, RowInv, Numbered
  <2>8. Apart(proc[p], proc[q])
    BY <1>1 DEF IInv, ProcInv
  <2> QED
    BY <2>1, <2>2, <2>7, <2>8 DEF Apart
<1>2. IInv => OneSenderAtATime
  BY <1>1 DEF OneSenderAtATime
<1> QED
  BY <1>2, InductiveInvariant, PTL
-----------------------------------------------------------------------------
(* The promises of Outbox, but for their liveness.                          *)

\* A transaction that makes no call records nothing new as sent.
LEMMA SentStays ==
    ASSUME IInv, SentReceived, received' = received,
           \A q \in Procs, a \in Attempts :
              proc'[q].put[a] = proc[q].put[a] \/ proc'[q].put[a].status # "SENT"
    PROVE  SentReceived'
<1> QED
  BY DEF SentReceived

LEMMA SentStaysMove ==
    ASSUME IInv, SentReceived, NEW p \in Procs, NEW x,
           proc' = [proc EXCEPT ![p] = x], received' = received,
           \A a \in Attempts : x.put[a] = proc[p].put[a] \/ x.put[a].status # "SENT"
    PROVE  SentReceived'
<1>1. \A q \in Procs : proc'[q] = IF q = p THEN x ELSE proc[q]
  BY DEF IInv, ProcInv
<1> QED
  BY <1>1, SentStays

LEMMA SentStaysEnd ==
    ASSUME IInv, SentReceived, NEW p \in Procs, received' = received,
           proc' = [proc EXCEPT ![p] = After(p)] \/ proc' = [proc EXCEPT ![p] = AfterError(p)]
    PROVE  SentReceived'
<1>1. /\ \A a \in Attempts : After(p).put[a].status # "SENT"
      /\ \A a \in Attempts : AfterError(p).put[a].status # "SENT"
  BY DEF After, AfterError, NoProc, NoRow
<1> QED
  BY <1>1, SentStaysMove

\* A step of a transaction that writes nothing.
LEMMA SentStaysRead ==
    ASSUME IInv, SentReceived, NEW p \in Procs, NEW x, Move(p, x),
           x.put = NoProc.put \/ x.put = proc[p].put
    PROVE  SentReceived' /\ UNCHANGED <<rows, received>>
<1>1. \A a \in Attempts : NoProc.put[a].status # "SENT"
  BY DEF NoProc, NoRow
<1>2. \A a \in Attempts : x.put[a] = proc[p].put[a] \/ x.put[a].status # "SENT"
  BY <1>1
<1>3. /\ proc' = [proc EXCEPT ![p] = x]
      /\ rows' = rows /\ received' = received
  BY DEF Move
<1> QED
  BY <1>2, <1>3, SentStaysMove

\* A step that begins a transaction.
LEMMA SentStaysRequest ==
    ASSUME IInv, SentReceived, NEW p \in Procs, Request(p)
    PROVE  SentReceived' /\ UNCHANGED <<rows, received>>
<1>2. CASE Publish(p)
  <2>1. PICK k \in Keys :
          Move(p, IF \E e \in Events : events[e] = k THEN After(p)
                  ELSE [NoProc EXCEPT !.op = "publish", !.pc = "insert", !.key = k])
    BY <1>2 DEF Publish
  <2>2. [NoProc EXCEPT !.op = "publish", !.pc = "insert", !.key = k].put = NoProc.put
    BY DEF NoProc
  <2>3. CASE \E e \in Events : events[e] = k
    BY <2>1, <2>3, SentStaysEnd DEF Move
  <2>4. CASE ~\E e \in Events : events[e] = k
    BY <2>1, <2>2, <2>4, SentStaysRead
  <2> QED
    BY <2>3, <2>4, <2>1 DEF Move
<1>3. CASE ManualRetry(p)
  <2>1. PICK a \in Attempts :
          Move(p, IF rows[a].status \notin {"FAILED", "DEAD_LETTER"} \/ Repeated(a) THEN After(p)
                  ELSE [NoProc EXCEPT !.op = "manual", !.pc = "send", !.held = {a}, !.todo = {a}])
    BY <1>3 DEF ManualRetry
  <2>2. [NoProc EXCEPT !.op = "manual", !.pc = "send", !.held = {a}, !.todo = {a}].put = NoProc.put
    BY DEF NoProc
  <2>3. CASE rows[a].status \notin {"FAILED", "DEAD_LETTER"} \/ Repeated(a)
    BY <2>1, <2>3, SentStaysEnd DEF Move
  <2>4. CASE ~(rows[a].status \notin {"FAILED", "DEAD_LETTER"} \/ Repeated(a))
    BY <2>1, <2>2, <2>4, SentStaysRead
  <2> QED
    BY <2>3, <2>4, <2>1 DEF Move
<1>4. CASE Replay(p)
  <2>1. PICK P \in SUBSET {y \in Pairs : events[y[1]] # None} :
          Move(p, [NoProc EXCEPT !.op = "replay", !.pc = "events", !.pairs = P,
                                 !.want = {y[1] : y \in P}])
    BY <1>4 DEF Replay
  <2>2. [NoProc EXCEPT !.op = "replay", !.pc = "events", !.pairs = P,
                       !.want = {y[1] : y \in P}].put = NoProc.put
    BY DEF NoProc
  <2> QED
    BY <2>1, <2>2, SentStaysRead
<1> QED
  BY <1>2, <1>3, <1>4 DEF Request

\* A step of a transaction before its commit, its calls apart.
LEMMA SentStaysWork ==
    ASSUME IInv, SentReceived, NEW p \in Procs,
           \/ InsertEvent(p) \/ ClaimPending(p) \/ ClaimRetry(p) \/ Spawn(p)
           \/ LockEvent(p) \/ ReadLeaves(p) \/ LockLeaf(p) \/ Fail(p) \/ Crash(p)
    PROVE  SentReceived' /\ UNCHANGED <<rows, received>>
<1>1. PICK z \in Process : z = proc[p]
  BY DEF IInv, ProcInv
<1>3. CASE InsertEvent(p)
  <2>1. CASE ~Won(p)
    BY <1>3, <2>1, SentStaysEnd DEF InsertEvent, Leave, Move
  <2>2. CASE Won(p)
    <3>1. PICK e \in Events, S \in SUBSET Subs : \E new \in Fresh(S) :
             Move(p, [proc[p] EXCEPT !.pc = "commit", !.event = e,
                 !.put = [a \in Attempts |->
                            IF \E s \in S : new[s] = a
                            THEN Pending(<<e, CHOOSE s \in S : new[s] = a>>, 1, None)
                            ELSE NoRow]])
      BY <1>3, <2>2 DEF InsertEvent
    <3>2. PICK new \in Fresh(S) :
             Move(p, [proc[p] EXCEPT !.pc = "commit", !.event = e,
                 !.put = [a \in Attempts |->
                            IF \E s \in S : new[s] = a
                            THEN Pending(<<e, CHOOSE s \in S : new[s] = a>>, 1, None)
                            ELSE NoRow]])
      BY <3>1
    <3> DEFINE w == [a \in Attempts |->
                            IF \E s \in S : new[s] = a
                            THEN Pending(<<e, CHOOSE s \in S : new[s] = a>>, 1, None)
                            ELSE NoRow]
               x == [z EXCEPT !.pc = "commit", !.event = e, !.put = w]
    <3>3. \A a \in Attempts : w[a].status # "SENT"
      BY DEF Pending, NoRow
    <3>4. Move(p, x)
      BY <1>1, <3>2
    <3> HIDE DEF w
    <3>5. x.put = w
      BY DEF Process
    <3> HIDE DEF x
    <3>6. /\ proc' = [proc EXCEPT ![p] = x]
          /\ rows' = rows /\ received' = received
      BY <3>4 DEF Move
    <3>7. \A a \in Attempts : x.put[a].status # "SENT"
      BY <3>3, <3>5
    <3> QED
      BY <3>6, <3>7, SentStaysMove
  <2> QED
    BY <2>1, <2>2
<1>4. CASE ClaimPending(p)
  <2>1. PICK S : Move(p, [NoProc EXCEPT !.op = "pending", !.pc = "send", !.held = S, !.call = S])
    BY <1>4 DEF ClaimPending
  <2>2. [NoProc EXCEPT !.op = "pending", !.pc = "send", !.held = S, !.call = S].put = NoProc.put
    BY DEF NoProc
  <2> QED
    BY <2>1, <2>2, SentStaysRead
<1>5. CASE ClaimRetry(p)
  <2>1. PICK S : Move(p, [NoProc EXCEPT !.op = "retry", !.pc = "send", !.held = S, !.todo = S])
    BY <1>5 DEF ClaimRetry
  <2>2. [NoProc EXCEPT !.op = "retry", !.pc = "send", !.held = S, !.todo = S].put = NoProc.put
    BY DEF NoProc
  <2> QED
    BY <2>1, <2>2, SentStaysRead
<1>6. CASE Spawn(p)
  <2>1. CASE Fail(p)
    BY <2>1, SentStaysEnd DEF Fail, Move
  <2>2. CASE ~Fail(p)
    <3>1. PICK a \in z.todo : \E new \in Fresh({a}) :
            Move(p, [z EXCEPT
                !.todo = @ \ {a}, !.call = {new[a]}, !.held = @ \cup {new[a]},
                !.shared = @ \cup {rows[a].event},
                !.put = [z.put EXCEPT
                            ![new[a]] = Pending(PairOf(rows[a]), rows[a].no + 1, a),
                            ![a] = IF z.op = "retry"
                                   THEN [rows[a] EXCEPT !.status = "FAILED"] ELSE z.put[a]]])
      BY <1>1, <1>6, <2>2 DEF Spawn
    <3>2. PICK new \in Fresh({a}) :
            Move(p, [z EXCEPT
                !.todo = @ \ {a}, !.call = {new[a]}, !.held = @ \cup {new[a]},
                !.shared = @ \cup {rows[a].event},
                !.put = [z.put EXCEPT
                            ![new[a]] = Pending(PairOf(rows[a]), rows[a].no + 1, a),
                            ![a] = IF z.op = "retry"
                                   THEN [rows[a] EXCEPT !.status = "FAILED"] ELSE z.put[a]]])
      BY <3>1
    <3> DEFINE w == [z.put EXCEPT
                            ![new[a]] = Pending(PairOf(rows[a]), rows[a].no + 1, a),
                            ![a] = IF z.op = "retry"
                                   THEN [rows[a] EXCEPT !.status = "FAILED"] ELSE z.put[a]]
               x == [z EXCEPT !.todo = @ \ {a}, !.call = {new[a]}, !.held = @ \cup {new[a]},
                              !.shared = @ \cup {rows[a].event}, !.put = w]
    <3>3. rows[a] \in Row /\ a \in Attempts
      BY <1>1 DEF IInv, RowInv, Process
    <3>4. [rows[a] EXCEPT !.status = "FAILED"].status = "FAILED"
      BY <3>3 DEF Row
    <3>5. \A c \in Attempts : w[c] = z.put[c] \/ w[c].status # "SENT"
      BY <1>1, <3>4 DEF Pending, Process
    <3>6. Move(p, x)
      BY <3>2
    <3> HIDE DEF w
    <3>7. x.put = w
      BY DEF Process
    <3> HIDE DEF x
    <3>8. /\ proc' = [proc EXCEPT ![p] = x]
          /\ rows' = rows /\ received' = received
      BY <3>6 DEF Move
    <3>9. \A c \in Attempts : x.put[c] = proc[p].put[c] \/ x.put[c].status # "SENT"
      BY <1>1, <3>5, <3>7
    <3> QED
      BY <3>8, <3>9, SentStaysMove
  <2> QED
    BY <2>1, <2>2
<1>7. CASE LockEvent(p)
  <2>1. PICK e : Move(p, [z EXCEPT !.want = @ \ {e}, !.locked = @ \cup {e}])
    BY <1>1, <1>7 DEF LockEvent
  <2>2. [z EXCEPT !.want = @ \ {e}, !.locked = @ \cup {e}].put = z.put
    BY DEF Process
  <2> QED
    BY <1>1, <2>1, <2>2, SentStaysRead
<1>8. CASE ReadLeaves(p)
  <2>1. Move(p, [z EXCEPT !.pc = "rows", !.todo = Leaves(z.pairs)])
    BY <1>1, <1>8 DEF ReadLeaves
  <2>2. [z EXCEPT !.pc = "rows", !.todo = Leaves(z.pairs)].put = z.put
    BY DEF Process
  <2> QED
    BY <1>1, <2>1, <2>2, SentStaysRead
<1>9. CASE LockLeaf(p)
  <2>1. PICK a : Move(p, [z EXCEPT !.todo = @ \ {a}, !.held = @ \cup {a}])
    BY <1>1, <1>9 DEF LockLeaf
  <2>2. [z EXCEPT !.todo = @ \ {a}, !.held = @ \cup {a}].put = z.put
    BY DEF Process
  <2> QED
    BY <1>1, <2>1, <2>2, SentStaysRead
<1>10. CASE Fail(p) \/ Crash(p)
  BY <1>10, SentStaysEnd DEF Fail, Move, Crash
<1> QED
  BY <1>3, <1>4, <1>5, <1>6, <1>7, <1>8, <1>9, <1>10

\* What a step is, seen from outside: a call, a commit, or nothing.
LEMMA Outside ==
    ASSUME IInv, SentReceived, [Next]_vars
    PROVE  /\ SentReceived'
           /\ \/ UNCHANGED <<rows, received>>
              \/ rows' = rows /\ \E y : Calls(y)
              \/ SomethingSettles
<1>1. CASE UNCHANGED vars
  BY <1>1 DEF vars, SentReceived
<1>2. ASSUME NEW p \in Procs, Request(p)
      PROVE  SentReceived' /\ UNCHANGED <<rows, received>>
  BY <1>2, SentStaysRequest
<1>3. ASSUME NEW p \in Procs,
             \/ InsertEvent(p) \/ ClaimPending(p) \/ ClaimRetry(p) \/ Spawn(p)
             \/ LockEvent(p) \/ ReadLeaves(p) \/ LockLeaf(p) \/ Victim(p) \/ Crash(p)
      PROVE  SentReceived' /\ UNCHANGED <<rows, received>>
  BY <1>3, SentStaysWork DEF Victim
<1>4. ASSUME NEW p \in Procs, Call(p)
      PROVE  SentReceived' /\ rows' = rows /\ \E y : Calls(y)
  BY <1>4, CallKeeps DEF Calls, SentReceived
<1>5. ASSUME NEW p \in Procs, CommitEvent(p) \/ CommitSend(p)
      PROVE  SentReceived' /\ SomethingSettles
  <2>1. SentReceived'
    BY <1>5, SentStaysEnd DEF CommitEvent, CommitSend, Write
  <2>2. SomethingSettles
    BY <1>5, CommitEventKeeps, CommitSendKeeps
  <2> QED
    BY <2>1, <2>2
<1>6. ASSUME NEW p \in Procs, CommitReplay(p)
      PROVE  SentReceived' /\ (SomethingSettles \/ UNCHANGED <<rows, received>>)
  <2>1. CASE Fail(p)
    BY <2>1, SentStaysWork
  <2>2. CASE ~Fail(p)
    <3>1. SentReceived'
      BY <1>6, <2>2, SentStaysEnd DEF CommitReplay
    <3> QED
      BY <1>6, <2>2, <3>1, CommitReplayKeeps
  <2> QED
    BY <2>1, <2>2
<1>7. CASE Next
  <2>1. PICK p \in Procs : Request(p) \/ Work(p) \/ Crash(p)
    BY <1>7 DEF Next
  <2> QED
    BY <1>2, <1>3, <1>4, <1>5, <1>6, <2>1 DEF Work
<1> QED
  BY <1>1, <1>7

\* What the last attempt of a delivery says of it.
Settled(row) == IF Open(row) THEN "owed" ELSE IF row.status = "SENT" THEN "done" ELSE "lost"

DutyIsOfTheLast ==
    /\ Duty \in [Pairs -> {"none", "owed", "done", "lost"}]
    /\ \A a \in Attempts : Used(a) /\ ~Repeated(a) => Duty[PairOf(rows[a])] = Settled(rows[a])
    /\ \A y \in Pairs : Duty[y] = "none" <=> \A a \in Attempts : PairOf(rows[a]) # y

LEMMA DutyNow == RowInv => DutyIsOfTheLast
<1> SUFFICES ASSUME RowInv PROVE DutyIsOfTheLast
  OBVIOUS
<1>1. Duty \in [Pairs -> {"none", "owed", "done", "lost"}]
  BY DEF Duty
<1>2. ASSUME NEW a \in Attempts, Used(a), ~Repeated(a)
      PROVE  Duty[PairOf(rows[a])] = Settled(rows[a])
  <2> DEFINE y == PairOf(rows[a])
             c == Last(y)
  <2>1. y \in Pairs /\ a \in Of(y)
    BY <1>2, UsedHasEvent DEF Of
  <2>2. \A b \in Of(y) : rows[b].no <= rows[a].no
    BY <1>2 DEF RowInv, LeafIsLast, SamePair, Of
  <2>3. c \in Of(y) /\ \A b \in Of(y) : rows[b].no <= rows[c].no
    BY <2>1, <2>2 DEF Last
  <2> HIDE DEF c
  <2>4. c \in Attempts /\ SamePair(a, c)
    BY <2>3 DEF Of, SamePair
  <2>5. rows[a].no = rows[c].no
    BY <2>1, <2>2, <2>3, <2>4 DEF RowInv, Row
  <2>6. a = c
    BY <1>2, <2>4, <2>5 DEF RowInv, Numbered
  <2>7. Duty[y] = IF Of(y) = {} THEN "none"
                  ELSE IF Open(rows[c]) THEN "owed"
                  ELSE IF rows[c].status = "SENT" THEN "done" ELSE "lost"
    BY <2>1 DEF Duty, c
  <2> QED
    BY <2>1, <2>6, <2>7 DEF Settled
<1>3. ASSUME NEW y \in Pairs
      PROVE  Duty[y] = "none" <=> \A a \in Attempts : PairOf(rows[a]) # y
  BY DEF Duty, Of
<1> QED
  BY <1>1, <1>2, <1>3 DEF DutyIsOfTheLast

\* The same of the state after a step.
LEMMA DutyThen == RowInv' => DutyIsOfTheLast'
<1> QED
  BY DutyNow, PTL

\* A commit settles deliveries or makes them owed, first or again.
LEMMA CommitsSettle ==
    ASSUME IInv, IInv', SomethingSettles
    PROVE  Promised!Commit
<1>1. PICK N \in SUBSET Attempts : Settles(N)
  BY DEF SomethingSettles
<1>2. DutyIsOfTheLast /\ DutyIsOfTheLast' /\ RowInv /\ RowInv'
  BY DutyNow, DutyThen DEF IInv
<1>3. Grown(N) /\ None \notin Attempts
  BY <1>1, DeliveryAssumption DEF Settles
<1>4. \A a \in Attempts \ N : PairOf(rows'[a]) = PairOf(rows[a]) /\ rows'[a].of = rows[a].of
  BY <1>3 DEF Grown, Kept, PairOf
<1>5. ASSUME NEW a \in Attempts, Used(a)
      PROVE  a \notin N
  BY <1>3, <1>5 DEF Grown, Added
<1>6. ASSUME NEW y \in Pairs, Duty'[y] # Duty[y]
      PROVE  /\ Duty'[y] # "none"
             /\ Duty'[y] = "done" => Duty[y] \in {"owed", "lost"} /\ y \in received
             /\ Duty'[y] = "lost" => Duty[y] = "owed"
  <2>1. \E a \in Attempts : PairOf(rows'[a]) = y
    <3> SUFFICES ASSUME \A a \in Attempts : PairOf(rows'[a]) # y
                 PROVE  FALSE
      OBVIOUS
    <3>1. Duty'[y] = "none"
      BY <1>2 DEF DutyIsOfTheLast
    <3>2. PICK a \in Attempts : PairOf(rows[a]) = y
      BY <1>2, <1>6, <3>1 DEF DutyIsOfTheLast
    <3>3. Used(a)
      BY <1>2, <3>2, PairIsUsed
    <3> QED
      BY <1>4, <1>5, <3>2, <3>3
  <2>2. PICK a \in Attempts : /\ PairOf(rows'[a]) = y /\ rows'[a] # NoRow
                              /\ ~\E c \in Attempts : rows'[c].of = a
    <3>1. PICK c \in Attempts : PairOf(rows'[c]) = y
      BY <2>1
    <3>2. rows'[c] # NoRow
      BY <3>1, DeliveryAssumption DEF NoRow, PairOf, Pairs
    <3>3. PICK a \in Attempts : PairOf(rows'[c]) = PairOf(rows'[a]) /\ ~\E d \in Attempts : rows'[d].of = a
      BY <1>2, <3>2 DEF RowInv, HasLeaf, Used, SamePair, Repeated
    <3>4. rows'[a] # NoRow
      BY <3>1, <3>3, DeliveryAssumption DEF NoRow, PairOf, Pairs
    <3> QED
      BY <3>1, <3>3, <3>4
  <2>3. Duty'[y] = Settled(rows'[a])
    BY <1>2, <2>2 DEF DutyIsOfTheLast, Used, Repeated, Settled, Open, PairOf
  <2>4. CASE a \notin N
    <3>1. PairOf(rows[a]) = y
      BY <1>4, <2>2, <2>4
    <3>2. Used(a)
      BY <1>2, <3>1, PairIsUsed
    <3>3. ~Repeated(a)
      <4> SUFFICES ASSUME NEW c \in Attempts, rows[c].of = a
                   PROVE  FALSE
        BY DEF Repeated
      <4>1. Used(c)
        BY <1>3 DEF Used, NoRow
      <4> QED
        BY <1>4, <1>5, <2>2, <4>1
    <3>4. Duty[y] = Settled(rows[a])
      BY <1>2, <3>1, <3>2, <3>3 DEF DutyIsOfTheLast
    <3>5. rows'[a] # rows[a]
      BY <1>6, <2>3, <3>4
    <3>6. Open(rows[a]) /\ (rows'[a].status = "SENT" => y \in received)
      BY <1>1, <2>4, <3>1, <3>5 DEF Settles
    <3> QED
      BY <2>3, <3>4, <3>6 DEF Settled
  <2>5. CASE a \in N /\ Open(rows'[a])
    BY <2>3, <2>5 DEF Settled
  <2>6. CASE a \in N /\ ~Open(rows'[a])
    <3>1. /\ rows'[a].status = "SENT" => y \in received
          /\ \E b : After_(a, b) /\ rows[b].status # "SENT"
      BY <1>1, <2>2, <2>6 DEF Settles
    <3>2. PICK b : After_(a, b) /\ rows[b].status # "SENT"
      BY <3>1
    <3>3. b \in Attempts /\ Used(b) /\ ~Repeated(b) /\ PairOf(rows[b]) = y
      BY <2>2, <3>2 DEF After_
    <3>4. Duty[y] = Settled(rows[b])
      BY <1>2, <3>3 DEF DutyIsOfTheLast
    <3> QED
      BY <1>6, <2>3, <2>6, <3>1, <3>2, <3>4 DEF Settled
  <2> QED
    BY <2>4, <2>5, <2>6
<1>7. Duty' \in [Pairs -> {"none", "owed", "done", "lost"}]
  BY <1>2 DEF DutyIsOfTheLast
<1> QED
  BY <1>6, <1>7 DEF Promised!Commit, SomethingSettles

\* Seen from outside, every step is one of the outbox.
LEMMA OutboxNext ==
    ASSUME IInv, IInv', SentReceived, [Next]_vars
    PROVE  [Promised!Next]_(Promised!outbox)
<1>1. rows' = rows => Duty' = Duty
  BY DEF Duty, Of, Last, Open, PairOf
<1>2. CASE UNCHANGED <<rows, received>>
  BY <1>1, <1>2 DEF Promised!outbox
<1>3. CASE rows' = rows /\ \E y : Calls(y)
  <2>1. PICK y : Calls(y)
    BY <1>3
  <2>2. y \in Pairs /\ Duty[y] # "none"
    BY <2>1, DutyNow DEF Calls, DutyIsOfTheLast, IInv
  <2> QED
    BY <1>1, <1>3, <2>1, <2>2 DEF Calls, Promised!Next, Promised!Receive, Promised!outbox
<1>4. CASE SomethingSettles
  BY <1>4, CommitsSettle DEF Promised!Next
<1> QED
  BY <1>2, <1>3, <1>4, Outside

\* Nothing is sent before the commit of its event, nothing counts as delivered
\* that was not received, and what is owed stays owed until it is settled:
\* but for the liveness, the attempts implement Outbox, through crashes, lost
\* answers and any number of dispatchers.
THEOREM PromisesAreKept == Spec => Promised!Init /\ [][Promised!Next]_(Promised!outbox)
<1>1. Init => SentReceived
  BY DEF Init, SentReceived, NoProc, NoRow
<1>2. IInv /\ SentReceived /\ [Next]_vars => SentReceived'
  BY Outside
<1>3. ASSUME Init
      PROVE  Promised!Init
  <2>1. RowInv
    BY <1>3, InitHolds DEF IInv
  <2>2. \A a \in Attempts : rows[a].event = None
    BY <1>3 DEF Init, NoRow
  <2>3. ASSUME NEW y \in Pairs
        PROVE  Of(y) = {}
    <3>1. y[1] \in Events /\ None \notin Events
      BY DeliveryAssumption DEF Pairs
    <3>2. \A a \in Attempts : PairOf(rows[a]) # y
      BY <2>2, <3>1 DEF PairOf
    <3> QED
      BY <3>2 DEF Of
  <2>4. Duty = [y \in Pairs |-> "none"]
    BY <2>3 DEF Duty
  <2> QED
    BY <1>3, <2>4 DEF Init, Promised!Init
<1>4. IInv /\ IInv' /\ SentReceived /\ [Next]_vars => [Promised!Next]_(Promised!outbox)
  BY OutboxNext
<1> QED
  BY <1>1, <1>2, <1>3, <1>4, InductiveInvariant, PTL DEF Spec

-----------------------------------------------------------------------------
(* Waiting for locks. A transaction that cannot take its next step waits   *)
(* for another one; the database finds every circle of such waits.         *)

UnderWay(p) == proc[p].op \notin {"idle", "done"}

\* The next step of the transaction of p finds the locks and the identifiers
\* that it needs.
InsertsOrLeaves(p) ==
    /\ proc[p].pc = "insert" /\ Arbitrated(p)
    /\ Won(p) => \E e \in Events : events[e] = None /\ \A q \in Procs : proc[q].event # e
RepeatsOrFails(p) ==
    /\ proc[p].pc = "send" /\ proc[p].call = {}
    /\ \E a \in proc[p].todo : EventFree(p, rows[a].event) /\ (Repeated(a) \/ Fresh({a}) # {})
SendsOrCommits(p) ==
    \/ proc[p].pc = "commit"
    \/ proc[p].pc = "send" /\ (proc[p].call # {} \/ proc[p].todo = {})
LocksOrReads(p) ==
    /\ proc[p].pc = "events"
    /\ \/ proc[p].want = {}
       \/ \E e \in proc[p].want : EventFor(p, e) /\ \A f \in proc[p].want : e <= f
LocksOrReplays(p) ==
    /\ proc[p].pc = "rows"
    /\ \/ \E a \in proc[p].todo : a \notin HeldByOthers(p)
       \/ /\ proc[p].todo = {}
          /\ \/ Fresh(Replayed(p)) # {}
             \/ \E x \in Replayed(p) : \E a \in Previous(p, x) : Repeated(a)
GoesOn(p) ==
    \/ InsertsOrLeaves(p) \/ RepeatsOrFails(p) \/ SendsOrCommits(p)
    \/ LocksOrReads(p) \/ LocksOrReplays(p)

\* The bounds of the model, the identifiers of events and attempts, are not
\* used up.
EnoughLeft ==
    /\ \E e \in Events : events[e] = None /\ \A q \in Procs : proc[q].event # e
    /\ \A a \in Attempts : Fresh({a}) # {}
    /\ \A p \in Procs : Fresh(Replayed(p)) # {}

\* While a transaction is under way, one of them can go on, or the database
\* finds a circle of waits and ends one of its members.
NobodyStuck ==
    EnoughLeft /\ (\E p \in Procs : UnderWay(p)) =>
        \/ \E p \in Procs : UnderWay(p) /\ GoesOn(p)
        \/ \E S \in SUBSET Procs : S # {} /\ Circle(S)

\* Of natural numbers one is the least.
LEMMA Least ==
    ASSUME NEW S \in SUBSET Nat, S # {}
    PROVE  \E e \in S : \A f \in S : e <= f
<1>1. PICK n \in S : TRUE
  OBVIOUS
<1> DEFINE Upto(m) == {k \in 0 .. n : k <= m}
           T == {Upto(m) : m \in {k \in S : k <= n}}
<1>2. IsFiniteSet(0 .. n)
  BY FS_Interval
<1>3. \A m \in Nat : IsFiniteSet(Upto(m)) /\ Upto(m) \in SUBSET (0 .. n)
  BY <1>2, FS_Subset
<1>4. T \subseteq FiniteSubsetsOf(0 .. n) /\ T # {}
  <2>1. n \in {k \in S : k <= n}
    BY <1>1
  <2>2. \A m \in {k \in S : k <= n} : Upto(m) \in FiniteSubsetsOf(0 .. n)
    BY <1>3 DEF FiniteSubsetsOf
  <2> QED
    BY <2>1, <2>2
<1>5. PICK x \in T : \A y \in T : ~(<<y, x>> \in StrictSubsetOrdering(0 .. n))
  BY <1>4, FS_StrictSubsetOrderingWellFounded, WFMin
<1>6. PICK m \in S : m <= n /\ x = Upto(m)
  OBVIOUS
<1>7. ASSUME NEW f \in S, ~(m <= f)
      PROVE  FALSE
  <2>1. f <= n /\ f < m /\ f \in Nat /\ m \in Nat
    BY <1>1, <1>6, <1>7
  <2>2. Upto(f) \subseteq Upto(m) /\ m \in Upto(m) /\ m \notin Upto(f)
    BY <1>6, <2>1
  <2>3. Upto(f) \in T /\ Upto(f) \in SUBSET (0 .. n) /\ Upto(m) \in SUBSET (0 .. n)
    BY <1>3, <2>1
  <2> HIDE DEF Upto, T
  <2>4. <<Upto(f), Upto(m)>> \in StrictSubsetOrdering(0 .. n)
    BY <2>2, <2>3 DEF StrictSubsetOrdering
  <2> QED
    BY <1>5, <1>6, <2>3, <2>4
<1> QED
  BY <1>7

\* Where everybody waits for another one, some wait in a circle.
LEMMA CircleExists ==
    ASSUME NEW P \in SUBSET Procs, IsFiniteSet(P), P # {},
           \A p \in P : \E q \in P \ {p} : Waits(p, q)
    PROVE  \E S \in SUBSET Procs : S # {} /\ Circle(S)
<1> DEFINE T == {S \in SUBSET P : S # {} /\ \A p \in S : \E q \in S \ {p} : Waits(p, q)}
<1>1. T \subseteq FiniteSubsetsOf(P) /\ P \in T
  BY FS_FiniteSubsetsOfFinite
<1>2. PICK S \in T : \A R \in T : ~(<<R, S>> \in StrictSubsetOrdering(P))
  BY <1>1, FS_StrictSubsetOrderingWellFounded, WFMin
<1>3. S \in SUBSET P /\ S # {} /\ \A p \in S : \E q \in S \ {p} : Waits(p, q)
  OBVIOUS
<1>4. ASSUME NEW p \in S, ~ \E q \in S \ {p} : Waits(q, p)
      PROVE  FALSE
  <2>1. S \ {p} # {}
    BY <1>3
  <2>2. \A r \in S \ {p} : \E q \in (S \ {p}) \ {r} : Waits(r, q)
    BY <1>3, <1>4
  <2>3. S \ {p} \in T
    BY <1>3, <2>1, <2>2
  <2>4. <<S \ {p}, S>> \in StrictSubsetOrdering(P)
    BY <1>3, <1>4 DEF StrictSubsetOrdering
  <2> QED
    BY <1>2, <2>3, <2>4
<1>5. Circle(S)
  BY <1>3, <1>4 DEF Circle
<1> QED
  BY <1>3, <1>5

\* Who has locked anything or written an event is under way.
LEMMA LockersAreUnderWay ==
    ASSUME IInv, NEW q \in Procs
    PROVE  /\ proc[q].held # {} \/ proc[q].locked \cup proc[q].shared # {} => UnderWay(q)
           /\ proc[q].event # None => UnderWay(q) /\ proc[q].pc = "commit"
<1>1. Shape(proc[q])
  BY DEF IInv, ProcInv
<1>2. CASE Rest(proc[q])
  BY <1>2, Rests
<1>3. CASE Publishing(proc[q])
  BY <1>3 DEF Publishing, Inserted, UnderWay
<1>4. CASE Sending(proc[q])
  BY <1>4 DEF Sending, UnderWay
<1>5. CASE Replaying(proc[q])
  BY <1>5 DEF Replaying, UnderWay
<1> QED
  BY <1>1, <1>2, <1>3, <1>4, <1>5 DEF Shape

\* A transaction that cannot go on waits for one under way.
LEMMA WaitsForSomebody ==
    ASSUME IInv, EnoughLeft, NEW p \in Procs, UnderWay(p), ~GoesOn(p),
           \A q \in Procs : UnderWay(q) => ~GoesOn(q)
    PROVE  \E q \in Procs \ {p} : UnderWay(q) /\ Waits(p, q)
<1>1. Shape(proc[p]) /\ proc[p] \in Process /\ ~Rest(proc[p])
  BY DEF IInv, ProcInv, Rest, NoProc, UnderWay
<1>2. CASE Publishing(proc[p])
  <2>1. proc[p].pc = "insert" /\ ~Arbitrated(p)
    BY <1>2 DEF Publishing, Inserted, GoesOn, SendsOrCommits, InsertsOrLeaves, EnoughLeft
  <2>2. PICK q \in Procs : proc[q].event # None
    BY <2>1 DEF Arbitrated, Others
  <2>3. UnderWay(q) /\ GoesOn(q)
    BY <2>2, LockersAreUnderWay DEF GoesOn, SendsOrCommits
  <2> QED
    BY <2>3
<1>3. CASE Sending(proc[p])
  <2>1. proc[p].pc = "send" /\ proc[p].call = {} /\ proc[p].todo # {}
    BY <1>3 DEF Sending, GoesOn, SendsOrCommits
  <2>2. PICK a \in proc[p].todo : TRUE
    BY <2>1
  <2>3. a \in Attempts
    BY <1>1 DEF Process
  <2>4. ~EventFree(p, rows[a].event)
    BY <2>1, <2>3 DEF GoesOn, RepeatsOrFails, EnoughLeft
  <2>5. PICK q \in Procs \ {p} : rows[a].event \in proc[q].locked
    BY <2>4 DEF EventFree, Others
  <2>6. Waits(p, q) /\ UnderWay(q)
    BY <2>1, <2>5, LockersAreUnderWay DEF Waits
  <2> QED
    BY <2>6
<1>4. CASE Replaying(proc[p]) /\ proc[p].pc = "events"
  <2>1. proc[p].want # {} /\ proc[p].want \in SUBSET Nat
    BY <1>1, <1>4, DeliveryAssumption DEF GoesOn, LocksOrReads, Process
  <2>2. PICK e \in proc[p].want : \A f \in proc[p].want : e <= f
    BY <2>1, Least
  <2>3. ~EventFor(p, e)
    BY <1>4, <2>2 DEF GoesOn, LocksOrReads
  <2>4. PICK q \in Procs \ {p} : e \in proc[q].locked \cup proc[q].shared
    BY <2>3 DEF EventFor, Others
  <2>5. Waits(p, q) /\ UnderWay(q)
    BY <1>4, <2>4, LockersAreUnderWay DEF Waits
  <2> QED
    BY <2>5
<1>5. CASE Replaying(proc[p]) /\ proc[p].pc = "rows"
  <2>1. PICK a \in proc[p].todo : a \in HeldByOthers(p)
    BY <1>5 DEF GoesOn, LocksOrReplays, EnoughLeft
  <2>2. PICK q \in Procs \ {p} : a \in proc[q].held
    BY <2>1 DEF HeldByOthers, Others
  <2>3. Waits(p, q) /\ UnderWay(q)
    BY <1>5, <2>1, <2>2, LockersAreUnderWay DEF Waits
  <2> QED
    BY <2>3
<1> QED
  BY <1>1, <1>2, <1>3, <1>4, <1>5 DEF Shape, Replaying

\* The dispatchers, replays and retries are never all stuck: one of them can
\* take its next step, or some wait in a circle that the database breaks,
\* for any number of them.
THEOREM DispatchersNeverStuck ==
    ASSUME IsFiniteSet(Procs)
    PROVE  Spec => []NobodyStuck
<1>1. ASSUME IInv
      PROVE  NobodyStuck
  <2> DEFINE P == {p \in Procs : UnderWay(p)}
  <2> SUFFICES ASSUME EnoughLeft, P # {}, \A p \in P : ~GoesOn(p)
               PROVE  \E S \in SUBSET Procs : S # {} /\ Circle(S)
    BY DEF NobodyStuck
  <2>1. P \in SUBSET Procs /\ IsFiniteSet(P)
    BY FS_Subset
  <2>2. \A p \in P : \E q \in P \ {p} : Waits(p, q)
    BY <1>1, WaitsForSomebody
  <2> HIDE DEF P
  <2> QED
    BY <2>1, <2>2, CircleExists
<1> QED
  BY <1>1, InductiveInvariant, PTL

\* y is the state x of a transaction some steps nearer to its end.
Nearer(x, y) ==
    \/ x.pc # "idle" /\ y.pc = "idle"
    \/ x.pc = "insert" /\ y.pc = "commit"
    \/ /\ x.pc = "send" /\ y.pc = "send" /\ y.todo \subseteq x.todo
       /\ y.todo = x.todo => y.call \subseteq x.call /\ y.call # x.call
    \/ x.pc = "events" /\ y.pc = "events" /\ y.want \subseteq x.want /\ y.want # x.want
    \/ x.pc = "events" /\ y.pc = "rows"
    \/ x.pc = "rows" /\ y.pc = "rows" /\ y.todo \subseteq x.todo /\ y.todo # x.todo

\* Whatever step is taken, no transaction ever goes back.
NobodyGoesBack ==
    [][\A p \in Procs : UnderWay(p) /\ proc'[p] # proc[p] => Nearer(proc[p], proc'[p])]_vars

\* A transaction has only so many steps before it: no sequence of states,
\* each nearer to the end than the one before, goes on for ever.
THEOREM TransactionsRunOut ==
    ASSUME IsFiniteSet(Attempts), IsFiniteSet(Events)
    PROVE  IsWellFoundedOn({z \in Process \X Process : Nearer(z[2], z[1])}, Process)
<1> DEFINE R == {z \in Process \X Process : Nearer(z[2], z[1])}
<1>1. ASSUME NEW T \in SUBSET Process, T # {}
      PROVE  \E x \in T : \A y \in T : ~Nearer(x, y)
  <2> DEFINE At(pc) == {x \in T : x.pc = pc}
  <2>1. CASE At("idle") # {}
    BY <2>1 DEF Nearer
  <2>2. CASE At("idle") = {} /\ At("commit") # {}
    BY <2>2 DEF Nearer
  <2>3. CASE At("idle") = {} /\ At("commit") = {} /\ At("insert") # {}
    BY <2>3 DEF Nearer
  <2>4. CASE At("idle") = {} /\ At("rows") # {}
    <3> DEFINE U == {x.todo : x \in At("rows")}
    <3>1. U \in SUBSET SUBSET Attempts /\ U # {}
      BY <2>4 DEF Process
    <3>2. PICK u \in U : \A v \in U : v \subseteq u => v = u
      <4> HIDE DEF U
      <4> QED
        BY <3>1, LeastSet
    <3>3. PICK x \in At("rows") : u = x.todo
      OBVIOUS
    <3>4. ASSUME NEW y \in T, Nearer(x, y)
          PROVE  FALSE
      <4>1. y.pc = "rows" /\ y.todo \subseteq u /\ y.todo # u
        BY <2>4, <3>3, <3>4 DEF Nearer
      <4>2. y.todo \in U
        BY <4>1
      <4> QED
        BY <3>2, <4>1, <4>2
    <3> QED
      BY <3>3, <3>4
  <2>5. CASE At("idle") = {} /\ At("rows") = {} /\ At("events") # {}
    <3> DEFINE U == {x.want : x \in At("events")}
    <3>1. U \in SUBSET SUBSET Events /\ U # {}
      BY <2>5 DEF Process
    <3>2. PICK u \in U : \A v \in U : v \subseteq u => v = u
      <4> HIDE DEF U
      <4> QED
        BY <3>1, LeastSet
    <3>3. PICK x \in At("events") : u = x.want
      OBVIOUS
    <3>4. ASSUME NEW y \in T, Nearer(x, y)
          PROVE  FALSE
      <4>1. y.pc = "events" /\ y.want \subseteq u /\ y.want # u
        BY <2>5, <3>3, <3>4 DEF Nearer
      <4>2. y.want \in U
        BY <4>1
      <4> QED
        BY <3>2, <4>1, <4>2
    <3> QED
      BY <3>3, <3>4
  <2>6. CASE At("idle") = {} /\ At("send") # {}
    <3> DEFINE U == {x.todo : x \in At("send")}
    <3>1. U \in SUBSET SUBSET Attempts /\ U # {}
      BY <2>6 DEF Process
    <3>2. PICK u \in U : \A v \in U : v \subseteq u => v = u
      <4> HIDE DEF U
      <4> QED
        BY <3>1, LeastSet
    <3> DEFINE C == {x.call : x \in {y \in At("send") : y.todo = u}}
    <3>3. C \in SUBSET SUBSET Attempts /\ C # {}
      BY DEF Process
    <3>4. PICK c \in C : \A d \in C : d \subseteq c => d = c
      <4> HIDE DEF C
      <4> QED
        BY <3>3, LeastSet
    <3>5. PICK x \in At("send") : x.todo = u /\ x.call = c
      OBVIOUS
    <3>6. ASSUME NEW y \in T, Nearer(x, y)
          PROVE  FALSE
      <4>1. y \in At("send") /\ y.todo \subseteq u /\ (y.todo = u => y.call \subseteq c /\ y.call # c)
        BY <2>6, <3>5, <3>6 DEF Nearer
      <4>2. y.todo = u
        BY <3>2, <4>1
      <4>3. y.call \in C
        BY <4>1, <4>2
      <4> QED
        BY <3>4, <4>1, <4>2, <4>3
    <3> QED
      BY <3>5, <3>6
  <2>7. PICK x \in T : TRUE
    BY <1>1
  <2>8. x.pc \in {"idle", "insert", "commit", "send", "events", "rows"}
    BY DEF Process
  <2>9. x \in At(x.pc)
    OBVIOUS
  <2> QED
    BY <2>1, <2>2, <2>3, <2>4, <2>5, <2>6, <2>8, <2>9
<1>2. \A T \in SUBSET Process : T # {} => \E x \in T : \A y \in T : ~(<<y, x>> \in R)
  BY <1>1
<1> HIDE DEF R
<1>3. IsWellFoundedOn(R, Process)
  BY <1>2, MinWF
<1> QED
  BY <1>3 DEF R

\* Every step of a transaction, its rollback too, takes it nearer to its end,
\* and nobody else's step moves it.
LEMMA StepNearer ==
    ASSUME IInv, NEW r \in Procs, Request(r) \/ Work(r) \/ Crash(r)
    PROVE  \A p \in Procs : UnderWay(p) /\ proc'[p] # proc[p] => Nearer(proc[p], proc'[p])
<1> DEFINE Goal == \A p \in Procs : UnderWay(p) /\ proc'[p] # proc[p] => Nearer(proc[p], proc'[p])
<1>1. proc \in [Procs -> Process] /\ \A p \in Procs : Shape(proc[p])
  BY DEF IInv, ProcInv
<1>2. proc[r] = NoProc => ~UnderWay(r)
  BY DEF NoProc, UnderWay
<1>3. UnderWay(r) => proc[r].pc # "idle"
  BY <1>1 DEF Shape, Rest, NoProc, Publishing, Inserted, Sending, Replaying, UnderWay
<1>4. After(r).pc = "idle" /\ AfterError(r).pc = "idle"
  BY DEF After, AfterError, NoProc
<1> DEFINE Alone == \A p \in Procs \ {r} : proc'[p] = proc[p]
<1>5. ASSUME Alone, UnderWay(r) => proc'[r].pc = "idle" \/ Nearer(proc[r], proc'[r])
      PROVE  Goal
  BY <1>3, <1>5 DEF Nearer
<1>6. CASE Request(r) \/ ClaimPending(r) \/ ClaimRetry(r)
  <2>1. proc[r] = NoProc /\ Alone
    BY <1>1, <1>6 DEF Request, Publish, ManualRetry, Replay, ClaimPending, ClaimRetry, Move
  <2> QED
    BY <1>2, <1>5, <2>1
<1>7. CASE CommitEvent(r) \/ CommitSend(r) \/ CommitReplay(r) \/ Victim(r) \/ Crash(r)
  <2>1. proc' = [proc EXCEPT ![r] = After(r)] \/ proc' = [proc EXCEPT ![r] = AfterError(r)]
    BY <1>7 DEF CommitEvent, CommitSend, CommitReplay, Victim, Crash, Write, Fail, Move
  <2>2. Alone /\ proc'[r].pc = "idle"
    BY <1>1, <1>4, <2>1
  <2> QED
    BY <1>5, <2>2
<1>8. CASE InsertEvent(r)
  <2>1. proc[r].pc = "insert" /\ Alone
    BY <1>1, <1>8 DEF InsertEvent, Leave, Move
  <2>2. proc'[r].pc = "idle" \/ proc'[r].pc = "commit"
    <3>1. CASE ~Won(r)
      BY <1>1, <1>4, <1>8, <3>1 DEF InsertEvent, Leave, Move
    <3>2. CASE Won(r)
      <4>1. PICK event, put : Move(r, [proc[r] EXCEPT !.pc = "commit", !.event = event, !.put = put])
        BY <1>8, <3>2 DEF InsertEvent
      <4>2. proc[r] \in Process
        BY <1>1
      <4> QED
        BY <1>1, <4>1, <4>2 DEF Move, Process
    <3> QED
      BY <3>1, <3>2
  <2> QED
    BY <1>5, <2>1, <2>2 DEF Nearer
<1>9. CASE Spawn(r)
  <2>1. PICK a \in proc[r].todo :
          /\ proc[r].pc = "send"
          /\ \/ Fail(r)
             \/ \E new, put, held, shared :
                  Move(r, [proc[r] EXCEPT !.todo = @ \ {a}, !.call = {new[a]},
                                          !.held = held, !.shared = shared, !.put = put])
    BY <1>9 DEF Spawn
  <2>2. CASE Fail(r)
    <3>1. Alone /\ proc'[r].pc = "idle"
      BY <1>1, <1>4, <2>2 DEF Fail, Move
    <3> QED
      BY <1>5, <3>1
  <2>3. CASE ~Fail(r)
    <3>1. PICK x : /\ Move(r, x)
                   /\ x.pc = proc[r].pc /\ x.todo = proc[r].todo \ {a}
      <4>1. PICK new, put, held, shared :
               Move(r, [proc[r] EXCEPT !.todo = @ \ {a}, !.call = {new[a]},
                                       !.held = held, !.shared = shared, !.put = put])
        BY <2>1, <2>3
      <4> DEFINE x == [proc[r] EXCEPT !.todo = @ \ {a}, !.call = {new[a]},
                                      !.held = held, !.shared = shared, !.put = put]
      <4>2. proc[r] \in Process
        BY <1>1
      <4>3. x.pc = proc[r].pc /\ x.todo = proc[r].todo \ {a}
        BY <4>2 DEF Process
      <4> HIDE DEF x
      <4> QED
        BY <4>1, <4>3 DEF x
    <3>2. Alone /\ proc'[r] = x
      BY <1>1, <3>1 DEF Move
    <3> QED
      BY <1>5, <2>1, <3>1, <3>2 DEF Nearer
  <2> QED
    BY <2>2, <2>3
<1>10. CASE Call(r)
  <2>1. PICK a \in proc[r].call : \E x : proc' = [proc EXCEPT ![r].call = @ \ {a}, ![r].put[a] = x]
    BY <1>10 DEF Call
  <2>2. /\ Alone /\ proc'[r].pc = proc[r].pc /\ proc'[r].todo = proc[r].todo
        /\ proc'[r].call = proc[r].call \ {a}
    BY <1>1, <2>1 DEF Process
  <2>3. proc[r].pc = "send"
    BY <1>1, <2>1 DEF Shape, Rest, NoProc, Publishing, Sending, Replaying
  <2> QED
    BY <1>5, <2>1, <2>2, <2>3 DEF Nearer
<1>11. CASE LockEvent(r)
  <2>1. PICK e \in proc[r].want :
          /\ proc[r].pc = "events"
          /\ Move(r, [proc[r] EXCEPT !.want = @ \ {e}, !.locked = @ \cup {e}])
    BY <1>11 DEF LockEvent
  <2>2. Alone /\ proc'[r].pc = "events" /\ proc'[r].want = proc[r].want \ {e}
    BY <1>1, <2>1 DEF Move, Process
  <2> QED
    BY <1>5, <2>1, <2>2 DEF Nearer
<1>12. CASE ReadLeaves(r)
  <2>1. Alone /\ proc[r].pc = "events" /\ proc'[r].pc = "rows"
    BY <1>1, <1>12 DEF ReadLeaves, Move, Process
  <2> QED
    BY <1>5, <2>1 DEF Nearer
<1>13. CASE LockLeaf(r)
  <2>1. PICK a \in proc[r].todo :
          /\ proc[r].pc = "rows"
          /\ Move(r, [proc[r] EXCEPT !.todo = @ \ {a}, !.held = @ \cup {a}])
    BY <1>13 DEF LockLeaf
  <2>2. Alone /\ proc'[r].pc = "rows" /\ proc'[r].todo = proc[r].todo \ {a}
    BY <1>1, <2>1 DEF Move, Process
  <2> QED
    BY <1>5, <2>1, <2>2 DEF Nearer
<1> QED
  BY <1>6, <1>7, <1>8, <1>9, <1>10, <1>11, <1>12, <1>13 DEF Work

\* No transaction of a dispatcher or a request ever goes back, whatever the
\* others do: with TransactionsRunOut, each ends after finitely many steps.
THEOREM TransactionsGoForward == Spec => NobodyGoesBack
<1>1. ASSUME IInv, [Next]_vars
      PROVE  [\A p \in Procs : UnderWay(p) /\ proc'[p] # proc[p] => Nearer(proc[p], proc'[p])]_vars
  <2>1. CASE Next
    BY <1>1, <2>1, StepNearer DEF Next
  <2>2. CASE UNCHANGED vars
    BY <2>2
  <2> QED
    BY <1>1, <2>1, <2>2
<1> QED
  BY <1>1, InductiveInvariant, PTL DEF Spec, NobodyGoesBack

\* A replay locks its events in ascending order.
Ascending == \A p \in Procs : proc[p].pc = "events" =>
    \A e \in proc[p].locked, f \in proc[p].want : e < f

\* Every circle of waits goes through a repetition, by a dispatcher or by hand,
\* that waits for an event locked by a replay, and through a replay that
\* waits for what the repetition has locked: first attempts, publications and
\* replays among themselves never wait in a circle.
RepeatsMeetReplays == \A S \in SUBSET Procs : S # {} /\ Circle(S) =>
    \E p, q, r \in S :
        /\ proc[p].op \in {"retry", "manual"} /\ proc[q].op = "replay" /\ proc[r].op = "replay"
        /\ Waits(p, q) /\ Waits(r, p)

\* Only locking an event or starting a replay leads to a replay that is
\* locking events.
LEMMA AscendingKept ==
    ASSUME IInv, Ascending, NEW r \in Procs, Request(r) \/ Work(r) \/ Crash(r)
    PROVE  Ascending'
<1>1. proc \in [Procs -> Process] /\ proc[r] \in Process /\ Shape(proc[r])
  BY DEF IInv, ProcInv
<1>2. After(r).pc = "idle" /\ AfterError(r).pc = "idle" /\ NoProc.locked = {}
  BY DEF After, AfterError, NoProc
<1>3. ASSUME NEW x, proc' = [proc EXCEPT ![r] = x],
             x.pc = "events" => \A e \in x.locked, f \in x.want : e < f
      PROVE  Ascending'
  <2>1. \A p \in Procs : proc'[p] = IF p = r THEN x ELSE proc[p]
    BY <1>1, <1>3
  <2> QED
    BY <1>3, <2>1 DEF Ascending
<1>4. CASE Replay(r)
  <2>1. PICK P : Move(r, [NoProc EXCEPT !.op = "replay", !.pc = "events", !.pairs = P,
                                        !.want = {x[1] : x \in P}])
    BY <1>4 DEF Replay
  <2> DEFINE y == [NoProc EXCEPT !.op = "replay", !.pc = "events", !.pairs = P,
                                 !.want = {x[1] : x \in P}]
  <2>2. y.locked = {}
    BY DEF NoProc
  <2>3. proc' = [proc EXCEPT ![r] = y]
    BY <2>1 DEF Move
  <2> HIDE DEF y
  <2> QED
    BY <1>3, <2>2, <2>3
<1>5. CASE LockEvent(r)
  <2>1. PICK e \in proc[r].want :
          /\ proc[r].pc = "events" /\ \A f \in proc[r].want : e <= f
          /\ Move(r, [proc[r] EXCEPT !.want = @ \ {e}, !.locked = @ \cup {e}])
    BY <1>5 DEF LockEvent
  <2> DEFINE y == [proc[r] EXCEPT !.want = @ \ {e}, !.locked = @ \cup {e}]
  <2>2. y.want = proc[r].want \ {e} /\ y.locked = proc[r].locked \cup {e}
    BY <1>1 DEF Process
  <2>3. proc' = [proc EXCEPT ![r] = y]
    BY <2>1 DEF Move
  <2> HIDE DEF y
  <2>4. \A d \in proc[r].locked, f \in proc[r].want : d < f
    BY <2>1 DEF Ascending
  <2>5. proc[r].want \in SUBSET Nat
    BY <1>1, DeliveryAssumption DEF Process
  <2>6. \A d \in y.locked, f \in y.want : d < f
    BY <2>1, <2>2, <2>4, <2>5
  <2> QED
    BY <1>3, <2>3, <2>6
<1>6. ASSUME NEW x, proc' = [proc EXCEPT ![r] = x], x.pc # "events"
      PROVE  Ascending'
  BY <1>3, <1>6
<1>7. CASE CommitEvent(r) \/ CommitSend(r) \/ CommitReplay(r) \/ Victim(r) \/ Crash(r)
  <2>1. proc' = [proc EXCEPT ![r] = After(r)] \/ proc' = [proc EXCEPT ![r] = AfterError(r)]
    BY <1>7 DEF CommitEvent, CommitSend, CommitReplay, Victim, Crash, Write, Fail, Move
  <2> QED
    BY <1>2, <1>6, <2>1
<1>8. ASSUME NEW y, Move(r, y), y.pc # "events" PROVE Ascending'
  BY <1>6, <1>8 DEF Move
<1>9. CASE Publish(r)
  <2>1. PICK k : Move(r, After(r)) \/ Move(r, [NoProc EXCEPT !.op = "publish", !.pc = "insert", !.key = k])
    BY <1>9 DEF Publish
  <2>2. [NoProc EXCEPT !.op = "publish", !.pc = "insert", !.key = k].pc = "insert"
    BY DEF NoProc
  <2> QED
    BY <1>2, <1>8, <2>1, <2>2
<1>10. CASE ManualRetry(r)
  <2>1. PICK a : Move(r, After(r)) \/ Move(r, [NoProc EXCEPT !.op = "manual", !.pc = "send",
                                                      !.held = {a}, !.todo = {a}])
    BY <1>10 DEF ManualRetry
  <2>2. [NoProc EXCEPT !.op = "manual", !.pc = "send", !.held = {a}, !.todo = {a}].pc = "send"
    BY DEF NoProc
  <2> QED
    BY <1>2, <1>8, <2>1, <2>2
<1>11. CASE ClaimPending(r)
  <2>1. PICK A : Move(r, [NoProc EXCEPT !.op = "pending", !.pc = "send", !.held = A, !.call = A])
    BY <1>11 DEF ClaimPending
  <2>2. [NoProc EXCEPT !.op = "pending", !.pc = "send", !.held = A, !.call = A].pc = "send"
    BY DEF NoProc
  <2> QED
    BY <1>8, <2>1, <2>2
<1>12. CASE ClaimRetry(r)
  <2>1. PICK A : Move(r, [NoProc EXCEPT !.op = "retry", !.pc = "send", !.held = A, !.todo = A])
    BY <1>12 DEF ClaimRetry
  <2>2. [NoProc EXCEPT !.op = "retry", !.pc = "send", !.held = A, !.todo = A].pc = "send"
    BY DEF NoProc
  <2> QED
    BY <1>8, <2>1, <2>2
<1>13. CASE InsertEvent(r)
  <2>1. CASE ~Won(r)
    BY <1>2, <1>6, <1>13, <2>1 DEF InsertEvent, Leave, Move
  <2>2. CASE Won(r)
    <3>1. PICK event, put : Move(r, [proc[r] EXCEPT !.pc = "commit", !.event = event, !.put = put])
      BY <1>13, <2>2 DEF InsertEvent
    <3> DEFINE y == [proc[r] EXCEPT !.pc = "commit", !.event = event, !.put = put]
    <3>2. y.pc = "commit" /\ proc' = [proc EXCEPT ![r] = y]
      BY <1>1, <3>1 DEF Move, Process
    <3> QED
      BY <1>6, <3>2
  <2> QED
    BY <2>1, <2>2
<1>14. CASE Spawn(r)
  <2>1. \/ Fail(r)
        \/ /\ proc[r].pc = "send"
           /\ \E todo, call, put, held, shared :
                Move(r, [proc[r] EXCEPT !.todo = todo, !.call = call,
                                        !.held = held, !.shared = shared, !.put = put])
    BY <1>14 DEF Spawn
  <2>2. CASE Fail(r)
    BY <1>2, <1>6, <2>2 DEF Fail, Move
  <2>3. CASE ~Fail(r)
    <3>1. PICK todo, call, put, held, shared :
            Move(r, [proc[r] EXCEPT !.todo = todo, !.call = call,
                                    !.held = held, !.shared = shared, !.put = put])
      BY <2>1, <2>3
    <3> DEFINE y == [proc[r] EXCEPT !.todo = todo, !.call = call,
                                    !.held = held, !.shared = shared, !.put = put]
    <3>2. y.pc = "send" /\ proc' = [proc EXCEPT ![r] = y]
      BY <1>1, <2>1, <2>3, <3>1 DEF Move, Process
    <3> QED
      BY <1>6, <3>2
  <2> QED
    BY <2>2, <2>3
<1>15. CASE Call(r)
  <2>1. PICK a \in proc[r].call : \E x : proc' = [proc EXCEPT ![r].call = @ \ {a}, ![r].put[a] = x]
    BY <1>15 DEF Call
  <2>2. /\ \A p \in Procs \ {r} : proc'[p] = proc[p]
        /\ proc'[r].pc = proc[r].pc
    BY <1>1, <2>1 DEF Process
  <2>3. proc[r].pc = "send"
    BY <1>1, <2>1 DEF Shape, Rest, NoProc, Publishing, Sending, Replaying
  <2> QED
    BY <2>2, <2>3 DEF Ascending
<1>16. CASE ReadLeaves(r)
  <2> DEFINE y == [proc[r] EXCEPT !.pc = "rows", !.todo = Leaves(proc[r].pairs)]
  <2>1. y.pc = "rows" /\ proc' = [proc EXCEPT ![r] = y]
    BY <1>1, <1>16 DEF ReadLeaves, Move, Process
  <2> QED
    BY <1>6, <2>1
<1>17. CASE LockLeaf(r)
  <2>1. PICK a \in proc[r].todo :
          /\ proc[r].pc = "rows"
          /\ Move(r, [proc[r] EXCEPT !.todo = @ \ {a}, !.held = @ \cup {a}])
    BY <1>17 DEF LockLeaf
  <2> DEFINE y == [proc[r] EXCEPT !.todo = @ \ {a}, !.held = @ \cup {a}]
  <2>2. y.pc = "rows" /\ proc' = [proc EXCEPT ![r] = y]
    BY <1>1, <2>1 DEF Move, Process
  <2> QED
    BY <1>6, <2>2
<1> QED
  BY <1>4, <1>5, <1>7, <1>13, <1>14, <1>15, <1>16, <1>17, <1>9, <1>10, <1>11, <1>12, ZenonT(30)
     DEF Request, Work

\* Of finitely many events in a set, one is the greatest.
LEMMA GreatestEvent ==
    ASSUME IsFiniteSet(Events), NEW E \in SUBSET Events, E # {}
    PROVE  \E e \in E : \A f \in E : ~(e < f)
<1> DEFINE Above(e) == {d \in Events : e < d}
           T == {Above(e) : e \in E}
<1>1. T \in SUBSET SUBSET Events /\ T # {}
  OBVIOUS
<1>2. PICK x \in T : \A y \in T : y \subseteq x => y = x
  <2> HIDE DEF T
  <2> QED
    BY <1>1, LeastSet
<1>3. PICK e \in E : x = Above(e)
  OBVIOUS
<1>4. ASSUME NEW f \in E, e < f
      PROVE  FALSE
  <2>1. e \in Nat /\ f \in Nat /\ Events \in SUBSET Nat
    BY DeliveryAssumption
  <2>2. Above(f) \subseteq Above(e) /\ f \in Above(e) /\ f \notin Above(f)
    <3>1. ASSUME NEW d \in Events, f < d PROVE e < d
      <4>1. d \in Nat
        BY <2>1
      <4> QED
        BY <1>4, <2>1, <3>1, <4>1
    <3>2. f \in Events /\ ~(f < f)
      BY <2>1
    <3> QED
      BY <1>4, <3>1, <3>2
  <2>3. Above(f) \in T
    OBVIOUS
  <2> HIDE DEF Above, T
  <2> QED
    BY <1>2, <1>3, <2>2, <2>3
<1> QED
  BY <1>4

\* Who waits for whom: senders for replays; replays for senders, or for
\* replays that have locked an event they still want.
LEMMA WaitingSides ==
    ASSUME IInv, NEW p \in Procs, NEW q \in Procs, p # q, Waits(p, q)
    PROVE  \/ proc[p].op \in {"retry", "manual"} /\ proc[q].op = "replay"
           \/ proc[p].op = "replay" /\ proc[q].op \in {"pending", "retry", "manual"}
           \/ /\ proc[p].op = "replay" /\ proc[q].op = "replay"
              /\ proc[p].pc = "events" /\ proc[p].want \cap proc[q].locked # {}
<1>1. Shape(proc[p]) /\ Shape(proc[q]) /\ Apart(proc[p], proc[q])
  BY DEF IInv, ProcInv
<1>2. CASE Rest(proc[p]) \/ Publishing(proc[p])
  <2>1. proc[p].pc \in {"idle", "insert", "commit"}
    BY <1>2 DEF Rest, NoProc, Publishing, Inserted
  <2> QED
    BY <2>1 DEF Waits
<1>3. CASE Sending(proc[p])
  <2>1. PICK a \in proc[p].todo : rows[a].event \in proc[q].locked
    BY <1>3 DEF Sending, Waits
  <2>2. proc[p].op \in {"retry", "manual"}
    BY <1>3, <2>1 DEF Sending
  <2>3. Replaying(proc[q])
    BY <1>1, <2>1, Rests DEF Shape, Publishing, Sending
  <2> QED
    BY <2>2, <2>3 DEF Replaying
<1>4. CASE Replaying(proc[p]) /\ proc[p].pc = "events"
  <2>1. proc[p].want \cap (proc[q].locked \cup proc[q].shared) # {}
    BY <1>4 DEF Waits
  <2>2. ~Rest(proc[q]) /\ ~Publishing(proc[q])
    BY <2>1, Rests DEF Publishing
  <2> QED
    BY <1>1, <1>4, <2>1, <2>2 DEF Shape, Sending, Replaying
<1>5. CASE Replaying(proc[p]) /\ proc[p].pc = "rows"
  <2>1. PICK a : a \in proc[p].todo /\ a \in proc[q].held
    BY <1>5 DEF Waits
  <2>2. ~Rest(proc[q]) /\ ~Publishing(proc[q])
    BY <2>1, Rests DEF Publishing
  <2>3. ~Replaying(proc[q])
    <3>1. ASSUME Replaying(proc[q]) PROVE FALSE
      <4>1. proc[q].pc = "rows"
        BY <2>1, <3>1 DEF Replaying
      <4>2. a \in Tips(proc[p].pairs) /\ a \in Tips(proc[q].pairs)
        BY <1>5, <2>1, <3>1, <4>1 DEF Replaying
      <4>3. PairOf(rows[a])[1] \in proc[p].locked /\ PairOf(rows[a])[1] \in proc[q].locked
        BY <1>5, <3>1, <4>1, <4>2 DEF Tips, Replaying
      <4> QED
        BY <1>1, <4>3 DEF Apart
    <3> QED
      BY <3>1
  <2> QED
    BY <1>1, <1>5, <2>2, <2>3 DEF Shape, Sending, Replaying
<1> QED
  BY <1>1, <1>2, <1>3, <1>4, <1>5 DEF Shape, Replaying

\* Every deadlock of the delivery side is one of a repetition and a replay,
\* for any number of transactions and finitely many events.
THEOREM OnlyRepeatsMeetReplays ==
    ASSUME IsFiniteSet(Events)
    PROVE  Spec => []RepeatsMeetReplays
<1>1. Init => Ascending
  BY DEF Init, Ascending, NoProc
<1>2. IInv /\ Ascending /\ [Next]_vars => Ascending'
  BY AscendingKept DEF Next, vars, Ascending
<1>3. ASSUME IInv, Ascending, NEW S \in SUBSET Procs, S # {}, Circle(S)
      PROVE  \E p, q, r \in S :
               /\ proc[p].op \in {"retry", "manual"} /\ proc[q].op = "replay" /\ proc[r].op = "replay"
               /\ Waits(p, q) /\ Waits(r, p)
  <2> DEFINE Goal == \E p, q, r \in S :
               /\ proc[p].op \in {"retry", "manual"} /\ proc[q].op = "replay" /\ proc[r].op = "replay"
               /\ Waits(p, q) /\ Waits(r, p)
  <2>1. \A p \in S : (\E q \in S \ {p} : Waits(p, q)) /\ (\E q \in S \ {p} : Waits(q, p))
    BY <1>3 DEF Circle
  <2>2. ASSUME NEW p \in S, proc[p].op # "replay"
        PROVE  Goal
    <3>1. PICK q \in S \ {p}, r \in S \ {p} : Waits(p, q) /\ Waits(r, p)
      BY <2>1
    <3>2. proc[p].op \in {"retry", "manual"} /\ proc[q].op = "replay"
      BY <1>3, <2>2, <3>1, WaitingSides
    <3>3. proc[r].op = "replay"
      BY <1>3, <2>2, <3>1, WaitingSides
    <3> QED
      BY <3>1, <3>2, <3>3
  <2>3. ASSUME \A p \in S : proc[p].op = "replay"
        PROVE  FALSE
    <3> DEFINE E == {e \in Events : \E p, q \in S : e \in proc[p].want /\ e \in proc[q].locked}
    <3>1. \A p \in S : \E q \in S : proc[p].pc = "events" /\ proc[p].want \cap proc[q].locked # {}
      BY <1>3, <2>1, <2>3, WaitingSides
    <3>2. \A p \in S : proc[p].want \in SUBSET Events
      BY <1>3 DEF IInv, ProcInv, Process
    <3>3. E # {}
      BY <1>3, <3>1, <3>2
    <3>4. PICK e \in E : \A f \in E : ~(e < f)
      <4> HIDE DEF E
      <4>1. E \in SUBSET Events
        BY DEF E
      <4> QED
        BY <3>3, <4>1, GreatestEvent
    <3>5. PICK q \in S : e \in proc[q].locked
      BY <3>4
    <3>6. PICK f : \E o \in S : f \in proc[q].want /\ f \in proc[o].locked
      BY <3>1
    <3>7. f \in E
      BY <3>2, <3>5, <3>6
    <3>8. e < f
      BY <1>3, <3>1, <3>5, <3>6 DEF Ascending
    <3> QED
      BY <3>4, <3>7, <3>8
  <2> QED
    BY <2>2, <2>3
<1>4. IInv /\ Ascending => RepeatsMeetReplays
  BY <1>3 DEF RepeatsMeetReplays
<1> QED
  BY <1>1, <1>2, <1>4, InductiveInvariant, PTL DEF Spec
=============================================================================
