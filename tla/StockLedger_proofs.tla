------------------------- MODULE StockLedger_proofs -------------------------
(***************************************************************************)
(* Proofs about StockLedger, for any keys, rows, requests and endpoints in *)
(* use: its types, that an identity has two rows only by a transfer from   *)
(* its warehouse to itself, and that a checked call takes only goods that  *)
(* are available at its commit. Without movements posted by themselves no  *)
(* identity has two rows. When only entries, issues, transfers,            *)
(* reservations and releases are in use, the balances of every row agree,  *)
(* calls never wait in a circle, and they keep the abstract book of stock. *)
(*                                                                         *)
(* The argument: what a request has read under a lock stays true until it  *)
(* commits. Rows that it locked are written by nobody else, and a key for  *)
(* which it found no row gets none, as it holds the key's advisory lock.   *)
(* A deletion of the transfer behind two rows finds both and is refused.   *)
(* Keys are locked in ascending order, and rows only under their keys, so  *)
(* the call with the greatest key waits for nobody.                        *)
(***************************************************************************)
EXTENDS StockLedger, Sums_proofs, WellFoundedInduction

NextOf(x) == IF x.op = "transfer" THEN Sorted(x.move, x.todo)
             ELSE SourceFirst(x.move, x.todo)

Proper(op, m) ==
    /\ op = "entry" => m.from = None /\ m.to \in Keys /\ m.kind = "receipt"
    /\ op = "issue" => m.from \in Keys /\ m.to = None /\ m.kind = "issue"
    /\ op = "transfer" => /\ m.from \in Keys /\ m.to \in Keys /\ m.from # m.to
                          /\ m.kind = "transfer"
    /\ op = "plain" => Sides(m) # {}

\* A request x that has read stock rows st.
Good(st, x) ==
    /\ x.op = "none" => x = NoReq
    /\ x.op \notin Posting => x.keys = {}
    /\ x.op \in Posting => Proper(x.op, x.move)
    /\ x.todo \subseteq Sides(x.move)
    /\ x.pc = "keys" => /\ x.op \in Posting /\ x.todo = Sides(x.move)
                        /\ ~(Sides(x.move) \subseteq x.keys)
    /\ x.op \in Posting /\ x.pc = "rows" => x.todo # {}
    /\ x.op \in Posting /\ x.pc = "wait" => x.todo # {}
    /\ x.op \in Posting /\ x.pc \in {"rows", "wait", "commit"} => Sides(x.move) \subseteq x.keys
    /\ x.pc = "commit" => x.todo = {}
    /\ \A y \in x.rows : st[y] # NoRow /\ (x.op \notin Stale => x.seen[y] = st[y])
    /\ x.op \in Posting /\ x.pc \in {"rows", "wait", "commit"} =>
         \A k \in Sides(x.move) \ x.todo :
            (\E y \in x.rows : x.seen[y].key = k) \/ (\A y \in Rows : st[y].key # k)
    /\ x.op \in Posting /\ x.pc = "wait" =>
         /\ \A y \in Rows : st[y].key = NextOf(x) => y \in x.found
         /\ \A y \in x.found : st[y].key \in {None, NextOf(x)}
    /\ x.op \in Posting =>
         /\ \A y \in x.rows : x.seen[y].key \in Sides(x.move) \ x.todo
         /\ \A y, z \in x.rows : x.seen[y].key = x.seen[z].key => y = z

Exclusive == \A r, q \in Reqs : r # q => /\ req[r].keys \cap req[q].keys = {}
                                         /\ req[r].rows \cap req[q].rows = {}

RowShape == \A x \in Rows : stock[x].key = None => stock[x] = NoRow

\* A transfer from key k to itself stands in the ledger as m.
SelfAt(m, k) == moves[m].kind = "transfer" /\ moves[m].from = k /\ moves[m].to = k

\* A request x that deletes m has not got past the rows y and z.
Blocked(m, y, z, x) ==
    x.id = m => x.move = moves[m] /\ (x.pc = "rows" \/ (x.pc = "wait" /\ {y, z} \subseteq x.found))

Twofold(y, z) == stock[y].key # None /\ stock[y].key = stock[z].key /\ y # z

\* Two rows of a key come from a transfer that nobody can delete any more.
Explained == \A y, z \in Rows : Twofold(y, z) =>
    \E m \in Movements : SelfAt(m, stock[y].key) /\ \A q \in Reqs : Blocked(m, y, z, req[q])

IInv ==
    /\ TypeOK /\ RowShape /\ Explained /\ Exclusive
    /\ \A r \in Reqs : Good(stock, req[r])

-----------------------------------------------------------------------------
(* Operators. *)

\* The sides of a movement are keys.
LEMMA SidesAreKeys ==
    ASSUME NEW m \in Movement
    PROVE  Sides(m) \subseteq Keys
<1> QED
  BY DEF Sides, Place, Movement

\* The key to select next is one of those still to select.
LEMMA NextIsTodo ==
    ASSUME NEW x, x.todo \subseteq Sides(x.move), x.todo # {}, x.move \in Movement
    PROVE  NextOf(x) \in x.todo
<1>1. x.todo \subseteq {x.move.from, x.move.to}
  BY DEF Sides, Place
<1> QED
  BY <1>1 DEF NextOf, Sorted, SourceFirst

\* The empty row and the idle request have their types.
LEMMA Empties ==
    /\ NoRow \in StockRow
    /\ NoMove \in Movement
    /\ NoReq \in Request
    /\ \A st : Good(st, NoReq)
<1>1. NoRow \in StockRow
  BY DEF NoRow, StockRow
<1>2. NoMove \in Movement
  BY DEF NoMove, Movement
<1>3. NoReq \in Request
  BY <1>1, <1>2 DEF NoReq, Request
<1>4. \A st : Good(st, NoReq)
  BY DEF Good, NoReq, Posting
<1> QED
  BY <1>1, <1>2, <1>3, <1>4

-----------------------------------------------------------------------------
(* Two shapes of steps. *)

\* A step that only moves one request keeps the invariant if the new record
\* is good and takes no lock of another request.
LEMMA Moves ==
    ASSUME IInv, NEW r \in Reqs, NEW x \in Request, Move(r, x), Good(stock, x),
           \A q \in Reqs \ {r} : x.keys \cap req[q].keys = {} /\ x.rows \cap req[q].rows = {},
           \A m \in Movements, y, z \in Rows :
              Twofold(y, z) /\ SelfAt(m, stock[y].key) /\ Blocked(m, y, z, req[r])
              => Blocked(m, y, z, x)
    PROVE  IInv'
<1>1. req' \in [Reqs -> Request] /\ req'[r] = x /\ \A q \in Reqs \ {r} : req'[q] = req[q]
  BY DEF IInv, TypeOK, Move
<1>2. stock' = stock /\ moves' = moves
  BY DEF Move
<1>3. TypeOK'
  BY <1>1, <1>2 DEF IInv, TypeOK
<1>4. RowShape' /\ Explained'
  <2>1. RowShape'
    BY <1>2 DEF IInv, RowShape
  <2>2. SUFFICES ASSUME NEW y \in Rows, NEW z \in Rows, Twofold(y, z)
                 PROVE  \E m \in Movements : /\ SelfAt(m, stock[y].key)
                                              /\ \A q \in Reqs : Blocked(m, y, z, req'[q])
    BY <1>2, <2>1 DEF Explained, Twofold, SelfAt, Blocked
  <2>3. PICK m \in Movements : SelfAt(m, stock[y].key) /\ \A q \in Reqs : Blocked(m, y, z, req[q])
    BY <2>2 DEF IInv, Explained
  <2>4. Blocked(m, y, z, x)
    BY <2>2, <2>3
  <2> QED
    BY <1>1, <2>3, <2>4
<1>5. Exclusive'
  BY <1>1 DEF IInv, Exclusive
<1>6. \A q \in Reqs : Good(stock', req'[q])
  BY <1>1, <1>2 DEF IInv
<1> QED
  BY <1>3, <1>4, <1>5, <1>6 DEF IInv

\* A commit keeps the invariant if it leaves alone the rows that others have
\* locked and gives rows only to keys that it holds.
LEMMA Commits ==
    ASSUME IInv, NEW r \in Reqs, Finish(r), stock' \in [Rows -> StockRow],
           moves' \in [Movements -> Movement], RowShape', Explained',
           \A q \in Reqs \ {r} : \A y \in req[q].rows : stock'[y] = stock[y],
           \A q \in Reqs \ {r} : \A y \in req[q].found : stock'[y].key \in {stock[y].key, None},
           \A y \in Rows : stock'[y].key \in {stock[y].key, None} \cup req[r].keys
    PROVE  IInv'
<1>1. req' \in [Reqs -> Request] /\ req'[r] = NoReq /\ \A q \in Reqs \ {r} : req'[q] = req[q]
  BY Empties DEF IInv, TypeOK, Finish
<1>2. TypeOK'
  BY <1>1 DEF TypeOK
<1>3. Exclusive'
  BY <1>1 DEF IInv, Exclusive, NoReq
<1>4. ASSUME NEW q \in Reqs \ {r}
      PROVE  Good(stock', req[q])
  <2> DEFINE x == req[q]
  <2>1. Good(stock, x) /\ x \in Request
    BY DEF IInv, TypeOK
  <2>2. req[r].keys \cap x.keys = {} /\ x.rows \subseteq Rows
    BY <2>1 DEF IInv, Exclusive, Request
  <2>3. Sides(x.move) \subseteq Keys /\ None \notin Keys
    BY <2>1, SidesAreKeys, LedgerAssumption DEF Request
  <2>4. ASSUME NEW k \in Sides(x.move), Sides(x.move) \subseteq x.keys, NEW y \in Rows,
               stock'[y].key = k
        PROVE  stock[y].key = k
    BY <2>2, <2>3, <2>4
  <2>5. x.op \in Posting /\ x.pc = "wait" => NextOf(x) \in Sides(x.move)
    BY <2>1, NextIsTodo DEF Good, Request
  <2> HIDE DEF x
  <2>6. \A y \in x.rows : stock'[y] = stock[y]
    BY DEF x
  <2>7. \A y \in x.rows : stock'[y] # NoRow /\ (x.op \notin Stale => x.seen[y] = stock'[y])
    BY <2>1, <2>6 DEF Good
  <2>8. x.op \in Posting /\ x.pc \in {"rows", "wait", "commit"} =>
         \A k \in Sides(x.move) \ x.todo :
            (\E y \in x.rows : x.seen[y].key = k) \/ (\A y \in Rows : stock'[y].key # k)
    BY <2>1, <2>4 DEF Good
  <2>9. x.op \in Posting /\ x.pc = "wait" =>
         \A y \in Rows : stock'[y].key = NextOf(x) => y \in x.found
    BY <2>1, <2>4, <2>5 DEF Good
  <2>11. x.op \in Posting /\ x.pc = "wait" =>
         \A y \in x.found : stock'[y].key \in {None, NextOf(x)}
    BY <2>1 DEF Good, x
  <2>10. Good(stock', x)
    BY <2>1, <2>7, <2>8, <2>9, <2>11 DEF Good
  <2> QED
    BY <2>10 DEF x
<1>5. \A q \in Reqs : Good(stock', req'[q])
  BY <1>1, <1>4, Empties
<1> QED
  BY <1>2, <1>3, <1>5 DEF IInv

-----------------------------------------------------------------------------
(* Calls and locks. *)

\* A call to post a movement begins with the first of its advisory locks.
LEMMA CallPostKeeps ==
    ASSUME IInv, NEW r \in Reqs, NEW op \in Posting, NEW m \in Movement, Sides(m) # {},
           Proper(op, m), CallPost(r, op, m)
    PROVE  IInv'
<1> DEFINE k == FirstIdentity(m, Sides(m))
           x == [Holding(r, m, {k}) EXCEPT !.op = op, !.move = m, !.todo = Sides(m)]
<1>1. req[r] = NoReq /\ Move(r, x) /\ Granted(r, k)
  BY DEF CallPost
<1>2. k \in Sides(m) /\ Sides(m) \subseteq Keys
  BY SidesAreKeys DEF FirstIdentity, Sorted, SourceFirst, Sides, Place
<1>3. /\ x.op = op /\ x.move = m /\ x.todo = Sides(m) /\ x.keys = {k} /\ x.id = None
      /\ x.found = {} /\ x.rows = {} /\ x.seen = NoReq.seen
      /\ x.pc = IF Sides(m) \subseteq {k} THEN "rows" ELSE "keys"
  BY <1>1 DEF Holding, NoReq
<1>4. x \in Request
  <2>1. op \in AllOps
    BY DEF Posting, AllOps
  <2> QED
    BY ZenonT(30), <1>1, <1>2, <2>1, Empties DEF Holding, NoReq, Request
<1> HIDE DEF x, k
<1>5. Good(stock, x)
  BY <1>2, <1>3 DEF Good, Posting
<1>6. \A q \in Reqs \ {r} : x.keys \cap req[q].keys = {} /\ x.rows \cap req[q].rows = {}
  BY <1>1, <1>3 DEF Granted
<1>7. \A i \in Movements, y, z \in Rows : Blocked(i, y, z, x)
  BY <1>3, LedgerAssumption DEF Blocked
<1> QED
  BY <1>1, <1>4, <1>5, <1>6, <1>7, Moves

\* A call of an adjustment or of a deletion loads a row without a lock.
LEMMA CallRowKeeps ==
    ASSUME IInv, NEW r \in Reqs, NEW op \in Stale, NEW y \in Rows, CallRow(r, op, y)
    PROVE  IInv'
<1> DEFINE x == [req[r] EXCEPT !.op = op, !.pc = "wait", !.found = {y}, !.seen[y] = stock[y]]
<1>1. req[r] = NoReq /\ Move(r, x)
  BY DEF CallRow
<1>2. /\ x.op = op /\ x.pc = "wait" /\ x.move = NoMove /\ x.todo = {} /\ x.keys = {}
      /\ x.rows = {} /\ x.id = None
  BY <1>1 DEF NoReq
<1>3. x \in Request
  <2>1. op \in AllOps /\ stock[y] \in StockRow
    BY DEF Stale, AllOps, IInv, TypeOK
  <2> QED
    BY <1>1, <2>1, Empties DEF NoReq, Request
<1> HIDE DEF x
<1>4. Good(stock, x)
  BY <1>2 DEF Good, Posting, Stale
<1>5. \A i \in Movements, v, w \in Rows : Blocked(i, v, w, x)
  BY <1>2, LedgerAssumption DEF Blocked
<1> QED
  BY <1>1, <1>2, <1>3, <1>4, <1>5, Moves

\* A sales order locks a row and reads it.
LEMMA CallOrderKeeps ==
    ASSUME IInv, NEW r \in Reqs, NEW op \in {"reserve", "release"}, NEW y \in Rows,
           CallOrder(r, op, y)
    PROVE  IInv'
<1> DEFINE x == [req[r] EXCEPT !.op = op, !.pc = "commit", !.rows = {y}, !.seen[y] = stock[y]]
<1>1. req[r] = NoReq /\ Move(r, x) /\ stock[y] # NoRow /\ y \notin RowsHeldByOthers(r)
  BY DEF CallOrder
<1>2. /\ x.op = op /\ x.pc = "commit" /\ x.move = NoMove /\ x.todo = {} /\ x.keys = {}
      /\ x.rows = {y} /\ x.seen[y] = stock[y] /\ x.id = None
  BY <1>1 DEF NoReq
<1>3. x \in Request
  <2>1. op \in AllOps /\ stock[y] \in StockRow
    BY DEF AllOps, IInv, TypeOK
  <2> QED
    BY <1>1, <2>1, Empties DEF NoReq, Request
<1> HIDE DEF x
<1>4. Good(stock, x)
  BY <1>1, <1>2 DEF Good, Posting, Stale
<1>5. \A q \in Reqs \ {r} : y \notin req[q].rows
  BY <1>1 DEF RowsHeldByOthers
<1>6. \A i \in Movements, v, w \in Rows : Blocked(i, v, w, x)
  BY <1>2, LedgerAssumption DEF Blocked
<1> QED
  BY <1>1, <1>2, <1>3, <1>4, <1>5, <1>6, Moves

\* The deletion of a movement loads it without a lock.
LEMMA DeleteMovementKeeps ==
    ASSUME IInv, NEW r \in Reqs, NEW m \in Movements, req[r] = NoReq,
           Move(r, [req[r] EXCEPT !.op = "delete_movement", !.pc = "rows", !.id = m,
                                  !.move = moves[m], !.todo = Sides(moves[m])])
    PROVE  IInv'
<1> DEFINE x == [req[r] EXCEPT !.op = "delete_movement", !.pc = "rows", !.id = m,
                               !.move = moves[m], !.todo = Sides(moves[m])]
<1>1. moves[m] \in Movement /\ Sides(moves[m]) \subseteq Keys
  BY SidesAreKeys DEF IInv, TypeOK
<1>2. /\ x.op = "delete_movement" /\ x.pc = "rows" /\ x.move = moves[m]
      /\ x.todo = Sides(moves[m]) /\ x.keys = {} /\ x.rows = {} /\ x.id = m
  BY DEF NoReq
<1>3. x \in Request
  BY <1>1, Empties DEF NoReq, Request, AllOps
<1> HIDE DEF x
<1>4. Good(stock, x)
  BY <1>2 DEF Good, Posting
<1>5. Move(r, x)
  BY DEF x
<1>6. \A i \in Movements, y, z \in Rows : Blocked(i, y, z, x)
  BY <1>2 DEF Blocked
<1> QED
  BY <1>2, <1>3, <1>4, <1>5, <1>6, Moves

\* The second advisory lock of a transfer.
LEMMA LockIdentityKeeps ==
    ASSUME IInv, NEW r \in Reqs, LockIdentity(r)
    PROVE  IInv'
<1> DEFINE k == NextIdentity(r)
           x == Holding(r, req[r].move, req[r].keys \cup {k})
<1>1. req[r] \in Request /\ Good(stock, req[r]) /\ req[r].pc = "keys"
  BY DEF IInv, TypeOK, LockIdentity
<1>2. Granted(r, k) /\ Move(r, x)
  BY DEF LockIdentity
<1>3. /\ req[r].op \in Posting /\ req[r].move \in Movement /\ req[r].todo = Sides(req[r].move)
      /\ ~(Sides(req[r].move) \subseteq req[r].keys)
  BY <1>1 DEF Good, Request
<1>4. k \in Sides(req[r].move) /\ Sides(req[r].move) \subseteq Keys
  BY <1>3, SidesAreKeys DEF NextIdentity, FirstIdentity, Sorted, SourceFirst, Sides, Place
<1>5. /\ x.op = req[r].op /\ x.move = req[r].move /\ x.todo = req[r].todo
      /\ x.keys = req[r].keys \cup {k} /\ x.rows = req[r].rows /\ x.seen = req[r].seen
      /\ x.id = req[r].id
      /\ x.pc = IF Sides(req[r].move) \subseteq x.keys THEN "rows" ELSE "keys"
  BY <1>1 DEF Holding, Request
<1>6. x \in Request
  BY <1>1, <1>4 DEF Holding, Request
<1> HIDE DEF x, k
<1>7. Good(stock, x)
  BY <1>1, <1>3, <1>4, <1>5 DEF Good, Posting
<1>8. \A q \in Reqs \ {r} : x.keys \cap req[q].keys = {} /\ x.rows \cap req[q].rows = {}
  BY <1>2, <1>5 DEF Granted, IInv, Exclusive
<1>9. \A i \in Movements, y, z \in Rows : Blocked(i, y, z, req[r]) => Blocked(i, y, z, x)
  BY <1>1, <1>5 DEF Blocked
<1> QED
  BY <1>2, <1>6, <1>7, <1>8, <1>9, Moves

\* Going back to idle gives up every lock.
LEMMA RejectKeeps ==
    ASSUME IInv, NEW r \in Reqs, Reject(r)
    PROVE  IInv'
<1>1. NoReq \in Request /\ Good(stock, NoReq) /\ NoReq.keys = {} /\ NoReq.rows = {}
  BY Empties DEF NoReq
<1>2. \A i \in Movements, y, z \in Rows : Blocked(i, y, z, NoReq)
  BY LedgerAssumption DEF Blocked, NoReq
<1> QED
  BY <1>1, <1>2, Moves DEF Reject

\* A select that gets its locks: what it found is held and read, and if it
\* found nothing, the key has no row.
LEMMA LockedKeeps ==
    ASSUME IInv, NEW r \in Reqs, NEW found \in SUBSET Rows, req[r].pc \in {"rows", "wait"},
           found \cap RowsHeldByOthers(r) = {}, Locked(r, found),
           req[r].op \in Posting =>
              /\ \A y \in Rows : stock[y].key = NextOf(req[r]) => y \in found
              /\ \A y \in found : stock[y].key \in {None, NextOf(req[r])},
           \A m \in Movements, y, z \in Rows :
              Twofold(y, z) /\ SelfAt(m, stock[y].key) /\ Blocked(m, y, z, req[r])
              => req[r].id # m \/ {y, z} \subseteq found
    PROVE  IInv'
<1> DEFINE got == {y \in found : stock[y] # NoRow}
           todo == req[r].todo \ {NextKey(r)}
           seen == [y \in Rows |-> IF y \in got /\ req[r].op \notin Stale THEN stock[y]
                                   ELSE req[r].seen[y]]
           x == [req[r] EXCEPT !.rows = @ \cup got, !.found = {}, !.seen = seen,
                               !.todo = todo, !.pc = IF todo = {} THEN "commit" ELSE "rows"]
<1>1. CASE Reject(r)
  BY <1>1, RejectKeeps
<1>2. CASE Move(r, x) /\ \A y, z \in got : y = z
  <2>1. req[r] \in Request /\ Good(stock, req[r]) /\ stock \in [Rows -> StockRow]
    BY DEF IInv, TypeOK
  <2>2. /\ x.op = req[r].op /\ x.move = req[r].move /\ x.todo = todo /\ x.keys = req[r].keys
        /\ x.rows = req[r].rows \cup got /\ x.seen = seen /\ x.id = req[r].id
        /\ x.pc = IF todo = {} THEN "commit" ELSE "rows"
    BY <2>1 DEF Request
  <2>3. x \in Request
    <3>1. seen \in [Rows -> StockRow] /\ todo \subseteq Keys
      BY <2>1 DEF Request
    <3> HIDE DEF seen, todo
    <3>2. got \subseteq Rows
      OBVIOUS
    <3> QED
      BY <2>1, <3>1, <3>2 DEF Request
  <2>4. \A y \in x.rows : stock[y] # NoRow /\ (x.op \notin Stale => x.seen[y] = stock[y])
    BY <2>1, <2>2 DEF Good, Request
  <2>5. NextKey(r) = NextOf(req[r])
    BY DEF NextKey, NextOf
  <2>6. ASSUME x.op \in Posting, NEW k \in Sides(x.move) \ x.todo
        PROVE  (\E y \in x.rows : x.seen[y].key = k) \/ (\A y \in Rows : stock[y].key # k)
    <3>1. req[r].op \in Posting /\ req[r].op \notin Stale /\ None \notin Keys
      BY <2>2, <2>6, LedgerAssumption DEF Posting, Stale
    <3>2. k \in Keys
      BY <2>1, <2>2, SidesAreKeys DEF Request
    <3>3. CASE k \in Sides(req[r].move) \ req[r].todo
      <4>1. (\E y \in req[r].rows : req[r].seen[y].key = k) \/ (\A y \in Rows : stock[y].key # k)
        BY <2>1, <3>1, <3>3 DEF Good
      <4>2. \A y \in req[r].rows : x.seen[y] = req[r].seen[y] /\ y \in x.rows
        BY <2>1, <2>2, <2>4, <3>1 DEF Good
      <4> QED
        BY <4>1, <4>2
    <3>4. CASE k = NextKey(r)
      <4>1. ASSUME NEW y \in Rows, stock[y].key = k
            PROVE  y \in x.rows /\ x.seen[y].key = k
        <5>1. y \in found
          BY <2>5, <3>1, <3>4, <4>1
        <5>2. stock[y] # NoRow
          BY <3>1, <3>2, <4>1 DEF NoRow
        <5> QED
          BY <2>2, <2>4, <3>1, <4>1, <5>1, <5>2
      <4> QED
        BY <4>1
    <3> QED
      BY <2>2, <2>6, <3>3, <3>4
  <2>7. x.pc = "commit" => x.todo = {}
    BY <2>2
  <2>8. /\ x.pc \in {"rows", "commit"} /\ (x.pc = "rows" => x.todo # {})
        /\ x.todo \subseteq req[r].todo
    BY <2>2
  <2>9. req[r].op # "none"
    BY DEF NoReq, IInv, Good
  <2>12. ASSUME x.op \in Posting
         PROVE  /\ \A y \in x.rows : x.seen[y].key \in Sides(x.move) \ x.todo
                /\ \A y, z \in x.rows : x.seen[y].key = x.seen[z].key => y = z
    <3>1. req[r].op \in Posting /\ req[r].op \notin Stale /\ None \notin Keys
      BY <2>2, <2>12, LedgerAssumption DEF Posting, Stale
    <3>2. req[r].todo # {} /\ req[r].todo \subseteq Sides(req[r].move) /\ req[r].move \in Movement
      BY <2>1, <3>1 DEF Good, Request
    <3>3. NextOf(req[r]) \in req[r].todo
      BY <3>2, NextIsTodo
    <3>4. \A y \in got : x.seen[y].key = NextOf(req[r])
      <4>1. \A y \in got : y \in Rows /\ stock[y].key # None
        BY DEF IInv, RowShape
      <4> QED
        BY <2>2, <3>1, <4>1
    <3>5. \A y \in req[r].rows : x.seen[y] = req[r].seen[y]
      BY <2>1, <2>2, <2>4, <3>1 DEF Good
    <3>6. /\ \A y \in req[r].rows : req[r].seen[y].key \in Sides(req[r].move) \ req[r].todo
          /\ \A y, z \in req[r].rows : req[r].seen[y].key = req[r].seen[z].key => y = z
      BY <2>1, <3>1 DEF Good
    <3> HIDE DEF got, seen, x
    <3> QED
      BY <1>2, <2>2, <2>5, <3>2, <3>3, <3>4, <3>5, <3>6
  <2>13. \A m \in Movements, y, z \in Rows :
            Twofold(y, z) /\ SelfAt(m, stock[y].key) /\ Blocked(m, y, z, req[r])
            => Blocked(m, y, z, x)
    <3> SUFFICES ASSUME NEW m \in Movements, NEW y \in Rows, NEW z \in Rows, Twofold(y, z),
                        SelfAt(m, stock[y].key), Blocked(m, y, z, req[r]), x.id = m
                 PROVE  FALSE
      BY DEF Blocked
    <3>1. {y, z} \subseteq found
      BY <2>2
    <3>2. stock[y] # NoRow /\ stock[z] # NoRow /\ y # z
      BY DEF Twofold, NoRow
    <3> QED
      BY <1>2, <3>1, <3>2
  <2> HIDE DEF x, got, todo, seen
  <2>10. Good(stock, x)
    BY <2>1, <2>2, <2>4, <2>6, <2>7, <2>8, <2>9, <2>12 DEF Good
  <2>11. \A q \in Reqs \ {r} : x.keys \cap req[q].keys = {} /\ x.rows \cap req[q].rows = {}
    <3>1. \A q \in Reqs \ {r} : got \cap req[q].rows = {}
      BY DEF RowsHeldByOthers, got
    <3> QED
      BY <2>2, <3>1 DEF IInv, Exclusive
  <2> QED
    BY <1>2, <2>3, <2>10, <2>11, <2>13, Moves
<1>3. Reject(r) \/ (Move(r, x) /\ \A y, z \in got : y = z)
  BY DEF Locked
<1> QED
  BY <1>1, <1>2, <1>3

\* A select either gets its locks at once or waits with what it found.
LEMMA SelectKeeps ==
    ASSUME IInv, NEW r \in Reqs, Select(r)
    PROVE  IInv'
<1> DEFINE x == [req[r] EXCEPT !.pc = "wait", !.found = Matching(r)]
<1>1. /\ req[r] \in Request /\ Good(stock, req[r]) /\ req[r].pc = "rows"
      /\ Matching(r) \subseteq Rows
  BY DEF IInv, TypeOK, Select, Matching
<1>2. req[r].op \in Posting =>
         /\ \A y \in Rows : stock[y].key = NextOf(req[r]) => y \in Matching(r)
         /\ \A y \in Matching(r) : stock[y].key \in {None, NextOf(req[r])}
  BY DEF Matching, Selects, NextKey, NextOf, Posting
<1>5. \A m \in Movements, y, z \in Rows :
         Twofold(y, z) /\ SelfAt(m, stock[y].key) /\ Blocked(m, y, z, req[r])
         => req[r].id # m \/ {y, z} \subseteq Matching(r)
  <2> SUFFICES ASSUME NEW m \in Movements, NEW y \in Rows, NEW z \in Rows, Twofold(y, z),
                      SelfAt(m, stock[y].key), Blocked(m, y, z, req[r]), req[r].id = m
               PROVE  {y, z} \subseteq Matching(r)
    OBVIOUS
  <2>1. stock[y].key \in Keys /\ stock[z].key = stock[y].key
    BY DEF IInv, TypeOK, StockRow, Twofold
  <2>2. NextKey(r) = stock[y].key
    BY DEF Blocked, SelfAt, NextKey, Sorted, SourceFirst
  <2>3. stock[y].key \in Selects(r, stock[y].key)
    BY <2>1, LedgerAssumption DEF Selects
  <2> QED
    BY <2>1, <2>2, <2>3 DEF Matching
<1>3. CASE Matching(r) \cap RowsHeldByOthers(r) = {}
  BY <1>1, <1>2, <1>3, <1>5, LockedKeeps DEF Select
<1>4. CASE Matching(r) \cap RowsHeldByOthers(r) # {}
  <2>1. Move(r, x)
    BY <1>4 DEF Select
  <2>2. /\ x.op = req[r].op /\ x.move = req[r].move /\ x.todo = req[r].todo
        /\ x.keys = req[r].keys /\ x.rows = req[r].rows /\ x.seen = req[r].seen
        /\ x.pc = "wait" /\ x.found = Matching(r) /\ x.id = req[r].id
    BY <1>1 DEF Request
  <2>3. x \in Request
    BY <1>1 DEF Request
  <2>4. NextOf(x) = NextOf(req[r])
    BY <2>2 DEF NextOf
  <2>5. req[r].op # "none"
    BY <1>1 DEF Good, NoReq
  <2> HIDE DEF x
  <2>6. Good(stock, x)
    BY <1>1, <1>2, <2>2, <2>4, <2>5 DEF Good
  <2>7. \A q \in Reqs \ {r} : x.keys \cap req[q].keys = {} /\ x.rows \cap req[q].rows = {}
    BY <2>2 DEF IInv, Exclusive
  <2>8. \A m \in Movements, y, z \in Rows :
           Twofold(y, z) /\ SelfAt(m, stock[y].key) /\ Blocked(m, y, z, req[r])
           => Blocked(m, y, z, x)
    BY <1>5, <2>2 DEF Blocked
  <2> QED
    BY <2>1, <2>3, <2>6, <2>7, <2>8, Moves
<1> QED
  BY <1>3, <1>4

\* A waiting select gets its locks.
LEMMA LockKeeps ==
    ASSUME IInv, NEW r \in Reqs, Lock(r)
    PROVE  IInv'
<1>1. req[r] \in Request /\ Good(stock, req[r]) /\ req[r].pc = "wait"
  BY DEF IInv, TypeOK, Lock
<1>2. req[r].found \in SUBSET Rows
  BY <1>1 DEF Request
<1>3. req[r].op \in Posting =>
         /\ \A y \in Rows : stock[y].key = NextOf(req[r]) => y \in req[r].found
         /\ \A y \in req[r].found : stock[y].key \in {None, NextOf(req[r])}
  BY <1>1 DEF Good
<1>4. \A m \in Movements, y, z \in Rows :
         Blocked(m, y, z, req[r]) => req[r].id # m \/ {y, z} \subseteq req[r].found
  BY <1>1 DEF Blocked
<1> QED
  BY <1>1, <1>2, <1>3, <1>4, LockedKeeps DEF Lock

-----------------------------------------------------------------------------
(* Commits. *)

\* What a movement adds to a key is an integer.
LEMMA DeltaType ==
    ASSUME NEW r, req[r] \in Request, NEW k
    PROVE  Delta(r, k) \in Int
<1>1. req[r].move.qty \in Nat
  BY DEF Request, Movement
<1> QED
  BY <1>1 DEF Delta, Effect

\* A written row stays a row of its key.
LEMMA WrittenType ==
    ASSUME NEW y \in Rows, stock[y] \in StockRow, NEW s \in StockRow, NEW h \in Int
    PROVE  Written(y, s, h) \in StockRow /\ Written(y, s, h).key = stock[y].key
<1>1. s.reserved \in Nat /\ s.available \in Int /\ stock[y].available \in Int
  BY DEF StockRow
<1>2. (IF h - s.reserved = s.available THEN stock[y].available ELSE h - s.reserved) \in Int
  BY <1>1
<1> QED
  BY <1>2 DEF Written, StockRow

\* A posting or a reversal writes the rows that it has locked, and inserts
\* rows of its keys under unused identifiers.
LEMMA PostedRows ==
    ASSUME IInv, NEW r \in Reqs, \A y \in req[r].rows : stock[y] # NoRow,
           NEW new \in [Sides(req[r].move) -> Rows \cup {None}]
    PROVE  /\ Posted(r, new) \in [Rows -> StockRow]
           /\ \A y \in Rows :
                \/ Posted(r, new)[y] = stock[y]
                \/ y \in req[r].rows /\ Posted(r, new)[y].key = stock[y].key
                \/ \E k \in Sides(req[r].move) : new[k] = y /\ Posted(r, new)[y].key = k
<1>1. req[r] \in Request /\ stock \in [Rows -> StockRow]
  BY DEF IInv, TypeOK
<1>2. Sides(req[r].move) \subseteq Keys
  BY <1>1, SidesAreKeys DEF Request
<1>3. ASSUME NEW y \in Rows
      PROVE  /\ Posted(r, new)[y] \in StockRow
             /\ \/ Posted(r, new)[y] = stock[y]
                \/ y \in req[r].rows /\ Posted(r, new)[y].key = stock[y].key
                \/ \E k \in Sides(req[r].move) : new[k] = y /\ Posted(r, new)[y].key = k
  <2>1. CASE \E k \in Sides(req[r].move) : y = new[k]
    <3> DEFINE k == CHOOSE k \in Sides(req[r].move) : y = new[k]
    <3>1. k \in Sides(req[r].move) /\ y = new[k]
      BY <2>1
    <3>2. Posted(r, new)[y] = [key |-> k, onHand |-> Delta(r, k), reserved |-> 0,
                               available |-> Delta(r, k)]
      BY <2>1 DEF Posted
    <3> HIDE DEF k
    <3>3. Delta(r, k) \in Int
      BY <1>1, DeltaType
    <3> QED
      BY <1>2, <3>1, <3>2, <3>3 DEF StockRow
  <2>2. CASE /\ ~ \E k \in Sides(req[r].move) : y = new[k]
             /\ \E k \in Sides(req[r].move) : y \in Found(r, k)
    <3> DEFINE k == CHOOSE k \in Sides(req[r].move) : y \in Found(r, k)
               s == req[r].seen[y]
    <3>1. y \in req[r].rows
      BY <2>2 DEF Found
    <3>2. Posted(r, new)[y] = Written(y, s, s.onHand + Delta(r, k))
      BY <2>2 DEF Posted
    <3>3. s \in StockRow /\ s.onHand \in Int
      BY <1>1 DEF Request, StockRow
    <3>4. s.onHand + Delta(r, k) \in Int
      BY <1>1, <3>3, DeltaType
    <3> HIDE DEF k, s
    <3> QED
      BY <1>1, <3>1, <3>2, <3>3, <3>4, WrittenType
  <2>3. CASE /\ ~ \E k \in Sides(req[r].move) : y = new[k]
             /\ ~ \E k \in Sides(req[r].move) : y \in Found(r, k)
    BY <1>1, <2>3 DEF Posted
  <2> QED
    BY <2>1, <2>2, <2>3
<1>4. Posted(r, new) = [y \in Rows |-> Posted(r, new)[y]]
  BY DEF Posted
<1> QED
  BY <1>3, <1>4

\* Two rows of a key stay explained when no pair is added and no movement
\* goes but the one that the request deletes.
LEMMA ExplainedKeeps ==
    ASSUME IInv, NEW r \in Reqs, Finish(r), req[r].pc = "commit",
           \A y, z \in Rows : Twofold(y, z)' => /\ stock'[y].key = stock[y].key
                                               /\ stock'[z].key = stock[z].key,
           \A m \in Movements : moves'[m] = moves[m] \/ moves[m] = NoMove \/ req[r].id = m
    PROVE  Explained'
<1>1. req'[r] = NoReq /\ \A q \in Reqs \ {r} : req'[q] = req[q]
  BY DEF IInv, TypeOK, Finish
<1> SUFFICES ASSUME NEW y \in Rows, NEW z \in Rows, Twofold(y, z)'
             PROVE  (\E m \in Movements : /\ SelfAt(m, stock[y].key)
                                          /\ \A q \in Reqs : Blocked(m, y, z, req[q]))'
  BY DEF Explained
<1>2. Twofold(y, z) /\ stock'[y].key = stock[y].key
  BY DEF Twofold
<1>3. PICK m \in Movements : SelfAt(m, stock[y].key) /\ \A q \in Reqs : Blocked(m, y, z, req[q])
  BY <1>2 DEF IInv, Explained
<1>4. moves'[m] = moves[m]
  BY <1>3 DEF SelfAt, NoMove, Blocked
<1>5. SelfAt(m, stock[y].key)'
  BY <1>2, <1>3, <1>4 DEF SelfAt
<1>6. \A q \in Reqs : Blocked(m, y, z, req[q])'
  BY <1>1, <1>3, <1>4, LedgerAssumption DEF Blocked, NoReq
<1> QED
  BY <1>5, <1>6

\* What only writes rows that r has locked, and keeps or empties them, keeps
\* the invariant.
LEMMA WritesKeep ==
    ASSUME IInv, NEW r \in Reqs, Finish(r), stock' \in [Rows -> StockRow],
           moves' \in [Movements -> Movement], \A y \in req[r].rows : stock[y] # NoRow,
           req[r].pc = "commit",
           \A m \in Movements : moves'[m] = moves[m] \/ moves[m] = NoMove \/ req[r].id = m,
           \A y \in Rows : \/ stock'[y] = stock[y]
                           \/ y \in req[r].rows /\ stock'[y].key = stock[y].key
                           \/ y \in req[r].rows /\ stock'[y] = NoRow
    PROVE  IInv'
<1>1. RowShape'
  BY DEF IInv, RowShape, NoRow
<1>2. Explained'
  BY ExplainedKeeps DEF Twofold, NoRow
<1>3. \A q \in Reqs \ {r} : \A y \in req[q].rows : stock'[y] = stock[y]
  BY DEF IInv, Exclusive, TypeOK, Request
<1>4. \A y \in Rows : stock'[y].key \in {stock[y].key, None}
  BY DEF NoRow
<1>5. \A q \in Reqs : req[q].found \subseteq Rows
  BY DEF IInv, TypeOK, Request
<1> QED
  BY <1>1, <1>2, <1>3, <1>4, <1>5, Commits

\* A posting inserts rows only for keys that have none.
LEMMA CommitPostKeeps ==
    ASSUME IInv, NEW r \in Reqs, \A y \in req[r].rows : stock[y] # NoRow, CommitPost(r)
    PROVE  IInv'
<1> DEFINE M == req[r].move
<1>1. /\ req[r] \in Request /\ Good(stock, req[r]) /\ req[r].op \in Posting
      /\ req[r].pc = "commit" /\ M \in Movement
  BY DEF IInv, TypeOK, CommitPost, Request
<1>2. PICK m \in Movements, new \in [Sides(M) -> Rows \cup {None}] :
         /\ UnusedId(m)
         /\ \A k \in Sides(M) : (new[k] = None) <=> (Found(r, k) # {})
         /\ \A k \in Sides(M) : new[k] # None => UnusedRow(new[k])
         /\ \A j, k \in Sides(M) : new[j] = new[k] /\ new[j] # None => j = k
         /\ stock' = Posted(r, new)
         /\ moves' = [moves EXCEPT ![m] = M]
  BY DEF CommitPost
<1>3. Finish(r)
  BY DEF CommitPost
<1>4. Sides(M) \subseteq req[r].keys /\ Sides(M) \subseteq Keys /\ req[r].todo = {}
  BY <1>1, SidesAreKeys DEF Good
<1>5. None \notin Keys /\ None \notin Rows
  BY LedgerAssumption
<1>6. /\ stock' \in [Rows -> StockRow]
      /\ \A y \in Rows : \/ stock'[y] = stock[y]
                         \/ y \in req[r].rows /\ stock'[y].key = stock[y].key
                         \/ \E k \in Sides(M) : new[k] = y /\ stock'[y].key = k
  BY <1>2, PostedRows
<1>7. moves' \in [Movements -> Movement]
  BY <1>1, <1>2 DEF IInv, TypeOK
<1>8. \A y \in Rows : \A k \in Sides(M) :
         new[k] = y => UnusedRow(y) /\ (\A z \in Rows : stock[z].key # k)
  <2>1. \A k \in Sides(M) : new[k] # None => ~ \E z \in req[r].rows : req[r].seen[z].key = k
    BY <1>1, <1>2 DEF Found, Selects, Posting
  <2>2. \A k \in Sides(M) : new[k] # None => \A z \in Rows : stock[z].key # k
    BY <1>1, <1>4, <2>1 DEF Good
  <2> QED
    BY <1>2, <1>5, <2>2
<1> HIDE DEF M
<1>9. RowShape'
  BY <1>4, <1>5, <1>6 DEF IInv, RowShape
<1>10. Explained'
  <2>1. ASSUME NEW y \in Rows, NEW z \in Rows, Twofold(y, z)'
        PROVE  stock'[y].key = stock[y].key /\ stock'[z].key = stock[z].key
    <3>1. stock'[y].key # None /\ stock'[y].key = stock'[z].key /\ y # z
      BY <2>1 DEF Twofold
    <3>2. ASSUME NEW v \in Rows, NEW w \in Rows, v # w, stock'[v].key = stock'[w].key,
                 NEW k \in Sides(M), new[k] = v, stock'[v].key = k
          PROVE  FALSE
      <4>1. stock[w].key # k
        BY <1>8, <3>2
      <4>2. PICK j \in Sides(M) : new[j] = w /\ stock'[w].key = j
        BY <1>6, <3>2, <4>1
      <4> QED
        BY <3>2, <4>2
    <3> QED
      BY <1>6, <3>1, <3>2
  <2>2. \A i \in Movements : moves'[i] = moves[i] \/ moves[i] = NoMove
    BY <1>2 DEF UnusedId, IInv, TypeOK
  <2> QED
    BY <1>1, <1>3, <2>1, <2>2, ExplainedKeeps
<1>11. \A q \in Reqs \ {r} : \A y \in req[q].rows : stock'[y] = stock[y]
  <2> SUFFICES ASSUME NEW q \in Reqs \ {r}, NEW y \in req[q].rows
               PROVE  stock'[y] = stock[y]
    OBVIOUS
  <2>1. y \in Rows /\ y \notin req[r].rows
    BY DEF IInv, Exclusive, TypeOK, Request
  <2>2. ~UnusedRow(y)
    BY DEF UnusedRow
  <2> QED
    BY <1>6, <1>8, <2>1, <2>2
<1>12. \A y \in Rows : stock'[y].key \in {stock[y].key, None} \cup req[r].keys
  BY <1>4, <1>6
<1>13. \A q \in Reqs \ {r} : \A y \in req[q].found : stock'[y].key \in {stock[y].key, None}
  <2> SUFFICES ASSUME NEW q \in Reqs \ {r}, NEW y \in req[q].found
               PROVE  stock'[y].key = stock[y].key
    OBVIOUS
  <2>1. y \in Rows /\ ~UnusedRow(y)
    BY DEF UnusedRow, IInv, TypeOK, Request
  <2> QED
    BY <1>6, <1>8, <2>1
<1> QED
  BY <1>3, <1>6, <1>7, <1>9, <1>10, <1>11, <1>12, <1>13, Commits

\* A posting to a key from itself gives two rows to a key that has none.
LEMMA CommitToItselfKeeps ==
    ASSUME IInv, NEW r \in Reqs, CommitToItself(r)
    PROVE  IInv'
<1> DEFINE M == req[r].move
           k == M.to
           Opened(q) == [key |-> k, onHand |-> q, reserved |-> 0, available |-> q]
<1>1. /\ req[r] \in Request /\ Good(stock, req[r]) /\ req[r].op \in Posting
      /\ req[r].pc = "commit" /\ M \in Movement /\ M.kind = "transfer" /\ M.from = k
      /\ req[r].rows = {} /\ Finish(r) /\ stock \in [Rows -> StockRow]
      /\ moves \in [Movements -> Movement]
  BY DEF IInv, TypeOK, CommitToItself, AddsTwice, Request
<1>2. PICK m \in Movements, x, y \in Rows :
         /\ UnusedId(m) /\ UnusedRow(x) /\ UnusedRow(y) /\ x # y
         /\ stock' = [stock EXCEPT ![x] = Opened(- M.qty), ![y] = Opened(M.qty)]
         /\ moves' = [moves EXCEPT ![m] = M]
  BY DEF CommitToItself
<1>3. M.qty \in Nat /\ k \in Keys \cup {None} /\ None \notin Keys /\ None \notin Movements
  BY <1>1, LedgerAssumption DEF Movement
<1>4. k # None => k \in Sides(M) /\ k \in req[r].keys /\ \A z \in Rows : stock[z].key # k
  BY <1>1 DEF Sides, Good
<1>5. Opened(- M.qty) \in StockRow /\ Opened(M.qty) \in StockRow
  BY <1>3 DEF StockRow
<1>6. /\ \A z \in Rows \ {x, y} : stock'[z] = stock[z]
      /\ stock'[x].key = k /\ stock'[y].key = k
  BY <1>1, <1>2
<1>7. stock' \in [Rows -> StockRow] /\ moves' \in [Movements -> Movement]
  BY <1>1, <1>2, <1>5
<1>8. k # None
  <2>1. Sides(M) # {}
    <3>1. Proper(req[r].op, M)
      BY <1>1 DEF Good
    <3> QED
      BY <1>1, <1>3, <3>1 DEF Proper, Posting, Sides
  <2> QED
    BY <1>1, <2>1 DEF Sides
<1>9. RowShape'
  BY <1>6, <1>8 DEF IInv, RowShape
<1>10. req'[r] = NoReq /\ \A q \in Reqs \ {r} : req'[q] = req[q]
  BY DEF IInv, TypeOK, CommitToItself, Finish
<1> HIDE DEF M, k, Opened
<1>11. Explained'
  <2> SUFFICES ASSUME NEW v \in Rows, NEW w \in Rows, Twofold(v, w)'
               PROVE  (\E i \in Movements : /\ SelfAt(i, stock[v].key)
                                            /\ \A q \in Reqs : Blocked(i, v, w, req[q]))'
    BY DEF Explained
  <2>1. v # w /\ stock'[v].key = stock'[w].key /\ stock'[v].key # None
    BY DEF Twofold
  <2>2. CASE v \in {x, y} \/ w \in {x, y}
    <3>1. stock'[v].key = k
      BY <1>6, <2>1, <2>2
    <3>2. moves'[m] = M
      BY <1>1, <1>2
    <3>3. SelfAt(m, stock[v].key)'
      BY <1>1, <3>1, <3>2 DEF SelfAt, k
    <3>4. \A q \in Reqs : Blocked(m, v, w, req[q])'
      BY <1>2, <1>3, <1>10 DEF Blocked, UnusedId, NoReq
    <3> QED
      BY <3>3, <3>4
  <2>3. CASE v \notin {x, y} /\ w \notin {x, y}
    <3>1. Twofold(v, w) /\ stock'[v] = stock[v]
      BY <1>6, <2>1, <2>3 DEF Twofold
    <3>2. PICK i \in Movements : SelfAt(i, stock[v].key) /\ \A q \in Reqs : Blocked(i, v, w, req[q])
      BY <3>1 DEF IInv, Explained
    <3>3. moves'[i] = moves[i]
      BY <1>1, <1>2, <3>2 DEF UnusedId, SelfAt, NoMove
    <3>4. SelfAt(i, stock[v].key)'
      BY <3>1, <3>2, <3>3 DEF SelfAt
    <3>5. \A q \in Reqs : Blocked(i, v, w, req[q])'
      BY <1>3, <1>10, <3>2, <3>3 DEF Blocked, NoReq
    <3> QED
      BY <3>4, <3>5
  <2> QED
    BY <2>2, <2>3
<1>12. \A q \in Reqs \ {r} : \A z \in req[q].rows \cup req[q].found : stock'[z] = stock[z]
  <2> SUFFICES ASSUME NEW q \in Reqs \ {r}, NEW z \in req[q].rows \cup req[q].found
               PROVE  stock'[z] = stock[z]
    OBVIOUS
  <2>1. z \in Rows /\ ~UnusedRow(z)
    BY DEF UnusedRow, IInv, TypeOK, Request
  <2> QED
    BY <1>2, <1>6, <2>1
<1>13. \A z \in Rows : stock'[z].key \in {stock[z].key, None} \cup req[r].keys
  BY <1>4, <1>6, <1>8
<1> QED
  BY <1>1, <1>7, <1>9, <1>11, <1>12, <1>13, Commits

\* Deleting a movement only writes rows.
LEMMA CommitDeleteMovementKeeps ==
    ASSUME IInv, NEW r \in Reqs, \A y \in req[r].rows : stock[y] # NoRow,
           CommitDeleteMovement(r)
    PROVE  IInv'
<1> DEFINE M == req[r].move
           new == [k \in Sides(M) |-> None]
<1>1. Finish(r) /\ stock' = Posted(r, new)
  BY DEF CommitDeleteMovement
<1>2. new \in [Sides(M) -> Rows \cup {None}] /\ \A k \in Sides(M) : new[k] \notin Rows
  BY LedgerAssumption
<1>3. moves' \in [Movements -> Movement]
  BY Empties DEF CommitDeleteMovement, IInv, TypeOK
<1> HIDE DEF new
<1>4. /\ Posted(r, new) \in [Rows -> StockRow]
      /\ \A y \in Rows :
           \/ Posted(r, new)[y] = stock[y]
           \/ y \in req[r].rows /\ Posted(r, new)[y].key = stock[y].key
           \/ \E k \in Sides(M) : new[k] = y /\ Posted(r, new)[y].key = k
  BY <1>2, PostedRows
<1>5. \A m \in Movements : moves'[m] = moves[m] \/ req[r].id = m
  BY DEF CommitDeleteMovement, IInv, TypeOK
<1>6. req[r].pc = "commit"
  BY DEF CommitDeleteMovement
<1> QED
  BY <1>1, <1>2, <1>3, <1>4, <1>5, <1>6, WritesKeep

\* An adjustment writes the row that it has locked.
LEMMA CommitAdjustKeeps ==
    ASSUME IInv, NEW r \in Reqs, \A y \in req[r].rows : stock[y] # NoRow, CommitAdjust(r)
    PROVE  IInv'
<1>1. req[r] \in Request /\ stock \in [Rows -> StockRow]
  BY DEF IInv, TypeOK
<1>2. PICK m \in Movements, x \in req[r].rows, h \in 0 .. MaxQty :
         /\ UnusedId(m)
         /\ stock' = [stock EXCEPT ![x] = Written(x, req[r].seen[x], h)]
         /\ moves' = [moves EXCEPT ![m] =
                        IF h > req[r].seen[x].onHand
                        THEN Adjustment(None, req[r].seen[x].key, h - req[r].seen[x].onHand)
                        ELSE Adjustment(req[r].seen[x].key, None, req[r].seen[x].onHand - h)]
  BY DEF CommitAdjust
<1> DEFINE s == req[r].seen[x]
<1>3. x \in Rows /\ s \in StockRow /\ h \in Int
  BY <1>1 DEF Request
<1>4. s.onHand \in Int /\ s.key \in Keys \cup {None}
  BY <1>3 DEF StockRow
<1>5. (IF h > s.onHand THEN Adjustment(None, s.key, h - s.onHand)
       ELSE Adjustment(s.key, None, s.onHand - h)) \in Movement
  BY <1>3, <1>4 DEF Adjustment, Movement
<1>6. moves' \in [Movements -> Movement]
  BY <1>2, <1>5 DEF IInv, TypeOK
<1>7. Written(x, s, h) \in StockRow /\ Written(x, s, h).key = stock[x].key
  BY <1>1, <1>3, WrittenType
<1> HIDE DEF s
<1>8. /\ stock' \in [Rows -> StockRow]
      /\ \A y \in Rows : \/ stock'[y] = stock[y]
                         \/ y \in req[r].rows /\ stock'[y].key = stock[y].key
  BY <1>1, <1>2, <1>3, <1>7 DEF s
<1>9. \A i \in Movements : moves'[i] = moves[i] \/ moves[i] = NoMove
  BY <1>2 DEF UnusedId, IInv, TypeOK
<1> QED
  BY <1>6, <1>8, <1>9, WritesKeep DEF CommitAdjust

\* The deletion of a row empties the row that it has locked.
LEMMA CommitDeleteStockKeeps ==
    ASSUME IInv, NEW r \in Reqs, \A y \in req[r].rows : stock[y] # NoRow, CommitDeleteStock(r)
    PROVE  IInv'
<1>1. req[r] \in Request /\ stock \in [Rows -> StockRow] /\ moves' = moves
  BY DEF IInv, TypeOK, CommitDeleteStock
<1>2. PICK x \in req[r].rows : stock' = [stock EXCEPT ![x] = NoRow]
  BY DEF CommitDeleteStock
<1>3. /\ stock' \in [Rows -> StockRow]
      /\ \A y \in Rows : \/ stock'[y] = stock[y]
                         \/ y \in req[r].rows /\ stock'[y] = NoRow
  BY <1>1, <1>2, Empties
<1>4. moves' \in [Movements -> Movement] /\ Finish(r) /\ req[r].pc = "commit"
  BY <1>1 DEF IInv, TypeOK, CommitDeleteStock
<1> QED
  BY <1>1, <1>3, <1>4, WritesKeep

\* What a reservation or a release makes of the row that it has locked.
LEMMA OrderWrites ==
    ASSUME IInv, NEW r \in Reqs, \A y \in req[r].rows : stock[y] # NoRow,
           CommitReserve(r) \/ CommitRelease(r)
    PROVE  \E x \in req[r].rows, n \in Nat, a \in Int :
             /\ stock' = [stock EXCEPT ![x].reserved = n, ![x].available = a]
             /\ stock[x].available = stock[x].onHand - stock[x].reserved
                => a = stock[x].onHand - n /\ (stock[x].available >= 0 => a >= 0)
<1>1. /\ req[r] \in Request /\ Good(stock, req[r]) /\ stock \in [Rows -> StockRow]
      /\ req[r].op \notin Stale /\ Quantities \subseteq Nat
  BY LedgerAssumption DEF IInv, TypeOK, CommitReserve, CommitRelease, Stale
<1>2. \A x \in req[r].rows : /\ x \in Rows /\ req[r].seen[x] = stock[x]
                             /\ stock[x].onHand \in Int /\ stock[x].reserved \in Nat
                             /\ stock[x].available \in Int
  BY <1>1 DEF Good, Request, StockRow
<1>3. CASE CommitReserve(r)
  <2>1. PICK x \in req[r].rows, q \in Quantities :
           /\ stock[x].available >= q
           /\ stock' = [stock EXCEPT ![x].reserved = stock[x].reserved + q,
                                     ![x].available = stock[x].available - q]
    BY <1>2, <1>3 DEF CommitReserve
  <2> DEFINE n == stock[x].reserved + q
             a == stock[x].available - q
  <2>2. /\ q \in Nat /\ stock[x].onHand \in Int /\ stock[x].reserved \in Nat
        /\ stock[x].available \in Int
    BY <1>1, <1>2
  <2>3. n \in Nat /\ a \in Int /\ a >= 0
    BY <2>1, <2>2
  <2>4. stock[x].available = stock[x].onHand - stock[x].reserved => a = stock[x].onHand - n
    BY <2>2
  <2>5. stock' = [stock EXCEPT ![x].reserved = n, ![x].available = a]
    BY <2>1
  <2> HIDE DEF n, a
  <2> QED
    BY <2>3, <2>4, <2>5
<1>4. CASE CommitRelease(r)
  <2>1. PICK x \in req[r].rows, q \in Quantities :
           /\ stock[x].reserved >= q
           /\ stock' = [stock EXCEPT ![x].reserved = stock[x].reserved - q,
                                     ![x].available = stock[x].onHand - (stock[x].reserved - q)]
    BY <1>2, <1>4 DEF CommitRelease
  <2> DEFINE n == stock[x].reserved - q
             a == stock[x].onHand - (stock[x].reserved - q)
  <2>2. /\ q \in Nat /\ stock[x].onHand \in Int /\ stock[x].reserved \in Nat
        /\ stock[x].available \in Int
    BY <1>1, <1>2
  <2>3. n \in Nat /\ a \in Int /\ a = stock[x].onHand - n
    BY <2>1, <2>2
  <2>4. /\ stock[x].available = stock[x].onHand - stock[x].reserved
        /\ stock[x].available >= 0
        => a >= 0
    BY <2>2
  <2>5. stock' = [stock EXCEPT ![x].reserved = n, ![x].available = a]
    BY <2>1
  <2> HIDE DEF n, a
  <2> QED
    BY <2>3, <2>4, <2>5
<1> QED
  BY <1>3, <1>4

\* A reservation or a release writes the row that it has locked.
LEMMA CommitOrderKeeps ==
    ASSUME IInv, NEW r \in Reqs, \A y \in req[r].rows : stock[y] # NoRow,
           CommitReserve(r) \/ CommitRelease(r)
    PROVE  IInv'
<1>1. req[r] \in Request /\ stock \in [Rows -> StockRow] /\ moves' = moves /\ Finish(r)
  BY DEF IInv, TypeOK, CommitReserve, CommitRelease
<1>2. PICK x \in req[r].rows, n \in Nat, a \in Int :
         /\ stock' = [stock EXCEPT ![x].reserved = n, ![x].available = a]
         /\ stock[x].available = stock[x].onHand - stock[x].reserved
            => a = stock[x].onHand - n /\ (stock[x].available >= 0 => a >= 0)
  BY OrderWrites
<1>3. x \in Rows /\ stock[x] \in StockRow
  BY <1>1 DEF Request
<1>4. /\ stock'[x] \in StockRow /\ stock'[x].key = stock[x].key
      /\ \A y \in Rows \ {x} : stock'[y] = stock[y]
  BY <1>1, <1>2, <1>3 DEF StockRow
<1>5. stock' = [y \in Rows |-> stock'[y]]
  BY <1>1, <1>2
<1>6. /\ stock' \in [Rows -> StockRow]
      /\ \A y \in Rows : \/ stock'[y] = stock[y]
                         \/ y \in req[r].rows /\ stock'[y].key = stock[y].key
  BY <1>1, <1>4, <1>5
<1>7. moves' \in [Movements -> Movement] /\ req[r].pc = "commit"
  BY <1>1 DEF IInv, TypeOK, CommitReserve, CommitRelease
<1> QED
  BY <1>1, <1>6, <1>7, WritesKeep

-----------------------------------------------------------------------------
(* The invariant. *)

\* Every call begins well.
LEMMA StartKeeps ==
    ASSUME IInv, NEW r \in Reqs, Start(r)
    PROVE  IInv'
<1> USE DEF Posting
<1>1. \A k \in Keys, q \in Quantities :
        /\ Receipt(k, q) \in Movement /\ Sides(Receipt(k, q)) = {k}
        /\ Issue(k, q) \in Movement /\ Sides(Issue(k, q)) = {k}
        /\ Adjustment(None, k, q) \in Movement /\ Sides(Adjustment(None, k, q)) = {k}
        /\ Adjustment(k, None, q) \in Movement /\ Sides(Adjustment(k, None, q)) = {k}
        /\ \A j \in Keys : Transfer(j, k, q) \in Movement /\ Sides(Transfer(j, k, q)) = {j, k}
  BY LedgerAssumption DEF Receipt, Issue, Adjustment, Transfer, Movement, Sides, Place
<1>2. CASE StockEntry(r)
  <2>1. PICK k \in Keys, q \in Quantities : CallPost(r, "entry", Receipt(k, q))
    BY <1>2 DEF StockEntry
  <2>2. Proper("entry", Receipt(k, q))
    BY DEF Proper, Receipt
  <2> QED
    BY <1>1, <2>1, <2>2, CallPostKeeps
<1>3. CASE StockIssue(r)
  <2>1. PICK k \in Keys, q \in Quantities : CallPost(r, "issue", Issue(k, q))
    BY <1>3 DEF StockIssue
  <2>2. Proper("issue", Issue(k, q))
    BY DEF Proper, Issue
  <2> QED
    BY <1>1, <2>1, <2>2, CallPostKeeps
<1>4. CASE StockTransfer(r)
  <2>1. PICK j \in Keys, q \in Quantities :
           \E k \in Twins[j] : CallPost(r, "transfer", Transfer(j, k, q))
    BY <1>4 DEF StockTransfer
  <2>2. PICK k \in Twins[j] : CallPost(r, "transfer", Transfer(j, k, q))
    BY <2>1
  <2>3. k \in Keys /\ j # k
    BY LedgerAssumption
  <2>4. Proper("transfer", Transfer(j, k, q))
    BY <2>3 DEF Proper, Transfer
  <2> QED
    BY <1>1, <2>2, <2>3, <2>4, CallPostKeeps
<1>5. CASE CreateMovement(r)
  <2>1. PICK k \in Keys, q \in Quantities :
           \E m \in {Receipt(k, q), Issue(k, q), Adjustment(None, k, q), Adjustment(k, None, q)}
                    \cup {Transfer(j, k, q) : j \in Twins[k] \cup {k}} : CallPost(r, "plain", m)
    BY <1>5 DEF CreateMovement
  <2>2. PICK m \in {Receipt(k, q), Issue(k, q), Adjustment(None, k, q), Adjustment(k, None, q)}
                   \cup {Transfer(j, k, q) : j \in Twins[k] \cup {k}} : CallPost(r, "plain", m)
    BY <2>1
  <2>3. Twins[k] \cup {k} \subseteq Keys
    BY LedgerAssumption
  <2>4. m \in Movement /\ Sides(m) # {}
    <3>1. CASE \E j \in Twins[k] \cup {k} : m = Transfer(j, k, q)
      <4>1. PICK j \in Keys : m = Transfer(j, k, q)
        BY <2>3, <3>1
      <4> QED
        BY <1>1, <4>1
    <3>2. CASE m \in {Receipt(k, q), Issue(k, q), Adjustment(None, k, q), Adjustment(k, None, q)}
      BY <1>1, <3>2
    <3> QED
      BY <3>1, <3>2
  <2>5. Proper("plain", m)
    BY <2>4 DEF Proper
  <2> QED
    BY <2>2, <2>4, <2>5, CallPostKeeps
<1>6. CASE AdjustStock(r) \/ DeleteStock(r)
  BY <1>6, CallRowKeeps DEF AdjustStock, DeleteStock, Stale
<1>7. CASE ReserveRow(r) \/ ReleaseRow(r)
  BY <1>7, CallOrderKeeps DEF ReserveRow, ReleaseRow
<1>8. CASE DeleteMovement(r)
  BY <1>8, DeleteMovementKeeps DEF DeleteMovement
<1> QED
  BY <1>2, <1>3, <1>4, <1>5, <1>6, <1>7, <1>8 DEF Start

\* Every commit keeps the invariant.
LEMMA CommitKeeps ==
    ASSUME IInv, NEW r \in Reqs, Commit(r)
    PROVE  IInv'
BY CommitPostKeeps, CommitToItselfKeeps, CommitAdjustKeeps, CommitDeleteStockKeeps, CommitDeleteMovementKeeps,
   CommitOrderKeeps DEF Commit

\* The invariant holds at first.
LEMMA InitHolds == Init => IInv
<1> SUFFICES ASSUME Init
             PROVE  IInv
  OBVIOUS
<1>1. TypeOK
  BY Empties DEF Init, TypeOK
<1>2. RowShape /\ Explained
  BY DEF Init, RowShape, Explained, Twofold, NoRow
<1>3. Exclusive
  BY DEF Init, Exclusive, NoReq
<1>4. \A r \in Reqs : Good(stock, req[r])
  BY Empties DEF Init
<1> QED
  BY <1>1, <1>2, <1>3, <1>4 DEF IInv

\* The invariant is inductive.
LEMMA NextKeeps == IInv /\ [Next]_vars => IInv'
<1> SUFFICES ASSUME IInv, [Next]_vars
             PROVE  IInv'
  OBVIOUS
<1>1. CASE Next
  BY <1>1, StartKeeps, LockIdentityKeeps, SelectKeeps, LockKeeps, CommitKeeps, RejectKeeps
  DEF Next, Abort
<1>2. CASE UNCHANGED vars
  BY <1>2 DEF vars, IInv, TypeOK, RowShape, Explained, Twofold, SelfAt, Blocked, Exclusive
<1> QED
  BY <1>1, <1>2

\* What a request has read under a lock is true until it commits.
THEOREM InductiveInvariant == Spec => []IInv
BY InitHolds, NextKeeps, PTL DEF Spec

\* Every variable keeps its type, whatever endpoints are in use.
THEOREM LedgerTypeCorrect == Spec => []TypeOK
BY InductiveInvariant, PTL DEF IInv

\* Whatever endpoints are in use, a stock identity has two rows only while a
\* transfer from its warehouse to itself stands in the ledger.
THEOREM TwoRowsExplained == Spec => []TwoRowsFromOneTransfer
<1>1. IInv => TwoRowsFromOneTransfer
  BY DEF IInv, Explained, Twofold, SelfAt, TwoRowsFromOneTransfer
<1> QED
  BY <1>1, InductiveInvariant, PTL

-----------------------------------------------------------------------------
(* What a checked posting does to a row. *)

\* An entry, an issue or a transfer leaves a row alone, inserts it, or adds
\* to what is there now; it takes only what is available now.
LEMMA Takes ==
    ASSUME IInv, NEW r \in Reqs, \A y \in req[r].rows : stock[y] # NoRow,
           req[r].op \in {"entry", "issue", "transfer"}, CommitPost(r), NEW y \in Rows
    PROVE  \/ stock'[y] = stock[y]
           \/ \E k \in Keys, d \in Nat :
                stock'[y] = [key |-> k, onHand |-> d, reserved |-> 0, available |-> d]
                /\ stock[y] = NoRow
           \/ \E d \in Int : /\ stock'[y] = Written(y, stock[y], stock[y].onHand + d)
                             /\ d < 0 => stock[y].available >= -d
<1> DEFINE M == req[r].move
<1>1. /\ req[r] \in Request /\ Good(stock, req[r]) /\ stock \in [Rows -> StockRow]
      /\ Proper(req[r].op, M) /\ M \in Movement
  BY DEF IInv, TypeOK, Good, Posting, Request
<1>2. PICK new \in [Sides(M) -> Rows \cup {None}] :
         /\ \A k \in Sides(M) : (new[k] = None) <=> (Found(r, k) # {})
         /\ \A k \in Sides(M) : new[k] # None => UnusedRow(new[k])
         /\ stock' = Posted(r, new)
  BY DEF CommitPost
<1>3. None \notin Keys /\ None \notin Rows /\ Sides(M) \subseteq Keys
  BY <1>1, SidesAreKeys, LedgerAssumption
<1>4. M.qty \in Nat
  BY <1>1 DEF Movement
<1>5. \A k \in Sides(M) : /\ Delta(r, k) \in Int
                          /\ Delta(r, k) < 0 => k = M.from /\ Delta(r, k) = - M.qty
                                                /\ req[r].op \in {"issue", "transfer"}
  BY SMTT(30), <1>1, <1>3, <1>4 DEF Delta, Effect, Sides, Place, Proper, Movement
<1>6. \A k \in Sides(M) : \A x \in Found(r, k) :
         x \in Rows /\ req[r].seen[x] = stock[x] /\ stock[x].key = k
  BY <1>1 DEF Found, Selects, Good, Stale, Request
<1>7. req[r].op \in {"issue", "transfer"} =>
         \E x \in Found(r, M.from) : stock[x].available >= M.qty
  <2>1. req[r].op \in {"issue", "transfer"} => M.from \in Sides(M)
    BY <1>1, <1>3 DEF Proper, Sides, Place
  <2> QED
    BY <1>6, <2>1 DEF CommitPost, Covered
<1>8. CASE \E k \in Sides(M) : y = new[k]
  <2> DEFINE k == CHOOSE k \in Sides(M) : y = new[k]
  <2>1. k \in Sides(M) /\ y = new[k] /\ new[k] # None
    BY <1>3, <1>8
  <2>2. stock'[y] = [key |-> k, onHand |-> Delta(r, k), reserved |-> 0,
                     available |-> Delta(r, k)]
    BY <1>2, <1>8 DEF Posted
  <2> HIDE DEF k
  <2>3. Found(r, k) = {} /\ stock[y] = NoRow
    BY <1>2, <2>1 DEF UnusedRow
  <2>4. ~(Delta(r, k) < 0)
    BY <1>5, <1>7, <2>1, <2>3
  <2>5. Delta(r, k) \in Nat /\ k \in Keys
    BY <1>3, <1>5, <2>1, <2>4
  <2> QED
    BY <2>2, <2>3, <2>5
<1>9. CASE /\ ~ \E k \in Sides(M) : y = new[k]
           /\ \E k \in Sides(M) : y \in Found(r, k)
  <2> DEFINE k == CHOOSE k \in Sides(M) : y \in Found(r, k)
  <2>1. k \in Sides(M) /\ y \in Found(r, k)
    BY <1>9
  <2>2. stock'[y] = Written(y, req[r].seen[y], req[r].seen[y].onHand + Delta(r, k))
    BY <1>2, <1>9 DEF Posted
  <2> HIDE DEF k
  <2>3. stock[y].key = k /\ stock'[y] = Written(y, stock[y], stock[y].onHand + Delta(r, k))
    BY <1>6, <2>1, <2>2
  <2>4. ASSUME Delta(r, k) < 0
        PROVE  stock[y].available >= - Delta(r, k)
    <3>1. k = M.from /\ Delta(r, k) = - M.qty /\ req[r].op \in {"issue", "transfer"}
      BY <1>5, <2>1, <2>4
    <3>2. PICK x \in Found(r, k) : stock[x].available >= M.qty
      BY <1>7, <3>1
    <3>3. x = y
      BY <1>1, <1>6, <2>1, <2>3, <3>2 DEF Good, Posting, Found
    <3>4. - Delta(r, k) = M.qty
      BY <1>4, <3>1
    <3> QED
      BY <3>2, <3>3, <3>4
  <2> QED
    BY <1>5, <2>1, <2>3, <2>4
<1>10. CASE /\ ~ \E k \in Sides(M) : y = new[k]
            /\ ~ \E k \in Sides(M) : y \in Found(r, k)
  BY <1>2, <1>10 DEF Posted
<1> QED
  BY <1>8, <1>9, <1>10

\* Only a commit writes stock; it ends its own request and leaves the others.
LEMMA OnlyCommitsWrite ==
    ASSUME IInv, NEW r \in Reqs,
           \/ Start(r) \/ LockIdentity(r) \/ Select(r) \/ Lock(r) \/ Commit(r) \/ Abort(r)
    PROVE  /\ (stock' = stock /\ moves' = moves) \/ Commit(r)
           /\ \A q \in Reqs \ {r} : req'[q] = req[q]
<1>1. req \in [Reqs -> Request]
  BY DEF IInv, TypeOK
<1>2. CASE Commit(r)
  BY <1>1, <1>2 DEF Commit, CommitPost, CommitToItself, CommitAdjust, CommitDeleteStock,
                    CommitDeleteMovement, CommitReserve, CommitRelease, Finish
<1>3. CASE ~Commit(r)
  <2>1. \E x : Move(r, x)
    <3>1. CASE Start(r)
      BY <3>1 DEF Start, StockEntry, StockIssue, StockTransfer, CreateMovement, CallPost,
                  AdjustStock, DeleteStock, CallRow, ReserveRow, ReleaseRow, CallOrder,
                  DeleteMovement
    <3>2. CASE LockIdentity(r) \/ Abort(r)
      BY <3>2 DEF LockIdentity, Abort, Reject
    <3>3. CASE Select(r) \/ Lock(r)
      BY <3>3 DEF Select, Lock, Locked, Reject
    <3> QED
      BY <1>3, <3>1, <3>2, <3>3
  <2> QED
    BY <1>1, <2>1 DEF Move
<1> QED
  BY <1>2, <1>3

\* Only a movement posted by itself goes from a key to itself.
LEMMA OnlyPlainToItself ==
    ASSUME IInv, NEW r \in Reqs, CommitToItself(r)
    PROVE  req[r].op = "plain"
BY DEF IInv, Good, Proper, Posting, CommitToItself, AddsTwice

\* A row that is written with what was read from it keeps its reservation and
\* takes the new quantity.
LEMMA WrittenRow ==
    ASSUME NEW y \in Rows, stock[y] \in StockRow, NEW h \in Int
    PROVE  /\ Written(y, stock[y], h).onHand = h
           /\ Written(y, stock[y], h).reserved = stock[y].reserved
           /\ Written(y, stock[y], h).available = h - stock[y].reserved
<1>1. stock[y].reserved \in Nat /\ stock[y].available \in Int
  BY DEF StockRow
<1> DEFINE a == IF h - stock[y].reserved = stock[y].available THEN stock[y].available
                ELSE h - stock[y].reserved
<1>2. a = h - stock[y].reserved
  BY <1>1
<1>3. Written(y, stock[y], h) = [stock[y] EXCEPT !.onHand = h, !.available = a]
  BY DEF Written
<1> HIDE DEF a
<1> QED
  BY <1>2, <1>3 DEF StockRow

\* One step takes only what is available.
LEMMA StepTakes ==
    ASSUME IInv, [Next]_vars, NEW r \in Reqs, NEW x \in Rows,
           req[r].op \in {"issue", "transfer"}, req'[r] = NoReq,
           stock'[x].onHand < stock[x].onHand
    PROVE  stock[x].available >= stock[x].onHand - stock'[x].onHand
<1>1. stock \in [Rows -> StockRow] /\ stock[x].onHand \in Int
  BY DEF IInv, TypeOK, StockRow
<1>2. stock' # stock
  BY <1>1
<1>3. PICK q \in Reqs : Start(q) \/ LockIdentity(q) \/ Select(q) \/ Lock(q) \/ Commit(q) \/ Abort(q)
  BY <1>2 DEF Next, vars
<1>4. Commit(q) /\ \A p \in Reqs \ {q} : req'[p] = req[p]
  BY <1>2, <1>3, OnlyCommitsWrite
<1>5. r = q
  BY <1>4 DEF NoReq
<1>6. CommitPost(r) /\ \A y \in req[r].rows : stock[y] # NoRow
  BY <1>4, <1>5, OnlyPlainToItself
  DEF Commit, CommitAdjust, CommitDeleteStock, CommitDeleteMovement, CommitReserve, CommitRelease
<1>7. \/ stock'[x] = stock[x]
      \/ \E k \in Keys, d \in Nat :
           stock'[x] = [key |-> k, onHand |-> d, reserved |-> 0, available |-> d]
           /\ stock[x] = NoRow
      \/ \E d \in Int : /\ stock'[x] = Written(x, stock[x], stock[x].onHand + d)
                        /\ d < 0 => stock[x].available >= -d
  BY <1>6, Takes
<1>8. CASE stock'[x] = stock[x]
  BY <1>1, <1>8
<1>9. CASE \E k \in Keys, d \in Nat :
             stock'[x] = [key |-> k, onHand |-> d, reserved |-> 0, available |-> d]
             /\ stock[x] = NoRow
  BY <1>9 DEF NoRow
<1>10. CASE \E d \in Int : /\ stock'[x] = Written(x, stock[x], stock[x].onHand + d)
                           /\ d < 0 => stock[x].available >= -d
  <2>1. PICK d \in Int : /\ stock'[x] = Written(x, stock[x], stock[x].onHand + d)
                         /\ d < 0 => stock[x].available >= -d
    BY <1>10
  <2>2. stock[x].onHand + d \in Int /\ stock[x].available \in Int
    BY <1>1 DEF StockRow
  <2>3. stock'[x].onHand = stock[x].onHand + d
    BY <1>1, <2>1, <2>2, WrittenRow
  <2> QED
    BY <1>1, <2>1, <2>2, <2>3
<1> QED
  BY <1>7, <1>8, <1>9, <1>10

\* An issue or a transfer takes only goods that are available at its commit,
\* whatever endpoints are in use.
THEOREM Available == Spec => TakesOnlyAvailable
<1>1. IInv /\ [Next]_vars =>
        [\A r \in Reqs, x \in Rows :
           /\ req[r].op \in {"issue", "transfer"} /\ req'[r] = NoReq
           /\ stock'[x].onHand < stock[x].onHand
           => stock[x].available >= stock[x].onHand - stock'[x].onHand]_vars
  BY StepTakes
<1> QED
  BY <1>1, InductiveInvariant, PTL DEF Spec, TakesOnlyAvailable

-----------------------------------------------------------------------------
(* Balances. *)

Sound == {"entry", "issue", "transfer", "reserve", "release"}
InUse == \A r \in Reqs : req[r].op \in Ops \cup {"none"}

\* A request is of an endpoint in use.
LEMMA InUseKeeps ==
    ASSUME IInv, InUse, [Next]_vars
    PROVE  InUse'
<1>1. req \in [Reqs -> Request] /\ NoReq.op = "none"
  BY DEF IInv, TypeOK, NoReq
<1>2. CASE UNCHANGED vars
  BY <1>2 DEF InUse, vars
<1>3. CASE Next
  <2>1. PICK r \in Reqs : Start(r) \/ LockIdentity(r) \/ Select(r) \/ Lock(r) \/ Commit(r) \/ Abort(r)
    BY <1>3 DEF Next
  <2>2. \A q \in Reqs \ {r} : req'[q] = req[q]
    BY <2>1, OnlyCommitsWrite
  <2>3. req[r] \in Request /\ \A x : Move(r, x) => req'[r] = x
    BY <1>1 DEF Move
  <2>4. SUFFICES req'[r].op \in Ops \cup {"none"}
    BY <2>2 DEF InUse
  <2>5. CASE Commit(r)
    BY <1>1, <2>5 DEF Commit, CommitPost, CommitToItself, CommitAdjust, CommitDeleteStock,
       CommitDeleteMovement, CommitReserve, CommitRelease, Finish
  <2>6. CASE Abort(r)
    BY <1>1, <2>3, <2>6 DEF Abort, Reject
  <2>7. CASE LockIdentity(r)
    <3> DEFINE x == Holding(r, req[r].move, req[r].keys \cup {NextIdentity(r)})
    <3>1. x.op = req[r].op
      BY <2>3 DEF Holding, Request
    <3>2. Move(r, x)
      BY <2>7 DEF LockIdentity
    <3> HIDE DEF x
    <3> QED
      BY <2>3, <3>1, <3>2 DEF InUse
  <2>8. ASSUME NEW found, Locked(r, found)
        PROVE  req'[r].op \in Ops \cup {"none"}
    <3> DEFINE got == {y \in found : stock[y] # NoRow}
               todo == req[r].todo \ {NextKey(r)}
               seen == [y \in Rows |-> IF y \in got /\ req[r].op \notin Stale THEN stock[y]
                                       ELSE req[r].seen[y]]
               x == [req[r] EXCEPT !.rows = @ \cup got, !.found = {}, !.seen = seen,
                                   !.todo = todo, !.pc = IF todo = {} THEN "commit" ELSE "rows"]
    <3>1. Reject(r) \/ Move(r, x)
      BY <2>8 DEF Locked
    <3>2. x.op = req[r].op
      BY <2>3 DEF Request
    <3> HIDE DEF x
    <3> QED
      BY <1>1, <2>3, <3>1, <3>2 DEF Reject, InUse
  <2>9. CASE Select(r) \/ Lock(r)
    <3> DEFINE x == [req[r] EXCEPT !.pc = "wait", !.found = Matching(r)]
    <3>1. Move(r, x) \/ \E found : Locked(r, found)
      BY <2>9 DEF Select, Lock
    <3>2. x.op = req[r].op
      BY <2>3 DEF Request
    <3> HIDE DEF x
    <3> QED
      BY <2>3, <2>8, <3>1, <3>2 DEF InUse
  <2>10. CASE StockEntry(r) \/ StockIssue(r) \/ StockTransfer(r) \/ CreateMovement(r)
    <3>1. \E op \in Ops : \E m : CallPost(r, op, m)
      BY <2>10 DEF StockEntry, StockIssue, StockTransfer, CreateMovement, CallPost
    <3>2. PICK op \in Ops : \E m : CallPost(r, op, m)
      BY <3>1
    <3>5. PICK m : CallPost(r, op, m)
      BY <3>2
    <3> DEFINE h == Holding(r, m, {FirstIdentity(m, Sides(m))})
               x == [h EXCEPT !.op = op, !.move = m, !.todo = Sides(m)]
    <3>3. Move(r, x)
      BY <3>5 DEF CallPost
    <3>4. x.op = op
      BY <2>3 DEF Holding, Request
    <3> HIDE DEF x
    <3> QED
      BY <2>3, <3>3, <3>4
  <2>11. CASE AdjustStock(r) \/ DeleteStock(r)
    <3>1. PICK op \in Ops, y \in Rows : CallRow(r, op, y)
      BY <2>11 DEF AdjustStock, DeleteStock, CallRow
    <3> DEFINE x == [req[r] EXCEPT !.op = op, !.pc = "wait", !.found = {y}, !.seen[y] = stock[y]]
    <3>2. Move(r, x)
      BY <3>1 DEF CallRow
    <3>3. x.op = op
      BY <2>3 DEF Request
    <3> HIDE DEF x
    <3> QED
      BY <2>3, <3>2, <3>3
  <2>12. CASE ReserveRow(r) \/ ReleaseRow(r)
    <3>1. PICK op \in Ops, y \in Rows : CallOrder(r, op, y)
      BY <2>12 DEF ReserveRow, ReleaseRow, CallOrder
    <3> DEFINE x == [req[r] EXCEPT !.op = op, !.pc = "commit", !.rows = {y}, !.seen[y] = stock[y]]
    <3>2. Move(r, x)
      BY <3>1 DEF CallOrder
    <3>3. x.op = op
      BY <2>3 DEF Request
    <3> HIDE DEF x
    <3> QED
      BY <2>3, <3>2, <3>3
  <2>13. CASE DeleteMovement(r)
    <3>1. PICK m \in Movements :
             /\ "delete_movement" \in Ops
             /\ Move(r, [req[r] EXCEPT !.op = "delete_movement", !.pc = "rows", !.id = m,
                                       !.move = moves[m], !.todo = Sides(moves[m])])
      BY <2>13 DEF DeleteMovement
    <3> DEFINE x == [req[r] EXCEPT !.op = "delete_movement", !.pc = "rows", !.id = m,
                                   !.move = moves[m], !.todo = Sides(moves[m])]
    <3>2. Move(r, x) /\ "delete_movement" \in Ops
      BY <3>1
    <3>3. x.op = "delete_movement"
      BY <2>3 DEF Request
    <3> HIDE DEF x
    <3> QED
      BY <2>3, <3>2, <3>3
  <2> QED
    BY <2>1, <2>5, <2>6, <2>7, <2>9, <2>10, <2>11, <2>12, <2>13 DEF Start
<1> QED
  BY <1>2, <1>3

NoneToItself == \A m \in Movements, k \in Keys : ~SelfAt(m, k)

\* Without movements posted by themselves, no transfer goes from a key to itself.
LEMMA NoneToItselfKeeps ==
    ASSUME "plain" \notin Ops, IInv, InUse, NoneToItself, [Next]_vars
    PROVE  NoneToItself'
<1> SUFFICES ASSUME NEW m \in Movements, NEW k \in Keys, moves'[m] # moves[m]
             PROVE  ~SelfAt(m, k)'
  BY DEF NoneToItself, SelfAt
<1>1. moves \in [Movements -> Movement] /\ None \notin Keys
  BY LedgerAssumption DEF IInv, TypeOK
<1>2. PICK r \in Reqs : Start(r) \/ LockIdentity(r) \/ Select(r) \/ Lock(r) \/ Commit(r) \/ Abort(r)
  BY DEF Next, vars
<1>3. Commit(r)
  BY <1>2, OnlyCommitsWrite
<1>4. req[r].op \in Posting => Proper(req[r].op, req[r].move) /\ req[r].op # "plain"
  BY DEF IInv, Good, InUse
<1>5. CASE CommitPost(r)
  <2>1. moves'[m] = req[r].move /\ req[r].op \in Posting
    BY <1>1, <1>5 DEF CommitPost
  <2> QED
    BY <1>1, <1>4, <2>1 DEF SelfAt, Proper, Posting
<1>6. CASE CommitToItself(r)
  BY <1>4, <1>6, OnlyPlainToItself DEF CommitToItself
<1>7. CASE CommitAdjust(r)
  <2>1. moves'[m].kind = "adjustment"
    BY <1>1, <1>7 DEF CommitAdjust, Adjustment
  <2> QED
    BY <2>1 DEF SelfAt
<1>8. CASE CommitDeleteMovement(r)
  <2>1. moves'[m].kind = "adjustment"
    BY <1>1, <1>8 DEF CommitDeleteMovement, NoMove
  <2> QED
    BY <2>1 DEF SelfAt
<1> QED
  BY <1>3, <1>5, <1>6, <1>7, <1>8
  DEF Commit, CommitDeleteStock, CommitReserve, CommitRelease

\* Without movements posted by themselves no stock identity ever has two rows,
\* adjustments, reversals and deletions included.
THEOREM OneRow ==
    ASSUME "plain" \notin Ops
    PROVE  Spec => []OneRowPerIdentity
<1>1. Init => InUse /\ NoneToItself
  BY LedgerAssumption DEF Init, InUse, NoneToItself, SelfAt, NoReq, NoMove
<1>2. IInv /\ InUse /\ NoneToItself /\ [Next]_vars => InUse' /\ NoneToItself'
  BY InUseKeeps, NoneToItselfKeeps
<1>3. IInv /\ NoneToItself => OneRowPerIdentity
  BY DEF IInv, TypeOK, StockRow, Explained, Twofold, NoneToItself, OneRowPerIdentity
<1> QED
  BY <1>1, <1>2, <1>3, InductiveInvariant, PTL DEF Spec

\* One step keeps the balances.
LEMMA BalancesKeep ==
    ASSUME Ops \subseteq Sound, IInv, InUse, BalancesAgree, [Next]_vars
    PROVE  BalancesAgree'
<1> SUFFICES ASSUME NEW y \in Rows
             PROVE  /\ stock'[y].available = stock'[y].onHand - stock'[y].reserved
                    /\ stock'[y].available >= 0
  BY DEF BalancesAgree
<1>1. /\ stock \in [Rows -> StockRow] /\ stock[y].onHand \in Int /\ stock[y].reserved \in Nat
      /\ stock[y].available \in Int
      /\ stock[y].available = stock[y].onHand - stock[y].reserved /\ stock[y].available >= 0
  BY DEF IInv, TypeOK, StockRow, BalancesAgree
<1>2. CASE stock'[y] = stock[y]
  BY <1>1, <1>2
<1>3. CASE stock'[y] # stock[y]
  <2>1. PICK r \in Reqs : Start(r) \/ LockIdentity(r) \/ Select(r) \/ Lock(r) \/ Commit(r) \/ Abort(r)
    BY <1>3 DEF Next, vars
  <2>2. Commit(r) /\ req[r].op \in Sound \cup {"none"}
    BY <1>3, <2>1, OnlyCommitsWrite DEF InUse
  <2>3. \A x \in req[r].rows : stock[x] # NoRow
    BY <2>2 DEF Commit
  <2>4. CASE CommitPost(r)
    <3>1. req[r].op \in {"entry", "issue", "transfer"}
      BY <2>2, <2>4 DEF CommitPost, Posting, Sound
    <3>2. \/ stock'[y] = stock[y]
          \/ \E k \in Keys, d \in Nat :
               stock'[y] = [key |-> k, onHand |-> d, reserved |-> 0, available |-> d]
               /\ stock[y] = NoRow
          \/ \E d \in Int : /\ stock'[y] = Written(y, stock[y], stock[y].onHand + d)
                            /\ d < 0 => stock[y].available >= -d
      BY <2>3, <2>4, <3>1, Takes
    <3>3. CASE \E k \in Keys, d \in Nat :
                 stock'[y] = [key |-> k, onHand |-> d, reserved |-> 0, available |-> d]
                 /\ stock[y] = NoRow
      BY <3>3
    <3>4. CASE \E d \in Int : /\ stock'[y] = Written(y, stock[y], stock[y].onHand + d)
                              /\ d < 0 => stock[y].available >= -d
      <4>1. PICK d \in Int : /\ stock'[y] = Written(y, stock[y], stock[y].onHand + d)
                             /\ d < 0 => stock[y].available >= -d
        BY <3>4
      <4> DEFINE h == stock[y].onHand + d
      <4>2. h \in Int /\ stock[y] \in StockRow
        BY <1>1
      <4>3. h = stock[y].onHand + d /\ stock'[y] = Written(y, stock[y], h)
        BY <4>1
      <4> HIDE DEF h
      <4>4. /\ stock'[y].reserved = stock[y].reserved
            /\ stock'[y].onHand = h /\ stock'[y].available = h - stock[y].reserved
        BY <4>2, <4>3, WrittenRow
      <4> QED
        BY <1>1, <4>1, <4>2, <4>3, <4>4
    <3> QED
      BY <1>3, <3>2, <3>3, <3>4
  <2>5. CASE CommitReserve(r) \/ CommitRelease(r)
    <3>1. PICK x \in req[r].rows, n \in Nat, a \in Int :
             /\ stock' = [stock EXCEPT ![x].reserved = n, ![x].available = a]
             /\ stock[x].available = stock[x].onHand - stock[x].reserved
                => a = stock[x].onHand - n /\ (stock[x].available >= 0 => a >= 0)
      BY <2>3, <2>5, OrderWrites
    <3>2. x = y
      BY <1>1, <1>3, <3>1
    <3>3. /\ stock'[y].onHand = stock[y].onHand /\ stock'[y].reserved = n
          /\ stock'[y].available = a
      BY <1>1, <3>1, <3>2 DEF StockRow
    <3> QED
      BY <1>1, <3>1, <3>2, <3>3
  <2> QED
    BY <2>2, <2>4, <2>5, OnlyPlainToItself
    DEF Commit, CommitAdjust, CommitDeleteStock, CommitDeleteMovement, Sound
<1> QED
  BY <1>2, <1>3

\* As long as only entries, issues, transfers, reservations and releases are
\* in use, the balances of every row agree and none is negative.
THEOREM Balances ==
    ASSUME Ops \subseteq Sound
    PROVE  Spec => []BalancesAgree
<1>1. Init => InUse /\ BalancesAgree
  BY DEF Init, InUse, BalancesAgree, NoReq, NoRow
<1>2. IInv /\ InUse /\ BalancesAgree /\ [Next]_vars => InUse' /\ BalancesAgree'
  BY InUseKeeps, BalancesKeep
<1> QED
  BY <1>1, <1>2, InductiveInvariant, PTL DEF Spec

-----------------------------------------------------------------------------
(* When stock cannot go negative. *)

\* Quantities that issues and reversals may trust.
Trusted == \A x \in Rows : /\ stock[x].available = stock[x].onHand - stock[x].reserved
                           /\ stock[x].onHand >= 0

\* A commit of anything but an unchecked movement or an adjustment keeps them.
LEMMA TrustKeeps ==
    ASSUME Ops \cap {"plain", "adjust"} = {}, IInv, InUse, Trusted, [Next]_vars
    PROVE  Trusted'
<1> SUFFICES ASSUME NEW y \in Rows
             PROVE  /\ stock'[y].available = stock'[y].onHand - stock'[y].reserved
                    /\ stock'[y].onHand >= 0
  BY DEF Trusted
<1>1. /\ stock \in [Rows -> StockRow] /\ stock[y].onHand \in Int /\ stock[y].reserved \in Nat
      /\ stock[y].available \in Int
      /\ stock[y].available = stock[y].onHand - stock[y].reserved /\ stock[y].onHand >= 0
  BY DEF IInv, TypeOK, StockRow, Trusted
<1>2. CASE stock'[y] = stock[y]
  BY <1>1, <1>2
<1>3. ASSUME NEW h \in Int, h >= 0, stock'[y] = Written(y, stock[y], h)
      PROVE  /\ stock'[y].available = stock'[y].onHand - stock'[y].reserved
             /\ stock'[y].onHand >= 0
  <2>1. /\ stock'[y].reserved = stock[y].reserved
        /\ stock'[y].onHand = h /\ stock'[y].available = h - stock[y].reserved
    BY <1>1, <1>3, WrittenRow
  <2> QED
    BY <1>3, <2>1
<1>4. CASE stock'[y] # stock[y]
  <2>1. PICK r \in Reqs : Start(r) \/ LockIdentity(r) \/ Select(r) \/ Lock(r) \/ Commit(r) \/ Abort(r)
    BY <1>4 DEF Next, vars
  <2>2. Commit(r) /\ req[r].op \notin {"plain", "adjust"}
    BY <1>4, <2>1, OnlyCommitsWrite DEF InUse
  <2>3. \A x \in req[r].rows : stock[x] # NoRow
    BY <2>2 DEF Commit
  <2>4. CASE CommitPost(r)
    <3>1. req[r].op \in {"entry", "issue", "transfer"}
      BY <2>2, <2>4 DEF CommitPost, Posting
    <3>2. \/ \E k \in Keys, d \in Nat :
               stock'[y] = [key |-> k, onHand |-> d, reserved |-> 0, available |-> d]
          \/ \E d \in Int : /\ stock'[y] = Written(y, stock[y], stock[y].onHand + d)
                            /\ d < 0 => stock[y].available >= -d
      BY <1>4, <2>3, <2>4, <3>1, Takes
    <3>3. CASE \E d \in Int : /\ stock'[y] = Written(y, stock[y], stock[y].onHand + d)
                              /\ d < 0 => stock[y].available >= -d
      <4>1. PICK d \in Int : /\ stock'[y] = Written(y, stock[y], stock[y].onHand + d)
                             /\ d < 0 => stock[y].available >= -d
        BY <3>3
      <4>2. stock[y].onHand + d \in Int /\ stock[y].onHand + d >= 0
        BY <1>1, <4>1
      <4> QED
        BY <1>3, <4>1, <4>2
    <3>4. CASE \E k \in Keys, d \in Nat :
                 stock'[y] = [key |-> k, onHand |-> d, reserved |-> 0, available |-> d]
      BY <3>4
    <3> QED
      BY <3>2, <3>3, <3>4
  <2>5. CASE CommitReserve(r) \/ CommitRelease(r)
    <3>1. PICK x \in req[r].rows, n \in Nat, a \in Int :
             /\ stock' = [stock EXCEPT ![x].reserved = n, ![x].available = a]
             /\ stock[x].available = stock[x].onHand - stock[x].reserved => a = stock[x].onHand - n
      BY <2>3, <2>5, OrderWrites
    <3>2. x = y
      BY <1>1, <1>4, <3>1
    <3>3. /\ stock'[y].onHand = stock[y].onHand /\ stock'[y].reserved = n
          /\ stock'[y].available = a
      BY <1>1, <3>1, <3>2 DEF StockRow
    <3> QED
      BY <1>1, <3>1, <3>2, <3>3
  <2>6. CASE CommitDeleteStock(r)
    <3>1. stock'[y] = NoRow
      BY <1>1, <1>4, <2>6 DEF CommitDeleteStock
    <3> QED
      BY <3>1 DEF NoRow
  <2>7. CASE CommitDeleteMovement(r)
    <3> DEFINE M == req[r].move
               new == [k \in Sides(M) |-> None]
    <3>1. /\ req[r] \in Request /\ Good(stock, req[r]) /\ M \in Movement /\ None \notin Rows
          /\ req[r].op \notin Stale
      BY <2>7, LedgerAssumption DEF IInv, TypeOK, Request, CommitDeleteMovement, Stale
    <3>2. /\ stock' = Posted(r, new)
          /\ \A k \in Sides(M) : y \in Found(r, k) => stock'[y].onHand >= 0
      BY <2>7 DEF CommitDeleteMovement
    <3>3. ~ \E k \in Sides(M) : y = new[k]
      BY <3>1
    <3> DEFINE k == CHOOSE k \in Sides(M) : y \in Found(r, k)
    <3>4. \E j \in Sides(M) : y \in Found(r, j)
      BY <1>4, <3>2, <3>3 DEF Posted
    <3>5. k \in Sides(M) /\ y \in Found(r, k)
      BY <3>4
    <3>6. stock'[y] = Written(y, req[r].seen[y], req[r].seen[y].onHand + Delta(r, k))
      BY <3>2, <3>3, <3>4 DEF Posted
    <3> HIDE DEF k, new
    <3>7. req[r].seen[y] = stock[y]
      BY <3>1, <3>5 DEF Found, Good
    <3>8. Delta(r, k) \in Int
      BY <3>1 DEF Delta, Effect, Movement
    <3> DEFINE h == stock[y].onHand + Delta(r, k)
    <3>9. h \in Int /\ stock'[y] = Written(y, stock[y], h)
      BY <1>1, <3>6, <3>7, <3>8
    <3>10. stock'[y].onHand >= 0
      BY <3>2, <3>5
    <3> HIDE DEF h
    <3>11. stock'[y].onHand = h
      BY <1>1, <3>9, WrittenRow
    <3> QED
      BY <1>3, <3>9, <3>10, <3>11
  <2>8. ~CommitAdjust(r)
    BY <2>2 DEF CommitAdjust
  <2> QED
    BY <2>2, <2>4, <2>5, <2>6, <2>7, <2>8, OnlyPlainToItself DEF Commit
<1> QED
  BY <1>2, <1>4

\* Stock cannot go negative as long as nobody adjusts a row or posts a movement
\* by itself: receipts, issues, transfers, reservations, releases, deletions of
\* rows and reversals never take a quantity below zero, for any number of calls.
THEOREM StockNotNegative ==
    ASSUME Ops \cap {"plain", "adjust"} = {}
    PROVE  Spec => []NeverNegative
<1>1. Init => InUse /\ Trusted
  BY DEF Init, InUse, Trusted, NoReq, NoRow
<1>2. IInv /\ InUse /\ Trusted /\ [Next]_vars => InUse' /\ Trusted'
  BY InUseKeeps, TrustKeeps
<1>3. Trusted => NeverNegative
  BY DEF Trusted, NeverNegative
<1> QED
  BY <1>1, <1>2, <1>3, InductiveInvariant, PTL DEF Spec

-----------------------------------------------------------------------------
(* Waiting. *)

\* A request x that has read stock rows st: a sales order never waits, the
\* rows that a posting holds or waits for are of keys it holds, and it takes
\* its keys in ascending order.
Orderly(st, x) ==
    /\ x.op \in {"reserve", "release"} => x.pc = "commit"
    /\ x.op \in Posting =>
         /\ x.move.qty \in Quantities
         /\ \A y \in x.rows : st[y].key \in x.keys
         /\ x.pc = "wait" => \A y \in x.found : st[y].key \in x.keys
         /\ x.pc = "keys" => \A k \in x.keys, j \in Sides(x.move) \ x.keys : Rank[k] < Rank[j]

AllOrderly == \A r \in Reqs : Orderly(stock, req[r])

\* The commits of the calls that are checked.
LEMMA SoundCommit ==
    ASSUME Ops \subseteq Sound, IInv, InUse, NEW r \in Reqs, Commit(r)
    PROVE  /\ \A y \in req[r].rows : stock[y] # NoRow
           /\ \/ CommitPost(r) /\ req[r].op \in {"entry", "issue", "transfer"}
              \/ CommitReserve(r)
              \/ CommitRelease(r)
<1>1. req[r].op \in Sound \cup {"none"}
  BY DEF InUse
<1> QED
  BY <1>1, OnlyPlainToItself DEF Commit, CommitPost, CommitAdjust, CommitDeleteStock,
     CommitDeleteMovement, Sound, Posting

\* With these calls only, a row stays the row of its key.
LEMMA KeysStay ==
    ASSUME Ops \subseteq Sound, IInv, InUse, NEW r \in Reqs, Commit(r), NEW y \in Rows,
           stock[y].key # None
    PROVE  stock'[y].key = stock[y].key
<1>1. stock \in [Rows -> StockRow] /\ req[r].rows \subseteq Rows
  BY DEF IInv, TypeOK, Request
<1>2. \A z \in req[r].rows : stock[z] # NoRow
  BY SoundCommit
<1>3. CASE CommitPost(r) /\ req[r].op \in {"entry", "issue", "transfer"}
  <2>1. \/ stock'[y] = stock[y]
        \/ stock[y] = NoRow
        \/ \E d \in Int : stock'[y] = Written(y, stock[y], stock[y].onHand + d)
    BY <1>2, <1>3, Takes
  <2>2. CASE \E d \in Int : stock'[y] = Written(y, stock[y], stock[y].onHand + d)
    <3>1. PICK d \in Int : stock'[y] = Written(y, stock[y], stock[y].onHand + d)
      BY <2>2
    <3>2. stock[y].onHand + d \in Int
      BY <1>1 DEF StockRow
    <3> QED
      BY <1>1, <3>1, <3>2, WrittenType
  <2> QED
    BY <2>1, <2>2 DEF NoRow
<1>4. CASE CommitReserve(r) \/ CommitRelease(r)
  <2>1. PICK x \in req[r].rows, n \in Nat, a \in Int :
             /\ stock' = [stock EXCEPT ![x].reserved = n, ![x].available = a]
             /\ stock[x].available = stock[x].onHand - stock[x].reserved
                => a = stock[x].onHand - n /\ (stock[x].available >= 0 => a >= 0)
    BY <1>2, <1>4, OrderWrites
  <2>2. CASE x = y
    BY <1>1, <2>1, <2>2 DEF StockRow
  <2>3. CASE x # y
    BY <1>1, <2>1, <2>3
  <2> QED
    BY <2>2, <2>3
<1> QED
  BY <1>3, <1>4, SoundCommit

\* The first identity of a movement is the one of least rank.
LEMMA FirstIsLeast ==
    ASSUME NEW m \in Movement, NEW S \in SUBSET Sides(m), S # {}
    PROVE  /\ FirstIdentity(m, S) \in S
           /\ \A j \in S \ {FirstIdentity(m, S)} : Rank[FirstIdentity(m, S)] < Rank[j]
<1>1. S \subseteq {m.from, m.to} /\ S \subseteq Keys
  BY SidesAreKeys DEF Sides, Place
<1>2. \A j, k \in Keys : j # k => Rank[j] < Rank[k] \/ Rank[k] < Rank[j]
  <2>1. \A k \in Keys : Rank[k] \in 1 .. Cardinality(Keys)
    BY LedgerAssumption
  <2>2. Cardinality(Keys) \in Nat
    BY LedgerAssumption, FS_CardinalityType
  <2>3. \A k \in Keys : Rank[k] \in Int
    BY <2>1, <2>2
  <2>4. \A j, k \in Keys : Rank[j] = Rank[k] => j = k
    BY LedgerAssumption
  <2> QED
    BY <2>3, <2>4
<1> QED
  BY <1>1, <1>2 DEF FirstIdentity, Sorted, SourceFirst

\* A call begins in order.
LEMMA OrderlyStart ==
    ASSUME IInv, NEW r \in Reqs, Start(r), NEW z, \A x : Move(r, x) => z = x
    PROVE  Orderly(stock, z)
<1>1. CASE StockEntry(r) \/ StockIssue(r) \/ StockTransfer(r) \/ CreateMovement(r)
  <2>1. \A q \in Quantities, k \in Keys :
           /\ Receipt(k, q).qty = q /\ Receipt(k, q) \in Movement
           /\ Issue(k, q).qty = q /\ Issue(k, q) \in Movement
           /\ Adjustment(None, k, q).qty = q /\ Adjustment(None, k, q) \in Movement
           /\ Adjustment(k, None, q).qty = q /\ Adjustment(k, None, q) \in Movement
           /\ \A j \in Keys : Transfer(j, k, q).qty = q /\ Transfer(j, k, q) \in Movement
    BY LedgerAssumption DEF Receipt, Issue, Adjustment, Transfer, Movement
  <2>2. \A j \in Keys : Twins[j] \subseteq Keys
    BY LedgerAssumption
  <2>3. \E op \in Posting : \E m \in Movement :
           m.qty \in Quantities /\ Sides(m) # {} /\ CallPost(r, op, m)
    <3>1. \A k \in Keys, q \in Quantities :
             /\ Sides(Receipt(k, q)) = {k} /\ Sides(Issue(k, q)) = {k}
             /\ Sides(Adjustment(None, k, q)) = {k} /\ Sides(Adjustment(k, None, q)) = {k}
             /\ \A j \in Keys : Sides(Transfer(j, k, q)) = {j, k}
      BY LedgerAssumption DEF Receipt, Issue, Adjustment, Transfer, Sides, Place
    <3>2. CASE StockEntry(r)
      <4>1. PICK k \in Keys, q \in Quantities : CallPost(r, "entry", Receipt(k, q))
        BY <3>2 DEF StockEntry
      <4>2. Receipt(k, q) \in Movement /\ Receipt(k, q).qty = q /\ Sides(Receipt(k, q)) # {}
        BY <2>1, <3>1
      <4> QED
        BY <4>1, <4>2 DEF Posting
    <3>5. CASE StockIssue(r)
      <4>1. PICK k \in Keys, q \in Quantities : CallPost(r, "issue", Issue(k, q))
        BY <3>5 DEF StockIssue
      <4>2. Issue(k, q) \in Movement /\ Issue(k, q).qty = q /\ Sides(Issue(k, q)) # {}
        BY <2>1, <3>1
      <4> QED
        BY <4>1, <4>2 DEF Posting
    <3>3. CASE StockTransfer(r)
      <4>1. PICK j \in Keys, q \in Quantities :
               \E k \in Twins[j] : CallPost(r, "transfer", Transfer(j, k, q))
        BY <3>3 DEF StockTransfer
      <4>2. PICK k \in Twins[j] : CallPost(r, "transfer", Transfer(j, k, q))
        BY <4>1
      <4>3. k \in Keys
        BY <2>2
      <4>4. Transfer(j, k, q) \in Movement /\ Transfer(j, k, q).qty = q
        BY <2>1, <4>3
      <4>5. Sides(Transfer(j, k, q)) = {j, k}
        BY <3>1, <4>3
      <4> QED
        BY <4>2, <4>4, <4>5 DEF Posting
    <3>4. CASE CreateMovement(r)
      <4>1. PICK k \in Keys, q \in Quantities :
               \E m \in {Receipt(k, q), Issue(k, q), Adjustment(None, k, q), Adjustment(k, None, q)}
                        \cup {Transfer(j, k, q) : j \in Twins[k] \cup {k}} : CallPost(r, "plain", m)
        BY <3>4 DEF CreateMovement
      <4>2. PICK m \in {Receipt(k, q), Issue(k, q), Adjustment(None, k, q), Adjustment(k, None, q)}
                       \cup {Transfer(j, k, q) : j \in Twins[k] \cup {k}} : CallPost(r, "plain", m)
        BY <4>1
      <4>3. CASE m \in {Receipt(k, q), Issue(k, q), Adjustment(None, k, q), Adjustment(k, None, q)}
        <5>1. m \in Movement /\ m.qty = q
          BY <2>1, <4>3
        <5>2. Sides(m) # {}
          BY <3>1, <4>3
        <5> QED
          BY <4>2, <5>1, <5>2 DEF Posting
      <4>4. CASE m \in {Transfer(j, k, q) : j \in Twins[k] \cup {k}}
        <5>1. PICK j \in Keys : m = Transfer(j, k, q)
          BY <2>2, <4>4
        <5>2. m \in Movement /\ m.qty = q
          BY <2>1, <5>1
        <5>3. Sides(m) = {j, k}
          BY <3>1, <5>1
        <5> QED
          BY <4>2, <5>2, <5>3 DEF Posting
      <4> QED
        BY <4>2, <4>3, <4>4
    <3> QED
      BY <1>1, <3>2, <3>3, <3>4, <3>5
  <2>4. PICK op \in Posting, m \in Movement :
           m.qty \in Quantities /\ Sides(m) # {} /\ CallPost(r, op, m)
    BY <2>3
  <2> DEFINE k == FirstIdentity(m, Sides(m))
             x == [Holding(r, m, {k}) EXCEPT !.op = op, !.move = m, !.todo = Sides(m)]
  <2>5. req[r] = NoReq /\ Move(r, x)
    BY <2>4 DEF CallPost
  <2>6. /\ x.op = op /\ x.move = m /\ x.keys = {k} /\ x.rows = {}
        /\ x.pc = IF Sides(m) \subseteq {k} THEN "rows" ELSE "keys"
    BY <2>5 DEF Holding, NoReq
  <2>7. \A j \in Sides(m) \ {k} : Rank[k] < Rank[j]
    BY <2>4, FirstIsLeast
  <2> HIDE DEF x, k
  <2>8. Orderly(stock, x)
    BY <2>4, <2>6, <2>7 DEF Orderly, Posting
  <2> QED
    BY <2>5, <2>8
<1>2. CASE AdjustStock(r) \/ DeleteStock(r)
  <2>1. PICK op \in Stale, y \in Rows : CallRow(r, op, y)
    BY <1>2 DEF AdjustStock, DeleteStock, Stale
  <2> DEFINE x == [req[r] EXCEPT !.op = op, !.pc = "wait", !.found = {y}, !.seen[y] = stock[y]]
  <2>2. req[r] = NoReq /\ Move(r, x)
    BY <2>1 DEF CallRow
  <2>3. x.op = op
    BY <2>2 DEF NoReq
  <2> HIDE DEF x
  <2>4. Orderly(stock, x)
    BY <2>3 DEF Orderly, Stale, Posting
  <2> QED
    BY <2>2, <2>4
<1>3. CASE ReserveRow(r) \/ ReleaseRow(r)
  <2>1. PICK op \in {"reserve", "release"}, y \in Rows : CallOrder(r, op, y)
    BY <1>3 DEF ReserveRow, ReleaseRow
  <2> DEFINE x == [req[r] EXCEPT !.op = op, !.pc = "commit", !.rows = {y}, !.seen[y] = stock[y]]
  <2>2. req[r] = NoReq /\ Move(r, x)
    BY <2>1 DEF CallOrder
  <2>3. x.op = op /\ x.pc = "commit"
    BY <2>2 DEF NoReq
  <2> HIDE DEF x
  <2>4. Orderly(stock, x)
    BY <2>3 DEF Orderly, Posting
  <2> QED
    BY <2>2, <2>4
<1>4. CASE DeleteMovement(r)
  <2>1. PICK m \in Movements :
           /\ req[r] = NoReq
           /\ Move(r, [req[r] EXCEPT !.op = "delete_movement", !.pc = "rows", !.id = m,
                                     !.move = moves[m], !.todo = Sides(moves[m])])
    BY <1>4 DEF DeleteMovement
  <2> DEFINE x == [req[r] EXCEPT !.op = "delete_movement", !.pc = "rows", !.id = m,
                                 !.move = moves[m], !.todo = Sides(moves[m])]
  <2>2. Move(r, x) /\ x.op = "delete_movement"
    BY <2>1 DEF NoReq
  <2> HIDE DEF x
  <2>3. Orderly(stock, x)
    BY <2>2 DEF Orderly, Posting
  <2> QED
    BY <2>2, <2>3
<1> QED
  BY <1>1, <1>2, <1>3, <1>4 DEF Start

\* The next advisory lock is the next in order.
LEMMA OrderlyLockIdentity ==
    ASSUME IInv, NEW r \in Reqs, LockIdentity(r), Orderly(stock, req[r]),
           NEW z, \A x : Move(r, x) => z = x
    PROVE  Orderly(stock, z)
<1> DEFINE k == NextIdentity(r)
           x == Holding(r, req[r].move, req[r].keys \cup {k})
<1>1. /\ req[r] \in Request /\ Good(stock, req[r]) /\ req[r].pc = "keys"
      /\ req[r].move \in Movement /\ Move(r, x)
  BY DEF IInv, TypeOK, LockIdentity, Request
<1>2. req[r].op \in Posting /\ ~(Sides(req[r].move) \subseteq req[r].keys)
  BY <1>1 DEF Good
<1> DEFINE S == Sides(req[r].move) \ req[r].keys
<1>3. S \in SUBSET Sides(req[r].move) /\ S # {} /\ k = FirstIdentity(req[r].move, S)
  BY <1>2 DEF NextIdentity
<1>4. \A j \in S \ {k} : Rank[k] < Rank[j]
  BY <1>1, <1>3, FirstIsLeast
<1>5. /\ x.op = req[r].op /\ x.move = req[r].move /\ x.rows = req[r].rows
      /\ x.keys = req[r].keys \cup {k} /\ x.pc \in {"rows", "keys"}
  BY <1>1 DEF Holding, Request
<1> HIDE DEF x, k
<1>6. \A i \in x.keys, j \in Sides(x.move) \ x.keys : Rank[i] < Rank[j]
  BY <1>1, <1>2, <1>4, <1>5 DEF Orderly
<1>7. Orderly(stock, x)
  BY <1>2, <1>5, <1>6 DEF Orderly, Posting
<1> QED
  BY <1>1, <1>7

\* What a select waits for, and what it gets, is of a key that is held.
LEMMA OrderlySelect ==
    ASSUME IInv, NEW r \in Reqs, Select(r) \/ Lock(r), Orderly(stock, req[r]),
           NEW z, \A x : Move(r, x) => z = x
    PROVE  Orderly(stock, z)
<1>1. /\ req[r] \in Request /\ Good(stock, req[r]) /\ req[r].pc \in {"rows", "wait"}
      /\ req[r].move \in Movement
  BY DEF IInv, TypeOK, Select, Lock, Request
<1>2. req[r].op \notin {"reserve", "release"}
  BY <1>1 DEF Orderly
<1>3. ASSUME req[r].op \in Posting, req[r].pc = "rows", NEW y \in Matching(r)
      PROVE  stock[y].key \in req[r].keys
  <2>1. req[r].todo # {} /\ req[r].todo \subseteq Sides(req[r].move)
        /\ Sides(req[r].move) \subseteq req[r].keys
    BY <1>1, <1>3 DEF Good
  <2>2. NextOf(req[r]) \in req[r].keys
    BY <1>1, <2>1, NextIsTodo
  <2>3. stock[y].key = NextOf(req[r])
    BY <1>3 DEF Matching, Selects, NextKey, NextOf, Posting
  <2> QED
    BY <2>2, <2>3
<1>4. ASSUME NEW found, Locked(r, found),
             req[r].op \in Posting => \A y \in found : stock[y].key \in req[r].keys
      PROVE  Orderly(stock, z)
  <2> DEFINE got == {y \in found : stock[y] # NoRow}
             todo == req[r].todo \ {NextKey(r)}
             seen == [y \in Rows |-> IF y \in got /\ req[r].op \notin Stale THEN stock[y]
                                     ELSE req[r].seen[y]]
             x == [req[r] EXCEPT !.rows = @ \cup got, !.found = {}, !.seen = seen,
                                 !.todo = todo, !.pc = IF todo = {} THEN "commit" ELSE "rows"]
  <2>1. Reject(r) \/ Move(r, x)
    BY <1>4 DEF Locked
  <2>2. /\ x.op = req[r].op /\ x.move = req[r].move /\ x.keys = req[r].keys
        /\ x.rows = req[r].rows \cup got /\ x.pc \in {"rows", "commit"}
    BY <1>1 DEF Request
  <2>3. got \subseteq found
    OBVIOUS
  <2> HIDE DEF x, got
  <2>4. Orderly(stock, x)
    BY <1>2, <1>4, <2>2, <2>3 DEF Orderly
  <2>5. Orderly(stock, NoReq)
    BY DEF Orderly, NoReq, Posting
  <2> QED
    BY <2>1, <2>4, <2>5 DEF Reject
<1>5. CASE Select(r)
  <2> DEFINE x == [req[r] EXCEPT !.pc = "wait", !.found = Matching(r)]
  <2>1. req[r].pc = "rows" /\ (Locked(r, Matching(r)) \/ Move(r, x))
    BY <1>5 DEF Select
  <2>2. /\ x.op = req[r].op /\ x.move = req[r].move /\ x.keys = req[r].keys
        /\ x.rows = req[r].rows /\ x.found = Matching(r) /\ x.pc = "wait"
    BY <1>1 DEF Request
  <2> HIDE DEF x
  <2>3. Orderly(stock, x)
    BY <1>2, <1>3, <2>1, <2>2 DEF Orderly
  <2> QED
    BY <1>3, <1>4, <2>1, <2>3
<1>6. CASE Lock(r)
  BY <1>1, <1>4, <1>6 DEF Lock, Orderly
<1> QED
  BY <1>5, <1>6

\* One step keeps the order in which requests hold and want their locks.
LEMMA OrderlyKeeps ==
    ASSUME Ops \subseteq Sound, IInv, InUse, AllOrderly, [Next]_vars
    PROVE  AllOrderly'
<1>1. /\ req \in [Reqs -> Request] /\ stock \in [Rows -> StockRow] /\ None \notin Keys
      /\ \A q \in Reqs : Good(stock, req[q]) /\ Orderly(stock, req[q])
  BY LedgerAssumption DEF IInv, TypeOK, AllOrderly
<1>2. CASE UNCHANGED vars
  BY <1>1, <1>2 DEF AllOrderly, vars
<1>3. Orderly(stock, NoReq) /\ Orderly(stock', NoReq)
  BY DEF Orderly, NoReq, Posting
<1>4. CASE Next
  <2>1. PICK r \in Reqs : Start(r) \/ LockIdentity(r) \/ Select(r) \/ Lock(r) \/ Commit(r) \/ Abort(r)
    BY <1>4 DEF Next
  <2>2. /\ (stock' = stock /\ moves' = moves) \/ Commit(r)
        /\ \A q \in Reqs \ {r} : req'[q] = req[q]
    BY <2>1, OnlyCommitsWrite
  <2>3. CASE Commit(r)
    <3>1. \A y \in Rows : stock[y].key # None => stock'[y].key = stock[y].key
      BY <2>3, KeysStay
    <3>2. req'[r] = NoReq
      BY <1>1, <2>3 DEF Commit, CommitPost, CommitToItself, CommitAdjust, CommitDeleteStock,
         CommitDeleteMovement, CommitReserve, CommitRelease, Finish
    <3>3. ASSUME NEW q \in Reqs \ {r}
          PROVE  Orderly(stock', req[q])
      <4>1. /\ req[q].rows \subseteq Rows /\ req[q].found \subseteq Rows
            /\ req[q].keys \subseteq Keys /\ Orderly(stock, req[q])
        BY <1>1 DEF Request
      <4>2. \A y \in Rows : stock[y].key \in req[q].keys => stock'[y].key = stock[y].key
        BY <1>1, <3>1, <4>1
      <4> QED
        BY <4>1, <4>2 DEF Orderly
    <3> QED
      BY <1>3, <2>2, <3>2, <3>3 DEF AllOrderly
  <2>4. CASE ~Commit(r)
    <3>1. SUFFICES Orderly(stock, req'[r])
      BY <1>1, <2>2, <2>4 DEF AllOrderly
    <3>2. req[r] \in Request /\ \A x : Move(r, x) => req'[r] = x
      BY <1>1 DEF Move
    <3>3. Good(stock, req[r]) /\ Orderly(stock, req[r]) /\ req[r].move \in Movement
      BY <1>1, <3>2 DEF Request
    <3>4. CASE Abort(r)
      BY <1>3, <3>2, <3>4 DEF Abort, Reject
    <3>5. CASE LockIdentity(r)
      BY <1>1, <3>2, <3>3, <3>5, OrderlyLockIdentity
    <3>6. CASE Select(r) \/ Lock(r)
      BY <3>2, <3>3, <3>6, OrderlySelect
    <3>7. CASE Start(r)
      BY <3>2, <3>7, OrderlyStart
    <3> QED
      BY <2>1, <2>4, <3>4, <3>5, <3>6, <3>7
  <2> QED
    BY <2>3, <2>4
<1> QED
  BY <1>2, <1>4

\* A finite set of keys has a last one.
LEMMA LastKey ==
    ASSUME NEW S \in SUBSET Keys, S # {}
    PROVE  \E k \in S : \A j \in S : ~(Rank[k] < Rank[j])
<1> DEFINE N == Cardinality(Keys)
           After(k) == {n \in 1 .. N : n > Rank[k]}
           T == {After(k) : k \in S}
<1>1. N \in Nat /\ \A k \in Keys : Rank[k] \in 1 .. N
  BY LedgerAssumption, FS_CardinalityType
<1> HIDE DEF N
<1>2. IsFiniteSet(1 .. N)
  BY <1>1, FS_Interval
<1>3. \A k \in S : IsFiniteSet(After(k)) /\ After(k) \in SUBSET (1 .. N)
  BY <1>2, FS_Subset
<1>4. T \subseteq FiniteSubsetsOf(1 .. N) /\ T # {}
  BY <1>3 DEF FiniteSubsetsOf
<1>5. PICK x \in T : \A y \in T : ~(<<y, x>> \in StrictSubsetOrdering(1 .. N))
  BY <1>4, FS_StrictSubsetOrderingWellFounded, WFMin
<1>6. PICK k \in S : x = After(k)
  OBVIOUS
<1>7. ASSUME NEW j \in S, Rank[k] < Rank[j]
      PROVE  FALSE
  <2>1. Rank[k] \in 1 .. N /\ Rank[j] \in 1 .. N
    BY <1>1
  <2>2. After(j) \subseteq After(k) /\ Rank[j] \in After(k) /\ Rank[j] \notin After(j)
    BY <1>1, <1>7, <2>1
  <2>3. After(j) \in SUBSET (1 .. N) /\ After(k) \in SUBSET (1 .. N) /\ After(j) \in T
    BY <1>3
  <2> HIDE DEF After, T
  <2>4. <<After(j), After(k)>> \in StrictSubsetOrdering(1 .. N)
    BY <2>2, <2>3 DEF StrictSubsetOrdering
  <2> QED
    BY <1>5, <1>6, <2>3, <2>4
<1> QED
  BY <1>7

\* In every state that meets the invariant some request does not wait.
LEMMA OrderMeansProgress ==
    ASSUME Ops \subseteq Sound, IInv, InUse, AllOrderly
    PROVE  SomeoneProceeds
<1> DEFINE Active == {r \in Reqs : req[r] # NoReq}
           Wanted == {NextIdentity(r) : r \in Active}
<1> SUFFICES ASSUME Active # {}, \A r \in Active : Waits(r)
             PROVE  FALSE
  BY DEF SomeoneProceeds
<1>1. \A r \in Active : /\ req[r] \in Request /\ Good(stock, req[r]) /\ Orderly(stock, req[r])
                        /\ req[r].op \in Sound \cup {"none"}
  BY DEF IInv, TypeOK, AllOrderly, InUse
<1>2. \A r \in Active : req[r].op \in Posting /\ req[r].pc \in {"keys", "wait"}
  BY <1>1 DEF Good, Orderly, Waits, Sound, Posting
<1>3. \A q \in Reqs : req[q].keys # {} \/ req[q].rows # {} => q \in Active
  BY DEF NoReq
<1>4. ASSUME NEW r \in Active
      PROVE  req[r].pc = "keys" /\ ~Granted(r, NextIdentity(r))
  <2>1. SUFFICES ASSUME req[r].pc = "wait", req[r].found \cap RowsHeldByOthers(r) # {}
                 PROVE  FALSE
    BY DEF Waits
  <2>2. PICK y \in req[r].found, q \in Reqs \ {r} : y \in req[q].rows
    BY <2>1 DEF RowsHeldByOthers
  <2>3. q \in Active
    BY <1>3, <2>2
  <2>4. stock[y].key \in req[r].keys /\ stock[y].key \in req[q].keys
    BY <1>1, <1>2, <2>1, <2>2, <2>3 DEF Orderly
  <2> QED
    BY <2>2, <2>4 DEF IInv, Exclusive
<1>5. \A r \in Active : /\ NextIdentity(r) \in Sides(req[r].move) \ req[r].keys
                        /\ NextIdentity(r) \in Keys
  <2> SUFFICES ASSUME NEW r \in Active
               PROVE  /\ NextIdentity(r) \in Sides(req[r].move) \ req[r].keys
                      /\ NextIdentity(r) \in Keys
    OBVIOUS
  <2> DEFINE S == Sides(req[r].move) \ req[r].keys
  <2>1. req[r].move \in Movement /\ S # {} /\ S \in SUBSET Sides(req[r].move)
    BY <1>1, <1>4 DEF Request, Good
  <2>2. NextIdentity(r) \in S
    BY <2>1, FirstIsLeast DEF NextIdentity
  <2> QED
    BY <2>1, <2>2, SidesAreKeys
<1>6. Wanted \in SUBSET Keys /\ Wanted # {}
  BY <1>5
<1>7. PICK r \in Active : \A q \in Active : ~(Rank[NextIdentity(r)] < Rank[NextIdentity(q)])
  <2>1. PICK k \in Wanted : \A j \in Wanted : ~(Rank[k] < Rank[j])
    BY <1>6, LastKey
  <2> QED
    BY <2>1
<1>8. PICK q \in Reqs : NextIdentity(r) \in req[q].keys
  BY <1>4 DEF Granted
<1>9. q \in Active
  BY <1>3, <1>8
<1>10. Rank[NextIdentity(r)] < Rank[NextIdentity(q)]
  BY <1>1, <1>2, <1>4, <1>5, <1>8, <1>9 DEF Orderly
<1> QED
  BY <1>7, <1>9, <1>10

\* As long as calls are in flight one of them does not wait for a lock, for
\* any number of calls and keys.
THEOREM NoCircleOfWaits ==
    ASSUME Ops \subseteq Sound
    PROVE  Spec => []SomeoneProceeds
<1>1. Init => InUse /\ AllOrderly
  BY DEF Init, InUse, AllOrderly, Orderly, NoReq, Posting
<1>2. IInv /\ InUse /\ AllOrderly /\ [Next]_vars => InUse' /\ AllOrderly'
  BY InUseKeeps, OrderlyKeeps
<1>3. IInv /\ InUse /\ AllOrderly => SomeoneProceeds
  BY OrderMeansProgress
<1> QED
  BY <1>1, <1>2, <1>3, InductiveInvariant, PTL DEF Spec

-----------------------------------------------------------------------------
(* The book of stock. *)

\* By key k, in stock rows st: the goods and the promised ones.
GoodsOf(st, k) == Sum([x \in {y \in Rows : st[y].key = k} |-> st[x].onHand])
PromisedOf(st, k) == Sum([x \in {y \in Rows : st[y].key = k} |-> st[x].reserved])

\* By key k: what movements mv brought and took.
BroughtBy(mv, k) == Sum([m \in Movements |-> Added(mv[m], k)])
TakenBy(mv, k) == Sum([m \in Movements |-> Taken(mv[m], k)])

OneRowIn(st) == \A x, y \in Rows : st[x].key # None /\ st[x].key = st[y].key => x = y

\* The book of a key that has a row is that row.
LEMMA BookOfRow ==
    ASSUME NEW st, OneRowIn(st), NEW k \in Keys, NEW x \in Rows, st[x].key = k,
           st[x].onHand \in Nat, st[x].reserved \in Nat
    PROVE  GoodsOf(st, k) = st[x].onHand /\ PromisedOf(st, k) = st[x].reserved
<1> DEFINE f == [z \in {y \in Rows : st[y].key = k} |-> st[z].onHand]
           g == [z \in {y \in Rows : st[y].key = k} |-> st[z].reserved]
<1>1. {y \in Rows : st[y].key = k} = {x}
  BY LedgerAssumption DEF OneRowIn
<1>2. DOMAIN f = {x} /\ f[x] = st[x].onHand /\ DOMAIN g = {x} /\ g[x] = st[x].reserved
  BY <1>1
<1> HIDE DEF f, g
<1>3. Sum(f) = st[x].onHand /\ Sum(g) = st[x].reserved
  BY <1>2, SumSingle
<1> QED
  BY <1>3 DEF f, g, GoodsOf, PromisedOf

\* The book of a key without a row is empty.
LEMMA BookOfNoRow ==
    ASSUME NEW st, NEW k, \A y \in Rows : st[y].key # k
    PROVE  GoodsOf(st, k) = 0 /\ PromisedOf(st, k) = 0
<1> DEFINE f == [z \in {y \in Rows : st[y].key = k} |-> st[z].onHand]
           g == [z \in {y \in Rows : st[y].key = k} |-> st[z].reserved]
<1>1. DOMAIN f = {} /\ DOMAIN g = {}
  OBVIOUS
<1> HIDE DEF f, g
<1>2. Sum(f) = 0 /\ Sum(g) = 0
  BY <1>1, SumNothing
<1> QED
  BY <1>2 DEF f, g, GoodsOf, PromisedOf

\* What a row holds is a natural number while the balances agree.
LEMMA GoodsAreNatural ==
    ASSUME IInv, BalancesAgree, NEW x \in Rows
    PROVE  /\ stock[x].onHand \in Nat /\ stock[x].reserved \in Nat
           /\ stock[x].available = stock[x].onHand - stock[x].reserved
           /\ stock[x].available >= 0
<1>1. stock[x] \in StockRow
  BY DEF IInv, TypeOK
<1> QED
  BY <1>1 DEF BalancesAgree, StockRow

\* An effect is what is added less what is taken.
LEMMA EffectParts ==
    ASSUME NEW m \in Movement, NEW k
    PROVE  /\ Added(m, k) \in Nat /\ Taken(m, k) \in Nat /\ Effect(m, k) \in Int
           /\ Added(m, k) - Taken(m, k) = Effect(m, k)
<1>1. m.qty \in Nat
  BY DEF Movement
<1>2. Effect(m, k) \in Int
  BY <1>1 DEF Effect
<1> QED
  BY <1>2 DEF Added, Taken

\* What movements brought and took are numbers.
LEMMA LedgerSums ==
    ASSUME NEW mv \in [Movements -> Movement], NEW k
    PROVE  /\ Summable([m \in Movements |-> Added(mv[m], k)])
           /\ Summable([m \in Movements |-> Taken(mv[m], k)])
           /\ BroughtBy(mv, k) \in Nat /\ TakenBy(mv, k) \in Nat
<1>1. IsFiniteSet(Movements)
  BY LedgerAssumption
<1>2. \A m \in Movements : Added(mv[m], k) \in Nat /\ Taken(mv[m], k) \in Nat
  BY EffectParts
<1>3. /\ Summable([m \in Movements |-> Added(mv[m], k)])
      /\ Summable([m \in Movements |-> Taken(mv[m], k)])
  BY <1>1, <1>2 DEF Summable
<1> QED
  BY <1>3, SumType DEF BroughtBy, TakenBy

\* A new movement adds its effect to the ledger.
LEMMA LedgerEffect ==
    ASSUME NEW mv \in [Movements -> Movement], NEW m \in Movements, mv[m] = NoMove,
           NEW M \in Movement, NEW k \in Keys
    PROVE  BroughtBy([mv EXCEPT ![m] = M], k) - TakenBy([mv EXCEPT ![m] = M], k)
             = BroughtBy(mv, k) - TakenBy(mv, k) + Effect(M, k)
<1> DEFINE nv == [mv EXCEPT ![m] = M]
           a == [i \in Movements |-> Added(mv[i], k)]
           b == [i \in Movements |-> Added(nv[i], k)]
           c == [i \in Movements |-> Taken(mv[i], k)]
           d == [i \in Movements |-> Taken(nv[i], k)]
<1>1. nv \in [Movements -> Movement] /\ nv[m] = M /\ \A i \in Movements : i # m => nv[i] = mv[i]
  OBVIOUS
<1> HIDE DEF nv
<1>2. Effect(NoMove, k) = 0
  BY LedgerAssumption DEF Effect, NoMove, Place
<1>3. a[m] = 0 /\ c[m] = 0 /\ b[m] = Added(M, k) /\ d[m] = Taken(M, k)
  BY <1>1, <1>2 DEF Added, Taken
<1>4. \A i \in Movements : i # m => b[i] = a[i] /\ d[i] = c[i]
  BY <1>1
<1>5. /\ Summable(a) /\ Summable(c) /\ Summable(b) /\ Summable(d)
      /\ BroughtBy(mv, k) \in Nat /\ TakenBy(mv, k) \in Nat
  BY <1>1, LedgerSums
<1>6. DOMAIN a = Movements /\ DOMAIN b = Movements /\ DOMAIN c = Movements /\ DOMAIN d = Movements
  OBVIOUS
<1>7. /\ BroughtBy(mv, k) = Sum(a) /\ BroughtBy(nv, k) = Sum(b)
      /\ TakenBy(mv, k) = Sum(c) /\ TakenBy(nv, k) = Sum(d)
  BY DEF BroughtBy, TakenBy
<1> HIDE DEF a, b, c, d
<1>8. Sum(b) = Sum(a) - a[m] + b[m]
  BY <1>4, <1>5, <1>6, SumChange
<1>9. Sum(d) = Sum(c) - c[m] + d[m]
  BY <1>4, <1>5, <1>6, SumChange
<1>10. Added(M, k) \in Nat /\ Taken(M, k) \in Nat /\ Added(M, k) - Taken(M, k) = Effect(M, k)
  BY EffectParts
<1>11. Sum(b) - Sum(d) = Sum(a) - Sum(c) + Effect(M, k)
  BY <1>3, <1>5, <1>7, <1>8, <1>9, <1>10
<1> QED
  BY <1>7, <1>11 DEF nv

\* The book of a key holds natural numbers.
LEMMA BookTypes ==
    ASSUME IInv, OneRowPerIdentity, BalancesAgree, NEW k \in Keys
    PROVE  GoodsOf(stock, k) \in Nat /\ PromisedOf(stock, k) \in Nat
<1>1. OneRowIn(stock)
  BY DEF OneRowIn, OneRowPerIdentity
<1>2. CASE \A y \in Rows : stock[y].key # k
  BY <1>2, BookOfNoRow
<1>3. CASE \E y \in Rows : stock[y].key = k
  <2>1. PICK y \in Rows : stock[y].key = k
    BY <1>3
  <2>2. stock[y].onHand \in Nat /\ stock[y].reserved \in Nat
    BY GoodsAreNatural
  <2> QED
    BY <1>1, <2>1, <2>2, BookOfRow
<1> QED
  BY <1>2, <1>3

\* The three quantities of the book after a step.
LEMMA NextBookValues ==
    /\ Quantity' = [k \in Keys |-> GoodsOf(stock', k)]
    /\ Promised' = [k \in Keys |-> PromisedOf(stock', k)]
    /\ PostedTo' = [k \in Keys |-> BroughtBy(moves', k) - TakenBy(moves', k)]
<1> QED
  BY DEF Quantity, Promised, PostedTo, RowsOf, GoodsOf, PromisedOf, BroughtBy, TakenBy

\* The three quantities of the book, by key.
LEMMA BookValues ==
    /\ Quantity = [k \in Keys |-> GoodsOf(stock, k)]
    /\ Promised = [k \in Keys |-> PromisedOf(stock, k)]
    /\ PostedTo = [k \in Keys |-> BroughtBy(moves, k) - TakenBy(moves, k)]
<1> QED
  BY DEF Quantity, Promised, PostedTo, RowsOf, GoodsOf, PromisedOf, BroughtBy, TakenBy

\* For each key a checked posting adds to its row, inserts one, or leaves the
\* rows of the key alone.
LEMMA PostWrites ==
    ASSUME IInv, NEW r \in Reqs, \A y \in req[r].rows : stock[y] # NoRow,
           req[r].op \in {"entry", "issue", "transfer"}, CommitPost(r), NEW k \in Keys
    PROVE  \/ /\ k \notin Sides(req[r].move)
              /\ \A y \in Rows : stock[y].key = k \/ stock'[y].key = k => stock'[y] = stock[y]
           \/ \E y \in Rows :
                /\ stock[y].key = k
                /\ stock'[y] = Written(y, stock[y], stock[y].onHand + Effect(req[r].move, k))
           \/ /\ \A y \in Rows : stock[y].key # k
              /\ \E y \in Rows : stock'[y] = [key |-> k, onHand |-> Effect(req[r].move, k),
                                 reserved |-> 0, available |-> Effect(req[r].move, k)]
<1> DEFINE M == req[r].move
<1>1. /\ req[r] \in Request /\ Good(stock, req[r]) /\ stock \in [Rows -> StockRow]
      /\ M \in Movement
  BY DEF IInv, TypeOK, Request
<1>2. PICK new \in [Sides(M) -> Rows \cup {None}] :
         /\ \A j \in Sides(M) : (new[j] = None) <=> (Found(r, j) # {})
         /\ \A j \in Sides(M) : new[j] # None => UnusedRow(new[j])
         /\ \A i, j \in Sides(M) : new[i] = new[j] /\ new[i] # None => i = j
         /\ stock' = Posted(r, new)
  BY DEF CommitPost
<1>3. None \notin Keys /\ None \notin Rows /\ Sides(M) \subseteq Keys
  BY <1>1, SidesAreKeys, LedgerAssumption
<1>4. \A j : Delta(r, j) = Effect(M, j)
  BY DEF Delta
<1>5. \A j \in Sides(M) : \A x \in Found(r, j) :
         x \in Rows /\ req[r].seen[x] = stock[x] /\ stock[x].key = j
  BY <1>1 DEF Found, Selects, Good, Stale, Request
<1>6. \A j \in Sides(M) : new[j] # None => new[j] \in Rows /\ stock[new[j]] = NoRow
  BY <1>2 DEF UnusedRow
<1>7. ASSUME NEW j \in Sides(M), new[j] # None
      PROVE  stock'[new[j]] = [key |-> j, onHand |-> Effect(M, j), reserved |-> 0,
                               available |-> Effect(M, j)]
  <2> DEFINE y == new[j]
             i == CHOOSE i \in Sides(M) : y = new[i]
  <2>1. i \in Sides(M) /\ y = new[i]
    OBVIOUS
  <2>2. i = j
    BY <1>2, <1>7, <2>1
  <2>3. stock'[y] = [key |-> i, onHand |-> Delta(r, i), reserved |-> 0, available |-> Delta(r, i)]
    BY <1>2, <1>6, <1>7 DEF Posted
  <2> QED
    BY <1>4, <2>2, <2>3
<1>8. ASSUME NEW j \in Sides(M), NEW y \in Found(r, j)
      PROVE  stock'[y] = Written(y, stock[y], stock[y].onHand + Effect(M, j))
  <2> DEFINE i == CHOOSE i \in Sides(M) : y \in Found(r, i)
  <2>1. i \in Sides(M) /\ y \in Found(r, i)
    OBVIOUS
  <2>2. i = j /\ y \in Rows /\ req[r].seen[y] = stock[y] /\ stock[y].key = j
    BY <1>5, <2>1
  <2>3. ~ \E l \in Sides(M) : y = new[l]
    BY <1>3, <1>6, <2>2 DEF NoRow
  <2>4. stock'[y] = Written(y, req[r].seen[y], req[r].seen[y].onHand + Delta(r, i))
    BY <1>2, <2>1, <2>2, <2>3 DEF Posted
  <2> QED
    BY <1>4, <2>2, <2>4
<1>9. CASE k \in Sides(M) /\ Found(r, k) # {}
  BY <1>5, <1>8, <1>9
<1>10. CASE k \in Sides(M) /\ Found(r, k) = {}
  <2>1. new[k] # None
    BY <1>2, <1>10
  <2>2. ~ \E z \in req[r].rows : req[r].seen[z].key = k
    BY <1>10 DEF Found, Selects
  <2>3. req[r].op \in Posting /\ req[r].pc = "commit"
    BY DEF CommitPost
  <2>4. \A y \in Rows : stock[y].key # k
    BY <1>1, <1>10, <2>2, <2>3 DEF Good
  <2> QED
    BY <1>6, <1>7, <1>10, <2>1, <2>4
<1>11. CASE k \notin Sides(M)
  <2> SUFFICES ASSUME NEW y \in Rows, stock[y].key = k \/ stock'[y].key = k
               PROVE  stock'[y] = stock[y]
    BY <1>11
  <2>1. CASE \E j \in Sides(M) : y = new[j]
    <3>1. PICK j \in Sides(M) : y = new[j]
      BY <2>1
    <3>2. new[j] # None
      BY <1>3, <3>1
    <3>3. stock[y] = NoRow
      BY <1>6, <3>1, <3>2
    <3>4. stock'[y] = [key |-> j, onHand |-> Effect(M, j), reserved |-> 0,
                       available |-> Effect(M, j)]
      BY <1>7, <3>1, <3>2
    <3>5. stock[y].key = None /\ stock'[y].key = j
      BY <3>3, <3>4 DEF NoRow
    <3> QED
      BY <1>3, <1>11, <3>5
  <2>2. CASE \E j \in Sides(M) : y \in Found(r, j)
    <3>1. PICK j \in Sides(M) : y \in Found(r, j)
      BY <2>2
    <3>2. stock[y].key = j /\ stock'[y] = Written(y, stock[y], stock[y].onHand + Effect(M, j))
      BY <1>5, <1>8, <3>1
    <3>3. stock[y].onHand + Effect(M, j) \in Int
      BY <1>1, <1>4, DeltaType DEF StockRow
    <3>4. stock'[y].key = stock[y].key
      BY <1>1, <3>2, <3>3, WrittenType
    <3> QED
      BY <1>11, <3>2, <3>4
  <2>3. CASE /\ ~ \E j \in Sides(M) : y = new[j]
             /\ ~ \E j \in Sides(M) : y \in Found(r, j)
    BY <1>2, <2>3 DEF Posted
  <2> QED
    BY <2>1, <2>2, <2>3
<1> QED
  BY <1>9, <1>10, <1>11

\* A checked posting adds the movement's effect to the goods of every key and
\* leaves what is promised.
LEMMA PostGoods ==
    ASSUME IInv, OneRowPerIdentity, BalancesAgree, IInv', OneRowPerIdentity', BalancesAgree',
           NEW r \in Reqs, \A y \in req[r].rows : stock[y] # NoRow,
           req[r].op \in {"entry", "issue", "transfer"}, CommitPost(r), NEW k \in Keys
    PROVE  /\ GoodsOf(stock', k) = GoodsOf(stock, k) + Effect(req[r].move, k)
           /\ PromisedOf(stock', k) = PromisedOf(stock, k)
<1> DEFINE M == req[r].move
           e == Effect(M, k)
<1>1. /\ req[r] \in Request /\ stock \in [Rows -> StockRow] /\ M \in Movement
      /\ stock' \in [Rows -> StockRow] /\ Good(stock, req[r])
  BY DEF IInv, TypeOK, Request
<1>2. e \in Int
  BY <1>1, EffectParts
<1>3. \A y \in Rows : stock[y].onHand \in Nat /\ stock[y].reserved \in Nat
  BY GoodsAreNatural
<1>4. \A y \in Rows : stock'[y].onHand \in Nat /\ stock'[y].reserved \in Nat
  <2> SUFFICES ASSUME NEW y \in Rows
               PROVE  stock'[y].onHand \in Nat /\ stock'[y].reserved \in Nat
    OBVIOUS
  <2>1. /\ stock'[y].onHand \in Int /\ stock'[y].reserved \in Nat
        /\ stock'[y].available = stock'[y].onHand - stock'[y].reserved
        /\ stock'[y].available >= 0
    BY <1>1 DEF BalancesAgree, StockRow
  <2> QED
    BY <2>1
<1>5. OneRowIn(stock) /\ OneRowIn(stock')
  BY DEF OneRowIn, OneRowPerIdentity
<1>6. CASE /\ k \notin Sides(M)
           /\ \A y \in Rows : stock[y].key = k \/ stock'[y].key = k => stock'[y] = stock[y]
  <2>1. e = 0
    BY <1>1, <1>6, LedgerAssumption DEF Effect, Sides, Place
  <2>2. CASE \E y \in Rows : stock[y].key = k
    <3>1. PICK y \in Rows : stock[y].key = k
      BY <2>2
    <3>2. stock'[y] = stock[y]
      BY <1>6, <3>1
    <3>3. GoodsOf(stock, k) = stock[y].onHand /\ PromisedOf(stock, k) = stock[y].reserved
      BY <1>3, <1>5, <3>1, BookOfRow
    <3>4. GoodsOf(stock', k) = stock'[y].onHand /\ PromisedOf(stock', k) = stock'[y].reserved
      BY <1>4, <1>5, <3>1, <3>2, BookOfRow
    <3> QED
      BY <1>3, <2>1, <3>2, <3>3, <3>4
  <2>3. CASE \A y \in Rows : stock[y].key # k
    <3>1. \A y \in Rows : stock'[y].key # k
      BY <1>6, <2>3
    <3>2. GoodsOf(stock, k) = 0 /\ PromisedOf(stock, k) = 0
      BY <2>3, BookOfNoRow
    <3>3. GoodsOf(stock', k) = 0 /\ PromisedOf(stock', k) = 0
      BY <3>1, BookOfNoRow
    <3> QED
      BY <2>1, <3>2, <3>3
  <2> QED
    BY <2>2, <2>3
<1>7. CASE \E y \in Rows : /\ stock[y].key = k
                           /\ stock'[y] = Written(y, stock[y], stock[y].onHand + e)
  <2>1. PICK y \in Rows : stock[y].key = k /\ stock'[y] = Written(y, stock[y], stock[y].onHand + e)
    BY <1>7
  <2>2. stock[y].onHand + e \in Int /\ stock[y] \in StockRow
    BY <1>1, <1>2, <1>3
  <2> HIDE DEF e
  <2>3. /\ stock'[y].onHand = stock[y].onHand + e /\ stock'[y].reserved = stock[y].reserved
        /\ stock'[y].key = k
    BY <2>1, <2>2, WrittenRow, WrittenType
  <2>4. GoodsOf(stock, k) = stock[y].onHand /\ PromisedOf(stock, k) = stock[y].reserved
    BY <1>3, <1>5, <2>1, BookOfRow
  <2>5. GoodsOf(stock', k) = stock'[y].onHand /\ PromisedOf(stock', k) = stock'[y].reserved
    BY <1>4, <1>5, <2>3, BookOfRow
  <2> QED
    BY <2>3, <2>4, <2>5 DEF e
<1>8. CASE /\ \A y \in Rows : stock[y].key # k
           /\ \E y \in Rows : stock'[y] = [key |-> k, onHand |-> e, reserved |-> 0, available |-> e]
  <2>1. PICK y \in Rows : stock'[y] = [key |-> k, onHand |-> e, reserved |-> 0, available |-> e]
    BY <1>8
  <2> HIDE DEF e
  <2>2. stock'[y].key = k /\ stock'[y].onHand = e /\ stock'[y].reserved = 0
    BY <2>1
  <2>3. GoodsOf(stock, k) = 0 /\ PromisedOf(stock, k) = 0
    BY <1>8, BookOfNoRow
  <2>4. GoodsOf(stock', k) = e /\ PromisedOf(stock', k) = 0
    BY <1>4, <1>5, <2>2, BookOfRow
  <2> QED
    BY <1>2, <2>3, <2>4 DEF e
<1> QED
  BY <1>6, <1>7, <1>8, PostWrites

\* A checked posting is one entry of the book.
LEMMA PostIsBooked ==
    ASSUME IInv, OneRowPerIdentity, BalancesAgree, AllOrderly, IInv', OneRowPerIdentity',
           BalancesAgree',
           NEW r \in Reqs, \A y \in req[r].rows : stock[y] # NoRow,
           req[r].op \in {"entry", "issue", "transfer"}, CommitPost(r)
    PROVE  Book!Next
<1> DEFINE M == req[r].move
           q == M.qty
<1>1. /\ req[r] \in Request /\ Good(stock, req[r]) /\ M \in Movement /\ Proper(req[r].op, M)
      /\ q \in Quantities /\ moves \in [Movements -> Movement] /\ None \notin Keys
  BY LedgerAssumption DEF IInv, TypeOK, Request, Good, Posting, AllOrderly, Orderly
<1>2. q \in Nat
  BY <1>1 DEF Movement
<1>3. \A k \in Keys : /\ GoodsOf(stock', k) = GoodsOf(stock, k) + Effect(M, k)
                      /\ PromisedOf(stock', k) = PromisedOf(stock, k)
  BY PostGoods
<1>4. \A k \in Keys : BroughtBy(moves', k) - TakenBy(moves', k)
                        = BroughtBy(moves, k) - TakenBy(moves, k) + Effect(M, k)
  <2>1. PICK m \in Movements : moves[m] = NoMove /\ moves' = [moves EXCEPT ![m] = M]
    BY DEF CommitPost, UnusedId
  <2> QED
    BY <1>1, <2>1, LedgerEffect
<1>5. \A k \in Keys : /\ GoodsOf(stock, k) \in Nat /\ PromisedOf(stock, k) \in Nat
                      /\ BroughtBy(moves, k) \in Nat /\ TakenBy(moves, k) \in Nat
  BY <1>1, LedgerSums, BookTypes
<1>6. /\ Quantity' = [k \in Keys |-> Quantity[k] + Effect(M, k)]
      /\ Promised' = Promised
      /\ PostedTo' = [k \in Keys |-> PostedTo[k] + Effect(M, k)]
  BY <1>3, <1>4, BookValues, NextBookValues
<1>7. req[r].op \in {"issue", "transfer"} => q <= Quantity[M.from] - Promised[M.from]
  <2> SUFFICES ASSUME req[r].op \in {"issue", "transfer"}
               PROVE  q <= Quantity[M.from] - Promised[M.from]
    OBVIOUS
  <2>1. PICK x \in Found(r, M.from) : req[r].seen[x].available >= q
    BY DEF CommitPost, Covered
  <2>2. /\ x \in Rows /\ req[r].seen[x] = stock[x] /\ stock[x].key = M.from
        /\ M.from \in Keys
    BY <1>1, <2>1 DEF Found, Selects, Good, Stale, Request, Proper
  <2>3. OneRowIn(stock)
    BY DEF OneRowIn, OneRowPerIdentity
  <2>4. /\ stock[x].onHand \in Nat /\ stock[x].reserved \in Nat
        /\ stock[x].available = stock[x].onHand - stock[x].reserved
    BY <2>2, GoodsAreNatural
  <2>5. Quantity[M.from] = stock[x].onHand /\ Promised[M.from] = stock[x].reserved
    BY <2>2, <2>3, <2>4, BookOfRow, BookValues
  <2> QED
    BY <1>2, <2>1, <2>2, <2>4, <2>5
<1>8. \A k \in Keys : Quantity[k] \in Int /\ PostedTo[k] \in Int
  BY <1>5, BookValues
<1>9. CASE req[r].op = "entry"
  <2>1. M.to \in Keys /\ \A k \in Keys : Effect(M, k) = (IF k \in {M.to} THEN q ELSE 0) - 0
    BY <1>1, <1>2, <1>9 DEF Proper, Effect
  <2>2. Book!Post({}, {M.to}, q)
    BY <1>2, <1>6, <1>8, <2>1 DEF Book!Post
  <2> QED
    BY <1>1, <2>1, <2>2 DEF Book!Next
<1>10. CASE req[r].op = "issue"
  <2>1. M.from \in Keys /\ \A k \in Keys : Effect(M, k) = 0 - (IF k \in {M.from} THEN q ELSE 0)
    BY <1>1, <1>2, <1>10 DEF Proper, Effect
  <2>2. Book!Post({M.from}, {}, q)
    BY <1>2, <1>6, <1>7, <1>8, <1>10, <2>1 DEF Book!Post
  <2> QED
    BY <1>1, <2>1, <2>2 DEF Book!Next
<1>11. CASE req[r].op = "transfer"
  <2>1. /\ M.from \in Keys \ {M.to} /\ M.to \in Keys
        /\ \A k \in Keys : Effect(M, k) = (IF k \in {M.to} THEN q ELSE 0)
                                        - (IF k \in {M.from} THEN q ELSE 0)
    BY <1>1, <1>2, <1>11 DEF Proper, Effect
  <2>2. Book!Post({M.from}, {M.to}, q)
    BY <1>2, <1>6, <1>7, <1>8, <1>11, <2>1 DEF Book!Post
  <2> QED
    BY <1>1, <2>1, <2>2 DEF Book!Next
<1> QED
  BY <1>9, <1>10, <1>11

\* A reservation or a release is one entry of the book.
LEMMA OrderIsBooked ==
    ASSUME IInv, OneRowPerIdentity, BalancesAgree, IInv', OneRowPerIdentity', BalancesAgree',
           NEW r \in Reqs, \A y \in req[r].rows : stock[y] # NoRow,
           CommitReserve(r) \/ CommitRelease(r)
    PROVE  Book!Next
<1>1. /\ req[r] \in Request /\ Good(stock, req[r]) /\ stock \in [Rows -> StockRow]
      /\ stock' \in [Rows -> StockRow] /\ moves' = moves
      /\ req[r].op \notin Stale /\ Quantities \subseteq Nat /\ OneRowIn(stock) /\ OneRowIn(stock')
  BY LedgerAssumption DEF IInv, TypeOK, CommitReserve, CommitRelease, Stale, OneRowIn,
     OneRowPerIdentity
<1>2. \A x \in req[r].rows : x \in Rows /\ req[r].seen[x] = stock[x] /\ stock[x].key \in Keys
  BY <1>1 DEF Good, Request, IInv, RowShape, StockRow
<1>3. PICK x \in req[r].rows, q \in Quantities, n \in Nat, a \in Int :
         /\ stock' = [stock EXCEPT ![x].reserved = n, ![x].available = a]
         /\ \/ stock[x].available >= q /\ n = stock[x].reserved + q
            \/ stock[x].reserved >= q /\ n = stock[x].reserved - q
  <2>1. CASE CommitReserve(r)
    <3>1. PICK x \in req[r].rows, q \in Quantities :
             /\ stock[x].available >= q
             /\ stock' = [stock EXCEPT ![x].reserved = stock[x].reserved + q,
                                       ![x].available = stock[x].available - q]
      BY <1>2, <2>1 DEF CommitReserve
    <3>2. stock[x].reserved + q \in Nat /\ stock[x].available - q \in Int
      BY <1>1, <1>2 DEF StockRow
    <3> QED
      BY <3>1, <3>2
  <2>2. CASE CommitRelease(r)
    <3>1. PICK x \in req[r].rows, q \in Quantities :
             /\ stock[x].reserved >= q
             /\ stock' = [stock EXCEPT ![x].reserved = stock[x].reserved - q,
                                       ![x].available = stock[x].onHand - (stock[x].reserved - q)]
      BY <1>2, <2>2 DEF CommitRelease
    <3>2. q \in Nat /\ stock[x].reserved \in Nat /\ stock[x].onHand \in Int
      BY <1>1, <1>2 DEF StockRow
    <3>3. stock[x].reserved - q \in Nat /\ stock[x].onHand - (stock[x].reserved - q) \in Int
      BY <3>1, <3>2
    <3> QED
      BY <3>1, <3>3
  <2> QED
    BY <2>1, <2>2
<1> DEFINE k == stock[x].key
<1>4. /\ x \in Rows /\ k \in Keys /\ q \in Nat /\ stock[x].onHand \in Nat
      /\ stock[x].reserved \in Nat /\ stock[x].available = stock[x].onHand - stock[x].reserved
  BY <1>1, <1>2, GoodsAreNatural
<1>5. /\ stock'[x].key = k /\ stock'[x].onHand = stock[x].onHand /\ stock'[x].reserved = n
      /\ \A y \in Rows \ {x} : stock'[y] = stock[y]
  BY <1>1, <1>3, <1>4 DEF StockRow
<1>6. \A y \in Rows : stock'[y].key = stock[y].key
  BY <1>5
<1> HIDE DEF k
<1>7. /\ GoodsOf(stock, k) = stock[x].onHand /\ PromisedOf(stock, k) = stock[x].reserved
      /\ GoodsOf(stock', k) = stock[x].onHand /\ PromisedOf(stock', k) = n
  BY <1>1, <1>4, <1>5, BookOfRow DEF k
<1>8. \A j \in Keys : j # k => /\ GoodsOf(stock', j) = GoodsOf(stock, j)
                               /\ PromisedOf(stock', j) = PromisedOf(stock, j)
  <2> SUFFICES ASSUME NEW j \in Keys, j # k
               PROVE  /\ GoodsOf(stock', j) = GoodsOf(stock, j)
                      /\ PromisedOf(stock', j) = PromisedOf(stock, j)
    OBVIOUS
  <2> DEFINE S == {y \in Rows : stock[y].key = j}
  <2>1. {y \in Rows : stock'[y].key = j} = S
    BY <1>6
  <2>2. \A y \in S : stock'[y] = stock[y]
    BY <1>5 DEF k
  <2> HIDE DEF S
  <2>3. /\ [y \in S |-> stock'[y].onHand] = [y \in S |-> stock[y].onHand]
        /\ [y \in S |-> stock'[y].reserved] = [y \in S |-> stock[y].reserved]
    BY <2>2
  <2> QED
    BY <2>1, <2>3 DEF GoodsOf, PromisedOf, S
<1>9. Quantity' = Quantity /\ PostedTo' = PostedTo /\ Promised' = [Promised EXCEPT ![k] = n]
  <2>1. \A j \in Keys : GoodsOf(stock', j) = GoodsOf(stock, j)
    BY <1>7, <1>8
  <2>2. \A j \in Keys : PromisedOf(stock', j) = IF j = k THEN n ELSE PromisedOf(stock, j)
    BY <1>7, <1>8
  <2> QED
    BY <1>1, <2>1, <2>2, BookValues, NextBookValues
<1>10. Quantity[k] = stock[x].onHand /\ Promised[k] = stock[x].reserved /\ k \in Keys
  BY <1>4, <1>7, BookValues DEF k
<1>11. CASE stock[x].available >= q /\ n = stock[x].reserved + q
  <2>1. q <= Quantity[k] - Promised[k] /\ Promised' = [Promised EXCEPT ![k] = @ + q]
    BY <1>4, <1>9, <1>10, <1>11
  <2>2. Book!Promise(k, q)
    BY <1>9, <2>1 DEF Book!Promise
  <2> QED
    BY <1>10, <2>2 DEF Book!Next
<1>12. CASE stock[x].reserved >= q /\ n = stock[x].reserved - q
  <2>1. q <= Promised[k] /\ Promised' = [Promised EXCEPT ![k] = @ - q]
    BY <1>4, <1>9, <1>10, <1>12
  <2>2. Book!Release(k, q)
    BY <1>9, <2>1 DEF Book!Release
  <2> QED
    BY <1>10, <2>2 DEF Book!Next
<1> QED
  BY <1>3, <1>11, <1>12

\* While only entries, issues, transfers, reservations and releases are in
\* use, the rows and the movements keep the abstract book of stock.
THEOREM LedgerKeepsTheBook ==
    ASSUME Ops \subseteq Sound
    PROVE  Spec => ImplementsBook
<1>1. Init => InUse /\ AllOrderly /\ BalancesAgree
  BY DEF Init, InUse, AllOrderly, Orderly, NoReq, Posting, BalancesAgree, NoRow
<1>2. IInv /\ InUse /\ AllOrderly /\ BalancesAgree /\ [Next]_vars
        => InUse' /\ AllOrderly' /\ BalancesAgree'
  BY InUseKeeps, OrderlyKeeps, BalancesKeep
<1>3. Init => Book!Init
  <2> SUFFICES ASSUME Init
               PROVE  Book!Init
    OBVIOUS
  <2>1. \A k \in Keys : GoodsOf(stock, k) = 0 /\ PromisedOf(stock, k) = 0
    <3>1. \A k \in Keys : \A y \in Rows : stock[y].key # k
      BY LedgerAssumption DEF Init, NoRow
    <3> QED
      BY <3>1, BookOfNoRow
  <2>2. \A k \in Keys : BroughtBy(moves, k) = 0 /\ TakenBy(moves, k) = 0
    <3> SUFFICES ASSUME NEW k \in Keys
                 PROVE  BroughtBy(moves, k) = 0 /\ TakenBy(moves, k) = 0
      OBVIOUS
    <3> DEFINE a == [m \in Movements |-> Added(moves[m], k)]
               b == [m \in Movements |-> Taken(moves[m], k)]
    <3>1. Effect(NoMove, k) = 0
      BY LedgerAssumption DEF Effect, NoMove, Place
    <3>2. (\A m \in DOMAIN a : a[m] = 0) /\ (\A m \in DOMAIN b : b[m] = 0)
      BY <3>1 DEF Init, Added, Taken
    <3> HIDE DEF a, b
    <3>3. Sum(a) = 0 /\ Sum(b) = 0
      BY <3>2, SumNothing
    <3> QED
      BY <3>3 DEF a, b, BroughtBy, TakenBy
  <2> QED
    BY <2>1, <2>2, BookValues DEF Book!Init
<1>4. IInv /\ InUse /\ AllOrderly /\ BalancesAgree /\ [Next]_vars
        /\ IInv' /\ BalancesAgree' /\ OneRowPerIdentity /\ OneRowPerIdentity'
        => [Book!Next]_(Book!book)
  <2> SUFFICES ASSUME IInv, InUse, AllOrderly, BalancesAgree, [Next]_vars, IInv', BalancesAgree',
                      OneRowPerIdentity, OneRowPerIdentity'
               PROVE  [Book!Next]_(Book!book)
    OBVIOUS
  <2>1. CASE stock' = stock /\ moves' = moves
    <3>1. Quantity' = Quantity /\ Promised' = Promised /\ PostedTo' = PostedTo
      BY <2>1, BookValues, NextBookValues
    <3> QED
      BY <3>1 DEF Book!book
  <2>2. CASE ~(stock' = stock /\ moves' = moves)
    <3>1. PICK r \in Reqs : Start(r) \/ LockIdentity(r) \/ Select(r) \/ Lock(r) \/ Commit(r) \/ Abort(r)
      BY <2>2 DEF Next, vars
    <3>2. Commit(r)
      BY <2>2, <3>1, OnlyCommitsWrite
    <3> QED
      BY <3>2, SoundCommit, PostIsBooked, OrderIsBooked
  <2> QED
    BY <2>1, <2>2
<1>5. Spec => []OneRowPerIdentity
  BY OneRow DEF Sound
<1> QED
  BY <1>1, <1>2, <1>3, <1>4, <1>5, InductiveInvariant, PTL DEF Spec, ImplementsBook, Book!Spec
=============================================================================
