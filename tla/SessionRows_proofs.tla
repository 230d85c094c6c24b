------------------------ MODULE SessionRows_proofs ------------------------
(***************************************************************************)
(* The rows of a session over its whole life: where they come from, how    *)
(* they are linked, when they were active. RefreshSessions_proofs shows    *)
(* that what a request is about to commit cannot be overtaken; given that, *)
(* the invariant here says what is in those uncommitted rows, and every    *)
(* remaining safety property of RefreshSessions follows, up to the         *)
(* refinement of SessionRegistry.                                          *)
(*                                                                         *)
(*   Ages       a row's expiry counts from the login, its activity is      *)
(*              past and before the expiry                                 *)
(*   Committed  rows of a family agree on the login and on the activity,   *)
(*              are chained, and carry the version of the family's JWTs    *)
(*   Newcomer   an uncommitted new row continues its family's login and    *)
(*              comes with a stamp of every row it leaves behind           *)
(*   Change     an uncommitted change only ages a row, and links the one   *)
(*              row it consumes to the new row                             *)
(*   Replay     a refresh that found its token consumed revokes the family *)
(***************************************************************************)
EXTENDS RefreshSessions_proofs, Sums_proofs

SameLogin(a, b) ==
    /\ a.family = b.family /\ a.user = b.user /\ a.expires = b.expires
    /\ a.loginAt = b.loginAt /\ a.loginVer = b.loginVer

Ages(a) == a.expires = a.loginAt + Lifetime /\ a.activity < a.expires /\ a.activity <= now

Committed ==
    /\ \A t \in Issued : Ages(tok[t])
    /\ \A s, t \in Issued : tok[s].family = tok[t].family => SameLogin(tok[s], tok[t])
    /\ IdleJudgedAlike
    /\ SuccessorChain
    /\ \A j \in jwts : RowsOf(j.family) # {}
    /\ JwtKeepsLoginVersion

Newcomer(r, n) ==
    LET new == pend[r][n] IN
    /\ Ages(new)
    /\ new.loginVer = req[r].ver
    /\ ~new.consumed /\ ~new.revoked /\ new.next = None
    /\ \A s \in RowsOf(new.family) :
         /\ SameLogin(tok[s], new)
         /\ ~tok[s].revoked => s \in DOMAIN pend[r] /\ pend[r][s].activity = new.activity
    /\ \A s \in DOMAIN pend[r] : pend[r][s].family = new.family

NewlyConsumed(r, t) == t \in Issued /\ t \in DOMAIN pend[r] /\ pend[r][t].consumed /\ ~tok[t].consumed

Change(r, t) ==
    LET new == pend[r][t] IN
    /\ SameLogin(tok[t], new) /\ Ages(new)
    /\ new.activity >= tok[t].activity
    /\ new.activity # tok[t].activity => new.activity < tok[t].activity + IdleLimit
    /\ NewRows(r) = {} => new.revoked
    /\ new.consumed <=> new.next # None
    /\ tok[t].consumed => new.next = tok[t].next
    /\ NewlyConsumed(r, t) =>
         /\ new.next \in NewRows(r)
         /\ \A s \in Issued : NewlyConsumed(r, s) => s = t

Replay(r) == req[r].op = "refresh" =>
    /\ req[r].pc \in RefreshPC \cup {"commit"}
    /\ req[r].pc = "commit" =>
         /\ req[r].token \in Issued /\ req[r].family = tok[req[r].token].family
         /\ req[r].family \in req[r].held
         /\ tok[req[r].token].consumed =>
              /\ NewRows(r) = {}
              /\ \A t \in Unrevoked(req[r].family) : t \in DOMAIN pend[r] /\ pend[r][t].revoked

Writes(r) ==
    /\ \A n \in NewRows(r) : Newcomer(r, n)
    /\ \A t \in DOMAIN pend[r] \cap Issued : Change(r, t)
    /\ Replay(r)

RInv == Committed /\ \A r \in Reqs : Writes(r)

-----------------------------------------------------------------------------
(* What a step owes to the requests that do not take it.                   *)

LEMMA OthersKept ==
    ASSUME IInv, NEW q \in Reqs, Writes(q),
           req'[q] = req[q], pend'[q] = pend[q], now \in Nat, now' \in Nat, now' >= now,
           Issued \subseteq Issued', NewRows(q) \cap Issued' = {},
           \A t \in Issued : tok'[t].family = tok[t].family,
           \A t \in Issued : tok[t].family \in req[q].held => tok'[t] = tok[t],
           \A t \in Issued' \ Issued, n \in NewRows(q) : tok'[t].family # pend[q][n].family,
           \A t \in Issued' \ Issued, s \in Issued :
             tok[s].family \in req[q].held => tok'[t].family # tok[s].family
    PROVE  Writes(q)'
<1>0. /\ Good(q) /\ Table(pend[q]) /\ Table(tok) /\ req[q] \in Request
  BY DEF IInv, TypeOK
<1>1. NewRows(q)' = NewRows(q) /\ DOMAIN pend'[q] \cap Issued' = DOMAIN pend[q] \cap Issued
  BY DEF NewRows
<1>2. \A t \in DOMAIN pend[q] : pend[q][t] \in Row
  BY <1>0 DEF Table
<1>3. \A t \in DOMAIN pend[q] : Ages(pend[q][t]) => Ages(pend[q][t])'
  BY <1>2 DEF Ages, Row
<1>4. ASSUME NEW n \in NewRows(q) PROVE Newcomer(q, n)'
  <2>0. n \in DOMAIN pend[q] /\ Newcomer(q, n)
    BY DEF NewRows, Writes
  <2>1. \A s \in Issued' : tok'[s].family = pend[q][n].family =>
          s \in RowsOf(pend[q][n].family) /\ tok'[s] = tok[s]
    BY <1>0 DEF Good, NewWrites, RowsOf
  <2>2. Ages(pend[q][n])'
    BY <1>3, <2>0 DEF Newcomer
  <2>3. \A s \in RowsOf(pend[q][n].family)' :
          s \in RowsOf(pend[q][n].family) /\ tok'[s] = tok[s]
    BY <2>1 DEF RowsOf
  <2> QED
    BY <2>0, <2>2, <2>3 DEF Newcomer, SameLogin
<1>5. ASSUME NEW t \in DOMAIN pend[q] \cap Issued PROVE Change(q, t)'
  <2>0. Change(q, t) /\ \A s \in DOMAIN pend[q] \cap Issued : tok'[s] = tok[s]
    BY <1>0 DEF Writes, Good, OldWrites
  <2>1. \A s : NewlyConsumed(q, s)' <=> NewlyConsumed(q, s)
    BY <1>1, <2>0 DEF NewlyConsumed
  <2>2. Ages(pend[q][t])'
    BY <1>3, <2>0 DEF Change
  <2>3. tok'[t] = tok[t]
    BY <2>0
  <2>4. NewlyConsumed(q, t)' =>
          /\ pend'[q][t].next \in NewRows(q)'
          /\ \A s \in Issued' : NewlyConsumed(q, s)' => s = t
    BY <1>1, <2>0, <2>1 DEF Change, NewlyConsumed
  <2> QED
    BY <1>1, <2>0, <2>2, <2>3, <2>4 DEF Change, SameLogin
<1>6. Replay(q)'
  <2> SUFFICES ASSUME req[q].op = "refresh" PROVE Replay(q)'
    BY DEF Replay
  <2>1. Replay(q)
    BY DEF Writes
  <2>2. CASE req[q].pc = "commit"
    <3>1. /\ req[q].token \in Issued /\ req[q].family = tok[req[q].token].family
          /\ req[q].family \in req[q].held
      BY <2>1, <2>2 DEF Replay
    <3>2. tok'[req[q].token] = tok[req[q].token]
      BY <3>1
    <3>3. \A t \in Unrevoked(req[q].family)' : t \in Unrevoked(req[q].family)
      BY <3>1 DEF Unrevoked, RowsOf
    <3> QED
      BY <1>1, <2>1, <2>2, <3>1, <3>2, <3>3 DEF Replay
  <2> QED
    BY <2>1, <2>2 DEF Replay
<1> QED
  BY <1>1, <1>4, <1>5, <1>6 DEF Writes

(* A step that leaves the tables alone owes nothing but its own writes.    *)

LEMMA CommittedKept ==
    ASSUME IInv, Committed, tok' = tok, jwts' = jwts, now' \in Nat, now' >= now
    PROVE  Committed'
<1>1. Issued' = Issued /\ \A f : RowsOf(f)' = RowsOf(f)
  BY DEF Issued, RowsOf
<1>2. \A t \in Issued : tok[t].activity \in Nat /\ now \in Nat
  BY DEF IInv, TypeOK, Table, Row, Issued
<1>3. \A t \in Issued : Ages(tok[t])'
  BY <1>2 DEF Committed, Ages
<1> QED
  BY <1>1, <1>3 DEF Committed, SameLogin, IdleJudgedAlike, SuccessorChain, JwtKeepsLoginVersion

LEMMA QuietRows ==
    ASSUME IInv, RInv, Quiet, NEW r \in Reqs, Writes(r)',
           \A q \in Reqs \ {r} : req'[q] = req[q] /\ pend'[q] = pend[q]
    PROVE  RInv'
<1>1. tok' = tok /\ jwts' = jwts /\ Issued' = Issued /\ now' \in Nat /\ now \in Nat /\ now' >= now
  BY DEF Quiet, table, Issued, IInv, TypeOK
<1>2. Committed'
  BY <1>1, CommittedKept DEF RInv
<1>3. ASSUME NEW q \in Reqs \ {r} PROVE Writes(q)'
  <2>1. NewRows(q) \cap Issued' = {} /\ Writes(q)
    BY <1>1 DEF NewRows, RInv
  <2> QED
    BY <1>1, <2>1, OthersKept
<1> QED
  BY <1>2, <1>3 DEF RInv

LEMMA FinishRows ==
    ASSUME IInv, RInv, Quiet, NEW r \in Reqs, Finish(r)
    PROVE  RInv'
<1>1. /\ req'[r] = NoReq /\ pend'[r] = NoRows
      /\ \A q \in Reqs \ {r} : req'[q] = req[q] /\ pend'[q] = pend[q]
  BY DEF Finish, Write, IInv, TypeOK
<1>2. Writes(r)'
  BY <1>1 DEF Writes, NewRows, NoRows, NoReq, Replay
<1> QED
  BY <1>1, <1>2, QuietRows

(* A step that writes no row, of a request that has added none.            *)

LEMMA MoveRows ==
    ASSUME IInv, RInv, Quiet, NEW r \in Reqs, NEW x, Move(r, x), NewRows(r) = {},
           x.op = "refresh" => x.pc \in RefreshPC
    PROVE  RInv'
<1>1. /\ req'[r] = x /\ pend' = pend /\ tok' = tok /\ Issued' = Issued /\ now' = now
      /\ \A q \in Reqs \ {r} : req'[q] = req[q] /\ pend'[q] = pend[q]
  BY DEF Move, IInv, TypeOK, Quiet, table, Issued
<1>2. NewRows(r)' = {}
  BY <1>1 DEF NewRows
<1>3. \A t \in DOMAIN pend'[r] \cap Issued' : Change(r, t)'
  <2>1. \A t \in DOMAIN pend[r] \cap Issued : Change(r, t)
    BY DEF RInv, Writes
  <2> QED
    BY <1>1, <1>2, <2>1 DEF Change, SameLogin, Ages, NewlyConsumed
<1>4. Replay(r)'
  BY <1>1 DEF Replay, RefreshPC
<1>5. Writes(r)'
  BY <1>2, <1>3, <1>4 DEF Writes
<1> QED
  BY <1>1, <1>5, QuietRows

(* A step that revokes rows.                                               *)

LEMMA RevokeRows ==
    ASSUME IInv, RInv, Quiet, NEW r \in Reqs, NEW x, NEW S \in SUBSET Issued,
           Write(r, x, Revoke(S)), Replay(r)'
    PROVE  RInv'
<1>0. \A t \in Issued : tok[t] \in Row
  BY DEF IInv, TypeOK, Table, Issued
<1>1. /\ pend'[r] = Revoke(S) /\ tok' = tok /\ Issued' = Issued /\ now' = now
      /\ \A q \in Reqs \ {r} : req'[q] = req[q] /\ pend'[q] = pend[q]
  BY DEF Write, IInv, TypeOK, Quiet, table, Issued
<1>2. /\ DOMAIN pend'[r] = S /\ NewRows(r)' = {}
      /\ \A t \in S : pend'[r][t] = [tok[t] EXCEPT !.revoked = TRUE]
  BY <1>1 DEF Revoke, NewRows
<1>3. \A t \in S :
        /\ SameLogin(tok[t], pend'[r][t]) /\ pend'[r][t].revoked
        /\ pend'[r][t].activity = tok[t].activity /\ pend'[r][t].consumed = tok[t].consumed
        /\ pend'[r][t].next = tok[t].next /\ pend'[r][t].expires = tok[t].expires
        /\ pend'[r][t].loginAt = tok[t].loginAt
  <2> SUFFICES ASSUME NEW t \in S, NEW a, a = tok[t], NEW b, b = pend'[r][t]
               PROVE  /\ SameLogin(a, b) /\ b.revoked /\ b.activity = a.activity
                      /\ b.consumed = a.consumed /\ b.next = a.next
                      /\ b.expires = a.expires /\ b.loginAt = a.loginAt
    OBVIOUS
  <2>1. a \in Row /\ b = [a EXCEPT !.revoked = TRUE]
    BY <1>0, <1>2
  <2> QED
    BY <2>1 DEF SameLogin, Row
<1>4. ASSUME NEW t \in S PROVE Change(r, t)'
  <2>1. Ages(tok[t]) /\ (tok[t].consumed <=> tok[t].next # None) /\ tok[t].activity \in Nat
    BY <1>0 DEF RInv, Committed, SuccessorChain, Row
  <2>2. SameLogin(tok[t], pend[r][t])'
    BY <1>1, <1>3 DEF SameLogin
  <2>3. Ages(pend[r][t])'
    BY <1>1, <1>3, <2>1 DEF Ages
  <2>4. ~NewlyConsumed(r, t)'
    BY <1>1, <1>2, <1>3 DEF NewlyConsumed
  <2> QED
    BY <1>1, <1>3, <2>1, <2>2, <2>3, <2>4 DEF Change
<1>5. Writes(r)'
  BY <1>1, <1>2, <1>4 DEF Writes
<1> QED
  BY <1>1, <1>5, QuietRows

-----------------------------------------------------------------------------
(* A login inserts the first row of a family nobody has a row of.          *)

LEMMA IssuePairRows ==
    ASSUME IInv, RInv, Quiet, NEW r \in Reqs, IssuePair(r), req[r].op # "refresh"
    PROVE  RInv'
<1> DEFINE u == req[r].user
           x == [req[r] EXCEPT !.urow = "update", !.ver = version[req[r].user],
                               !.pc = "commit"]
<1>0. /\ req \in [Reqs -> Request] /\ req[r] \in Request /\ DOMAIN pend = Reqs /\ now \in Nat
      /\ version \in [Users -> Nat] /\ u \in Users
  BY DEF IInv, TypeOK, IssuePair, Good, Shape
<1>1. PICK f \in FreshFamilies, t \in FreshTokens :
        Write(r, x, [y \in {t} |-> LoginRow(f, u)])
  BY DEF IssuePair
<1>2. x.op = req[r].op /\ x.ver = version[u]
  BY <1>0 DEF Request
<1> HIDE DEF x
<1>3. /\ req'[r] = x /\ DOMAIN pend'[r] = {t} /\ pend'[r][t] = LoginRow(f, u)
      /\ tok' = tok /\ Issued' = Issued /\ now' = now
      /\ \A q \in Reqs \ {r} : req'[q] = req[q] /\ pend'[q] = pend[q]
  BY <1>0, <1>1 DEF Write, Quiet, table, Issued
<1>4. t \notin Issued /\ RowsOf(f) = {}
  BY DEF FreshTokens, FreshFamilies, RowsOf
<1>5. NewRows(r)' = {t} /\ DOMAIN pend'[r] \cap Issued' = {} /\ RowsOf(f)' = {}
  BY <1>3, <1>4 DEF NewRows, RowsOf
<1>6. /\ LoginRow(f, u).family = f /\ LoginRow(f, u).loginVer = version[u]
      /\ LoginRow(f, u).activity = now /\ LoginRow(f, u).expires = now + Lifetime
      /\ LoginRow(f, u).loginAt = now /\ LoginRow(f, u).next = None
      /\ ~LoginRow(f, u).consumed /\ ~LoginRow(f, u).revoked
  BY DEF LoginRow
<1>7. Ages(LoginRow(f, u))
  BY <1>0, <1>6, SessionAssumption DEF Ages
<1>8. Newcomer(r, t)'
  <2>1. Ages(pend[r][t])'
    BY <1>3, <1>7 DEF Ages
  <2> QED
    BY <1>2, <1>3, <1>5, <1>6, <2>1 DEF Newcomer
<1>9. Writes(r)'
  BY <1>2, <1>3, <1>5, <1>8 DEF Writes, Replay
<1> QED
  BY <1>3, <1>9, QuietRows

(* A rotation stamps every row of the family that is not revoked: they     *)
(* expire together, and were last active together.                         *)

LEMMA RotateRows ==
    ASSUME IInv, RInv, Quiet, NEW r \in Reqs, req[r].pc = "refresh_decide", RotateSucceeds(r)
    PROVE  RInv'
<1> DEFINE t == req[r].token
           x == At(r, "commit")
           Rows(s) == [y \in RotationTouches(t) \cup {s} |->
                         IF y = s THEN SuccessorRow(t)
                         ELSE IF y = t THEN ConsumedRow(t, s) ELSE TouchedRow(y)]
<1>0. /\ req \in [Reqs -> Request] /\ req[r] \in Request /\ Good(r) /\ DOMAIN pend = Reqs
      /\ version \in [Users -> Nat] /\ now \in Nat /\ Table(tok) /\ MayRotate(r)
      /\ Committed
  BY DEF IInv, TypeOK, RotateSucceeds, RInv
<1>1. PICK s \in FreshTokens : Write(r, x, Rows(s))
  BY DEF RotateSucceeds
<1>2. /\ x.op = req[r].op /\ x.ver = req[r].ver /\ x.token = t /\ x.held = req[r].held
      /\ x.family = req[r].family /\ x.pc = "commit"
  BY <1>0 DEF At, Request
<1>3. /\ t \in Issued /\ req[r].family = tok[t].family /\ req[r].user = tok[t].user
      /\ tok[t].family \in req[r].held /\ req[r].ver = version[tok[t].user]
  BY <1>0 DEF Good, Shape, Versions, RefreshPC, HoldsFamilyPC
<1>4. ~tok[t].revoked /\ ~tok[t].consumed /\ Unexpired(t) /\ ~IdleTooLong(t)
  BY <1>0 DEF MayRotate
<1>5. \A y \in Issued : tok[y] \in Row
  BY <1>0 DEF Table, Issued
<1>6. s \in Tokens \ Issued /\ s # None
  BY SessionAssumption DEF FreshTokens
<1>7. /\ RotationTouches(t) \subseteq Issued
      /\ \A y \in RotationTouches(t) : tok[y].family = tok[t].family /\ ~tok[y].revoked
      /\ \A y \in Issued : tok[y].family = tok[t].family /\ ~tok[y].revoked
           => y \in RotationTouches(t)
  <2>1. \A y \in Issued : tok[y].family = tok[t].family => tok[y].expires = tok[t].expires
    BY <1>0, <1>3 DEF Committed, SameLogin
  <2> QED
    BY <1>4, <2>1 DEF RotationTouches, Unrevoked, RowsOf, Unexpired
<1> HIDE DEF x, t
<1>8. t \in RotationTouches(t)
  BY <1>3, <1>4, <1>7
<1>9. /\ req'[r] = x /\ pend'[r] = Rows(s) /\ tok' = tok /\ Issued' = Issued /\ now' = now
      /\ \A q \in Reqs \ {r} : req'[q] = req[q] /\ pend'[q] = pend[q]
  BY <1>0, <1>1 DEF Write, Quiet, table, Issued
<1>10. /\ DOMAIN pend'[r] = RotationTouches(t) \cup {s}
       /\ pend'[r][s] = SuccessorRow(t)
       /\ pend'[r][t] = ConsumedRow(t, s)
       /\ \A y \in RotationTouches(t) \ {t} : pend'[r][y] = TouchedRow(y)
  BY <1>3, <1>6, <1>7, <1>8, <1>9
<1>11. /\ NewRows(r)' = {s} /\ DOMAIN pend'[r] \cap Issued' = RotationTouches(t)
       /\ \A f : RowsOf(f)' = RowsOf(f)
  BY <1>6, <1>7, <1>9, <1>10 DEF NewRows, RowsOf
<1>12. \A y \in Issued : Ages(tok[y]) /\ (tok[y].consumed <=> tok[y].next # None)
  BY <1>0 DEF Committed, SuccessorChain
<1>13. tok[t] \in Row /\ tok[t].expires > now /\ tok[t].activity + IdleLimit > now
       /\ tok[t].activity <= now
  BY <1>0, <1>3, <1>4, <1>5, <1>12, SessionAssumption DEF Unexpired, IdleTooLong, Row, Ages
<1>14. /\ SameLogin(tok[t], SuccessorRow(t)) /\ SuccessorRow(t).activity = now
       /\ ~SuccessorRow(t).consumed /\ ~SuccessorRow(t).revoked /\ SuccessorRow(t).next = None
  BY <1>13 DEF SuccessorRow, SameLogin, Row
<1>15. /\ SameLogin(tok[t], ConsumedRow(t, s)) /\ ConsumedRow(t, s).activity = now
       /\ ConsumedRow(t, s).consumed /\ ConsumedRow(t, s).next = s
  BY <1>13 DEF ConsumedRow, SameLogin, Row
<1>16. \A y \in Issued :
         /\ SameLogin(tok[y], TouchedRow(y)) /\ TouchedRow(y).activity = now
         /\ TouchedRow(y).consumed = tok[y].consumed /\ TouchedRow(y).next = tok[y].next
  BY <1>5 DEF TouchedRow, SameLogin, Row
<1>17. ASSUME NEW a, SameLogin(tok[t], a), a.activity = now PROVE Ages(a)
  BY <1>0, <1>3, <1>12, <1>13, <1>17 DEF Ages, SameLogin
<1>18. \A y \in RotationTouches(t) :
         /\ SameLogin(tok[t], tok[y]) /\ tok[y].activity = tok[t].activity
  BY <1>0, <1>3, <1>4, <1>7 DEF Committed, IdleJudgedAlike
<1>19. Newcomer(r, s)'
  <2>1. Ages(pend[r][s])'
    BY <1>9, <1>10, <1>14, <1>17 DEF Ages
  <2>2. pend'[r][s].loginVer = req'[r].ver
    <3>1. tok[t].loginVer = version[tok[t].user]
      BY <1>3, <1>4 DEF IInv, LogoutAllIsTotal
    <3> QED
      BY <1>2, <1>3, <1>9, <1>10, <1>14, <3>1 DEF SameLogin
  <2>3. ASSUME NEW y \in RowsOf(pend'[r][s].family)
        PROVE  /\ SameLogin(tok[y], pend'[r][s])
               /\ ~tok[y].revoked => y \in DOMAIN pend'[r]
                                     /\ pend'[r][y].activity = pend'[r][s].activity
    <3>1. y \in Issued /\ tok[y].family = tok[t].family
      BY <1>10, <1>14 DEF RowsOf, SameLogin
    <3>2. SameLogin(tok[y], tok[t])
      BY <1>0, <1>3, <3>1 DEF Committed
    <3>3. ~tok[y].revoked => y \in RotationTouches(t)
      BY <1>7, <3>1
    <3>4. \A z \in RotationTouches(t) : pend'[r][z].activity = now
      BY <1>7, <1>10, <1>15, <1>16
    <3> QED
      BY <1>10, <1>14, <3>2, <3>3, <3>4 DEF SameLogin
  <2>4. \A y \in DOMAIN pend'[r] : pend'[r][y].family = pend'[r][s].family
    <3>1. pend'[r][s].family = tok[t].family /\ pend'[r][t].family = tok[t].family
      BY <1>10, <1>14, <1>15 DEF SameLogin
    <3>2. \A y \in RotationTouches(t) \ {t} : pend'[r][y].family = tok[y].family
      BY <1>7, <1>10, <1>16 DEF SameLogin
    <3> QED
      BY <1>7, <1>10, <3>1, <3>2
  <2> QED
    BY <1>9, <1>10, <1>11, <1>14, <2>1, <2>2, <2>3, <2>4 DEF Newcomer, SameLogin
<1>20. \A y : NewlyConsumed(r, y)' => y = t
  <2> SUFFICES ASSUME NEW y \in RotationTouches(t) \ {t} PROVE ~NewlyConsumed(r, y)'
    BY <1>11 DEF NewlyConsumed
  <2> QED
    BY <1>7, <1>9, <1>10, <1>16 DEF NewlyConsumed
<1>21. ASSUME NEW y \in RotationTouches(t) PROVE Change(r, y)'
  <2>0. y \in Issued /\ tok[y] \in Row
    BY <1>5, <1>7
  <2>1. SameLogin(tok[y], pend'[r][y]) /\ pend'[r][y].activity = now
    BY <1>10, <1>15, <1>16, <2>0
  <2>2. Ages(pend'[r][y])
    BY <1>17, <1>18, <2>1 DEF SameLogin
  <2>3. /\ pend'[r][y].activity >= tok[y].activity
        /\ pend'[r][y].activity < tok[y].activity + IdleLimit
    BY <1>13, <1>18, <2>1
  <2>4. /\ pend'[r][y].consumed <=> pend'[r][y].next # None
        /\ tok[y].consumed => pend'[r][y].next = tok[y].next
    BY <1>4, <1>6, <1>10, <1>12, <1>15, <1>16, <2>0
  <2>5. NewlyConsumed(r, y)' => pend'[r][y].next \in NewRows(r)'
    BY <1>10, <1>11, <1>15, <1>20
  <2>6. SameLogin(tok[y], pend[r][y])' /\ Ages(pend[r][y])'
    BY <1>9, <2>1, <2>2 DEF SameLogin, Ages
  <2>7. NewlyConsumed(r, y)' => \A z \in Issued' : NewlyConsumed(r, z)' => z = y
    BY <1>20
  <2> QED
    BY <1>9, <1>11, <2>3, <2>4, <2>5, <2>6, <2>7 DEF Change
<1>22. Replay(r)'
  BY <1>2, <1>3, <1>4, <1>9 DEF Replay
<1>23. Writes(r)'
  BY <1>11, <1>19, <1>21, <1>22 DEF Writes
<1> QED
  BY <1>9, <1>23, QuietRows

(* The other steps of a transaction.                                       *)

LEMMA DecideRows ==
    ASSUME IInv, RInv, Quiet, NEW r \in Reqs, RefreshDecide(r)
    PROVE  RInv'
<1>0. /\ req \in [Reqs -> Request] /\ req[r] \in Request /\ Good(r) /\ DOMAIN pend = Reqs
      /\ req[r].pc = "refresh_decide"
  BY DEF IInv, TypeOK, RefreshDecide
<1> DEFINE t == req[r].token
           f == req[r].family
           x == At(r, "commit")
<1>1. /\ x.op = req[r].op /\ x.token = t /\ x.held = req[r].held
      /\ x.family = f /\ x.pc = "commit"
  BY <1>0 DEF At, Request
<1>2. t \in Issued /\ f = tok[t].family /\ f \in req[r].held
  BY <1>0 DEF Good, Shape, RefreshPC, HoldsFamilyPC
<1> HIDE DEF x
<1>3. CASE RotateKillsFamily(r)
  <2>1. Write(r, x, Revoke(Unrevoked(f))) /\ Unrevoked(f) \subseteq Issued
    BY <1>2, <1>3 DEF RotateKillsFamily, Unrevoked, RowsOf, x
  <2>2. /\ req'[r] = x /\ pend'[r] = Revoke(Unrevoked(f)) /\ tok' = tok /\ Issued' = Issued
        /\ \A h : Unrevoked(h)' = Unrevoked(h)
    BY <1>0, <2>1 DEF Write, Quiet, table, Issued, Unrevoked, RowsOf
  <2>3. /\ DOMAIN pend'[r] = Unrevoked(f)
        /\ \A y \in Unrevoked(f) : tok[y] \in Row /\ pend'[r][y] = [tok[y] EXCEPT !.revoked = TRUE]
    BY <2>1, <2>2 DEF Revoke, IInv, TypeOK, Table, Issued
  <2>4. \A y \in Unrevoked(f) : pend'[r][y].revoked
    BY <2>3 DEF Row
  <2>5. NewRows(r)' = {}
    BY <2>1, <2>2, <2>3 DEF NewRows
  <2>6. Replay(r)'
    BY <1>1, <1>2, <2>2, <2>3, <2>4, <2>5 DEF Replay
  <2> QED
    BY <2>1, <2>6, RevokeRows
<1>4. CASE RotateExpired(r)
  <2>1. Write(r, x, Revoke({t})) /\ ~tok[t].consumed
    BY <1>4 DEF RotateExpired, x
  <2>2. req'[r] = x /\ tok' = tok /\ Issued' = Issued
    BY <1>0, <2>1 DEF Write, Quiet, table, Issued
  <2>3. Replay(r)'
    BY <1>1, <1>2, <2>1, <2>2 DEF Replay
  <2> QED
    BY <1>2, <2>1, <2>3, RevokeRows
<1> QED
  BY <1>0, <1>3, <1>4, FinishRows, RotateRows DEF RefreshDecide, RotateRevoked

LEMMA StepRows ==
    ASSUME IInv, RInv, NEW r \in Reqs, Step(r)
    PROVE  RInv'
<1>0. /\ Quiet /\ req \in [Reqs -> Request] /\ req[r] \in Request /\ Good(r) /\ Replay(r)
      /\ DOMAIN pend = Reqs
  BY DEF Step, Quiet, IInv, TypeOK, RInv, Writes
<1>1. req[r].pc # "commit" => NewRows(r) = {}
  BY <1>0 DEF Good, NewWrites
<1>2. req[r].op = "refresh" => req[r].pc \in RefreshPC \cup {"commit"}
  BY <1>0 DEF Replay
<1>3. CASE LoginAudit(r) \/ IdleAudit(r) \/ LogoutAudit(r)
  <2>1. PICK pc \in PC : Move(r, [req[r] EXCEPT !.urow = "share", !.pc = pc])
    BY <1>3 DEF LoginAudit, IdleAudit, LogoutAudit, PC
  <2>2. req[r].op # "refresh" /\ NewRows(r) = {}
    BY <1>1, <1>2, <1>3 DEF LoginAudit, IdleAudit, LogoutAudit, RefreshPC
  <2>3. [req[r] EXCEPT !.urow = "share", !.pc = pc].op = req[r].op
    BY <1>0 DEF Request
  <2> QED
    BY <1>0, <2>1, <2>2, <2>3, MoveRows
<1>4. CASE IssuePair(r)
  BY <1>0, <1>2, <1>4, IssuePairRows DEF IssuePair, RefreshPC
<1>5. CASE IssueRefused(r) \/ TouchRejects(r)
  BY <1>0, <1>5, FinishRows DEF IssueRefused, TouchRejects
<1>6. CASE RefreshLockUser(r)
  <2> DEFINE x == [req[r] EXCEPT !.urow = "update", !.ver = version[req[r].user],
                                 !.pc = "refresh_family"]
  <2>1. x.pc \in RefreshPC /\ Move(r, x) /\ NewRows(r) = {}
    BY <1>0, <1>1, <1>6 DEF RefreshLockUser, RefreshPC, Request
  <2> QED
    BY <1>0, <2>1, MoveRows
<1>7. CASE RefreshLockFamily(r)
  <2> DEFINE x == [req[r] EXCEPT !.held = {req[r].family}, !.pc = "refresh_decide"]
  <2>1. x.pc \in RefreshPC /\ Move(r, x) /\ NewRows(r) = {}
    BY <1>0, <1>1, <1>7 DEF RefreshLockFamily, LockFamily, RefreshPC, Request
  <2> QED
    BY <1>0, <2>1, MoveRows
<1>8. CASE RefreshDecide(r)
  BY <1>0, <1>8, DecideRows
<1>9. CASE AuthLockFamily(r) \/ LogoutLockFamily(r)
  <2>1. PICK pc \in PC : Move(r, [req[r] EXCEPT !.held = {req[r].family}, !.pc = pc])
    BY <1>9 DEF AuthLockFamily, LogoutLockFamily, LockFamily, PC
  <2>2. req[r].op # "refresh" /\ NewRows(r) = {}
    BY <1>1, <1>2, <1>9 DEF AuthLockFamily, LogoutLockFamily, RefreshPC
  <2>3. [req[r] EXCEPT !.held = {req[r].family}, !.pc = pc].op = req[r].op
    BY <1>0 DEF Request
  <2> QED
    BY <1>0, <2>1, <2>2, <2>3, MoveRows
<1>10. CASE AuthLoadUser(r)
  <2>1. req[r].op # "refresh" /\ NewRows(r) = {}
    BY <1>1, <1>2, <1>10 DEF AuthLoadUser, RefreshPC
  <2>2. Finish(r) \/ \E pc \in PC : Move(r, At(r, pc))
    BY <1>10 DEF AuthLoadUser, PC
  <2>3. \A pc \in PC : At(r, pc).op = req[r].op
    BY <1>0 DEF At, Request
  <2> QED
    BY <1>0, <2>1, <2>2, <2>3, FinishRows, MoveRows
<1>11. /\ req[r].pc \in {"all_user", "all_scan", "all_families", "auth_touch", "logout_revoke"} =>
             req[r].op # "refresh" /\ NewRows(r) = {}
  BY <1>1, <1>2 DEF RefreshPC
<1>12. CASE LogoutAllLockUser(r)
  <2> DEFINE x == [req[r] EXCEPT !.urow = "update", !.pc = "all_scan"]
  <2>1. Move(r, x) /\ x.op = req[r].op /\ req[r].pc = "all_user"
    BY <1>0, <1>12 DEF LogoutAllLockUser, Request
  <2> HIDE DEF x
  <2> QED
    BY <1>0, <1>11, <2>1, MoveRows
<1>13. CASE LogoutAllScan(r)
  <2> DEFINE x == [req[r] EXCEPT !.pc = "all_families",
                     !.fams = {tok[t].family : t \in {y \in Issued :
                                 tok[y].user = req[r].user /\ ~tok[y].revoked}}]
  <2>1. Move(r, x) /\ x.op = req[r].op /\ req[r].pc = "all_scan"
    BY <1>0, <1>13 DEF LogoutAllScan, Request
  <2> HIDE DEF x
  <2> QED
    BY <1>0, <1>11, <2>1, MoveRows
<1>14. ASSUME NEW f \in Families, LogoutAllLockFamily(r, f) PROVE RInv'
  <2> DEFINE x == [req[r] EXCEPT !.held = @ \cup {f}]
  <2>1. Move(r, x) /\ x.op = req[r].op /\ req[r].pc = "all_families"
    BY <1>0, <1>14 DEF LogoutAllLockFamily, Request
  <2> HIDE DEF x
  <2> QED
    BY <1>0, <1>11, <2>1, MoveRows
<1>15. ASSUME NEW x, NEW S \in SUBSET Issued, Write(r, x, Revoke(S)), x.op = req[r].op,
              req[r].op # "refresh"
       PROVE  RInv'
  <2>1. Replay(r)'
    BY <1>0, <1>15 DEF Replay, Write
  <2> QED
    BY <1>0, <1>15, <2>1, RevokeRows
<1>16. CASE TouchIdle(r)
  <2> DEFINE x == At(r, "idle_audit")
  <2>1. Write(r, x, Revoke(Stale(req[r].family))) /\ x.op = req[r].op /\ req[r].pc = "auth_touch"
    BY <1>0, <1>16 DEF TouchIdle, At, Request
  <2>2. Stale(req[r].family) \in SUBSET Issued
    BY DEF Stale, Unrevoked, RowsOf
  <2> HIDE DEF x
  <2> QED
    BY <1>11, <1>15, <2>1, <2>2
<1>17. CASE LogoutRevoke(r)
  <2> DEFINE x == At(r, "logout_audit")
             S == {t \in Unrevoked(req[r].family) : tok[t].user = req[r].user}
  <2>1. Write(r, x, Revoke(S)) /\ x.op = req[r].op /\ req[r].pc = "logout_revoke"
    BY <1>0, <1>17 DEF LogoutRevoke, At, Request
  <2>2. S \in SUBSET Issued
    BY DEF Unrevoked, RowsOf
  <2> HIDE DEF x, S
  <2> QED
    BY <1>11, <1>15, <2>1, <2>2
<1>18. CASE LogoutAllRevoke(r)
  <2> DEFINE x == [req[r] EXCEPT !.bump = TRUE, !.pc = "commit"]
             S == {t \in Issued : tok[t].user = req[r].user /\ ~tok[t].revoked}
  <2>1. Write(r, x, Revoke(S)) /\ x.op = req[r].op /\ req[r].pc = "all_families"
    BY <1>0, <1>18 DEF LogoutAllRevoke, Request
  <2>2. S \in SUBSET Issued
    OBVIOUS
  <2> HIDE DEF x, S
  <2> QED
    BY <1>11, <1>15, <2>1, <2>2
<1> QED
  BY <1>3, <1>4, <1>5, <1>6, <1>7, <1>8, <1>9, <1>10, <1>12, <1>13, <1>14, <1>16, <1>17, <1>18
     DEF Step

LEMMA StartRows ==
    ASSUME IInv, RInv, NEW r \in Reqs, Start(r)
    PROVE  RInv'
<1>0. Quiet /\ req[r] = NoReq /\ Good(r)
  BY DEF Start, Quiet, IInv, LoginStart, RefreshStart, AuthStart
<1>1. NewRows(r) = {}
  BY <1>0 DEF Good, NewWrites, NoReq
<1>2. ASSUME NEW u \in Users, LoginStart(r, u) PROVE RInv'
  <2> DEFINE x == [req[r] EXCEPT !.op = "login", !.user = u, !.pc = "login_audit"]
  <2>1. Move(r, x) /\ x.op = "login"
    BY <1>0, <1>2 DEF LoginStart, NoReq
  <2> HIDE DEF x
  <2> QED
    BY <1>0, <1>1, <2>1, MoveRows
<1>3. ASSUME NEW t \in Tokens, RefreshStart(r, t) PROVE RInv'
  <2> DEFINE x == [req[r] EXCEPT !.op = "refresh", !.token = t, !.user = tok[t].user,
                                 !.family = tok[t].family, !.pc = "refresh_user"]
  <2>1. Move(r, x) /\ x.pc \in RefreshPC
    BY <1>0, <1>3 DEF RefreshStart, NoReq, RefreshPC
  <2> HIDE DEF x
  <2> QED
    BY <1>0, <1>1, <2>1, MoveRows
<1>4. ASSUME NEW op \in {"call", "logout", "logout_all"}, NEW j \in jwts, AuthStart(r, op, j)
      PROVE  RInv'
  <2> DEFINE x == [req[r] EXCEPT !.op = op, !.user = j.user, !.family = j.family,
                                 !.ver = j.ver, !.pc = "auth_family"]
  <2>1. Move(r, x) /\ x.op = op
    BY <1>0, <1>4 DEF AuthStart, NoReq
  <2> HIDE DEF x
  <2> QED
    BY <1>0, <1>1, <2>1, MoveRows
<1> QED
  BY <1>2, <1>3, <1>4 DEF Start

-----------------------------------------------------------------------------
(* Authentication stamps all the rows of a family that are not revoked, or *)
(* none: they expire together and were last active together.               *)

LEMMA TouchRows ==
    ASSUME IInv, RInv, NEW r \in Reqs, TouchActive(r)
    PROVE  RInv'
<1> DEFINE g == req[r].family
           F == Fresh(req[r].family)
           x == [req[r] EXCEPT !.held = {}, !.pc = "auth_user"]
<1>0. /\ req \in [Reqs -> Request] /\ req[r] \in Request /\ Good(r) /\ Table(tok)
      /\ now \in Nat /\ DOMAIN pend = Reqs /\ req[r].pc = "auth_touch"
      /\ tok' = Overlay(Touch(F)) /\ Move(r, x) /\ F # {}
      /\ jwts' = jwts /\ now' = now /\ Committed /\ Replay(r)
  BY DEF IInv, TypeOK, TouchActive, RInv, Writes
<1>1. x.op = req[r].op
  BY <1>0 DEF Request
<1> HIDE DEF x
<1>2. /\ req'[r] = x /\ pend' = pend /\ DOMAIN pend[r] = {} /\ g \in req[r].held
      /\ \A q \in Reqs \ {r} : req'[q] = req[q] /\ pend'[q] = pend[q]
  BY <1>0 DEF Move, Good, Shape, WritingPC, HoldsFamilyPC
<1>3. \A t \in Issued : tok[t] \in Row
  BY <1>0 DEF Table, Issued
<1>4. F \subseteq Issued /\ \A t \in F : tok[t].family = g /\ Unexpired(t) /\ ~tok[t].revoked
                                         /\ ~IdleTooLong(t)
  BY DEF Fresh, Unrevoked, RowsOf
<1>5. /\ Issued' = Issued
      /\ \A t \in Issued : tok'[t] = IF t \in F THEN TouchedRow(t) ELSE tok[t]
  BY <1>0, <1>4 DEF Overlay, Touch, Issued
<1>6. \A t \in Issued :
        /\ SameLogin(tok[t], TouchedRow(t)) /\ TouchedRow(t).activity = now
        /\ TouchedRow(t).consumed = tok[t].consumed /\ TouchedRow(t).revoked = tok[t].revoked
        /\ TouchedRow(t).next = tok[t].next
  BY <1>3 DEF TouchedRow, SameLogin, Row
<1>7. \A t \in Issued :
        /\ SameLogin(tok[t], tok'[t])
        /\ tok'[t].consumed = tok[t].consumed /\ tok'[t].revoked = tok[t].revoked
        /\ tok'[t].next = tok[t].next
        /\ tok'[t].activity = IF t \in F THEN now ELSE tok[t].activity
  BY <1>5, <1>6 DEF SameLogin
<1>8. \A f : RowsOf(f)' = RowsOf(f)
  BY <1>5, <1>7 DEF RowsOf, SameLogin
<1>9. \A t \in Issued : tok[t].family = g /\ ~tok[t].revoked => t \in F
  <2>1. PICK y \in F : TRUE
    BY <1>0
  <2> SUFFICES ASSUME NEW t \in Issued, tok[t].family = g, ~tok[t].revoked PROVE t \in F
    OBVIOUS
  <2>2. SameLogin(tok[t], tok[y]) /\ tok[t].activity = tok[y].activity
    BY <1>0, <1>4, <2>1 DEF Committed, IdleJudgedAlike
  <2> QED
    BY <1>4, <2>1, <2>2 DEF Fresh, Unrevoked, RowsOf, Unexpired, IdleTooLong, SameLogin
<1>10. Committed'
  <2>1. \A t \in Issued : Ages(tok[t])'
    <3> SUFFICES ASSUME NEW t \in Issued PROVE Ages(tok[t])'
      OBVIOUS
    <3>1. Ages(tok[t]) /\ (t \in F => tok[t].expires > now)
      BY <1>0, <1>4 DEF Committed, Unexpired
    <3> QED
      BY <1>0, <1>7, <3>1 DEF Ages, SameLogin
  <2>2. \A s, t \in Issued : tok'[s].family = tok'[t].family => SameLogin(tok[s], tok[t])'
    BY <1>0, <1>7 DEF Committed, SameLogin
  <2>3. IdleJudgedAlike'
    BY <1>0, <1>4, <1>5, <1>7, <1>9 DEF Committed, IdleJudgedAlike, SameLogin
  <2>4. SuccessorChain'
    BY <1>0, <1>5, <1>7, <1>8 DEF Committed, SuccessorChain, SameLogin
  <2>5. JwtKeepsLoginVersion'
    <3>1. \A t \in Issued : tok'[t].user = tok[t].user /\ tok'[t].loginVer = tok[t].loginVer
      BY <1>7 DEF SameLogin
    <3> QED
      BY ZenonT(30), <1>0, <1>8, <3>1 DEF Committed, JwtKeepsLoginVersion, RowsOf
  <2> QED
    BY <1>0, <1>5, <1>8, <2>1, <2>2, <2>3, <2>4, <2>5 DEF Committed
<1>11. Writes(r)'
  <2>1. req[r].op # "refresh"
    BY <1>0 DEF Replay, RefreshPC
  <2> QED
    BY <1>1, <1>2, <2>1 DEF Writes, NewRows, Replay
<1>12. ASSUME NEW q \in Reqs \ {r} PROVE Writes(q)'
  <2>1. \A t \in Issued : tok[t].family \in req[q].held => tok'[t] = tok[t]
    BY <1>2, <1>4, <1>5 DEF IInv, Apart
  <2>2. \A t \in Issued : tok'[t].family = tok[t].family
    BY <1>7 DEF SameLogin
  <2>3. NewRows(q) \cap Issued' = {} /\ Writes(q)
    BY <1>5 DEF NewRows, RInv
  <2> QED
    BY <1>0, <1>2, <1>5, <2>1, <2>2, <2>3, OthersKept
<1> QED
  BY <1>10, <1>11, <1>12 DEF RInv

-----------------------------------------------------------------------------
(* A commit. What it changes was locked when it was decided, so it is      *)
(* still what the invariant says of it.                                    *)

LEMMA CommitShape ==
    ASSUME IInv, RInv, NEW r \in Reqs, Commit(r)
    PROVE  /\ \A n \in NewRows(r) : Newcomer(r, n) /\ NewRows(r) = {n}
           /\ \A t \in Issued :
                \/ t \notin DOMAIN pend[r] /\ tok'[t] = tok[t]
                \/ t \in DOMAIN pend[r] /\ tok'[t] = pend[r][t] /\ Change(r, t)
           /\ \A t \in Issued : SameLogin(tok[t], tok'[t])
<1>1. \A n \in NewRows(r) : Newcomer(r, n) /\ NewRows(r) = {n}
  BY DEF RInv, Writes, IInv, Good, NewWrites
<1>2. \A t \in Issued :
        \/ t \notin DOMAIN pend[r] /\ tok'[t] = tok[t]
        \/ t \in DOMAIN pend[r] /\ tok'[t] = pend[r][t] /\ Change(r, t)
  BY CommitRows DEF RInv, Writes
<1>3. \A t \in Issued : SameLogin(tok[t], tok'[t])
  BY <1>2 DEF Change, SameLogin
<1> QED
  BY <1>1, <1>2, <1>3

LEMMA CommitCommitted ==
    ASSUME IInv, RInv, NEW r \in Reqs, Commit(r)
    PROVE  Committed'
<1>0. /\ Committed /\ now' = now /\ Table(tok) /\ Table(pend[r]) /\ OldWrites(r)
      /\ req[r].pc = "commit"
  BY DEF RInv, Commit, IInv, TypeOK, Good
<1>1. /\ Issued' = Issued \cup NewRows(r)
      /\ \A n \in NewRows(r) : tok'[n] = pend[r][n] /\ n \notin Issued /\ n \in DOMAIN pend[r]
      /\ \A t \in Issued :
           /\ tok[t].consumed => tok'[t].consumed
           /\ tok[t].revoked => tok'[t].revoked
  BY CommitRows DEF NewRows
<1>2. /\ \A n \in NewRows(r) : Newcomer(r, n) /\ NewRows(r) = {n}
      /\ \A t \in Issued :
           \/ t \notin DOMAIN pend[r] /\ tok'[t] = tok[t]
           \/ t \in DOMAIN pend[r] /\ tok'[t] = pend[r][t] /\ Change(r, t)
      /\ \A t \in Issued : SameLogin(tok[t], tok'[t])
  BY CommitShape
<1>3. \A t \in Issued' : Ages(tok[t])'
  <2>1. \A t \in Issued : Ages(tok'[t])
    BY <1>0, <1>2 DEF Committed, Change
  <2>2. \A t \in NewRows(r) : Ages(tok'[t])
    BY <1>1, <1>2 DEF Newcomer
  <2> QED
    BY <1>0, <1>1, <2>1, <2>2 DEF Ages
<1>4. \A n \in NewRows(r), s \in Issued :
        tok'[s].family = tok'[n].family => SameLogin(tok'[s], tok'[n])
  <2> SUFFICES ASSUME NEW n \in NewRows(r), NEW s \in Issued, tok'[s].family = tok'[n].family
               PROVE  SameLogin(tok'[s], tok'[n])
    OBVIOUS
  <2>1. s \in RowsOf(pend[r][n].family)
    BY <1>1, <1>2 DEF SameLogin, RowsOf
  <2> QED
    BY <1>1, <1>2, <2>1 DEF Newcomer, SameLogin
<1>5. \A s, t \in Issued' : tok'[s].family = tok'[t].family => SameLogin(tok[s], tok[t])'
  <2> SUFFICES ASSUME NEW s \in Issued', NEW t \in Issued', tok'[s].family = tok'[t].family
               PROVE  SameLogin(tok'[s], tok'[t])
    BY DEF SameLogin
  <2>1. CASE s \in Issued /\ t \in Issued
    BY <1>0, <1>2, <2>1 DEF Committed, SameLogin
  <2>2. CASE s \in NewRows(r) /\ t \in NewRows(r)
    <3>1. s = t
      BY <1>2, <2>2
    <3> QED
      BY <3>1 DEF SameLogin
  <2>3. CASE s \in NewRows(r) /\ t \in Issued
    BY <1>4, <2>3 DEF SameLogin
  <2>4. CASE s \in Issued /\ t \in NewRows(r)
    BY <1>4, <2>4
  <2> QED
    BY <1>1, <2>1, <2>2, <2>3, <2>4
<1>6. IdleJudgedAlike'
  <2>1. ASSUME NEW n \in NewRows(r), NEW s \in Issued, ~tok'[s].revoked,
               tok'[s].family = pend[r][n].family
        PROVE  tok'[s].activity = pend[r][n].activity
    <3>1. s \in RowsOf(pend[r][n].family) /\ ~tok[s].revoked
      BY <1>1, <1>2, <2>1 DEF SameLogin, RowsOf
    <3>2. s \in DOMAIN pend[r] /\ pend[r][s].activity = pend[r][n].activity
      BY <1>2, <3>1 DEF Newcomer
    <3> QED
      BY <1>2, <3>2
  <2>2. ASSUME NEW s \in Issued, NEW t \in Issued, ~tok'[s].revoked, ~tok'[t].revoked,
               tok'[s].family = tok'[t].family
        PROVE  tok'[s].activity = tok'[t].activity
    <3>1. ~tok[s].revoked /\ ~tok[t].revoked /\ tok[s].family = tok[t].family
      BY <1>1, <1>2, <2>2 DEF SameLogin
    <3>2. tok[s].activity = tok[t].activity
      BY <1>0, <3>1 DEF Committed, IdleJudgedAlike
    <3>3. CASE NewRows(r) = {}
      BY <1>2, <2>2, <3>2, <3>3 DEF Change
    <3>4. CASE NewRows(r) # {}
      <4>1. PICK n \in NewRows(r) : TRUE
        BY <3>4
      <4>2. \A y \in DOMAIN pend[r] : pend[r][y].family = pend[r][n].family
        BY <1>2 DEF Newcomer
      <4>3. CASE tok'[s].family = pend[r][n].family
        BY <2>1, <2>2, <4>3
      <4>4. CASE tok'[s].family # pend[r][n].family
        BY <1>2, <2>2, <3>2, <4>2, <4>4
      <4> QED
        BY <4>3, <4>4
    <3> QED
      BY <3>3, <3>4
  <2> QED
    BY <1>1, <1>2, <2>1, <2>2 DEF IdleJudgedAlike
<1>7. SuccessorChain'
  <2>1. ASSUME NEW s \in Issued PROVE tok'[s].consumed <=> tok'[s].next # None
    BY <1>0, <1>2 DEF Committed, SuccessorChain, Change
  <2>2. ASSUME NEW s \in Issued, tok[s].consumed PROVE tok'[s].next = tok[s].next
    BY <1>2, <2>2 DEF Change
  <2>3. ASSUME NEW s \in Issued, tok'[s].consumed, ~tok[s].consumed
        PROVE  /\ tok'[s].next \in NewRows(r)
               /\ pend[r][tok'[s].next].family = tok[s].family
               /\ \A t \in Issued : tok'[t].consumed /\ ~tok[t].consumed => t = s
    <3>1. NewlyConsumed(r, s) /\ tok'[s] = pend[r][s] /\ Change(r, s)
      BY <1>2, <2>3 DEF NewlyConsumed
    <3>2. \A t \in Issued : tok'[t].consumed /\ ~tok[t].consumed => NewlyConsumed(r, t)
      BY <1>2 DEF NewlyConsumed
    <3>3. pend[r][s].next \in NewRows(r) /\ \A t \in Issued : NewlyConsumed(r, t) => t = s
      BY <3>1 DEF Change
    <3>4. pend[r][s].family = pend[r][pend[r][s].next].family
      BY <1>2, <3>1, <3>3 DEF Newcomer, NewlyConsumed
    <3>5. pend[r][s].family = tok[s].family
      BY <3>1 DEF Change, SameLogin
    <3> QED
      BY <3>1, <3>2, <3>3, <3>4, <3>5
  <2>4. \A n \in NewRows(r) : ~tok'[n].consumed /\ tok'[n].next = None
    BY <1>1, <1>2 DEF Newcomer
  <2>5. \A f : RowsOf(f) \subseteq RowsOf(f)'
    BY <1>1, <1>2 DEF RowsOf, SameLogin
  <2> SUFFICES ASSUME NEW s \in Issued', tok'[s].consumed
               PROVE  /\ tok'[s].next \in RowsOf(tok[s].family)' \ {s}
                      /\ \A t \in Issued' \ {s} : tok'[t].next # tok'[s].next
    BY <1>1, <2>1, <2>4 DEF SuccessorChain
  <2>6. s \in Issued /\ tok'[s].next # None /\ tok'[s].family = tok[s].family
    BY <1>1, <1>2, <2>1, <2>4 DEF SameLogin
  <2>7. CASE tok[s].consumed
    <3>1. /\ tok[s].next \in RowsOf(tok[s].family) \ {s} /\ tok'[s].next = tok[s].next
          /\ \A t \in Issued \ {s} : tok[t].next # tok[s].next
      BY <1>0, <2>2, <2>6, <2>7 DEF Committed, SuccessorChain
    <3>2. tok'[s].next \in Issued /\ tok'[s].next \in RowsOf(tok[s].family)' \ {s}
      BY <2>5, <2>6, <3>1 DEF RowsOf
    <3>3. ASSUME NEW t \in Issued \ {s} PROVE tok'[t].next # tok'[s].next
      <4>1. CASE tok[t].consumed
        BY <2>2, <3>1, <4>1
      <4>2. CASE ~tok'[t].consumed
        BY <2>1, <2>6, <4>2
      <4>3. CASE ~tok[t].consumed /\ tok'[t].consumed
        BY <1>1, <2>3, <3>2, <4>3
      <4> QED
        BY <4>1, <4>2, <4>3
    <3>4. \A t \in NewRows(r) : tok'[t].next # tok'[s].next
      BY <2>4, <2>6
    <3> QED
      BY <1>1, <3>2, <3>3, <3>4
  <2>8. CASE ~tok[s].consumed
    <3>1. /\ tok'[s].next \in NewRows(r) /\ tok'[tok'[s].next].family = tok'[s].family
          /\ \A t \in Issued : tok'[t].consumed /\ ~tok[t].consumed => t = s
      BY <1>1, <2>3, <2>6, <2>8
    <3>2. tok'[s].next \in RowsOf(tok[s].family)' \ {s}
      BY <1>1, <2>6, <3>1 DEF RowsOf
    <3>3. ASSUME NEW t \in Issued \ {s} PROVE tok'[t].next # tok'[s].next
      <4>1. CASE tok[t].consumed
        <5>1. tok'[t].next \in Issued
          BY <1>0, <2>2, <4>1 DEF Committed, SuccessorChain, RowsOf
        <5> QED
          BY <1>1, <3>1, <5>1
      <4>2. CASE ~tok'[t].consumed
        BY <2>1, <2>6, <4>2
      <4> QED
        BY <3>1, <4>1, <4>2
    <3>4. \A t \in NewRows(r) : tok'[t].next # tok'[s].next
      BY <2>4, <2>6
    <3> QED
      BY <1>1, <3>2, <3>3, <3>4
  <2> QED
    BY <2>7, <2>8
<1>8. \A f : RowsOf(f) \subseteq RowsOf(f)'
  BY <1>1, <1>2 DEF RowsOf, SameLogin
<1>9. ASSUME NEW j \in jwts'
      PROVE  /\ RowsOf(j.family)' # {}
             /\ \A t \in RowsOf(j.family)' : tok'[t].user = j.user /\ tok'[t].loginVer = j.ver
  <2>1. CASE j \in jwts
    <3>1. PICK s \in RowsOf(j.family) : tok[s].user = j.user /\ tok[s].loginVer = j.ver
      BY <1>0, <2>1 DEF Committed, JwtKeepsLoginVersion
    <3>2. s \in RowsOf(j.family)' /\ tok'[s].user = j.user /\ tok'[s].loginVer = j.ver
      BY <1>2, <1>8, <3>1 DEF RowsOf, SameLogin
    <3> QED
      BY <1>5, <3>2 DEF RowsOf, SameLogin
  <2>2. CASE j \notin jwts
    <3>1. PICK n \in NewRows(r) : j = [user |-> req[r].user, family |-> pend[r][n].family,
                                       ver |-> req[r].ver]
      BY <2>2 DEF Commit
    <3>2. tok'[n].user = j.user /\ tok'[n].loginVer = j.ver /\ tok'[n].family = j.family
      BY <1>1, <1>2, <3>1 DEF IInv, Good, NewWrites, Newcomer
    <3>3. n \in RowsOf(j.family)'
      BY <1>1, <3>2 DEF RowsOf
    <3> QED
      BY <1>5, <3>2, <3>3 DEF RowsOf, SameLogin
  <2> QED
    BY <2>1, <2>2
<1>10. JwtKeepsLoginVersion'
  BY <1>9 DEF JwtKeepsLoginVersion
<1> QED
  BY <1>3, <1>5, <1>6, <1>7, <1>9, <1>10 DEF Committed

LEMMA CommitWrites ==
    ASSUME IInv, RInv, NEW r \in Reqs, Commit(r)
    PROVE  RInv'
<1>1. /\ req'[r] = NoReq /\ pend'[r] = NoRows /\ now' = now /\ now \in Nat
      /\ \A q \in Reqs \ {r} : req'[q] = req[q] /\ pend'[q] = pend[q]
  BY DEF Commit, Finish, Write, IInv, TypeOK
<1>2. /\ Issued' = Issued \cup NewRows(r)
      /\ \A n \in NewRows(r) : tok'[n] = pend[r][n] /\ n \notin Issued
      /\ \A t \in Issued :
           /\ tok'[t] = IF t \in DOMAIN pend[r] THEN pend[r][t] ELSE tok[t]
           /\ tok'[t].family = tok[t].family
  BY CommitRows DEF NewRows
<1>3. Writes(r)'
  BY <1>1 DEF Writes, NewRows, NoRows, NoReq, Replay
<1>4. ASSUME NEW q \in Reqs \ {r} PROVE Writes(q)'
  <2>1. Apart(q, r) /\ Apart(r, q) /\ Good(r) /\ Writes(q)
    BY DEF IInv, RInv
  <2>2. NewRows(q) \cap Issued' = {}
    BY <1>2, <2>1 DEF Apart, NewRows
  <2>3. \A t \in Issued : tok[t].family \in req[q].held => tok'[t] = tok[t]
    BY <1>2, <2>1 DEF Good, OldWrites, Apart
  <2>4. \A t \in Issued' \ Issued, n \in NewRows(q) : tok'[t].family # pend[q][n].family
    BY <1>2, <2>1 DEF Apart
  <2>5. \A t \in Issued' \ Issued, s \in Issued :
          tok[s].family \in req[q].held => tok'[t].family # tok[s].family
    BY <1>2, <2>1 DEF Good, NewWrites, Apart
  <2> QED
    BY <1>1, <1>2, <2>1, <2>2, <2>3, <2>4, <2>5, OthersKept
<1> QED
  BY <1>3, <1>4, CommitCommitted DEF RInv

-----------------------------------------------------------------------------
LEMMA ElsewhereRows ==
    ASSUME IInv, RInv, UNCHANGED <<tok, jwts, req, pend>>, now' \in Nat, now' >= now
    PROVE  RInv'
<1>1. Issued' = Issued /\ now \in Nat
  BY DEF Issued, IInv, TypeOK
<1>2. Committed'
  BY CommittedKept DEF RInv
<1>3. ASSUME NEW q \in Reqs PROVE Writes(q)'
  <2>1. NewRows(q) \cap Issued' = {} /\ Writes(q)
    BY <1>1 DEF NewRows, RInv
  <2> QED
    BY <1>1, <2>1, OthersKept
<1> QED
  BY <1>2, <1>3 DEF RInv

LEMMA InitRows == Init => RInv
<1> SUFFICES ASSUME Init PROVE RInv
  OBVIOUS
<1>1. /\ tok = NoRows /\ Issued = {} /\ DOMAIN NoRows = {} /\ jwts = {}
      /\ \A r \in Reqs : req[r] = NoReq /\ pend[r] = NoRows
  BY DEF Init, Issued, NoRows
<1>2. Committed
  BY <1>1 DEF Committed, IdleJudgedAlike, SuccessorChain, JwtKeepsLoginVersion
<1>3. \A r \in Reqs : Writes(r)
  BY <1>1 DEF Writes, NewRows, Replay, NoReq
<1> QED
  BY <1>2, <1>3 DEF RInv

LEMMA NextRows == IInv /\ RInv /\ [Next]_vars => RInv'
<1> SUFFICES ASSUME IInv, RInv, [Next]_vars PROVE RInv'
  OBVIOUS
<1>0. now \in Nat
  BY DEF IInv, TypeOK
<1>1. ASSUME NEW r \in Reqs, Proceed(r) PROVE RInv'
  BY <1>1, StepRows, TouchRows, CommitWrites DEF Proceed
<1>2. ASSUME NEW r \in Reqs, Abort(r) PROVE RInv'
  BY <1>2, FinishRows DEF Abort, Quiet
<1>3. CASE Admin \/ Tick \/ UNCHANGED vars
  <2>1. UNCHANGED <<tok, jwts, req, pend>> /\ now' \in Nat /\ now' >= now
    BY <1>0, <1>3 DEF Admin, SetActive, SetCompliant, Tick, vars, table
  <2> QED
    BY <2>1, ElsewhereRows
<1> QED
  BY <1>1, <1>2, <1>3, StartRows DEF Next

\* The second invariant, on top of the first.
THEOREM RowsInvariant == Spec => [](IInv /\ RInv)
<1>1. IInv /\ RInv /\ [Next]_vars => RInv'
  BY NextRows
<1> QED
  BY <1>1, InitRows, InitInv, NextInv, PTL DEF Spec

(* What one step may do to the rows: authentication, a commit, or nothing. *)

LEMMA TableSteps ==
    ASSUME [Next]_vars
    PROVE  \/ \E r \in Reqs : Commit(r) \/ TouchActive(r)
           \/ tok' = tok
  BY DEF Next, Start, Proceed, Step, Abort, Admin, SetActive, SetCompliant, Tick, vars, table

LEMMA Stamps ==
    ASSUME IInv, RInv, [Next]_vars, NEW t \in Issued
    PROVE  /\ t \in Issued' /\ SameLogin(tok[t], tok'[t])
           /\ tok'[t].activity >= tok[t].activity
           /\ tok'[t].activity # tok[t].activity =>
                tok'[t].activity < tok[t].activity + IdleLimit
           /\ tok[t].consumed => tok'[t].consumed /\ tok'[t].next = tok[t].next
           /\ tok[t].revoked => tok'[t].revoked
<1>0. tok[t] \in Row /\ now \in Nat /\ Ages(tok[t])
  BY DEF IInv, TypeOK, Table, Issued, RInv, Committed
<1>1. tok[t].activity \in Nat /\ tok[t].activity <= now
  BY <1>0 DEF Row, Ages
<1>2. ASSUME NEW r \in Reqs, Commit(r)
      PROVE  /\ t \in Issued' /\ SameLogin(tok[t], tok'[t])
             /\ tok'[t].activity >= tok[t].activity
             /\ tok'[t].activity # tok[t].activity =>
                  tok'[t].activity < tok[t].activity + IdleLimit
             /\ tok[t].consumed => tok'[t].consumed /\ tok'[t].next = tok[t].next
             /\ tok[t].revoked => tok'[t].revoked
  <2>1. t \in Issued' /\ (tok[t].consumed => tok'[t].consumed) /\ (tok[t].revoked => tok'[t].revoked)
    BY <1>2, CommitRows
  <2>2. SameLogin(tok[t], tok'[t]) /\ (tok'[t] = tok[t] \/ (tok'[t] = pend[r][t] /\ Change(r, t)))
    BY <1>2, CommitShape
  <2> QED
    BY <1>1, <2>1, <2>2 DEF Change
<1>3. ASSUME NEW r \in Reqs, TouchActive(r), tok'[t] # tok[t]
      PROVE  t \in Issued' /\ tok'[t] = TouchedRow(t) /\ ~IdleTooLong(t)
  BY <1>3 DEF TouchActive, Overlay, Touch, Fresh, Issued
<1>4. ASSUME NEW r \in Reqs, TouchActive(r) PROVE t \in Issued'
  BY <1>4 DEF TouchActive, Overlay, Issued
<1>5. ASSUME ~IdleTooLong(t) PROVE now < tok[t].activity + IdleLimit
  BY <1>0, <1>1, <1>5, SessionAssumption DEF IdleTooLong
<1>6. /\ SameLogin(tok[t], TouchedRow(t)) /\ TouchedRow(t).activity = now
      /\ TouchedRow(t).consumed = tok[t].consumed /\ TouchedRow(t).revoked = tok[t].revoked
      /\ TouchedRow(t).next = tok[t].next
  BY <1>0 DEF TouchedRow, SameLogin, Row
<1>7. CASE tok'[t] = tok[t] /\ t \in Issued'
  BY <1>1, <1>7 DEF SameLogin
<1>8. CASE \E r \in Reqs : TouchActive(r)
  BY <1>1, <1>3, <1>4, <1>5, <1>6, <1>7, <1>8
<1> QED
  BY <1>2, <1>7, <1>8, TableSteps DEF Issued

-----------------------------------------------------------------------------
\* Rotations extend a session by tokens, never by time: whatever is refreshed
\* or touched, all activity of a family lies within the lifetime counted from
\* its login, for any lifetime and idle limit.
THEOREM LifetimeIsAbsolute == Spec => []NoActivityPastLifetime
<1>1. RInv => NoActivityPastLifetime
  BY DEF RInv, Committed, Ages, NoActivityPastLifetime
<1> QED
  BY <1>1, RowsInvariant, PTL

\* The two places that judge idleness, rotate_refresh_token by the presented
\* row and touch_refresh_family by the whole family, never disagree.
THEOREM IdlenessHasOneMeaning == Spec => []IdleJudgedAlike
<1>1. RInv => IdleJudgedAlike
  BY DEF RInv, Committed
<1> QED
  BY <1>1, RowsInvariant, PTL

\* The rows of a family are one chain: no rotation is lost, forked or linked
\* to a row of another session.
THEOREM RotationsFormOneChain == Spec => []SuccessorChain
<1>1. RInv => SuccessorChain
  BY DEF RInv, Committed
<1> QED
  BY <1>1, RowsInvariant, PTL

\* However often a session is refreshed, its JWTs carry the version of its
\* login, so a JWT from before a logout-all stays recognisable.
THEOREM RefreshNeverRaisesVersion == Spec => []JwtKeepsLoginVersion
<1>1. RInv => JwtKeepsLoginVersion
  BY DEF RInv, Committed
<1> QED
  BY <1>1, RowsInvariant, PTL

\* No step takes back what a row says.
THEOREM AgeingOnly == Spec => RowsOnlyAge
<1> DEFINE Aged == \A t \in Issued :
    /\ t \in Issued'
    /\ tok'[t].family = tok[t].family /\ tok'[t].user = tok[t].user
    /\ tok'[t].expires = tok[t].expires /\ tok'[t].activity >= tok[t].activity
    /\ tok[t].consumed => tok'[t].consumed /\ tok'[t].next = tok[t].next
    /\ tok[t].revoked => tok'[t].revoked
<1>1. ASSUME IInv, RInv, [Next]_vars PROVE [Aged]_vars
  BY <1>1, Stamps DEF SameLogin
<1> QED
  BY <1>1, RowsInvariant, PTL DEF Spec, RowsOnlyAge

\* A stamp that was decided under the family lock is still within the idle
\* limit of the row it replaces when it is committed.
THEOREM IdleSessionsStayIdle == Spec => NoActivityAfterIdle
<1> DEFINE InTime == \A t \in Issued :
    tok'[t].activity # tok[t].activity => tok'[t].activity < tok[t].activity + IdleLimit
<1>1. ASSUME IInv, RInv, [Next]_vars PROVE [InTime]_vars
  BY <1>1, Stamps
<1> QED
  BY <1>1, RowsInvariant, PTL DEF Spec, NoActivityAfterIdle

\* A refresh that found its token consumed can commit nothing but the end of
\* its family, even if the family changed hands before it got the lock.
THEOREM ReplaysEndTheSession == Spec => ReplayKillsFamily
<1> DEFINE Killed == \A r \in Reqs, f \in Families :
    /\ req[r].op = "refresh" /\ req[r].family = f
    /\ req[r].pc = "commit" /\ req'[r] = NoReq
    /\ tok[req[r].token].consumed /\ tok' # tok
    => Unrevoked(f)' = {}
<1>1. ASSUME IInv, RInv, [Next]_vars PROVE [Killed]_vars
  <2> SUFFICES ASSUME NEW r \in Reqs, NEW f \in Families, req[r].op = "refresh",
                      req[r].family = f, req[r].pc = "commit",
                      req'[r] = NoReq, tok[req[r].token].consumed, tok' # tok
               PROVE  Unrevoked(f)' = {}
    BY DEF Killed
  <2>1. PICK q \in Reqs : Commit(q) \/ TouchActive(q)
    BY <1>1, TableSteps
  <2>2. q = r
    <3>1. req[r] # NoReq
      BY DEF NoReq
    <3>2. q # r => req'[r] = req[r]
      BY <1>1, <2>1 DEF Commit, TouchActive, Finish, Write, Move, IInv, TypeOK
    <3> QED
      BY <3>1, <3>2
  <2>3. Commit(r)
    BY <2>1, <2>2 DEF TouchActive
  <2>4. /\ NewRows(r) = {}
        /\ \A t \in Unrevoked(f) : t \in DOMAIN pend[r] /\ pend[r][t].revoked
    BY <1>1 DEF RInv, Writes, Replay
  <2>5. \A t \in Issued' : tok'[t].family = f => tok'[t].revoked
    BY <1>1, <2>3, <2>4, CommitRows DEF Unrevoked, RowsOf
  <2> QED
    BY <2>5 DEF Unrevoked, RowsOf
<1> QED
  BY <1>1, RowsInvariant, PTL DEF Spec, ReplayKillsFamily

-----------------------------------------------------------------------------
(* The refinement. A family's phase and carrier are read off its live row, *)
(* of which there is at most one.                                          *)

PhaseOf(f) == IF RowsOf(f) = {} THEN "unopened" ELSE IF Live(f) = {} THEN "closed" ELSE "open"
Sole(S) == CHOOSE t \in S : TRUE
CarrierOf(f) == IF Live(f) = {} THEN None ELSE Sole(Live(f))

Phases == [f \in Families |-> PhaseOf(f)]
Carriers == [f \in Families |-> CarrierOf(f)]

LEMMA Mapped ==
    /\ Registry!Init <=> /\ Phases = [f \in Families |-> "unopened"]
                         /\ Carriers = [f \in Families |-> None]
                         /\ Issued = {}
    /\ \A f \in Families, t \in Tokens :
         Registry!Open(f, t) <=>
           /\ Phases[f] = "unopened" /\ t \notin Issued
           /\ Phases' = [Phases EXCEPT ![f] = "open"]
           /\ Carriers' = [Carriers EXCEPT ![f] = t]
           /\ Issued' = Issued \cup {t}
    /\ \A f \in Families, t \in Tokens :
         Registry!Renew(f, t) <=>
           /\ Phases[f] = "open" /\ t \notin Issued
           /\ Carriers' = [Carriers EXCEPT ![f] = t]
           /\ Issued' = Issued \cup {t}
           /\ Phases' = Phases
    /\ \A F \in SUBSET Families :
         Registry!Close(F) <=>
           /\ \A f \in F : Phases[f] = "open"
           /\ Phases' = [f \in Families |-> IF f \in F THEN "closed" ELSE Phases[f]]
           /\ Carriers' = [f \in Families |-> IF f \in F THEN None ELSE Carriers[f]]
           /\ Issued' = Issued
<1>1. Registry!Init <=> /\ Phases = [f \in Families |-> "unopened"]
                        /\ Carriers = [f \in Families |-> None]
                        /\ Issued = {}
  BY DEF Registry!Init, Phases, Carriers, PhaseOf, CarrierOf, Sole
<1>2. ASSUME NEW f \in Families, NEW t \in Tokens
      PROVE  Registry!Open(f, t) <=>
               /\ Phases[f] = "unopened" /\ t \notin Issued
               /\ Phases' = [Phases EXCEPT ![f] = "open"]
               /\ Carriers' = [Carriers EXCEPT ![f] = t]
               /\ Issued' = Issued \cup {t}
  BY DEF Registry!Open, Phases, Carriers, PhaseOf, CarrierOf, Sole
<1>3. ASSUME NEW f \in Families, NEW t \in Tokens
      PROVE  Registry!Renew(f, t) <=>
               /\ Phases[f] = "open" /\ t \notin Issued
               /\ Carriers' = [Carriers EXCEPT ![f] = t]
               /\ Issued' = Issued \cup {t}
               /\ Phases' = Phases
  BY DEF Registry!Renew, Phases, Carriers, PhaseOf, CarrierOf, Sole
<1>4. ASSUME NEW F \in SUBSET Families
      PROVE  Registry!Close(F) <=>
               /\ \A f \in F : Phases[f] = "open"
               /\ Phases' = [f \in Families |-> IF f \in F THEN "closed" ELSE Phases[f]]
               /\ Carriers' = [f \in Families |-> IF f \in F THEN None ELSE Carriers[f]]
               /\ Issued' = Issued
  BY DEF Registry!Close, Phases, Carriers, PhaseOf, CarrierOf, Sole
<1> QED
  BY <1>1, <1>2, <1>3, <1>4

LEMMA Mirrored ==
    ASSUME NEW f \in Families, RowsOf(f)' = RowsOf(f), Live(f)' = Live(f)
    PROVE  Phases'[f] = Phases[f] /\ Carriers'[f] = Carriers[f]
  BY DEF Phases, Carriers, PhaseOf, CarrierOf

LEMMA RegistryInit == Init => Registry!Init
<1> SUFFICES ASSUME Init PROVE Registry!Init
  OBVIOUS
<1>1. Issued = {} /\ \A f : RowsOf(f) = {} /\ Live(f) = {}
  BY DEF Init, Issued, NoRows, RowsOf, Live, Unrevoked
<1>2. /\ Phases = [f \in Families |-> "unopened"]
      /\ Carriers = [f \in Families |-> None]
  BY <1>1 DEF Phases, Carriers, PhaseOf, CarrierOf
<1> QED
  BY <1>1, <1>2, Mapped

(* A commit without a new row closes the families it leaves no live row.   *)

LEMMA RegistryClose ==
    ASSUME IInv, RInv, IInv', NEW r \in Reqs, Commit(r), NewRows(r) = {}
    PROVE  \E F \in SUBSET Families : Registry!Close(F)
<1> DEFINE F == {f \in Families : Live(f) # {} /\ Live(f)' = {}}
<1>1. /\ Issued' = Issued
      /\ \A t \in Issued :
           /\ tok'[t].family = tok[t].family
           /\ tok[t].consumed => tok'[t].consumed
           /\ tok[t].revoked => tok'[t].revoked
  BY CommitRows
<1>2. \A f : RowsOf(f)' = RowsOf(f) /\ Live(f)' \subseteq Live(f) /\ Live(f) \subseteq RowsOf(f)
  BY <1>1 DEF RowsOf, Live, Unrevoked
<1>3. \A f : \A s, t \in Live(f) : s = t
  BY DEF IInv, SoleLiveToken, Live, Unrevoked, RowsOf
<1>4. \A f : Live(f)' # {} => Live(f)' = Live(f)
  BY <1>2, <1>3
<1>5. ASSUME NEW f \in Families
      PROVE  /\ Phases'[f] = IF f \in F THEN "closed" ELSE Phases[f]
             /\ Carriers'[f] = IF f \in F THEN None ELSE Carriers[f]
  <2>1. CASE f \in F
    BY <1>2, <2>1 DEF Phases, Carriers, PhaseOf, CarrierOf
  <2>2. CASE f \notin F
    <3>1. Live(f)' = Live(f) /\ RowsOf(f)' = RowsOf(f)
      BY <1>2, <1>4, <2>2
    <3> QED
      BY <2>2, <3>1, Mirrored
  <2> QED
    BY <2>1, <2>2
<1>6. /\ Phases' = [f \in Families |-> IF f \in F THEN "closed" ELSE Phases[f]]
      /\ Carriers' = [f \in Families |-> IF f \in F THEN None ELSE Carriers[f]]
  <2> HIDE DEF F
  <2>1. /\ Phases' = [f \in Families |-> Phases'[f]]
        /\ Carriers' = [f \in Families |-> Carriers'[f]]
    BY DEF Phases, Carriers
  <2> QED
    BY <1>5, <2>1
<1>7. \A f \in F : Phases[f] = "open"
  BY <1>2 DEF Phases, PhaseOf
<1>8. F \in SUBSET Families
  OBVIOUS
<1> HIDE DEF F
<1>9. Registry!Close(F)
  BY <1>1, <1>6, <1>7, <1>8, Mapped
<1> QED
  BY <1>8, <1>9

(* A commit with a new row opens its family or hands it over.              *)

LEMMA RegistryRenew ==
    ASSUME IInv, RInv, IInv', NEW r \in Reqs, Commit(r), NEW n \in NewRows(r)
    PROVE  \E f \in Families, t \in Tokens : Registry!Open(f, t) \/ Registry!Renew(f, t)
<1> DEFINE new == pend[r][n]
<1>1. PICK f : f = new.family
  OBVIOUS
<1>2. f \in Families /\ n \in Tokens /\ n \notin Issued
  BY <1>1 DEF IInv, TypeOK, Table, Row, NewRows
<1>3. /\ Issued' = Issued \cup {n} /\ tok'[n] = new
      /\ \A t \in Issued :
           /\ tok'[t].family = tok[t].family
           /\ tok[t].consumed => tok'[t].consumed
           /\ tok[t].revoked => tok'[t].revoked
           /\ tok[t].family # f => tok'[t] = tok[t]
  <2>1. Newcomer(r, n) /\ NewRows(r) = {n}
    BY CommitShape
  <2>2. \A t \in Issued : tok[t].family # f => t \notin DOMAIN pend[r]
    BY <1>1, <2>1, CommitRows DEF Newcomer
  <2> QED
    BY <2>1, <2>2, CommitRows
<1>4. ~new.consumed /\ ~new.revoked
  BY CommitShape DEF Newcomer
<1>5. \A g : g # f => RowsOf(g)' = RowsOf(g) /\ Live(g)' = Live(g)
  BY <1>1, <1>3 DEF RowsOf, Live, Unrevoked
<1>6. n \in RowsOf(f)' /\ n \in Live(f)'
  BY <1>1, <1>3, <1>4 DEF RowsOf, Live, Unrevoked
<1>7. Live(f)' = {n}
  <2>1. \A s, t \in Live(f)' : s = t
    BY DEF IInv, SoleLiveToken, Live, Unrevoked, RowsOf
  <2> QED
    BY <1>6, <2>1
<1>8. Phases'[f] = "open" /\ Carriers'[f] = n
  BY <1>2, <1>6, <1>7 DEF Phases, Carriers, PhaseOf, CarrierOf, Sole
<1>9. \A g \in Families \ {f} : Phases'[g] = Phases[g] /\ Carriers'[g] = Carriers[g]
  BY <1>5, Mirrored
<1>10. /\ Phases' = [g \in Families |-> Phases'[g]] /\ Phases = [g \in Families |-> Phases[g]]
       /\ Carriers' = [g \in Families |-> Carriers'[g]]
       /\ Carriers = [g \in Families |-> Carriers[g]]
  BY DEF Phases, Carriers
<1>11. /\ Phases' = [Phases EXCEPT ![f] = "open"]
       /\ Carriers' = [Carriers EXCEPT ![f] = n]
  BY <1>2, <1>8, <1>9, <1>10
<1>12. CASE RowsOf(f) = {}
  <2>1. Phases[f] = "unopened"
    BY <1>2, <1>12 DEF Phases, PhaseOf
  <2>2. Registry!Open(f, n)
    BY <1>2, <1>3, <1>11, <2>1, Mapped
  <2> QED
    BY <1>2, <2>2
<1>13. CASE RowsOf(f) # {}
  <2>1. Live(f) # {}
    BY <1>1, <1>13 DEF IInv, Good, NewWrites, RowsOf
  <2>2. Phases[f] = "open"
    BY <1>2, <1>13, <2>1 DEF Phases, PhaseOf
  <2>3. Phases' = Phases
    BY <1>10, <1>11, <2>2
  <2>4. Registry!Renew(f, n)
    BY <1>2, <1>3, <1>11, <2>2, <2>3, Mapped
  <2> QED
    BY <1>2, <2>4
<1> QED
  BY <1>12, <1>13

LEMMA RegistryNext ==
    ASSUME IInv, RInv, IInv', [Next]_vars
    PROVE  [Registry!Next]_(Registry!registry)
<1>1. ASSUME NEW r \in Reqs, Commit(r) PROVE Registry!Next
  BY <1>1, RegistryClose, RegistryRenew DEF Registry!Next
<1>2. CASE tok' = tok \/ \E r \in Reqs : TouchActive(r)
  <2>1. Issued' = Issued /\ \A t \in Issued : tok'[t] = tok[t] \/ tok'[t] = TouchedRow(t)
    BY <1>2 DEF TouchActive, Overlay, Touch, Fresh, Unrevoked, RowsOf, Issued
  <2>2. \A t \in Issued : tok[t] \in Row
    BY DEF IInv, TypeOK, Table, Issued
  <2>3. \A t \in Issued :
          /\ tok'[t].family = tok[t].family /\ tok'[t].consumed = tok[t].consumed
          /\ tok'[t].revoked = tok[t].revoked
    BY <2>1, <2>2 DEF TouchedRow, Row
  <2>4. \A f : RowsOf(f)' = RowsOf(f) /\ Live(f)' = Live(f)
    BY <2>1, <2>3 DEF RowsOf, Live, Unrevoked
  <2>5. Phases' = Phases /\ Carriers' = Carriers
    <3>1. \A f \in Families : Phases'[f] = Phases[f] /\ Carriers'[f] = Carriers[f]
      BY <2>4, Mirrored
    <3>2. /\ Phases' = [f \in Families |-> Phases'[f]] /\ Phases = [f \in Families |-> Phases[f]]
          /\ Carriers' = [f \in Families |-> Carriers'[f]]
          /\ Carriers = [f \in Families |-> Carriers[f]]
      BY DEF Phases, Carriers
    <3> QED
      BY <3>1, <3>2
  <2>6. UNCHANGED Registry!registry
    BY <2>1, <2>5 DEF Registry!registry, Phases, Carriers, PhaseOf, CarrierOf, Sole
  <2> QED
    BY <2>6
<1> QED
  BY <1>1, <1>2, TableSteps

\* auth_refresh_tokens.py keeps what SessionRegistry promises of a login
\* session, for any number of users, sessions, tokens and requests: every
\* step of the table is one opening, one hand-over or an atomic closing of
\* sessions, or invisible.
THEOREM RegistryImplemented == Spec => ImplementsRegistry
<1>1. IInv /\ RInv /\ IInv' /\ [Next]_vars => [Registry!Next]_(Registry!registry)
  BY RegistryNext
<1> QED
  BY <1>1, RegistryInit, RowsInvariant, PTL DEF Spec, ImplementsRegistry, Registry!Spec

-----------------------------------------------------------------------------
(* Waiting for locks. A request goes through the steps of its operation    *)
(* once, takes its locks on the way and keeps them to the end. GoesOn      *)
(* spells out when its next step finds what it needs.                      *)

Busy(r) == req[r].pc # "idle"

WaitsForUser == {"login_audit", "login_user", "refresh_user", "idle_audit", "logout_audit", "all_user"}
WaitsForFamily == {"refresh_family", "auth_family", "logout_family"}

GoesOn(r) ==
    /\ Busy(r)
    /\ req[r].pc \in WaitsForUser => UserRowFree(r)
    /\ req[r].pc \in WaitsForFamily => FamilyFree(r, req[r].family)
    /\ req[r].pc = "all_families" =>
         req[r].fams \subseteq req[r].held \/ \E f \in req[r].fams \ req[r].held : FamilyFree(r, f)
    /\ req[r].pc = "login_user" /\ active[req[r].user] => FreshFamilies # {} /\ FreshTokens # {}
    /\ req[r].pc = "refresh_decide" /\ MayRotate(r) => FreshTokens # {}

\* The supply of ids is a bound of the model: an insert may find none left.
OutOfIds == \E q \in Reqs :
    \/ req[q].pc = "login_user" /\ (FreshFamilies = {} \/ FreshTokens = {})
    \/ req[q].pc = "refresh_decide" /\ FreshTokens = {}

\* While requests are in flight one of them can go on, or some wait for each
\* other and the database aborts one, or the supply of ids has run out.
NobodyStuck ==
    (\E r \in Reqs : Busy(r)) =>
        \/ \E r \in Reqs : GoesOn(r)
        \/ \E S \in SUBSET Reqs : Deadlocked(S)
        \/ OutOfIds

\* The steps a request has before it, at most; locking the families of a
\* logout-all counts as one.
Left(pc) ==
    CASE pc = "idle" -> 0
      [] pc = "commit" -> 1
      [] pc \in {"login_user", "refresh_decide", "idle_audit", "logout_audit", "all_families"} -> 2
      [] pc \in {"login_audit", "refresh_family", "logout_revoke", "all_scan"} -> 3
      [] pc \in {"refresh_user", "logout_family", "all_user"} -> 4
      [] pc = "auth_user" -> 5
      [] pc = "auth_touch" -> 6
      [] pc = "auth_family" -> 7

\* y is the state x of a request one step on.
Nearer(x, y) ==
    \/ Left(y.pc) < Left(x.pc)
    \/ /\ x.pc = "all_families" /\ y.pc = "all_families"
       /\ x.held \subseteq y.held /\ x.held # y.held

\* No request ever goes back, whatever the others do.
NobodyGoesBack ==
    [][\A r \in Reqs : Busy(r) /\ req'[r] # req[r] => Nearer(req[r], req'[r])]_vars

\* The sessions of one user never keep those of another waiting: whoever
\* holds a lock that a request waits for acts for the same user.
WaitsStayWithinUser == \A q, r \in Reqs : Blocks(q, r) => req[q].user = req[r].user

\* The locks of a request at each of its steps.
Stance(x) ==
    /\ x.pc = "idle" => x = NoReq
    /\ x.pc \in HoldsUserPC => x.urow = "update"
    /\ x.pc = "login_user" => x.urow = "share"
    /\ x.pc \notin HoldsUserPC \cup {"login_user", "commit"} => x.urow = "none"
    /\ x.pc \in HoldsFamilyPC => x.held = {x.family}
    /\ x.pc = "all_families" => x.held \subseteq x.fams
    /\ x.pc \notin HoldsFamilyPC \cup {"all_families", "commit"} => x.held = {}
    /\ x.pc \notin {"all_families", "commit"} => x.fams = {}
    /\ x.pc = "commit" => x.fams \subseteq x.held
    /\ x.pc \in {"auth_family", "auth_touch", "auth_user"} => x.op \in {"call", "logout", "logout_all"}

\* The families a request holds or is about to lock have rows of its user.
Claims(x) == x.held \cup x.fams \cup {f \in {x.family} : x.pc \in FamilyPC}
Owned(r) == \A f \in Claims(req[r]) : \E t \in RowsOf(f) : tok[t].user = req[r].user

LockInv == \A r \in Reqs : Stance(req[r]) /\ Owned(r)

\* How a request takes one step: the steps that lock nothing, those that lock
\* the user row in either mode, those that lock or release families, the end.
PlainSteps == {<<"refresh_decide", "commit">>, <<"auth_touch", "idle_audit">>,
               <<"auth_user", "logout_family">>, <<"auth_user", "all_user">>,
               <<"logout_revoke", "logout_audit">>, <<"all_families", "commit">>}
ShareSteps == {<<"login_audit", "login_user">>, <<"idle_audit", "commit">>, <<"logout_audit", "commit">>}
UpdateSteps == {<<"login_user", "commit">>, <<"refresh_user", "refresh_family">>, <<"all_user", "all_scan">>}
FamilySteps == {<<"refresh_family", "refresh_decide">>, <<"auth_family", "auth_touch">>,
                <<"logout_family", "logout_revoke">>}

Begins(y) ==
    /\ y.pc \in {"login_audit", "refresh_user", "auth_family"}
    /\ y.urow = "none" /\ y.held = {} /\ y.fams = {}
    /\ y.pc = "auth_family" => y.op \in {"call", "logout", "logout_all"}

Goes(x, y) ==
    /\ y.user = x.user /\ y.family = x.family /\ y.op = x.op
    /\ \/ /\ <<x.pc, y.pc>> \in PlainSteps
          /\ x.pc = "all_families" => x.fams \subseteq x.held
          /\ y.urow = x.urow /\ y.held = x.held /\ y.fams = x.fams
       \/ /\ <<x.pc, y.pc>> \in ShareSteps
          /\ y.urow = "share" /\ y.held = x.held /\ y.fams = x.fams
       \/ /\ <<x.pc, y.pc>> \in UpdateSteps
          /\ y.urow = "update" /\ y.held = x.held /\ y.fams = x.fams
       \/ /\ <<x.pc, y.pc>> \in FamilySteps
          /\ y.urow = x.urow /\ y.held = {x.family} /\ y.fams = x.fams
       \/ /\ x.pc = "auth_touch" /\ y.pc = "auth_user"
          /\ y.urow = x.urow /\ y.held = {} /\ y.fams = x.fams
       \/ /\ x.pc = "all_scan" /\ y.pc = "all_families"
          /\ y.urow = x.urow /\ y.held = x.held
          /\ \A f \in y.fams : \E t \in RowsOf(f) : tok[t].user = x.user
       \/ /\ x.pc = "all_families" /\ y.pc = "all_families"
          /\ y.urow = x.urow /\ y.fams = x.fams
          /\ \E f \in x.fams \ x.held : y.held = x.held \cup {f}

\* Requests other than r stay where they are.
OthersStay(r) == \A q \in Reqs \ {r} : req'[q] = req[q]

\* A request that starts holds nothing yet.
LEMMA StartGoes ==
    ASSUME IInv, RInv, NEW r \in Reqs, Start(r)
    PROVE  /\ OthersStay(r) /\ req[r] = NoReq /\ Begins(req'[r])
           /\ \A f \in Claims(req'[r]) : \E t \in RowsOf(f) : tok[t].user = req'[r].user
<1>0. req \in [Reqs -> Request] /\ NoReq \in Request
  BY DEF IInv, TypeOK, NoReq, Request, PC, Op
<1> DEFINE Done(y) ==
              /\ OthersStay(r) /\ req[r] = NoReq /\ Begins(y) /\ req'[r] = y
              /\ \A f \in Claims(y) : \E t \in RowsOf(f) : tok[t].user = y.user
<1>1. ASSUME NEW u \in Users, LoginStart(r, u)
      PROVE  \E y : Done(y)
  <2> DEFINE y == [NoReq EXCEPT !.op = "login", !.user = u, !.pc = "login_audit"]
  <2>1. OthersStay(r) /\ req'[r] = y /\ req[r] = NoReq
    BY <1>0, <1>1 DEF LoginStart, Move, OthersStay
  <2>2. Begins(y) /\ Claims(y) = {}
    BY DEF NoReq, Begins, Claims, FamilyPC
  <2> HIDE DEF y
  <2> QED
    BY <2>1, <2>2
<1>2. ASSUME NEW t \in Tokens, RefreshStart(r, t)
      PROVE  \E y : Done(y)
  <2> DEFINE y == [NoReq EXCEPT !.op = "refresh", !.token = t, !.user = tok[t].user,
                              !.family = tok[t].family, !.pc = "refresh_user"]
  <2>1. OthersStay(r) /\ req'[r] = y /\ req[r] = NoReq /\ t \in RowsOf(tok[t].family)
    BY <1>0, <1>2 DEF RefreshStart, Move, OthersStay, RowsOf
  <2>2. Begins(y) /\ Claims(y) = {tok[t].family} /\ y.user = tok[t].user
    BY DEF NoReq, Begins, Claims, FamilyPC
  <2> HIDE DEF y
  <2> QED
    BY <2>1, <2>2
<1>3. ASSUME NEW op \in {"call", "logout", "logout_all"}, NEW j \in jwts, AuthStart(r, op, j)
      PROVE  \E y : Done(y)
  <2> DEFINE y == [NoReq EXCEPT !.op = op, !.user = j.user, !.family = j.family,
                              !.ver = j.ver, !.pc = "auth_family"]
  <2>1. OthersStay(r) /\ req'[r] = y /\ req[r] = NoReq
    BY <1>0, <1>3 DEF AuthStart, Move, OthersStay
  <2>2. Begins(y) /\ Claims(y) = {j.family} /\ y.user = j.user
    BY DEF NoReq, Begins, Claims, FamilyPC
  <2>3. PICK t \in RowsOf(j.family) : tok[t].user = j.user
    BY DEF RInv, Committed, JwtKeepsLoginVersion
  <2> HIDE DEF y
  <2> QED
    BY <2>1, <2>2, <2>3
<1>4. \E y : Done(y)
  BY <1>1, <1>2, <1>3 DEF Start
<1> QED
  BY <1>4

\* A step ends the request or is one of the steps of Goes; who does not take
\* it stays.
LEMMA StepGoes ==
    ASSUME IInv, NEW r \in Reqs, Proceed(r) \/ Abort(r)
    PROVE  /\ OthersStay(r) /\ Busy(r)
           /\ req'[r] = NoReq \/ Goes(req[r], req'[r])
<1>0. req \in [Reqs -> Request] /\ req[r] \in Request
  BY DEF IInv, TypeOK
<1> DEFINE Goal == OthersStay(r) /\ (req'[r] = NoReq \/ Goes(req[r], req'[r]))
           x == req[r]
<1>b. Busy(r)
  BY DEF Busy, Proceed, Step, Abort, Commit, LoginAudit, IssuePair, IssueRefused,
     RefreshLockUser, RefreshLockFamily, RefreshDecide, AuthLockFamily, TouchActive, TouchIdle,
     TouchRejects, IdleAudit, AuthLoadUser, LogoutLockFamily, LogoutRevoke, LogoutAudit,
     LogoutAllLockUser, LogoutAllScan, LogoutAllLockFamily, LogoutAllRevoke
<1> SUFFICES Goal
  BY <1>b
<1>1. ASSUME NEW y, req' = [req EXCEPT ![r] = y], y = NoReq \/ Goes(x, y)
      PROVE  Goal
  BY <1>0, <1>1 DEF OthersStay
<1>2. CASE Finish(r)
  BY <1>1, <1>2 DEF Finish, Write
<1>3. CASE LoginAudit(r)
  <2> DEFINE y == [x EXCEPT !.urow = "share", !.pc = "login_user"]
  <2>1. req' = [req EXCEPT ![r] = y] /\ x.pc = "login_audit"
    BY <1>3 DEF LoginAudit, Move
  <2>2. Goes(x, y)
    BY <1>0, <2>1 DEF Goes, Request, ShareSteps
  <2> QED
    BY <1>1, <2>1, <2>2
<1>4. CASE IssuePair(r)
  <2> DEFINE y == [x EXCEPT !.urow = "update", !.ver = version[x.user], !.pc = "commit"]
  <2>1. req' = [req EXCEPT ![r] = y] /\ x.pc = "login_user"
    BY <1>4 DEF IssuePair, Write
  <2>2. Goes(x, y)
    BY <1>0, <2>1 DEF Goes, Request, UpdateSteps
  <2> QED
    BY <1>1, <2>1, <2>2
<1>5. CASE RefreshLockUser(r)
  <2> DEFINE y == [x EXCEPT !.urow = "update", !.ver = version[x.user], !.pc = "refresh_family"]
  <2>1. req' = [req EXCEPT ![r] = y] /\ x.pc = "refresh_user"
    BY <1>5 DEF RefreshLockUser, Move
  <2>2. Goes(x, y)
    BY <1>0, <2>1 DEF Goes, Request, UpdateSteps
  <2> QED
    BY <1>1, <2>1, <2>2
<1>6. CASE RefreshLockFamily(r)
  <2> DEFINE y == [x EXCEPT !.held = {x.family}, !.pc = "refresh_decide"]
  <2>1. req' = [req EXCEPT ![r] = y] /\ x.pc = "refresh_family"
    BY <1>6 DEF RefreshLockFamily, LockFamily, Move
  <2>2. Goes(x, y)
    BY <1>0, <2>1 DEF Goes, Request, FamilySteps
  <2> QED
    BY <1>1, <2>1, <2>2
<1>7. CASE RefreshDecide(r) /\ ~Finish(r)
  <2> DEFINE y == [x EXCEPT !.pc = "commit"]
  <2>1. req' = [req EXCEPT ![r] = y] /\ x.pc = "refresh_decide"
    BY <1>7 DEF RefreshDecide, RotateRevoked, RotateKillsFamily, RotateExpired, RotateSucceeds, At, Write, Finish
  <2>2. Goes(x, y)
    BY <1>0, <2>1 DEF Goes, Request, PlainSteps
  <2> QED
    BY <1>1, <2>1, <2>2
<1>8. CASE AuthLockFamily(r)
  <2> DEFINE y == [x EXCEPT !.held = {x.family}, !.pc = "auth_touch"]
  <2>1. req' = [req EXCEPT ![r] = y] /\ x.pc = "auth_family"
    BY <1>8 DEF AuthLockFamily, LockFamily, Move
  <2>2. Goes(x, y)
    BY <1>0, <2>1 DEF Goes, Request, FamilySteps
  <2> QED
    BY <1>1, <2>1, <2>2
<1>9. CASE TouchActive(r)
  <2> DEFINE y == [x EXCEPT !.held = {}, !.pc = "auth_user"]
  <2>1. req' = [req EXCEPT ![r] = y] /\ x.pc = "auth_touch"
    BY <1>9 DEF TouchActive, Move
  <2>2. Goes(x, y)
    BY <1>0, <2>1 DEF Goes, Request
  <2> QED
    BY <1>1, <2>1, <2>2
<1>10. CASE TouchIdle(r)
  <2> DEFINE y == [x EXCEPT !.pc = "idle_audit"]
  <2>1. req' = [req EXCEPT ![r] = y] /\ x.pc = "auth_touch"
    BY <1>10 DEF TouchIdle, At, Write
  <2>2. Goes(x, y)
    BY <1>0, <2>1 DEF Goes, Request, PlainSteps
  <2> QED
    BY <1>1, <2>1, <2>2
<1>11. CASE IdleAudit(r)
  <2> DEFINE y == [x EXCEPT !.urow = "share", !.pc = "commit"]
  <2>1. req' = [req EXCEPT ![r] = y] /\ x.pc = "idle_audit"
    BY <1>11 DEF IdleAudit, Move
  <2>2. Goes(x, y)
    BY <1>0, <2>1 DEF Goes, Request, ShareSteps
  <2> QED
    BY <1>1, <2>1, <2>2
<1>12. CASE x.pc = "auth_user" /\ Move(r, At(r, "logout_family"))
  <2> DEFINE y == [x EXCEPT !.pc = "logout_family"]
  <2>1. req' = [req EXCEPT ![r] = y] /\ x.pc = "auth_user"
    BY <1>12 DEF At, Move
  <2>2. Goes(x, y)
    BY <1>0, <2>1 DEF Goes, Request, PlainSteps
  <2> QED
    BY <1>1, <2>1, <2>2
<1>13. CASE x.pc = "auth_user" /\ Move(r, At(r, "all_user"))
  <2> DEFINE y == [x EXCEPT !.pc = "all_user"]
  <2>1. req' = [req EXCEPT ![r] = y] /\ x.pc = "auth_user"
    BY <1>13 DEF At, Move
  <2>2. Goes(x, y)
    BY <1>0, <2>1 DEF Goes, Request, PlainSteps
  <2> QED
    BY <1>1, <2>1, <2>2
<1>14. CASE LogoutLockFamily(r)
  <2> DEFINE y == [x EXCEPT !.held = {x.family}, !.pc = "logout_revoke"]
  <2>1. req' = [req EXCEPT ![r] = y] /\ x.pc = "logout_family"
    BY <1>14 DEF LogoutLockFamily, LockFamily, Move
  <2>2. Goes(x, y)
    BY <1>0, <2>1 DEF Goes, Request, FamilySteps
  <2> QED
    BY <1>1, <2>1, <2>2
<1>15. CASE LogoutRevoke(r)
  <2> DEFINE y == [x EXCEPT !.pc = "logout_audit"]
  <2>1. req' = [req EXCEPT ![r] = y] /\ x.pc = "logout_revoke"
    BY <1>15 DEF LogoutRevoke, At, Write
  <2>2. Goes(x, y)
    BY <1>0, <2>1 DEF Goes, Request, PlainSteps
  <2> QED
    BY <1>1, <2>1, <2>2
<1>16. CASE LogoutAudit(r)
  <2> DEFINE y == [x EXCEPT !.urow = "share", !.pc = "commit"]
  <2>1. req' = [req EXCEPT ![r] = y] /\ x.pc = "logout_audit"
    BY <1>16 DEF LogoutAudit, Move
  <2>2. Goes(x, y)
    BY <1>0, <2>1 DEF Goes, Request, ShareSteps
  <2> QED
    BY <1>1, <2>1, <2>2
<1>17. CASE LogoutAllLockUser(r)
  <2> DEFINE y == [x EXCEPT !.urow = "update", !.pc = "all_scan"]
  <2>1. req' = [req EXCEPT ![r] = y] /\ x.pc = "all_user"
    BY <1>17 DEF LogoutAllLockUser, Move
  <2>2. Goes(x, y)
    BY <1>0, <2>1 DEF Goes, Request, UpdateSteps
  <2> QED
    BY <1>1, <2>1, <2>2
<1>18. CASE LogoutAllScan(r)
  <2> DEFINE S == {tok[t].family : t \in {z \in Issued : tok[z].user = x.user /\ ~tok[z].revoked}}
             y == [x EXCEPT !.pc = "all_families", !.fams = S]
  <2>1. req' = [req EXCEPT ![r] = y] /\ x.pc = "all_scan"
    BY <1>18 DEF LogoutAllScan, Move
  <2>2. \A f \in S : \E t \in RowsOf(f) : tok[t].user = x.user
    BY DEF RowsOf
  <2> HIDE DEF S
  <2>3. Goes(x, y)
    BY <1>0, <2>1, <2>2 DEF Goes, Request
  <2> QED
    BY <1>1, <2>1, <2>3
<1>19. CASE \E f \in Families : LogoutAllLockFamily(r, f)
  <2>1. PICK f \in x.fams \ x.held : LogoutAllLockFamily(r, f)
    BY <1>19 DEF LogoutAllLockFamily
  <2> DEFINE y == [x EXCEPT !.held = @ \cup {f}]
  <2>2. req' = [req EXCEPT ![r] = y] /\ x.pc = "all_families"
    BY <2>1 DEF LogoutAllLockFamily, Move
  <2>3. Goes(x, y)
    BY <1>0, <2>2 DEF Goes, Request
  <2> QED
    BY <1>1, <2>2, <2>3
<1>20. CASE LogoutAllRevoke(r)
  <2> DEFINE y == [x EXCEPT !.bump = TRUE, !.pc = "commit"]
  <2>1. req' = [req EXCEPT ![r] = y] /\ x.pc = "all_families" /\ x.fams \subseteq x.held
    BY <1>20 DEF LogoutAllRevoke, Write
  <2>2. Goes(x, y)
    BY <1>0, <2>1 DEF Goes, Request, PlainSteps
  <2> QED
    BY <1>1, <2>1, <2>2
<1>21. Goal
  BY <1>2, <1>3, <1>4, <1>5, <1>6, <1>7, <1>8, <1>9, <1>10, <1>11, <1>12, <1>13, <1>14, <1>15, <1>16, <1>17, <1>18, <1>19, <1>20 DEF Proceed, Step, Abort, Commit,
     IssueRefused, RotateRevoked, RefreshDecide, TouchRejects, AuthLoadUser
<1> QED
  BY <1>21

\* A step keeps the stance of the request that takes it.
LEMMA StanceKept ==
    ASSUME NEW x, NEW y, Stance(x), Goes(x, y)
    PROVE  Stance(y) /\ Nearer(x, y) /\ y.pc # "idle"
<1>1. CASE <<x.pc, y.pc>> \in PlainSteps
  BY <1>1 DEF Stance, Goes, Nearer, Left, PlainSteps, ShareSteps, UpdateSteps, FamilySteps, HoldsUserPC, HoldsFamilyPC
<1>2. CASE <<x.pc, y.pc>> \in ShareSteps
  BY <1>2 DEF Stance, Goes, Nearer, Left, PlainSteps, ShareSteps, UpdateSteps, FamilySteps, HoldsUserPC, HoldsFamilyPC
<1>3. CASE <<x.pc, y.pc>> \in UpdateSteps
  BY <1>3 DEF Stance, Goes, Nearer, Left, PlainSteps, ShareSteps, UpdateSteps, FamilySteps, HoldsUserPC, HoldsFamilyPC
<1>4. CASE <<x.pc, y.pc>> \in FamilySteps
  BY <1>4 DEF Stance, Goes, Nearer, Left, PlainSteps, ShareSteps, UpdateSteps, FamilySteps, HoldsUserPC, HoldsFamilyPC
<1>5. CASE x.pc = "auth_touch" /\ y.pc = "auth_user"
  BY <1>5 DEF Stance, Goes, Nearer, Left, PlainSteps, ShareSteps, UpdateSteps, FamilySteps, HoldsUserPC, HoldsFamilyPC
<1>6. CASE x.pc = "all_scan" /\ y.pc = "all_families"
  BY <1>6 DEF Stance, Goes, Nearer, Left, PlainSteps, ShareSteps, UpdateSteps, FamilySteps, HoldsUserPC, HoldsFamilyPC
<1>7. CASE x.pc = "all_families" /\ y.pc = "all_families"
  BY <1>7 DEF Stance, Goes, Nearer, Left, PlainSteps, ShareSteps, UpdateSteps, FamilySteps, HoldsUserPC, HoldsFamilyPC
<1> QED
  BY <1>1, <1>2, <1>3, <1>4, <1>5, <1>6, <1>7 DEF Goes

\* A request lays claim to no further family, but for the scan of a logout-all,
\* which finds rows of its user.
LEMMA ClaimsKept ==
    ASSUME NEW r \in Reqs, NEW y, Owned(r), Goes(req[r], y)
    PROVE  /\ y.user = req[r].user
           /\ \A f \in Claims(y) : \E t \in RowsOf(f) : tok[t].user = y.user
<1> DEFINE x == req[r]
<1>1. CASE Claims(y) \subseteq Claims(x)
  BY <1>1 DEF Owned, Goes
<1>2. CASE x.pc = "all_scan" /\ y.pc = "all_families"
  <2>1. Claims(y) = y.held \cup y.fams /\ x.held \subseteq Claims(x) /\ y.held = x.held
    BY <1>2 DEF Claims, FamilyPC, Goes, PlainSteps, ShareSteps, UpdateSteps, FamilySteps
  <2>2. \A f \in y.fams : \E t \in RowsOf(f) : tok[t].user = x.user
    BY <1>2 DEF Goes, PlainSteps, ShareSteps, UpdateSteps, FamilySteps
  <2> QED
    BY <2>1, <2>2 DEF Owned, Goes
<1>3. CASE ~(x.pc = "all_scan" /\ y.pc = "all_families")
  BY <1>1, <1>3 DEF Goes, Claims, FamilyPC, PlainSteps, ShareSteps, UpdateSteps, FamilySteps
<1> QED
  BY <1>2, <1>3

\* The same family, however its rows age, has the same user.
LEMMA OwnersStay ==
    ASSUME IInv, RInv, [Next]_vars, NEW f, NEW u, \E t \in RowsOf(f) : tok[t].user = u
    PROVE  (\E t \in RowsOf(f) : tok[t].user = u)'
<1>1. PICK t \in Issued : tok[t].family = f /\ tok[t].user = u
  BY DEF RowsOf
<1>2. t \in Issued' /\ tok'[t].family = f /\ tok'[t].user = u
  BY <1>1, Stamps DEF SameLogin
<1> QED
  BY <1>2 DEF RowsOf, Issued

\* Every step keeps the lock invariant.
LEMMA LockInvNext == IInv /\ RInv /\ LockInv /\ [Next]_vars => LockInv'
<1> SUFFICES ASSUME IInv, RInv, LockInv, [Next]_vars, NEW q \in Reqs
             PROVE  Stance(req'[q]) /\ Owned(q)'
  BY DEF LockInv
<1>1. ASSUME Stance(req'[q]), \A f \in Claims(req'[q]) : \E t \in RowsOf(f) : tok[t].user = req'[q].user
      PROVE  Stance(req'[q]) /\ Owned(q)'
  <2>1. ASSUME NEW f \in Claims(req'[q])
        PROVE  (\E t \in RowsOf(f) : tok[t].user = req[q].user)'
    <3>1. PICK u : u = req'[q].user
      OBVIOUS
    <3>2. (\E t \in RowsOf(f) : tok[t].user = u)'
      BY <1>1, <2>1, <3>1, OwnersStay
    <3> QED
      BY <3>1, <3>2
  <2> QED
    BY <1>1, <2>1 DEF Owned, Claims
<1>2. CASE req'[q] = req[q]
  BY <1>1, <1>2 DEF LockInv, Owned
<1>3. CASE req'[q] = NoReq
  <2>1. Stance(NoReq) /\ Claims(NoReq) = {}
    BY DEF NoReq, Stance, Claims, HoldsUserPC, HoldsFamilyPC, FamilyPC
  <2> QED
    BY <1>1, <1>3, <2>1
<1>4. CASE Goes(req[q], req'[q])
  BY <1>1, <1>4, StanceKept, ClaimsKept DEF LockInv
<1>5. ASSUME NEW r \in Reqs, Start(r)
      PROVE  Stance(req'[q]) /\ Owned(q)'
  <2>1. CASE q = r
    <3>1. Begins(req'[q]) /\ \A f \in Claims(req'[q]) : \E t \in RowsOf(f) : tok[t].user = req'[q].user
      BY <1>5, <2>1, StartGoes
    <3>2. Stance(req'[q])
      BY <3>1 DEF Begins, Stance, HoldsUserPC, HoldsFamilyPC
    <3> QED
      BY <1>1, <3>1, <3>2
  <2>2. CASE q # r
    BY <1>2, <1>5, <2>2, StartGoes DEF OthersStay
  <2> QED
    BY <2>1, <2>2
<1>6. ASSUME NEW r \in Reqs, Proceed(r) \/ Abort(r)
      PROVE  Stance(req'[q]) /\ Owned(q)'
  BY <1>2, <1>3, <1>4, <1>6, StepGoes DEF OthersStay
<1>7. CASE Admin \/ Tick \/ UNCHANGED vars
  BY <1>2, <1>7 DEF Admin, SetActive, SetCompliant, Tick, vars
<1> QED
  BY <1>5, <1>6, <1>7 DEF Next

\* Where a request is says which user and which families it has locked.
THEOREM LocksAreKnown == Spec => [](IInv /\ RInv /\ LockInv)
<1>1. Init => LockInv
  <2>1. Stance(NoReq) /\ Claims(NoReq) = {}
    BY DEF NoReq, Stance, Claims, HoldsUserPC, HoldsFamilyPC, FamilyPC
  <2> QED
    BY <2>1 DEF Init, LockInv, Owned
<1> QED
  BY <1>1, LockInvNext, RowsInvariant, PTL DEF Spec

\* What a request waits for.
LEMMA WantsAreClaims ==
    ASSUME NEW r \in Reqs
    PROVE  WantedFamilies(r) \subseteq Claims(req[r])
  BY DEF WantedFamilies, Claims, FamilyPC

\* No user waits for another user: every lock that keeps a request waiting is
\* held for the same user, whatever JWTs and refresh tokens the clients mix.
THEOREM WaitingStaysWithinUser == Spec => []WaitsStayWithinUser
<1>1. ASSUME RInv, LockInv, NEW q \in Reqs, NEW r \in Reqs, Blocks(q, r)
      PROVE  req[q].user = req[r].user
  <2>1. CASE req[q].held \cap WantedFamilies(r) # {}
    <3>1. PICK f : f \in Claims(req[q]) /\ f \in Claims(req[r])
      BY <2>1, WantsAreClaims DEF Claims
    <3>2. PICK s \in RowsOf(f) : tok[s].user = req[q].user
      BY <1>1, <3>1 DEF LockInv, Owned
    <3>3. PICK t \in RowsOf(f) : tok[t].user = req[r].user
      BY <1>1, <3>1 DEF LockInv, Owned
    <3>4. SameLogin(tok[s], tok[t])
      BY <1>1 DEF RInv, Committed, RowsOf
    <3> QED
      BY <3>2, <3>3, <3>4 DEF SameLogin
  <2> QED
    BY <1>1, <2>1 DEF Blocks
<1>2. RInv /\ LockInv => WaitsStayWithinUser
  BY <1>1 DEF WaitsStayWithinUser
<1> QED
  BY <1>2, LocksAreKnown, PTL

\* Who waits while others wait for it: somebody with the user row who wants a
\* family, with a family who wants the user row, or with a share of the user
\* row who wants it alone.
LEMMA InBetween ==
    ASSUME LockInv, NEW p \in Reqs, NEW q \in Reqs, NEW r \in Reqs, Blocks(q, r), Blocks(p, q)
    PROVE  \/ req[q].pc \in {"idle_audit", "logout_audit"}
           \/ req[q].pc = "login_user" /\ req[q].urow = "share"
           \/ /\ req[q].pc \in {"refresh_family", "all_families"} /\ req[q].urow = "update"
              /\ req[p].held # {}
<1>1. Stance(req[q]) /\ (req[q].urow # "none" \/ req[q].held # {})
  BY DEF LockInv, Blocks
<1>2. CASE WantsShare(q)
  BY <1>1, <1>2 DEF WantsShare, Stance, HoldsUserPC, HoldsFamilyPC
<1>3. CASE WantsUpdate(q)
  BY <1>1, <1>3 DEF WantsUpdate, Stance, HoldsUserPC, HoldsFamilyPC
<1>4. CASE req[p].held \cap WantedFamilies(q) # {}
  BY <1>1, <1>4 DEF WantedFamilies, Stance, HoldsUserPC, HoldsFamilyPC
<1> QED
  BY <1>2, <1>3, <1>4 DEF Blocks

\* Whatever happens at once, a deadlock of sessions takes an audit row that
\* asks for the user row after a family, or two logins of one user.
THEOREM CausesOfDeadlock == Spec => []DeadlocksHaveACause
<1>1. ASSUME IInv, LockInv, WaitsStayWithinUser, NEW S \in SUBSET Reqs, Deadlocked(S),
             \A r \in S : req[r].pc \notin {"idle_audit", "logout_audit"}
      PROVE  \E q, r \in S : /\ q # r /\ req[q].user = req[r].user
                             /\ req[q].pc = "login_user" /\ req[r].pc = "login_user"
  <2>1. PICK r \in S, q \in S, p \in S, o \in S : Blocks(q, r) /\ Blocks(p, q) /\ Blocks(o, p)
    <3>1. PICK r \in S : TRUE
      BY <1>1 DEF Deadlocked
    <3>2. PICK q \in S : Blocks(q, r)
      BY <1>1 DEF Deadlocked
    <3>3. PICK p \in S : Blocks(p, q)
      BY <1>1 DEF Deadlocked
    <3>4. PICK o \in S : Blocks(o, p)
      BY <1>1 DEF Deadlocked
    <3> QED
      BY <3>2, <3>3, <3>4
  <2>2. \/ req[q].pc = "login_user" /\ req[q].urow = "share"
        \/ req[q].pc \in {"refresh_family", "all_families"} /\ req[q].urow = "update" /\ req[p].held # {}
    BY <1>1, <2>1, InBetween
  <2>3. \/ req[p].pc = "login_user" /\ req[p].urow = "share"
        \/ req[p].pc \in {"refresh_family", "all_families"} /\ req[p].urow = "update"
    BY <1>1, <2>1, InBetween
  <2>4. Stance(req[p])
    BY <1>1 DEF LockInv
  <2>5. p # q /\ req[p].user = req[q].user
    BY <1>1, <2>1 DEF Blocks, WaitsStayWithinUser
  <2>6. req[q].urow = "update" => req[p].urow = "none"
    BY <1>1, <2>5 DEF IInv, Apart
  <2>7. req[p].urow = "update" => req[q].urow = "none"
    BY <1>1, <2>5 DEF IInv, Apart
  <2>8. req[p].pc = "login_user" /\ req[q].pc = "login_user"
    BY <2>2, <2>3, <2>6, <2>7
  <2> QED
    BY <2>5, <2>8
<1>2. IInv /\ LockInv /\ WaitsStayWithinUser => DeadlocksHaveACause
  BY <1>1 DEF DeadlocksHaveACause
<1> QED
  BY <1>2, LocksAreKnown, WaitingStaysWithinUser, PTL

\* Whoever holds a lock is in flight, and so is whoever waits for one.
LEMMA HoldersAreBusy ==
    ASSUME LockInv, NEW q \in Reqs, req[q].urow # "none" \/ req[q].held # {}
    PROVE  Busy(q)
  BY DEF LockInv, Stance, Busy, NoReq

\* A request that cannot go on waits for another one, unless no token is left to give.
LEMMA StuckIsBlocked ==
    ASSUME IInv, LockInv, ~OutOfIds, NEW r \in Reqs, Busy(r), ~GoesOn(r)
    PROVE  \E q \in Reqs : Blocks(q, r) /\ Busy(q)
<1>0. Stance(req[r])
  BY DEF LockInv
<1>1. CASE req[r].pc \in WaitsForUser /\ ~UserRowFree(r)
  <2>1. PICK q \in Reqs : Blocks(q, r)
    BY <1>1 DEF UserRowFree
  <2>2. req[q].urow # "none" \/ req[q].held # {}
    BY <2>1 DEF Blocks
  <2> QED
    BY <2>1, <2>2, HoldersAreBusy
<1>2. CASE req[r].pc \in WaitsForFamily /\ ~FamilyFree(r, req[r].family)
  <2>1. PICK q \in Reqs \ {r} : req[r].family \in req[q].held
    BY <1>2 DEF FamilyFree
  <2>2. Blocks(q, r)
    BY <1>2, <2>1 DEF Blocks, WantedFamilies, WaitsForFamily
  <2> QED
    BY <2>1, <2>2, HoldersAreBusy
<1>3. CASE /\ req[r].pc = "all_families"
           /\ ~(req[r].fams \subseteq req[r].held)
           /\ ~(\E f \in req[r].fams \ req[r].held : FamilyFree(r, f))
  <2>1. PICK f \in req[r].fams \ req[r].held : ~FamilyFree(r, f)
    BY <1>3
  <2>2. PICK q \in Reqs \ {r} : f \in req[q].held
    BY <2>1 DEF FamilyFree
  <2>3. Blocks(q, r)
    BY <1>3, <2>1, <2>2 DEF Blocks, WantedFamilies
  <2> QED
    BY <2>2, <2>3, HoldersAreBusy
<1> QED
  BY <1>1, <1>2, <1>3 DEF GoesOn, OutOfIds

\* Logins, rotations, authentications and logouts are never all stuck, for any
\* number of them: one can take its next step, or some wait for each other and
\* one of those is aborted.
THEOREM RequestsNeverStuck == Spec => []NobodyStuck
<1>1. ASSUME IInv, LockInv
      PROVE  NobodyStuck
  <2> DEFINE S == {r \in Reqs : Busy(r)}
  <2> SUFFICES ASSUME S # {}, \A r \in S : ~GoesOn(r), ~OutOfIds
               PROVE  Deadlocked(S)
    BY DEF NobodyStuck, GoesOn
  <2>1. \A r \in S : \E q \in S : Blocks(q, r)
    BY <1>1, StuckIsBlocked
  <2> QED
    BY <2>1 DEF Deadlocked
<1> QED
  BY <1>1, LocksAreKnown, PTL

\* No step of anybody takes a request back.
THEOREM RequestsGoForward == Spec => NobodyGoesBack
<1>1. ASSUME LockInv, IInv, [Next]_vars
      PROVE  [\A r \in Reqs : Busy(r) /\ req'[r] # req[r] => Nearer(req[r], req'[r])]_vars
  <2> SUFFICES ASSUME NEW q \in Reqs, Busy(q), req'[q] # req[q]
               PROVE  Nearer(req[q], req'[q])
    OBVIOUS
  <2>1. ASSUME NEW r \in Reqs, Start(r)
        PROVE  FALSE
    <3>1. req[r] = NoReq /\ \E x : req' = [req EXCEPT ![r] = x]
      BY <2>1 DEF Start, LoginStart, RefreshStart, AuthStart, Move
    <3>2. req \in [Reqs -> Request]
      BY <1>1 DEF IInv, TypeOK
    <3> QED
      BY <3>1, <3>2 DEF Busy, NoReq
  <2>2. ASSUME NEW r \in Reqs, Proceed(r) \/ Abort(r)
        PROVE  req'[q] = NoReq \/ Goes(req[q], req'[q])
    BY <1>1, <2>2, StepGoes DEF OthersStay
  <2>3. CASE req'[q] = NoReq
    <3>1. req[q].pc \in PC
      BY <1>1 DEF IInv, TypeOK, Request
    <3> QED
      BY <2>3, <3>1 DEF Busy, Nearer, Left, NoReq, PC
  <2>4. CASE Goes(req[q], req'[q])
    BY <1>1, <2>4, StanceKept DEF LockInv
  <2>5. CASE Admin \/ Tick \/ UNCHANGED vars
    BY <2>5 DEF Admin, SetActive, SetCompliant, Tick, vars
  <2> QED
    BY <1>1, <2>1, <2>2, <2>3, <2>4, <2>5 DEF Next
<1> QED
  BY <1>1, LocksAreKnown, PTL DEF Spec, NobodyGoesBack

\* A request has only so many steps before it: no sequence of its states, each
\* nearer to the end than the one before, goes on for ever.
THEOREM RequestsRunOut ==
    ASSUME IsFiniteSet(Families)
    PROVE  IsWellFoundedOn({z \in Request \X Request : Nearer(z[2], z[1])}, Request)
<1> DEFINE R == {z \in Request \X Request : Nearer(z[2], z[1])}
<1>1. ASSUME NEW T \in SUBSET Request, T # {}
      PROVE  \E x \in T : \A y \in T : ~Nearer(x, y)
  <2> DEFINE K == {Left(x.pc) : x \in T}
  <2>1. \A x \in T : Left(x.pc) \in 0 .. 7
    BY DEF Request, PC, Left
  <2>2. PICK k \in K : \A l \in K : k <= l
    <3>1. K \in SUBSET (0 .. 7) /\ K # {}
      BY <1>1, <2>1
    <3> HIDE DEF K
    <3>2. CASE 0 \in K \/ 1 \in K \/ 2 \in K \/ 3 \in K
      BY <3>1, <3>2
    <3>3. CASE ~(0 \in K \/ 1 \in K \/ 2 \in K \/ 3 \in K)
      <4>1. \A l \in K : l \in {4, 5, 6, 7}
        BY <3>1, <3>3
      <4>2. CASE 4 \in K \/ 5 \in K
        BY <4>1, <4>2
      <4>3. CASE ~(4 \in K \/ 5 \in K)
        <5>1. \A l \in K : l = 6 \/ l = 7
          BY <4>1, <4>3
        <5>2. PICK m \in K : 6 \in K => m = 6
          BY <3>1
        <5>3. \A l \in K : m <= l
          BY <5>1, <5>2
        <5> QED
          BY <5>3
      <4> QED
        BY <4>2, <4>3
    <3> QED
      BY <3>2, <3>3
  <2> DEFINE Least == {x \in T : Left(x.pc) = k}
  <2>3. Least # {} /\ \A y \in T : k <= Left(y.pc)
    BY <2>2
  <2>4. \A x \in Least, y \in T : ~(Left(y.pc) < Left(x.pc))
    BY <2>1, <2>3
  <2>5. CASE \A x \in Least : x.pc # "all_families"
    BY <2>3, <2>4, <2>5 DEF Nearer
  <2>6. CASE \E x \in Least : x.pc = "all_families"
    <3> DEFINE U == {Families \ x.held : x \in {z \in Least : z.pc = "all_families"}}
    <3>1. U \in SUBSET SUBSET Families /\ U # {}
      <4>1. PICK x \in Least : x.pc = "all_families"
        BY <2>6
      <4>2. Families \ x.held \in U
        BY <4>1
      <4>3. \A u \in U : u \subseteq Families
        OBVIOUS
      <4> HIDE DEF U
      <4> QED
        BY <4>2, <4>3
    <3>2. PICK u \in U : \A v \in U : v \subseteq u => v = u
      <4> HIDE DEF U
      <4> QED
        BY <3>1, LeastSet
    <3>3. PICK x \in Least : x.pc = "all_families" /\ u = Families \ x.held
      OBVIOUS
    <3>4. ASSUME NEW y \in T, Nearer(x, y)
          PROVE  FALSE
      <4>1. y.pc = "all_families" /\ x.held \subseteq y.held /\ x.held # y.held
        BY <2>4, <3>3, <3>4 DEF Nearer
      <4>2. x.held \subseteq Families /\ y.held \subseteq Families
        BY DEF Request
      <4>3. y \in Least
        BY <3>3, <4>1
      <4>4. Families \ y.held \in U /\ Families \ y.held \subseteq u /\ Families \ y.held # u
        BY <3>3, <4>1, <4>2, <4>3
      <4> QED
        BY <3>2, <4>4
    <3> QED
      BY <3>3, <3>4
  <2> QED
    BY <2>5, <2>6
<1>2. \A T \in SUBSET Request : T # {} => \E x \in T : \A y \in T : ~(<<y, x>> \in R)
  BY <1>1
<1> HIDE DEF R
<1>3. IsWellFoundedOn(R, Request)
  BY <1>2, MinWF
<1> QED
  BY <1>3 DEF R
=============================================================================
