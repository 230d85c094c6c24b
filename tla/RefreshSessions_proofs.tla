----------------------- MODULE RefreshSessions_proofs -----------------------
(***************************************************************************)
(* Proofs about RefreshSessions, for every number of users, families,      *)
(* tokens and requests. The argument: what a request will commit is        *)
(* decided under locks, and nothing another request can commit before it   *)
(* changes what the decision was based on, because the two would hold the  *)
(* same family or the same user row.                                       *)
(*                                                                         *)
(*   Shape      what pc tells about a request's fields and locks           *)
(*   Versions   what a request read under the user lock is still so        *)
(*   OldWrites  uncommitted changes of a row need its family's lock and    *)
(*              only ever consume or revoke                                *)
(*   NewWrites  an uncommitted new row leaves no other live row, and its   *)
(*              family is not closed meanwhile                             *)
(*   Apart      two requests share no lock and no new row                  *)
(***************************************************************************)
EXTENDS RefreshSessions, TLAPS

RefreshPC == {"refresh_user", "refresh_family", "refresh_decide"}
FamilyPC == {"refresh_user", "refresh_family", "refresh_decide", "auth_family", "auth_touch", "idle_audit",
             "auth_user", "logout_family", "logout_revoke", "logout_audit"}
HoldsFamilyPC == {"refresh_decide", "auth_touch", "idle_audit", "logout_revoke", "logout_audit"}
HoldsUserPC == {"refresh_family", "refresh_decide", "all_scan", "all_families"}
WritingPC == {"idle_audit", "logout_audit", "commit"}

Shape(r) ==
    /\ req[r].pc # "idle" => req[r].user \in Users
    /\ req[r].pc \in FamilyPC => req[r].family \in Families
    /\ req[r].pc \in RefreshPC =>
         /\ req[r].token \in Issued
         /\ req[r].family = tok[req[r].token].family
         /\ req[r].user = tok[req[r].token].user
    /\ req[r].pc \in HoldsFamilyPC => req[r].family \in req[r].held
    /\ req[r].pc \in HoldsUserPC => req[r].urow = "update"
    /\ DOMAIN pend[r] # {} => req[r].pc \in WritingPC
    /\ req[r].bump => req[r].pc = "commit"

Versions(r) ==
    /\ req[r].pc \in {"refresh_family", "refresh_decide"} => req[r].ver = version[req[r].user]
    /\ req[r].pc = "all_families" => \A t \in Issued :
         tok[t].user = req[r].user /\ ~tok[t].revoked => tok[t].family \in req[r].fams
    /\ req[r].bump =>
         /\ req[r].urow = "update" /\ NewRows(r) = {}
         /\ \A t \in Issued : tok[t].user = req[r].user /\ ~tok[t].revoked
               => t \in DOMAIN pend[r] /\ pend[r][t].revoked

OldWrites(r) == \A t \in DOMAIN pend[r] \cap Issued :
    LET new == pend[r][t] IN
    /\ tok[t].family \in req[r].held
    /\ new.family = tok[t].family /\ new.user = tok[t].user /\ new.loginVer = tok[t].loginVer
    /\ tok[t].consumed => new.consumed
    /\ tok[t].revoked => new.revoked

NewWrites(r) == \A t \in NewRows(r) :
    LET new == pend[r][t] IN
    /\ req[r].pc = "commit" /\ req[r].urow = "update"
    /\ new.user = req[r].user /\ new.loginVer = version[req[r].user]
    /\ \A s \in NewRows(r) : s = t
    /\ \A s \in Issued : tok[s].family = new.family =>
         /\ new.family \in req[r].held
         /\ \/ tok[s].consumed \/ tok[s].revoked
            \/ s \in DOMAIN pend[r] /\ (pend[r][s].consumed \/ pend[r][s].revoked)
         /\ Live(new.family) # {}

Apart(q, r) ==
    /\ req[q].held \cap req[r].held = {}
    /\ req[q].user = req[r].user /\ req[q].urow = "update" => req[r].urow = "none"
    /\ \A t \in NewRows(q), s \in NewRows(r) : t # s /\ pend[q][t].family # pend[r][s].family

Good(r) == Shape(r) /\ Versions(r) /\ OldWrites(r) /\ NewWrites(r)

IInv ==
    /\ TypeOK
    /\ SoleLiveToken
    /\ LogoutAllIsTotal
    /\ \A r \in Reqs : Good(r)
    /\ \A q, r \in Reqs : q # r => Apart(q, r)

-----------------------------------------------------------------------------
(* A step of one request that leaves the tables, the users and the clock   *)
(* alone keeps IInv if it leaves that request good and apart.              *)

Quiet == UNCHANGED <<table, active, compliant, now>>

LEMMA QuietStep ==
    ASSUME IInv, Quiet, NEW r \in Reqs, NEW x \in Request,
           req' = [req EXCEPT ![r] = x],
           DOMAIN pend' = Reqs, Table(pend'[r]),
           \A q \in Reqs \ {r} : pend'[q] = pend[q],
           Good(r)',
           \A q \in Reqs \ {r} : Apart(q, r)' /\ Apart(r, q)'
    PROVE  IInv'
<1>0. /\ req \in [Reqs -> Request] /\ \A q \in Reqs : Table(pend[q])
      /\ Table(tok) /\ version \in [Users -> Nat]
  BY DEF IInv, TypeOK
<1>1. tok' = tok /\ version' = version /\ Issued' = Issued
  BY DEF Quiet, table, Issued
<1>2. req' \in [Reqs -> Request] /\ \A q \in Reqs \ {r} : req'[q] = req[q]
  BY <1>0
<1>3. TypeOK'
  <2>1. \A q \in Reqs : Table(pend[q])'
    BY <1>0 DEF Table
  <2> QED
    BY <1>1, <1>2, <2>1 DEF IInv, TypeOK, Quiet, table, Table
<1>4. SoleLiveToken' /\ LogoutAllIsTotal'
  BY <1>1 DEF IInv, SoleLiveToken, LogoutAllIsTotal
<1>5. \A q \in Reqs : Good(q)'
  <2> SUFFICES ASSUME NEW q \in Reqs \ {r} PROVE Good(q)'
    OBVIOUS
  <2>1. Good(q) /\ req'[q] = req[q] /\ pend'[q] = pend[q]
    BY <1>2 DEF IInv
  <2>2. Shape(q)'
    BY <1>1, <2>1 DEF Good, Shape
  <2>3. Versions(q)'
    BY <1>1, <2>1 DEF Good, Versions, NewRows
  <2>4. OldWrites(q)'
    BY <1>1, <2>1 DEF Good, OldWrites
  <2>5. NewWrites(q)'
    BY <1>1, <2>1 DEF Good, NewWrites, NewRows, Live, Unrevoked, RowsOf
  <2> QED
    BY <2>2, <2>3, <2>4, <2>5 DEF Good
<1>6. \A p, q \in Reqs : p # q => Apart(p, q)'
  <2> SUFFICES ASSUME NEW p \in Reqs \ {r}, NEW q \in Reqs \ {r}, p # q PROVE Apart(p, q)'
    OBVIOUS
  <2>1. Apart(p, q)
    BY DEF IInv
  <2> QED
    BY <1>1, <1>2, <2>1 DEF Apart, NewRows
<1> QED
  BY <1>3, <1>4, <1>5, <1>6 DEF IInv

(* The same for a step that writes nothing: pend and its rows stay.        *)

LEMMA QuietMove ==
    ASSUME IInv, Quiet, NEW r \in Reqs, NEW x \in Request, Move(r, x), Good(r)',
           \A q \in Reqs \ {r} : Apart(q, r)' /\ Apart(r, q)'
    PROVE  IInv'
<1>1. DOMAIN pend = Reqs /\ Table(pend[r]) /\ pend' = pend
  BY DEF IInv, TypeOK, Move
<1> QED
  BY <1>1, QuietStep DEF Move

(* A request that ends holds nothing and has written nothing.              *)

LEMMA FinishInv ==
    ASSUME IInv, Quiet, NEW r \in Reqs, Finish(r)
    PROVE  IInv'
<1>0. req \in [Reqs -> Request] /\ DOMAIN pend = Reqs
  BY DEF IInv, TypeOK
<1>1. NoReq \in Request
  BY DEF NoReq, Request, PC, Op
<1>2. req' = [req EXCEPT ![r] = NoReq] /\ pend' = [pend EXCEPT ![r] = NoRows]
  BY DEF Finish, Write
<1>3. /\ DOMAIN pend' = Reqs /\ pend'[r] = NoRows /\ req'[r] = NoReq
      /\ \A q \in Reqs \ {r} : pend'[q] = pend[q] /\ req'[q] = req[q]
  BY <1>0, <1>2
<1>4. Table(pend'[r]) /\ DOMAIN pend'[r] = {}
  BY <1>3 DEF NoRows, Table
<1>5. Good(r)'
  BY <1>3, <1>4 DEF Good, Shape, Versions, OldWrites, NewWrites, NewRows, NoReq,
     RefreshPC, FamilyPC, HoldsFamilyPC, HoldsUserPC, WritingPC
<1>6. \A q \in Reqs \ {r} : Apart(q, r)' /\ Apart(r, q)'
  BY <1>3, <1>4 DEF Apart, NewRows, NoReq
<1> QED
  BY <1>1, <1>2, <1>3, <1>4, <1>5, <1>6, QuietStep

(* A step that writes nothing, taken by a request that wrote nothing yet.  *)

LEMMA ReadStep ==
    ASSUME IInv, Quiet, NEW r \in Reqs, NEW x \in Request, Move(r, x),
           req[r].pc \notin WritingPC, ~x.bump, Shape(r)',
           x.pc \in {"refresh_family", "refresh_decide"} => x.ver = version[x.user],
           x.pc = "all_families" => \A t \in Issued :
             tok[t].user = x.user /\ ~tok[t].revoked => tok[t].family \in x.fams,
           \A q \in Reqs \ {r} :
             /\ x.held \cap req[q].held = {}
             /\ req[q].user = x.user => /\ x.urow = "update" => req[q].urow = "none"
                                        /\ req[q].urow = "update" => x.urow = "none"
    PROVE  IInv'
<1>0. req \in [Reqs -> Request] /\ Good(r)
  BY DEF IInv, TypeOK
<1>1. /\ req'[r] = x /\ pend' = pend /\ \A q \in Reqs \ {r} : req'[q] = req[q]
      /\ tok' = tok /\ version' = version /\ Issued' = Issued /\ DOMAIN pend[r] = {}
  BY <1>0 DEF Move, Quiet, table, Issued, Good, Shape
<1>2. Versions(r)' /\ OldWrites(r)' /\ NewWrites(r)'
  BY <1>1 DEF Versions, OldWrites, NewWrites, NewRows
<1>3. \A q \in Reqs \ {r} : Apart(q, r)' /\ Apart(r, q)'
  BY <1>1 DEF Apart, NewRows
<1> QED
  BY <1>2, <1>3, QuietMove DEF Good

-----------------------------------------------------------------------------
(* One lemma for each action.                                              *)

LEMMA LoginStartInv ==
    ASSUME IInv, Quiet, NEW r \in Reqs, NEW u \in Users, LoginStart(r, u)
    PROVE  IInv'
<1> DEFINE x == [req[r] EXCEPT !.op = "login", !.user = u, !.pc = "login_audit"]
<1>0. req[r] \in Request /\ req \in [Reqs -> Request] /\ Good(r) /\ Move(r, x) /\ req[r] = NoReq
  BY DEF IInv, TypeOK, LoginStart
<1>1. x \in Request
  BY <1>0 DEF Request, PC, Op
<1>2. /\ x.pc = "login_audit" /\ x.user = u /\ x.held = {} /\ x.urow = "none" /\ ~x.bump
      /\ req[r].pc \notin WritingPC
  BY <1>0 DEF NoReq, WritingPC
<1> HIDE DEF x
<1>3. Shape(r)'
  <2>1. req'[r] = x /\ DOMAIN pend'[r] = {}
    BY <1>0, <1>2 DEF Move, Good, Shape
  <2> QED
    BY <1>2, <2>1 DEF Shape, RefreshPC, FamilyPC, HoldsFamilyPC, HoldsUserPC
<1> QED
  BY <1>0, <1>1, <1>2, <1>3, ReadStep

LEMMA LoginAuditInv ==
    ASSUME IInv, Quiet, NEW r \in Reqs, LoginAudit(r)
    PROVE  IInv'
<1> DEFINE x == [req[r] EXCEPT !.urow = "share", !.pc = "login_user"]
<1>0. req[r] \in Request /\ req \in [Reqs -> Request] /\ Good(r) /\ Move(r, x) /\ req[r].pc = "login_audit"
  BY DEF IInv, TypeOK, LoginAudit
<1>1. x \in Request
  BY <1>0 DEF Request, PC, Op
<1>2. /\ x.pc = "login_user" /\ x.user = req[r].user /\ x.held = req[r].held
      /\ x.urow = "share" /\ x.bump = req[r].bump /\ req[r].pc \notin WritingPC
  BY <1>0 DEF Request, WritingPC
<1> HIDE DEF x
<1>3. Shape(r)' /\ ~x.bump
  <2>1. req'[r] = x /\ DOMAIN pend'[r] = {}
    BY <1>0, <1>2 DEF Move, Good, Shape
  <2> QED
    BY <1>0, <1>2, <2>1 DEF Good, Shape, RefreshPC, FamilyPC, HoldsFamilyPC, HoldsUserPC
<1>4. \A q \in Reqs \ {r} :
        /\ x.held \cap req[q].held = {}
        /\ req[q].user = x.user => req[q].urow # "update"
  BY <1>0, <1>2 DEF LoginAudit, UserRowFree, Blocks, WantsShare, IInv, Apart
<1> QED
  BY <1>0, <1>1, <1>2, <1>3, <1>4, ReadStep

LEMMA RefreshStartInv ==
    ASSUME IInv, Quiet, NEW r \in Reqs, NEW t \in Tokens, RefreshStart(r, t)
    PROVE  IInv'
<1> DEFINE x == [req[r] EXCEPT !.op = "refresh", !.token = t, !.user = tok[t].user,
                               !.family = tok[t].family, !.pc = "refresh_user"]
<1>0. req[r] \in Request /\ req \in [Reqs -> Request] /\ Good(r) /\ Move(r, x) /\ req[r] = NoReq /\ t \in Issued
  BY DEF IInv, TypeOK, RefreshStart
<1>1. tok[t].user \in Users /\ tok[t].family \in Families
  BY <1>0 DEF IInv, TypeOK, Table, Row, Issued
<1>2. x \in Request
  BY <1>0, <1>1 DEF Request, PC, Op
<1>3. /\ x.pc = "refresh_user" /\ x.user = tok[t].user /\ x.family = tok[t].family
      /\ x.token = t /\ x.held = {} /\ x.urow = "none" /\ ~x.bump
      /\ req[r].pc \notin WritingPC
  BY <1>0 DEF NoReq, WritingPC
<1> HIDE DEF x
<1>4. Shape(r)'
  <2>1. req'[r] = x /\ DOMAIN pend'[r] = {} /\ tok' = tok /\ Issued' = Issued
    BY <1>0, <1>3 DEF Move, Good, Shape, Quiet, table, Issued
  <2> QED
    BY <1>0, <1>1, <1>3, <2>1 DEF Shape, RefreshPC, FamilyPC, HoldsFamilyPC, HoldsUserPC
<1> QED
  BY <1>0, <1>2, <1>3, <1>4, ReadStep

LEMMA RefreshLockUserInv ==
    ASSUME IInv, Quiet, NEW r \in Reqs, RefreshLockUser(r)
    PROVE  IInv'
<1> DEFINE x == [req[r] EXCEPT !.urow = "update", !.ver = version[req[r].user],
                               !.pc = "refresh_family"]
<1>0. /\ req[r] \in Request /\ req \in [Reqs -> Request] /\ Good(r)
      /\ Move(r, x) /\ req[r].pc = "refresh_user"
  BY DEF IInv, TypeOK, RefreshLockUser
<1>a. version[req[r].user] \in Nat
  BY <1>0 DEF IInv, TypeOK, Good, Shape
<1>1. x \in Request
  BY <1>0, <1>a DEF Request, PC, Op
<1>2. /\ x.pc = "refresh_family" /\ x.user = req[r].user /\ x.family = req[r].family
      /\ x.token = req[r].token /\ x.held = req[r].held /\ x.urow = "update"
      /\ x.ver = version[x.user]
      /\ x.bump = req[r].bump /\ req[r].pc \notin WritingPC
  BY <1>0 DEF Request, WritingPC
<1> HIDE DEF x
<1>3. Shape(r)' /\ ~x.bump
  <2>1. req'[r] = x /\ DOMAIN pend'[r] = {} /\ tok' = tok /\ Issued' = Issued
    BY <1>0, <1>2 DEF Move, Good, Shape, Quiet, table, Issued
  <2> QED
    BY <1>0, <1>2, <2>1 DEF Good, Shape, RefreshPC, FamilyPC, HoldsFamilyPC, HoldsUserPC
<1>4. \A q \in Reqs \ {r} :
        /\ x.held \cap req[q].held = {}
        /\ req[q].user = x.user => /\ x.urow = "update" => req[q].urow = "none"
                                   /\ req[q].urow = "update" => x.urow = "none"
  BY <1>0, <1>2 DEF RefreshLockUser, UserRowFree, Blocks, WantsUpdate, IInv, Apart
<1> QED
  BY <1>0, <1>1, <1>2, <1>3, <1>4, ReadStep

LEMMA RefreshLockFamilyInv ==
    ASSUME IInv, Quiet, NEW r \in Reqs, RefreshLockFamily(r)
    PROVE  IInv'
<1> DEFINE x == [req[r] EXCEPT !.held = {req[r].family}, !.pc = "refresh_decide"]
<1>0. /\ req[r] \in Request /\ req \in [Reqs -> Request] /\ Good(r)
      /\ Move(r, x) /\ req[r].pc = "refresh_family"
  BY DEF IInv, TypeOK, RefreshLockFamily, LockFamily
<1>a. req[r].family \in Families
  BY <1>0 DEF Good, Shape, FamilyPC
<1>1. x \in Request
  BY <1>0, <1>a DEF Request, PC, Op
<1>2. /\ x.pc = "refresh_decide" /\ x.user = req[r].user /\ x.family = req[r].family
      /\ x.token = req[r].token /\ x.held = {x.family} /\ x.urow = req[r].urow
      /\ x.ver = req[r].ver
      /\ x.bump = req[r].bump /\ req[r].pc \notin WritingPC
  BY <1>0 DEF Request, WritingPC
<1> HIDE DEF x
<1>3. Shape(r)' /\ ~x.bump
  <2>1. req'[r] = x /\ DOMAIN pend'[r] = {} /\ tok' = tok /\ Issued' = Issued
    BY <1>0, <1>2 DEF Move, Good, Shape, Quiet, table, Issued
  <2> QED
    BY <1>0, <1>2, <2>1 DEF Good, Shape, RefreshPC, FamilyPC, HoldsFamilyPC, HoldsUserPC
<1>4. \A q \in Reqs \ {r} :
        /\ x.held \cap req[q].held = {}
        /\ req[q].user = x.user => /\ x.urow = "update" => req[q].urow = "none"
                                   /\ req[q].urow = "update" => x.urow = "none"
  BY <1>0, <1>2 DEF RefreshLockFamily, FamilyFree, LockFamily, IInv, Apart
<1>5. x.ver = version[x.user]
  BY <1>0, <1>2 DEF Good, Versions
<1> QED
  BY <1>0, <1>1, <1>2, <1>3, <1>4, <1>5, ReadStep

LEMMA AuthLockFamilyInv ==
    ASSUME IInv, Quiet, NEW r \in Reqs, AuthLockFamily(r)
    PROVE  IInv'
<1> DEFINE x == [req[r] EXCEPT !.held = {req[r].family}, !.pc = "auth_touch"]
<1>0. /\ req[r] \in Request /\ req \in [Reqs -> Request] /\ Good(r)
      /\ Move(r, x) /\ req[r].pc = "auth_family"
  BY DEF IInv, TypeOK, AuthLockFamily, LockFamily
<1>a. req[r].family \in Families
  BY <1>0 DEF Good, Shape, FamilyPC
<1>1. x \in Request
  BY <1>0, <1>a DEF Request, PC, Op
<1>2. /\ x.pc = "auth_touch" /\ x.user = req[r].user /\ x.family = req[r].family
      /\ x.held = {x.family} /\ x.urow = req[r].urow
      /\ x.bump = req[r].bump /\ req[r].pc \notin WritingPC
  BY <1>0 DEF Request, WritingPC
<1> HIDE DEF x
<1>3. Shape(r)' /\ ~x.bump
  <2>1. req'[r] = x /\ DOMAIN pend'[r] = {} /\ tok' = tok /\ Issued' = Issued
    BY <1>0, <1>2 DEF Move, Good, Shape, Quiet, table, Issued
  <2> QED
    BY <1>0, <1>2, <2>1 DEF Good, Shape, RefreshPC, FamilyPC, HoldsFamilyPC, HoldsUserPC
<1>4. \A q \in Reqs \ {r} :
        /\ x.held \cap req[q].held = {}
        /\ req[q].user = x.user => /\ x.urow = "update" => req[q].urow = "none"
                                   /\ req[q].urow = "update" => x.urow = "none"
  BY <1>0, <1>2 DEF AuthLockFamily, FamilyFree, LockFamily, IInv, Apart
<1> QED
  BY <1>0, <1>1, <1>2, <1>3, <1>4, ReadStep

LEMMA LogoutLockFamilyInv ==
    ASSUME IInv, Quiet, NEW r \in Reqs, LogoutLockFamily(r)
    PROVE  IInv'
<1> DEFINE x == [req[r] EXCEPT !.held = {req[r].family}, !.pc = "logout_revoke"]
<1>0. /\ req[r] \in Request /\ req \in [Reqs -> Request] /\ Good(r)
      /\ Move(r, x) /\ req[r].pc = "logout_family"
  BY DEF IInv, TypeOK, LogoutLockFamily, LockFamily
<1>a. req[r].family \in Families
  BY <1>0 DEF Good, Shape, FamilyPC
<1>1. x \in Request
  BY <1>0, <1>a DEF Request, PC, Op
<1>2. /\ x.pc = "logout_revoke" /\ x.user = req[r].user /\ x.family = req[r].family
      /\ x.held = {x.family} /\ x.urow = req[r].urow
      /\ x.bump = req[r].bump /\ req[r].pc \notin WritingPC
  BY <1>0 DEF Request, WritingPC
<1> HIDE DEF x
<1>3. Shape(r)' /\ ~x.bump
  <2>1. req'[r] = x /\ DOMAIN pend'[r] = {} /\ tok' = tok /\ Issued' = Issued
    BY <1>0, <1>2 DEF Move, Good, Shape, Quiet, table, Issued
  <2> QED
    BY <1>0, <1>2, <2>1 DEF Good, Shape, RefreshPC, FamilyPC, HoldsFamilyPC, HoldsUserPC
<1>4. \A q \in Reqs \ {r} :
        /\ x.held \cap req[q].held = {}
        /\ req[q].user = x.user => /\ x.urow = "update" => req[q].urow = "none"
                                   /\ req[q].urow = "update" => x.urow = "none"
  BY <1>0, <1>2 DEF LogoutLockFamily, FamilyFree, LockFamily, IInv, Apart
<1> QED
  BY <1>0, <1>1, <1>2, <1>3, <1>4, ReadStep

LEMMA LogoutAllLockUserInv ==
    ASSUME IInv, Quiet, NEW r \in Reqs, LogoutAllLockUser(r)
    PROVE  IInv'
<1> DEFINE x == [req[r] EXCEPT !.urow = "update", !.pc = "all_scan"]
<1>0. /\ req[r] \in Request /\ req \in [Reqs -> Request] /\ Good(r)
      /\ Move(r, x) /\ req[r].pc = "all_user"
  BY DEF IInv, TypeOK, LogoutAllLockUser
<1>1. x \in Request
  BY <1>0 DEF Request, PC, Op
<1>2. /\ x.pc = "all_scan" /\ x.user = req[r].user /\ x.held = req[r].held
      /\ x.urow = "update"
      /\ x.bump = req[r].bump /\ req[r].pc \notin WritingPC
  BY <1>0 DEF Request, WritingPC
<1> HIDE DEF x
<1>3. Shape(r)' /\ ~x.bump
  <2>1. req'[r] = x /\ DOMAIN pend'[r] = {} /\ tok' = tok /\ Issued' = Issued
    BY <1>0, <1>2 DEF Move, Good, Shape, Quiet, table, Issued
  <2> QED
    BY <1>0, <1>2, <2>1 DEF Good, Shape, RefreshPC, FamilyPC, HoldsFamilyPC, HoldsUserPC
<1>4. \A q \in Reqs \ {r} :
        /\ x.held \cap req[q].held = {}
        /\ req[q].user = x.user => /\ x.urow = "update" => req[q].urow = "none"
                                   /\ req[q].urow = "update" => x.urow = "none"
  BY <1>0, <1>2 DEF LogoutAllLockUser, UserRowFree, Blocks, WantsUpdate, IInv, Apart
<1> QED
  BY <1>0, <1>1, <1>2, <1>3, <1>4, ReadStep

LEMMA AuthStartInv ==
    ASSUME IInv, Quiet, NEW r \in Reqs, NEW op \in {"call", "logout", "logout_all"},
           NEW j \in jwts, AuthStart(r, op, j)
    PROVE  IInv'
<1> DEFINE x == [req[r] EXCEPT !.op = op, !.user = j.user, !.family = j.family,
                               !.ver = j.ver, !.pc = "auth_family"]
<1>0. /\ req[r] \in Request /\ req \in [Reqs -> Request] /\ Good(r)
      /\ Move(r, x) /\ req[r] = NoReq
  BY DEF IInv, TypeOK, AuthStart
<1>a. j.user \in Users /\ j.family \in Families /\ j.ver \in Nat
  BY DEF IInv, TypeOK, Jwt
<1>1. x \in Request
  BY ZenonT(30), <1>0, <1>a DEF Request, PC, Op
<1>2. /\ x.pc = "auth_family" /\ x.user = j.user /\ x.family = j.family
      /\ x.held = {} /\ x.urow = "none" /\ ~x.bump /\ req[r].pc \notin WritingPC
  BY <1>0 DEF NoReq, WritingPC
<1> HIDE DEF x
<1>3. Shape(r)'
  <2>1. req'[r] = x /\ DOMAIN pend'[r] = {}
    BY <1>0, <1>2 DEF Move, Good, Shape
  <2> QED
    BY <1>a, <1>2, <2>1 DEF Shape, RefreshPC, FamilyPC, HoldsFamilyPC, HoldsUserPC
<1> QED
  BY <1>0, <1>1, <1>2, <1>3, ReadStep

LEMMA AuthLoadUserInv ==
    ASSUME IInv, Quiet, NEW r \in Reqs, AuthLoadUser(r)
    PROVE  IInv'
<1>0. /\ req[r] \in Request /\ req \in [Reqs -> Request] /\ Good(r)
      /\ req[r].pc = "auth_user"
  BY DEF IInv, TypeOK, AuthLoadUser
<1>1. CASE Move(r, At(r, "logout_family"))
  <2> DEFINE x == At(r, "logout_family")
  <2>1. x \in Request
    BY <1>0 DEF At, Request, PC, Op
  <2>2. /\ x.pc = "logout_family" /\ x.user = req[r].user /\ x.family = req[r].family
        /\ x.held = req[r].held /\ x.urow = req[r].urow
        /\ x.bump = req[r].bump /\ req[r].pc \notin WritingPC
    BY <1>0 DEF At, Request, WritingPC
  <2> HIDE DEF x
  <2>3. Shape(r)' /\ ~x.bump
    <3>1. req'[r] = x /\ DOMAIN pend'[r] = {}
      BY <1>0, <1>1, <2>2 DEF Move, Good, Shape, x
    <3> QED
      BY <1>0, <2>2, <3>1 DEF Good, Shape, RefreshPC, FamilyPC, HoldsFamilyPC, HoldsUserPC
  <2>4. \A q \in Reqs \ {r} :
          /\ x.held \cap req[q].held = {}
          /\ req[q].user = x.user => /\ x.urow = "update" => req[q].urow = "none"
                                     /\ req[q].urow = "update" => x.urow = "none"
    BY <2>2 DEF IInv, Apart
  <2>5. Move(r, x)
    BY <1>1 DEF x
  <2> QED
    BY <2>1, <2>2, <2>3, <2>4, <2>5, ReadStep
<1>2. CASE Move(r, At(r, "all_user"))
  <2> DEFINE x == At(r, "all_user")
  <2>1. x \in Request
    BY <1>0 DEF At, Request, PC, Op
  <2>2. /\ x.pc = "all_user" /\ x.user = req[r].user /\ x.family = req[r].family
        /\ x.held = req[r].held /\ x.urow = req[r].urow
        /\ x.bump = req[r].bump /\ req[r].pc \notin WritingPC
    BY <1>0 DEF At, Request, WritingPC
  <2> HIDE DEF x
  <2>3. Shape(r)' /\ ~x.bump
    <3>1. req'[r] = x /\ DOMAIN pend'[r] = {}
      BY <1>0, <1>2, <2>2 DEF Move, Good, Shape, x
    <3> QED
      BY <1>0, <2>2, <3>1 DEF Good, Shape, RefreshPC, FamilyPC, HoldsFamilyPC, HoldsUserPC
  <2>4. \A q \in Reqs \ {r} :
          /\ x.held \cap req[q].held = {}
          /\ req[q].user = x.user => /\ x.urow = "update" => req[q].urow = "none"
                                     /\ req[q].urow = "update" => x.urow = "none"
    BY <2>2 DEF IInv, Apart
  <2>5. Move(r, x)
    BY <1>2 DEF x
  <2> QED
    BY <2>1, <2>2, <2>3, <2>4, <2>5, ReadStep
<1> QED
  BY <1>1, <1>2, FinishInv DEF AuthLoadUser

LEMMA LogoutAllScanInv ==
    ASSUME IInv, Quiet, NEW r \in Reqs, LogoutAllScan(r)
    PROVE  IInv'
<1> DEFINE x == [req[r] EXCEPT !.pc = "all_families",
               !.fams = {tok[t].family : t \in {y \in Issued :
                        tok[y].user = req[r].user /\ ~tok[y].revoked}}]
<1>0. /\ req[r] \in Request /\ req \in [Reqs -> Request] /\ Good(r)
      /\ Move(r, x) /\ req[r].pc = "all_scan"
  BY DEF IInv, TypeOK, LogoutAllScan
<1>a. {tok[t].family : t \in {y \in Issued :
                        tok[y].user = req[r].user /\ ~tok[y].revoked}} \in SUBSET Families
  BY DEF IInv, TypeOK, Table, Row, Issued
<1>1. x \in Request
  BY <1>0, <1>a DEF Request, PC, Op
<1>2. /\ x.pc = "all_families" /\ x.user = req[r].user /\ x.held = req[r].held
      /\ x.urow = req[r].urow
      /\ x.fams = {tok[t].family : t \in {y \in Issued :
                        tok[y].user = req[r].user /\ ~tok[y].revoked}}
      /\ x.bump = req[r].bump /\ req[r].pc \notin WritingPC
  BY <1>0 DEF Request, WritingPC
<1> HIDE DEF x
<1>3. Shape(r)' /\ ~x.bump
  <2>1. req'[r] = x /\ DOMAIN pend'[r] = {} /\ tok' = tok /\ Issued' = Issued
    BY <1>0, <1>2 DEF Move, Good, Shape, Quiet, table, Issued
  <2> QED
    BY <1>0, <1>2, <2>1 DEF Good, Shape, RefreshPC, FamilyPC, HoldsFamilyPC, HoldsUserPC
<1>4. \A q \in Reqs \ {r} :
        /\ x.held \cap req[q].held = {}
        /\ req[q].user = x.user => /\ x.urow = "update" => req[q].urow = "none"
                                   /\ req[q].urow = "update" => x.urow = "none"
  BY <1>0, <1>2 DEF IInv, Apart
<1>5. \A t \in Issued :
        tok[t].user = x.user /\ ~tok[t].revoked => tok[t].family \in x.fams
  BY <1>0, <1>2 DEF Issued
<1> QED
  BY <1>0, <1>1, <1>2, <1>3, <1>4, <1>5, ReadStep

LEMMA LogoutAllLockFamilyInv ==
    ASSUME IInv, Quiet, NEW r \in Reqs, NEW f \in Families, LogoutAllLockFamily(r, f)
    PROVE  IInv'
<1> DEFINE x == [req[r] EXCEPT !.held = req[r].held \cup {f}]
<1>0. /\ req[r] \in Request /\ req \in [Reqs -> Request] /\ Good(r)
      /\ Move(r, x) /\ req[r].pc = "all_families"
  BY DEF IInv, TypeOK, LogoutAllLockFamily
<1>a. req[r].held \cup {f} \in SUBSET Families
  BY <1>0 DEF Request
<1>1. x \in Request
  BY <1>0, <1>a DEF Request, PC, Op
<1>2. /\ x.pc = "all_families" /\ x.user = req[r].user
      /\ x.held = req[r].held \cup {f} /\ x.fams = req[r].fams /\ x.urow = req[r].urow
      /\ x.bump = req[r].bump /\ req[r].pc \notin WritingPC
  BY <1>0 DEF Request, WritingPC
<1> HIDE DEF x
<1>3. Shape(r)' /\ ~x.bump
  <2>1. req'[r] = x /\ DOMAIN pend'[r] = {} /\ tok' = tok /\ Issued' = Issued
    BY <1>0, <1>2 DEF Move, Good, Shape, Quiet, table, Issued
  <2> QED
    BY <1>0, <1>2, <2>1 DEF Good, Shape, RefreshPC, FamilyPC, HoldsFamilyPC, HoldsUserPC
<1>4. \A q \in Reqs \ {r} :
        /\ x.held \cap req[q].held = {}
        /\ req[q].user = x.user => /\ x.urow = "update" => req[q].urow = "none"
                                   /\ req[q].urow = "update" => x.urow = "none"
  BY <1>0, <1>2 DEF LogoutAllLockFamily, FamilyFree, IInv, Apart
<1>5. \A t \in Issued :
        tok[t].user = x.user /\ ~tok[t].revoked => tok[t].family \in x.fams
  BY <1>0, <1>2 DEF Good, Versions
<1> QED
  BY <1>0, <1>1, <1>2, <1>3, <1>4, <1>5, ReadStep

LEMMA IdleAuditInv ==
    ASSUME IInv, Quiet, NEW r \in Reqs, IdleAudit(r)
    PROVE  IInv'
<1> DEFINE x == [req[r] EXCEPT !.urow = "share", !.pc = "commit"]
<1>0. /\ req[r] \in Request /\ req \in [Reqs -> Request] /\ Good(r)
      /\ Move(r, x) /\ req[r].pc = "idle_audit"
  BY DEF IInv, TypeOK, IdleAudit
<1>1. x \in Request
  BY <1>0 DEF Request, PC, Op
<1>2. /\ x.pc = "commit" /\ x.user = req[r].user /\ x.held = req[r].held
      /\ x.urow = "share" /\ x.bump = req[r].bump
  BY <1>0 DEF Request
<1> HIDE DEF x
<1>3. /\ req'[r] = x /\ \A q \in Reqs \ {r} : req'[q] = req[q]
      /\ pend' = pend /\ tok' = tok /\ version' = version /\ Issued' = Issued
  BY <1>0 DEF Move, Quiet, table, Issued
<1>4. NewRows(r) = {} /\ ~req[r].bump
  BY <1>0 DEF Good, Shape, NewWrites
<1>5. Good(r)'
  <2>1. Shape(r)' /\ Versions(r)' /\ NewWrites(r)'
    BY <1>0, <1>2, <1>3, <1>4 DEF Good, Shape, Versions, NewWrites, NewRows,
       RefreshPC, FamilyPC, HoldsFamilyPC, HoldsUserPC, WritingPC
  <2>2. OldWrites(r)'
    BY <1>0, <1>2, <1>3 DEF Good, OldWrites
  <2> QED
    BY <2>1, <2>2 DEF Good
<1>6. \A q \in Reqs \ {r} : Apart(q, r)' /\ Apart(r, q)'
  BY <1>0, <1>2, <1>3 DEF IdleAudit, UserRowFree, Blocks, WantsShare, IInv, Apart, NewRows
<1> QED
  BY <1>0, <1>1, <1>5, <1>6, QuietMove

LEMMA LogoutAuditInv ==
    ASSUME IInv, Quiet, NEW r \in Reqs, LogoutAudit(r)
    PROVE  IInv'
<1> DEFINE x == [req[r] EXCEPT !.urow = "share", !.pc = "commit"]
<1>0. /\ req[r] \in Request /\ req \in [Reqs -> Request] /\ Good(r)
      /\ Move(r, x) /\ req[r].pc = "logout_audit"
  BY DEF IInv, TypeOK, LogoutAudit
<1>1. x \in Request
  BY <1>0 DEF Request, PC, Op
<1>2. /\ x.pc = "commit" /\ x.user = req[r].user /\ x.held = req[r].held
      /\ x.urow = "share" /\ x.bump = req[r].bump
  BY <1>0 DEF Request
<1> HIDE DEF x
<1>3. /\ req'[r] = x /\ \A q \in Reqs \ {r} : req'[q] = req[q]
      /\ pend' = pend /\ tok' = tok /\ version' = version /\ Issued' = Issued
  BY <1>0 DEF Move, Quiet, table, Issued
<1>4. NewRows(r) = {} /\ ~req[r].bump
  BY <1>0 DEF Good, Shape, NewWrites
<1>5. Good(r)'
  <2>1. Shape(r)' /\ Versions(r)' /\ NewWrites(r)'
    BY <1>0, <1>2, <1>3, <1>4 DEF Good, Shape, Versions, NewWrites, NewRows,
       RefreshPC, FamilyPC, HoldsFamilyPC, HoldsUserPC, WritingPC
  <2>2. OldWrites(r)'
    BY <1>0, <1>2, <1>3 DEF Good, OldWrites
  <2> QED
    BY <2>1, <2>2 DEF Good
<1>6. \A q \in Reqs \ {r} : Apart(q, r)' /\ Apart(r, q)'
  BY <1>0, <1>2, <1>3 DEF LogoutAudit, UserRowFree, Blocks, WantsShare, IInv, Apart, NewRows
<1> QED
  BY <1>0, <1>1, <1>5, <1>6, QuietMove

-----------------------------------------------------------------------------
(* A step that revokes the committed rows S, all of families it has locked. *)

LEMMA RevokeStep ==
    ASSUME IInv, Quiet, NEW r \in Reqs, NEW x \in Request, NEW S \in SUBSET Issued,
           Write(r, x, Revoke(S)),
           x.pc \in WritingPC, x.user = req[r].user, x.family = req[r].family,
           x.held = req[r].held, x.urow = req[r].urow, req[r].user \in Users,
           x.pc \in FamilyPC => x.family \in Families /\ x.family \in x.held,
           \A t \in S : tok[t].family \in x.held,
           x.bump => /\ x.pc = "commit" /\ x.urow = "update"
                     /\ \A t \in Issued : tok[t].user = x.user /\ ~tok[t].revoked => t \in S
    PROVE  IInv'
<1>0. /\ req \in [Reqs -> Request] /\ DOMAIN pend = Reqs /\ Table(tok)
      /\ \A q \in Reqs \ {r} : Apart(q, r) /\ Apart(r, q)
  BY DEF IInv, TypeOK
<1>1. /\ req' = [req EXCEPT ![r] = x] /\ req'[r] = x
      /\ \A q \in Reqs \ {r} : req'[q] = req[q] /\ pend'[q] = pend[q]
      /\ DOMAIN pend' = Reqs /\ pend'[r] = Revoke(S)
      /\ tok' = tok /\ version' = version /\ Issued' = Issued
  BY <1>0 DEF Write, Quiet, table, Issued
<1>2. DOMAIN Revoke(S) = S /\ \A t \in S : Revoke(S)[t] = [tok[t] EXCEPT !.revoked = TRUE]
  BY DEF Revoke
<1>3. \A t \in S : tok[t] \in Row /\ t \in Tokens
  BY <1>0 DEF Table, Issued
<1>4. Table(Revoke(S))
  <2>1. \A t \in S : [tok[t] EXCEPT !.revoked = TRUE] \in Row
    BY <1>3 DEF Row
  <2>2. Revoke(S) \in [S -> Row]
    BY <2>1 DEF Revoke
  <2> QED
    BY <1>2, <1>3, <2>2 DEF Table
<1>5. \A t \in S :
        /\ Revoke(S)[t].family = tok[t].family /\ Revoke(S)[t].user = tok[t].user
        /\ Revoke(S)[t].loginVer = tok[t].loginVer
        /\ Revoke(S)[t].consumed = tok[t].consumed /\ Revoke(S)[t].revoked
  BY <1>2, <1>3 DEF Row
<1>6. Good(r)'
  <2>1. NewRows(r)' = {}
    BY <1>1, <1>2 DEF NewRows
  <2>2. Shape(r)'
    BY <1>1 DEF Shape, WritingPC, RefreshPC, FamilyPC, HoldsFamilyPC, HoldsUserPC
  <2>3. Versions(r)'
    BY <1>1, <1>2, <1>5, <2>1 DEF Versions, WritingPC
  <2>4. OldWrites(r)'
    BY <1>1, <1>2, <1>5 DEF OldWrites
  <2> QED
    BY <2>1, <2>2, <2>3, <2>4 DEF Good, NewWrites
<1>7. \A q \in Reqs \ {r} : Apart(q, r)' /\ Apart(r, q)'
  BY <1>0, <1>1, <1>2 DEF Apart, NewRows
<1> QED
  BY <1>1, <1>4, <1>6, <1>7, QuietStep

LEMMA TouchIdleInv ==
    ASSUME IInv, Quiet, NEW r \in Reqs, TouchIdle(r)
    PROVE  IInv'
<1> DEFINE x == At(r, "idle_audit")
           S == Stale(req[r].family)
<1>0. req[r] \in Request /\ Good(r) /\ req[r].pc = "auth_touch" /\ Write(r, x, Revoke(S))
  BY DEF IInv, TypeOK, TouchIdle
<1>1. x \in Request
  BY <1>0 DEF At, Request, PC
<1>2. /\ x.pc = "idle_audit" /\ x.user = req[r].user /\ x.family = req[r].family
      /\ x.held = req[r].held /\ x.urow = req[r].urow /\ x.bump = req[r].bump
  BY <1>0 DEF At, Request
<1>3. S \in SUBSET Issued /\ \A t \in S : tok[t].family = req[r].family
  BY DEF Stale, Unrevoked, RowsOf
<1>4. /\ req[r].user \in Users /\ req[r].family \in Families
      /\ req[r].family \in req[r].held /\ ~req[r].bump
  BY <1>0 DEF Good, Shape, FamilyPC, HoldsFamilyPC
<1> HIDE DEF x, S
<1> QED
  BY <1>0, <1>1, <1>2, <1>3, <1>4, RevokeStep DEF WritingPC

LEMMA LogoutRevokeInv ==
    ASSUME IInv, Quiet, NEW r \in Reqs, LogoutRevoke(r)
    PROVE  IInv'
<1> DEFINE x == At(r, "logout_audit")
           S == {t \in Unrevoked(req[r].family) : tok[t].user = req[r].user}
<1>0. req[r] \in Request /\ Good(r) /\ req[r].pc = "logout_revoke" /\ Write(r, x, Revoke(S))
  BY DEF IInv, TypeOK, LogoutRevoke
<1>1. x \in Request
  BY <1>0 DEF At, Request, PC
<1>2. /\ x.pc = "logout_audit" /\ x.user = req[r].user /\ x.family = req[r].family
      /\ x.held = req[r].held /\ x.urow = req[r].urow /\ x.bump = req[r].bump
  BY <1>0 DEF At, Request
<1>3. S \in SUBSET Issued /\ \A t \in S : tok[t].family = req[r].family
  BY DEF Unrevoked, RowsOf
<1>4. /\ req[r].user \in Users /\ req[r].family \in Families
      /\ req[r].family \in req[r].held /\ ~req[r].bump
  BY <1>0 DEF Good, Shape, FamilyPC, HoldsFamilyPC
<1> HIDE DEF x, S
<1> QED
  BY <1>0, <1>1, <1>2, <1>3, <1>4, RevokeStep DEF WritingPC

LEMMA LogoutAllRevokeInv ==
    ASSUME IInv, Quiet, NEW r \in Reqs, LogoutAllRevoke(r)
    PROVE  IInv'
<1> DEFINE x == [req[r] EXCEPT !.bump = TRUE, !.pc = "commit"]
           S == {t \in Issued : tok[t].user = req[r].user /\ ~tok[t].revoked}
<1>0. /\ req[r] \in Request /\ Good(r) /\ req[r].pc = "all_families"
      /\ Write(r, x, Revoke(S)) /\ req[r].fams \subseteq req[r].held
  BY DEF IInv, TypeOK, LogoutAllRevoke
<1>1. x \in Request
  BY <1>0 DEF Request, PC
<1>2. /\ x.pc = "commit" /\ x.user = req[r].user /\ x.family = req[r].family
      /\ x.held = req[r].held /\ x.urow = req[r].urow
  BY <1>0 DEF Request
<1>3. S \in SUBSET Issued /\ \A t \in S : tok[t].family \in req[r].held
  BY <1>0 DEF Good, Versions
<1>4. req[r].user \in Users /\ req[r].urow = "update"
  BY <1>0 DEF Good, Shape, HoldsUserPC
<1>5. \A t \in Issued : tok[t].user = x.user /\ ~tok[t].revoked => t \in S
  BY <1>2
<1> HIDE DEF x, S
<1> QED
  BY <1>0, <1>1, <1>2, <1>3, <1>4, <1>5, RevokeStep DEF WritingPC, FamilyPC

LEMMA RotateRevokesInv ==
    ASSUME IInv, Quiet, NEW r \in Reqs, req[r].pc = "refresh_decide",
           RotateKillsFamily(r) \/ RotateExpired(r)
    PROVE  IInv'
<1> DEFINE x == At(r, "commit")
<1>0. req[r] \in Request /\ Good(r)
  BY DEF IInv, TypeOK
<1>1. x \in Request
  BY <1>0 DEF At, Request, PC
<1>2. /\ x.pc = "commit" /\ x.user = req[r].user /\ x.family = req[r].family
      /\ x.held = req[r].held /\ x.urow = req[r].urow /\ x.bump = req[r].bump
  BY <1>0 DEF At, Request
<1>3. /\ req[r].user \in Users /\ req[r].token \in Issued /\ ~req[r].bump
      /\ req[r].family = tok[req[r].token].family /\ req[r].family \in req[r].held
  BY <1>0 DEF Good, Shape, RefreshPC, HoldsFamilyPC
<1>4. PICK S \in SUBSET Issued :
        Write(r, x, Revoke(S)) /\ \A t \in S : tok[t].family = req[r].family
  BY <1>3 DEF RotateKillsFamily, RotateExpired, Unrevoked, RowsOf
<1> HIDE DEF x
<1> QED
  BY <1>1, <1>2, <1>3, <1>4, RevokeStep DEF WritingPC, FamilyPC

(* A login writes one row, of a family no other request uses.              *)

LEMMA IssuePairInv ==
    ASSUME IInv, Quiet, NEW r \in Reqs, IssuePair(r)
    PROVE  IInv'
<1> DEFINE u == req[r].user
           x == [req[r] EXCEPT !.urow = "update", !.ver = version[req[r].user],
                               !.pc = "commit"]
<1>0. /\ req \in [Reqs -> Request] /\ req[r] \in Request /\ Good(r) /\ DOMAIN pend = Reqs
      /\ req[r].pc = "login_user" /\ version \in [Users -> Nat] /\ now \in Nat
  BY DEF IInv, TypeOK, IssuePair
<1>1. PICK f \in FreshFamilies, t \in FreshTokens :
        Write(r, x, [y \in {t} |-> LoginRow(f, u)])
  BY DEF IssuePair
<1>2. u \in Users /\ version[u] \in Nat /\ ~req[r].bump
  BY <1>0 DEF Good, Shape
<1>3. x \in Request
  BY <1>0, <1>2 DEF Request, PC
<1>4. x.pc = "commit" /\ x.user = u /\ x.held = req[r].held /\ x.urow = "update" /\ ~x.bump
  BY <1>0, <1>2 DEF Request
<1> HIDE DEF x
<1>5. /\ req' = [req EXCEPT ![r] = x] /\ req'[r] = x
      /\ \A q \in Reqs \ {r} : req'[q] = req[q] /\ pend'[q] = pend[q]
      /\ DOMAIN pend' = Reqs /\ pend'[r] = [y \in {t} |-> LoginRow(f, u)]
      /\ tok' = tok /\ version' = version /\ Issued' = Issued
  BY <1>0, <1>1 DEF Write, Quiet, table, Issued
<1>6. LoginRow(f, u) \in Row
  BY <1>0, <1>2, SessionAssumption DEF LoginRow, Row, FreshFamilies
<1>7. /\ LoginRow(f, u).family = f /\ LoginRow(f, u).user = u
      /\ LoginRow(f, u).loginVer = version[u]
  BY DEF LoginRow
<1>8. /\ t \in Tokens \ Issued /\ \A s \in Issued : tok[s].family # f
      /\ \A q \in Reqs : \A s \in DOMAIN pend[q] : s # t /\ pend[q][s].family # f
  BY DEF FreshTokens, FreshFamilies, Pending
<1>9. /\ DOMAIN pend'[r] = {t} /\ pend'[r][t] = LoginRow(f, u) /\ NewRows(r)' = {t}
      /\ Table(pend'[r])
  BY <1>5, <1>6, <1>8 DEF NewRows, Table
<1>10. Good(r)'
  <2>1. Shape(r)' /\ Versions(r)'
    BY <1>2, <1>4, <1>5 DEF Shape, Versions, RefreshPC, FamilyPC, HoldsFamilyPC,
       HoldsUserPC, WritingPC
  <2>2. OldWrites(r)'
    BY <1>5, <1>8, <1>9 DEF OldWrites
  <2>3. NewWrites(r)'
    BY <1>4, <1>5, <1>7, <1>8, <1>9 DEF NewWrites
  <2> QED
    BY <2>1, <2>2, <2>3 DEF Good
<1>11. \A q \in Reqs \ {r} : Apart(q, r)' /\ Apart(r, q)'
  <2> SUFFICES ASSUME NEW q \in Reqs \ {r} PROVE Apart(q, r)' /\ Apart(r, q)'
    OBVIOUS
  <2>1. Apart(q, r) /\ Apart(r, q)
    BY DEF IInv
  <2>2. req[q].user = u => req[q].urow = "none"
    BY <1>0 DEF IssuePair, UserRowFree, Blocks, WantsUpdate
  <2>3. NewRows(q)' = NewRows(q) /\ NewRows(q) \subseteq DOMAIN pend[q]
    BY <1>5 DEF NewRows
  <2> QED
    BY <1>4, <1>5, <1>7, <1>8, <1>9, <2>1, <2>2, <2>3 DEF Apart
<1> QED
  BY <1>3, <1>5, <1>9, <1>10, <1>11, QuietStep

(* A rotation consumes the only live row of a family it has locked and     *)
(* adds one row to it.                                                     *)

LEMMA RotateSucceedsInv ==
    ASSUME IInv, Quiet, NEW r \in Reqs, req[r].pc = "refresh_decide", RotateSucceeds(r)
    PROVE  IInv'
<1> DEFINE t == req[r].token
           x == At(r, "commit")
           Rows(s) == [y \in RotationTouches(t) \cup {s} |->
                         IF y = s THEN SuccessorRow(t)
                         ELSE IF y = t THEN ConsumedRow(t, s) ELSE TouchedRow(y)]
<1>0. /\ req \in [Reqs -> Request] /\ req[r] \in Request /\ Good(r) /\ DOMAIN pend = Reqs
      /\ version \in [Users -> Nat] /\ now \in Nat /\ Table(tok) /\ MayRotate(r)
  BY DEF IInv, TypeOK, RotateSucceeds
<1>1. PICK s \in FreshTokens : Write(r, x, Rows(s))
  BY DEF RotateSucceeds
<1>2. x \in Request
  BY <1>0 DEF At, Request, PC
<1>3. /\ x.pc = "commit" /\ x.user = req[r].user /\ x.held = req[r].held
      /\ x.urow = req[r].urow /\ x.bump = req[r].bump
  BY <1>0 DEF At, Request
<1>4. /\ t \in Issued /\ req[r].user = tok[t].user /\ req[r].user \in Users
      /\ tok[t].family \in req[r].held /\ req[r].urow = "update" /\ ~req[r].bump
  BY <1>0 DEF Good, Shape, RefreshPC, HoldsFamilyPC, HoldsUserPC
<1>5. ~tok[t].revoked /\ ~tok[t].consumed /\ Unexpired(t)
  BY <1>0 DEF MayRotate
<1>6. \A y \in Issued : tok[y] \in Row /\ y \in Tokens
  BY <1>0 DEF Table, Issued
<1>7. /\ s \in Tokens \ Issued /\ \A q \in Reqs : s \notin DOMAIN pend[q]
  BY DEF FreshTokens, Pending
<1>8. /\ RotationTouches(t) \subseteq Issued /\ t \in RotationTouches(t)
      /\ \A y \in RotationTouches(t) : tok[y].family = tok[t].family /\ ~tok[y].revoked
  BY <1>4, <1>5 DEF RotationTouches, Unrevoked, RowsOf
<1> HIDE DEF x, t
<1>9. /\ req' = [req EXCEPT ![r] = x] /\ req'[r] = x
      /\ \A q \in Reqs \ {r} : req'[q] = req[q] /\ pend'[q] = pend[q]
      /\ DOMAIN pend' = Reqs /\ pend'[r] = Rows(s)
      /\ tok' = tok /\ version' = version /\ Issued' = Issued
  BY <1>0, <1>1 DEF Write, Quiet, table, Issued
<1>10. /\ Rows(s)[s] = SuccessorRow(t)
       /\ Rows(s)[t] = ConsumedRow(t, s)
       /\ \A y \in RotationTouches(t) \ {t} : Rows(s)[y] = TouchedRow(y)
       /\ DOMAIN Rows(s) = RotationTouches(t) \cup {s}
  BY <1>4, <1>7, <1>8
<1>11. /\ SuccessorRow(t) \in Row /\ SuccessorRow(t).family = tok[t].family
       /\ SuccessorRow(t).user = tok[t].user /\ SuccessorRow(t).loginVer = tok[t].loginVer
  BY <1>0, <1>4, <1>6 DEF SuccessorRow, Row
<1>12. /\ ConsumedRow(t, s) \in Row /\ ConsumedRow(t, s).consumed
       /\ ConsumedRow(t, s).family = tok[t].family /\ ConsumedRow(t, s).user = tok[t].user
       /\ ConsumedRow(t, s).loginVer = tok[t].loginVer
  BY <1>0, <1>4, <1>6, <1>7 DEF ConsumedRow, Row
<1>13. \A y \in Issued :
         /\ TouchedRow(y) \in Row /\ TouchedRow(y).family = tok[y].family
         /\ TouchedRow(y).user = tok[y].user /\ TouchedRow(y).loginVer = tok[y].loginVer
         /\ TouchedRow(y).consumed = tok[y].consumed
  BY <1>0, <1>6 DEF TouchedRow, Row
<1>14. NewRows(r)' = {s} /\ DOMAIN pend'[r] \cap Issued' = RotationTouches(t)
  BY <1>7, <1>8, <1>9, <1>10 DEF NewRows
<1>15. Table(pend'[r])
  <2>1. \A y \in DOMAIN Rows(s) : Rows(s)[y] \in Row /\ y \in Tokens
    BY <1>6, <1>7, <1>8, <1>10, <1>11, <1>12, <1>13
  <2>2. Rows(s) \in [DOMAIN Rows(s) -> Row]
    BY <2>1
  <2> QED
    BY <1>9, <2>1, <2>2 DEF Table
<1>16. Good(r)'
  <2>1. Shape(r)' /\ Versions(r)'
    BY <1>3, <1>4, <1>9 DEF Shape, Versions, RefreshPC, FamilyPC, HoldsFamilyPC,
       HoldsUserPC, WritingPC
  <2>2. OldWrites(r)'
    BY <1>3, <1>4, <1>5, <1>8, <1>9, <1>10, <1>12, <1>13, <1>14 DEF OldWrites
  <2>3. NewWrites(r)'
    <3>1. tok[t].loginVer = version[tok[t].user]
      BY <1>4, <1>5 DEF IInv, LogoutAllIsTotal
    <3>2. \A y \in Issued : tok[y].family = tok[t].family /\ y # t
            => tok[y].consumed \/ tok[y].revoked
      BY <1>4, <1>5 DEF IInv, SoleLiveToken
    <3>3. t \in Live(tok[t].family)
      BY <1>4, <1>5 DEF Live, Unrevoked, RowsOf
    <3>4. \A f : Live(f)' = Live(f)
      BY <1>9 DEF Live, Unrevoked, RowsOf
    <3>5. t \in DOMAIN pend'[r] /\ pend'[r][t].consumed
      BY <1>8, <1>9, <1>10, <1>12
    <3>6. pend'[r][s] = SuccessorRow(t)
      BY <1>9, <1>10
    <3> QED
      BY <1>3, <1>4, <1>9, <1>11, <1>14, <3>1, <3>2, <3>3, <3>4, <3>5, <3>6 DEF NewWrites
  <2> QED
    BY <2>1, <2>2, <2>3 DEF Good
<1>17. \A q \in Reqs \ {r} : Apart(q, r)' /\ Apart(r, q)'
  <2> SUFFICES ASSUME NEW q \in Reqs \ {r} PROVE Apart(q, r)' /\ Apart(r, q)'
    OBVIOUS
  <2>1. Apart(q, r) /\ Apart(r, q) /\ Good(q)
    BY DEF IInv
  <2>2. NewRows(q)' = NewRows(q) /\ NewRows(q) \subseteq DOMAIN pend[q]
    BY <1>9 DEF NewRows
  <2>3. \A y \in NewRows(q) : pend[q][y].family # tok[t].family
    BY <1>4, <2>1 DEF Good, NewWrites, Apart
  <2>4. pend'[r][s].family = tok[t].family
    BY <1>9, <1>10, <1>11
  <2> QED
    BY <1>3, <1>7, <1>9, <1>14, <2>1, <2>2, <2>3, <2>4 DEF Apart
<1> QED
  BY <1>2, <1>9, <1>15, <1>16, <1>17, QuietStep

LEMMA RefreshDecideInv ==
    ASSUME IInv, Quiet, NEW r \in Reqs, RefreshDecide(r)
    PROVE  IInv'
  BY FinishInv, RotateRevokesInv, RotateSucceedsInv DEF RefreshDecide, RotateRevoked

-----------------------------------------------------------------------------
(* Authentication stamps the rows of a family it has locked and commits.   *)

LEMMA TouchActiveInv ==
    ASSUME IInv, NEW r \in Reqs, TouchActive(r)
    PROVE  IInv'
<1> DEFINE F == Fresh(req[r].family)
           x == [req[r] EXCEPT !.held = {}, !.pc = "auth_user"]
<1>0. /\ req \in [Reqs -> Request] /\ req[r] \in Request /\ Good(r) /\ Table(tok)
      /\ now \in Nat /\ DOMAIN pend = Reqs /\ req[r].pc = "auth_touch"
      /\ tok' = Overlay(Touch(F)) /\ Move(r, x)
      /\ version' = version /\ jwts' = jwts /\ active' = active
      /\ compliant' = compliant /\ now' = now
  BY DEF IInv, TypeOK, TouchActive
<1>1. x \in Request
  BY <1>0 DEF Request, PC
<1>2. /\ x.pc = "auth_user" /\ x.user = req[r].user /\ x.family = req[r].family
      /\ x.held = {} /\ x.urow = req[r].urow /\ x.bump = req[r].bump
  BY <1>0 DEF Request
<1> HIDE DEF x
<1>3. /\ req' = [req EXCEPT ![r] = x] /\ req'[r] = x /\ pend' = pend
      /\ \A q \in Reqs \ {r} : req'[q] = req[q]
      /\ DOMAIN pend[r] = {}
  BY <1>0 DEF Move, Good, Shape, WritingPC
<1>4. \A t \in Issued : tok[t] \in Row /\ t \in Tokens
  BY <1>0 DEF Table, Issued
<1>5. F \subseteq Issued
  BY DEF Fresh, Unrevoked, RowsOf
<1>6. /\ Issued' = Issued
      /\ \A t \in Issued : tok'[t] = IF t \in F THEN TouchedRow(t) ELSE tok[t]
  BY <1>0, <1>5 DEF Overlay, Touch, Issued
<1>7. \A t \in Issued :
        /\ tok'[t] \in Row /\ tok'[t].family = tok[t].family /\ tok'[t].user = tok[t].user
        /\ tok'[t].consumed = tok[t].consumed /\ tok'[t].revoked = tok[t].revoked
        /\ tok'[t].loginVer = tok[t].loginVer
  <2>1. \A row \in Row : LET new == [row EXCEPT !.activity = now] IN
           /\ new \in Row /\ new.family = row.family /\ new.user = row.user
           /\ new.consumed = row.consumed /\ new.revoked = row.revoked
           /\ new.loginVer = row.loginVer
    BY <1>0 DEF Row
  <2> SUFFICES ASSUME NEW t \in Issued, tok'[t] # tok[t]
               PROVE  /\ tok'[t] \in Row /\ tok'[t].family = tok[t].family /\ tok'[t].user = tok[t].user
                      /\ tok'[t].consumed = tok[t].consumed /\ tok'[t].revoked = tok[t].revoked
                      /\ tok'[t].loginVer = tok[t].loginVer
    BY <1>4
  <2>2. tok[t] \in Row /\ tok'[t] = [tok[t] EXCEPT !.activity = now]
    BY <1>4, <1>6 DEF TouchedRow
  <2> QED
    BY <2>1, <2>2
<1>8. TypeOK'
  <2>1. DOMAIN tok' = Issued /\ tok' \in [Issued -> Row]
    BY <1>0, <1>5, <1>6, <1>7 DEF Overlay, Touch, Issued
  <2>2. Table(tok)'
    BY <1>4, <2>1 DEF Table
  <2>3. \A q \in Reqs : Table(pend[q])'
    BY <1>3 DEF IInv, TypeOK, Table
  <2> QED
    BY <1>0, <1>1, <1>3, <2>2, <2>3 DEF IInv, TypeOK
<1>9. SoleLiveToken' /\ LogoutAllIsTotal'
  BY <1>0, <1>6, <1>7 DEF IInv, SoleLiveToken, LogoutAllIsTotal
<1>10. \A f : Live(f)' = Live(f)
  BY <1>6, <1>7 DEF Live, Unrevoked, RowsOf
<1>11. Good(r)'
  <2>1. Shape(r)'
    BY <1>0, <1>2, <1>3 DEF Good, Shape, RefreshPC, FamilyPC, HoldsFamilyPC, HoldsUserPC
  <2> QED
    BY <1>0, <1>2, <1>3, <2>1 DEF Good, Shape, Versions, OldWrites, NewWrites, NewRows
<1>12. \A q \in Reqs \ {r} : Good(q)'
  <2> SUFFICES ASSUME NEW q \in Reqs \ {r} PROVE Good(q)'
    OBVIOUS
  <2>0. Good(q) /\ req'[q] = req[q] /\ pend'[q] = pend[q]
    BY <1>3 DEF IInv
  <2>1. Shape(q)'
    BY <1>6, <1>7, <2>0 DEF Good, Shape
  <2>2. Versions(q)'
    BY <1>0, <1>6, <1>7, <2>0 DEF Good, Versions, NewRows
  <2>3. OldWrites(q)'
    BY <1>6, <1>7, <2>0 DEF Good, OldWrites
  <2>4. NewWrites(q)'
    BY <1>0, <1>6, <1>7, <1>10, <2>0 DEF Good, NewWrites, NewRows
  <2> QED
    BY <2>1, <2>2, <2>3, <2>4 DEF Good
<1>13. \A p, q \in Reqs : p # q => Apart(p, q)'
  <2> SUFFICES ASSUME NEW p \in Reqs, NEW q \in Reqs, p # q PROVE Apart(p, q)'
    OBVIOUS
  <2>1. Apart(p, q)
    BY DEF IInv
  <2> QED
    BY <1>2, <1>3, <1>6, <2>1 DEF Apart, NewRows
<1> QED
  BY <1>8, <1>9, <1>11, <1>12, <1>13 DEF IInv

-----------------------------------------------------------------------------
(* What committing pend[r] does to the rows, for every other lemma.        *)

LEMMA CommitRows ==
    ASSUME IInv, NEW r \in Reqs, Commit(r)
    PROVE  /\ Issued' = Issued \cup NewRows(r)
           /\ \A t \in NewRows(r) : tok'[t] = pend[r][t]
           /\ \A t \in Issued :
                /\ tok'[t] = IF t \in DOMAIN pend[r] THEN pend[r][t] ELSE tok[t]
                /\ tok'[t].family = tok[t].family /\ tok'[t].user = tok[t].user
                /\ tok'[t].loginVer = tok[t].loginVer
                /\ tok[t].consumed => tok'[t].consumed
                /\ tok[t].revoked => tok'[t].revoked
<1>1. tok' = Overlay(pend[r]) /\ OldWrites(r)
  BY DEF Commit, IInv, Good
<1>2. Issued' = Issued \cup NewRows(r)
  BY <1>1 DEF Overlay, Issued, NewRows
<1>3. \A t \in NewRows(r) : tok'[t] = pend[r][t]
  BY <1>1 DEF Overlay, NewRows
<1>4. \A t \in Issued : tok'[t] = IF t \in DOMAIN pend[r] THEN pend[r][t] ELSE tok[t]
  BY <1>1 DEF Overlay
<1> QED
  BY <1>1, <1>2, <1>3, <1>4 DEF OldWrites

LEMMA CommitInv ==
    ASSUME IInv, NEW r \in Reqs, Commit(r)
    PROVE  IInv'
<1>0. /\ req \in [Reqs -> Request] /\ req[r] \in Request /\ Good(r) /\ Table(tok)
      /\ DOMAIN pend = Reqs /\ Table(pend[r]) /\ version \in [Users -> Nat]
      /\ req[r].pc = "commit" /\ req[r].user \in Users
      /\ active' = active /\ compliant' = compliant /\ now' = now /\ Finish(r)
  BY DEF IInv, TypeOK, Commit, Good, Shape
<1>1. /\ Issued' = Issued \cup NewRows(r)
      /\ \A t \in NewRows(r) : tok'[t] = pend[r][t]
      /\ \A t \in Issued :
           /\ tok'[t] = IF t \in DOMAIN pend[r] THEN pend[r][t] ELSE tok[t]
           /\ tok'[t].family = tok[t].family /\ tok'[t].user = tok[t].user
           /\ tok'[t].loginVer = tok[t].loginVer
           /\ tok[t].consumed => tok'[t].consumed
           /\ tok[t].revoked => tok'[t].revoked
  BY CommitRows
<1>2. /\ req' = [req EXCEPT ![r] = NoReq] /\ req'[r] = NoReq
      /\ pend' = [pend EXCEPT ![r] = NoRows] /\ pend'[r] = NoRows
      /\ \A q \in Reqs \ {r} : req'[q] = req[q] /\ pend'[q] = pend[q]
  BY <1>0 DEF Finish, Write
<1>3. /\ version' \in [Users -> Nat]
      /\ \A u \in Users : version'[u] # version[u] => req[r].bump /\ u = req[r].user
  BY <1>0 DEF Commit
<1>4. NewRows(r) # {} => ~req[r].bump
  BY <1>0 DEF Good, Versions
<1>5. TypeOK'
  <2>1. Table(tok)'
    <3>1. \A t \in DOMAIN tok : tok[t] \in Row /\ t \in Tokens
      BY <1>0 DEF Table
    <3>2. \A t \in DOMAIN pend[r] : pend[r][t] \in Row /\ t \in Tokens
      BY <1>0 DEF Table
    <3>3. /\ tok' = [t \in DOMAIN tok \cup DOMAIN pend[r] |->
                       IF t \in DOMAIN pend[r] THEN pend[r][t] ELSE tok[t]]
      BY DEF Commit, Overlay, Issued
    <3>4. tok' \in [DOMAIN tok \cup DOMAIN pend[r] -> Row]
      BY <3>1, <3>2, <3>3
    <3> QED
      BY <3>1, <3>2, <3>3, <3>4 DEF Table
  <2>2. jwts' \subseteq Jwt
    <3>1. \A t \in NewRows(r) : pend[r][t].family \in Families
      BY <1>0 DEF NewRows, Table, Row
    <3>2. req[r].ver \in Nat
      BY <1>0 DEF Request
    <3> QED
      BY <1>0, <3>1, <3>2 DEF Commit, IInv, TypeOK, Jwt
  <2>3. req' \in [Reqs -> Request]
    <3>1. NoReq \in Request
      BY DEF NoReq, Request, PC, Op
    <3> QED
      BY <1>0, <1>2, <3>1
  <2>4. DOMAIN pend' = Reqs /\ \A q \in Reqs : Table(pend[q])'
    <3>1. Table(NoRows)
      BY DEF Table, NoRows
    <3> QED
      BY <1>0, <1>2, <3>1 DEF IInv, TypeOK, Table
  <2> QED
    BY <1>0, <1>3, <2>1, <2>2, <2>3, <2>4 DEF IInv, TypeOK
<1>6. SoleLiveToken'
  <2> SUFFICES ASSUME NEW s \in Issued', NEW t \in Issued',
                      tok'[s].family = tok'[t].family,
                      ~tok'[s].consumed, ~tok'[s].revoked, ~tok'[t].consumed, ~tok'[t].revoked
               PROVE  s = t
    BY DEF SoleLiveToken
  <2>1. CASE s \in Issued /\ t \in Issued
    BY <1>1, <2>1 DEF IInv, SoleLiveToken
  <2>2. CASE s \in NewRows(r) /\ t \in NewRows(r)
    BY <1>0, <2>2 DEF Good, NewWrites
  <2>3. \A a \in NewRows(r), b \in Issued :
          tok'[a].family = tok'[b].family => tok'[b].consumed \/ tok'[b].revoked
    BY <1>0, <1>1 DEF Good, NewWrites
  <2> QED
    BY <1>1, <2>1, <2>2, <2>3
<1>7. LogoutAllIsTotal'
  <2> SUFFICES ASSUME NEW t \in Issued', ~tok'[t].revoked
               PROVE  tok'[t].loginVer = version'[tok'[t].user]
    BY DEF LogoutAllIsTotal
  <2>1. CASE t \in Issued
    <3>1. tok[t].loginVer = version[tok[t].user] /\ tok[t].user \in Users /\ ~tok[t].revoked
      BY <1>0, <1>1, <2>1 DEF IInv, LogoutAllIsTotal, Table, Row, Issued
    <3>2. ~(req[r].bump /\ tok[t].user = req[r].user)
      BY <1>0, <1>1, <2>1, <3>1 DEF Good, Versions
    <3> QED
      BY <1>1, <1>3, <2>1, <3>1, <3>2
  <2>2. CASE t \in NewRows(r)
    BY <1>0, <1>1, <1>3, <1>4, <2>2 DEF Good, NewWrites
  <2> QED
    BY <1>1, <2>1, <2>2
<1>8. Good(r)'
  BY <1>2 DEF Good, Shape, Versions, OldWrites, NewWrites, NewRows, NoReq, NoRows,
     RefreshPC, FamilyPC, HoldsFamilyPC, HoldsUserPC, WritingPC
<1>9. \A q \in Reqs \ {r} : Good(q)'
  <2> SUFFICES ASSUME NEW q \in Reqs \ {r} PROVE Good(q)'
    OBVIOUS
  <2>1. Good(q) /\ Apart(q, r) /\ Apart(r, q) /\ req'[q] = req[q] /\ pend'[q] = pend[q]
    BY <1>2 DEF IInv
  <2>2. req[q].urow = "update" =>
          /\ ~(req[q].user = req[r].user /\ (req[r].bump \/ NewRows(r) # {}))
    BY <1>0, <2>1 DEF Apart, Good, Versions, NewWrites
  <2>3. req[q].user \in Users /\ req[q].urow = "update" => version'[req[q].user] = version[req[q].user]
    BY <1>3, <2>2
  <2>4. NewRows(q) \cap NewRows(r) = {} /\ NewRows(q)' = NewRows(q)
    BY <1>1, <2>1 DEF Apart, NewRows
  <2>5. \A t \in Issued : tok[t].family \in req[q].held => tok'[t] = tok[t]
    BY <1>0, <1>1, <2>1 DEF Good, OldWrites, Apart
  <2>6. Shape(q)'
    BY <1>1, <2>1 DEF Good, Shape
  <2>7. Versions(q)'
    <3>1. req[q].pc \in {"refresh_family", "refresh_decide"} => req[q].ver = version'[req[q].user]
      BY <2>1, <2>3 DEF Good, Shape, Versions, HoldsUserPC
    <3>2. \A t \in Issued' : req[q].urow = "update" /\ tok'[t].user = req[q].user /\ ~tok'[t].revoked
            => t \in Issued /\ tok[t].user = req[q].user /\ ~tok[t].revoked
      BY <1>0, <1>1, <2>2 DEF Good, NewWrites
    <3>3. req[q].pc = "all_families" => \A t \in Issued' :
            tok'[t].user = req[q].user /\ ~tok'[t].revoked => tok'[t].family \in req[q].fams
      BY <1>1, <2>1, <3>2 DEF Good, Shape, Versions, HoldsUserPC
    <3>4. req[q].bump =>
            /\ req[q].urow = "update" /\ NewRows(q) = {}
            /\ \A t \in Issued' : tok'[t].user = req[q].user /\ ~tok'[t].revoked
                 => t \in DOMAIN pend[q] /\ pend[q][t].revoked
      BY <2>1, <3>2 DEF Good, Versions
    <3> QED
      BY <2>1, <2>4, <3>1, <3>3, <3>4 DEF Versions
  <2>8. OldWrites(q)'
    <3>1. DOMAIN pend[q] \cap Issued' = DOMAIN pend[q] \cap Issued
      BY <1>1, <2>4 DEF NewRows
    <3> QED
      BY <2>1, <2>5, <3>1 DEF Good, OldWrites
  <2>9. NewWrites(q)'
    <3> SUFFICES ASSUME NEW t \in NewRows(q)
                 PROVE  LET new == pend[q][t] IN
                   /\ req[q].pc = "commit" /\ req[q].urow = "update"
                   /\ new.user = req[q].user /\ new.loginVer = version'[req[q].user]
                   /\ \A s \in NewRows(q) : s = t
                   /\ \A s \in Issued' : tok'[s].family = new.family =>
                        /\ new.family \in req[q].held
                        /\ \/ tok'[s].consumed \/ tok'[s].revoked
                           \/ s \in DOMAIN pend[q] /\ (pend[q][s].consumed \/ pend[q][s].revoked)
                        /\ Live(new.family)' # {}
      BY <2>1, <2>4 DEF NewWrites
    <3>1. NewWrites(q) /\ req[q].user \in Users
      BY <2>1 DEF Good, Shape, NewWrites
    <3>2. \A s \in Issued' : tok'[s].family = pend[q][t].family => s \in Issued
      BY <1>1, <2>1 DEF Apart
    <3>3. ASSUME NEW g \in req[q].held, Live(g) # {} PROVE Live(g)' # {}
      <4>1. PICK l \in Issued : tok[l].family = g /\ ~tok[l].revoked /\ ~tok[l].consumed
        BY <3>3 DEF Live, Unrevoked, RowsOf
      <4>2. tok'[l] = tok[l] /\ l \in Issued'
        BY <1>1, <2>5, <4>1
      <4>3. l \in Live(g)'
        BY <4>1, <4>2 DEF Live, Unrevoked, RowsOf
      <4> QED
        BY <4>3
    <3> DEFINE f == pend[q][t].family
    <3>4. \A s \in Issued : tok[s].family = f => f \in req[q].held /\ Live(f)' # {}
      BY <2>1, <3>1, <3>3 DEF NewWrites
    <3>5. \A s \in Issued : tok[s].family = f =>
            \/ tok'[s].consumed \/ tok'[s].revoked
            \/ s \in DOMAIN pend[q] /\ (pend[q][s].consumed \/ pend[q][s].revoked)
      BY <1>1, <3>1 DEF NewWrites
    <3>6. /\ req[q].pc = "commit" /\ req[q].urow = "update"
          /\ pend[q][t].user = req[q].user /\ pend[q][t].loginVer = version'[req[q].user]
          /\ \A s \in NewRows(q) : s = t
      BY <2>3, <3>1 DEF NewWrites
    <3> QED
      BY <1>1, <3>2, <3>4, <3>5, <3>6
  <2> QED
    BY <2>6, <2>7, <2>8, <2>9 DEF Good
<1>10. \A p, q \in Reqs : p # q => Apart(p, q)'
  <2> SUFFICES ASSUME NEW p \in Reqs, NEW q \in Reqs, p # q PROVE Apart(p, q)'
    OBVIOUS
  <2>1. Apart(p, q)
    BY DEF IInv
  <2>2. NewRows(r)' = {} /\ \A a \in Reqs \ {r} : NewRows(a)' \subseteq NewRows(a)
    BY <1>1, <1>2 DEF NewRows, NoRows
  <2>3. CASE p = r \/ q = r
    BY <1>2, <2>2, <2>3 DEF Apart, NoReq
  <2>4. CASE p # r /\ q # r
    BY <1>2, <2>1, <2>2, <2>4 DEF Apart
  <2> QED
    BY <2>3, <2>4
<1> QED
  BY <1>5, <1>6, <1>7, <1>8, <1>9, <1>10 DEF IInv

(* Administration and time concern none of the conjuncts but TypeOK's.     *)

LEMMA ElsewhereInv ==
    ASSUME IInv, UNCHANGED <<tok, version, jwts, req, pend>>,
           active' \in [Users -> BOOLEAN], compliant' \in [Users -> BOOLEAN], now' \in Nat
    PROVE  IInv'
<1>1. TypeOK'
  BY DEF IInv, TypeOK, Table
<1>2. SoleLiveToken' /\ LogoutAllIsTotal'
  BY DEF IInv, SoleLiveToken, LogoutAllIsTotal, Issued
<1>3. \A f : Live(f)' = Live(f)
  BY DEF Live, Unrevoked, RowsOf, Issued
<1>4. \A r \in Reqs : Good(r)'
  BY <1>3 DEF IInv, Good, Shape, Versions, OldWrites, NewWrites, NewRows, Issued
<1>5. \A q, r \in Reqs : q # r => Apart(q, r)'
  BY DEF IInv, Apart, NewRows, Issued
<1> QED
  BY <1>1, <1>2, <1>4, <1>5 DEF IInv

-----------------------------------------------------------------------------
LEMMA InitInv == Init => IInv
<1> SUFFICES ASSUME Init PROVE IInv
  OBVIOUS
<1>1. /\ tok = NoRows /\ Issued = {} /\ DOMAIN NoRows = {} /\ version \in [Users -> Nat]
      /\ active \in [Users -> BOOLEAN] /\ compliant \in [Users -> BOOLEAN]
      /\ jwts = {} /\ now = 0 /\ DOMAIN pend = Reqs
      /\ \A r \in Reqs : req[r] = NoReq /\ pend[r] = NoRows
  BY DEF Init, Issued, NoRows
<1>2. TypeOK
  <2>1. NoReq \in Request
    BY DEF NoReq, Request, PC, Op
  <2>2. req \in [Reqs -> Request]
    BY <2>1 DEF Init
  <2>3. Table(NoRows)
    BY DEF Table, NoRows
  <2> QED
    BY <1>1, <2>2, <2>3 DEF TypeOK
<1>3. SoleLiveToken /\ LogoutAllIsTotal
  BY <1>1 DEF SoleLiveToken, LogoutAllIsTotal
<1>4. \A r \in Reqs : Good(r)
  BY <1>1 DEF Good, Shape, Versions, OldWrites, NewWrites, NewRows, NoReq,
     RefreshPC, FamilyPC, HoldsFamilyPC, HoldsUserPC, WritingPC
<1>5. \A q, r \in Reqs : q # r => Apart(q, r)
  BY <1>1 DEF Apart, NewRows, NoReq
<1> QED
  BY <1>2, <1>3, <1>4, <1>5 DEF IInv

LEMMA StepInv ==
    ASSUME IInv, NEW r \in Reqs, Step(r)
    PROVE  IInv'
<1>1. Quiet
  BY DEF Step, Quiet
<1>2. CASE LoginAudit(r) \/ IssuePair(r) \/ IssueRefused(r)
  BY <1>1, <1>2, LoginAuditInv, IssuePairInv, FinishInv DEF IssueRefused
<1>3. CASE RefreshLockUser(r) \/ RefreshLockFamily(r) \/ RefreshDecide(r)
  BY <1>1, <1>3, RefreshLockUserInv, RefreshLockFamilyInv, RefreshDecideInv
<1>4. CASE AuthLockFamily(r) \/ TouchIdle(r) \/ TouchRejects(r) \/ IdleAudit(r) \/ AuthLoadUser(r)
  BY <1>1, <1>4, AuthLockFamilyInv, TouchIdleInv, FinishInv, IdleAuditInv, AuthLoadUserInv
     DEF TouchRejects
<1>5. CASE LogoutLockFamily(r) \/ LogoutRevoke(r) \/ LogoutAudit(r)
  BY <1>1, <1>5, LogoutLockFamilyInv, LogoutRevokeInv, LogoutAuditInv
<1>6. CASE LogoutAllLockUser(r) \/ LogoutAllScan(r) \/ LogoutAllRevoke(r)
  BY <1>1, <1>6, LogoutAllLockUserInv, LogoutAllScanInv, LogoutAllRevokeInv
<1>7. CASE \E f \in Families : LogoutAllLockFamily(r, f)
  BY <1>1, <1>7, LogoutAllLockFamilyInv
<1> QED
  BY <1>2, <1>3, <1>4, <1>5, <1>6, <1>7 DEF Step

LEMMA NextInv == IInv /\ [Next]_vars => IInv'
<1> SUFFICES ASSUME IInv, [Next]_vars PROVE IInv'
  OBVIOUS
<1>0. /\ active \in [Users -> BOOLEAN] /\ compliant \in [Users -> BOOLEAN] /\ now \in Nat
  BY DEF IInv, TypeOK
<1>1. ASSUME NEW r \in Reqs, Start(r) PROVE IInv'
  <2>1. Quiet
    BY <1>1 DEF Start, Quiet
  <2> QED
    BY <1>1, <2>1, LoginStartInv, RefreshStartInv, AuthStartInv DEF Start
<1>2. ASSUME NEW r \in Reqs, Proceed(r) PROVE IInv'
  BY <1>2, StepInv, TouchActiveInv, CommitInv DEF Proceed
<1>3. ASSUME NEW r \in Reqs, Abort(r) PROVE IInv'
  BY <1>3, FinishInv DEF Abort, Quiet
<1>4. CASE Admin
  <2>1. PICK u \in Users : SetActive(u) \/ SetCompliant(u)
    BY <1>4 DEF Admin
  <2>2. /\ UNCHANGED <<tok, version, jwts, req, pend>> /\ now' \in Nat
        /\ active' \in [Users -> BOOLEAN] /\ compliant' \in [Users -> BOOLEAN]
    BY <1>0, <2>1 DEF SetActive, SetCompliant, table
  <2> QED
    BY <2>2, ElsewhereInv
<1>5. CASE Tick
  <2>1. /\ UNCHANGED <<tok, version, jwts, req, pend>> /\ now' \in Nat
        /\ active' \in [Users -> BOOLEAN] /\ compliant' \in [Users -> BOOLEAN]
    BY <1>0, <1>5 DEF Tick, table
  <2> QED
    BY <2>1, ElsewhereInv
<1>6. CASE UNCHANGED vars
  BY <1>0, <1>6, ElsewhereInv DEF vars
<1> QED
  BY <1>1, <1>2, <1>3, <1>4, <1>5, <1>6 DEF Next

\* The invariant all the theorems below rest on.
THEOREM InductiveInvariant == Spec => []IInv
  BY InitInv, NextInv, PTL DEF Spec

\* The tables and the requests in flight always have their declared shape.
THEOREM TypeCorrect == Spec => []TypeOK
<1>1. IInv => TypeOK
  BY DEF IInv
<1> QED
  BY <1>1, InductiveInvariant, PTL

\* rotate_refresh_token issues the sole successor of a token, for any number
\* of users, sessions, tokens and concurrent requests: a family never has
\* two rows that can still be refreshed.
THEOREM OneLiveTokenPerSession == Spec => []SoleLiveToken
<1>1. IInv => SoleLiveToken
  BY DEF IInv
<1> QED
  BY <1>1, InductiveInvariant, PTL

\* revoke_all_user_sessions is total: a row that survives it belongs to a
\* login at the version it left behind, whatever ran beside it.
THEOREM LogoutAllLeavesNothing == Spec => []LogoutAllIsTotal
<1>1. IInv => LogoutAllIsTotal
  BY DEF IInv
<1> QED
  BY <1>1, InductiveInvariant, PTL

\* A session that no row can refresh any more is never revived, neither by a
\* rotation that was in flight when it was revoked nor by any other step.
THEOREM RevokedSessionsStayClosed == Spec => ClosedForGood
<1> DEFINE Closed == \A f \in Families : RowsOf(f) # {} /\ Live(f) = {} => Live(f)' = {}
<1>1. ASSUME IInv, [Next]_vars PROVE [Closed]_vars
  <2>1. CASE \E r \in Reqs : Commit(r)
    <3> SUFFICES ASSUME NEW f \in Families, RowsOf(f) # {}, Live(f) = {} PROVE Live(f)' = {}
      OBVIOUS
    <3>1. PICK r \in Reqs : Commit(r)
      BY <2>1
    <3>2. \A t \in NewRows(r) : pend[r][t].family # f
      BY <1>1 DEF IInv, Good, NewWrites, RowsOf
    <3> QED
      BY <1>1, <3>1, <3>2, CommitRows DEF Live, Unrevoked, RowsOf
  <2>2. CASE \E r \in Reqs : TouchActive(r)
    <3>1. PICK r \in Reqs : TouchActive(r)
      BY <2>2
    <3>2. tok' = Overlay(Touch(Fresh(req[r].family))) /\ Fresh(req[r].family) \subseteq Issued
      BY <3>1 DEF TouchActive, Fresh, Unrevoked, RowsOf
    <3>3. \A t \in Issued : tok[t] \in Row
      BY <1>1 DEF IInv, TypeOK, Table, Issued
    <3>4. Issued' = Issued /\ \A t \in Issued : tok'[t] = tok[t] \/ tok'[t] = TouchedRow(t)
      BY <3>2 DEF Overlay, Touch, Issued
    <3>5. \A t \in Issued :
            /\ tok'[t].family = tok[t].family /\ tok'[t].consumed = tok[t].consumed
            /\ tok'[t].revoked = tok[t].revoked
      BY <3>3, <3>4 DEF TouchedRow, Row
    <3> QED
      BY <3>4, <3>5 DEF Live, Unrevoked, RowsOf
  <2>3. CASE tok' = tok
    BY <2>3 DEF Live, Unrevoked, RowsOf, Issued
  <2>4. \/ \E r \in Reqs : Commit(r) \/ TouchActive(r)
        \/ tok' = tok
    BY <1>1 DEF Next, Start, Proceed, Step, Abort, Admin, SetActive, SetCompliant, Tick,
       vars, table
  <2> QED
    BY <2>1, <2>2, <2>3, <2>4
<1> QED
  BY <1>1, InductiveInvariant, PTL DEF Spec, ClosedForGood
=============================================================================
