-------------------------- MODULE RefreshSessions --------------------------
(***************************************************************************)
(* Login sessions kept in the table auth_refresh_tokens                    *)
(* (services/auth_refresh_tokens.py, core/deps.py, endpoints/auth.py).     *)
(*                                                                         *)
(* Every endpoint call is a request r that runs one database transaction   *)
(* at READ COMMITTED, possibly on another worker than its competitors.     *)
(* req[r] holds its progress: the step it is at (pc), the locks it holds   *)
(* (urow on its user's row, held on token families); pend[r] holds the     *)
(* rows it wrote but has not committed. Statements read committed rows; a  *)
(* lock is kept until the transaction commits or rolls back.               *)
(*                                                                         *)
(* Row locks on token rows are not modelled: every writer of an existing   *)
(* row holds the advisory lock of its family. The expiry inside an access  *)
(* JWT, cookies and the JWT blocklist are left out, so a client here may   *)
(* present any JWT and any refresh token it was ever given, in any order   *)
(* and any number of times. A unit of the clock is long: the statements    *)
(* that one decision is made of see one value of it.                       *)
(*                                                                         *)
(* A definition whose name ends in _Something is the definition it stands  *)
(* before with one slip in it; the runs show that the properties notice.   *)
(***************************************************************************)
EXTENDS Integers, FiniteSets

CONSTANTS
    Users, Families, Tokens, Reqs, None,
    Lifetime,    \* REFRESH_TOKEN_EXPIRE_DAYS, in clock units
    IdleLimit,   \* SESSION_INACTIVITY_TIMEOUT_MINUTES, in clock units
    MaxTime,     \* bound of the exploration: last value of the clock
    MaxVersion   \* bound of the exploration: logout-all calls per user

ASSUME SessionAssumption ==
    /\ None \notin Users \cup Families \cup Tokens
    /\ Lifetime \in Nat \ {0} /\ IdleLimit \in Nat \ {0}
    /\ MaxTime \in Nat /\ MaxVersion \in Nat

VARIABLES
    tok,        \* committed rows of auth_refresh_tokens, by token
    version,    \* users.auth_session_version
    active,     \* users.is_active
    compliant,  \* no privileged role, or an authenticator app enrolled
    jwts,       \* access JWTs handed to clients
    now,        \* clock_timestamp() of the database
    req,        \* the requests in flight
    pend        \* rows each request wrote and did not commit

table == <<tok, version, jwts>>
vars == <<tok, version, active, compliant, jwts, now, req, pend>>

-----------------------------------------------------------------------------
(* loginAt and loginVer are not columns: they record, for the properties   *)
(* only, when the family's login happened and at which session version.    *)

Row == [family : Families, user : Users, expires : Nat, activity : Nat,
        consumed : BOOLEAN, revoked : BOOLEAN, next : Tokens \cup {None},
        loginAt : Nat, loginVer : Nat]

NoRows == [t \in {} |-> None]

Jwt == [user : Users, family : Families, ver : Nat]

PC == {"idle", "login_audit", "login_user", "refresh_user", "refresh_family",
       "refresh_decide", "auth_family", "auth_touch", "idle_audit",
       "auth_user", "logout_family", "logout_revoke", "logout_audit",
       "all_user", "all_scan", "all_families", "commit"}

Op == {"none", "login", "refresh", "call", "logout", "logout_all"}

NoReq == [pc |-> "idle", op |-> "none", user |-> None, family |-> None,
          token |-> None, ver |-> 0, urow |-> "none", held |-> {},
          fams |-> {}, bump |-> FALSE]

Issued == DOMAIN tok
RowsOf(f) == {t \in Issued : tok[t].family = f}
Unrevoked(f) == {t \in RowsOf(f) : ~tok[t].revoked}
Live(f) == {t \in Unrevoked(f) : ~tok[t].consumed}

\* The table as it will be once the uncommitted rows w are committed.
Overlay(w) == [t \in Issued \cup DOMAIN w |-> IF t \in DOMAIN w THEN w[t] ELSE tok[t]]

TouchedRow(t) == [tok[t] EXCEPT !.activity = now]
Revoke(S) == [t \in S |-> [tok[t] EXCEPT !.revoked = TRUE]]
Touch(S) == [t \in S |-> TouchedRow(t)]

Unexpired(t) == tok[t].expires > now

IdleTooLong_OffByOne(t) == tok[t].activity + IdleLimit < now
IdleTooLong(t) == tok[t].activity + IdleLimit <= now

Pending == UNION {DOMAIN pend[r] : r \in Reqs}
FreshTokens == Tokens \ (Issued \cup Pending)
FreshFamilies ==
    Families \ ({tok[t].family : t \in Issued}
                \cup UNION {{pend[r][t].family : t \in DOMAIN pend[r]} : r \in Reqs})

-----------------------------------------------------------------------------
(* Locks. A foreign key check takes KEY SHARE on the user row ("share"),   *)
(* SELECT ... FOR UPDATE takes "update", which excludes both.              *)

WantsShare(r) == req[r].pc \in {"login_audit", "idle_audit", "logout_audit"}
WantsUpdate(r) == req[r].pc \in {"login_user", "refresh_user", "all_user"}
WantedFamilies(r) ==
    IF req[r].pc \in {"refresh_family", "auth_family", "logout_family"}
    THEN {req[r].family} ELSE req[r].fams \ req[r].held

Blocks(q, r) ==
    /\ q # r
    /\ \/ WantsShare(r) /\ req[q].user = req[r].user /\ req[q].urow = "update"
       \/ WantsUpdate(r) /\ req[q].user = req[r].user /\ req[q].urow # "none"
       \/ req[q].held \cap WantedFamilies(r) # {}

UserRowFree(r) == \A q \in Reqs : ~Blocks(q, r)
FamilyFree(r, f) == \A q \in Reqs \ {r} : f \notin req[q].held

At(r, pc) == [req[r] EXCEPT !.pc = pc]
Move(r, x) == req' = [req EXCEPT ![r] = x] /\ UNCHANGED pend
Write(r, x, rows) == req' = [req EXCEPT ![r] = x] /\ pend' = [pend EXCEPT ![r] = rows]
Finish(r) == Write(r, NoReq, NoRows)

LockFamily(r, pc) ==
    /\ FamilyFree(r, req[r].family)
    /\ Move(r, [req[r] EXCEPT !.held = {req[r].family}, !.pc = pc])

-----------------------------------------------------------------------------
Init ==
    /\ tok = NoRows
    /\ version = [u \in Users |-> 0]
    /\ active = [u \in Users |-> TRUE]
    /\ compliant = [u \in Users |-> TRUE]
    /\ jwts = {}
    /\ now = 0
    /\ req = [r \in Reqs |-> NoReq]
    /\ pend = [r \in Reqs |-> NoRows]

(* POST /auth/login and the 2FA endpoints, from verified credentials on:   *)
(* the audit row is flushed first, then issue_auth_token_pair locks the    *)
(* user.                                                                   *)

LoginRow(f, u) ==
    [family |-> f, user |-> u, expires |-> now + Lifetime, activity |-> now,
     consumed |-> FALSE, revoked |-> FALSE, next |-> None,
     loginAt |-> now, loginVer |-> version[u]]

LoginStart(r, u) ==
    /\ req[r] = NoReq
    /\ active[u] /\ compliant[u]
    /\ Move(r, [req[r] EXCEPT !.op = "login", !.user = u, !.pc = "login_audit"])

LoginAudit(r) ==
    /\ req[r].pc = "login_audit"
    /\ UserRowFree(r)
    /\ Move(r, [req[r] EXCEPT !.urow = "share", !.pc = "login_user"])

IssuePair(r) ==
    /\ req[r].pc = "login_user"
    /\ UserRowFree(r)
    /\ active[req[r].user]
    /\ \E f \in FreshFamilies, t \in FreshTokens :
         Write(r, [req[r] EXCEPT !.urow = "update", !.ver = version[req[r].user],
                                   !.pc = "commit"],
                  [x \in {t} |-> LoginRow(f, req[r].user)])

IssueRefused(r) ==
    /\ req[r].pc = "login_user"
    /\ UserRowFree(r)
    /\ ~active[req[r].user]
    /\ Finish(r)

-----------------------------------------------------------------------------
(* POST /auth/refresh: rotate_refresh_token.                               *)

RefreshStart_FamilyFirst(r, t) ==
    /\ req[r] = NoReq
    /\ t \in Issued /\ FamilyFree(r, tok[t].family)
    /\ Move(r, [req[r] EXCEPT !.op = "refresh", !.token = t, !.user = tok[t].user,
                              !.family = tok[t].family, !.held = {tok[t].family},
                              !.pc = "refresh_user"])

RefreshStart(r, t) ==
    /\ req[r] = NoReq
    /\ t \in Issued
    /\ Move(r, [req[r] EXCEPT !.op = "refresh", !.token = t, !.user = tok[t].user,
                              !.family = tok[t].family, !.pc = "refresh_user"])

RefreshLockUser(r) ==
    /\ req[r].pc = "refresh_user"
    /\ UserRowFree(r)
    /\ Move(r, [req[r] EXCEPT !.urow = "update", !.ver = version[req[r].user],
                              !.pc = "refresh_family"])

RefreshLockFamily(r) ==
    /\ req[r].pc = "refresh_family"
    /\ LockFamily(r, "refresh_decide")

RotateRevoked(r) ==
    /\ tok[req[r].token].revoked
    /\ Finish(r)

RotateKillsFamily_RowOnly(r) ==
    LET row == tok[req[r].token] IN
    /\ ~row.revoked
    /\ \/ ~compliant[req[r].user]
       \/ row.consumed
       \/ Unexpired(req[r].token) /\ (IdleTooLong(req[r].token) \/ ~active[req[r].user])
    /\ Write(r, At(r, "commit"), Revoke({req[r].token}))

\* privileged user without an authenticator app, replayed token, idle
\* session, deactivated user: the whole family goes
RotateKillsFamily(r) ==
    LET row == tok[req[r].token] IN
    /\ ~row.revoked
    /\ \/ ~compliant[req[r].user]
       \/ row.consumed
       \/ Unexpired(req[r].token) /\ (IdleTooLong(req[r].token) \/ ~active[req[r].user])
    /\ Write(r, At(r, "commit"), Revoke(Unrevoked(row.family)))

RotateExpired(r) ==
    LET row == tok[req[r].token] IN
    /\ ~row.revoked /\ compliant[req[r].user] /\ ~row.consumed
    /\ ~Unexpired(req[r].token)
    /\ Write(r, At(r, "commit"), Revoke({req[r].token}))

MayRotate_Replayed(r) ==
    LET t == req[r].token IN
    /\ ~tok[t].revoked /\ compliant[req[r].user]
    /\ Unexpired(t) /\ ~IdleTooLong(t) /\ active[req[r].user]

MayRotate_Revoked(r) ==
    LET t == req[r].token IN
    /\ compliant[req[r].user] /\ ~tok[t].consumed
    /\ Unexpired(t) /\ ~IdleTooLong(t) /\ active[req[r].user]

MayRotate(r) ==
    LET t == req[r].token IN
    /\ ~tok[t].revoked /\ compliant[req[r].user] /\ ~tok[t].consumed
    /\ Unexpired(t) /\ ~IdleTooLong(t) /\ active[req[r].user]

RotationTouches(t) == {x \in Unrevoked(tok[t].family) : Unexpired(x)}

ConsumedRow_Reusable(t, s) == [tok[t] EXCEPT !.activity = now, !.next = s]
ConsumedRow_Unlinked(t, s) == [tok[t] EXCEPT !.activity = now, !.consumed = TRUE]
ConsumedRow(t, s) == [tok[t] EXCEPT !.activity = now, !.consumed = TRUE, !.next = s]

SuccessorRow_NewLifetime(t) ==
    [tok[t] EXCEPT !.activity = now, !.consumed = FALSE, !.revoked = FALSE, !.next = None,
                   !.expires = now + Lifetime]
SuccessorRow(t) ==
    [tok[t] EXCEPT !.activity = now, !.consumed = FALSE, !.revoked = FALSE, !.next = None]

RotateSucceeds(r) ==
    LET t == req[r].token IN
    /\ MayRotate(r)
    /\ \E s \in FreshTokens :
         Write(r, At(r, "commit"),
               [x \in RotationTouches(t) \cup {s} |->
                  IF x = s THEN SuccessorRow(t)
                  ELSE IF x = t THEN ConsumedRow(t, s)
                  ELSE TouchedRow(x)])

RefreshDecide(r) ==
    /\ req[r].pc = "refresh_decide"
    /\ RotateRevoked(r) \/ RotateKillsFamily(r) \/ RotateExpired(r) \/ RotateSucceeds(r)

-----------------------------------------------------------------------------
(* get_current_user, in its own auth session: touch the family (and        *)
(* commit), then load the user. A request that is accepted goes on to the  *)
(* body of its endpoint.                                                   *)

AuthStart(r, op, j) ==
    /\ req[r] = NoReq
    /\ op = "logout_all" => version[j.user] < MaxVersion
    /\ Move(r, [req[r] EXCEPT !.op = op, !.user = j.user, !.family = j.family,
                              !.ver = j.ver, !.pc = "auth_family"])

AuthLockFamily_Unlocked(r) ==
    /\ req[r].pc = "auth_family"
    /\ Move(r, At(r, "auth_touch"))

AuthLockFamily(r) ==
    /\ req[r].pc = "auth_family"
    /\ LockFamily(r, "auth_touch")

Fresh_Unconsumed(f) == {t \in Unrevoked(f) : Unexpired(t) /\ ~IdleTooLong(t) /\ ~tok[t].consumed}
Fresh(f) == {t \in Unrevoked(f) : Unexpired(t) /\ ~IdleTooLong(t)}
Stale(f) == {t \in Unrevoked(f) : Unexpired(t) /\ IdleTooLong(t)}

TouchActive(r) ==
    /\ req[r].pc = "auth_touch"
    /\ Fresh(req[r].family) # {}
    /\ tok' = Overlay(Touch(Fresh(req[r].family)))
    /\ Move(r, [req[r] EXCEPT !.held = {}, !.pc = "auth_user"])
    /\ UNCHANGED <<version, jwts, active, compliant, now>>

TouchIdle(r) ==
    /\ req[r].pc = "auth_touch"
    /\ Fresh(req[r].family) = {} /\ Stale(req[r].family) # {}
    /\ Write(r, At(r, "idle_audit"), Revoke(Stale(req[r].family)))

TouchRejects(r) ==
    /\ req[r].pc = "auth_touch"
    /\ Fresh(req[r].family) = {} /\ Stale(req[r].family) = {}
    /\ Finish(r)

IdleAudit(r) ==
    /\ req[r].pc = "idle_audit"
    /\ UserRowFree(r)
    /\ Move(r, [req[r] EXCEPT !.urow = "share", !.pc = "commit"])

Accepted(r) ==
    /\ active[req[r].user]
    /\ req[r].ver = version[req[r].user]
    /\ compliant[req[r].user]

AuthLoadUser(r) ==
    /\ req[r].pc = "auth_user"
    /\ \/ Accepted(r) /\ req[r].op = "logout" /\ Move(r, At(r, "logout_family"))
       \/ Accepted(r) /\ req[r].op = "logout_all" /\ Move(r, At(r, "all_user"))
       \/ (req[r].op = "call" \/ ~Accepted(r)) /\ Finish(r)

-----------------------------------------------------------------------------
(* POST /auth/logout: revoke_refresh_family, then the audit rows, whose    *)
(* foreign key locks the user row while the family lock is held.           *)

LogoutLockFamily(r) ==
    /\ req[r].pc = "logout_family"
    /\ LockFamily(r, "logout_revoke")

LogoutRevoke(r) ==
    /\ req[r].pc = "logout_revoke"
    /\ Write(r, At(r, "logout_audit"),
             Revoke({t \in Unrevoked(req[r].family) : tok[t].user = req[r].user}))

LogoutAudit(r) ==
    /\ req[r].pc = "logout_audit"
    /\ UserRowFree(r)
    /\ Move(r, [req[r] EXCEPT !.urow = "share", !.pc = "commit"])

(* POST /auth/logout-all: revoke_all_user_sessions. The sort of the        *)
(* families is abstracted to any order: no other transaction of this user  *)
(* holds more than one family lock.                                        *)

LogoutAllLockUser_Unlocked(r) ==
    /\ req[r].pc = "all_user"
    /\ Move(r, At(r, "all_scan"))

LogoutAllLockUser(r) ==
    /\ req[r].pc = "all_user"
    /\ UserRowFree(r)
    /\ Move(r, [req[r] EXCEPT !.urow = "update", !.pc = "all_scan"])

LogoutAllScan_TokenIds(r) ==
    /\ req[r].pc = "all_scan"
    /\ Move(r, [req[r] EXCEPT !.pc = "all_families",
                  !.fams = {x \in Issued : tok[x].user = req[r].user /\ ~tok[x].revoked}])

LogoutAllScan(r) ==
    /\ req[r].pc = "all_scan"
    /\ Move(r, [req[r] EXCEPT !.pc = "all_families",
                  !.fams = {tok[t].family : t \in {x \in Issued :
                              tok[x].user = req[r].user /\ ~tok[x].revoked}}])

LogoutAllLockFamily(r, f) ==
    /\ req[r].pc = "all_families"
    /\ f \in req[r].fams \ req[r].held
    /\ FamilyFree(r, f)
    /\ Move(r, [req[r] EXCEPT !.held = @ \cup {f}])

LogoutAllRevoke_VersionOnly(r) ==
    /\ req[r].pc = "all_families"
    /\ req[r].fams \subseteq req[r].held
    /\ Move(r, [req[r] EXCEPT !.bump = TRUE, !.pc = "commit"])

LogoutAllRevoke(r) ==
    /\ req[r].pc = "all_families"
    /\ req[r].fams \subseteq req[r].held
    /\ Write(r, [req[r] EXCEPT !.bump = TRUE, !.pc = "commit"],
             Revoke({t \in Issued : tok[t].user = req[r].user /\ ~tok[t].revoked}))

-----------------------------------------------------------------------------
(* COMMIT, and the response: a transaction that inserted a token hands a   *)
(* JWT for its family to the client. A lost response is a JWT and a token  *)
(* nobody presents.                                                        *)

NewRows(r) == DOMAIN pend[r] \ Issued

Commit(r) ==
    /\ req[r].pc = "commit"
    /\ tok' = Overlay(pend[r])
    /\ version' = IF req[r].bump THEN [version EXCEPT ![req[r].user] = @ + 1] ELSE version
    /\ jwts' = jwts \cup {[user |-> req[r].user, family |-> pend[r][t].family,
                           ver |-> req[r].ver] : t \in NewRows(r)}
    /\ Finish(r)
    /\ UNCHANGED <<active, compliant, now>>

\* ROLLBACK: request timeout, client gone, worker killed, deadlock victim.
Abort(r) ==
    /\ req[r].pc # "idle"
    /\ Finish(r)
    /\ UNCHANGED <<table, active, compliant, now>>

-----------------------------------------------------------------------------
(* Administration of users, and time.                                      *)

\* activate_user and deactivate_user update the row: they wait for FOR UPDATE
SetActive(u) ==
    /\ \A r \in Reqs : req[r].user = u => req[r].urow # "update"
    /\ active' = [active EXCEPT ![u] = ~@]
    /\ UNCHANGED <<table, compliant, now, req, pend>>

\* a role is granted or removed, or an authenticator app enrolled
SetCompliant(u) ==
    /\ compliant' = [compliant EXCEPT ![u] = ~@]
    /\ UNCHANGED <<table, active, now, req, pend>>

Tick ==
    /\ now < MaxTime
    /\ now' = now + 1
    /\ UNCHANGED <<table, active, compliant, req, pend>>

Start(r) ==
    /\ \/ \E u \in Users : LoginStart(r, u)
       \/ \E t \in Tokens : RefreshStart(r, t)
       \/ \E op \in {"call", "logout", "logout_all"}, j \in jwts : AuthStart(r, op, j)
    /\ UNCHANGED <<table, active, compliant, now>>

\* The steps of a transaction that do not commit.
Step(r) ==
    /\ \/ LoginAudit(r) \/ IssuePair(r) \/ IssueRefused(r)
       \/ RefreshLockUser(r) \/ RefreshLockFamily(r) \/ RefreshDecide(r)
       \/ AuthLockFamily(r) \/ TouchIdle(r) \/ TouchRejects(r)
       \/ IdleAudit(r) \/ AuthLoadUser(r)
       \/ LogoutLockFamily(r) \/ LogoutRevoke(r) \/ LogoutAudit(r)
       \/ LogoutAllLockUser(r) \/ LogoutAllScan(r)
       \/ \E f \in Families : LogoutAllLockFamily(r, f)
       \/ LogoutAllRevoke(r)
    /\ UNCHANGED <<table, active, compliant, now>>

Proceed(r) == Step(r) \/ TouchActive(r) \/ Commit(r)

Admin == \E u \in Users : SetActive(u) \/ SetCompliant(u)

Next ==
    \/ \E r \in Reqs : Start(r) \/ Proceed(r) \/ Abort(r)
    \/ Admin
    \/ Tick

Spec == Init /\ [][Next]_vars
-----------------------------------------------------------------------------
(* A set of requests each of which waits for another one of the set.       *)

Deadlocked(S) == S # {} /\ \A r \in S : \E q \in S : Blocks(q, r)

-----------------------------------------------------------------------------
Table(rows) == DOMAIN rows \subseteq Tokens /\ rows \in [DOMAIN rows -> Row]

Request ==
    [pc : PC, op : Op, user : Users \cup {None}, family : Families \cup {None},
     token : Tokens \cup {None}, ver : Nat, urow : {"none", "share", "update"},
     held : SUBSET Families, fams : SUBSET Families, bump : BOOLEAN]

\* The tables and the requests in flight have the shape the models declare.
TypeOK ==
    /\ Table(tok)
    /\ version \in [Users -> Nat]
    /\ active \in [Users -> BOOLEAN] /\ compliant \in [Users -> BOOLEAN]
    /\ jwts \subseteq Jwt
    /\ now \in Nat
    /\ req \in [Reqs -> Request]
    /\ DOMAIN pend = Reqs /\ \A r \in Reqs : Table(pend[r])

\* A session is carried by one refresh token at most: however rotations,
\* replays and retries of the same cookie overlap, a family never has two
\* rows that are neither consumed nor revoked ("issue its sole successor").
SoleLiveToken == \A s, t \in Issued :
    /\ tok[s].family = tok[t].family
    /\ ~tok[s].consumed /\ ~tok[s].revoked /\ ~tok[t].consumed /\ ~tok[t].revoked
    => s = t

\* The rows of a family form one chain from the login's token: a row is
\* consumed iff it points to a successor, the successor is a row of the same
\* family, and no two rows point to the same one.
SuccessorChain == \A s \in Issued :
    /\ tok[s].consumed <=> tok[s].next # None
    /\ tok[s].consumed =>
         /\ tok[s].next \in RowsOf(tok[s].family) \ {s}
         /\ \A t \in Issued \ {s} : tok[t].next # tok[s].next

\* Logout-all leaves nothing behind: every row that is not revoked belongs to
\* a login that happened at the user's present session version, so no session
\* opened or refreshed while logout-all ran survives it.
LogoutAllIsTotal == \A t \in Issued :
    ~tok[t].revoked => tok[t].loginVer = version[tok[t].user]

\* Every access JWT of a session carries the session version of the login
\* itself, whatever was refreshed in between: refreshing never launders a
\* session over a logout-all.
JwtKeepsLoginVersion == \A j \in jwts : \A t \in RowsOf(j.family) :
    tok[t].user = j.user /\ tok[t].loginVer = j.ver

\* Rotation does not extend the absolute lifetime: no session shows activity
\* once the lifetime counted from its login is over.
NoActivityPastLifetime == \A t \in Issued :
    tok[t].activity < tok[t].loginAt + Lifetime

\* The idle limit is judged by the presented row on refresh and by any row of
\* the family on authentication. Both judge alike, because the rows of a
\* family that are not revoked always show the same last activity.
IdleJudgedAlike == \A s, t \in Issued :
    /\ tok[s].family = tok[t].family /\ ~tok[s].revoked /\ ~tok[t].revoked
    => tok[s].activity = tok[t].activity

\* Once no row of a session is live, no row of it is ever live again: a
\* rotation in flight cannot bring back a family that a logout, a logout-all,
\* a replay or the idle timeout has revoked.
ClosedForGood == [][\A f \in Families :
    RowsOf(f) # {} /\ Live(f) = {} => Live(f)' = {}]_vars

\* A replayed token is never without consequences: a refresh that presented a
\* consumed token and commits anything leaves its whole family revoked.
ReplayKillsFamily == [][\A r \in Reqs, f \in Families :
    /\ req[r].op = "refresh" /\ req[r].family = f
    /\ req[r].pc = "commit" /\ req'[r] = NoReq
    /\ tok[req[r].token].consumed /\ tok' # tok
    => Unrevoked(f)' = {}]_vars

\* A session that was idle for the limit is never picked up again: two
\* successive activity stamps of a token are less than the limit apart.
NoActivityAfterIdle == [][\A t \in Issued :
    tok'[t].activity # tok[t].activity => tok'[t].activity < tok[t].activity + IdleLimit]_vars

\* Rows only age: identity and expiry never change, consumed and revoked are
\* never taken back, and activity never moves backward.
RowsOnlyAge == [][\A t \in Issued :
    /\ t \in Issued'
    /\ tok'[t].family = tok[t].family /\ tok'[t].user = tok[t].user
    /\ tok'[t].expires = tok[t].expires /\ tok'[t].activity >= tok[t].activity
    /\ tok[t].consumed => tok'[t].consumed /\ tok'[t].next = tok[t].next
    /\ tok[t].revoked => tok'[t].revoked]_vars

\* Logins, refreshes, authentications and logout-alls take the user row before
\* a family, and one family at a time or under the user row. So requests wait
\* for each other in a circle only where an audit row asks for the user row
\* last (a logout, an idle session), or where two logins of one user share the
\* row and both want it alone.
DeadlocksHaveACause == \A S \in SUBSET Reqs : Deadlocked(S) =>
    \/ \E r \in S : req[r].pc \in {"idle_audit", "logout_audit"}
    \/ \E q, r \in S : /\ q # r /\ req[q].user = req[r].user
                       /\ req[q].pc = "login_user" /\ req[r].pc = "login_user"

-----------------------------------------------------------------------------
(* A session as its users see it.                                          *)

Registry == INSTANCE SessionRegistry WITH
    phase <- [f \in Families |-> IF RowsOf(f) = {} THEN "unopened"
                                 ELSE IF Live(f) = {} THEN "closed" ELSE "open"],
    carrier <- [f \in Families |-> IF Live(f) = {} THEN None
                                   ELSE CHOOSE t \in Live(f) : TRUE],
    spent <- Issued

\* The refresh-token table implements the session registry: every step opens,
\* renews or closes sessions atomically, or is invisible.
ImplementsRegistry == Registry!Spec
=============================================================================
