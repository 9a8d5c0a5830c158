------------------------------ MODULE Accounts ------------------------------
(***************************************************************************)
(* The accounts and their sessions: login with the failed-attempt counter  *)
(* and the growing lock (routes/auth.ts, services/loginThrottle.ts),       *)
(* logout with the deny-list and its lazy purge                            *)
(* (repositories/tokenRepository.ts), the check in front of every other    *)
(* request (middleware/auth.ts) and the administrators' changes of users   *)
(* (routes/adminUsers.ts, routes/settings.ts).  Each query is a step;      *)
(* requests interleave, the clock runs, queries fail and processes die.    *)
(***************************************************************************)
EXTENDS Integers, FiniteSets, FiniteSetsExt

CONSTANTS
  User,                    \* the e-mail addresses; the column is unique
  Roles,                   \* the roles in use
  Admin,                   \* the role ADMIN
  Req,                     \* requests in flight at once, over all instances
  loginMaxFailedAttempts,
  BASE_LOCK_MS,            \* the first lock window, in ticks of the clock
  MaxLockMs,               \* loginLockMinutes, in ticks
  JwtLife,                 \* jwtExpiresIn, in ticks
  MaxNow,                  \* bound on the clock
  MaxTokens,               \* bound on the tokens issued
  MaxChanges,              \* bound on those changes before another may begin
  MaxFailures              \* bound on failing queries and dying processes

ASSUME UsersAssumption == User # {} /\ Admin \in Roles
ASSUME LimitAssumption == loginMaxFailedAttempts \in Nat \ {0}
ASSUME LockAssumption ==
  BASE_LOCK_MS \in Nat \ {0} /\ MaxLockMs \in Nat /\ BASE_LOCK_MS <= MaxLockMs
ASSUME ReqAssumption == IsFiniteSet(Req)
ASSUME LifeAssumption == JwtLife \in Nat \ {0}
ASSUME BoundsAssumption ==
  MaxNow \in Nat /\ MaxTokens \in Nat /\ MaxChanges \in Nat /\ MaxFailures \in Nat

VARIABLES
  now,
  registered,  \* the addresses that have a User row
  users,       \* the rows
  issued,      \* how many tokens there have been
  tokens,      \* the tokens issued; a client may present any of them
  revoked,     \* the RevokedToken rows
  req,         \* the requests: where the handler is and what it has read
  since,       \* history: the date of the last failure stored for an account
  wrong,       \* history: the wrong passwords given for an account, up to the limit
  loggedOut,   \* history: the tokens whose logout stored its revocation and was answered
  changes,     \* history: changes of users and of the settings made
  audits,      \* how many AuditLog rows there are of those changes
  unaudited,   \* history: changes whose request ended before its audit row
  failures

sessions == <<issued, tokens, revoked, loggedOut>>
administration == <<changes, audits, unaudited>>
rest == <<now, registered, users, sessions, since, wrong, administration, failures>>
vars == <<rest, req>>

\* lockedUntil is 0 for null: a lock ends after the clock has started.
Row == [isActive : BOOLEAN, role : Roles, failedLoginAttempts : Nat, lockedUntil : Nat]

FreshRow(role) ==
  [isActive |-> TRUE, role |-> role, failedLoginAttempts |-> 0, lockedUntil |-> 0]

Token == [jti : Nat, sub : User, role : Roles, exp : Nat]

RevokedToken == [jti : Nat, expiresAt : Nat]

Pc == {"idle", "compare", "failed", "matched", "issue", "lookup", "findUser",
       "admitted", "insert", "update", "audit", "revoke", "purge"}

\* `row` is the copy a login works with, `at` the moment its comparison ended,
\* `role` what requireAuth found.  History: `held` is every role the token's
\* user has had, while active, since the request began; `late`, that it began
\* after the token's logout; `expired`, that the token was when it was looked up.
Request ==
  [pc : Pc, user : User, row : Row, at : Nat, token : Token, role : Roles,
   held : SUBSET Roles, late : BOOLEAN, expired : BOOLEAN]

\* prisma/seed.ts creates the first administrator.
Seeded == CHOOSE u \in User : TRUE

Idle ==
  [pc |-> "idle", user |-> Seeded, row |-> FreshRow(Admin), at |-> 0,
   token |-> [jti |-> 0, sub |-> Seeded, role |-> Admin, exp |-> 0],
   role |-> Admin, held |-> {}, late |-> FALSE, expired |-> FALSE]

TypeOK ==
  /\ now \in Nat
  /\ registered \subseteq User
  /\ users \in [User -> Row]
  /\ issued \in Nat
  /\ tokens \subseteq Token
  /\ revoked \subseteq RevokedToken
  /\ req \in [Req -> Request]
  /\ since \in [User -> Nat]
  /\ wrong \in [User -> 0..loginMaxFailedAttempts]
  /\ loggedOut \subseteq Nat
  /\ changes \in Nat /\ audits \in Nat /\ unaudited \in Nat
  /\ failures \in Nat

Init ==
  /\ now = 1
  /\ registered = {Seeded}
  /\ users = [u \in User |-> FreshRow(Admin)]
  /\ issued = 0
  /\ tokens = {}
  /\ revoked = {}
  /\ req = [r \in Req |-> Idle]
  /\ since = [u \in User |-> 0] /\ wrong = [u \in User |-> 0]
  /\ loggedOut = {}
  /\ changes = 0 /\ audits = 0 /\ unaudited = 0
  /\ failures = 0

At(pcs) == Cardinality({r \in Req : req[r].pc \in pcs})

Goto(r, pc) == req' = [req EXCEPT ![r].pc = pc]
Answer(r) == req' = [req EXCEPT ![r] = Idle]
-----------------------------------------------------------------------------
(* services/loginThrottle.ts *)

Least(a, b) == IF a <= b THEN a ELSE b

\* 2 ** n
PowerOfTwo[n \in Nat] == IF n = 0 THEN 1 ELSE 2 * PowerOfTwo[n - 1]

\* Math.ceil(Math.log2(maxMs / BASE_LOCK_MS))
capExponent == Min({e \in 0..MaxLockMs : BASE_LOCK_MS * PowerOfTwo[e] >= MaxLockMs})

\* Fault: the window grows without the cap.
lockWithoutCap(failedAttempts) ==
  LET over == failedAttempts - loginMaxFailedAttempts
  IN IF over < 0 THEN 0 ELSE BASE_LOCK_MS * PowerOfTwo[over]

lockDurationMs(failedAttempts) ==
  LET over == failedAttempts - loginMaxFailedAttempts
  IN IF over < 0 THEN 0
     ELSE Least(BASE_LOCK_MS * PowerOfTwo[Least(over, capExponent)], MaxLockMs)
-----------------------------------------------------------------------------
(* POST /auth/login *)

IsLocked(row) == row.lockedUntil > now

CanLogIn(u) == u \in registered /\ users[u].isActive /\ ~IsLocked(users[u])

\* An unknown, disabled or locked account: 401, 403 or 423, and nothing changes.
RefuseLogin(u) == ~CanLogIn(u) /\ UNCHANGED vars

\* Fault: a locked account is not refused.
BeginLoginLocked(r, u) ==
  /\ req[r].pc = "idle"
  /\ u \in registered /\ users[u].isActive
  /\ req' = [req EXCEPT ![r] = [Idle EXCEPT !.pc = "compare", !.user = u, !.row = users[u]]]
  /\ UNCHANGED rest

BeginLogin(r, u) ==
  /\ req[r].pc = "idle"
  /\ CanLogIn(u)
  /\ req' = [req EXCEPT ![r] = [Idle EXCEPT !.pc = "compare", !.user = u, !.row = users[u]]]
  /\ UNCHANGED rest

\* bcrypt.compare, with the password or with another one.
Compare(r) ==
  /\ req[r].pc = "compare"
  /\ \/ /\ req' = [req EXCEPT ![r].pc = "failed", ![r].at = now]
        /\ wrong' = [wrong EXCEPT ![req[r].user] = Least(@ + 1, loginMaxFailedAttempts)]
     \/ /\ issued + At({"matched", "issue"}) < MaxTokens
        /\ Goto(r, IF req[r].row.failedLoginAttempts > 0 \/ req[r].row.lockedUntil # 0
                   THEN "matched" ELSE "issue")
        /\ UNCHANGED wrong
  /\ UNCHANGED <<now, registered, users, sessions, since, administration, failures>>

\* updateLoginState: the row is updated by its id, with what the copy gives.
StoreFailure(r) ==
  LET u == req[r].user
      attempts == req[r].row.failedLoginAttempts + 1
      lockMs == lockDurationMs(attempts)
  IN /\ req[r].pc = "failed"
     /\ users' = [users EXCEPT
          ![u].failedLoginAttempts = attempts,
          ![u].lockedUntil = IF lockMs > 0 THEN req[r].at + lockMs ELSE req[r].row.lockedUntil]
     /\ since' = [since EXCEPT ![u] = req[r].at]
     /\ Answer(r)
     /\ UNCHANGED <<now, registered, sessions, wrong, administration, failures>>

ResetFailures(r) ==
  /\ req[r].pc = "matched"
  /\ users' = [users EXCEPT ![req[r].user].failedLoginAttempts = 0, ![req[r].user].lockedUntil = 0]
  /\ Goto(r, "issue")
  /\ UNCHANGED <<now, registered, sessions, since, wrong, administration, failures>>

IssueToken(r) ==
  /\ req[r].pc = "issue"
  /\ issued' = issued + 1
  /\ tokens' = tokens \cup {[jti |-> issued + 1, sub |-> req[r].user,
                             role |-> req[r].row.role, exp |-> now + JwtLife]}
  /\ Answer(r)
  /\ UNCHANGED <<now, registered, users, revoked, loggedOut, since, wrong, administration, failures>>
-----------------------------------------------------------------------------
(* POST /auth/logout *)

IsValid(token) == now < token.exp

\* An invalid token only clears the cookie.
BeginLogout(r, token) ==
  /\ req[r].pc = "idle"
  /\ IsValid(token)
  /\ req' = [req EXCEPT ![r] = [Idle EXCEPT !.pc = "revoke", !.token = token]]
  /\ UNCHANGED rest

isRevoked(jti) == \E entry \in revoked : entry.jti = jti

Revoke(r) ==
  LET token == req[r].token
  IN /\ req[r].pc = "revoke"
     /\ revoked' = IF isRevoked(token.jti) THEN revoked
                   ELSE revoked \cup {[jti |-> token.jti, expiresAt |-> token.exp]}
     /\ Goto(r, "purge")
     /\ UNCHANGED <<now, registered, users, issued, tokens, loggedOut, since, wrong, administration, failures>>

\* Fault: entries go one tick before their tokens do.
PurgeEarly(r) ==
  /\ req[r].pc = "purge"
  /\ revoked' = {entry \in revoked : entry.expiresAt > now + 1}
  /\ loggedOut' = loggedOut \cup {req[r].token.jti}
  /\ Answer(r)
  /\ UNCHANGED <<now, registered, users, issued, tokens, since, wrong, administration, failures>>

PurgeExpired(r) ==
  /\ req[r].pc = "purge"
  /\ revoked' = {entry \in revoked : entry.expiresAt >= now}
  /\ loggedOut' = loggedOut \cup {req[r].token.jti}
  /\ Answer(r)
  /\ UNCHANGED <<now, registered, users, issued, tokens, since, wrong, administration, failures>>
-----------------------------------------------------------------------------
(* requireAuth, in front of every other request *)

RolesHeld(u) == IF users[u].isActive THEN {users[u].role} ELSE {}

BeginCall(r, token) ==
  /\ req[r].pc = "idle"
  /\ IsValid(token)
  /\ req' = [req EXCEPT ![r] =
       [Idle EXCEPT !.pc = "lookup", !.token = token,
                    !.held = RolesHeld(token.sub), !.late = token.jti \in loggedOut]]
  /\ UNCHANGED rest

CheckRevoked(r) ==
  /\ req[r].pc = "lookup"
  /\ IF isRevoked(req[r].token.jti)
     THEN Answer(r)
     ELSE req' = [req EXCEPT ![r].pc = "findUser", ![r].expired = ~IsValid(req[r].token)]
  /\ UNCHANGED rest

\* Fault: the role is taken from the token.
TrustToken(r) ==
  /\ req[r].pc = "findUser"
  /\ IF users[req[r].token.sub].isActive
     THEN req' = [req EXCEPT ![r].pc = "admitted", ![r].role = req[r].token.role]
     ELSE Answer(r)
  /\ UNCHANGED rest

FindUser(r) ==
  /\ req[r].pc = "findUser"
  /\ IF users[req[r].token.sub].isActive
     THEN req' = [req EXCEPT ![r].pc = "admitted", ![r].role = users[req[r].token.sub].role]
     ELSE Answer(r)
  /\ UNCHANGED rest

\* The handler behind it, or requireRole's refusal.
Handle(r) ==
  /\ req[r].pc = "admitted"
  /\ Answer(r)
  /\ UNCHANGED rest
-----------------------------------------------------------------------------
(* POST and PATCH /admin/users, PATCH /admin/settings *)

\* findByEmail finds nobody; the password is hashed.
BeginCreate(r, u) ==
  /\ req[r].pc = "admitted" /\ req[r].role = Admin
  /\ changes < MaxChanges
  /\ u \notin registered
  /\ req' = [req EXCEPT ![r].pc = "insert", ![r].user = u]
  /\ UNCHANGED rest

\* Fault: the error of the unique column is swallowed.
InsertAnyway(r, role) ==
  LET u == req[r].user
  IN /\ req[r].pc = "insert"
     /\ IF u \in registered
        THEN Goto(r, "audit") /\ UNCHANGED <<registered, users, changes>>
        ELSE /\ registered' = registered \cup {u}
             /\ users' = [users EXCEPT ![u] = FreshRow(role)]
             /\ changes' = changes + 1
             /\ Goto(r, "audit")
     /\ UNCHANGED <<now, sessions, since, wrong, audits, unaudited, failures>>

\* The unique column refuses the second of two creations with a 500.
InsertUser(r, role) ==
  LET u == req[r].user
  IN /\ req[r].pc = "insert"
     /\ IF u \in registered
        THEN Answer(r) /\ UNCHANGED <<registered, users, changes>>
        ELSE /\ registered' = registered \cup {u}
             /\ users' = [users EXCEPT ![u] = FreshRow(role)]
             /\ changes' = changes + 1
             /\ Goto(r, "audit")
     /\ UNCHANGED <<now, sessions, since, wrong, audits, unaudited, failures>>

BeginPatch(r, u) ==
  /\ req[r].pc = "admitted" /\ req[r].role = Admin
  /\ changes < MaxChanges
  /\ u \in registered
  /\ req' = [req EXCEPT ![r].pc = "update", ![r].user = u]
  /\ UNCHANGED rest

\* Only the columns of the body are written: never the state of the lock.
UpdateUser(r, role, isActive) ==
  LET u == req[r].user
  IN /\ req[r].pc = "update"
     /\ users' = [users EXCEPT ![u].role = role, ![u].isActive = isActive]
     /\ req' = [q \in Req |->
          IF q = r THEN [req[q] EXCEPT !.pc = "audit",
                                       !.held = IF isActive /\ req[q].token.sub = u
                                                THEN @ \cup {role} ELSE @]
          ELSE [req[q] EXCEPT !.held = IF isActive /\ req[q].token.sub = u /\ req[q].pc # "idle"
                                       THEN @ \cup {role} ELSE @]]
     /\ changes' = changes + 1
     /\ UNCHANGED <<now, registered, sessions, since, wrong, audits, unaudited, failures>>

\* The reminder window's upsert, one more change with an audit row; what its
\* value does is in module ClosingReminder.
UpsertSetting(r) ==
  /\ req[r].pc = "admitted" /\ req[r].role = Admin
  /\ changes < MaxChanges
  /\ changes' = changes + 1
  /\ Goto(r, "audit")
  /\ UNCHANGED <<now, registered, users, sessions, since, wrong, audits, unaudited, failures>>

\* logAudit, after the change and outside any transaction.
WriteAudit(r) ==
  /\ req[r].pc = "audit"
  /\ audits' = audits + 1
  /\ Answer(r)
  /\ UNCHANGED <<now, registered, users, sessions, since, wrong, changes, unaudited, failures>>
-----------------------------------------------------------------------------
(* Time and failures *)

Tick == now < MaxNow /\ now' = now + 1
        /\ UNCHANGED <<registered, users, sessions, req, since, wrong, administration, failures>>

\* A query throws or the process dies: the request is over where it stands.
\* Logout swallows the error and is answered all the same.
Fails(r) ==
  /\ req[r].pc \notin {"idle", "compare", "admitted"}
  /\ failures < MaxFailures
  /\ failures' = failures + 1
  /\ loggedOut' = IF req[r].pc = "purge" THEN loggedOut \cup {req[r].token.jti} ELSE loggedOut
  /\ unaudited' = IF req[r].pc = "audit" THEN unaudited + 1 ELSE unaudited
  /\ Answer(r)
  /\ UNCHANGED <<now, registered, users, issued, tokens, revoked, since, wrong, changes, audits>>
-----------------------------------------------------------------------------
Login(r) ==
  \/ \E u \in User : BeginLogin(r, u)
  \/ Compare(r) \/ StoreFailure(r) \/ ResetFailures(r) \/ IssueToken(r)

Logout(r) ==
  \/ \E token \in tokens : BeginLogout(r, token)
  \/ Revoke(r) \/ PurgeExpired(r)

Call(r) ==
  \/ \E token \in tokens : BeginCall(r, token)
  \/ CheckRevoked(r) \/ FindUser(r) \/ Handle(r)

Administer(r) ==
  \/ \E u \in User : BeginCreate(r, u) \/ BeginPatch(r, u)
  \/ \E role \in Roles : InsertUser(r, role)
  \/ \E role \in Roles, isActive \in BOOLEAN : UpdateUser(r, role, isActive)
  \/ UpsertSetting(r)
  \/ WriteAudit(r)

Next ==
  \/ \E r \in Req : Login(r) \/ Logout(r) \/ Call(r) \/ Administer(r) \/ Fails(r)
  \/ \E u \in User : RefuseLogin(u)
  \/ Tick

Spec == Init /\ [][Next]_vars
-----------------------------------------------------------------------------
(* Properties *)

\* loginThrottle.ts:11-14, by doubling: nothing below the limit, the base at
\* it, and from there twice the last window up to the cap.
Window[n \in Nat] ==
  IF n < loginMaxFailedAttempts THEN 0
  ELSE IF n = loginMaxFailedAttempts THEN BASE_LOCK_MS
  ELSE Least(2 * Window[n - 1], MaxLockMs)

\* S4: whatever attempts overlap, an account carries a date of lock exactly
\* when its counter is at the limit, and the date is the one the counter gives
\* from the last failure stored: a lost count never leaves a stray lock.  And
\* up to the limit the counter is never above the wrong passwords given for the
\* account, so that none is locked after fewer of them than the limit.  It does not
\* say that they came in a row: a failing login that had read the account
\* stores its count over the reset of one that succeeded meanwhile.
LockIsEarned ==
  \A u \in registered :
    LET row == users[u]
    IN /\ Least(row.failedLoginAttempts, loginMaxFailedAttempts) <= wrong[u]
       /\ row.lockedUntil = IF row.failedLoginAttempts < loginMaxFailedAttempts
                            THEN 0 ELSE since[u] + Window[row.failedLoginAttempts]

\* H2.3: a lock in force is changed by nobody but a login that had read the
\* account before it was locked; neither later logins nor administrators.
LocksOutlast ==
  [][\A u \in User : IsLocked(users[u]) /\ users'[u].lockedUntil # users[u].lockedUntil =>
       \E r \in Req : /\ req[r].pc \in {"failed", "matched"}
                      /\ req[r].user = u
                      /\ req[r].row.lockedUntil # users[u].lockedUntil]_vars

InHandler == {"admitted", "insert", "update", "audit"}
InsideHandler == {r \in Req : req[r].pc \in InHandler}

\* H1.3: a request that begins after its token's logout was answered is never
\* admitted, whatever is purged meanwhile, unless the token expired between
\* its verification and its lookup.
LogoutIsFinal == \A r \in InsideHandler : req[r].late => req[r].expired

\* What a handler takes for the user's role is one the user held, while
\* active, at some moment since the request began: neither an old token nor
\* an old login keeps a role or an account alive.
RoleIsCurrent == \A r \in InsideHandler : req[r].role \in req[r].held

\* BR-008, as far as it goes: every user created or changed has its audit row
\* but for requests that have not got there or were cut off, and no row tells
\* of a change that was not made.
AuditKeepsUp == changes = audits + At({"audit"}) + unaudited
-----------------------------------------------------------------------------
(* Why they hold: the parts of the inductive invariant *)

\* A row that is not there is not locked.
OnlyRowsAreLocked == \A u \in User \ registered : users[u].lockedUntil = 0

\* A token is told from the others by its number and belongs to a row.
TokensAreNumbered ==
  /\ \A token \in tokens : token.jti <= issued /\ token.sub \in registered
  /\ \A t1, t2 \in tokens : t1.jti = t2.jti => t1 = t2
  /\ \A jti \in loggedOut : jti <= issued

EntriesAreOfTokens ==
  \A entry \in revoked : \E token \in tokens : entry.jti = token.jti /\ entry.expiresAt = token.exp

\* The deny-list holds a token from its revocation until it is useless anyway.
Listed(token) == isRevoked(token.jti) \/ token.exp < now

LoggedOutIsListed == \A token \in tokens : token.jti \in loggedOut => Listed(token)

\* What a request has read and what is remembered of it: a login works on a
\* row that was not locked when it was read, the others on a token that was
\* issued, and one that began after the logout of its token finds the entry or
\* finds the token expired.
RequestOK(q) ==
  /\ q.pc \in {"compare", "failed", "matched", "issue"} =>
       q.user \in registered /\ q.row.lockedUntil <= now
  /\ q.pc \in {"lookup", "findUser", "revoke", "purge"} \cup InHandler =>
       q.token \in tokens /\ (q.late => q.token.jti \in loggedOut)
  /\ q.pc = "purge" => Listed(q.token)
  /\ q.pc \in {"findUser"} \cup InHandler => (q.late => q.expired)
  /\ q.pc \in {"lookup", "findUser"} => RolesHeld(q.token.sub) \subseteq q.held
  /\ q.pc \in InHandler => q.role \in q.held

\* A login read a row on which the lock and the counter agree, and a wrong
\* password is counted before it is stored.
ReadEarned(q) ==
  q.pc \in {"compare", "failed"} =>
    /\ q.row.failedLoginAttempts < loginMaxFailedAttempts => q.row.lockedUntil = 0
    /\ LET counted == q.row.failedLoginAttempts + (IF q.pc = "failed" THEN 1 ELSE 0)
       IN Least(counted, loginMaxFailedAttempts) <= wrong[q.user]

LockInv == LockIsEarned /\ \A r \in Req : ReadEarned(req[r])

IInv ==
  /\ TypeOK
  /\ OnlyRowsAreLocked
  /\ TokensAreNumbered /\ EntriesAreOfTokens /\ LoggedOutIsListed
  /\ \A r \in Req : RequestOK(req[r])
  /\ AuditKeepsUp
=============================================================================
