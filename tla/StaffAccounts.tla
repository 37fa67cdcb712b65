---------------------------- MODULE StaffAccounts ----------------------------
(***************************************************************************)
(* Staff accounts: auth.service.ts and users.service.ts over the users      *)
(* table, beside the refresh tokens of TokenRotation, whose requests and     *)
(* tokens are the same variables here.                                      *)
(*                                                                         *)
(* Every write of a user is load, change, save, without a lock and with an   *)
(* argon2 computation between.  save writes each column in which the loaded  *)
(* entity differs from the row, so it puts back what others have written     *)
(* meanwhile; deleted_at, too, but the password only when it was selected    *)
(* (select: false in user.entity.ts).                                       *)
(*                                                                         *)
(* `isActive` stands for every column an owner edits.  A password stands for *)
(* the hashes that verify it, so that rehashing changes nothing.  An audit   *)
(* entry is written, or not, without consequence.                           *)
(***************************************************************************)
EXTENDS TokenRotation

CONSTANTS
  Password,
  FirstPassword,        \* what the accounts there are at first were given
  MaxFailedAttempts,    \* MAX_FAILED_ATTEMPTS, 5 in the code
  MaxLocks,             \* bounds: locks ever begun,
  MaxRequests           \* and account requests ever begun

ASSUME AccountAssumption ==
  /\ MaxFailedAttempts \in Nat \ {0}
  /\ MaxLocks \in Nat
  /\ MaxRequests \in Nat
  /\ FirstPassword \in Password

VARIABLES
  users,          \* user -> the row of users; an email is a user
  acct,           \* handler -> the account request it handles
  locks,          \* locks begun; lockedUntil is the number of its lock
  begun,          \* account requests so far
  passed,         \* locks whose lockedUntil has passed
  \* What the properties need to remember:
  meant,          \* user -> what was last written on purpose
  failures,       \* user -> failed logins since the last success or lock
  missed,         \* handler -> columns written since it loaded its user
  lost,           \* user -> columns some overlapping save has put back
  outdated,       \* tokens that the last password change of their user has to end
  abandoned       \* users whose password changed in a request that then died

account == <<users, acct, begun, locks, passed>>
memory == <<meant, failures, missed, lost, outdated, abandoned>>
allVars == <<vars, account, memory>>

NoLock == 0

Account ==
  [life : {"unborn", "live", "removed"}, isActive : BOOLEAN, password : Password,
   attempts : 0 .. MaxFailedAttempts - 1, lockedUntil : 0 .. MaxLocks]

NoRequest == [step |-> "none"]

\* `row` is the entity the request holds, `password` what its body brought.
AccountRequest ==
  [step : {"login", "set"}, user : User, row : Account, password : Password]
    \cup [step : {"update"}, user : User, row : Account, fixed : SUBSET {"isActive"}]
    \cup [step : {"change", "create"}, user : User, password : Password]
    \cup [step : {"issue", "reject", "revoke"}, user : User]

Column == {"password", "isActive", "life", "attempts"}

Born(password) ==
  [life |-> "live", isActive |-> TRUE, password |-> password, attempts |-> 0, lockedUntil |-> NoLock]

Purpose(row) == [life |-> row.life, isActive |-> row.isActive, password |-> row.password]

\* Some users have an account, for the others the row is not there yet.
StaffInit ==
  /\ Init
  /\ users = [u \in User |->
                IF u \in inactive THEN [Born(FirstPassword) EXCEPT !.life = "unborn"]
                ELSE Born(FirstPassword)]
  /\ acct = [h \in Handler |-> NoRequest]
  /\ begun = 0
  /\ locks = 0
  /\ passed = 0
  /\ meant = [u \in User |-> Purpose(users[u])]
  /\ failures = [u \in User |-> 0]
  /\ missed = [h \in Handler |-> {}]
  /\ lost = [u \in User |-> {}]
  /\ outdated = {}
  /\ abandoned = {}

-----------------------------------------------------------------------------
Live(u) == users[u].life = "live"

Locked(row) == row.lockedUntil > passed

Free(h) == At(h, "idle") /\ acct[h] = NoRequest

Handling(h, step) == acct[h].step = step

Continues(h, request) == acct' = [acct EXCEPT ![h] = request] /\ UNCHANGED begun

\* A handler takes a request.
Begins(h, request) ==
  /\ Free(h)
  /\ begun < MaxRequests
  /\ begun' = begun + 1
  /\ acct' = [acct EXCEPT ![h] = request]

Holds(h, u) == acct[h].step \in {"login", "set", "update"} /\ acct[h].user = u

\* The row becomes `row`, and the account can be used or not as it says.
Write(u, row) ==
  /\ users' = [users EXCEPT ![u] = row]
  /\ inactive' = IF row.life = "live" /\ row.isActive THEN inactive \ {u} ELSE inactive \cup {u}
  /\ UNCHANGED <<tokens, expired, work, held, ended, passed>>

\* save of an entity that was loaded with, or without, its password.
SaveWithSecret(u, entity) == Write(u, entity)

FaultySave(u, entity) == Write(u, entity)              \* the hash is always selected

Save(u, entity) == Write(u, [entity EXCEPT !.password = users[u].password])

\* Memory: h sets the columns `fixed` and puts `kept` back as loaded; whoever
\* else holds the user has then missed `changed`.
Remember(h, u, fixed, kept, changed) ==
  /\ lost' = [lost EXCEPT ![u] = (@ \ fixed) \cup (kept \cap missed[h])]
  /\ missed' = [g \in Handler |->
                  IF g = h THEN {} ELSE IF Holds(g, u) THEN missed[g] \cup changed ELSE missed[g]]

-----------------------------------------------------------------------------
(* Login: load, check, verify, save, and only then a family of tokens. *)

FaultyLoadForLogin(h, u, password) ==                   \* isActive is not looked at
  LET request == [step |-> "login", user |-> u, row |-> users[u], password |-> password]
  IN  /\ Live(u)
      /\ ~ Locked(users[u])
      /\ Begins(h, request)
      /\ Goes(h, [step |-> "login", user |-> u])
      /\ UNCHANGED <<tokens, expired, inactive, held, ended, users, locks, passed, memory>>

LoadForLogin(h, u, password) ==
  /\ Live(u)
  /\ ~ Locked(users[u])
  /\ BeginLogin(h, u)
  /\ Begins(h, [step |-> "login", user |-> u, row |-> users[u], password |-> password])
  /\ UNCHANGED <<users, locks, passed, memory>>

FaultyCountFailure(row) ==                              \* > for >=
  IF row.attempts + 1 > MaxFailedAttempts
  THEN [row EXCEPT !.attempts = 0, !.lockedUntil = locks + 1]
  ELSE [row EXCEPT !.attempts = @ + 1]

FaultyKeepCount(row) ==                                 \* the lock does not reset the counter
  IF row.attempts + 1 >= MaxFailedAttempts
  THEN [row EXCEPT !.attempts = @ + 1, !.lockedUntil = locks + 1]
  ELSE [row EXCEPT !.attempts = @ + 1]

\* registerFailure
CountFailure(row) ==
  IF row.attempts + 1 >= MaxFailedAttempts
  THEN [row EXCEPT !.attempts = 0, !.lockedUntil = locks + 1]
  ELSE [row EXCEPT !.attempts = @ + 1]

FailedLogin(h) ==
  LET request == acct[h]
      u == request.user
      entity == CountFailure(request.row)
  IN  /\ Handling(h, "login")
      /\ request.password # request.row.password
      /\ entity.lockedUntil <= MaxLocks
      /\ SaveWithSecret(u, entity)
      /\ locks' = IF entity.lockedUntil > locks THEN entity.lockedUntil ELSE locks
      /\ Continues(h, [step |-> "reject", user |-> u])
      /\ failures' = [failures EXCEPT ![u] = (@ + 1) % MaxFailedAttempts]
      /\ Remember(h, u, {}, Column, {"attempts"})
      /\ UNCHANGED <<meant, outdated, abandoned>>

FaultyReset(row) == [row EXCEPT !.lockedUntil = NoLock]        \* the counter is kept

Reset(row) == [row EXCEPT !.attempts = 0, !.lockedUntil = NoLock]

PassedLogin(h) ==
  LET request == acct[h]
      u == request.user
  IN  /\ Handling(h, "login")
      /\ request.password = request.row.password
      /\ SaveWithSecret(u, Reset(request.row))
      /\ Continues(h, [step |-> "issue", user |-> u])
      /\ failures' = [failures EXCEPT ![u] = 0]
      /\ Remember(h, u, {"attempts"}, Column \ {"attempts"}, {"attempts"})
      /\ UNCHANGED <<locks, meant, outdated, abandoned>>

\* Memory: a token issued while the password is saved and the tokens are not yet
\* revoked is one that the change has to end, too.
OutdatesNew ==
  outdated' = outdated \cup
    {t \in DOMAIN tokens' \ DOMAIN tokens :
       \E g \in Handler : Handling(g, "revoke") /\ acct[g].user = tokens'[t].user}

\* The audit entry is written and the tokens are issued.
Issued(h) ==
  /\ Handling(h, "issue")
  /\ IssueForLogin(h)
  /\ Continues(h, NoRequest)
  /\ OutdatesNew
  /\ UNCHANGED <<users, locks, passed, meant, failures, missed, lost, abandoned>>

-----------------------------------------------------------------------------
(* Password change: load and verify; load again, hash, save; revoke. *)

\* The current password was verified against the row this loads.
LoadForChange(h, u, password) ==
  /\ Live(u)
  /\ ChangePassword(h, u)
  /\ Begins(h, [step |-> "change", user |-> u, password |-> password])
  /\ UNCHANGED <<users, locks, passed, memory>>

\* setPassword's findById
LoadForSet(h) ==
  LET request == acct[h]
  IN  /\ Handling(h, "change")
      /\ Live(request.user)
      /\ Continues(h, [step |-> "set", user |-> request.user,
                       row |-> users[request.user], password |-> request.password])
      /\ UNCHANGED <<vars, users, locks, passed, memory>>

SetPassword(h) ==
  LET request == acct[h]
      u == request.user
  IN  /\ Handling(h, "set")
      /\ SaveWithSecret(u, [request.row EXCEPT !.password = request.password])
      /\ Continues(h, [step |-> "revoke", user |-> u])
      /\ meant' = [meant EXCEPT ![u].password = request.password]
      /\ outdated' = outdated \cup {t \in DOMAIN tokens : tokens[t].user = u}
      /\ Remember(h, u, {"password"}, Column \ {"password"}, {"password"})
      /\ UNCHANGED <<locks, failures, abandoned>>

FaultyEndSessions(h) ==                                 \* answers without revoking
  /\ Handling(h, "revoke")
  /\ Fail(h)
  /\ Continues(h, NoRequest)
  /\ abandoned' = abandoned \ {acct[h].user}
  /\ UNCHANGED <<users, locks, passed, meant, failures, missed, lost, outdated>>

EndSessions(h) ==
  /\ Handling(h, "revoke")
  /\ RevokeAllForUser(h)
  /\ Continues(h, NoRequest)
  /\ abandoned' = abandoned \ {acct[h].user}
  /\ UNCHANGED <<users, locks, passed, meant, failures, missed, lost, outdated>>

-----------------------------------------------------------------------------
(* The owner's administration *)

\* An UpdateUserDto may have the field or not.
UpdateUserDto == UNION {[fields -> BOOLEAN] : fields \in SUBSET {"isActive"}}

\* findById and Object.assign
LoadForUpdate(h, u, dto) ==
  LET entity == IF "isActive" \in DOMAIN dto
                THEN [users[u] EXCEPT !.isActive = dto["isActive"]] ELSE users[u]
  IN  /\ Live(u)
      /\ Begins(h, [step |-> "update", user |-> u, row |-> entity, fixed |-> DOMAIN dto])
      /\ UNCHANGED <<vars, users, locks, passed, memory>>

Update(h) ==
  LET request == acct[h]
      u == request.user
  IN  /\ Handling(h, "update")
      /\ Save(u, request.row)
      /\ Continues(h, NoRequest)
      /\ meant' = [meant EXCEPT ![u].isActive =
                     IF request.fixed = {} THEN @ ELSE request.row.isActive]
      /\ Remember(h, u, request.fixed, Column \ (request.fixed \cup {"password"}), request.fixed)
      /\ UNCHANGED <<locks, failures, outdated, abandoned>>

\* softRemove writes deleted_at alone.
Remove(h, u) ==
  /\ Begins(h, NoRequest)
  /\ Live(u)
  /\ Write(u, [users[u] EXCEPT !.life = "removed"])
  /\ meant' = [meant EXCEPT ![u].life = "removed"]
  /\ Remember(h, u, {"life"}, {}, {"life"})
  /\ UNCHANGED <<locks, failures, outdated, abandoned>>

\* No live user has the email; then the password is hashed.
CheckEmail(h, u, password) ==
  /\ ~ Live(u)
  /\ Begins(h, [step |-> "create", user |-> u, password |-> password])
  /\ UNCHANGED <<vars, users, locks, passed, memory>>

\* The unique index rejects the email of any row there is.
IndexAllows(u) == users[u].life = "unborn"

Insert(h) ==
  LET request == acct[h]
      u == request.user
  IN  /\ Handling(h, "create")
      /\ IndexAllows(u)
      /\ Write(u, Born(request.password))
      /\ Continues(h, NoRequest)
      /\ meant' = [meant EXCEPT ![u] = Purpose(Born(request.password))]
      /\ UNCHANGED <<locks, failures, missed, lost, outdated, abandoned>>

-----------------------------------------------------------------------------
(* The other token requests, time, and failures *)

TokenStep(h) ==
  /\ acct[h] = NoRequest
  /\ \/ \E t \in held : BeginRefresh(h, t) \/ BeginLogout(h, t)
     \/ Load(h) \/ RevokeFamily(h) \/ Issue(h) \/ Replace(h)
     \/ LoadForLogout(h) \/ Revoke(h)
     \/ Respond(h)
     \/ Fail(h)
  /\ OutdatesNew
  /\ UNCHANGED <<account, meant, failures, missed, lost, abandoned>>

TokenExpires ==
  /\ \E t \in DOMAIN tokens : Expire(t)
  /\ UNCHANGED <<account, memory>>

\* Every lock lasts LOCK_DURATION_MS, so they pass in the order they began.
LockPasses ==
  /\ passed < locks
  /\ passed' = passed + 1
  /\ UNCHANGED <<vars, users, acct, begun, locks, memory>>

\* The request is refused or fails, or the process dies.
Drop(h) ==
  /\ acct[h] # NoRequest
  /\ IF At(h, "idle") THEN UNCHANGED vars ELSE Fail(h)
  /\ Continues(h, NoRequest)
  /\ abandoned' = IF Handling(h, "revoke") THEN abandoned \cup {acct[h].user} ELSE abandoned
  /\ missed' = [missed EXCEPT ![h] = {}]
  /\ UNCHANGED <<users, locks, passed, meant, failures, lost, outdated>>

StaffNext ==
  \/ \E h \in Handler :
       \/ \E u \in User, password \in Password :
            \/ LoadForLogin(h, u, password)
            \/ LoadForChange(h, u, password)
            \/ CheckEmail(h, u, password)
       \/ FailedLogin(h) \/ PassedLogin(h) \/ Issued(h)
       \/ LoadForSet(h) \/ SetPassword(h) \/ EndSessions(h)
       \/ \E u \in User, dto \in UpdateUserDto : LoadForUpdate(h, u, dto)
       \/ Update(h)
       \/ \E u \in User : Remove(h, u)
       \/ Insert(h)
       \/ TokenStep(h)
       \/ Drop(h)
  \/ TokenExpires
  \/ LockPasses

StaffSpec == StaffInit /\ [][StaffNext]_allVars

-----------------------------------------------------------------------------
(* Properties *)

\* The tables are well typed; no row ever holds as many failures as lock it,
\* whatever saves overlap (auth.service.ts:155-162), and an account that can be
\* used for login or refresh is exactly a live and active one.
AccountsTypeOK ==
  /\ users \in [User -> Account]
  /\ acct \in [Handler -> AccountRequest \cup {NoRequest}]
  /\ passed \in 0 .. locks /\ locks \in 0 .. MaxLocks
  /\ inactive = {u \in User : ~ (Live(u) /\ users[u].isActive)}

\* A password change, a deactivation or a removal is undone only by a save that
\* carries the column and whose user was loaded before it: a login's, or, but
\* for the password, an owner's or a password change's (auth.service.ts:66-73,
\* users.service.ts:83-98).
OnlyOverlapUndoes ==
  \A u \in User :
    \A c \in DOMAIN meant[u] : Purpose(users[u])[c] # meant[u][c] => c \in lost[u]

\* The counter is the number of failed logins since the last success or lock,
\* unless failures of the account overlapped another save of it
\* (auth.service.ts:155-162).
FailuresCounted ==
  \A u \in User : users[u].attempts # failures[u] => "attempts" \in lost[u]

\* While an account is locked, its counter is 0, so that the full number of
\* attempts is available when the lock passes (auth.service.ts:157-160).
LockedMeansZero ==
  \A u \in User : Locked(users[u]) => users[u].attempts = 0

\* Every token issued before the password is saved, or after that and before the
\* tokens are revoked, by a login or a refresh under way, is revoked by the end of
\* the change, unless the request died between its two statements
\* (auth.service.ts:137-138).
SessionsEndWithPassword ==
  \A t \in outdated :
    tokens[t].revoked \/ tokens[t].user \in abandoned
      \/ \E h \in Handler : Handling(h, "revoke") /\ acct[h].user = tokens[t].user

\* The accounts' requests are those that TokenRotation knows of.
ImplementsRotation == Init /\ [][UNCHANGED vars \/ Next]_vars

=============================================================================
