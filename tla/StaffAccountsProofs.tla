------------------------- MODULE StaffAccountsProofs -------------------------
(* Staff accounts, for any users, passwords and handlers. *)
EXTENDS StaffAccounts, TokenRotationProofs

-----------------------------------------------------------------------------
(* Every step is a step of TokenRotation, or none *)

LEMMA WriteIsSetActive ==
  ASSUME NEW u \in User, NEW row, Write(u, row)
  PROVE  SetActive(u) \/ UNCHANGED vars
<1>1. inactive' = inactive \ {u} \/ inactive' = inactive \cup {u}
  BY DEF Write
<1>2. u \in inactive => inactive \cup {u} = inactive
  OBVIOUS
<1>3. u \notin inactive => inactive \ {u} = inactive
  OBVIOUS
<1> QED
  BY <1>1, <1>2, <1>3 DEF Write, SetActive, vars

LEMMA StepIsTokenStep ==
  ASSUME AccountsTypeOK, StaffNext
  PROVE  Next \/ UNCHANGED vars
<1>1. ASSUME NEW h \in Handler, FailedLogin(h) \/ PassedLogin(h) \/ SetPassword(h) \/ Update(h) \/ Insert(h)
      PROVE  \E u \in User : \E row : Write(u, row)
  <2>1. acct[h].user \in User
    BY <1>1 DEF FailedLogin, PassedLogin, SetPassword, Update, Insert, Handling,
                AccountsTypeOK, AccountRequest, NoRequest
  <2> QED
    BY <1>1, <2>1 DEF FailedLogin, PassedLogin, SetPassword, Update, Insert, SaveWithSecret, Save
<1>2. ASSUME NEW h \in Handler, NEW u \in User, Remove(h, u)
      PROVE  \E row : Write(u, row)
  BY <1>2 DEF Remove
<1>3. ASSUME NEW h \in Handler, NEW u \in User, NEW password \in Password,
             LoadForLogin(h, u, password) \/ LoadForChange(h, u, password) \/ CheckEmail(h, u, password)
      PROVE  BeginLogin(h, u) \/ ChangePassword(h, u) \/ UNCHANGED vars
  BY <1>3 DEF LoadForLogin, LoadForChange, CheckEmail
<1>4. ASSUME NEW h \in Handler,
             \/ Issued(h) \/ LoadForSet(h) \/ EndSessions(h) \/ TokenStep(h) \/ Drop(h)
             \/ \E u \in User, dto \in UpdateUserDto : LoadForUpdate(h, u, dto)
      PROVE  Next \/ UNCHANGED vars
  BY <1>4 DEF Issued, LoadForSet, EndSessions, TokenStep, Drop, LoadForUpdate, Next
<1>5. CASE TokenExpires
  BY <1>5 DEF TokenExpires, Next
<1>6. CASE LockPasses
  BY <1>6 DEF LockPasses
<1>7. ASSUME NEW u \in User, NEW row, Write(u, row) PROVE Next \/ UNCHANGED vars
  BY <1>7, WriteIsSetActive DEF Next
<1> QED
  BY <1>1, <1>2, <1>3, <1>4, <1>5, <1>6, <1>7 DEF StaffNext, Next

-----------------------------------------------------------------------------
(* What the requests and the writes are *)

LEMMA Requests ==
  ASSUME AccountsTypeOK, NEW h \in Handler
  PROVE  /\ acct[h].step # "none" => acct[h].user \in User
         /\ acct[h].step \in {"login", "set", "update"} => acct[h].row \in Account
         /\ acct[h].step \in {"login", "set", "change", "create"} => acct[h].password \in Password
         /\ acct[h].step = "update" => acct[h].fixed \subseteq {"isActive"}
<1>1. acct[h] \in AccountRequest \cup {NoRequest}
  BY DEF AccountsTypeOK
<1> QED
  BY <1>1 DEF AccountRequest, NoRequest

LEMMA AccountFields ==
  ASSUME NEW row \in Account
  PROVE  /\ row.life \in {"unborn", "live", "removed"} /\ row.isActive \in BOOLEAN
         /\ row.password \in Password
         /\ row.attempts \in 0 .. MaxFailedAttempts - 1 /\ row.lockedUntil \in 0 .. MaxLocks
BY DEF Account

LEMMA WriteEffect ==
  ASSUME AccountsTypeOK, NEW u \in User, NEW row \in Account, Write(u, row)
  PROVE  /\ users' \in [User -> Account] /\ users'[u] = row
         /\ \A v \in User \ {u} : users'[v] = users[v]
         /\ inactive' = {v \in User : ~ (users'[v].life = "live" /\ users'[v].isActive)}
         /\ passed' = passed
<1>1. /\ users' \in [User -> Account] /\ users'[u] = row
      /\ \A v \in User \ {u} : users'[v] = users[v]
  BY DEF Write, AccountsTypeOK
<1>2. inactive' = IF row.life = "live" /\ row.isActive THEN inactive \ {u} ELSE inactive \cup {u}
  BY DEF Write
<1>3. inactive = {v \in User : ~ (users[v].life = "live" /\ users[v].isActive)}
  BY DEF AccountsTypeOK, Live
<1>4. inactive' = {v \in User : ~ (users'[v].life = "live" /\ users'[v].isActive)}
  BY <1>1, <1>2, <1>3
<1> QED
  BY <1>1, <1>4 DEF Write

LEMMA ContinuesEffect ==
  ASSUME AccountsTypeOK, NEW h \in Handler, NEW request \in AccountRequest \cup {NoRequest},
         acct' = [acct EXCEPT ![h] = request]
  PROVE  /\ acct' \in [Handler -> AccountRequest \cup {NoRequest}]
         /\ acct'[h] = request
         /\ \A g \in Handler \ {h} : acct'[g] = acct[g]
BY DEF AccountsTypeOK

-----------------------------------------------------------------------------
(* The invariant *)

\* The columns in which a row differs from what was meant, and from the count.
Strays(row, purpose, count) ==
  {c \in Column :
     \/ c = "life" /\ row.life # purpose.life
     \/ c = "isActive" /\ row.isActive # purpose.isActive
     \/ c = "password" /\ row.password # purpose.password
     \/ c = "attempts" /\ row.attempts # count}

PurposeType ==
  [life : {"unborn", "live", "removed"}, isActive : BOOLEAN, password : Password]

MemoryTypeOK ==
  /\ meant \in [User -> PurposeType]
  /\ failures \in [User -> 0 .. MaxFailedAttempts - 1]
  /\ missed \in [Handler -> SUBSET Column]
  /\ lost \in [User -> SUBSET Column]

CountOK(row) == Locked(row) => row.attempts = 0

\* A row strays only where an overlapping save has put a column back.
UserOK(u) ==
  /\ Strays(users[u], meant[u], failures[u]) \subseteq lost[u]
  /\ CountOK(users[u])
  /\ users[u].life = "unborn" => failures[u] = 0

\* The columns that an owner's update is about to change.
Fixed(request) == IF request.step = "update" THEN request.fixed ELSE {}

\* A loaded user strays, but where the request changes it, only in columns that
\* were written since, or had been put back before.
HolderOK(h) ==
  /\ users[acct[h].user].life # "unborn"
  /\ acct[h].row.life = "live"
  /\ CountOK(acct[h].row)
  /\ acct[h].step = "login" => ~ Locked(acct[h].row)
  /\ Strays(acct[h].row, meant[acct[h].user], failures[acct[h].user]) \ Fixed(acct[h])
       \subseteq missed[h] \cup lost[acct[h].user]

Holding(request) == request.step \in {"login", "set", "update"}

StaffInv ==
  /\ AccountsTypeOK
  /\ MemoryTypeOK
  /\ \A u \in User : UserOK(u)
  /\ \A h \in Handler : Holding(acct[h]) => HolderOK(h)

\* A step after which h holds no user, and which leaves rows and memory alone.
LEMMA ReleaseStep ==
  ASSUME StaffInv, NEW h \in Handler, AccountsTypeOK', ~ Holding(acct'[h]),
         \A g \in Handler \ {h} : acct'[g] = acct[g] /\ missed'[g] = missed[g],
         missed' \in [Handler -> SUBSET Column],
         UNCHANGED <<users, passed, meant, failures, lost>>
  PROVE  StaffInv'
<1>1. MemoryTypeOK' /\ \A u \in User : UserOK(u)'
  BY DEF StaffInv, MemoryTypeOK, UserOK, CountOK, Locked
<1>2. ASSUME NEW g \in Handler, Holding(acct[g])' PROVE HolderOK(g)'
  <2>1. g # h
    BY <1>2
  <2>2. acct'[g] = acct[g] /\ missed'[g] = missed[g] /\ HolderOK(g)
    BY <1>2, <2>1 DEF StaffInv
  <2> QED
    BY <2>2 DEF HolderOK, CountOK, Locked
<1> QED
  BY <1>1, <1>2 DEF StaffInv

\* A step by which h loads the user u.
LEMMA LoadStep ==
  ASSUME StaffInv, NEW h \in Handler, NEW u \in User, NEW row \in Account, AccountsTypeOK',
         Live(u), acct'[h].user = u, acct'[h].row = row,
         row.life = "live", row.password = users[u].password,
         row.attempts = users[u].attempts, row.lockedUntil = users[u].lockedUntil,
         row.isActive = users[u].isActive \/ "isActive" \in Fixed(acct'[h]),
         acct'[h].step = "login" => ~ Locked(users[u]),
         \A g \in Handler \ {h} : acct'[g] = acct[g],
         UNCHANGED <<users, passed, meant, failures, missed, lost>>
  PROVE  StaffInv'
<1>1. MemoryTypeOK' /\ \A v \in User : UserOK(v)'
  BY DEF StaffInv, MemoryTypeOK, UserOK, CountOK, Locked
<1>2. HolderOK(h)'
  <2>1. users[u].life = "live" /\ Strays(users[u], meant[u], failures[u]) \subseteq lost[u]
        /\ CountOK(users[u])
    BY DEF StaffInv, UserOK, Live
  <2>2. Strays(row, meant[u], failures[u]) \ Fixed(acct'[h]) \subseteq lost[u]
    BY <2>1 DEF Strays, Column
  <2>3. Strays(acct'[h].row, meant'[acct'[h].user], failures'[acct'[h].user]) \ Fixed(acct'[h])
          \subseteq lost'[acct'[h].user]
    BY <2>2
  <2> QED
    BY <2>1, <2>3 DEF HolderOK, CountOK, Locked
<1>3. ASSUME NEW g \in Handler \ {h}, Holding(acct[g])' PROVE HolderOK(g)'
  <2>1. acct'[g] = acct[g] /\ HolderOK(g)
    BY <1>3 DEF StaffInv
  <2> QED
    BY <2>1 DEF HolderOK, CountOK, Locked
<1> QED
  BY <1>1, <1>2, <1>3 DEF StaffInv

LEMMA RememberEffect ==
  ASSUME MemoryTypeOK, NEW h \in Handler, NEW u \in User, NEW fixed, NEW kept, NEW changed,
         changed \subseteq Column, kept \subseteq Column,
         Remember(h, u, fixed, kept, changed)
  PROVE  /\ missed' \in [Handler -> SUBSET Column] /\ lost' \in [User -> SUBSET Column]
         /\ lost'[u] = (lost[u] \ fixed) \cup (kept \cap missed[h])
         /\ \A v \in User \ {u} : lost'[v] = lost[v]
         /\ \A g \in Handler \ {h} :
              /\ missed[g] \subseteq missed'[g]
              /\ Holding(acct[g]) /\ acct[g].user = u => missed'[g] = missed[g] \cup changed
<1>1. /\ lost' = [lost EXCEPT ![u] = (lost[u] \ fixed) \cup (kept \cap missed[h])]
      /\ missed' = [g \in Handler |->
                      IF g = h THEN {}
                      ELSE IF Holds(g, u) THEN missed[g] \cup changed ELSE missed[g]]
  BY DEF Remember
<1>2. \A v \in User : lost[v] \in SUBSET Column
  BY DEF MemoryTypeOK
<1>3. /\ lost' \in [User -> SUBSET Column]
      /\ lost'[u] = (lost[u] \ fixed) \cup (kept \cap missed[h])
      /\ \A v \in User \ {u} : lost'[v] = lost[v]
  <2>1. (lost[u] \ fixed) \cup (kept \cap missed[h]) \in SUBSET Column
    BY <1>2
  <2> QED
    BY <1>1, <2>1 DEF MemoryTypeOK
<1>4. \A g \in Handler : missed[g] \in SUBSET Column
  BY DEF MemoryTypeOK
<1>5. \A g \in Handler : missed'[g] \in SUBSET Column
  BY <1>1, <1>4
<1>6. missed' \in [Handler -> SUBSET Column]
  BY <1>1, <1>5
<1>7. \A g \in Handler \ {h} :
        missed'[g] = IF Holds(g, u) THEN missed[g] \cup changed ELSE missed[g]
  BY <1>1
<1>8. ASSUME NEW g \in Handler \ {h}
      PROVE  /\ missed[g] \subseteq missed'[g]
             /\ Holding(acct[g]) /\ acct[g].user = u => missed'[g] = missed[g] \cup changed
  <2>1. Holds(g, u) <=> Holding(acct[g]) /\ acct[g].user = u
    BY DEF Holds, Holding
  <2> QED
    BY <1>7, <2>1
<1> QED
  BY <1>3, <1>6, <1>8

\* What is remembered of u, and of nobody else, becomes this.
MeantBecomes(u, purpose) ==
  purpose \in PurposeType /\ meant' = [meant EXCEPT ![u] = purpose]

CountBecomes(u, count) ==
  count \in 0 .. MaxFailedAttempts - 1 /\ failures' = [failures EXCEPT ![u] = count]

\* A step by which h writes the row of u and is done with it: whoever else has
\* loaded u has missed what changed, and where the row strays was lost.
LEMMA SaveAccountStep ==
  ASSUME StaffInv, NEW h \in Handler, NEW u \in User, NEW row \in Account, Write(u, row),
         users[u].life # "unborn", row.life # "unborn", CountOK(row),
         NEW fixed, NEW kept, NEW changed, NEW purpose, NEW count,
         changed \subseteq Column, kept \subseteq Column, fixed \subseteq changed,
         Remember(h, u, fixed, kept, changed),
         MeantBecomes(u, purpose), CountBecomes(u, count),
         \A entity \in Account :
           Strays(entity, purpose, count) \subseteq Strays(entity, meant[u], failures[u]) \cup changed,
         Strays(row, purpose, count) \subseteq (lost[u] \ fixed) \cup (kept \cap missed[h]),
         acct' \in [Handler -> AccountRequest \cup {NoRequest}], ~ Holding(acct'[h]),
         \A g \in Handler \ {h} : acct'[g] = acct[g],
         locks' \in locks .. MaxLocks
  PROVE  StaffInv'
<1>1. /\ users' \in [User -> Account] /\ users'[u] = row
      /\ \A v \in User \ {u} : users'[v] = users[v]
      /\ inactive' = {v \in User : ~ (users'[v].life = "live" /\ users'[v].isActive)}
      /\ passed' = passed
  BY WriteEffect DEF StaffInv
<1>2. /\ missed' \in [Handler -> SUBSET Column] /\ lost' \in [User -> SUBSET Column]
      /\ lost'[u] = (lost[u] \ fixed) \cup (kept \cap missed[h])
      /\ \A v \in User \ {u} : lost'[v] = lost[v]
      /\ \A g \in Handler \ {h} :
           /\ missed[g] \subseteq missed'[g]
           /\ Holding(acct[g]) /\ acct[g].user = u => missed'[g] = missed[g] \cup changed
  <2>1. MemoryTypeOK
    BY DEF StaffInv
  <2> QED
    BY <2>1, RememberEffect
<1>3. /\ meant' \in [User -> PurposeType] /\ meant'[u] = purpose
      /\ \A v \in User \ {u} : meant'[v] = meant[v]
      /\ failures' \in [User -> 0 .. MaxFailedAttempts - 1] /\ failures'[u] = count
      /\ \A v \in User \ {u} : failures'[v] = failures[v]
  BY DEF StaffInv, MemoryTypeOK, MeantBecomes, CountBecomes
<1>4. AccountsTypeOK'
  BY <1>1 DEF StaffInv, AccountsTypeOK, Live
<1>5. MemoryTypeOK'
  BY <1>2, <1>3 DEF MemoryTypeOK
<1>6. UserOK(u)'
  BY <1>1, <1>2, <1>3 DEF UserOK, CountOK, Locked
<1>7. ASSUME NEW v \in User \ {u} PROVE UserOK(v)'
  <2>1. UserOK(v)
    BY DEF StaffInv
  <2> QED
    BY <1>1, <1>2, <1>3, <2>1 DEF UserOK, CountOK, Locked
<1>8. ASSUME NEW g \in Handler, Holding(acct[g])' PROVE HolderOK(g)'
  <2>1. g # h /\ acct'[g] = acct[g] /\ HolderOK(g) /\ acct[g].user \in User /\ acct[g].row \in Account
    BY <1>8, Requests DEF StaffInv, Holding
  <2>2. CASE acct[g].user # u
    <3>1. /\ users'[acct[g].user] = users[acct[g].user] /\ lost'[acct[g].user] = lost[acct[g].user]
          /\ meant'[acct[g].user] = meant[acct[g].user]
          /\ failures'[acct[g].user] = failures[acct[g].user]
          /\ missed[g] \subseteq missed'[g]
      BY <1>1, <1>2, <1>3, <2>1, <2>2
    <3> QED
      BY <1>1, <2>1, <3>1 DEF HolderOK, CountOK, Locked
  <2>3. CASE acct[g].user = u
    <3>1. missed'[g] = missed[g] \cup changed /\ lost[u] \ fixed \subseteq lost'[u]
      BY <1>2, <1>8, <2>1, <2>3
    <3>2. Strays(acct[g].row, purpose, count)
            \subseteq Strays(acct[g].row, meant[u], failures[u]) \cup changed
      BY <2>1
    <3>3. Strays(acct[g].row, meant[u], failures[u]) \ Fixed(acct[g]) \subseteq missed[g] \cup lost[u]
      BY <2>1, <2>3 DEF HolderOK
    <3>4. Strays(acct[g].row, purpose, count) \ Fixed(acct[g]) \subseteq missed'[g] \cup lost'[u]
      BY <3>1, <3>2, <3>3
    <3>5. /\ acct[g].row.life = "live" /\ CountOK(acct[g].row)
          /\ acct[g].step = "login" => ~ Locked(acct[g].row)
      BY <2>1 DEF HolderOK
    <3> QED
      BY <1>1, <1>3, <2>1, <2>3, <3>4, <3>5 DEF HolderOK, CountOK, Locked
  <2> QED
    BY <2>2, <2>3
<1> QED
  BY <1>4, <1>5, <1>6, <1>7, <1>8 DEF StaffInv

-----------------------------------------------------------------------------
(* The writes of a user *)

LEMMA NextCount ==
  ASSUME NEW n \in 0 .. MaxFailedAttempts - 1
  PROVE  (n + 1) % MaxFailedAttempts = IF n + 1 >= MaxFailedAttempts THEN 0 ELSE n + 1
BY AccountAssumption

LEMMA CountFailureIs ==
  ASSUME NEW row \in Account, locks \in Nat, CountFailure(row).lockedUntil <= MaxLocks
  PROVE  /\ CountFailure(row) \in Account
         /\ CountFailure(row).life = row.life
         /\ CountFailure(row).isActive = row.isActive
         /\ CountFailure(row).password = row.password
         /\ CountFailure(row).attempts = (row.attempts + 1) % MaxFailedAttempts
         /\ CountFailure(row).lockedUntil = row.lockedUntil \/ CountFailure(row).attempts = 0
         /\ CountFailure(row).lockedUntil \in 0 .. MaxLocks
<1>1. (row.attempts + 1) % MaxFailedAttempts
        = IF row.attempts + 1 >= MaxFailedAttempts THEN 0 ELSE row.attempts + 1
  BY NextCount, AccountFields
<1>2. CASE row.attempts + 1 >= MaxFailedAttempts
  <2>1. CountFailure(row) = [life |-> row.life, isActive |-> row.isActive, password |-> row.password,
                             attempts |-> 0, lockedUntil |-> locks + 1]
    BY <1>2 DEF CountFailure, Account
  <2> QED
    BY <1>1, <1>2, <2>1, AccountFields, AccountAssumption DEF Account
<1>3. CASE ~ row.attempts + 1 >= MaxFailedAttempts
  <2>1. CountFailure(row) = [life |-> row.life, isActive |-> row.isActive, password |-> row.password,
                             attempts |-> row.attempts + 1, lockedUntil |-> row.lockedUntil]
    BY <1>3 DEF CountFailure, Account
  <2> QED
    BY <1>1, <1>3, <2>1, AccountFields, AccountAssumption DEF Account
<1> QED
  BY <1>2, <1>3

\* What was loaded, of a handler that holds a user.
LEMMA Held ==
  ASSUME StaffInv, NEW h \in Handler, Holding(acct[h])
  PROVE  /\ acct[h].user \in User /\ acct[h].row \in Account
         /\ users[acct[h].user] \in Account /\ users[acct[h].user].life # "unborn"
         /\ meant[acct[h].user] \in PurposeType
         /\ failures[acct[h].user] \in 0 .. MaxFailedAttempts - 1
         /\ missed[h] \subseteq Column /\ lost[acct[h].user] \subseteq Column
         /\ acct[h].row.life = "live" /\ CountOK(acct[h].row)
         /\ acct[h].step = "login" => ~ Locked(acct[h].row)
         /\ Strays(acct[h].row, meant[acct[h].user], failures[acct[h].user]) \ Fixed(acct[h])
              \subseteq missed[h] \cup lost[acct[h].user]
<1>1. acct[h].user \in User /\ acct[h].row \in Account
  BY Requests DEF StaffInv, Holding
<1>2. HolderOK(h)
  BY DEF StaffInv
<1>3. /\ users[acct[h].user] \in Account
      /\ meant[acct[h].user] \in PurposeType
      /\ failures[acct[h].user] \in 0 .. MaxFailedAttempts - 1
      /\ missed[h] \in SUBSET Column /\ lost[acct[h].user] \in SUBSET Column
  BY <1>1 DEF StaffInv, AccountsTypeOK, MemoryTypeOK
<1> QED
  BY <1>1, <1>2, <1>3 DEF HolderOK

LEMMA FailedLoginStep ==
  ASSUME StaffInv, NEW h \in Handler, FailedLogin(h)
  PROVE  StaffInv'
<1>1. PICK u, e : u = acct[h].user /\ e = acct[h].row
  OBVIOUS
<1>0. PICK fixed, kept, changed : fixed = {} /\ kept = Column /\ changed = {"attempts"}
  OBVIOUS
<1> DEFINE row == CountFailure(e)
           count == (failures[u] + 1) % MaxFailedAttempts
<1>2. /\ u \in User /\ e \in Account /\ users[u].life # "unborn"
      /\ meant[u] \in PurposeType /\ failures[u] \in 0 .. MaxFailedAttempts - 1
      /\ missed[h] \subseteq Column /\ lost[u] \subseteq Column
      /\ e.life = "live" /\ ~ Locked(e)
      /\ Strays(e, meant[u], failures[u]) \subseteq missed[h] \cup lost[u]
  BY <1>1, Held DEF FailedLogin, Handling, Holding, Fixed
<1>3. /\ row \in Account /\ row.life = "live" /\ row.isActive = e.isActive
      /\ row.password = e.password
      /\ row.attempts = (e.attempts + 1) % MaxFailedAttempts
      /\ row.lockedUntil = e.lockedUntil \/ row.attempts = 0
      /\ row.lockedUntil \in 0 .. MaxLocks
  BY <1>1, <1>2, CountFailureIs DEF FailedLogin, StaffInv, AccountsTypeOK
<1>4. /\ Write(u, row)
      /\ Remember(h, u, fixed, kept, changed)
      /\ meant' = meant /\ failures' = [failures EXCEPT ![u] = count]
      /\ acct' = [acct EXCEPT ![h] = [step |-> "reject", user |-> u]]
      /\ locks' = IF row.lockedUntil > locks THEN row.lockedUntil ELSE locks
  BY <1>0, <1>1 DEF FailedLogin, SaveWithSecret, Continues
<1>5. count \in 0 .. MaxFailedAttempts - 1
  BY <1>2, NextCount, AccountAssumption
<1>6. CountOK(row)
  BY <1>2, <1>3 DEF CountOK, Locked
<1>7. MeantBecomes(u, meant[u]) /\ CountBecomes(u, count)
  BY <1>2, <1>4, <1>5 DEF StaffInv, MemoryTypeOK, MeantBecomes, CountBecomes
<1>8. \A entity \in Account :
        Strays(entity, meant[u], count) \subseteq Strays(entity, meant[u], failures[u]) \cup changed
  BY <1>0 DEF Strays
<1>9. Strays(row, meant[u], count) \subseteq (lost[u] \ fixed) \cup (kept \cap missed[h])
  <2>1. Strays(row, meant[u], count) \subseteq Strays(e, meant[u], failures[u])
    BY <1>2, <1>3 DEF Strays
  <2> QED
    BY <1>0, <1>2, <2>1
<1>10. /\ acct' \in [Handler -> AccountRequest \cup {NoRequest}] /\ ~ Holding(acct'[h])
       /\ \A g \in Handler \ {h} : acct'[g] = acct[g]
  <2>1. [step |-> "reject", user |-> u] \in AccountRequest
    BY <1>2 DEF AccountRequest
  <2> QED
    BY <1>4, <2>1, ContinuesEffect DEF StaffInv, Holding
<1>11. locks' \in locks .. MaxLocks
  BY <1>3, <1>4, AccountAssumption DEF StaffInv, AccountsTypeOK
<1>12. changed \subseteq Column /\ kept \subseteq Column /\ fixed \subseteq changed
  BY <1>0 DEF Column
<1> HIDE DEF row, count
<1> QED
  BY <1>2, <1>3, <1>4, <1>5, <1>6, <1>7, <1>8, <1>9, <1>10, <1>11, <1>12, SaveAccountStep

\* The other entities that are saved, column by column.
LEMMA ResetIs ==
  ASSUME NEW row \in Account
  PROVE  /\ Reset(row) \in Account
         /\ Reset(row).life = row.life /\ Reset(row).isActive = row.isActive
         /\ Reset(row).password = row.password /\ Reset(row).attempts = 0
<1>1. PICK counted : counted = [row EXCEPT !.attempts = 0]
  OBVIOUS
<1>2. counted = [life |-> row.life, isActive |-> row.isActive, password |-> row.password,
                 attempts |-> 0, lockedUntil |-> row.lockedUntil]
  BY <1>1 DEF Account
<1>3. Reset(row) = [counted EXCEPT !.lockedUntil = NoLock]
  BY <1>1, Zenon DEF Reset
<1>4. Reset(row) = [life |-> row.life, isActive |-> row.isActive, password |-> row.password,
                    attempts |-> 0, lockedUntil |-> NoLock]
  BY <1>2, <1>3
<1> QED
  BY <1>4, AccountFields, AccountAssumption DEF Account, NoLock

\* row with other values in the columns that an administrator or a password
\* change sets.
LEMMA EntityIs ==
  ASSUME NEW row \in Account, NEW life \in {"unborn", "live", "removed"},
         NEW isActive \in BOOLEAN, NEW password \in Password, NEW entity,
         entity = [life |-> life, isActive |-> isActive, password |-> password,
                   attempts |-> row.attempts, lockedUntil |-> row.lockedUntil]
  PROVE  /\ entity \in Account
         /\ entity.life = life /\ entity.isActive = isActive /\ entity.password = password
         /\ entity.attempts = row.attempts /\ entity.lockedUntil = row.lockedUntil
BY AccountFields DEF Account

LEMMA ChangesIs ==
  ASSUME NEW row \in Account
  PROVE  /\ \A password : [row EXCEPT !.password = password] =
              [life |-> row.life, isActive |-> row.isActive, password |-> password,
               attempts |-> row.attempts, lockedUntil |-> row.lockedUntil]
         /\ \A life : [row EXCEPT !.life = life] =
              [life |-> life, isActive |-> row.isActive, password |-> row.password,
               attempts |-> row.attempts, lockedUntil |-> row.lockedUntil]
         /\ \A isActive : [row EXCEPT !.isActive = isActive] =
              [life |-> row.life, isActive |-> isActive, password |-> row.password,
               attempts |-> row.attempts, lockedUntil |-> row.lockedUntil]
BY DEF Account

\* The same of what was meant.
LEMMA PurposeIs ==
  ASSUME NEW purpose \in PurposeType
  PROVE  /\ purpose.life \in {"unborn", "live", "removed"} /\ purpose.isActive \in BOOLEAN
         /\ purpose.password \in Password
         /\ \A password : [purpose EXCEPT !.password = password] =
              [life |-> purpose.life, isActive |-> purpose.isActive, password |-> password]
         /\ \A life : [purpose EXCEPT !.life = life] =
              [life |-> life, isActive |-> purpose.isActive, password |-> purpose.password]
         /\ \A isActive : [purpose EXCEPT !.isActive = isActive] =
              [life |-> purpose.life, isActive |-> isActive, password |-> purpose.password]
BY DEF PurposeType

LEMMA PassedLoginStep ==
  ASSUME StaffInv, NEW h \in Handler, PassedLogin(h)
  PROVE  StaffInv'
<1>1. PICK u, e : u = acct[h].user /\ e = acct[h].row
  OBVIOUS
<1>0. PICK fixed, kept, changed :
        fixed = {"attempts"} /\ kept = Column \ {"attempts"} /\ changed = {"attempts"}
  OBVIOUS
<1>2. /\ u \in User /\ e \in Account /\ users[u].life # "unborn"
      /\ meant[u] \in PurposeType /\ missed[h] \subseteq Column /\ lost[u] \subseteq Column
      /\ e.life = "live"
      /\ Strays(e, meant[u], failures[u]) \subseteq missed[h] \cup lost[u]
  BY <1>1, Held DEF PassedLogin, Handling, Holding, Fixed
<1>3. PICK row : /\ row = Reset(e) /\ row \in Account
                 /\ row.life = "live" /\ row.isActive = e.isActive
                 /\ row.password = e.password /\ row.attempts = 0
  BY <1>2, ResetIs
<1>4. /\ Write(u, row) /\ Remember(h, u, fixed, kept, changed)
      /\ meant' = meant /\ failures' = [failures EXCEPT ![u] = 0]
      /\ acct' = [acct EXCEPT ![h] = [step |-> "issue", user |-> u]]
      /\ locks' = locks
  BY <1>0, <1>1, <1>3 DEF PassedLogin, SaveWithSecret, Continues
<1>5. MeantBecomes(u, meant[u]) /\ CountBecomes(u, 0)
  BY <1>2, <1>4, AccountAssumption DEF StaffInv, MemoryTypeOK, MeantBecomes, CountBecomes
<1>6. \A entity \in Account :
        Strays(entity, meant[u], 0) \subseteq Strays(entity, meant[u], failures[u]) \cup changed
  BY <1>0 DEF Strays
<1>7. Strays(row, meant[u], 0) \subseteq (lost[u] \ fixed) \cup (kept \cap missed[h])
  <2>1. Strays(row, meant[u], 0) \subseteq Strays(e, meant[u], failures[u]) \ {"attempts"}
    BY <1>2, <1>3 DEF Strays
  <2> QED
    BY <1>0, <1>2, <2>1
<1>8. /\ acct' \in [Handler -> AccountRequest \cup {NoRequest}] /\ ~ Holding(acct'[h])
      /\ \A g \in Handler \ {h} : acct'[g] = acct[g]
  <2>1. [step |-> "issue", user |-> u] \in AccountRequest
    BY <1>2 DEF AccountRequest
  <2> QED
    BY <1>4, <2>1, ContinuesEffect DEF StaffInv, Holding
<1>9. locks' \in locks .. MaxLocks /\ CountOK(row)
  BY <1>3, <1>4, AccountAssumption DEF StaffInv, AccountsTypeOK, CountOK
<1>10. changed \subseteq Column /\ kept \subseteq Column /\ fixed \subseteq changed
  BY <1>0 DEF Column
<1> QED
  BY <1>2, <1>3, <1>4, <1>5, <1>6, <1>7, <1>8, <1>9, <1>10, SaveAccountStep

LEMMA SetPasswordStep ==
  ASSUME StaffInv, NEW h \in Handler, SetPassword(h)
  PROVE  StaffInv'
<1>1. PICK u, e, password :
        u = acct[h].user /\ e = acct[h].row /\ password = acct[h].password
  OBVIOUS
<1>0. PICK fixed, kept, changed :
        fixed = {"password"} /\ kept = Column \ {"password"} /\ changed = {"password"}
  OBVIOUS
<1>2. /\ u \in User /\ e \in Account /\ users[u].life # "unborn"
      /\ meant[u] \in PurposeType /\ failures[u] \in 0 .. MaxFailedAttempts - 1
      /\ missed[h] \subseteq Column /\ lost[u] \subseteq Column
      /\ e.life = "live" /\ CountOK(e)
      /\ Strays(e, meant[u], failures[u]) \subseteq missed[h] \cup lost[u]
  BY <1>1, Held DEF SetPassword, Handling, Holding, Fixed
<1>3. password \in Password
  BY <1>1, Requests DEF SetPassword, Handling, StaffInv
<1>4. PICK row : row = [e EXCEPT !.password = password]
  OBVIOUS
<1>13. /\ row \in Account /\ row.life = "live" /\ row.isActive = e.isActive
       /\ row.password = password
       /\ row.attempts = e.attempts /\ row.lockedUntil = e.lockedUntil
  <2>1. row = [life |-> e.life, isActive |-> e.isActive, password |-> password,
               attempts |-> e.attempts, lockedUntil |-> e.lockedUntil]
    BY <1>2, <1>4, ChangesIs
  <2>2. e.life \in {"unborn", "live", "removed"} /\ e.isActive \in BOOLEAN
    BY <1>2, AccountFields
  <2> QED
    BY <1>2, <1>3, <2>1, <2>2, EntityIs
<1>5. PICK purpose : /\ purpose = [meant[u] EXCEPT !.password = password]
                     /\ purpose \in PurposeType
                     /\ purpose.life = meant[u].life /\ purpose.isActive = meant[u].isActive
                     /\ purpose.password = password
  <2>1. [meant[u] EXCEPT !.password = password] =
          [life |-> meant[u].life, isActive |-> meant[u].isActive, password |-> password]
    BY <1>2, PurposeIs
  <2> QED
    BY <1>2, <1>3, <2>1, PurposeIs DEF PurposeType
<1>6. /\ Write(u, row) /\ Remember(h, u, fixed, kept, changed)
      /\ meant' = [meant EXCEPT ![u] = purpose] /\ failures' = failures
      /\ acct' = [acct EXCEPT ![h] = [step |-> "revoke", user |-> u]]
      /\ locks' = locks
  <2>1. meant' = [meant EXCEPT ![u].password = password]
    BY <1>1 DEF SetPassword
  <2>2. meant' = [meant EXCEPT ![u] = purpose]
    BY <1>5, <2>1
  <2> QED
    BY <1>0, <1>1, <1>4, <2>2 DEF SetPassword, SaveWithSecret, Continues
<1>7. MeantBecomes(u, purpose) /\ CountBecomes(u, failures[u])
  BY <1>2, <1>5, <1>6 DEF StaffInv, MemoryTypeOK, MeantBecomes, CountBecomes
<1>8. \A entity \in Account :
        Strays(entity, purpose, failures[u]) \subseteq Strays(entity, meant[u], failures[u]) \cup changed
  BY <1>0, <1>5 DEF Strays
<1>9. Strays(row, purpose, failures[u]) \subseteq (lost[u] \ fixed) \cup (kept \cap missed[h])
  <2>1. Strays(row, purpose, failures[u]) \subseteq Strays(e, meant[u], failures[u]) \ {"password"}
    BY <1>2, <1>5, <1>13 DEF Strays
  <2> QED
    BY <1>0, <1>2, <2>1
<1>10. /\ acct' \in [Handler -> AccountRequest \cup {NoRequest}] /\ ~ Holding(acct'[h])
       /\ \A g \in Handler \ {h} : acct'[g] = acct[g]
  <2>1. [step |-> "revoke", user |-> u] \in AccountRequest
    BY <1>2 DEF AccountRequest
  <2> QED
    BY <1>6, <2>1, ContinuesEffect DEF StaffInv, Holding
<1>11. locks' \in locks .. MaxLocks /\ CountOK(row)
  BY <1>2, <1>6, <1>13, AccountAssumption DEF StaffInv, AccountsTypeOK, CountOK, Locked
<1>12. changed \subseteq Column /\ kept \subseteq Column /\ fixed \subseteq changed
  BY <1>0 DEF Column
<1> QED
  BY <1>2, <1>6, <1>7, <1>8, <1>9, <1>10, <1>11, <1>12, <1>13, SaveAccountStep

LEMMA UpdateStep ==
  ASSUME StaffInv, NEW h \in Handler, Update(h)
  PROVE  StaffInv'
<1>1. PICK u, e, fixed : u = acct[h].user /\ e = acct[h].row /\ fixed = acct[h].fixed
  OBVIOUS
<1>0. PICK kept : kept = Column \ (fixed \cup {"password"})
  OBVIOUS
<1>2. /\ u \in User /\ e \in Account /\ users[u] \in Account /\ users[u].life # "unborn"
      /\ meant[u] \in PurposeType /\ failures[u] \in 0 .. MaxFailedAttempts - 1
      /\ missed[h] \subseteq Column /\ lost[u] \subseteq Column
      /\ e.life = "live" /\ CountOK(e)
      /\ Strays(e, meant[u], failures[u]) \ fixed \subseteq missed[h] \cup lost[u]
  BY <1>1, Held DEF Update, Handling, Holding, Fixed
<1>3. fixed \subseteq {"isActive"}
  BY <1>1, Requests DEF Update, Handling, StaffInv
<1>4. PICK row : row = [e EXCEPT !.password = users[u].password]
  OBVIOUS
<1>5. /\ row \in Account /\ row.life = "live" /\ row.isActive = e.isActive
      /\ row.password = users[u].password
      /\ row.attempts = e.attempts /\ row.lockedUntil = e.lockedUntil
  <2>1. row = [life |-> e.life, isActive |-> e.isActive, password |-> users[u].password,
               attempts |-> e.attempts, lockedUntil |-> e.lockedUntil]
    BY <1>2, <1>4, ChangesIs
  <2>2. /\ e.life \in {"unborn", "live", "removed"} /\ e.isActive \in BOOLEAN
        /\ users[u].password \in Password
    BY <1>2, AccountFields
  <2> QED
    BY <1>2, <2>1, <2>2, EntityIs
<1>6. PICK isActive : isActive = IF fixed = {} THEN meant[u].isActive ELSE e.isActive
  OBVIOUS
<1>7. PICK purpose : purpose = [meant[u] EXCEPT !.isActive = isActive]
  OBVIOUS
<1>8. /\ purpose \in PurposeType
      /\ purpose.life = meant[u].life /\ purpose.isActive = isActive
      /\ purpose.password = meant[u].password
  <2>1. purpose = [life |-> meant[u].life, isActive |-> isActive, password |-> meant[u].password]
    BY <1>2, <1>7, PurposeIs
  <2>2. isActive \in BOOLEAN
    BY <1>2, <1>6, PurposeIs, AccountFields
  <2> QED
    BY <1>2, <2>1, <2>2, PurposeIs DEF PurposeType
<1>9. Write(u, row) /\ Remember(h, u, fixed, kept, fixed)
  BY <1>0, <1>1, <1>4 DEF Update, Save
<1>10. MeantBecomes(u, purpose) /\ CountBecomes(u, failures[u])
  <2>1. meant' = [meant EXCEPT ![u].isActive = IF fixed = {} THEN @ ELSE e.isActive]
    BY <1>1 DEF Update
  <2>2. meant' = [meant EXCEPT ![u] = purpose]
    BY <1>2, <1>6, <1>7, <2>1
  <2>3. failures' = failures
    BY DEF Update
  <2> QED
    BY <1>2, <1>8, <2>2, <2>3 DEF StaffInv, MemoryTypeOK, MeantBecomes, CountBecomes
<1>11. \A entity \in Account :
         Strays(entity, purpose, failures[u]) \subseteq Strays(entity, meant[u], failures[u]) \cup fixed
  <2>1. fixed = {} \/ "isActive" \in fixed
    BY <1>3
  <2> QED
    BY <1>6, <1>8, <2>1 DEF Strays
<1>12. Strays(row, purpose, failures[u]) \subseteq (lost[u] \ fixed) \cup (kept \cap missed[h])
  <2>1. Strays(users[u], meant[u], failures[u]) \subseteq lost[u]
    BY <1>2 DEF StaffInv, UserOK
  <2>2. ASSUME NEW c \in Strays(row, purpose, failures[u])
        PROVE  c \in (lost[u] \ fixed) \cup (kept \cap missed[h])
    <3>1. c \in Column /\ c \notin fixed
      BY <1>3, <1>5, <1>6, <1>8, <2>2 DEF Strays
    <3>2. CASE c = "password"
      <4>1. c \in Strays(users[u], meant[u], failures[u])
        BY <1>5, <1>8, <2>2, <3>1, <3>2 DEF Strays
      <4> QED
        BY <2>1, <3>1, <4>1
    <3>3. CASE c # "password"
      <4>1. c = "isActive" => fixed = {}
        BY <1>3, <3>1
      <4>2. c = "isActive" => purpose.isActive = meant[u].isActive
        BY <1>6, <1>8, <4>1
      <4>3. c \in Strays(e, meant[u], failures[u])
        BY <1>2, <1>5, <1>8, <2>2, <3>3, <4>2 DEF Strays
      <4> QED
        BY <1>0, <1>2, <3>1, <3>3, <4>3
    <3> QED
      BY <3>2, <3>3
  <2> QED
    BY <2>2
<1>13. /\ acct' \in [Handler -> AccountRequest \cup {NoRequest}] /\ ~ Holding(acct'[h])
       /\ \A g \in Handler \ {h} : acct'[g] = acct[g]
  BY ContinuesEffect DEF Update, Continues, StaffInv, Holding, NoRequest
<1>14. locks' \in locks .. MaxLocks /\ CountOK(row)
  BY <1>2, <1>5, AccountAssumption DEF Update, StaffInv, AccountsTypeOK, CountOK, Locked
<1>15. fixed \subseteq Column /\ kept \subseteq Column
  BY <1>0, <1>3 DEF Column
<1> QED
  BY <1>2, <1>5, <1>9, <1>10, <1>11, <1>12, <1>13, <1>14, <1>15, SaveAccountStep

LEMMA RemoveStep ==
  ASSUME StaffInv, NEW h \in Handler, NEW u \in User, Remove(h, u)
  PROVE  StaffInv'
<1>0. PICK fixed, kept : fixed = {"life"} /\ kept = {}
  OBVIOUS
<1>1. /\ users[u] \in Account /\ users[u].life = "live"
      /\ meant[u] \in PurposeType /\ failures[u] \in 0 .. MaxFailedAttempts - 1
      /\ Strays(users[u], meant[u], failures[u]) \subseteq lost[u] /\ CountOK(users[u])
  BY DEF Remove, Live, StaffInv, AccountsTypeOK, MemoryTypeOK, UserOK
<1>2. PICK row : row = [users[u] EXCEPT !.life = "removed"]
  OBVIOUS
<1>3. /\ row \in Account /\ row.life = "removed" /\ row.isActive = users[u].isActive
      /\ row.password = users[u].password
      /\ row.attempts = users[u].attempts /\ row.lockedUntil = users[u].lockedUntil
  <2>1. row = [life |-> "removed", isActive |-> users[u].isActive, password |-> users[u].password,
               attempts |-> users[u].attempts, lockedUntil |-> users[u].lockedUntil]
    BY <1>1, <1>2, ChangesIs
  <2>2. users[u].isActive \in BOOLEAN /\ users[u].password \in Password
    BY <1>1, AccountFields
  <2> QED
    BY <1>1, <2>1, <2>2, EntityIs
<1>4. PICK purpose : purpose = [meant[u] EXCEPT !.life = "removed"]
  OBVIOUS
<1>5. /\ purpose \in PurposeType
      /\ purpose.life = "removed" /\ purpose.isActive = meant[u].isActive
      /\ purpose.password = meant[u].password
  <2>1. purpose = [life |-> "removed", isActive |-> meant[u].isActive, password |-> meant[u].password]
    BY <1>1, <1>4, PurposeIs
  <2> QED
    BY <1>1, <2>1, PurposeIs DEF PurposeType
<1>6. Write(u, row) /\ Remember(h, u, fixed, kept, fixed)
  BY <1>0, <1>2 DEF Remove
<1>7. MeantBecomes(u, purpose) /\ CountBecomes(u, failures[u])
  <2>1. meant' = [meant EXCEPT ![u].life = "removed"]
    BY DEF Remove
  <2>2. meant' = [meant EXCEPT ![u] = purpose]
    BY <1>4, <2>1
  <2>3. failures' = failures
    BY DEF Remove
  <2> QED
    BY <1>1, <1>5, <2>2, <2>3 DEF StaffInv, MemoryTypeOK, MeantBecomes, CountBecomes
<1>8. \A entity \in Account :
        Strays(entity, purpose, failures[u]) \subseteq Strays(entity, meant[u], failures[u]) \cup fixed
  BY <1>0, <1>5 DEF Strays
<1>9. Strays(row, purpose, failures[u]) \subseteq (lost[u] \ fixed) \cup (kept \cap missed[h])
  <2>1. Strays(row, purpose, failures[u]) \subseteq Strays(users[u], meant[u], failures[u]) \ fixed
    BY <1>0, <1>3, <1>5 DEF Strays
  <2> QED
    BY <1>1, <2>1
<1>10. /\ acct' \in [Handler -> AccountRequest \cup {NoRequest}] /\ ~ Holding(acct'[h])
       /\ \A g \in Handler \ {h} : acct'[g] = acct[g]
  BY ContinuesEffect DEF Remove, Begins, StaffInv, Holding, NoRequest
<1>11. locks' \in locks .. MaxLocks /\ CountOK(row)
  BY <1>1, <1>3, AccountAssumption DEF Remove, StaffInv, AccountsTypeOK, CountOK, Locked
<1>12. fixed \subseteq Column /\ kept \subseteq Column
  BY <1>0 DEF Column
<1> QED
  BY <1>1, <1>3, <1>6, <1>7, <1>8, <1>9, <1>10, <1>11, <1>12, SaveAccountStep

LEMMA InsertStep ==
  ASSUME StaffInv, NEW h \in Handler, Insert(h)
  PROVE  StaffInv'
<1>1. PICK u, row : u = acct[h].user /\ row = Born(acct[h].password)
  OBVIOUS
<1>2. u \in User /\ users[u].life = "unborn" /\ failures[u] = 0
  BY <1>1, Requests DEF Insert, Handling, IndexAllows, StaffInv, UserOK
<1>3. /\ row \in Account /\ row.life = "live" /\ row.isActive = TRUE
      /\ row.attempts = 0
      /\ Purpose(row) \in PurposeType
      /\ Purpose(row).life = row.life /\ Purpose(row).isActive = row.isActive
      /\ Purpose(row).password = row.password
  <2>1. acct[h].password \in Password
    BY Requests DEF Insert, Handling, StaffInv
  <2> QED
    BY <1>1, <2>1, AccountAssumption DEF Born, Account, NoLock, Purpose, PurposeType
<1>4. /\ users' \in [User -> Account] /\ users'[u] = row
      /\ \A v \in User \ {u} : users'[v] = users[v]
      /\ inactive' = {v \in User : ~ (users'[v].life = "live" /\ users'[v].isActive)}
      /\ passed' = passed
  BY <1>1, <1>2, <1>3, WriteEffect DEF Insert, StaffInv
<1>5. /\ acct' \in [Handler -> AccountRequest \cup {NoRequest}] /\ ~ Holding(acct'[h])
      /\ \A g \in Handler \ {h} : acct'[g] = acct[g]
  BY ContinuesEffect DEF Insert, Continues, StaffInv, Holding, NoRequest
<1>6. /\ meant' \in [User -> PurposeType] /\ meant'[u] = Purpose(row)
      /\ \A v \in User \ {u} : meant'[v] = meant[v]
  BY <1>1, <1>2, <1>3 DEF Insert, StaffInv, MemoryTypeOK
<1>7. UNCHANGED <<locks, failures, missed, lost>>
  BY DEF Insert
<1>8. AccountsTypeOK' /\ MemoryTypeOK'
  BY <1>4, <1>5, <1>6, <1>7 DEF StaffInv, AccountsTypeOK, MemoryTypeOK, Live
<1>9. UserOK(u)'
  BY <1>2, <1>3, <1>4, <1>6, <1>7 DEF UserOK, Strays, CountOK
<1>10. ASSUME NEW v \in User \ {u} PROVE UserOK(v)'
  <2>1. UserOK(v)
    BY DEF StaffInv
  <2> QED
    BY <1>4, <1>6, <1>7, <2>1 DEF UserOK, CountOK, Locked
<1>11. ASSUME NEW g \in Handler, Holding(acct[g])' PROVE HolderOK(g)'
  <2>1. acct'[g] = acct[g] /\ HolderOK(g) /\ acct[g].user \in User
    BY <1>5, <1>11, Requests DEF StaffInv, Holding
  <2>2. acct[g].user # u
    BY <1>2, <2>1 DEF HolderOK
  <2> QED
    BY <1>4, <1>6, <1>7, <2>1, <2>2 DEF HolderOK, CountOK, Locked
<1> QED
  BY <1>8, <1>9, <1>10, <1>11 DEF StaffInv

-----------------------------------------------------------------------------
(* The steps that load, and those that touch no row *)

LEMMA LoadUserStep ==
  ASSUME StaffInv, NEW h \in Handler,
         \/ \E u \in User, password \in Password : LoadForLogin(h, u, password)
         \/ LoadForSet(h)
  PROVE  StaffInv'
<1>1. CASE \E u \in User, password \in Password : LoadForLogin(h, u, password)
  <2>1. PICK u \in User, password \in Password : LoadForLogin(h, u, password)
    BY <1>1
  <2>2. PICK request : request = [step |-> "login", user |-> u, row |-> users[u], password |-> password]
    OBVIOUS
  <2>3. /\ users[u] \in Account /\ users[u].life = "live" /\ ~ Locked(users[u])
        /\ acct' = [acct EXCEPT ![h] = request]
        /\ UNCHANGED <<users, locks, passed, meant, failures, missed, lost, inactive>>
    BY <2>1, <2>2 DEF LoadForLogin, Begins, BeginLogin, Live, memory, StaffInv, AccountsTypeOK
  <2>4. request \in AccountRequest
    BY <2>2, <2>3 DEF AccountRequest
  <2>5. /\ acct' \in [Handler -> AccountRequest \cup {NoRequest}] /\ acct'[h] = request
        /\ \A g \in Handler \ {h} : acct'[g] = acct[g]
    BY <2>3, <2>4, ContinuesEffect DEF StaffInv
  <2>6. AccountsTypeOK'
    BY <2>3, <2>5 DEF StaffInv, AccountsTypeOK, Live
  <2> QED
    BY <2>2, <2>3, <2>5, <2>6, LoadStep DEF Live
<1>2. CASE LoadForSet(h)
  <2>1. PICK u : u = acct[h].user
    OBVIOUS
  <2>2. PICK request : request = [step |-> "set", user |-> u, row |-> users[u],
                                  password |-> acct[h].password]
    OBVIOUS
  <2>3. u \in User /\ acct[h].password \in Password
    BY <1>2, <2>1, Requests DEF LoadForSet, Handling, StaffInv
  <2>4. /\ users[u] \in Account /\ users[u].life = "live"
        /\ acct' = [acct EXCEPT ![h] = request]
        /\ UNCHANGED <<users, locks, passed, meant, failures, missed, lost, inactive>>
    BY <1>2, <2>1, <2>2, <2>3
       DEF LoadForSet, Continues, Live, memory, vars, StaffInv, AccountsTypeOK
  <2>5. request \in AccountRequest
    BY <2>2, <2>3, <2>4 DEF AccountRequest
  <2>6. /\ acct' \in [Handler -> AccountRequest \cup {NoRequest}] /\ acct'[h] = request
        /\ \A g \in Handler \ {h} : acct'[g] = acct[g]
    BY <2>4, <2>5, ContinuesEffect DEF StaffInv
  <2>7. AccountsTypeOK'
    BY <2>4, <2>6 DEF StaffInv, AccountsTypeOK, Live
  <2> QED
    BY <2>2, <2>3, <2>4, <2>6, <2>7, LoadStep DEF Live
<1> QED
  BY <1>1, <1>2

LEMMA LoadForUpdateStep ==
  ASSUME StaffInv, NEW h \in Handler, NEW u \in User, NEW dto \in UpdateUserDto,
         LoadForUpdate(h, u, dto)
  PROVE  StaffInv'
<1>1. DOMAIN dto \subseteq {"isActive"}
      /\ ("isActive" \in DOMAIN dto => dto["isActive"] \in BOOLEAN)
  BY DEF UpdateUserDto
<1>2. PICK entity : entity = IF "isActive" \in DOMAIN dto
                             THEN [users[u] EXCEPT !.isActive = dto["isActive"]] ELSE users[u]
  OBVIOUS
<1>3. PICK request : request = [step |-> "update", user |-> u, row |-> entity, fixed |-> DOMAIN dto]
  OBVIOUS
<1>4. /\ users[u] \in Account /\ users[u].life = "live"
      /\ acct' = [acct EXCEPT ![h] = request]
      /\ UNCHANGED <<users, locks, passed, meant, failures, missed, lost, inactive>>
  BY <1>2, <1>3 DEF LoadForUpdate, Begins, Live, memory, vars, StaffInv, AccountsTypeOK
<1>5. /\ entity \in Account /\ entity.life = "live"
      /\ entity.password = users[u].password
      /\ entity.attempts = users[u].attempts /\ entity.lockedUntil = users[u].lockedUntil
      /\ entity.isActive = users[u].isActive \/ "isActive" \in DOMAIN dto
  <2>1. CASE "isActive" \in DOMAIN dto
    <3>1. PICK isActive \in BOOLEAN : isActive = dto["isActive"]
      BY <1>1, <2>1
    <3>2. entity = [life |-> users[u].life, isActive |-> isActive, password |-> users[u].password,
                    attempts |-> users[u].attempts, lockedUntil |-> users[u].lockedUntil]
      BY <1>2, <1>4, <2>1, <3>1, ChangesIs
    <3>3. users[u].life \in {"unborn", "live", "removed"} /\ users[u].password \in Password
      BY <1>4, AccountFields
    <3> QED
      BY <1>4, <2>1, <3>2, <3>3, EntityIs
  <2>2. CASE "isActive" \notin DOMAIN dto
    BY <1>2, <1>4, <2>2
  <2> QED
    BY <2>1, <2>2
<1>6. request \in AccountRequest
  BY <1>1, <1>3, <1>5 DEF AccountRequest
<1>7. /\ acct' \in [Handler -> AccountRequest \cup {NoRequest}] /\ acct'[h] = request
      /\ \A g \in Handler \ {h} : acct'[g] = acct[g]
  BY <1>4, <1>6, ContinuesEffect DEF StaffInv
<1>8. AccountsTypeOK'
  BY <1>4, <1>7 DEF StaffInv, AccountsTypeOK, Live
<1>9. Fixed(acct'[h]) = DOMAIN dto
  BY <1>3, <1>7 DEF Fixed
<1> QED
  BY <1>3, <1>4, <1>5, <1>7, <1>8, <1>9, LoadStep DEF Live

LEMMA OtherSteps ==
  ASSUME StaffInv, NEW h \in Handler,
         \/ \E u \in User, password \in Password :
              LoadForChange(h, u, password) \/ CheckEmail(h, u, password)
         \/ Issued(h) \/ EndSessions(h) \/ TokenStep(h) \/ Drop(h)
  PROVE  StaffInv'
<1>1. UNCHANGED <<users, locks, passed, meant, failures, lost, inactive>>
  BY DEF LoadForChange, ChangePassword, CheckEmail, Issued, IssueForLogin, EndSessions,
         RevokeAllForUser, TokenStep, BeginRefresh, BeginLogout, Load, RevokeFamily, Issue,
         Replace, LoadForLogout, Revoke, Respond, Fail, Drop, account, memory, vars
<1>2. PICK request \in AccountRequest \cup {NoRequest} :
        acct' = [acct EXCEPT ![h] = request] /\ ~ Holding(request)
  <2>1. CASE \E u \in User, password \in Password :
               LoadForChange(h, u, password) \/ CheckEmail(h, u, password)
    <3>1. PICK u \in User, password \in Password :
            LoadForChange(h, u, password) \/ CheckEmail(h, u, password)
      BY <2>1
    <3>2. \A step \in {"change", "create"} :
            /\ [step |-> step, user |-> u, password |-> password] \in AccountRequest
            /\ ~ Holding([step |-> step, user |-> u, password |-> password])
      BY DEF AccountRequest, Holding
    <3> QED
      BY <3>1, <3>2 DEF LoadForChange, CheckEmail, Begins
  <2>2. CASE Issued(h) \/ EndSessions(h) \/ TokenStep(h) \/ Drop(h)
    <3>1. acct' = [acct EXCEPT ![h] = NoRequest]
      BY <2>2 DEF Issued, EndSessions, TokenStep, Drop, Continues, account, StaffInv, AccountsTypeOK
    <3>2. NoRequest \in AccountRequest \cup {NoRequest}
      OBVIOUS
    <3>3. ~ Holding(NoRequest)
      BY DEF Holding, NoRequest
    <3> QED
      BY <3>1, <3>2, <3>3
  <2> QED
    BY <2>1, <2>2
<1>3. /\ acct' \in [Handler -> AccountRequest \cup {NoRequest}] /\ acct'[h] = request
      /\ \A g \in Handler \ {h} : acct'[g] = acct[g]
  BY <1>2, ContinuesEffect DEF StaffInv
<1>4. /\ missed' \in [Handler -> SUBSET Column]
      /\ \A g \in Handler \ {h} : missed'[g] = missed[g]
  <2>1. missed' = missed \/ missed' = [missed EXCEPT ![h] = {}]
    BY DEF LoadForChange, CheckEmail, Issued, EndSessions, TokenStep, Drop, memory
  <2> QED
    BY <2>1 DEF StaffInv, MemoryTypeOK
<1>5. AccountsTypeOK'
  BY <1>1, <1>3 DEF StaffInv, AccountsTypeOK, Live
<1> QED
  BY <1>1, <1>2, <1>3, <1>4, <1>5, ReleaseStep

LEMMA TimeSteps ==
  ASSUME StaffInv, TokenExpires \/ LockPasses
  PROVE  StaffInv'
<1>1. /\ UNCHANGED <<users, acct, locks, meant, failures, missed, lost, inactive>>
      /\ passed' = passed \/ (passed < locks /\ passed' = passed + 1)
  BY DEF TokenExpires, Expire, LockPasses, account, memory, vars
<1>2. passed \in Int /\ passed' \in 0 .. locks /\ passed' >= passed
  BY <1>1, AccountAssumption DEF StaffInv, AccountsTypeOK
<1>3. \A row \in Account : Locked(row)' => Locked(row)
  BY <1>2, AccountFields, AccountAssumption DEF Locked
<1>4. AccountsTypeOK' /\ MemoryTypeOK'
  BY <1>1, <1>2 DEF StaffInv, AccountsTypeOK, MemoryTypeOK, Live
<1>5. ASSUME NEW u \in User PROVE UserOK(u)'
  <2>1. PICK row : row = users[u]
    OBVIOUS
  <2>2. row \in Account /\ UserOK(u)
    BY <2>1 DEF StaffInv, AccountsTypeOK
  <2>3. CountOK(row)'
    BY <1>3, <2>1, <2>2 DEF UserOK, CountOK
  <2> QED
    BY <1>1, <2>1, <2>2, <2>3 DEF UserOK
<1>6. ASSUME NEW h \in Handler, Holding(acct[h])' PROVE HolderOK(h)'
  <2>1. PICK row : row = acct[h].row
    OBVIOUS
  <2>2. row \in Account /\ HolderOK(h)
    BY <1>1, <1>6, <2>1, Requests DEF StaffInv, Holding
  <2>3. CountOK(row)' /\ (acct[h].step = "login" => ~ Locked(row)')
    BY <1>3, <2>1, <2>2 DEF HolderOK, CountOK
  <2> QED
    BY <1>1, <2>1, <2>2, <2>3 DEF HolderOK
<1> QED
  BY <1>4, <1>5, <1>6 DEF StaffInv

LEMMA StaffInvInit == StaffInit => StaffInv
<1> SUFFICES ASSUME StaffInit PROVE StaffInv
  OBVIOUS
<1>1. PICK born, unborn : born = Born(FirstPassword) /\ unborn = [born EXCEPT !.life = "unborn"]
  OBVIOUS
<1>2. /\ born \in Account /\ born.life = "live"
      /\ born.isActive = TRUE /\ born.attempts = 0
  <2>1. born = [life |-> "live", isActive |-> TRUE, password |-> FirstPassword,
                attempts |-> 0, lockedUntil |-> 0]
    BY <1>1 DEF Born, NoLock
  <2> QED
    BY <2>1, AccountAssumption DEF Account
<1>3. /\ unborn \in Account /\ unborn.life = "unborn"
       /\ unborn.isActive = TRUE /\ unborn.attempts = 0
  <2>1. unborn = [life |-> "unborn", isActive |-> born.isActive, password |-> born.password,
                  attempts |-> born.attempts, lockedUntil |-> born.lockedUntil]
    BY <1>1, <1>2, ChangesIs
  <2> QED
    BY <1>2, <2>1, EntityIs, AccountFields
<1>4. ASSUME NEW u \in User
      PROVE  /\ users[u] \in Account /\ users[u].attempts = 0 /\ users[u].isActive = TRUE
             /\ users[u].life = IF u \in inactive THEN "unborn" ELSE "live"
  <2>1. users[u] = IF u \in inactive THEN unborn ELSE born
    BY <1>1 DEF StaffInit
  <2> QED
    BY <1>2, <1>3, <2>1
<1>5. users \in [User -> Account]
  BY <1>4 DEF StaffInit
<1>6. AccountsTypeOK
  <2>1. acct \in [Handler -> AccountRequest \cup {NoRequest}]
    BY DEF StaffInit
  <2>2. passed \in 0 .. locks /\ locks \in 0 .. MaxLocks
    BY AccountAssumption DEF StaffInit
  <2>3. inactive \subseteq User
    BY DEF StaffInit, Init
  <2>4. inactive = {u \in User : ~ (Live(u) /\ users[u].isActive)}
    BY <1>4, <2>3 DEF Live
  <2> QED
    BY <1>5, <2>1, <2>2, <2>4 DEF AccountsTypeOK
<1>7. \A u \in User :
        /\ Purpose(users[u]) \in PurposeType
        /\ Purpose(users[u]).life = users[u].life
        /\ Purpose(users[u]).isActive = users[u].isActive
        /\ Purpose(users[u]).password = users[u].password
  BY <1>4, AccountFields DEF Purpose, PurposeType
<1>8. MemoryTypeOK
  BY <1>7, AccountAssumption DEF StaffInit, MemoryTypeOK
<1>9. \A u \in User : UserOK(u)
  BY <1>4, <1>7 DEF StaffInit, UserOK, Strays, CountOK
<1>10. \A h \in Handler : ~ Holding(acct[h])
  BY DEF StaffInit, Holding, NoRequest
<1> QED
  BY <1>6, <1>8, <1>9, <1>10 DEF StaffInv

LEMMA StaffInvStep == StaffInv /\ [StaffNext]_allVars => StaffInv'
<1> SUFFICES ASSUME StaffInv, [StaffNext]_allVars PROVE StaffInv'
  OBVIOUS
<1>1. CASE UNCHANGED allVars
  BY <1>1 DEF allVars, vars, account, memory, StaffInv, AccountsTypeOK, MemoryTypeOK, UserOK,
              HolderOK, CountOK, Locked, Live
<1>2. ASSUME NEW h \in Handler, NEW u \in User, NEW dto \in UpdateUserDto, LoadForUpdate(h, u, dto)
      PROVE  StaffInv'
  BY <1>2, LoadForUpdateStep
<1>3. ASSUME NEW h \in Handler, NEW u \in User, Remove(h, u) PROVE StaffInv'
  BY <1>3, RemoveStep
<1>4. ASSUME NEW h \in Handler, NEW u \in User, NEW password \in Password,
             \/ LoadForLogin(h, u, password) \/ LoadForChange(h, u, password)
             \/ CheckEmail(h, u, password)
      PROVE  StaffInv'
  BY <1>4, LoadUserStep, OtherSteps
<1>5. ASSUME NEW h \in Handler,
             \/ FailedLogin(h) \/ PassedLogin(h) \/ SetPassword(h) \/ Update(h) \/ Insert(h)
             \/ LoadForSet(h) \/ Issued(h) \/ EndSessions(h) \/ TokenStep(h) \/ Drop(h)
      PROVE  StaffInv'
  BY <1>5, FailedLoginStep, PassedLoginStep, SetPasswordStep, UpdateStep, InsertStep,
     LoadUserStep, OtherSteps
<1>6. CASE TokenExpires \/ LockPasses
  BY <1>6, TimeSteps
<1> QED
  BY <1>1, <1>2, <1>3, <1>4, <1>5, <1>6 DEF StaffNext

LEMMA StaffInvariant == StaffSpec => []StaffInv
BY StaffInvInit, StaffInvStep, PTL DEF StaffSpec

-----------------------------------------------------------------------------
(* Sessions end with the password *)

\* A request that changes a password is the one that will revoke the tokens.
RevokerOK(h) ==
  acct[h].step \in {"change", "set", "revoke"} =>
    At(h, "revokeAll") /\ work[h].user = acct[h].user

SessionInv ==
  /\ TokenInv
  /\ outdated \subseteq DOMAIN tokens
  /\ \A h \in Handler : RevokerOK(h)
  /\ SessionsEndWithPassword

\* What one handler does next, as StaffNext lists it.
HandlerStep(h) ==
  \/ \E u \in User, password \in Password :
       LoadForLogin(h, u, password) \/ LoadForChange(h, u, password) \/ CheckEmail(h, u, password)
  \/ FailedLogin(h) \/ PassedLogin(h) \/ Issued(h)
  \/ LoadForSet(h) \/ SetPassword(h) \/ EndSessions(h)
  \/ \E u \in User, dto \in UpdateUserDto : LoadForUpdate(h, u, dto)
  \/ Update(h)
  \/ \E u \in User : Remove(h, u)
  \/ Insert(h) \/ TokenStep(h) \/ Drop(h)

LEMMA OthersWait ==
  ASSUME TypeOK, AccountsTypeOK, NEW h \in Handler, HandlerStep(h), NEW g \in Handler \ {h}
  PROVE  acct'[g] = acct[g] /\ work'[g] = work[g]
<1>1. UNCHANGED acct \/ \E request : acct' = [acct EXCEPT ![h] = request]
  BY DEF HandlerStep, LoadForLogin, LoadForChange, CheckEmail, FailedLogin, PassedLogin, Issued,
         LoadForSet, SetPassword, EndSessions, LoadForUpdate, Update, Remove, Insert, TokenStep,
         Drop, Begins, Continues, account
<1>2. UNCHANGED work \/ \E request : work' = [work EXCEPT ![h] = request]
  BY DEF HandlerStep, LoadForLogin, LoadForChange, CheckEmail, FailedLogin, PassedLogin, Issued,
         LoadForSet, SetPassword, EndSessions, LoadForUpdate, Update, Remove, Insert, TokenStep,
         Drop, SaveWithSecret, Save, Write, BeginLogin, ChangePassword, IssueForLogin,
         RevokeAllForUser, BeginRefresh, BeginLogout, Load, RevokeFamily, Issue, Replace,
         LoadForLogout, Revoke, Respond, Fail, Goes, vars
<1> QED
  BY <1>1, <1>2 DEF TypeOK, AccountsTypeOK

\* Which steps are about the sessions of a password that has changed.
LEMMA OtherAccountSteps ==
  ASSUME AccountsTypeOK, NEW h \in Handler, HandlerStep(h),
         ~ SetPassword(h), ~ EndSessions(h), ~ Drop(h)
  PROVE  /\ UNCHANGED outdated \/ OutdatesNew
         /\ UNCHANGED abandoned
         /\ ~ Handling(h, "revoke")
<1>1. (UNCHANGED outdated \/ OutdatesNew) /\ UNCHANGED abandoned
  BY DEF HandlerStep, LoadForLogin, LoadForChange, CheckEmail, FailedLogin, PassedLogin, Issued,
         LoadForSet, LoadForUpdate, Update, Remove, Insert, TokenStep, memory
<1>2. acct[h] = NoRequest \/ acct[h].step \in {"login", "issue", "change", "update", "create"}
  <2>1. CASE \/ FailedLogin(h) \/ PassedLogin(h) \/ Issued(h)
             \/ LoadForSet(h) \/ Update(h) \/ Insert(h)
    BY <2>1 DEF FailedLogin, PassedLogin, Issued, LoadForSet, Update, Insert, Handling
  <2>2. CASE \/ \E u \in User, password \in Password :
                  \/ LoadForLogin(h, u, password) \/ LoadForChange(h, u, password)
                  \/ CheckEmail(h, u, password)
             \/ \E u \in User, dto \in UpdateUserDto : LoadForUpdate(h, u, dto)
             \/ \E u \in User : Remove(h, u)
             \/ TokenStep(h)
    BY <2>2 DEF LoadForLogin, LoadForChange, CheckEmail, LoadForUpdate, Remove, TokenStep,
                Begins, Free
  <2> QED
    BY <2>1, <2>2 DEF HandlerStep
<1> QED
  BY <1>1, <1>2 DEF Handling, NoRequest

LEMMA RevokerStep ==
  ASSUME TypeOK, AccountsTypeOK, NEW h \in Handler, HandlerStep(h), RevokerOK(h)
  PROVE  RevokerOK(h)'
<1>1. acct[h] \in AccountRequest \cup {NoRequest} /\ h \in DOMAIN acct /\ h \in DOMAIN work
  BY DEF TypeOK, AccountsTypeOK
<1>2. ASSUME NEW u \in User, NEW password \in Password, LoadForChange(h, u, password)
      PROVE  RevokerOK(h)'
  BY <1>1, <1>2 DEF LoadForChange, ChangePassword, Goes, Begins, RevokerOK, At
<1>3. CASE LoadForSet(h) \/ SetPassword(h)
  <2>1. work' = work
    BY <1>3 DEF LoadForSet, SetPassword, SaveWithSecret, Write, vars
  <2>2. acct'[h].user = acct[h].user /\ acct[h].step \in {"change", "set"}
    BY <1>1, <1>3 DEF LoadForSet, SetPassword, Continues, Handling
  <2> QED
    BY <2>1, <2>2 DEF RevokerOK, At
<1>4. ASSUME \/ \E u \in User, password \in Password :
                  LoadForLogin(h, u, password) \/ CheckEmail(h, u, password)
             \/ FailedLogin(h) \/ PassedLogin(h) \/ Issued(h) \/ EndSessions(h)
             \/ \E u \in User, dto \in UpdateUserDto : LoadForUpdate(h, u, dto)
             \/ Update(h) \/ Insert(h) \/ TokenStep(h) \/ Drop(h)
             \/ \E u \in User : Remove(h, u)
      PROVE  RevokerOK(h)'
  <2>1. ASSUME NEW u \in User, NEW password \in Password,
               LoadForLogin(h, u, password) \/ CheckEmail(h, u, password)
        PROVE  acct'[h].step \in {"login", "create"}
    BY <1>1, <2>1 DEF LoadForLogin, CheckEmail, Begins
  <2>2. ASSUME NEW u \in User, NEW dto \in UpdateUserDto, LoadForUpdate(h, u, dto)
        PROVE  acct'[h].step = "update"
    BY <1>1, <2>2 DEF LoadForUpdate, Begins
  <2>3. ASSUME FailedLogin(h) \/ PassedLogin(h) PROVE acct'[h].step \in {"reject", "issue"}
    BY <1>1, <2>3 DEF FailedLogin, PassedLogin, Continues
  <2>4. ASSUME \/ Issued(h) \/ EndSessions(h) \/ Update(h) \/ Insert(h) \/ TokenStep(h) \/ Drop(h)
               \/ \E u \in User : Remove(h, u)
        PROVE  acct'[h] = NoRequest
    BY <1>1, <2>4 DEF Issued, EndSessions, Update, Insert, TokenStep, Drop, Remove, Begins,
                      Continues, account
  <2>5. acct'[h].step \notin {"change", "set", "revoke"}
    BY <1>4, <2>1, <2>2, <2>3, <2>4 DEF NoRequest
  <2> QED
    BY <2>5 DEF RevokerOK
<1> QED
  BY <1>2, <1>3, <1>4 DEF HandlerStep

LEMMA SessionInvInit == StaffInit => SessionInv
<1> SUFFICES ASSUME StaffInit PROVE SessionInv
  OBVIOUS
<1>1. TokenInv
  BY TokenInvInit DEF StaffInit
<1> QED
  BY <1>1 DEF StaffInit, SessionInv, RevokerOK, SessionsEndWithPassword, NoRequest

LEMMA SessionInvStep == StaffInv /\ SessionInv /\ [StaffNext]_allVars => SessionInv'
<1> SUFFICES ASSUME StaffInv, SessionInv, [StaffNext]_allVars PROVE SessionInv'
  OBVIOUS
<1> DEFINE Covered(t) ==
      \/ tokens[t].revoked
      \/ tokens[t].user \in abandoned
      \/ \E h \in Handler : Handling(h, "revoke") /\ acct[h].user = tokens[t].user
<1>1. AccountsTypeOK /\ TokenInv /\ TypeOK /\ [Next]_vars
  BY StepIsTokenStep DEF StaffInv, SessionInv, TokenInv, allVars
<1>2. TokenInv'
  BY <1>1, TokenInvStep
<1>3. \A t \in DOMAIN tokens :
        /\ t \in DOMAIN tokens' /\ tokens'[t].user = tokens[t].user
        /\ tokens[t].revoked => tokens'[t].revoked
  BY <1>1, RevokedStays
<1>4. \A t \in outdated : t \in DOMAIN tokens /\ Covered(t)
  BY DEF SessionInv, SessionsEndWithPassword
<1>5. \/ \E h \in Handler : HandlerStep(h)
      \/ TokenExpires \/ LockPasses \/ UNCHANGED allVars
  BY DEF StaffNext, HandlerStep
<1>6. ASSUME UNCHANGED <<tokens, acct, outdated, abandoned>>
      PROVE  \A t \in outdated' : t \in DOMAIN tokens' /\ Covered(t)'
  BY <1>4, <1>6 DEF Handling
<1>7. ASSUME NEW h \in Handler, HandlerStep(h)
      PROVE  /\ \A g \in Handler \ {h} : acct'[g] = acct[g]
             /\ \A g \in Handler : RevokerOK(g)'
  <2>1. \A g \in Handler \ {h} : acct'[g] = acct[g] /\ work'[g] = work[g]
    BY <1>1, <1>7, OthersWait
  <2>2. \A g \in Handler \ {h} : RevokerOK(g)'
    BY <2>1 DEF SessionInv, RevokerOK, At
  <2>3. RevokerOK(h)'
    BY <1>1, <1>7, RevokerStep DEF SessionInv
  <2> QED
    BY <2>1, <2>2, <2>3
<1>8. ASSUME NEW h \in Handler, HandlerStep(h), ~ SetPassword(h), ~ EndSessions(h), ~ Drop(h)
      PROVE  \A t \in outdated' : t \in DOMAIN tokens' /\ Covered(t)'
  <2>1. /\ UNCHANGED outdated \/ OutdatesNew
        /\ UNCHANGED abandoned /\ ~ Handling(h, "revoke")
    BY <1>1, <1>8, OtherAccountSteps
  <2>2. \A g \in Handler : Handling(g, "revoke") => acct'[g] = acct[g]
    BY <1>7, <1>8, <2>1
  <2>3. ASSUME NEW t \in outdated PROVE t \in DOMAIN tokens' /\ Covered(t)'
    BY <1>3, <1>4, <2>1, <2>2, <2>3 DEF Handling
  <2>4. ASSUME NEW t \in outdated' \ outdated PROVE t \in DOMAIN tokens' /\ Covered(t)'
    <3>1. /\ t \in DOMAIN tokens'
          /\ \E g \in Handler : Handling(g, "revoke") /\ acct[g].user = tokens'[t].user
      BY <2>1, <2>4 DEF OutdatesNew
    <3> QED
      BY <2>2, <3>1 DEF Handling
  <2> QED
    BY <2>3, <2>4
<1>9. ASSUME NEW h \in Handler, SetPassword(h)
      PROVE  \A t \in outdated' : t \in DOMAIN tokens' /\ Covered(t)'
  <2>1. /\ tokens' = tokens /\ abandoned' = abandoned /\ Handling(h, "set")
        /\ acct'[h].step = "revoke" /\ acct'[h].user = acct[h].user
        /\ outdated' = outdated \cup {t \in DOMAIN tokens : tokens[t].user = acct[h].user}
    BY <1>1, <1>9 DEF SetPassword, SaveWithSecret, Write, Continues, AccountsTypeOK
  <2>2. \A g \in Handler : Handling(g, "revoke") => acct'[g] = acct[g]
    BY <1>7, <1>9, <2>1 DEF HandlerStep, Handling
  <2> QED
    BY <1>4, <2>1, <2>2 DEF Handling
<1>10. ASSUME NEW h \in Handler, EndSessions(h)
       PROVE  \A t \in outdated' : t \in DOMAIN tokens' /\ Covered(t)'
  <2>1. /\ RevokeAllForUser(h) /\ outdated' = outdated
        /\ abandoned' = abandoned \ {acct[h].user} /\ work[h].user = acct[h].user
    BY <1>10 DEF EndSessions, SessionInv, RevokerOK, Handling
  <2>2. \A t \in DOMAIN tokens : tokens[t].user = acct[h].user => tokens'[t].revoked
    <3>1. PICK own : own = {t \in DOMAIN tokens : tokens[t].user = work[h].user}
      OBVIOUS
    <3>2. RevokeWhere(own) /\ tokens \in Seq(Token)
      BY <1>1, <2>1, <3>1 DEF RevokeAllForUser, TypeOK
    <3>3. \A t \in DOMAIN tokens : tokens'[t].revoked = (tokens[t].revoked \/ t \in own)
      BY <3>2, RevokeWhereEffect
    <3> QED
      BY <2>1, <3>1, <3>3
  <2>3. \A g \in Handler \ {h} : acct'[g] = acct[g]
    BY <1>7, <1>10 DEF HandlerStep
  <2> QED
    BY <1>3, <1>4, <2>1, <2>2, <2>3 DEF Handling
<1>11. ASSUME NEW h \in Handler, Drop(h)
       PROVE  \A t \in outdated' : t \in DOMAIN tokens' /\ Covered(t)'
  <2>1. /\ outdated' = outdated
        /\ abandoned' = IF Handling(h, "revoke") THEN abandoned \cup {acct[h].user} ELSE abandoned
    BY <1>11 DEF Drop
  <2>2. \A g \in Handler \ {h} : acct'[g] = acct[g]
    BY <1>7, <1>11 DEF HandlerStep
  <2> QED
    BY <1>3, <1>4, <2>1, <2>2 DEF Handling
<1>12. \A t \in outdated' : t \in DOMAIN tokens' /\ Covered(t)'
  BY <1>5, <1>6, <1>8, <1>9, <1>10, <1>11
     DEF TokenExpires, Expire, LockPasses, account, memory, allVars, vars
<1>13. \A g \in Handler : RevokerOK(g)'
  <2>1. CASE \E h \in Handler : HandlerStep(h)
    BY <1>7, <2>1
  <2>2. CASE TokenExpires \/ LockPasses \/ UNCHANGED allVars
    BY <2>2 DEF SessionInv, RevokerOK, At, TokenExpires, Expire, LockPasses, account, memory,
                allVars, vars
  <2> QED
    BY <1>5, <2>1, <2>2
<1> QED
  BY <1>2, <1>12, <1>13 DEF SessionInv, SessionsEndWithPassword

-----------------------------------------------------------------------------
(* Theorems *)

\* Rows and requests stay well typed; no row counts as many failures as lock it,
\* and the accounts TokenRotation takes for inactive are those not live or not active.
THEOREM AccountsTypeCorrect == StaffSpec => []AccountsTypeOK
<1>1. StaffInv => AccountsTypeOK
  BY DEF StaffInv
<1> QED
  BY <1>1, StaffInvariant, PTL

\* A password change, a deactivation or a removal is undone only by a save that
\* overlaps it and carries the column.
THEOREM UndoingNeedsOverlap == StaffSpec => []OnlyOverlapUndoes
<1>1. StaffInv => OnlyOverlapUndoes
  <2> SUFFICES ASSUME StaffInv, NEW u \in User, NEW c \in DOMAIN meant[u],
                      Purpose(users[u])[c] # meant[u][c]
               PROVE  c \in lost[u]
    BY DEF OnlyOverlapUndoes
  <2>1. meant[u] \in PurposeType /\ Strays(users[u], meant[u], failures[u]) \subseteq lost[u]
    BY DEF StaffInv, MemoryTypeOK, UserOK
  <2>2. c \in {"life", "isActive", "password"}
    BY <2>1 DEF PurposeType
  <2>3. /\ Purpose(users[u])["life"] = users[u].life
        /\ Purpose(users[u])["isActive"] = users[u].isActive
        /\ Purpose(users[u])["password"] = users[u].password
    BY DEF Purpose
  <2>4. CASE c = "life"
    BY <2>1, <2>3, <2>4 DEF Strays, Column
  <2>5. CASE c = "isActive"
    BY <2>1, <2>3, <2>5 DEF Strays, Column
  <2>6. CASE c = "password"
    BY <2>1, <2>3, <2>6 DEF Strays, Column
  <2> QED
    BY <2>2, <2>4, <2>5, <2>6
<1> QED
  BY <1>1, StaffInvariant, PTL

\* The counter is the number of failed logins since the last success or lock,
\* unless they overlapped another save of the account.
THEOREM FailuresAreCounted == StaffSpec => []FailuresCounted
<1>1. StaffInv => FailuresCounted
  BY DEF StaffInv, UserOK, FailuresCounted, Strays, Column
<1> QED
  BY <1>1, StaffInvariant, PTL

\* A locked account has all its attempts when the lock passes.
THEOREM LocksStartAfresh == StaffSpec => []LockedMeansZero
<1>1. StaffInv => LockedMeansZero
  BY DEF StaffInv, UserOK, CountOK, LockedMeansZero
<1> QED
  BY <1>1, StaffInvariant, PTL

\* Accounts and tokens together do what TokenRotation allows.
THEOREM AccountsRefineRotation == StaffSpec => ImplementsRotation
<1>1. StaffInit => Init
  BY DEF StaffInit
<1>2. StaffInv /\ [StaffNext]_allVars => [UNCHANGED vars \/ Next]_vars
  BY StepIsTokenStep DEF StaffInv, allVars
<1> QED
  BY <1>1, <1>2, StaffInvariant, PTL DEF StaffSpec, ImplementsRotation

\* Every token issued before a password change revokes the tokens is revoked by
\* its end, those issued since the password was saved included, unless the
\* request died between saving the password and revoking the tokens.
THEOREM OldSessionsEnd == StaffSpec => []SessionsEndWithPassword
<1>1. SessionInv => SessionsEndWithPassword
  BY DEF SessionInv
<1> QED
  BY <1>1, SessionInvInit, SessionInvStep, StaffInvariant, PTL DEF StaffSpec

\* What is proved of TokenRotation holds beside the accounts, too.
THEOREM TokensBesideAccounts ==
  StaffSpec => []LineageSound /\ OnlyLostResponseStrands /\ RevocationIsFinal
                 /\ DeadFamiliesStayDead
<1>1. [UNCHANGED vars \/ Next]_vars => [Next]_vars
  BY DEF vars
<1>2. StaffSpec => Spec
  BY <1>1, AccountsRefineRotation, PTL DEF ImplementsRotation, Spec
<1> QED
  BY <1>2, LineageIsSound, OnlyLostResponsesStrand, RevokedForEver, DeadFamiliesAreFinal, PTL

=============================================================================
