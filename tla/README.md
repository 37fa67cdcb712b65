# Formal models of the game-club backend

TLA+ models of the part of this backend where money, computers and sessions meet, with TLC
configurations that check them on small instances and TLAPS proofs that hold for every instance. Paths
are relative to the repository; `…` abbreviates `src/src`.

## 1. The system

A NestJS service on PostgreSQL (TypeORM, READ COMMITTED). Requests run concurrently in one or more Node
processes; all shared state is in the database, apart from an in-memory cache and an in-memory event
emitter in each process.

| Component | State | Operations | Talks to | Hard part |
|---|---|---|---|---|
| Money (`…/common/money`) | none | `fromMinor`, `forDuration`, arithmetic | – | rounding through a double division, safe-integer range |
| Pricing (`session-pricing.service.ts`) | none | `plan`, `quote`, `finalize`, `extend` | Money | charge after several extensions, rounding of seconds |
| Sessions (`modules/sessions`) | `sessions` rows | `start` (one or a group), `extend`, `end`, `cancel`, `quote` | computers and rooms (rows), customers, debt, events | one transaction over several tables; row locks; groups |
| Debt (`modules/debt`) | append-only `debt_transactions` | `addDebt`, `recordPayment`, `correct`, `getBalance` | customers (row lock), events | balance check then insert |
| Computers (`modules/computers`) | `computers` rows with a status | create, update, soft remove | rooms; sessions write the status, too | load-modify-save against the sessions' locks |
| Rooms, Customers | rows with price / blocked flag | create, update, soft remove | sessions read them | prices change, customers are blocked, while sessions run |
| Database wiring (`…/database`, `base.entity.ts`) | pool of 20 connections, indexes, foreign keys | transactions | everything | waits, deadlocks, timeouts |
| Realtime events and gateway | none | fan-out of events after commit | analytics, notifications | ordering and loss after the commit |
| Analytics and cache | TTL map | `summary`, `invalidate` | sessions, debt | stale fill after an invalidation |
| Notifications | inbox rows | create, mark read | events | – |
| Auth, refresh tokens, users | users with lockout state, token families | login, refresh, logout, change password, user CRUD | audit | load-modify-save across an argon2 computation, two-statement rotation and password change |
| Settings, audit log | rows | get/set; append | – | best effort |
| Guards, filters, config, health, seed | none | – | – | – |

What makes each correct:

* **Sessions**: at most one active session on a computer; a group starts whole or not at all; a closed
  session never changes; computer status follows the sessions.
* **Pricing**: the amount due is the price of the time between two recorded instants at the rate of the
  start, after any sequence of extensions, price changes and early ends.
* **Debt**: an ended session is paid or its shortfall is in the ledger once, for its customer; entries
  are never changed; a payment never exceeds the balance, whatever runs at the same time.
* **Computers**: taken out of service by hand, put back by hand.
* **Tokens and accounts**: a revoked token, and a family nobody can continue, stay so; a client is
  stranded only by losing the response of a committed rotation; a password change ends the user's sessions; failed logins are counted, and only a
  save that overlaps a change can undo it.
* **Transactions**: what interleaved handlers commit is what some order of whole requests would have
  committed; nobody waits for ever.

`PROJECT.json` lists the hazards one by one, at their lines, with the properties that cover them.

## 2. Modules

| Module | Models | Built on |
|---|---|---|
| `Money` | amounts, `forDuration` | |
| `SessionPricing` | `plan`, `extend`, `finalize` | `Money` |
| `EntityTable` | a soft-deleted table with load-then-save updates; instantiated for computers, rooms and customers | |
| `DebtLedger` | the ledger and its three inserts | `SessionPricing` |
| `SessionDesk` | all requests on sessions, debts, computers, rooms, customers; one action per committed request | `DebtLedger`, three `EntityTable`s |
| `SessionTransactions` | the same requests as transactions that take row locks one at a time | `SessionDesk`, as state and as abstract specification |
| `DebtAnnouncements` | what follows a debt change's commit: balance query, events, notifications | `DebtLedger` |
| `AnalyticsCache` | dashboard summaries, the TTL cache and its invalidation | |
| `TokenRotation` | refresh tokens: login, rotation, logout, revocation | |
| `StaffAccounts` | users: login with lockout, password change, the owner's administration | `TokenRotation`, as state and as abstract specification |
| `MoneyTheorems` | theorems about rounding, in integers and in doubles, and prices | `SessionPricing` |
| `BalanceTheorems` | theorems about a balance as a sum over the ledger | `DebtLedger` |
| `SessionDeskProofs` | theorems and proofs | `SessionDesk`, `MoneyTheorems` |
| `SessionTransactionsProofs` | theorems and proofs | `SessionTransactions`, `SessionDeskProofs`, `BalanceTheorems` |
| `DebtAnnouncementsProofs` | theorems and proofs | `DebtAnnouncements`, `BalanceTheorems` |
| `AnalyticsCacheProofs`, `TokenRotationProofs` | theorems and proofs | `AnalyticsCache`, `TokenRotation` |
| `StaffAccountsProofs` | theorems and proofs | `StaffAccounts`, `TokenRotationProofs` |
| `MCSessionDesk`, `MCSessionTransactions`, `MCDebtAnnouncements`, `MCAnalyticsCache`, `MCTokenRotation`, `MCStaffAccounts` | constants of the TLC instances | |

Definitions named `Faulty…` are not part of the models. Each is the definition after it with one
plausible bug; `PROJECT.json` says which property that bug breaks in which run.

### How state corresponds

* A **session** is identified by its position in `sessions`, a **group** by the position of its first
  session (0: no group). Labels, notes, actor ids and other text are left out. `Absent` (-1) is SQL
  null or a missing request field.
* **Instants** are milliseconds. `term` is whichever request field the session type reads:
  minutes for `FIXED_DURATION`, an end instant for `FIXED_END_TIME`.
* `startedAt` and `endedAt` are read from the clock before the transaction waits for its locks, so
  `Start` and `End` take any instant up to `now`; an end before the start is a case the code meets
  (`Math.max(seconds, 0)`).
* **Tables**: `life` is unborn, live or removed (`deleted_at` set). `findOne` finds live rows only.
  `updates` holds the entities that managers' requests have loaded and not yet saved. `save` writes
  back what was loaded: status included, and `deleted_at` included. TypeORM compares the entity with
  the row once more just before it writes; if another request changed the row after that comparison,
  fewer columns are written, which is what an update loaded later would have done.
* `ComputerEdits` allows a room move to be lost: the loaded entity still has its `room` relation, which
  TypeORM prefers to the assigned `roomId`.
* The **version column** of `base.entity.ts` plays no part: `save` increments it and does not compare it.
* The **ledger** is a sequence; the balance is the sum of a customer's entries.

### SessionDesk

`Start` is `SessionsService.start`: customer check, every computer's checks, the partial unique index
on the insert, the price plan, all or nothing. `Extend`, `End`, `Cancel` begin with `lockActive`. `End`
has the overpayment and the missing-customer rejections, the debt entry and `releaseComputer`.
`PayDebt` and `CorrectDebt` are the debt endpoints. `ComputerAdmin`, `RoomAdmin`, `CustomerAdmin` are
create, load, save and remove. A rejected request changes nothing and is not an action.

### SessionTransactions

Each worker carries one request through its statements: connect (pool), customer lookup, one
`FOR UPDATE` and one insert per computer of a group, and so on; `pc` is the next statement. The header
of the module lists the order in which each request takes its rows, and where it waits. A lookup that finds no
live row locks none (`ForUpdate`): so does `releaseComputer` when the computer is removed, and the commit then
leaves the computer as it is (`HasComputer`, `Release`), whatever a manager's save has made of it meanwhile.
The session is written before the computer is looked up (`SaveSession`). From then on the insert of a start
that has found the computer AVAILABLE, which takes a manager's stale save, waits in the partial unique index
until the session's transaction is over (`HasWritten`, `IndexBlocks`); a session that is only locked is not
waited for. An insert with a foreign key takes
KEY SHARE on the customer's row, which is what makes a session's debt entry and a correction wait for a
payment that has the row `FOR UPDATE`. What a transaction writes becomes visible at `Commit`; `Abort`,
`BreakDeadlock`, `ConnectTimeout` and `Crash` leave nothing. `Deadlocked(w)` says that `w` waits for itself
through any number of others, as: every set of workers that contains the blockers of `w` and is closed under
blockers contains `w`. Blockers hold a lock that `w` wants (`LockBlocks`) or have written a row its insert conflicts with
(`IndexBlocks`). That is the transitive closure of the waits-for relation without naming the relation;
the provers cannot evaluate the community modules' `TransitiveClosure`, a function of pairs. `ManagerStep` is the computer table's
administration, whose writes wait for row locks as every UPDATE does.

`ImplementsDesk` is the refinement: the committed tables are the same variables, so the mapping is the
identity, and every step is a step of `SessionDesk` or leaves its tables alone, with one exception,
`LeavesComputer`: an ending or a cancellation whose computer was removed when it looked closes its session and
leaves the computer to whoever brings it back. `SessionDesk!End` and `Cancel`, which are one step, release
a restored computer. But for the exception it is `SessionDesk!Spec`, with the stuttering alternative written
first, which TLC decides at once; `TransactionsImplementSpec` proves that the exception takes such a restoration.

`RegistryStep` is the administration of rooms and customers while starts run. `start` reads both without a
lock (`findRoom`, `resolveCustomer`), so `Seat` computes the new session from the room as it is at that
statement, and `InsertSession` inserts it later. A group whose room is repriced between two of its
computers is not one atomic start, and neither is a start whose customer is blocked before it commits;
`ImplementsDesk` is claimed, therefore, only where nothing a start may have read is withdrawn
(`NothingWithdrawn` in the theorem, rooms and customers that stay as they are in the runs). Without that
restriction `StartsAsOffered` holds: `offered` collects, for each start under way, the rates of open rooms
and the customers who might play, and every session inserted is from that. So do the desk's own promises,
which section 4 proves of every interleaving.

### DebtAnnouncements

A handler commits its ledger entry (`EndShort`, `Pay`, `Adjust`), and then does what `FollowUp` lists:
announce the session's end, query the balance, announce the debt. `todo` is what it has left. The query
runs outside any transaction and sees what is committed at that moment; between query and emission other
handlers run. `feed` is what one process sends to its sockets; a `debt.created` starts a notification
insert that nobody waits for (`saving`, `inbox`). The balance query may fail after the commit, and the
process may die: such entries are `unheard`, since nothing is persisted that could be sent again.
Events go to the emitting process only, so one process is modelled; events that carry no debt are left out.

### AnalyticsCache

A summary is represented by which changes its first and last query saw, changes being numbered in commit
order; what the figures add up does not matter to a cache. `Hit`, `Miss` and `Fill` are `getOrSet`;
`Announce` is `onFinancialChange`. `left` counts the ticks until an entry expires. That changes are
announced in any order, or never, is what `DebtAnnouncements` allows.

### TokenRotation

Presenting a refresh token replaces it by a new one of the same family: load, store the new row, save the
old one, each a statement of its own with awaits between them. `work` is where each request is; `held` are
the tokens a response has carried, the only ones a request can present: the response is a step of its own
(`Respond`), after the last save; `ended` are the families somebody
revoked. `Saved` is TypeORM's `save` of a row loaded earlier: it writes `replacedBy` as loaded, so a logout
that overlaps a rotation can erase it. `Fail` ends a request between any two statements, or between the
last one and the response, which is how a response is lost.

### StaffAccounts

A user is its email; its row has `life` (as in `EntityTable`), `isActive`, the password, the failure counter
and the lock. Every write is load, change, save: `acct` has the entity a request holds, and `Write` makes the
row what was loaded. `outdated` are the tokens a password change has to end: those there when the password is
saved, and those issued from then until the tokens are revoked (`OutdatesNew`). The password column is `select: false`: login and `setPassword` select it and so write
it back (`SaveWithSecret`), the owner's update does not (`Save`). `softRemove` writes `deleted_at` alone;
the unique index of the insert sees removed rows, the check before it does not (`CheckEmail`, `IndexAllows`).

| Code | Actions |
|---|---|
| `AuthService.login` | `LoadForLogin`, then `FailedLogin`, or `PassedLogin` and `Issued` |
| `changePassword`, `setPassword` | `LoadForChange`, `LoadForSet`, `SetPassword`, `EndSessions` |
| `UsersService.update`, `remove`, `create` | `LoadForUpdate` and `Update`; `Remove`; `CheckEmail` and `Insert` |
| `refresh`, `logout`, `TokenService` | `TokenStep`: the actions of `TokenRotation`, the response (`Respond`) of logins included |

Locks are numbered in the order they begin, and `LockPasses` lets the oldest one run out: all last
`LOCK_DURATION_MS`. A handler may stop between any two statements (`Drop`, `Fail`). The variables under
"what the properties need to remember" guide nothing: no guard reads them. `missed` is what others have
written since a handler loaded its user, and `lost` what saves have put back in spite of it.

`ImplementsRotation` says that tokens and accounts together do what `TokenRotation` allows, `inactive`
being the accounts that are not live or not active; its properties hold here, therefore, and they need no
run with passwords in it.

What the code does not promise, and the model shows it reaching: a login that verifies while a password
change, a deactivation or a removal is saved puts the old column back, since `save` does not compare the
version column, whose comment in `base.entity.ts` speaks of optimistic locking. `OnlyOverlapUndoes` says
that this takes such an overlap, and that the owner's update never takes a password back.

## 3. What is checked

| Run | Question | Properties |
|---|---|---|
| `desk_sessions` | do charges, debts, statuses and history agree under any sequence of desk and debt requests, the customer removed at any point? | `TypeOK`, `ChargeMatchesTime`, `DebtMatchesShortfall`, `OccupancyAgrees`, `HistoryKept`, `ExtensionsOnlyAdd` |
| `desk_admin` | with managers creating, editing, repricing, removing and, by stale saves, restoring a computer and its room? | `AtMostOneActive`, `ServiceIsManual`, `ChargeMatchesTime` |
| `desk_stale_update` | does the status follow the sessions when a manager saves a computer? | `OccupancyAgrees` – **violated**, see below |
| `tx_desk` | do interleaved, aborted and crashed transactions, with a manager's save and removal of computers in between, implement the desk, and who can wait in a cycle? | `TxTypeOK`, `DeadlockCauses`, `ImplementsDesk` |
| `tx_registry` | with rooms repriced, closed and removed, customers registered, blocked and removed between a start's reads: what does the start charge, and whom? | `StartsAsOffered` |
| `tx_settle` | with three handlers on two connections and one customer's debt: is every request answered, can a payment overdraw, or anything but a negative correction leave a credit? | `CreditNeedsCorrection`, `ImplementsDesk`, `PaymentsNeverOverdraw`, `EveryRequestSettles` |
| `debt_feed` | is each debt change announced, once, with a balance that covers it, in whatever order handlers run? | `TypeOK`, `AnnouncedOnce`, `AnnouncedAfterCommit`, `CurrentBalanceIsAnnounced`, `EndBeforeDebt`, `NoFalseAlarm`, `EveryEntryIsAnnounced` |
| `debt_last_event` | does the last event carry the current balance? | `LastBalanceIsAuthoritative` – **violated** |
| `cache_fills` | what may a cached summary miss, and for how long? | `TypeOK`, `StaleOnlyFromOverlap`, `SummaryWithinRequest`, `StalenessEnds` |
| `cache_refetch` | is a re-fetch after an announcement fresh? | `RefetchIsFresh` – **violated** |
| `token_rotation` | do token chains survive crashes and overlapping requests, what strands a client, and do dead families stay dead? | `TypeOK`, `LineageSound`, `OnlyLostResponseStrands`, `RevocationIsFinal`, `DeadFamiliesStayDead` |
| `staff_accounts` | what can overlapping logins, password changes and edits of one account lose, and what not? | `AccountsTypeOK`, `OnlyOverlapUndoes`, `FailuresCounted`, `LockedMeansZero`, `SessionsEndWithPassword`, `ImplementsRotation` |

`HistoryKept`, `ExtensionsOnlyAdd`, `ServiceIsManual`, `RevocationIsFinal`, `DeadFamiliesStayDead`,
`OnlyLostResponseStrands` and `PaymentsNeverOverdraw` are action properties; `EveryRequestSettles`, `EveryEntryIsAnnounced` and
`StalenessEnds` are liveness properties; `ImplementsDesk` and `ImplementsRotation` are refinements; the others
are invariants.

**Findings.** 1. `ComputersService.update` (`computers.service.ts:64-70`) loads without a lock, and `save`
writes the loaded status back. An update loaded before a session starts and saved after it makes the
computer AVAILABLE while its session runs, and the mirror image leaves it IN_USE with no session.
`computer.entity.ts:14-15` says that an active session drives the status to IN_USE and releases it on
end. `AtMostOneActive` survives (the partial unique index rejects the second start), which
`desk_admin` checks and `OneActivePerComputer` proves. It has a price: a start on the computer that looks free
holds the computer's row and waits in the index for the transaction that is ending the session, which waits
for the computer's row. PostgreSQL breaks the deadlock; `DeadlockCauses` says that this and groups that take
computers in different orders are the only ones.

The same status is lost in another way, which no order of whole requests has. `releaseComputer`
(`sessions.service.ts:349-352`) looks the computer up among those not removed. One that is removed at that moment
is neither locked nor released; a save loaded before the removal, and made before the ending commits, brings
it back IN_USE, and no session is left to release it. It is the exception `LeavesComputer` in `ImplementsDesk`,
without which `tx_desk` fails.

2. `emitAfterChange` (`debt.service.ts:212-230`) awaits a query and then emits. Of two changes to one
customer's debt, the one that queried first may be emitted last, and the last event then misses the other
change. The comments at `debt.service.ts:217-218` and `sessions.service.ts:228-229` call the reported
balance authoritative. What does hold: some event carries the current balance (`CurrentBalanceIsAnnounced`),
and every balance was right at some moment after its entry's commit (`AnnouncedAfterCommit`).

3. `getOrSet` (`cache.service.ts:50-62`) stores its result whatever was invalidated meanwhile. A summary
computed before a change is stored after the change's invalidation, and the re-fetch that
`analytics.service.ts:56-57` announces is served from it. What does hold: this takes a computation that
straddles the announcement (`StaleOnlyFromOverlap`), and it ends (`StalenessEnds`).

Two more things are worth knowing, though no run is about them. `money.ts` says of `forDuration` that it does
"no float division"; it adds and divides doubles, and for one safe product, 2^53 - 393, the result is one
unit too many (`OneNumeratorIsMisrounded`). And a client whose rotation commits and whose response is lost holds
a revoked token without a successor: presenting it again is taken for theft and ends the family.

### Bounds

Two computers and one customer: one-computer sessions, groups in both orders, and a second session on
a released computer all occur with two or three sessions. Instants are {0, 90 s} and terms {1 min,
60.499 s, 120.5 s} at 60 or 90 per hour: half a unit, half a second, an end before the start and an
extension occur; `Horizon` leaves room for little more than one extension of a session, and that the
properties survive any number of them is for the proofs. In `desk_admin` there is one computer and one room, neither of them
there at first, and two prices. `MaxSessions` and
`MaxEntries` bound the two tables, `Max…Updates` bounds the managers' requests in flight; one in flight
is enough for a stale save, which needs one loaded entity and any other request. `MaxSafe` is the
safe-integer limit; TLC gets a smaller one, the proofs leave it open. In the transaction runs `MaxRequests` bounds
arrivals at two or three (three in `tx_desk`, so that two groups and a third request meet); `MaxSessions`, `MaxEntries` and `Horizon` are large enough there never to stop the
abstract action. Two handlers, with a
manager's update in flight, are enough in `tx_desk` for both causes of a deadlock, two groups, and a start and
an ending; cycles of three handlers are left to the proof. `debt_feed` has three
handlers and three entries over two customers: two handlers that overtake each other and a third on another
customer's debt. `cache_fills` has two readers, two ranges, two changes and a TTL of two ticks: a computation
overlapped by another one, by an announcement and by an expiry. `token_rotation` has two handlers
and three tokens: a chain of three, two overlapping rotations of one token, and two families. `staff_accounts`
has one account, as requests of different accounts share nothing but the tokens; two handlers, since one stale
save needs one other request; two failures to a lock, one lock, and five requests: enough to fail, overlap,
lock, pass and log in again; one token, because the rotation has a run of its own. Symmetry is
used where only safety is checked. `CHECK_DEADLOCK FALSE`
everywhere: the bounds stop every instance in the end.

### Fairness

`FairTxSpec` asks weak fairness of each worker's `Advance`: a statement that can run is eventually run
(the Node event loop and PostgreSQL schedule every ready task), a free connection is handed out, and the
deadlock detector examines every cycle. Nothing is asked of `Arrive`, `Crash`, `ConnectTimeout`, or the
manager. Arrivals are bounded, so `EveryRequestSettles` says that no request gets stuck, not that a lock
queue is fair to an endless stream of newcomers.

`DebtAnnouncements!FairSpec` asks the same of each handler's next step; `QueryFails` and `Crash` may always
intervene, and the property allows for them. `AnalyticsCache!FairSpec` asks that time passes and that a query
returns or fails; requests need not come, and may come for ever.

## 4. What is proved

Every safety property that a passing run checks (type invariants, safety invariants, action properties, both
refinements) is a theorem as well, for arbitrary sets of computers, rooms, customers, prices, instants, terms,
requests and handlers. Some need a hypothesis about what managers do meanwhile, given below. The
assumptions on constants are about types and about what the request validation guarantees:
`MoneyAssumption` (`MaxSafe` is a natural number); `DeskAssumption` (types; a group has no duplicates, as
`@ArrayUnique` ensures); `RequestAssumption` (requests have the shape the DTOs let through: a start names at
least one computer, `@ArrayMinSize(1)`, and at most a day of minutes); `FeedAssumption` (amounts are
integers); `CacheAssumption` (a positive TTL, a natural number of changes); `AccountAssumption` (a positive
number of failed attempts to a lock). Tokens need none.

| Module | Theorem | Says |
|---|---|---|
| `SessionDeskProofs` | `TypeCorrect`, `OneActivePerComputer`, `AmountDueAndDebtAgree`, `ChargesMatchTime` | `Spec => []I` for `TypeOK`, `AtMostOneActive`, `DebtMatchesShortfall`, `ChargeMatchesTime` |
| | `HistoryIsKept`, `ExtensionsAdd`, `OnlyManagersReturnToService` | `Spec => A` for `HistoryKept`, `ExtensionsOnlyAdd`, `ServiceIsManual` |
| | `OccupancyUnlessStaleSave` | `Spec /\ [][SavesAgree]_vars => []OccupancyAgrees` |
| `SessionTransactionsProofs` | `TransactionTypes`, `StartsWereOffered`, `PaymentsFitTheBalance`, `CreditIsCorrected`, `NoOtherDeadlock` | `TxSpec` has `[]TxTypeOK`, `[]StartsAsOffered`, `PaymentsNeverOverdraw`, `[]CreditNeedsCorrection`, `[]DeadlockCauses` |
| | `NoDeadlockWithoutManagers` | `TxSpec /\ [][SavesAgree]_vars /\ [][NothingRestored]_vars => []OnlyGroupsDeadlock` |
| | `OneActiveWhenInterleaved`, `DebtAgreesWhenInterleaved`, `ChargesMatchWhenInterleaved`, `HistoryIsKeptWhenInterleaved`, `ExtensionsAddWhenInterleaved`, `ServiceIsManualWhenInterleaved` | the desk's promises hold of `TxSpec`, whatever happens to rooms and customers meanwhile |
| | `OccupancyWhenInterleaved` | `TxSpec /\ [][SavesAgree]_vars /\ [][NothingRestored]_vars => []OccupancyAgrees` |
| | `TransactionsImplementDesk` | `TxSpec /\ [][NothingWithdrawn]_txVars => ImplementsDesk` |
| | `TransactionsImplementSpec` | `TxSpec /\ [][NothingWithdrawn]_txVars /\ [][NothingRestored]_vars => Spec` |
| `DebtAnnouncementsProofs` | `AnnouncementTypes`, `EachEntryAnnouncedOnce`, `BalancesAreNotOlder`, `QuietBalanceIsAnnounced`, `EndHeardBeforeDebt`, `OnlyNewDebtsAlarm` | `Spec => []I` for the six invariants of `debt_feed` |
| `BalanceTheorems` | `BalanceAfterInsert` | an insert moves its customer's balance by its amount, and no other balance |
| `AnalyticsCacheProofs` | `StalenessNeedsOverlap`, `SummariesAreRecent`, `CacheTypeCorrect` | `Spec => []I` for the three invariants of `cache_fills` |
| `TokenRotationProofs` | `TokensTypeCorrect`, `LineageIsSound` | `Spec => []I` for the two invariants of `token_rotation` |
| | `OnlyLostResponsesStrand`, `RevokedForEver`, `DeadFamiliesAreFinal` | `Spec => A` for `OnlyLostResponseStrands`, `RevocationIsFinal`, `DeadFamiliesStayDead` |
| `StaffAccountsProofs` | `AccountsTypeCorrect`, `UndoingNeedsOverlap`, `FailuresAreCounted`, `LocksStartAfresh`, `OldSessionsEnd` | `StaffSpec => []I` for the five invariants of `staff_accounts` |
| | `AccountsRefineRotation` | `StaffSpec => ImplementsRotation`; hence `TokensBesideAccounts`: what is proved of tokens holds beside the accounts |
| `MoneyTheorems` | `HalfUpRounds`, `FloatRoundingIsExact`, `OneNumeratorIsMisrounded`, `ForDurationMonotone` | the rounding is to the nearest integer, halves up; the double sum and division of `forDuration` do not change the result for any safe numerator but 2^53 - 393, for which it is one too many; at one rate, more time never costs less |

### The desk

`TypeOK` is inductive: one "effect" lemma per request says which session it rewrites, and to
what. `AtMostOneActive` is inductive over it because `IndexAllows` guards the insert of every session of
a group and the group's computers are distinct. `DebtMatchesShortfall` is inductive as a conjunction of
three parts that need each other: that no entry exists yet for an active session (from
`DebtHasShortfall`) gives `OwedOnce` when the entry is added. `ChargeMatchesTime` is not inductive: that
the due amount is a natural number must be carried along (`ChargeInv`), or the amount collected by default,
everything due, could be negative. `ExtensionsOnlyAdd` needs `ScheduleInv` besides: a fixed session has a
planned end, to the second not before its start; the column is nullable, and an extension that replaced a null could
shorten the session. The charge before and after are then prices of two times, and `ForDurationMonotone`
compares them. `FloatRoundingIsExact` rests on two facts about IEEE doubles, stated at `DoubleSum` and
`IsDoubleQuotient`: up to 2^54 the sum is exact, being even, and above it is rounded to a multiple of 4; the quotient
is below 2^42, where doubles are at most 2^-11 apart, so it is off by at most 2^-12.

`ServiceIsManual` and `OccupancyAgrees` need `UnbornInv`: a computer that was never registered has no
session and no status but the one it will be created with. `OccupancyAgrees` is false in general, as
finding 1 shows; the theorem says that managers' saves are the only reason. `SavesAgree` asks of each save
that the status it writes is IN_USE exactly if the computer has an active session at that moment; every
behaviour without stale saves satisfies it, and `desk_sessions` checks such an instance.

### The transactions

The inductive invariant `TxInv` is the locking argument. `NoConflicts`: two transactions never hold
conflicting locks. `Reads`: for each statement a handler has reached, which rows it has locked and what
it has read of them, *still true of the committed tables*: the session row it will close or extend
(`SessionRead`), the customer its debt entry refers to (`DebtorHeld`), the payer and a balance that
covers the payment (`PayerRead`), the computers of the sessions it has inserted (`StartRead`). A step of
another handler, or of a manager, keeps these facts because it commits only rows that it has itself locked:
`Respects` says what a step may change of what somebody else holds, with one lemma for each kind of
commit. For balances this is where `BalanceAfterInsert` is needed: an insert for another customer leaves
the sum alone. By the same lemma `CreditNeedsCorrection` is inductive over `TxInv`: an entry that lowers
a balance is a payment, which `PayerRead` says it covers, or a negative correction.

At `Commit`, `Reads` gives the guards of the corresponding desk action, so that every commit of an
extension, ending, cancellation, payment or correction is that action (`CommittedIsNext`). A start has
also read its rooms and its customer, without a lock. While these stay on offer (`NothingWithdrawn`: no
room that is open is repriced or closed, no customer who may play is blocked or removed), its commit is
`Start`, and `ImplementsDesk` follows. Without that hypothesis its commit is `Opens`: new sessions that are
active, charged for their time, alone on computers that were vacant and become IN_USE (`SeatsFresh` keeps
these facts from the reads to the commit). `DeskStep`: every step is a step of the desk, or `Opens`, or one
of `LeavesComputer` (`DeskMove` is the desk's steps and the last); and each of the desk's invariants survives
all three. This is how the seven theorems "when interleaved" hold with
rooms repriced and customers blocked at any moment. `StartsAsOffered` says of what such a start is made.

`OccupancyWhenInterleaved` needs, besides `SavesAgree`, that no removed computer is brought back while a session on
it is being ended (`NothingRestored` asks it of every removed computer): the second half of finding 1 satisfies `SavesAgree`, since the
session is still active when the save makes the computer IN_USE. Under it a transaction that is about to commit
without its computer had found it removed, and still finds it so (`LeftIsGone`), and the commit is a plain `End` or
`Cancel`. That is also the argument of `TransactionsImplementSpec`.

`DeadlockCauses` is proved by a rank: whoever is waited for ranks above whoever waits, except between the
starts of groups (`BlockersAbove`), and except for the wait in the unique index, which only a start with
`SeatsOver` does. If neither `w` nor a blocker of `w` is such a start, the handlers above `w`, with those that they
wait for in the index, are closed under blockers (`WaitsInCircle`) and do not contain `w`, unless `w` is a
start of a group that has a seat already. While statuses follow the sessions
no start has `SeatsOver`, since it found its computer AVAILABLE and has kept its row: `NoDeadlockWithoutManagers`.

### Debts and their announcements

The balance is a sum over a finite set in no particular order. The library's induction theorems take a
predicate and cannot be instantiated; `SetInduction` gets induction from the least counterexample, by the
well-foundedness of `<`, and with it `BalanceTheorems` shows that the sum over a set with one more element
is the sum plus that element.

Of the announcements, `Places` (where each entry is), `Reports` (each balance announced or about to be was
the balance after some number of entries, the announced one included), `EndsFirst` and `Alarms` are
inductive together with `TypeInv`, which knows more than `TypeOK`: what a handler still has to do is a tail of
what `FollowUp` gave it. `AnnouncedOnce` counts; `Places` says the same with quantifiers, and
`PlacesCount` turns one into the other. `CurrentBalanceIsAnnounced` follows for the customer's last entry:
it was announced, and a balance not older than the last entry is the current one.

### Cache, tokens, accounts

`StaleOnlyFromOverlap` needs to know what a computation in flight has seen: by its first query, everything
announced before its request (`ReadingOK`), because announcements follow commits.

`TokenInv` adds to the token properties what a request in flight knows: the row it loaded has the user and the
family of the row there, and the successor it is about to write leads forward in that family (`LoadedOK`).
`OnlyLostResponseStrands` compares two states: whatever a step does to a token (`TokenChanges`), and as long
as a response is on its way and not lost (`ResponseStays`), a token strands its client after the step only if it did
before. `DeadFamiliesStayDead` follows from two lemmas about single
steps: a new token begins a family or is issued by a rotation under way (`NewTokens`), and a rotation gets
under way only by loading a live token (`NewRotations`).

`OnlyOverlapUndoes`, `FailuresCounted` and `LockedMeansZero` are one invariant, `StaffInv`: the columns in which a
row `Strays` from what was meant are among the lost ones, and those in which a loaded entity strays, but for
the ones its request changes, are missed or were lost already. `SaveAccountStep` proves it once for every
load-modify-save, and each action only says which columns it fixes, keeps and changes. That the tokens are
revoked needs the request that saved the password to be the one that revokes (`RevokerOK`), and that no save
undoes a revocation (from `TokenInv`, carried over by the refinement).

### Only model-checked

`EveryRequestSettles`, `EveryEntryIsAnnounced` and `StalenessEnds`: liveness under fairness is out of the proof
system's reach. The three violations are TLC's counterexamples.

## 5. What is not modelled

Settings, audit log, guards and roles, the HTTP shell, configuration; events that carry no debt, the socket
handshake, reading notifications; `purgeExpired`, which nothing calls; the parsing of amounts. `PROJECT.json`
has the reason for each. Uniqueness of room names, phones and computer labels, which the database's indexes
decide (emails are in `StaffAccounts`). Queries. Text.

## 6. Plan

Done, in this order: `Money`, `SessionPricing`, `EntityTable`, `DebtLedger`, `SessionDesk` and its proofs,
`SessionTransactions`, `DebtAnnouncements`, `AnalyticsCache` and its proofs, `TokenRotation` and `StaffAccounts`
and their proofs, the registry's steps in `SessionTransactions`, sums over the ledger, the proofs of
`DebtAnnouncements` and of `SessionTransactions` with its refinement, the rest of the desk's properties, and
that credit comes only from corrections.

Next:

1. Access: the guards over a user's role and the claims of its access token, which outlive a deactivation.
