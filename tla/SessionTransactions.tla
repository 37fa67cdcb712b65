------------------------- MODULE SessionTransactions -------------------------
(***************************************************************************)
(* The requests of SessionDesk as the database runs them: interleaved       *)
(* transactions that lock rows one at a time, wait for each other, give up, *)
(* or commit everything they wrote at once (PostgreSQL, READ COMMITTED).    *)
(* The tables of SessionDesk are the committed rows; what a transaction has *)
(* written so far is its own.  While rooms, customers and removed computers  *)
(* stay as they are, every behaviour is one of SessionDesk!Spec.            *)
(*                                                                         *)
(* Requests take their rows in this order:                                 *)
(*   start    each computer of the batch FOR UPDATE, then its session's     *)
(*            insert, which waits in the partial unique index for whoever   *)
(*            has written an active session of the computer, and takes KEY  *)
(*            SHARE on the customer                                        *)
(*   extend   the session FOR UPDATE, then written                          *)
(*   end      the session, then written, KEY SHARE on the customer if it    *)
(*            ends short, the computer                                      *)
(*   cancel   the session, then written, the computer                       *)
(*   pay      the customer FOR UPDATE                                       *)
(*   correct  KEY SHARE on the customer                                    *)
(***************************************************************************)
EXTENDS SessionDesk

CONSTANTS
  Worker,         \* request handlers that can be in flight at once
  Requests,       \* requests that may arrive
  PoolSize,       \* connections in the pool
  MaxRequests     \* bound on arrivals

VARIABLES
  req,            \* worker -> the request it handles
  at,             \* worker -> the clock as its handler read it
  pc,             \* worker -> its next statement
  locks,          \* worker -> row locks its transaction holds
  seats,          \* worker -> sessions its transaction has inserted
  found,          \* worker -> the session row it has read, or is to insert
  arrived,        \* requests that have arrived so far
  offered         \* worker -> what was on offer while its start was handled

handlers == <<req, at, pc, locks, seats, found, arrived>>
txVars == <<vars, handlers, offered>>

\* What the DTOs let through.
Request ==
       [kind : {"start"}, batch : Batches \ {<<>>}, type : SessionType,
        customer : CustomerId \cup {NoCustomer}, term : Terms \cup {Absent}]
  \cup [kind : {"extend"}, session : Nat, term : Terms \cup {Absent}]
  \cup [kind : {"end"}, session : Nat, receipt : Receipts \cup {Absent}]
  \cup [kind : {"cancel"}, session : Nat]
  \cup [kind : {"pay"}, customer : CustomerId, amount : Payments \ {0}]
  \cup [kind : {"correct"}, customer : CustomerId, amount : Corrections \ {0}]

ASSUME RequestAssumption ==
  /\ \A r \in Requests : r \in Request /\ (r.kind = "start" => Entered(r.type, r.term))
  /\ MaxRequests \in Nat

NoRequest == [kind |-> "none"]
NoRow == [status |-> "none"]

Step == {"idle", "connect", "customer", "seat", "insert", "session", "save",
         "entry", "release", "payer", "balance", "commit"}

Row(table, id) == <<table, id>>
Lock(mode, row) == [mode |-> mode, row |-> row]

TxTypeOK ==
  /\ \A w \in Worker : req[w] \in Requests \cup {NoRequest}
  /\ at \in [Worker -> Instants]
  /\ pc \in [Worker -> Step]
  /\ \A w \in Worker : pc[w] = "idle" =>
       req[w] = NoRequest /\ locks[w] = {} /\ seats[w] = <<>> /\ found[w] = NoRow
  /\ arrived \in 0 .. MaxRequests

TxInit ==
  /\ Init
  /\ req = [w \in Worker |-> NoRequest]
  /\ at = [w \in Worker |-> now]
  /\ pc = [w \in Worker |-> "idle"]
  /\ locks = [w \in Worker |-> {}]
  /\ seats = [w \in Worker |-> <<>>]
  /\ found = [w \in Worker |-> NoRow]
  /\ arrived = 0
  /\ offered = [w \in Worker |-> {}]

-----------------------------------------------------------------------------
(* Row locks *)

NextComputer(w) == req[w].batch[Len(seats[w]) + 1]

\* Foreign keys to a customer lock its row only when there is one.
FaultyKeyShare(customer) == {}

KeyShare(customer) ==
  IF customer = NoCustomer THEN {} ELSE {Lock("keyShare", Row("customer", customer))}

\* The customer whose ledger the request writes.
Debtor(w) == IF req[w].kind = "end" THEN found[w].customer ELSE req[w].customer

FaultyWanted(w) == {}        \* every row is read without a lock

\* A lookup finds, and locks, no row that is removed.
ForUpdate(table, id, live) ==
  IF live THEN {Lock("update", Row(table, id))} ELSE {}

\* The lock that the next statement of w needs: at most one.  An insert that the
\* index refuses does not come to its foreign key.
Wanted(w) ==
  CASE pc[w] = "seat" ->
         LET c == NextComputer(w) IN ForUpdate("computer", c, ComputerTable!Live(c))
    [] pc[w] = "insert" ->
         IF IndexAllows(NextComputer(w)) THEN KeyShare(req[w].customer) ELSE {}
    [] pc[w] = "session" -> {Lock("update", Row("session", req[w].session))}
    [] pc[w] = "entry" -> KeyShare(Debtor(w))
    [] pc[w] = "release" ->
         LET c == found[w].computer IN ForUpdate("computer", c, ComputerTable!Live(c))
    [] pc[w] = "payer" ->
         LET k == req[w].customer IN ForUpdate("customer", k, CustomerTable!Live(k))
    [] OTHER -> {}

Conflict(l, m) == l.row = m.row /\ (l.mode = "update" \/ m.mode = "update")

\* A handler passes its `manager` down, so that all its statements run in its
\* own transaction and never wait for its own locks.
FaultyOwnTransaction(w) == IF pc[w] = "entry" THEN {} ELSE {w}

OwnTransaction(w) == {w}

LockBlocks(w, v) == \E l \in Wanted(w), m \in locks[v] : Conflict(l, m)

\* v has updated session i and not committed: that i is active is undecided.
HasWritten(v, i) ==
  /\ req[v].kind \in {"extend", "end", "cancel"} /\ req[v].session = i
  /\ pc[v] \in {"entry", "release", "commit"}

\* The unique index makes an insert wait for the transaction that has written the
\* row it conflicts with; one that has merely locked it is not waited for.
IndexBlocks(w, v) ==
  pc[w] = "insert" /\ \E i \in ActiveOn(NextComputer(w)) : HasWritten(v, i)

Blockers(w) ==
  {v \in Worker \ OwnTransaction(w) : LockBlocks(w, v) \/ IndexBlocks(w, v)}

\* PostgreSQL's detector: w waits, directly or not, for itself.  Whatever set has
\* its blockers, and the blockers of each of its members, has w.
Deadlocked(w) ==
  \A S \in SUBSET Worker :
    Blockers(w) \subseteq S /\ (\A v \in S : Blockers(v) \subseteq S) => w \in S

-----------------------------------------------------------------------------
(* Moving a handler on.  None of these touches the committed tables. *)

Goto(w, step) == pc' = [pc EXCEPT ![w] = step]

\* A statement runs once no other transaction is in its way.
Acquire(w) ==
  /\ Blockers(w) = {}
  /\ locks' = [locks EXCEPT ![w] = @ \cup Wanted(w)]

\* The transaction is over: its locks go and the worker is free again.
FaultyFinish(w) ==          \* the transaction is never closed
  /\ req' = [req EXCEPT ![w] = NoRequest]
  /\ pc' = [pc EXCEPT ![w] = "idle"]
  /\ seats' = [seats EXCEPT ![w] = <<>>]
  /\ found' = [found EXCEPT ![w] = NoRow]
  /\ UNCHANGED <<at, locks, arrived>>

Finish(w) ==
  /\ req' = [req EXCEPT ![w] = NoRequest]
  /\ pc' = [pc EXCEPT ![w] = "idle"]
  /\ locks' = [locks EXCEPT ![w] = {}]
  /\ seats' = [seats EXCEPT ![w] = <<>>]
  /\ found' = [found EXCEPT ![w] = NoRow]
  /\ UNCHANGED <<at, arrived>>

\* Rollback: nothing the transaction wrote remains.
Abort(w) == Finish(w) /\ UNCHANGED vars

FirstStep(kind) ==
  CASE kind = "start" -> "customer"
    [] kind \in {"extend", "end", "cancel"} -> "session"
    [] kind = "pay" -> "payer"
    [] kind = "correct" -> "entry"

\* The handler reads the clock before it asks for a connection.  A client can
\* name a session only once its start has committed.
Arrive(w, r) ==
  /\ pc[w] = "idle"
  /\ arrived < MaxRequests
  /\ r.kind \in {"extend", "end", "cancel"} => r.session \in DOMAIN sessions
  /\ req' = [req EXCEPT ![w] = r]
  /\ at' = [at EXCEPT ![w] = now]
  /\ Goto(w, "connect")
  /\ arrived' = arrived + 1
  /\ UNCHANGED <<vars, locks, seats, found>>

Connected == {w \in Worker : pc[w] \notin {"idle", "connect"}}

Connect(w) ==
  /\ pc[w] = "connect"
  /\ Cardinality(Connected) < PoolSize
  /\ Goto(w, FirstStep(req[w].kind))
  /\ UNCHANGED <<vars, req, at, locks, seats, found, arrived>>

\* connectionTimeoutMillis passes while every connection is taken.
ConnectTimeout(w) ==
  /\ pc[w] = "connect"
  /\ Cardinality(Connected) = PoolSize
  /\ Abort(w)

-----------------------------------------------------------------------------
(* start *)

ResolveCustomer(w) ==
  /\ pc[w] = "customer"
  /\ \/ /\ MayPlay(req[w].customer)
        /\ Goto(w, "seat")
        /\ UNCHANGED <<vars, req, at, locks, seats, found, arrived>>
     \/ ~MayPlay(req[w].customer) /\ Abort(w)

Seatable(w) ==
  LET c == NextComputer(w)
  IN  CanSeat(c) /\ CanPlan(req[w].type, RateOf(c), at[w], req[w].term)

\* The session is made of the room as it is read here.
Seat(w) ==
  LET r == req[w]
  IN  /\ pc[w] = "seat"
      /\ \/ /\ Acquire(w)
            /\ Seatable(w)
            /\ found' = [found EXCEPT ![w] =
                 NewSession(NextComputer(w), r.type, r.customer, 0, r.term, at[w])]
            /\ Goto(w, "insert")
            /\ UNCHANGED <<vars, req, at, seats, arrived>>
         \/ /\ Blockers(w) = {}
            /\ ~Seatable(w)
            /\ Abort(w)

\* The insert and the IN_USE update of the computer; then the next computer of
\* the batch.
InsertSession(w) ==
  /\ pc[w] = "insert"
  /\ \/ /\ Acquire(w)
        /\ IndexAllows(NextComputer(w))
        /\ seats' = [seats EXCEPT ![w] = Append(@, found[w])]
        /\ found' = [found EXCEPT ![w] = NoRow]
        /\ Goto(w, IF Len(seats[w]) + 1 < Len(req[w].batch) THEN "seat" ELSE "commit")
        /\ UNCHANGED <<vars, req, at, arrived>>
     \/ /\ Blockers(w) = {}
        /\ ~IndexAllows(NextComputer(w))
        /\ Abort(w)

\* MaxSessions and Horizon bound the model, as they do in SessionDesk.
CommitStart(w) ==
  LET group == GroupOf(req[w].batch)
  IN  /\ Len(sessions) + Len(seats[w]) <= MaxSessions
      /\ PlannedEnd(req[w].type, at[w], req[w].term) <= Horizon
      /\ sessions' = sessions \o
           [k \in DOMAIN seats[w] |-> [seats[w][k] EXCEPT !.group = group]]
      /\ Occupy({seats[w][k].computer : k \in DOMAIN seats[w]})
      /\ UNCHANGED ledger

-----------------------------------------------------------------------------
(* extend, end and cancel *)

DueOf(w) == Finalize(found[w], at[w])
PaidOf(w) == Collected(DueOf(w), req[w].receipt)

\* What the handler does with the row it has locked: reject, or go on.
Accepts(w, s) ==
  LET r == req[w]
  IN  /\ s.status = "ACTIVE"
      /\ r.kind = "extend" => Entered(s.type, r.term) /\ CanExtend(s, r.term)
      /\ r.kind = "end" =>
           LET due == Finalize(s, at[w])
               paid == Collected(due, r.receipt)
           IN  /\ CanFinalize(s, at[w])
               /\ paid <= due
               /\ paid < due => MayOwe(s.customer)

AfterSave(w, s) ==
  CASE req[w].kind = "extend" -> "commit"
    [] req[w].kind = "cancel" -> "release"
    [] req[w].kind = "end" ->
         LET due == Finalize(s, at[w])
         IN  IF Collected(due, req[w].receipt) < due THEN "entry" ELSE "release"

\* cancel reads the clock only now.
LockActive(w) ==
  LET s == sessions[req[w].session]
  IN  /\ pc[w] = "session"
      /\ \/ /\ Acquire(w)
            /\ Accepts(w, s)
            /\ found' = [found EXCEPT ![w] = s]
            /\ at' = [at EXCEPT ![w] = IF req[w].kind = "cancel" THEN now ELSE @]
            /\ Goto(w, "save")
            /\ UNCHANGED <<vars, req, seats, arrived>>
         \/ /\ Blockers(w) = {}
            /\ ~Accepts(w, s)
            /\ Abort(w)

\* The update of the session, which its row lock lets through.
SaveSession(w) ==
  /\ pc[w] = "save"
  /\ Goto(w, AfterSave(w, found[w]))
  /\ UNCHANGED <<vars, req, at, locks, seats, found, arrived>>

\* A computer that is removed is not found, and nothing is locked.
LockForRelease(w) ==
  /\ pc[w] = "release"
  /\ Acquire(w)
  /\ Goto(w, "commit")
  /\ UNCHANGED <<vars, req, at, seats, found, arrived>>

CommitExtend(w) ==
  /\ ExtendedEnd(found[w], req[w].term) <= Horizon
  /\ sessions' = [sessions EXCEPT
       ![req[w].session] = Extended(found[w], req[w].term)]
  /\ UNCHANGED <<ledger, computers>>

\* The computer's row, if the lookup found and locked one.
HasComputer(w) == Lock("update", Row("computer", found[w].computer)) \in locks[w]

Release(w) ==
  IF HasComputer(w) THEN ReleaseComputer(found[w].computer) ELSE UNCHANGED computers

CommitEnd(w) ==
  LET i == req[w].session
      due == DueOf(w)
      paid == PaidOf(w)
  IN  /\ sessions' = [sessions EXCEPT ![i] = Closed(found[w], "ENDED", at[w], due, paid)]
      /\ \/ paid < due /\ AddDebt(found[w].customer, due - paid, i)
         \/ paid = due /\ UNCHANGED ledger
      /\ Release(w)

CommitCancel(w) ==
  /\ sessions' = [sessions EXCEPT
       ![req[w].session] = Closed(found[w], "CANCELLED", at[w], 0, 0)]
  /\ Release(w)
  /\ UNCHANGED ledger

-----------------------------------------------------------------------------
(* pay and correct *)

LockPayer(w) ==
  /\ pc[w] = "payer"
  /\ \/ /\ Acquire(w)
        /\ CustomerTable!Live(req[w].customer)
        /\ Goto(w, "balance")
        /\ UNCHANGED <<vars, req, at, seats, found, arrived>>
     \/ /\ Blockers(w) = {}
        /\ ~CustomerTable!Live(req[w].customer)
        /\ Abort(w)

CheckBalance(w) ==
  /\ pc[w] = "balance"
  /\ \/ /\ req[w].amount <= Balance(req[w].customer)
        /\ Goto(w, "entry")
        /\ UNCHANGED <<vars, req, at, locks, seats, found, arrived>>
     \/ req[w].amount > Balance(req[w].customer) /\ Abort(w)

\* The ledger insert of any request that writes one.  Its foreign key wants the
\* customer's row, removed or not.
InsertEntry(w) ==
  LET known == customers[Debtor(w)].life # "unborn"
  IN  /\ pc[w] = "entry"
      /\ \/ /\ Acquire(w)
            /\ known
            /\ Goto(w, IF req[w].kind = "end" THEN "release" ELSE "commit")
            /\ UNCHANGED <<vars, req, at, seats, found, arrived>>
         \/ /\ Blockers(w) = {}
            /\ ~known
            /\ Abort(w)

CommitEntry(w) ==
  /\ IF req[w].kind = "pay"
       THEN Insert(req[w].customer, "DEBT_PAYMENT", -req[w].amount, 0)
       ELSE Insert(req[w].customer, "DEBT_CORRECTION", req[w].amount, 0)
  /\ UNCHANGED <<sessions, computers>>

-----------------------------------------------------------------------------
Commit(w) ==
  /\ pc[w] = "commit"
  /\ \/ req[w].kind = "start" /\ CommitStart(w)
     \/ req[w].kind = "extend" /\ CommitExtend(w)
     \/ req[w].kind = "end" /\ CommitEnd(w)
     \/ req[w].kind = "cancel" /\ CommitCancel(w)
     \/ req[w].kind \in {"pay", "correct"} /\ CommitEntry(w)
  /\ Finish(w)
  /\ UNCHANGED <<now, computerUpdates, prices, people>>

\* The detector aborts a transaction of the cycle.
BreakDeadlock(w) == Deadlocked(w) /\ Abort(w)

\* The process or its connection dies with the transaction open.
Crash(w) == w \in Connected /\ Abort(w)

\* A manager's save or removal is a statement of its own: it waits for the
\* transaction that has the computer's row.
Unlocked(c) == \A w \in Worker : \A l \in locks[w] : l.row # Row("computer", c)

ManagerStep ==
  /\ ComputerAdmin
  /\ \A c \in ComputerId : computers'[c] # computers[c] => Unlocked(c)
  /\ UNCHANGED handlers

\* Rooms and customers are read without a lock.  An update of a customer waits
\* for a payment's FOR UPDATE only: KEY SHARE allows it.
RegistryStep ==
  /\ RoomAdmin \/ CustomerAdmin
  /\ \A k \in CustomerId : customers'[k] # customers[k] =>
       \A w \in Worker : Lock("update", Row("customer", k)) \notin locks[w]
  /\ UNCHANGED handlers

Advance(w) ==
  \/ Connect(w) \/ ResolveCustomer(w) \/ Seat(w) \/ InsertSession(w)
  \/ LockActive(w) \/ SaveSession(w) \/ LockForRelease(w) \/ LockPayer(w)
  \/ CheckBalance(w) \/ InsertEntry(w) \/ Commit(w) \/ BreakDeadlock(w)

TxStep ==
  \/ \E w \in Worker :
       \/ \E r \in Requests : Arrive(w, r)
       \/ Advance(w)
       \/ ConnectTimeout(w)
       \/ Crash(w)
  \/ ManagerStep
  \/ RegistryStep
  \/ Tick /\ UNCHANGED handlers

\* Not of the code: rates that a room asks, and customers that may play, at some
\* moment since the start that w handles arrived.
OnOffer ==
  {<<r, rooms[r].data.pricePerHour>> :
     r \in {q \in RoomId : RoomTable!Live(q) /\ rooms[q].data.isActive}}
  \cup {k \in CustomerId : MayPlay(k)}

Witness ==
  offered' = [w \in Worker |->
    IF req'[w].kind # "start" THEN {}
    ELSE offered[w] \cup OnOffer']

TxNext == TxStep /\ Witness

TxSpec == TxInit /\ [][TxNext]_txVars

\* A statement that can run does run, and the detector finds every cycle.
FairTxSpec == TxSpec /\ \A w \in Worker : WF_txVars(Advance(w) /\ Witness)

-----------------------------------------------------------------------------
(* Properties *)

\* A session closes and its computer stays as it is, because the computer was
\* removed when the request looked it up; a manager's save may have brought it
\* back since.
LeavesComputer(w) ==
  /\ pc[w] = "commit" /\ req[w].kind \in {"end", "cancel"} /\ ~HasComputer(w)
  /\ \/ req[w].kind = "end" /\ EndSession(req[w].session, req[w].receipt, at[w])
     \/ req[w].kind = "cancel" /\ CancelSession(req[w].session, at[w])
  /\ UNCHANGED computers

\* However the transactions interleave, wait, abort or crash, what they commit
\* is what SessionDesk says: a group starts whole or not at all, an ended session
\* and its debt appear together, a session is closed once, and a payment finds
\* the balance it checked.  The one exception is the computer that was removed
\* while its session ended.  (The formula is Spec with the stuttering step put
\* first, which TLC decides before it looks for a step.)
ImplementsDesk ==
  Init /\ [][UNCHANGED vars \/ Next \/ \E w \in Worker : LeavesComputer(w)]_vars

\* There are two ways to deadlock.  Two groups take the same computers in
\* different orders; or a start has found a computer AVAILABLE that has an active
\* session, because a manager's save put the status back, and its insert waits in
\* the index for the transaction that closes the session, which waits for the
\* computer (sessions.service.ts:62, :102, :203, :219).  Otherwise ending,
\* cancelling, paying, correcting and single starts never wait in a cycle.
SeatsOver(w) == pc[w] = "insert" /\ ~IndexAllows(NextComputer(w))

DeadlockCauses ==
  \A w \in Worker : Deadlocked(w) =>
    \/ req[w].kind = "start" /\ Len(req[w].batch) > 1
    \/ \E v \in {w} \cup Blockers(w) : SeatsOver(v)

\* "Concurrent payments cannot both pass the overpayment guard" (recordPayment):
\* an entry that records a payment never leaves the customer in credit.
PaidBy(c) == {j \in EntriesOf(c) : ledger[j].type = "DEBT_PAYMENT"}

PaymentsNeverOverdraw ==
  [][\A c \in CustomerId : PaidBy(c)' # PaidBy(c) => Balance(c)' >= 0]_txVars

\* A balance is below zero only through the owner's hand: however endings, payments
\* and corrections of a customer interleave, a customer in credit has a negative
\* correction in the ledger (debt.service.ts:102, :151).
NegativelyCorrected(c) ==
  \E j \in EntriesOf(c) :
    ledger[j].type = "DEBT_CORRECTION" /\ ledger[j].amount < 0

CreditNeedsCorrection ==
  \A c \in CustomerId : Balance(c) < 0 => NegativelyCorrected(c)

\* Nobody waits for ever: every request that arrives is answered, whatever rows
\* the others hold and however small the connection pool.
EveryRequestSettles == \A w \in Worker : pc[w] # "idle" ~> pc[w] = "idle"

\* Rooms are repriced, deactivated and removed, and customers blocked and
\* removed, while starts are under way.  Each session of a start still has the
\* rate that its room, open at the time, asked at some moment of the request, and
\* a customer who was allowed to play at some moment of it; all sessions of a group
\* have one rate, then, if their room kept its price (sessions.service.ts:80-110).
StartsAsOffered ==
  \A w \in Worker : \A k \in DOMAIN seats[w] :
    LET s == seats[w][k]
    IN  /\ <<s.room, s.ratePerHour>> \in offered[w]
        /\ s.customer # NoCustomer => s.customer \in offered[w]

=============================================================================
