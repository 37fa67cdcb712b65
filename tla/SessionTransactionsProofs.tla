---------------------- MODULE SessionTransactionsProofs ----------------------
(***************************************************************************)
(* Proofs about SessionTransactions, for any number of workers and any      *)
(* requests.  What a transaction has read of a row it has locked is still   *)
(* so when it commits; the invariant says which row each statement leaves   *)
(* locked, and what was read of it.                                        *)
(***************************************************************************)
EXTENDS SessionTransactions, SessionDeskProofs, BalanceTheorems

-----------------------------------------------------------------------------
(* The inductive invariant *)

\* The statements of a request, with its wait for a connection.
StepsOf(kind) ==
  CASE kind = "none"    -> {"idle"}
    [] kind = "start"   -> {"connect", "customer", "seat", "insert", "commit"}
    [] kind = "extend"  -> {"connect", "session", "save", "commit"}
    [] kind = "end"     -> {"connect", "session", "save", "entry", "release", "commit"}
    [] kind = "cancel"  -> {"connect", "session", "save", "release", "commit"}
    [] kind = "pay"     -> {"connect", "payer", "balance", "entry", "commit"}
    [] kind = "correct" -> {"connect", "entry", "commit"}

Cleared(w) == req[w] = NoRequest /\ locks[w] = {} /\ seats[w] = <<>> /\ found[w] = NoRow

TxTypes ==
  /\ TypeOK
  /\ req \in [Worker -> Requests \cup {NoRequest}]
  /\ at \in [Worker -> Instants]
  /\ \A w \in Worker : at[w] <= now
  /\ pc \in [Worker -> Step]
  /\ DOMAIN locks = Worker
  /\ seats \in [Worker -> Seq(Session)]
  /\ found \in [Worker -> Session \cup {NoRow}]
  /\ arrived \in 0 .. MaxRequests
  /\ \A w \in Worker : pc[w] \in StepsOf(req[w].kind)
  /\ \A w \in Worker : pc[w] = "idle" => Cleared(w)

\* No two transactions hold conflicting locks.
NoConflicts ==
  \A v, w \in Worker : v # w =>
    \A l \in locks[v], m \in locks[w] : ~Conflict(l, m)

Updates(w, table, id) == Lock("update", Row(table, id)) \in locks[w]
Shares(w, customer) == Lock("keyShare", Row("customer", customer)) \in locks[w]

\* What an extension, ending or cancellation has locked and read.
SessionRead(w) ==
  req[w].kind \in {"extend", "end", "cancel"} =>
    /\ req[w].session \in DOMAIN sessions
    /\ pc[w] \in {"save", "entry", "release", "commit"} =>
         /\ Updates(w, "session", req[w].session)
         /\ found[w] = sessions[req[w].session]
         /\ Accepts(w, found[w])

\* An ending that adds a debt keeps the customer's row until it commits.
DebtorHeld(w) ==
  req[w].kind = "end" =>
    /\ pc[w] = "entry" => PaidOf(w) < DueOf(w)
    /\ pc[w] \in {"release", "commit"} /\ PaidOf(w) < DueOf(w) =>
         Shares(w, found[w].customer)

\* What a payment has locked and read, and what a correction has.
PayerRead(w) ==
  /\ req[w].kind = "pay" /\ pc[w] \in {"balance", "entry", "commit"} =>
       Updates(w, "customer", req[w].customer) /\ CustomerTable!Live(req[w].customer)
  /\ req[w].kind = "pay" /\ pc[w] \in {"entry", "commit"} =>
       req[w].amount <= Balance(req[w].customer)
  /\ req[w].kind = "correct" /\ pc[w] = "commit" =>
       Shares(w, req[w].customer) /\ customers[req[w].customer].life # "unborn"

\* How far a start has come, and the computers it has locked.
StartRead(w) ==
  req[w].kind = "start" =>
    /\ pc[w] \in {"connect", "customer"} => seats[w] = <<>>
    /\ pc[w] \in {"seat", "insert"} => Len(seats[w]) < Len(req[w].batch)
    /\ pc[w] = "commit" => Len(seats[w]) = Len(req[w].batch)
    /\ \A k \in DOMAIN seats[w] :
         /\ k \in DOMAIN req[w].batch
         /\ seats[w][k].computer = req[w].batch[k]
         /\ Updates(w, "computer", req[w].batch[k])
    /\ pc[w] = "insert" =>
         /\ found[w] \in Session
         /\ found[w].computer = NextComputer(w)
         /\ Updates(w, "computer", NextComputer(w))

Reads(w) == SessionRead(w) /\ DebtorHeld(w) /\ PayerRead(w) /\ StartRead(w)

TxInv == TxTypes /\ NoConflicts /\ \A w \in Worker : Reads(w)

\* What the sessions of a start were made of was on offer while it was handled.
Sees(w, s) ==
  /\ <<s.room, s.ratePerHour>> \in offered[w]
  /\ s.customer = req[w].customer

OfferSeen(w) ==
  IF req[w].kind = "start"
    THEN /\ OnOffer \subseteq offered[w]
         /\ pc[w] \in {"seat", "insert", "commit"} /\ req[w].customer # NoCustomer =>
              req[w].customer \in offered[w]
         /\ pc[w] = "insert" => Sees(w, found[w])
         /\ \A k \in DOMAIN seats[w] : Sees(w, seats[w][k])
    ELSE seats[w] = <<>>

-----------------------------------------------------------------------------
(* Requests and their statements *)

LEMMA RequestFields ==
  ASSUME NEW r \in Requests \cup {NoRequest}
  PROVE  /\ r.kind = "none" <=> r = NoRequest
         /\ r.kind \in {"none", "start", "extend", "end", "cancel", "pay", "correct"}
         /\ r.kind = "start" =>
              /\ r.batch \in Batches \ {<<>>} /\ r.type \in SessionType
              /\ r.customer \in CustomerId \cup {NoCustomer}
              /\ r.term \in Terms \cup {Absent} /\ Entered(r.type, r.term)
         /\ r.kind = "extend" => r.session \in Nat /\ r.term \in Terms \cup {Absent}
         /\ r.kind = "end" => r.session \in Nat /\ r.receipt \in Receipts \cup {Absent}
         /\ r.kind = "cancel" => r.session \in Nat
         /\ r.kind = "pay" => r.customer \in CustomerId /\ r.amount \in Payments \ {0}
         /\ r.kind = "correct" => r.customer \in CustomerId /\ r.amount \in Corrections \ {0}
<1>1. CASE r = NoRequest
  BY <1>1 DEF NoRequest
<1>2. CASE r \in Requests
  <2>1. r \in Request /\ (r.kind = "start" => Entered(r.type, r.term))
    BY <1>2, RequestAssumption
  <2> QED
    BY <2>1 DEF Request, NoRequest
<1> QED
  BY <1>1, <1>2

LEMMA StepFields ==
  ASSUME NEW kind \in {"none", "start", "extend", "end", "cancel", "pay", "correct"},
         NEW step \in StepsOf(kind)
  PROVE  /\ kind = "none" <=> step = "idle"
         /\ step \in {"customer", "seat", "insert"} => kind = "start"
         /\ step \in {"session", "save"} => kind \in {"extend", "end", "cancel"}
         /\ step \in {"payer", "balance"} => kind = "pay"
         /\ step = "entry" => kind \in {"end", "pay", "correct"}
         /\ step = "release" => kind \in {"end", "cancel"}
BY DEF StepsOf

\* What a worker's own steps leave of the others'.
SameHandler(v) ==
  /\ req'[v] = req[v] /\ at'[v] = at[v] /\ pc'[v] = pc[v]
  /\ locks'[v] = locks[v] /\ seats'[v] = seats[v] /\ found'[v] = found[v]

Acts(w) ==
  \/ \E r \in Requests : Arrive(w, r)
  \/ Advance(w)
  \/ ConnectTimeout(w)
  \/ Crash(w)

LEMMA FinishFrame ==
  ASSUME TxTypes, NEW w \in Worker, Finish(w), NEW v \in Worker \ {w}
  PROVE  SameHandler(v)
BY DEF TxTypes, Finish, SameHandler

LEMMA AbortFrame ==
  ASSUME TxTypes, NEW w \in Worker, Abort(w), NEW v \in Worker \ {w}
  PROVE  SameHandler(v)
BY FinishFrame DEF Abort

LEMMA OthersKeep ==
  ASSUME TxTypes, NEW w \in Worker, Acts(w), NEW v \in Worker \ {w}
  PROVE  SameHandler(v)
<1>1. CASE \E r \in Requests : Arrive(w, r)
  BY <1>1 DEF Arrive, Goto, TxTypes, SameHandler
<1>2. CASE Connect(w)
  BY <1>2 DEF Connect, Goto, TxTypes, SameHandler
<1>3. CASE ResolveCustomer(w)
  BY <1>3, AbortFrame DEF ResolveCustomer, Goto, TxTypes, SameHandler
<1>4. CASE Seat(w)
  BY <1>4, AbortFrame DEF Seat, Acquire, Goto, TxTypes, SameHandler
<1>5. CASE InsertSession(w)
  BY <1>5, AbortFrame DEF InsertSession, Acquire, Goto, TxTypes, SameHandler
<1>6. CASE LockActive(w)
  BY <1>6, AbortFrame DEF LockActive, Acquire, Goto, TxTypes, SameHandler
<1>7. CASE SaveSession(w) \/ LockForRelease(w)
  BY <1>7 DEF SaveSession, LockForRelease, Acquire, Goto, TxTypes, SameHandler
<1>8. CASE LockPayer(w)
  BY <1>8, AbortFrame DEF LockPayer, Acquire, Goto, TxTypes, SameHandler
<1>9. CASE CheckBalance(w)
  BY <1>9, AbortFrame DEF CheckBalance, Goto, TxTypes, SameHandler
<1>10. CASE InsertEntry(w)
  BY <1>10, AbortFrame DEF InsertEntry, Acquire, Goto, TxTypes, SameHandler
<1>11. CASE Commit(w)
  BY <1>11, FinishFrame DEF Commit
<1>12. CASE BreakDeadlock(w) \/ ConnectTimeout(w) \/ Crash(w)
  BY <1>12, AbortFrame DEF BreakDeadlock, ConnectTimeout, Crash
<1> QED
  BY <1>1, <1>2, <1>3, <1>4, <1>5, <1>6, <1>7, <1>8, <1>9, <1>10, <1>11, <1>12
  DEF Acts, Advance

-----------------------------------------------------------------------------
(* Locks *)

LEMMA LocksMove ==
  ASSUME NEW w \in Worker, Acts(w)
  PROVE  Acquire(w) \/ UNCHANGED locks \/ locks' = [locks EXCEPT ![w] = {}]
BY DEF Acts, Advance, Arrive, Connect, ResolveCustomer, Seat, InsertSession,
       LockActive, SaveSession, LockForRelease, LockPayer, CheckBalance, InsertEntry, Commit,
       BreakDeadlock, ConnectTimeout, Crash, Abort, Finish

LEMMA Acquired ==
  ASSUME TxTypes, NEW w \in Worker, Acquire(w)
  PROVE  /\ locks'[w] = locks[w] \cup Wanted(w)
         /\ \A v \in Worker \ {w} : locks'[v] = locks[v]
         /\ \A v \in Worker \ {w} : \A l \in Wanted(w), m \in locks[v] : ~Conflict(l, m)
BY DEF TxTypes, Acquire, Blockers, LockBlocks, OwnTransaction

LEMMA NoConflictsKept ==
  ASSUME TxTypes, NoConflicts, NEW w \in Worker, Acts(w)
  PROVE  NoConflicts'
<1>1. \A l, m : Conflict(l, m) <=> Conflict(m, l)
  BY DEF Conflict
<1>2. CASE Acquire(w)
  <2>1. /\ locks'[w] = locks[w] \cup Wanted(w)
        /\ \A v \in Worker \ {w} : locks'[v] = locks[v]
        /\ \A v \in Worker \ {w} : \A l \in Wanted(w), m \in locks[v] : ~Conflict(l, m)
    BY <1>2, Acquired
  <2> QED
    BY <1>1, <2>1 DEF NoConflicts
<1>3. CASE UNCHANGED locks
  BY <1>3 DEF NoConflicts
<1>4. CASE locks' = [locks EXCEPT ![w] = {}]
  BY <1>4 DEF NoConflicts, TxTypes
<1> QED
  BY <1>2, <1>3, <1>4, LocksMove

-----------------------------------------------------------------------------
(* Types *)

LEMMA QuietTypes == TypeOK /\ UNCHANGED vars => TypeOK'
BY NextType

LEMMA FinishTypes ==
  ASSUME TxTypes, NEW w \in Worker, Finish(w), TypeOK', now' = now
  PROVE  TxTypes'
<1>1. NoRequest.kind = "none" /\ StepsOf("none") = {"idle"} /\ "idle" \in Step
  BY DEF NoRequest, StepsOf, Step
<1>2. <<>> \in Seq(Session)
  OBVIOUS
<1> QED
  BY <1>1, <1>2 DEF TxTypes, Finish, Cleared

LEMMA AbortTypes ==
  ASSUME TxTypes, NEW w \in Worker, Abort(w)
  PROVE  TxTypes'
<1>1. TypeOK' /\ now' = now
  BY QuietTypes DEF TxTypes, Abort, vars
<1> QED
  BY <1>1, FinishTypes DEF Abort

LEMMA WorkerFields ==
  ASSUME TxTypes, NEW w \in Worker
  PROVE  /\ req[w] \in Requests \cup {NoRequest}
         /\ req[w].kind \in {"none", "start", "extend", "end", "cancel", "pay", "correct"}
         /\ pc[w] \in StepsOf(req[w].kind)
<1>1. req[w] \in Requests \cup {NoRequest} /\ pc[w] \in StepsOf(req[w].kind)
  BY DEF TxTypes
<1> QED
  BY <1>1, RequestFields

LEMMA ArriveTypes ==
  ASSUME TxTypes, NEW w \in Worker, NEW r \in Requests, Arrive(w, r)
  PROVE  TxTypes'
<1>1. r.kind \in {"start", "extend", "end", "cancel", "pay", "correct"}
  BY RequestFields, RequestAssumption DEF Request
<1>2. TypeOK' /\ now' = now /\ now \in Instants
  BY QuietTypes DEF TxTypes, Arrive, TypeOK, vars
<1>3. "connect" \in StepsOf(r.kind)
  BY <1>1 DEF StepsOf
<1>4. now \in Nat /\ arrived' \in 0 .. MaxRequests
  BY <1>2, DeskAssumption, RequestAssumption DEF TxTypes, Arrive
<1> QED
  BY <1>1, <1>2, <1>3, <1>4 DEF TxTypes, Arrive, Goto, Cleared, Step

LEMMA ConnectTypes ==
  ASSUME TxTypes, NEW w \in Worker, Connect(w)
  PROVE  TxTypes'
<1>1. TypeOK' /\ now' = now
  BY QuietTypes DEF TxTypes, Connect, vars
<1>2. req[w].kind \in {"start", "extend", "end", "cancel", "pay", "correct"}
  BY WorkerFields, StepFields DEF Connect
<1>3. /\ FirstStep(req[w].kind) \in StepsOf(req[w].kind) \ {"idle"}
      /\ FirstStep(req[w].kind) \in Step
  BY <1>2 DEF FirstStep, StepsOf, Step
<1> QED
  BY <1>1, <1>3 DEF TxTypes, Connect, Goto, Cleared

LEMMA ResolveTypes ==
  ASSUME TxTypes, NEW w \in Worker, ResolveCustomer(w)
  PROVE  TxTypes'
<1>1. CASE Abort(w)
  BY <1>1, AbortTypes
<1>2. CASE ~Abort(w)
  <2>1. Goto(w, "seat") /\ UNCHANGED <<vars, req, at, locks, seats, found, arrived>>
    BY <1>2 DEF ResolveCustomer
  <2>2. TypeOK' /\ now' = now
    BY <2>1, QuietTypes DEF TxTypes, vars
  <2>3. req[w].kind = "start"
    BY WorkerFields, StepFields DEF ResolveCustomer
  <2> QED
    BY <2>1, <2>2, <2>3 DEF TxTypes, Goto, Cleared, Step, StepsOf
<1> QED
  BY <1>1, <1>2

LEMMA NextComputerIs ==
  ASSUME TxTypes, NEW w \in Worker, StartRead(w), pc[w] \in {"seat", "insert"}
  PROVE  /\ req[w].kind = "start" /\ req[w].batch \in Batches
         /\ seats[w] \in Seq(Session) /\ Len(seats[w]) \in Nat
         /\ DOMAIN seats[w] = 1 .. Len(seats[w])
         /\ Len(req[w].batch) \in Nat /\ DOMAIN req[w].batch = 1 .. Len(req[w].batch)
         /\ Len(seats[w]) + 1 \in DOMAIN req[w].batch
         /\ NextComputer(w) = req[w].batch[Len(seats[w]) + 1]
         /\ NextComputer(w) \in ComputerId
<1>1. req[w].kind = "start"
  BY WorkerFields, StepFields
<1>2. req[w].batch \in Batches
  BY <1>1, WorkerFields, RequestFields
<1>3. /\ Len(req[w].batch) \in Nat
      /\ DOMAIN req[w].batch = 1 .. Len(req[w].batch)
      /\ \A k \in DOMAIN req[w].batch : req[w].batch[k] \in ComputerId
  BY <1>2, BatchType
<1>4. seats[w] \in Seq(Session)
  BY DEF TxTypes
<1>5. Len(seats[w]) \in Nat /\ DOMAIN seats[w] = 1 .. Len(seats[w])
  BY <1>4
<1>6. Len(seats[w]) < Len(req[w].batch)
  BY <1>1 DEF StartRead
<1>7. Len(seats[w]) + 1 \in DOMAIN req[w].batch
  BY <1>3, <1>5, <1>6
<1> QED
  BY <1>1, <1>2, <1>3, <1>4, <1>5, <1>7 DEF NextComputer

\* The row that Seat makes of its next computer.
LEMMA SeatRow ==
  ASSUME TxTypes, NEW w \in Worker, StartRead(w), pc[w] = "seat", Seatable(w)
  PROVE  NewSession(NextComputer(w), req[w].type, req[w].customer, 0, req[w].term, at[w])
           \in Session
<1>1. TypeOK /\ at[w] \in Instants
  BY DEF TxTypes
<1>2. req[w].kind = "start" /\ NextComputer(w) \in ComputerId
  BY NextComputerIs
<1>3. /\ req[w].type \in SessionType
      /\ req[w].customer \in CustomerId \cup {NoCustomer}
      /\ req[w].term \in Terms \cup {Absent}
  BY <1>2, WorkerFields, RequestFields
<1>4. CanPlan(req[w].type, RateOf(NextComputer(w)), at[w], req[w].term)
  BY DEF Seatable
<1> QED
  BY <1>1, <1>2, <1>3, <1>4, NewSessionType

LEMMA SeatTypes ==
  ASSUME TxTypes, NEW w \in Worker, StartRead(w), Seat(w)
  PROVE  TxTypes'
<1> DEFINE row == NewSession(NextComputer(w), req[w].type, req[w].customer, 0,
                             req[w].term, at[w])
<1>1. CASE Abort(w)
  BY <1>1, AbortTypes
<1>2. CASE ~Abort(w)
  <2>1. /\ pc[w] = "seat" /\ Seatable(w) /\ Acquire(w)
        /\ found' = [found EXCEPT ![w] = row]
        /\ Goto(w, "insert")
        /\ UNCHANGED <<vars, req, at, seats, arrived>>
    BY <1>2 DEF Seat
  <2>2. row \in Session
    BY <2>1, SeatRow
  <2> HIDE DEF row
  <2>3. TypeOK' /\ now' = now
    BY <2>1, QuietTypes DEF TxTypes, vars
  <2>4. req[w].kind = "start"
    BY <2>1, WorkerFields, StepFields
  <2> QED
    BY <2>1, <2>2, <2>3, <2>4 DEF TxTypes, Acquire, Goto, Cleared, Step, StepsOf
<1> QED
  BY <1>1, <1>2

LEMMA InsertTypes ==
  ASSUME TxTypes, NEW w \in Worker, StartRead(w), InsertSession(w)
  PROVE  TxTypes'
<1>1. CASE Abort(w)
  BY <1>1, AbortTypes
<1>2. CASE ~Abort(w)
  <2>1. PICK step \in {"seat", "commit"} :
        /\ pc[w] = "insert" /\ Acquire(w)
        /\ seats' = [seats EXCEPT ![w] = Append(@, found[w])]
        /\ found' = [found EXCEPT ![w] = NoRow]
        /\ Goto(w, step)
        /\ UNCHANGED <<vars, req, at, arrived>>
    BY <1>2 DEF InsertSession
  <2>2. req[w].kind = "start"
    BY <2>1, WorkerFields, StepFields
  <2>3. found[w] \in Session
    BY <2>1, <2>2 DEF StartRead
  <2>4. Append(seats[w], found[w]) \in Seq(Session)
    BY <2>3 DEF TxTypes
  <2>5. TypeOK' /\ now' = now
    BY <2>1, QuietTypes DEF TxTypes, vars
  <2> QED
    BY <2>1, <2>2, <2>4, <2>5 DEF TxTypes, Acquire, Goto, Cleared, Step, StepsOf
<1> QED
  BY <1>1, <1>2

LEMMA LockTypes ==
  ASSUME TxTypes, NEW w \in Worker, SessionRead(w), LockActive(w)
  PROVE  TxTypes'
<1> DEFINE s == sessions[req[w].session]
<1>1. CASE Abort(w)
  BY <1>1, AbortTypes
<1>2. CASE ~Abort(w)
  <2>1. /\ pc[w] = "session" /\ Acquire(w)
        /\ found' = [found EXCEPT ![w] = s]
        /\ at' = [at EXCEPT ![w] = IF req[w].kind = "cancel" THEN now ELSE @]
        /\ Goto(w, "save")
        /\ UNCHANGED <<vars, req, seats, arrived>>
    BY <1>2 DEF LockActive
  <2>2. req[w].kind \in {"extend", "end", "cancel"}
    BY <2>1, WorkerFields, StepFields
  <2>3. s \in Session
    BY <2>2, SessionTyped DEF SessionRead, TxTypes
  <2>4. "save" \in StepsOf(req[w].kind) /\ "save" \in Step
    BY <2>2 DEF StepsOf, Step
  <2>5. TypeOK' /\ now' = now /\ now \in Instants /\ now \in Nat
    BY <2>1, QuietTypes, DeskAssumption DEF TxTypes, vars, TypeOK
  <2> HIDE DEF s
  <2> QED
    BY <2>1, <2>3, <2>4, <2>5 DEF TxTypes, Acquire, Goto, Cleared
<1> QED
  BY <1>1, <1>2

\* The statements that only lock or look.
LEMMA WalkTypes ==
  ASSUME TxTypes, NEW w \in Worker, NEW step \in Step \ {"idle"},
         step \in StepsOf(req[w].kind), Goto(w, step),
         Acquire(w) \/ UNCHANGED locks,
         UNCHANGED <<vars, req, at, seats, found, arrived>>
  PROVE  TxTypes'
<1>1. TypeOK' /\ now' = now
  BY QuietTypes DEF TxTypes, vars
<1> QED
  BY <1>1 DEF TxTypes, Acquire, Goto, Cleared

LEMMA SaveTypes ==
  ASSUME TxTypes, NEW w \in Worker, SaveSession(w)
  PROVE  TxTypes'
<1> DEFINE step == AfterSave(w, found[w])
<1>1. req[w].kind \in {"extend", "end", "cancel"}
  BY WorkerFields, StepFields DEF SaveSession
<1>2. step \in StepsOf(req[w].kind) /\ step \in Step \ {"idle"}
  BY <1>1 DEF AfterSave, StepsOf, Step
<1>3. Goto(w, step) /\ UNCHANGED <<vars, req, at, locks, seats, found, arrived>>
  BY DEF SaveSession
<1> HIDE DEF step
<1> QED
  BY <1>2, <1>3, WalkTypes

LEMMA ReleaseTypes ==
  ASSUME TxTypes, NEW w \in Worker, LockForRelease(w)
  PROVE  TxTypes'
<1>1. "commit" \in StepsOf(req[w].kind)
  BY WorkerFields, StepFields DEF LockForRelease, StepsOf
<1> QED
  BY <1>1, WalkTypes DEF LockForRelease, Step

LEMMA PayerTypes ==
  ASSUME TxTypes, NEW w \in Worker, LockPayer(w) \/ CheckBalance(w)
  PROVE  TxTypes'
<1>1. CASE Abort(w)
  BY <1>1, AbortTypes
<1>2. CASE ~Abort(w)
  <2>1. PICK step \in {"balance", "entry"} :
        /\ pc[w] \in {"payer", "balance"}
        /\ Goto(w, step)
        /\ Acquire(w) \/ UNCHANGED locks
        /\ UNCHANGED <<vars, req, at, seats, found, arrived>>
    BY <1>2 DEF LockPayer, CheckBalance
  <2>2. step \in StepsOf(req[w].kind) /\ step \in Step \ {"idle"}
    BY <2>1, WorkerFields, StepFields DEF StepsOf, Step
  <2> QED
    BY <2>1, <2>2, WalkTypes
<1> QED
  BY <1>1, <1>2

LEMMA EntryTypes ==
  ASSUME TxTypes, NEW w \in Worker, InsertEntry(w)
  PROVE  TxTypes'
<1>1. CASE Abort(w)
  BY <1>1, AbortTypes
<1>2. CASE ~Abort(w)
  <2> DEFINE step == IF req[w].kind = "end" THEN "release" ELSE "commit"
  <2>1. /\ pc[w] = "entry"
        /\ Goto(w, step)
        /\ Acquire(w)
        /\ UNCHANGED <<vars, req, at, seats, found, arrived>>
    BY <1>2 DEF InsertEntry
  <2>2. step \in StepsOf(req[w].kind) /\ step \in Step \ {"idle"}
    BY <2>1, WorkerFields, StepFields DEF StepsOf, Step
  <2> HIDE DEF step
  <2> QED
    BY <2>1, <2>2, WalkTypes
<1> QED
  BY <1>1, <1>2

-----------------------------------------------------------------------------
(* What a transaction commits is one request of SessionDesk *)

Commits(w) == Commit(w) /\ TxTypes /\ Reads(w)

LEMMA CommitFrame ==
  ASSUME NEW w \in Worker, Commit(w)
  PROVE  Finish(w) /\ UNCHANGED <<now, computerUpdates, prices, people>>
BY DEF Commit

LEMMA ExtendCommitted ==
  ASSUME NEW w \in Worker, Commits(w), req[w].kind = "extend"
  PROVE  /\ req[w].session \in DOMAIN sessions
         /\ req[w].term \in Terms \cup {Absent}
         /\ Extend(req[w].session, req[w].term)
<1>1. CommitExtend(w) /\ UNCHANGED <<now, computerUpdates, prices, people>>
  BY DEF Commits, Commit
<1>2. /\ req[w].session \in DOMAIN sessions
      /\ found[w] = sessions[req[w].session]
      /\ Accepts(w, found[w])
  BY DEF Commits, Commit, Reads, SessionRead
<1>3. req[w].term \in Terms \cup {Absent}
  BY WorkerFields, RequestFields DEF Commits
<1> QED
  BY <1>1, <1>2, <1>3 DEF CommitExtend, Extend, Accepts, IsActive, fleet

LEMMA EndCommitted ==
  ASSUME NEW w \in Worker, Commits(w), req[w].kind = "end"
  PROVE  /\ req[w].session \in DOMAIN sessions
         /\ req[w].receipt \in Receipts \cup {Absent}
         /\ at[w] \in Instants
         /\ EndSession(req[w].session, req[w].receipt, at[w])
         /\ IF HasComputer(w)
              THEN ReleaseComputer(sessions[req[w].session].computer)
              ELSE UNCHANGED computers
<1>1. CommitEnd(w) /\ UNCHANGED <<now, computerUpdates, prices, people>>
  BY DEF Commits, Commit
<1>2. /\ req[w].session \in DOMAIN sessions
      /\ found[w] = sessions[req[w].session]
      /\ Accepts(w, found[w])
  BY DEF Commits, Commit, Reads, SessionRead
<1>3. req[w].receipt \in Receipts \cup {Absent}
  BY WorkerFields, RequestFields DEF Commits
<1>4. at[w] \in Instants /\ at[w] <= now
  BY DEF Commits, TxTypes
<1> QED
  BY <1>1, <1>2, <1>3, <1>4
  DEF CommitEnd, EndSession, Release, Accepts, IsActive, DueOf, PaidOf

LEMMA CancelCommitted ==
  ASSUME NEW w \in Worker, Commits(w), req[w].kind = "cancel"
  PROVE  /\ req[w].session \in DOMAIN sessions
         /\ at[w] \in Instants
         /\ CancelSession(req[w].session, at[w])
         /\ IF HasComputer(w)
              THEN ReleaseComputer(sessions[req[w].session].computer)
              ELSE UNCHANGED computers
<1>1. CommitCancel(w) /\ UNCHANGED <<now, computerUpdates, prices, people>>
  BY DEF Commits, Commit
<1>2. /\ req[w].session \in DOMAIN sessions
      /\ found[w] = sessions[req[w].session]
      /\ Accepts(w, found[w])
  BY DEF Commits, Commit, Reads, SessionRead
<1>3. at[w] \in Instants /\ at[w] <= now
  BY DEF Commits, TxTypes
<1> QED
  BY <1>1, <1>2, <1>3 DEF CommitCancel, CancelSession, Release, Accepts, IsActive

LEMMA EntryCommitted ==
  ASSUME NEW w \in Worker, Commits(w), req[w].kind \in {"pay", "correct"}
  PROVE  /\ req[w].customer \in CustomerId
         /\ req[w].kind = "pay" =>
              req[w].amount \in Payments /\ PayDebt(req[w].customer, req[w].amount)
         /\ req[w].kind = "correct" =>
              req[w].amount \in Corrections /\ CorrectDebt(req[w].customer, req[w].amount)
<1>1. CommitEntry(w) /\ UNCHANGED <<now, computerUpdates, prices, people>>
  BY DEF Commits, Commit
<1>2. /\ req[w].customer \in CustomerId
      /\ req[w].kind = "pay" => req[w].amount \in Payments \ {0}
      /\ req[w].kind = "correct" => req[w].amount \in Corrections \ {0}
  BY WorkerFields, RequestFields DEF Commits
<1>3. CASE req[w].kind = "pay"
  <2>1. CustomerTable!Live(req[w].customer) /\ req[w].amount <= Balance(req[w].customer)
    BY <1>3 DEF Commits, Commit, Reads, PayerRead
  <2>2. req[w].amount > 0
    <3>1. Payments \subseteq Nat
      BY DeskAssumption
    <3>2. req[w].amount \in Nat /\ req[w].amount # 0
      BY <1>2, <1>3, <3>1
    <3> QED
      BY <3>2
  <2>3. Insert(req[w].customer, "DEBT_PAYMENT", -req[w].amount, 0)
    BY <1>1, <1>3 DEF CommitEntry
  <2> QED
    BY <1>1, <1>2, <1>3, <2>1, <2>2, <2>3 DEF CommitEntry, PayDebt, RecordPayment, fleet
<1>4. CASE req[w].kind = "correct"
  <2>1. customers[req[w].customer].life # "unborn"
    BY <1>4 DEF Commits, Commit, Reads, PayerRead
  <2>2. Insert(req[w].customer, "DEBT_CORRECTION", req[w].amount, 0)
    BY <1>1, <1>4 DEF CommitEntry
  <2> QED
    BY <1>1, <1>2, <1>4, <2>1, <2>2 DEF CommitEntry, CorrectDebt, Correct, fleet
<1> QED
  BY <1>2, <1>3, <1>4

\* All but the commit of a start is a step of the desk, or closes a session whose
\* computer the transaction did not find.
LEMMA CommittedIsNext ==
  ASSUME NEW w \in Worker, Commits(w), req[w].kind # "start"
  PROVE  Next \/ (LeavesComputer(w) /\ CloseOnly)
<1>1. req[w].kind \in {"extend", "end", "cancel", "pay", "correct"} /\ pc[w] = "commit"
  BY DEF Commits, Commit
<1>2. CASE req[w].kind = "extend"
  BY <1>2, ExtendCommitted DEF SessionRequest, Next
<1>3. CASE req[w].kind = "end"
  <2>1. CASE HasComputer(w)
    <3>1. End(req[w].session, req[w].receipt, at[w])
      BY <1>3, <2>1, EndCommitted DEF End
    <3> QED
      BY <1>3, <3>1, EndCommitted DEF SessionRequest, Next
  <2>2. CASE ~HasComputer(w)
    BY <1>1, <1>3, <2>2, EndCommitted DEF LeavesComputer, CloseOnly
  <2> QED
    BY <2>1, <2>2
<1>4. CASE req[w].kind = "cancel"
  <2>1. CASE HasComputer(w)
    <3>1. Cancel(req[w].session, at[w])
      BY <1>4, <2>1, CancelCommitted DEF Cancel
    <3> QED
      BY <1>4, <3>1, CancelCommitted DEF SessionRequest, Next
  <2>2. CASE ~HasComputer(w)
    BY <1>1, <1>4, <2>2, CancelCommitted DEF LeavesComputer, CloseOnly
  <2> QED
    BY <2>1, <2>2
<1>5. CASE req[w].kind \in {"pay", "correct"}
  <2>1. DebtRequest
    BY <1>5, EntryCommitted DEF DebtRequest
  <2> QED
    BY <2>1 DEF Next
<1> QED
  BY <1>1, <1>2, <1>3, <1>4, <1>5

LEMMA GroupType ==
  ASSUME TypeOK, NEW batch
  PROVE  GroupOf(batch) \in Nat
<1>1. Len(sessions) \in Nat
  BY DEF TypeOK
<1> QED
  BY <1>1 DEF GroupOf

\* Only its group comes to a session of a start at the end.
LEMMA Regrouped ==
  ASSUME NEW s \in Session, NEW group \in Nat
  PROVE  LET t == [s EXCEPT !.group = group]
         IN  /\ t \in Session
             /\ t.computer = s.computer /\ t.status = s.status
             /\ t.amountDue = s.amountDue
             /\ ChargedFor(t) <=> ChargedFor(s)
BY DEF Session, ChargedFor, BilledSeconds, UsedSeconds

\* The sessions a start commits, on the computers it has locked.
LEMMA StartCommitted ==
  ASSUME NEW w \in Worker, Commits(w), req[w].kind = "start"
  PROVE  /\ sessions' \in Seq(Session)
         /\ \A i \in DOMAIN sessions : i \in DOMAIN sessions' /\ sessions'[i] = sessions[i]
         /\ \A i \in DOMAIN sessions' \ DOMAIN sessions :
              /\ i - Len(sessions) \in DOMAIN seats[w]
              /\ sessions'[i] = [seats[w][i - Len(sessions)] EXCEPT
                                    !.group = GroupOf(req[w].batch)]
         /\ \A k \in DOMAIN seats[w] :
              Len(sessions) + k \in DOMAIN sessions' \ DOMAIN sessions
         /\ Occupy({seats[w][k].computer : k \in DOMAIN seats[w]})
         /\ UNCHANGED <<now, ledger, computerUpdates, prices, people>>
<1> DEFINE group == GroupOf(req[w].batch)
           new == [k \in DOMAIN seats[w] |-> [seats[w][k] EXCEPT !.group = group]]
<1>1. /\ sessions' = sessions \o new
      /\ Occupy({seats[w][k].computer : k \in DOMAIN seats[w]})
      /\ UNCHANGED <<now, ledger, computerUpdates, prices, people>>
  BY DEF Commits, Commit, CommitStart
<1>2. sessions \in Seq(Session) /\ seats[w] \in Seq(Session)
  BY DEF Commits, TxTypes, TypeOK
<1>3. group \in Nat
  BY <1>2 DEF GroupOf
<1> HIDE DEF group
<1>4. DOMAIN seats[w] = 1 .. Len(seats[w]) /\ Len(seats[w]) \in Nat
  BY <1>2
<1>5. ASSUME NEW k \in DOMAIN seats[w]
      PROVE  /\ new[k] \in Session
             /\ new[k] = [seats[w][k] EXCEPT !.group = group]
  <2>1. seats[w][k] \in Session
    BY <1>2
  <2> QED
    BY <1>3, <2>1, Regrouped
<1>6. new \in Seq(Session) /\ DOMAIN new = DOMAIN seats[w]
  <2>1. new \in [1 .. Len(seats[w]) -> Session] /\ DOMAIN new = 1 .. Len(seats[w])
    BY <1>4, <1>5
  <2> HIDE DEF new
  <2> QED
    BY <1>4, <2>1
<1> HIDE DEF new
<1>7. /\ sessions \o new \in Seq(Session)
      /\ Len(sessions \o new) = Len(sessions) + Len(new)
      /\ \A i \in DOMAIN sessions : (sessions \o new)[i] = sessions[i]
      /\ \A i \in DOMAIN (sessions \o new) \ DOMAIN sessions :
           i - Len(sessions) \in DOMAIN new /\ (sessions \o new)[i] = new[i - Len(sessions)]
  BY <1>2, <1>6, ConcatEffect
<1>8. /\ DOMAIN sessions \subseteq DOMAIN (sessions \o new)
      /\ \A k \in DOMAIN seats[w] :
           Len(sessions) + k \in DOMAIN (sessions \o new) \ DOMAIN sessions
  <2>1. DOMAIN sessions = 1 .. Len(sessions) /\ Len(sessions) \in Nat
    BY <1>2
  <2>2. Len(new) \in Nat
    BY <1>6
  <2>3. DOMAIN (sessions \o new) = 1 .. Len(sessions) + Len(new)
    BY <1>7
  <2>4. DOMAIN seats[w] = 1 .. Len(new)
    BY <1>6
  <2> QED
    BY <2>1, <2>2, <2>3, <2>4
<1> QED
  BY <1>1, <1>5, <1>6, <1>7, <1>8 DEF group

LEMMA CommitTypes ==
  ASSUME TxTypes, NEW w \in Worker, Reads(w), Commit(w)
  PROVE  TxTypes'
<1>1. Commits(w)
  BY DEF Commits
<1>2. Finish(w) /\ now' = now
  BY CommitFrame
<1>3. TypeOK'
  <2>1. CASE req[w].kind = "start"
    <3>1. /\ sessions' \in Seq(Session)
          /\ Occupy({seats[w][k].computer : k \in DOMAIN seats[w]})
          /\ UNCHANGED <<now, ledger, computerUpdates, prices, people>>
      BY <1>1, <2>1, StartCommitted
    <3>2. ComputerTable!TypeOK'
      BY <3>1, OccupyType DEF TxTypes, TypeOK
    <3>3. TypeOK
      BY DEF TxTypes
    <3> QED
      BY <3>1, <3>2, <3>3
      DEF TypeOK, LedgerTypeOK, prices, people, RoomTable!TypeOK, CustomerTable!TypeOK
  <2>2. CASE req[w].kind # "start"
    <3>1. DeskMove
      BY <1>1, <2>2, CommittedIsNext DEF DeskMove
    <3> QED
      BY <3>1, NextType DEF TxTypes
  <2> QED
    BY <2>1, <2>2
<1> QED
  BY <1>2, <1>3, FinishTypes

LEMMA TypesStep == TxInv /\ [TxNext]_txVars => TxTypes'
<1> SUFFICES ASSUME TxInv, [TxNext]_txVars PROVE TxTypes'
  OBVIOUS
<1>1. TxTypes /\ \A w \in Worker : SessionRead(w) /\ StartRead(w) /\ Reads(w)
  BY DEF TxInv, Reads
<1>2. ASSUME NEW w \in Worker, Acts(w) PROVE TxTypes'
  BY <1>1, <1>2, ArriveTypes, ConnectTypes, ResolveTypes, SeatTypes, InsertTypes,
     LockTypes, SaveTypes, ReleaseTypes, PayerTypes, EntryTypes, CommitTypes, AbortTypes
  DEF Acts, Advance, BreakDeadlock, ConnectTimeout, Crash
<1>3. ASSUME Next, UNCHANGED handlers, now' >= now PROVE TxTypes'
  <2>1. TypeOK' /\ \A w \in Worker : at[w] <= now'
    <3>1. TypeOK'
      BY <1>1, <1>3, NextType DEF TxTypes, DeskMove
    <3>2. now \in Int /\ now' \in Int /\ \A w \in Worker : at[w] \in Int
      <4>1. Instants \subseteq Int
        BY DeskAssumption
      <4> QED
        BY <1>1, <3>1, <4>1 DEF TxTypes, TypeOK
    <3> QED
      BY <1>1, <1>3, <3>1, <3>2 DEF TxTypes
  <2> QED
    BY <1>1, <1>3, <2>1 DEF TxTypes, handlers, Cleared
<1>4. now \in Int
  BY <1>1, DeskAssumption DEF TxTypes, TypeOK
<1>5. CASE ManagerStep
  BY <1>3, <1>4, <1>5 DEF ManagerStep, ComputerAdmin, Next
<1>6. CASE RegistryStep
  BY <1>3, <1>4, <1>6 DEF RegistryStep, RoomAdmin, CustomerAdmin, Next
<1>7. CASE Tick /\ UNCHANGED handlers
  <2>1. now' \in Int
    BY <1>7, DeskAssumption DEF Tick
  <2> QED
    BY <1>3, <1>4, <1>7, <2>1 DEF Tick, Next
<1>8. CASE UNCHANGED txVars
  <2>1. TypeOK' /\ UNCHANGED handlers /\ now' = now
    BY <1>1, <1>8, QuietTypes DEF TxTypes, txVars, vars
  <2> QED
    BY <1>1, <2>1 DEF TxTypes, handlers, Cleared
<1> QED
  BY <1>2, <1>5, <1>6, <1>7, <1>8 DEF TxNext, TxStep, Acts

-----------------------------------------------------------------------------
(* What a transaction has locked stays as it read it *)

\* A step that changes nothing that v has locked.
Respects(v) ==
  /\ \A i \in DOMAIN sessions :
       /\ i \in DOMAIN sessions'
       /\ Updates(v, "session", i) => sessions'[i] = sessions[i]
  /\ \A c \in ComputerId : Updates(v, "computer", c) =>
       computers'[c] = computers[c] /\ (ActiveOn(c) = {} => ActiveOn(c)' = {})
  /\ \A k \in CustomerId : Updates(v, "customer", k) =>
       customers'[k] = customers[k] /\ Balance(k)' = Balance(k)
  /\ \A k \in CustomerId :
       customers[k].life # "unborn" => customers'[k].life # "unborn"

LEMMA SessionReadKept ==
  ASSUME TxTypes, NEW v \in Worker, SameHandler(v), Respects(v), SessionRead(v)
  PROVE  SessionRead(v)'
<1> SUFFICES ASSUME req[v].kind \in {"extend", "end", "cancel"} PROVE SessionRead(v)'
  BY DEF SessionRead, SameHandler
<1>1. req[v].session \in DOMAIN sessions /\ req[v].session \in DOMAIN sessions'
  BY DEF SessionRead, Respects
<1>2. Updates(v, "session", req[v].session) => sessions'[req[v].session] = sessions[req[v].session]
  BY <1>1 DEF Respects
<1>3. \A s : Accepts(v, s)' <=> Accepts(v, s)
  BY DEF SameHandler, Accepts
<1> QED
  BY <1>1, <1>2, <1>3 DEF SessionRead, SameHandler, Updates

LEMMA DebtorKept ==
  ASSUME NEW v \in Worker, SameHandler(v), DebtorHeld(v)
  PROVE  DebtorHeld(v)'
BY DEF DebtorHeld, SameHandler, PaidOf, DueOf, Shares

LEMMA PayerKept ==
  ASSUME TxTypes, NEW v \in Worker, SameHandler(v), Respects(v), PayerRead(v)
  PROVE  PayerRead(v)'
<1>1. CASE req[v].kind \notin {"pay", "correct"}
  BY <1>1 DEF PayerRead, SameHandler
<1>2. CASE req[v].kind \in {"pay", "correct"}
  <2>1. PICK k \in CustomerId : k = req[v].customer
    BY <1>2, WorkerFields, RequestFields
  <2>2. Updates(v, "customer", k) =>
          customers'[k] = customers[k] /\ Balance(k)' = Balance(k)
    BY DEF Respects
  <2>3. customers[k].life # "unborn" => customers'[k].life # "unborn"
    BY DEF Respects
  <2> QED
    BY <2>1, <2>2, <2>3 DEF PayerRead, SameHandler, Updates, Shares, CustomerTable!Live
<1> QED
  BY <1>1, <1>2

LEMMA StartKept ==
  ASSUME NEW v \in Worker, SameHandler(v), StartRead(v)
  PROVE  StartRead(v)'
BY DEF StartRead, SameHandler, Updates, NextComputer

LEMMA ReadsKept ==
  ASSUME TxTypes, NEW v \in Worker, SameHandler(v), Respects(v), Reads(v)
  PROVE  Reads(v)'
BY SessionReadKept, DebtorKept, PayerKept, StartKept DEF Reads

LEMMA QuietRespects ==
  ASSUME TxTypes, NEW v \in Worker, UNCHANGED vars
  PROVE  Respects(v)
<1>1. \A k : Balance(k)' = Balance(k)
  BY BalanceKept DEF vars
<1> QED
  BY <1>1 DEF Respects, vars, fleet, people, ActiveOn

-----------------------------------------------------------------------------
(* What each statement adds to what its own transaction has read *)

LEMMA FinishReads ==
  ASSUME TxTypes, NEW w \in Worker, Finish(w)
  PROVE  Reads(w)'
<1>1. req'[w].kind = "none"
  BY DEF TxTypes, Finish, NoRequest
<1> QED
  BY <1>1 DEF Reads, SessionRead, DebtorHeld, PayerRead, StartRead

LEMMA AbortReads ==
  ASSUME TxTypes, NEW w \in Worker, Abort(w)
  PROVE  Reads(w)'
BY FinishReads DEF Abort

LEMMA ArriveReads ==
  ASSUME TxTypes, NEW w \in Worker, NEW r \in Requests, Arrive(w, r)
  PROVE  Reads(w)'
<1>1. /\ req'[w] = r /\ pc'[w] = "connect" /\ seats'[w] = <<>>
      /\ UNCHANGED sessions
      /\ r.kind \in {"extend", "end", "cancel"} => r.session \in DOMAIN sessions
  BY DEF Arrive, Goto, TxTypes, Cleared, vars
<1> QED
  BY <1>1 DEF Reads, SessionRead, DebtorHeld, PayerRead, StartRead

LEMMA ConnectReads ==
  ASSUME TxTypes, NEW w \in Worker, Reads(w), Connect(w)
  PROVE  Reads(w)'
<1>1. /\ req'[w] = req[w] /\ pc[w] = "connect" /\ seats'[w] = seats[w]
      /\ pc'[w] = FirstStep(req[w].kind)
      /\ UNCHANGED sessions
  BY DEF Connect, Goto, TxTypes, vars
<1>2. /\ req[w].kind = "start" => pc'[w] = "customer"
      /\ req[w].kind \in {"extend", "end", "cancel"} => pc'[w] = "session"
      /\ req[w].kind = "pay" => pc'[w] = "payer"
      /\ req[w].kind = "correct" => pc'[w] = "entry"
  BY <1>1 DEF FirstStep
<1> QED
  BY <1>1, <1>2 DEF Reads, SessionRead, DebtorHeld, PayerRead, StartRead

LEMMA ResolveReads ==
  ASSUME TxTypes, NEW w \in Worker, Reads(w), ResolveCustomer(w)
  PROVE  Reads(w)'
<1>1. CASE Abort(w)
  BY <1>1, AbortReads
<1>2. CASE ~Abort(w)
  <2>1. /\ pc[w] = "customer" /\ pc'[w] = "seat"
        /\ req'[w] = req[w] /\ seats'[w] = seats[w]
    BY <1>2 DEF ResolveCustomer, Goto, TxTypes
  <2>2. req[w].kind = "start"
    BY <2>1, WorkerFields, StepFields
  <2>3. Len(<<>>) < Len(req[w].batch)
    <3>1. req[w].batch \in Batches \ {<<>>}
      BY <2>2, WorkerFields, RequestFields
    <3> QED
      BY <3>1, BatchType
  <2>4. seats[w] = <<>>
    BY <2>1, <2>2 DEF Reads, StartRead
  <2>5. DOMAIN seats[w] = {}
    BY <2>4
  <2> QED
    BY <2>1, <2>2, <2>3, <2>4, <2>5 DEF Reads, SessionRead, DebtorHeld, PayerRead, StartRead
<1> QED
  BY <1>1, <1>2

LEMMA SeatReads ==
  ASSUME TxTypes, NEW w \in Worker, Reads(w), Seat(w)
  PROVE  Reads(w)'
<1> DEFINE row == NewSession(NextComputer(w), req[w].type, req[w].customer, 0,
                             req[w].term, at[w])
<1>1. CASE Abort(w)
  BY <1>1, AbortReads
<1>2. CASE ~Abort(w)
  <2>1. /\ pc[w] = "seat" /\ Seatable(w) /\ Acquire(w)
        /\ pc'[w] = "insert"
        /\ found'[w] = row
        /\ req'[w] = req[w] /\ seats'[w] = seats[w]
    BY <1>2 DEF Seat, Goto, TxTypes
  <2>2. req[w].kind = "start" /\ StartRead(w)
    BY <2>1, WorkerFields, StepFields DEF Reads
  <2>3. row \in Session /\ row.computer = NextComputer(w)
    BY <2>1, <2>2, SeatRow DEF NewSession
  <2> HIDE DEF row
  <2>4. /\ locks'[w] = locks[w] \cup Wanted(w)
        /\ Lock("update", Row("computer", NextComputer(w))) \in Wanted(w)
    BY <2>1, Acquired DEF Wanted, ForUpdate, Seatable, CanSeat
  <2>5. NextComputer(w)' = NextComputer(w)
    BY <2>1 DEF NextComputer
  <2> QED
    BY <2>1, <2>2, <2>3, <2>4, <2>5
    DEF Reads, SessionRead, DebtorHeld, PayerRead, StartRead, Updates
<1> QED
  BY <1>1, <1>2

LEMMA InsertReads ==
  ASSUME TxTypes, NEW w \in Worker, Reads(w), InsertSession(w)
  PROVE  Reads(w)'
<1>1. CASE Abort(w)
  BY <1>1, AbortReads
<1>2. CASE ~Abort(w)
  <2>1. /\ pc[w] = "insert" /\ Acquire(w)
        /\ seats'[w] = Append(seats[w], found[w])
        /\ pc'[w] = IF Len(seats[w]) + 1 < Len(req[w].batch) THEN "seat" ELSE "commit"
        /\ req'[w] = req[w]
    BY <1>2 DEF InsertSession, Goto, TxTypes
  <2>2. StartRead(w)
    BY DEF Reads
  <2>3. /\ req[w].kind = "start"
        /\ seats[w] \in Seq(Session) /\ Len(seats[w]) \in Nat
        /\ DOMAIN seats[w] = 1 .. Len(seats[w])
        /\ Len(req[w].batch) \in Nat
        /\ Len(seats[w]) + 1 \in DOMAIN req[w].batch
        /\ DOMAIN req[w].batch = 1 .. Len(req[w].batch)
        /\ NextComputer(w) = req[w].batch[Len(seats[w]) + 1]
    BY <2>1, <2>2, NextComputerIs
  <2>4. /\ found[w] \in Session /\ found[w].computer = NextComputer(w)
        /\ Updates(w, "computer", NextComputer(w))
    BY <2>1, <2>2, <2>3 DEF StartRead
  <2>5. locks[w] \subseteq locks'[w]
    BY <2>1, Acquired
  <2>6. /\ Len(seats'[w]) = Len(seats[w]) + 1
        /\ DOMAIN seats'[w] = DOMAIN seats[w] \cup {Len(seats[w]) + 1}
        /\ seats'[w][Len(seats[w]) + 1] = found[w]
        /\ \A k \in DOMAIN seats[w] : seats'[w][k] = seats[w][k]
    BY <2>1, <2>3, <2>4
  <2>7. \A k \in DOMAIN seats'[w] :
          /\ k \in DOMAIN req[w].batch
          /\ seats'[w][k].computer = req[w].batch[k]
          /\ Lock("update", Row("computer", req[w].batch[k])) \in locks'[w]
    BY <2>2, <2>3, <2>4, <2>5, <2>6 DEF StartRead, Updates
  <2>8. /\ pc'[w] = "seat" => Len(seats'[w]) < Len(req[w].batch)
        /\ pc'[w] = "commit" => Len(seats'[w]) = Len(req[w].batch)
        /\ pc'[w] \in {"seat", "commit"}
    BY <2>1, <2>3, <2>6
  <2> QED
    BY <2>1, <2>3, <2>7, <2>8
    DEF Reads, SessionRead, DebtorHeld, PayerRead, StartRead, Updates
<1> QED
  BY <1>1, <1>2

LEMMA LockReads ==
  ASSUME TxTypes, NEW w \in Worker, Reads(w), LockActive(w)
  PROVE  Reads(w)'
<1>1. CASE Abort(w)
  BY <1>1, AbortReads
<1>2. CASE ~Abort(w)
  <2>0. PICK s : s = sessions[req[w].session]
    OBVIOUS
  <2>1. /\ pc[w] = "session" /\ Acquire(w) /\ Accepts(w, s)
        /\ found'[w] = s
        /\ at'[w] = IF req[w].kind = "cancel" THEN now ELSE at[w]
        /\ pc'[w] = "save"
        /\ req'[w] = req[w]
        /\ UNCHANGED sessions
    BY <1>2, <2>0 DEF LockActive, Goto, TxTypes, vars
  <2>2. req[w].kind \in {"extend", "end", "cancel"}
    BY <2>1, WorkerFields, StepFields
  <2>3. req[w].session \in DOMAIN sessions
    BY <2>2 DEF Reads, SessionRead
  <2>4. s = sessions'[req'[w].session]
    BY <2>1, <2>0
  <2>5. Lock("update", Row("session", req[w].session)) \in locks'[w]
    BY <2>1, Acquired DEF Wanted
  <2>6. Accepts(w, s)'
    BY <2>1, <2>2 DEF Accepts
  <2> QED
    BY <2>1, <2>2, <2>3, <2>4, <2>5, <2>6
    DEF Reads, SessionRead, DebtorHeld, PayerRead, StartRead, Updates
<1> QED
  BY <1>1, <1>2

LEMMA SaveReads ==
  ASSUME TxTypes, NEW w \in Worker, Reads(w), SaveSession(w)
  PROVE  Reads(w)'
<1>1. /\ pc[w] = "save" /\ pc'[w] = AfterSave(w, found[w])
      /\ UNCHANGED <<req, at, locks, found, sessions>>
  BY DEF SaveSession, Goto, TxTypes, vars
<1>2. req[w].kind \in {"extend", "end", "cancel"}
  BY <1>1, WorkerFields, StepFields
<1>3. pc'[w] \in {"entry", "release", "commit"}
  BY <1>1, <1>2 DEF AfterSave
<1>4. SessionRead(w)'
  <2>1. Accepts(w, found[w])' <=> Accepts(w, found[w])
    BY <1>1 DEF Accepts
  <2> QED
    BY <1>1, <1>2, <1>3, <2>1 DEF Reads, SessionRead, Updates
<1>5. ASSUME req[w].kind = "end" PROVE DebtorHeld(w)'
  <2>1. DueOf(w)' = DueOf(w) /\ PaidOf(w)' = PaidOf(w)
    BY <1>1 DEF DueOf, PaidOf
  <2>2. pc'[w] = IF PaidOf(w) < DueOf(w) THEN "entry" ELSE "release"
    BY <1>1, <1>5 DEF AfterSave, DueOf, PaidOf
  <2> QED
    BY <1>1, <1>5, <2>1, <2>2 DEF DebtorHeld
<1> QED
  BY <1>1, <1>2, <1>4, <1>5 DEF Reads, DebtorHeld, PayerRead, StartRead

LEMMA ReleaseReads ==
  ASSUME TxTypes, NEW w \in Worker, Reads(w), LockForRelease(w)
  PROVE  Reads(w)'
<1>1. /\ pc[w] = "release" /\ Acquire(w) /\ pc'[w] = "commit"
      /\ req'[w] = req[w] /\ at'[w] = at[w] /\ found'[w] = found[w]
      /\ UNCHANGED sessions
  BY DEF LockForRelease, Goto, TxTypes, vars
<1>2. req[w].kind \in {"end", "cancel"}
  BY <1>1, WorkerFields, StepFields
<1>3. locks[w] \subseteq locks'[w]
  BY <1>1, Acquired
<1>4. SessionRead(w)'
  <2>1. Accepts(w, found[w])' <=> Accepts(w, found[w])
    BY <1>1 DEF Accepts
  <2> QED
    BY <1>1, <1>2, <1>3, <2>1 DEF Reads, SessionRead, Updates
<1>5. DebtorHeld(w)'
  BY <1>1, <1>3 DEF Reads, DebtorHeld, PaidOf, DueOf, Shares
<1> QED
  BY <1>1, <1>2, <1>4, <1>5 DEF Reads, PayerRead, StartRead

LEMMA PayerReads ==
  ASSUME TxTypes, NEW w \in Worker, Reads(w), LockPayer(w)
  PROVE  Reads(w)'
<1>1. CASE Abort(w)
  BY <1>1, AbortReads
<1>2. CASE ~Abort(w)
  <2>1. /\ pc[w] = "payer" /\ Acquire(w) /\ pc'[w] = "balance"
        /\ CustomerTable!Live(req[w].customer)
        /\ req'[w] = req[w]
        /\ UNCHANGED customers
    BY <1>2 DEF LockPayer, Goto, TxTypes, vars, people
  <2>2. req[w].kind = "pay"
    BY <2>1, WorkerFields, StepFields
  <2>3. Lock("update", Row("customer", req[w].customer)) \in locks'[w]
    BY <2>1, Acquired DEF Wanted, ForUpdate
  <2> QED
    BY <2>1, <2>2, <2>3
    DEF Reads, SessionRead, DebtorHeld, PayerRead, StartRead, Updates, CustomerTable!Live
<1> QED
  BY <1>1, <1>2

LEMMA CheckReads ==
  ASSUME TxTypes, NEW w \in Worker, Reads(w), CheckBalance(w)
  PROVE  Reads(w)'
<1>1. CASE Abort(w)
  BY <1>1, AbortReads
<1>2. CASE ~Abort(w)
  <2>1. /\ pc[w] = "balance" /\ pc'[w] = "entry"
        /\ req[w].amount <= Balance(req[w].customer)
        /\ req'[w] = req[w] /\ locks'[w] = locks[w]
        /\ UNCHANGED <<customers, ledger>>
    BY <1>2 DEF CheckBalance, Goto, TxTypes, vars, people
  <2>2. req[w].kind = "pay"
    BY <2>1, WorkerFields, StepFields
  <2>3. PICK k : k = req[w].customer
    OBVIOUS
  <2>4. Balance(k)' = Balance(k)
    BY <2>1, BalanceKept
  <2> QED
    BY <2>1, <2>2, <2>3, <2>4
    DEF Reads, SessionRead, DebtorHeld, PayerRead, StartRead, Updates, CustomerTable!Live
<1> QED
  BY <1>1, <1>2

LEMMA EntryReads ==
  ASSUME TxTypes, NEW w \in Worker, Reads(w), InsertEntry(w)
  PROVE  Reads(w)'
<1>1. CASE Abort(w)
  BY <1>1, AbortReads
<1>2. CASE ~Abort(w)
  <2>1. /\ pc[w] = "entry" /\ Acquire(w)
        /\ customers[Debtor(w)].life # "unborn"
        /\ pc'[w] = IF req[w].kind = "end" THEN "release" ELSE "commit"
        /\ req'[w] = req[w] /\ at'[w] = at[w] /\ found'[w] = found[w]
        /\ UNCHANGED <<sessions, customers, ledger>>
    BY <1>2 DEF InsertEntry, Goto, TxTypes, vars, people
  <2>2. req[w].kind \in {"end", "pay", "correct"}
    BY <2>1, WorkerFields, StepFields
  <2>3. locks'[w] = locks[w] \cup KeyShare(Debtor(w))
    BY <2>1, Acquired DEF Wanted
  <2>4. CASE req[w].kind = "end"
    <3>1. /\ PaidOf(w) < DueOf(w) /\ SessionRead(w) /\ Accepts(w, found[w])
      BY <2>1, <2>4 DEF Reads, DebtorHeld, SessionRead
    <3>2. found[w].customer # NoCustomer
      BY <2>4, <3>1 DEF Accepts, MayOwe, PaidOf, DueOf
    <3>3. Lock("keyShare", Row("customer", found[w].customer)) \in locks'[w]
      BY <2>3, <2>4, <3>2 DEF Debtor, KeyShare
    <3>4. SessionRead(w)'
      <4>1. Accepts(w, found[w])' <=> Accepts(w, found[w])
        BY <2>1 DEF Accepts
      <4> QED
        BY <2>1, <2>3, <2>4, <3>1, <4>1 DEF SessionRead, Updates
    <3> QED
      BY <2>1, <2>4, <3>3, <3>4
      DEF Reads, DebtorHeld, PayerRead, StartRead, Shares
  <2>5. CASE req[w].kind # "end"
    <3>1. PICK k \in CustomerId : k = req[w].customer
      BY <2>2, <2>5, WorkerFields, RequestFields
    <3>2. Debtor(w) = k /\ k # NoCustomer
      BY <2>5, <3>1, DeskAssumption DEF Debtor
    <3>3. Lock("keyShare", Row("customer", k)) \in locks'[w] /\ locks[w] \subseteq locks'[w]
      BY <2>3, <3>2 DEF KeyShare
    <3>4. Balance(k)' = Balance(k)
      BY <2>1, BalanceKept
    <3>5. PayerRead(w)'
      BY <2>1, <2>2, <2>5, <3>1, <3>2, <3>3, <3>4
      DEF Reads, PayerRead, Updates, Shares, CustomerTable!Live
    <3> QED
      BY <2>1, <2>2, <2>5, <3>5 DEF Reads, SessionRead, DebtorHeld, StartRead
  <2> QED
    BY <2>4, <2>5
<1> QED
  BY <1>1, <1>2

LEMMA OwnReads ==
  ASSUME TxTypes, NEW w \in Worker, Reads(w), Acts(w)
  PROVE  Reads(w)'
BY ArriveReads, ConnectReads, ResolveReads, SeatReads, InsertReads, LockReads,
   SaveReads, ReleaseReads, PayerReads, CheckReads, EntryReads, AbortReads, FinishReads
DEF Acts, Advance, Commit, BreakDeadlock, ConnectTimeout, Crash

-----------------------------------------------------------------------------
(* A commit writes only what its transaction has locked *)

LEMMA Exclusive ==
  ASSUME NoConflicts, NEW v \in Worker, NEW w \in Worker, v # w
  PROVE  /\ \A table, id : Updates(v, table, id) => ~Updates(w, table, id)
         /\ \A k : Updates(v, "customer", k) => ~Shares(w, k)
BY DEF NoConflicts, Conflict, Updates, Shares, Lock

LEMMA LedgerRespects ==
  ASSUME LedgerTypeOK, NEW k \in CustomerId, NEW type \in EntryType,
         NEW amount \in Int, NEW session \in Nat, Insert(k, type, amount, session)
  PROVE  \A j \in CustomerId : j # k => Balance(j)' = Balance(j)
BY BalanceAfterInsert

LEMMA StartRespects ==
  ASSUME NEW w \in Worker, Commits(w), NoConflicts, req[w].kind = "start",
         NEW v \in Worker, v # w
  PROVE  Respects(v)
<1> DEFINE taken == {seats[w][k].computer : k \in DOMAIN seats[w]}
<1>1. /\ \A i \in DOMAIN sessions : i \in DOMAIN sessions' /\ sessions'[i] = sessions[i]
      /\ \A i \in DOMAIN sessions' \ DOMAIN sessions : sessions'[i].computer \in taken
      /\ Occupy(taken)
      /\ UNCHANGED <<now, ledger, computerUpdates, prices, people>>
  <2>1. \A k \in DOMAIN seats[w] : seats[w][k] \in Session
    BY DEF Commits, TxTypes
  <2>2. PICK group \in Nat : group = GroupOf(req[w].batch)
    BY GroupType DEF Commits, TxTypes
  <2>3. ASSUME NEW i \in DOMAIN sessions' \ DOMAIN sessions
        PROVE  sessions'[i].computer \in taken
    <3>1. PICK k \in DOMAIN seats[w] :
            sessions'[i] = [seats[w][k] EXCEPT !.group = group]
      BY <2>2, <2>3, StartCommitted
    <3>2. sessions'[i].computer = seats[w][k].computer
      BY <2>1, <3>1, Regrouped
    <3> QED
      BY <3>2
  <2> QED
    BY <2>3, StartCommitted
<1>2. \A c \in taken : ~Updates(v, "computer", c)
  BY Exclusive DEF Commits, Commit, Reads, StartRead
<1> HIDE DEF taken
<1>3. \A c \in ComputerId : Updates(v, "computer", c) => computers'[c] = computers[c]
  BY <1>1, <1>2 DEF Occupy
<1>4. \A c : Updates(v, "computer", c) /\ ActiveOn(c) = {} => ActiveOn(c)' = {}
  BY <1>1, <1>2 DEF ActiveOn
<1>5. \A k : Balance(k)' = Balance(k)
  BY <1>1, BalanceKept
<1> QED
  BY <1>1, <1>3, <1>4, <1>5 DEF Respects, people

LEMMA SessionRespects ==
  ASSUME NEW w \in Worker, Commits(w), NoConflicts,
         req[w].kind \in {"extend", "end", "cancel"},
         NEW v \in Worker, v # w
  PROVE  Respects(v)
<1>1. PICK i \in DOMAIN sessions :
        /\ i = req[w].session
        /\ Updates(w, "session", i)
        /\ found[w] = sessions[i]
        /\ Accepts(w, found[w])
  BY DEF Commits, Commit, Reads, SessionRead
<1>2. PICK c \in ComputerId : c = sessions[i].computer
  BY SessionTyped DEF Commits, TxTypes
<1>3. TypeOK /\ IsActive(i)
  BY <1>1 DEF Commits, TxTypes, Accepts, IsActive
<1>4. PICK t \in Session :
        /\ t.computer = sessions[i].computer
        /\ sessions' = [sessions EXCEPT ![i] = t]
  <2>0. sessions[i] \in Session
    BY <1>3, SessionTyped
  <2>1. CASE req[w].kind = "extend"
    <3>1. req[w].term \in Terms \cup {Absent} /\ Extend(i, req[w].term)
      BY <1>1, <2>1, ExtendCommitted
    <3>2. /\ Extended(sessions[i], req[w].term) \in Session
          /\ sessions' = [sessions EXCEPT ![i] = Extended(sessions[i], req[w].term)]
      BY <1>3, <3>1, ExtendEffect
    <3>3. Extended(sessions[i], req[w].term).computer = sessions[i].computer
      BY <2>0, ExtendedFields DEF KeepsIdentity
    <3> QED
      BY <3>2, <3>3
  <2>2. CASE req[w].kind = "end"
    <3> DEFINE due == Finalize(sessions[i], at[w])
               paid == Collected(due, req[w].receipt)
               u == Closed(sessions[i], "ENDED", at[w], due, paid)
    <3>1. /\ req[w].receipt \in Receipts \cup {Absent} /\ at[w] \in Instants
          /\ EndSession(i, req[w].receipt, at[w])
      BY <1>1, <2>2, EndCommitted
    <3>2. u \in Session /\ sessions' = [sessions EXCEPT ![i] = u]
      BY <1>3, <3>1, EndEffect
    <3>3. u.computer = sessions[i].computer
      BY <2>0, ClosedFields DEF KeepsIdentity
    <3> QED
      BY <3>2, <3>3
  <2>3. CASE req[w].kind = "cancel"
    <3> DEFINE u == Closed(sessions[i], "CANCELLED", at[w], 0, 0)
    <3>1. at[w] \in Instants /\ CancelSession(i, at[w])
      BY <1>1, <2>3, CancelCommitted
    <3>2. u \in Session /\ sessions' = [sessions EXCEPT ![i] = u]
      BY <1>3, <3>1, CancelEffect
    <3>3. u.computer = sessions[i].computer
      BY <2>0, ClosedFields DEF KeepsIdentity
    <3> QED
      BY <3>2, <3>3
  <2> QED
    BY <2>1, <2>2, <2>3
<1>5. /\ DOMAIN sessions' = DOMAIN sessions
      /\ sessions'[i] = t
      /\ \A j \in DOMAIN sessions \ {i} : sessions'[j] = sessions[j]
  BY <1>3, <1>4, SessionRewrite
<1>6. \A d \in ComputerId : ActiveOn(d) = {} => ActiveOn(d)' = {}
  BY <1>2, <1>3, <1>4, <1>5 DEF ActiveOn, IsActive
<1>7. ASSUME NEW d \in ComputerId, Updates(v, "computer", d)
      PROVE  computers'[d] = computers[d]
  <2>1. CASE req[w].kind = "extend"
    BY <2>1 DEF Commits, Commit, CommitExtend
  <2>2. CASE req[w].kind # "extend" /\ ~HasComputer(w)
    BY <1>1, <2>2 DEF Commits, Commit, CommitEnd, CommitCancel, Release
  <2>3. CASE req[w].kind # "extend" /\ HasComputer(w)
    <3>1. ReleaseComputer(c) /\ Updates(w, "computer", c)
      BY <1>1, <1>2, <2>3
      DEF Commits, Commit, CommitEnd, CommitCancel, Release, HasComputer, Updates
    <3>2. d # c
      BY <1>7, <3>1, Exclusive
    <3> QED
      BY <3>1, <3>2 DEF ReleaseComputer
  <2> QED
    BY <2>1, <2>2, <2>3
<1>8. ASSUME NEW k \in CustomerId, Updates(v, "customer", k)
      PROVE  Balance(k)' = Balance(k)
  <2>1. CASE UNCHANGED ledger
    BY <2>1, BalanceKept
  <2>2. CASE ~UNCHANGED ledger
    <3>1. /\ req[w].kind = "end"
          /\ PaidOf(w) < DueOf(w)
          /\ AddDebt(found[w].customer, DueOf(w) - PaidOf(w), i)
      BY <1>1, <2>2 DEF Commits, Commit, CommitExtend, CommitEnd, CommitCancel
    <3>2. Shares(w, found[w].customer) /\ found[w].customer \in CustomerId
      <4>1. Shares(w, found[w].customer)
        BY <3>1 DEF Commits, Commit, Reads, DebtorHeld
      <4>2. found[w].customer \in CustomerId \cup {NoCustomer}
        BY <1>1, <1>3, SessionTyped
      <4>3. found[w].customer # NoCustomer
        BY <1>1, <3>1 DEF Accepts, MayOwe, PaidOf, DueOf
      <4> QED
        BY <4>1, <4>2, <4>3
    <3>3. DueOf(w) - PaidOf(w) \in Int /\ i \in Nat
      <4>1. /\ req[w].receipt \in Receipts \cup {Absent} /\ at[w] \in Instants
            /\ EndSession(i, req[w].receipt, at[w])
        BY <1>1, <3>1, EndCommitted
      <4>2. DueOf(w) \in Int /\ PaidOf(w) \in Int
        BY <1>1, <1>3, <4>1, EndEffect DEF DueOf, PaidOf
      <4> QED
        BY <1>3, <4>2, SessionTyped
    <3>4. Insert(found[w].customer, "DEBT_ADD", DueOf(w) - PaidOf(w), i)
      BY <3>1 DEF AddDebt
    <3>5. k # found[w].customer
      BY <1>8, <3>2, Exclusive
    <3>6. LedgerTypeOK /\ "DEBT_ADD" \in EntryType
      BY <1>3 DEF TypeOK, EntryType
    <3> QED
      BY <3>2, <3>3, <3>4, <3>5, <3>6, LedgerRespects
  <2> QED
    BY <2>1, <2>2
<1>9. UNCHANGED people
  BY CommitFrame DEF Commits
<1>10. ~Updates(v, "session", i)
  BY <1>1, Exclusive
<1> QED
  BY <1>5, <1>6, <1>7, <1>8, <1>9, <1>10 DEF Respects, people

LEMMA EntryRespects ==
  ASSUME NEW w \in Worker, Commits(w), NoConflicts,
         req[w].kind \in {"pay", "correct"},
         NEW v \in Worker, v # w
  PROVE  Respects(v)
<1>1. PICK k \in CustomerId : k = req[w].customer
  BY WorkerFields, RequestFields DEF Commits
<1>2. PICK type \in EntryType, amount \in Int : Insert(k, type, amount, 0)
  <2>1. CASE req[w].kind = "pay"
    <3>1. Insert(k, "DEBT_PAYMENT", -req[w].amount, 0)
      BY <1>1, <2>1 DEF Commits, Commit, CommitEntry
    <3>2. req[w].amount \in Payments /\ Payments \subseteq Nat
      BY <2>1, EntryCommitted, DeskAssumption
    <3>3. PICK amount \in Nat : amount = req[w].amount
      BY <3>2
    <3>4. -amount \in Int /\ "DEBT_PAYMENT" \in EntryType
      BY DEF EntryType
    <3>5. Insert(k, "DEBT_PAYMENT", -amount, 0)
      BY <3>1, <3>3
    <3> QED
      BY <3>4, <3>5
  <2>2. CASE req[w].kind = "correct"
    <3>1. Insert(k, "DEBT_CORRECTION", req[w].amount, 0)
      BY <1>1, <2>2 DEF Commits, Commit, CommitEntry
    <3>2. req[w].amount \in Corrections /\ Corrections \subseteq Int
      BY <2>2, EntryCommitted, DeskAssumption
    <3> QED
      BY <3>1, <3>2 DEF EntryType
  <2> QED
    BY <2>1, <2>2
<1>3. Updates(w, "customer", k) \/ Shares(w, k)
  BY <1>1 DEF Commits, Commit, Reads, PayerRead
<1>4. ~Updates(v, "customer", k)
  BY <1>3, Exclusive
<1>5. \A j \in CustomerId : j # k => Balance(j)' = Balance(j)
  BY <1>2, LedgerRespects DEF Commits, TxTypes, TypeOK
<1>6. UNCHANGED <<sessions, computers, customers>>
  BY CommitFrame DEF Commits, Commit, CommitEntry, people
<1> QED
  BY <1>4, <1>5, <1>6 DEF Respects, ActiveOn

LEMMA CommitRespects ==
  ASSUME TxInv, NEW w \in Worker, Commit(w), NEW v \in Worker, v # w
  PROVE  Respects(v)
<1>1. Commits(w) /\ NoConflicts
  BY DEF Commits, TxInv
<1>2. req[w].kind \in {"start", "extend", "end", "cancel", "pay", "correct"}
  BY DEF Commit
<1> QED
  BY <1>1, <1>2, StartRespects, SessionRespects, EntryRespects

LEMMA OthersRespect ==
  ASSUME TxInv, NEW w \in Worker, Acts(w), NEW v \in Worker, v # w
  PROVE  Respects(v)
<1>1. Commit(w) \/ UNCHANGED vars
  BY DEF Acts, Advance, Arrive, Connect, ResolveCustomer, Seat, InsertSession,
         LockActive, SaveSession, LockForRelease, LockPayer, CheckBalance, InsertEntry,
         BreakDeadlock, ConnectTimeout, Crash, Abort
<1> QED
  BY <1>1, CommitRespects, QuietRespects DEF TxInv

\* A manager's save waits for the transaction that has the computer's row.
LEMMA ManagerRespects ==
  ASSUME TxTypes, ManagerStep, NEW v \in Worker
  PROVE  Respects(v)
<1>1. UNCHANGED <<sessions, ledger, people>>
  BY DEF ManagerStep, ComputerAdmin
<1>2. \A c \in ComputerId : Updates(v, "computer", c) => computers'[c] = computers[c]
  BY DEF ManagerStep, Unlocked, Updates, Lock
<1>3. \A k : Balance(k)' = Balance(k)
  BY <1>1, BalanceKept
<1> QED
  BY <1>1, <1>2, <1>3 DEF Respects, ActiveOn, people

\* No row of a table goes back to what it was before its insert.
LEMMA CustomersStay ==
  ASSUME CustomerTable!TypeOK, CustomerAdmin, NEW k \in CustomerId,
         customers[k].life # "unborn"
  PROVE  customers'[k].life # "unborn"
<1>1. PICK c \in CustomerId :
        \/ CustomerTable!Create(c, [isBlocked |-> FALSE])
        \/ \E d \in CustomerData : CustomerTable!BeginUpdate(c, d)
        \/ \E u \in customerUpdates : u[1] = c /\ CustomerTable!SaveUpdate(u)
        \/ CustomerTable!SoftRemove(c)
  BY DEF CustomerAdmin
<1>2. customers \in [CustomerId -> CustomerTable!Row]
  BY DEF CustomerTable!TypeOK
<1>3. CASE CustomerTable!Create(c, [isBlocked |-> FALSE])
  BY <1>2, <1>3 DEF CustomerTable!Create
<1>4. CASE \E d \in CustomerData : CustomerTable!BeginUpdate(c, d)
  BY <1>4 DEF CustomerTable!BeginUpdate
<1>5. CASE \E u \in customerUpdates : u[1] = c /\ CustomerTable!SaveUpdate(u)
  BY <1>2, <1>5 DEF CustomerTable!SaveUpdate
<1>6. CASE CustomerTable!SoftRemove(c)
  BY <1>2, <1>6 DEF CustomerTable!SoftRemove, CustomerTable!Row
<1> QED
  BY <1>1, <1>3, <1>4, <1>5, <1>6

\* An update of a customer waits for the payment that has the row.
LEMMA RegistryRespects ==
  ASSUME TxTypes, RegistryStep, NEW v \in Worker
  PROVE  Respects(v)
<1>1. UNCHANGED <<sessions, ledger, computers>>
  BY DEF RegistryStep, RoomAdmin, CustomerAdmin, fleet
<1>2. \A k \in CustomerId : Updates(v, "customer", k) => customers'[k] = customers[k]
  BY DEF RegistryStep, Updates
<1>3. \A k : Balance(k)' = Balance(k)
  BY <1>1, BalanceKept
<1>4. \A k \in CustomerId : customers[k].life # "unborn" => customers'[k].life # "unborn"
  <2>1. CASE RoomAdmin
    BY <2>1 DEF RoomAdmin, people
  <2>2. CASE CustomerAdmin
    BY <2>2, CustomersStay DEF TxTypes, TypeOK
  <2> QED
    BY <2>1, <2>2 DEF RegistryStep
<1> QED
  BY <1>1, <1>2, <1>3, <1>4 DEF Respects, ActiveOn

LEMMA TickRespects ==
  ASSUME TxTypes, Tick, NEW v \in Worker
  PROVE  Respects(v)
<1>1. UNCHANGED <<sessions, ledger, computers, customers>>
  BY DEF Tick, fleet, people
<1>2. \A k : Balance(k)' = Balance(k)
  BY <1>1, BalanceKept
<1> QED
  BY <1>1, <1>2 DEF Respects, ActiveOn

-----------------------------------------------------------------------------
(* The invariant is inductive *)

LEMMA HandlersStay ==
  ASSUME UNCHANGED handlers, NEW v \in Worker
  PROVE  SameHandler(v)
BY DEF handlers, SameHandler

\* A step between the statements of all transactions.
LEMMA QuietReads ==
  ASSUME TxInv, UNCHANGED handlers, \A v \in Worker : Respects(v)
  PROVE  NoConflicts' /\ \A v \in Worker : Reads(v)'
<1>1. TxTypes /\ NoConflicts /\ \A v \in Worker : Reads(v)
  BY DEF TxInv
<1>2. NoConflicts'
  BY <1>1 DEF NoConflicts, handlers
<1> QED
  BY <1>1, <1>2, HandlersStay, ReadsKept

LEMMA TxInvStep == TxInv /\ [TxNext]_txVars => TxInv'
<1> SUFFICES ASSUME TxInv, [TxNext]_txVars PROVE TxInv'
  OBVIOUS
<1>1. TxTypes /\ NoConflicts /\ \A v \in Worker : Reads(v)
  BY DEF TxInv
<1>2. TxTypes'
  BY TypesStep
<1>3. ASSUME NEW w \in Worker, Acts(w)
      PROVE  NoConflicts' /\ \A v \in Worker : Reads(v)'
  <2>1. NoConflicts'
    BY <1>1, <1>3, NoConflictsKept
  <2>2. Reads(w)'
    BY <1>1, <1>3, OwnReads
  <2>3. ASSUME NEW v \in Worker, v # w PROVE Reads(v)'
    BY <1>1, <1>3, <2>3, OthersKeep, OthersRespect, ReadsKept
  <2> QED
    BY <2>1, <2>2, <2>3
<1>4. ASSUME UNCHANGED handlers,
             ManagerStep \/ RegistryStep \/ Tick \/ UNCHANGED vars
      PROVE  NoConflicts' /\ \A v \in Worker : Reads(v)'
  <2>1. \A v \in Worker : Respects(v)
    BY <1>1, <1>4, ManagerRespects, RegistryRespects, TickRespects, QuietRespects
  <2> QED
    BY <1>4, <2>1, QuietReads
<1>5. \/ \E w \in Worker : Acts(w)
      \/ /\ UNCHANGED handlers
         /\ ManagerStep \/ RegistryStep \/ Tick \/ UNCHANGED vars
  BY DEF TxNext, TxStep, Acts, ManagerStep, RegistryStep, txVars
<1> QED
  BY <1>2, <1>3, <1>4, <1>5 DEF TxInv

LEMMA TxInvInit == TxInit => TxInv
<1> SUFFICES ASSUME TxInit PROVE TxInv
  OBVIOUS
<1>1. TypeOK
  BY InitType DEF TxInit
<1>2. now \in Instants /\ now \in Int
  BY <1>1, DeskAssumption DEF TypeOK
<1>3. <<>> \in Seq(Session) /\ 0 \in 0 .. MaxRequests
  BY RequestAssumption
<1>4. NoRequest.kind = "none" /\ StepsOf("none") = {"idle"} /\ "idle" \in Step
  BY DEF NoRequest, StepsOf, Step
<1>5. TxTypes
  BY <1>1, <1>2, <1>3, <1>4 DEF TxInit, TxTypes, Cleared
<1>6. NoConflicts
  BY DEF TxInit, NoConflicts
<1>7. \A w \in Worker : Reads(w)
  BY <1>4 DEF TxInit, Reads, SessionRead, DebtorHeld, PayerRead, StartRead
<1> QED
  BY <1>5, <1>6, <1>7 DEF TxInv

LEMMA Invariance == TxSpec => []TxInv
  BY TxInvInit, TxInvStep, PTL DEF TxSpec

\* A worker is at a statement of the request it handles, with instants it has
\* read, and holds nothing when it is free (sessions.service.ts, debt.service.ts:
\* manager.transaction commits or rolls back before the handler returns).
THEOREM TransactionTypes == TxSpec => []TxTypeOK
<1>1. TxInv => TxTypeOK
  BY DEF TxInv, TxTypes, TxTypeOK, Cleared
<1> QED
  BY <1>1, Invariance, PTL

-----------------------------------------------------------------------------
(* A start is made of what was on offer while it was handled *)

LEMMA OfferKept ==
  ASSUME NEW v \in Worker, SameHandler(v), Witness, OfferSeen(v)
  PROVE  OfferSeen(v)'
<1>1. CASE req[v].kind = "start"
  <2>1. offered'[v] = offered[v] \cup OnOffer'
    BY <1>1 DEF Witness, SameHandler
  <2> QED
    BY <1>1, <2>1 DEF OfferSeen, Sees, SameHandler
<1>2. CASE req[v].kind # "start"
  BY <1>2 DEF OfferSeen, SameHandler
<1> QED
  BY <1>1, <1>2

\* A step of w that adds no session to what it holds.
LEMMA OfferStays ==
  ASSUME NEW w \in Worker, Witness, OfferSeen(w),
         req'[w] = req[w], seats'[w] = seats[w],
         pc'[w] \in {"seat", "insert", "commit"} /\ req[w].customer # NoCustomer =>
           req[w].customer \in offered[w],
         pc'[w] = "insert" => Sees(w, found'[w])
  PROVE  OfferSeen(w)'
<1>1. CASE req[w].kind = "start"
  <2>1. offered'[w] = offered[w] \cup OnOffer'
    BY <1>1 DEF Witness
  <2> QED
    BY <1>1, <2>1 DEF OfferSeen, Sees
<1>2. CASE req[w].kind # "start"
  BY <1>2 DEF OfferSeen
<1> QED
  BY <1>1, <1>2

LEMMA FinishOffers ==
  ASSUME TxTypes, NEW w \in Worker, Finish(w)
  PROVE  OfferSeen(w)'
<1>1. req'[w].kind = "none" /\ seats'[w] = <<>>
  BY DEF TxTypes, Finish, NoRequest
<1> QED
  BY <1>1 DEF OfferSeen

LEMMA ArriveOffers ==
  ASSUME TxTypes, NEW w \in Worker, Witness, NEW r \in Requests, Arrive(w, r)
  PROVE  OfferSeen(w)'
<1>1. pc'[w] = "connect" /\ seats'[w] = <<>>
  BY DEF Arrive, Goto, TxTypes, Cleared
<1>2. req'[w].kind = "start" => OnOffer' \subseteq offered'[w]
  BY DEF Witness
<1> QED
  BY <1>1, <1>2 DEF OfferSeen

LEMMA ResolveOffers ==
  ASSUME TxTypes, NEW w \in Worker, OfferSeen(w), Witness, ResolveCustomer(w)
  PROVE  OfferSeen(w)'
<1>1. CASE Abort(w)
  BY <1>1, FinishOffers DEF Abort
<1>2. CASE ~Abort(w)
  <2>1. /\ pc[w] = "customer" /\ pc'[w] = "seat" /\ MayPlay(req[w].customer)
        /\ req'[w] = req[w] /\ seats'[w] = seats[w]
    BY <1>2 DEF ResolveCustomer, Goto, TxTypes
  <2>2. req[w].kind = "start" /\ req[w].customer \in CustomerId \cup {NoCustomer}
    BY <2>1, WorkerFields, StepFields, RequestFields
  <2>3. req[w].customer # NoCustomer => req[w].customer \in offered[w]
    BY <2>1, <2>2 DEF OfferSeen, OnOffer
  <2> QED
    BY <2>1, <2>3, OfferStays
<1> QED
  BY <1>1, <1>2

LEMMA SeatOffers ==
  ASSUME TxTypes, NEW w \in Worker, StartRead(w), OfferSeen(w), Witness, Seat(w)
  PROVE  OfferSeen(w)'
<1>1. CASE Abort(w)
  BY <1>1, FinishOffers DEF Abort
<1>2. CASE ~Abort(w)
  <2>1. PICK c \in ComputerId : c = NextComputer(w)
    BY <1>2, NextComputerIs DEF Seat
  <2>2. /\ pc[w] = "seat" /\ pc'[w] = "insert" /\ CanSeat(c)
        /\ found'[w] = NewSession(c, req[w].type, req[w].customer, 0, req[w].term, at[w])
        /\ req'[w] = req[w] /\ seats'[w] = seats[w]
    BY <1>2, <2>1 DEF Seat, Seatable, Goto, TxTypes
  <2>3. PICK r \in RoomId : r = computers[c].data.room
    BY DEF TxTypes, TypeOK, ComputerTable!TypeOK, ComputerTable!Row, ComputerData
  <2>4. req[w].kind = "start"
    BY <2>2, WorkerFields, StepFields
  <2>5. RoomTable!Live(r) /\ rooms[r].data.isActive
    BY <2>2, <2>3 DEF CanSeat
  <2>6. <<r, rooms[r].data.pricePerHour>> \in offered[w]
    BY <2>4, <2>5 DEF OfferSeen, OnOffer
  <2>7. Sees(w, found'[w])
    BY <2>2, <2>3, <2>6 DEF Sees, NewSession, RateOf
  <2>8. req[w].customer # NoCustomer => req[w].customer \in offered[w]
    BY <2>2, <2>4 DEF OfferSeen
  <2> QED
    BY <2>2, <2>7, <2>8, OfferStays
<1> QED
  BY <1>1, <1>2

LEMMA InsertOffers ==
  ASSUME TxTypes, NEW w \in Worker, StartRead(w), OfferSeen(w), Witness,
         InsertSession(w)
  PROVE  OfferSeen(w)'
<1>1. CASE Abort(w)
  BY <1>1, FinishOffers DEF Abort
<1>2. CASE ~Abort(w)
  <2>1. /\ pc[w] = "insert" /\ pc'[w] \in {"seat", "commit"}
        /\ seats'[w] = Append(seats[w], found[w])
        /\ req'[w] = req[w]
    BY <1>2 DEF InsertSession, Goto, TxTypes
  <2>2. req[w].kind = "start" /\ seats[w] \in Seq(Session)
    BY <2>1, NextComputerIs
  <2>3. found[w] \in Session
    BY <2>1, <2>2 DEF StartRead
  <2>4. \A k \in DOMAIN seats'[w] : Sees(w, seats'[w][k])
    <3>1. \A k \in DOMAIN seats'[w] :
            \/ k \in DOMAIN seats[w] /\ seats'[w][k] = seats[w][k]
            \/ seats'[w][k] = found[w]
      BY <2>1, <2>2, <2>3
    <3> QED
      BY <2>1, <2>2, <3>1 DEF OfferSeen
  <2>5. offered'[w] = offered[w] \cup OnOffer'
    BY <2>1, <2>2 DEF Witness
  <2> QED
    BY <2>1, <2>2, <2>4, <2>5 DEF OfferSeen, Sees
<1> QED
  BY <1>1, <1>2

\* The statements of the other requests.
LEMMA OtherOffers ==
  ASSUME TxTypes, NEW w \in Worker, OfferSeen(w), Witness,
         \/ Connect(w) \/ LockActive(w) \/ SaveSession(w) \/ LockForRelease(w)
         \/ LockPayer(w) \/ CheckBalance(w) \/ InsertEntry(w)
  PROVE  OfferSeen(w)'
<1>1. CASE Abort(w)
  BY <1>1, FinishOffers DEF Abort
<1>2. CASE Connect(w)
  <2>1. req'[w] = req[w] /\ seats'[w] = seats[w] /\ pc'[w] = FirstStep(req[w].kind)
    BY <1>2 DEF Connect, Goto, TxTypes
  <2>2. req[w].kind \in {"start", "extend", "end", "cancel", "pay", "correct"}
    BY <1>2, WorkerFields, StepFields DEF Connect
  <2>3. pc'[w] \notin {"seat", "insert", "commit"}
    BY <2>1, <2>2 DEF FirstStep
  <2> QED
    BY <2>1, <2>3, OfferStays
<1>3. CASE ~Abort(w) /\ ~Connect(w)
  <2>1. req'[w] = req[w] /\ seats'[w] = seats[w]
    BY <1>3 DEF LockActive, SaveSession, LockForRelease, LockPayer, CheckBalance, InsertEntry,
                TxTypes
  <2>2. req[w].kind # "start"
    BY <1>3, WorkerFields, StepFields
    DEF LockActive, SaveSession, LockForRelease, LockPayer, CheckBalance, InsertEntry
  <2> QED
    BY <2>1, <2>2 DEF OfferSeen
<1> QED
  BY <1>1, <1>2, <1>3

LEMMA OfferSeenStep ==
  TxInv /\ (\A w \in Worker : OfferSeen(w)) /\ [TxNext]_txVars
    => (\A w \in Worker : OfferSeen(w))'
<1> SUFFICES ASSUME TxInv, \A w \in Worker : OfferSeen(w), [TxNext]_txVars,
                    NEW v \in Worker
             PROVE  OfferSeen(v)'
  OBVIOUS
<1>1. TxTypes /\ \A w \in Worker : StartRead(w)
  BY DEF TxInv, Reads
<1>2. CASE UNCHANGED txVars
  <2>1. UNCHANGED <<handlers, offered, rooms, customers>>
    BY <1>2 DEF txVars, vars, prices, people
  <2>2. OnOffer' = OnOffer
    BY <2>1 DEF OnOffer, RoomTable!Live, MayPlay, CustomerTable!Live
  <2> QED
    BY <2>1, <2>2 DEF OfferSeen, Sees, handlers
<1>3. CASE TxNext /\ UNCHANGED handlers
  BY <1>3, HandlersStay, OfferKept DEF TxNext
<1>4. ASSUME NEW w \in Worker, Acts(w), Witness, v # w PROVE OfferSeen(v)'
  BY <1>1, <1>4, OthersKeep, OfferKept
<1>5. ASSUME Acts(v), Witness PROVE OfferSeen(v)'
  BY <1>1, <1>5, ArriveOffers, ResolveOffers, SeatOffers, InsertOffers, OtherOffers,
     FinishOffers
  DEF Acts, Advance, Commit, Abort, BreakDeadlock, ConnectTimeout, Crash
<1> QED
  BY <1>2, <1>3, <1>4, <1>5 DEF TxNext, TxStep, Acts, ManagerStep, RegistryStep

\* A start that waits while rooms are repriced or closed and customers blocked
\* makes its sessions of a rate its room asked, and for a customer who might play,
\* at some moment of the request (sessions.service.ts:80-110).
THEOREM StartsWereOffered == TxSpec => []StartsAsOffered
<1>1. TxInit => \A w \in Worker : OfferSeen(w)
  BY DEF TxInit, OfferSeen, NoRequest
<1>2. TxInv /\ (\A w \in Worker : OfferSeen(w)) => StartsAsOffered
  <2> SUFFICES ASSUME TxInv, \A w \in Worker : OfferSeen(w),
                      NEW w \in Worker, NEW k \in DOMAIN seats[w]
               PROVE  /\ <<seats[w][k].room, seats[w][k].ratePerHour>> \in offered[w]
                      /\ seats[w][k].customer # NoCustomer =>
                           seats[w][k].customer \in offered[w]
    BY DEF StartsAsOffered
  <2>1. req[w].kind = "start"
    BY DEF OfferSeen
  <2>2. Sees(w, seats[w][k])
    BY <2>1 DEF OfferSeen
  <2>3. pc[w] \in {"seat", "insert", "commit"}
    <3>1. pc[w] \notin {"connect", "customer"}
      BY <2>1 DEF TxInv, Reads, StartRead
    <3> QED
      BY <2>1, <3>1, WorkerFields DEF TxInv, StepsOf
  <2> QED
    BY <2>1, <2>2, <2>3 DEF OfferSeen, Sees
<1> QED
  BY <1>1, <1>2, Invariance, OfferSeenStep, PTL DEF TxSpec

-----------------------------------------------------------------------------
(* A payment finds the balance it checked *)

LEMMA PaidAfterInsert ==
  ASSUME LedgerTypeOK, NEW k \in CustomerId, NEW type \in EntryType,
         NEW amount \in Int, NEW session \in Nat, Insert(k, type, amount, session),
         NEW c \in CustomerId, c # k \/ type # "DEBT_PAYMENT"
  PROVE  PaidBy(c)' = PaidBy(c)
<1>1. /\ Len(ledger') = Len(ledger) + 1
      /\ \A j \in DOMAIN ledger : ledger'[j] = ledger[j]
      /\ ledger'[Len(ledger) + 1] =
           [customer |-> k, type |-> type, amount |-> amount, session |-> session]
      /\ LedgerTypeOK'
  BY InsertType
<1>2. /\ DOMAIN ledger = 1 .. Len(ledger) /\ DOMAIN ledger' = 1 .. Len(ledger')
      /\ Len(ledger) \in Nat
  BY <1>1 DEF LedgerTypeOK
<1>3. DOMAIN ledger' = DOMAIN ledger \cup {Len(ledger) + 1}
  BY <1>1, <1>2
<1> QED
  BY <1>1, <1>2, <1>3 DEF PaidBy, EntriesOf

\* The entries of a commit: none, or one.
LEMMA EntryOfCommit ==
  ASSUME NEW w \in Worker, Commits(w)
  PROVE  \/ UNCHANGED ledger
         \/ \E k \in CustomerId, type \in EntryType \ {"DEBT_PAYMENT"},
               amount \in Int, session \in Nat :
               Insert(k, type, amount, session) /\ (type = "DEBT_ADD" => amount > 0)
         \/ \E k \in CustomerId, amount \in Nat :
              Insert(k, "DEBT_PAYMENT", -amount, 0) /\ amount <= Balance(k)
<1> SUFFICES ASSUME ~UNCHANGED ledger
             PROVE  \/ \E k \in CustomerId, type \in EntryType \ {"DEBT_PAYMENT"},
                         amount \in Int, session \in Nat :
                         Insert(k, type, amount, session) /\ (type = "DEBT_ADD" => amount > 0)
                    \/ \E k \in CustomerId, amount \in Nat :
                         Insert(k, "DEBT_PAYMENT", -amount, 0) /\ amount <= Balance(k)
  OBVIOUS
<1>1. TypeOK /\ req[w].kind \in {"end", "pay", "correct"}
  BY DEF Commits, Commit, CommitStart, CommitExtend, CommitCancel, TxTypes
<1>2. CASE req[w].kind = "end"
  <2>1. /\ req[w].session \in DOMAIN sessions
        /\ req[w].receipt \in Receipts \cup {Absent} /\ at[w] \in Instants
        /\ EndSession(req[w].session, req[w].receipt, at[w])
    BY <1>2, EndCommitted
  <2>2. PICK i \in DOMAIN sessions : i = req[w].session
    BY <2>1
  <2> DEFINE due == Finalize(sessions[i], at[w])
             paid == Collected(due, req[w].receipt)
  <2>3. MayOwe(sessions[i].customer) /\ AddDebt(sessions[i].customer, due - paid, i)
    BY <2>1, <2>2 DEF EndSession
  <2>4. due \in Int /\ paid \in Int
    BY <1>1, <2>1, <2>2, EndEffect
  <2> HIDE DEF due, paid
  <2>5. /\ sessions[i].customer \in CustomerId /\ i \in Nat
        /\ due - paid \in Int /\ "DEBT_ADD" \in EntryType \ {"DEBT_PAYMENT"}
    BY <1>1, <2>3, <2>4, SessionTyped DEF MayOwe, EntryType
  <2> QED
    BY <2>3, <2>5 DEF AddDebt
<1>3. CASE req[w].kind = "pay"
  <2>1. /\ req[w].customer \in CustomerId /\ req[w].amount \in Payments
        /\ PayDebt(req[w].customer, req[w].amount)
    BY <1>3, EntryCommitted
  <2>2. PICK amount \in Nat : amount = req[w].amount
    <3>1. Payments \subseteq Nat
      BY DeskAssumption
    <3> QED
      BY <2>1, <3>1
  <2>3. RecordPayment(req[w].customer, amount)
    BY <2>1, <2>2 DEF PayDebt
  <2> QED
    BY <2>1, <2>3 DEF RecordPayment
<1>4. CASE req[w].kind = "correct"
  <2>1. /\ req[w].customer \in CustomerId /\ req[w].amount \in Corrections
        /\ Correct(req[w].customer, req[w].amount)
    BY <1>4, EntryCommitted DEF CorrectDebt
  <2>2. req[w].amount \in Int /\ "DEBT_CORRECTION" \in EntryType \ {"DEBT_PAYMENT"}
    BY <2>1, DeskAssumption DEF EntryType
  <2> QED
    BY <2>1, <2>2 DEF Correct
<1> QED
  BY <1>1, <1>2, <1>3, <1>4

LEMMA LedgerIsOfCommits ==
  ASSUME [TxNext]_txVars
  PROVE  UNCHANGED ledger \/ \E w \in Worker : Commit(w)
BY DEF TxNext, TxStep, txVars, vars, ManagerStep, ComputerAdmin, RegistryStep,
       RoomAdmin, CustomerAdmin, Tick, Advance, Arrive, Connect, ResolveCustomer, Seat,
       InsertSession, LockActive, SaveSession, LockForRelease, LockPayer, CheckBalance,
       InsertEntry, BreakDeadlock, ConnectTimeout, Crash, Abort

\* Whatever else runs between its check and its insert, a payment never leaves the
\* customer in credit (debt.service.ts recordPayment: "Concurrent payments cannot
\* both pass the overpayment guard").
THEOREM PaymentsFitTheBalance == TxSpec => PaymentsNeverOverdraw
<1>1. ASSUME TxInv, [TxNext]_txVars, NEW c \in CustomerId, PaidBy(c)' # PaidBy(c)
      PROVE  Balance(c)' >= 0
  <2>1. ~UNCHANGED ledger
    BY <1>1 DEF PaidBy, EntriesOf
  <2>2. PICK w \in Worker : Commits(w)
    BY <1>1, <2>1, LedgerIsOfCommits DEF TxInv, Commits
  <2>3. LedgerTypeOK
    BY <1>1 DEF TxInv, TxTypes, TypeOK
  <2>4. PICK k \in CustomerId, amount \in Nat :
          Insert(k, "DEBT_PAYMENT", -amount, 0) /\ amount <= Balance(k)
    BY <1>1, <2>1, <2>2, <2>3, EntryOfCommit, PaidAfterInsert
  <2>5. "DEBT_PAYMENT" \in EntryType /\ -amount \in Int
    BY DEF EntryType
  <2>6. c = k
    BY <1>1, <2>3, <2>4, <2>5, PaidAfterInsert
  <2>7. Balance(k)' = Balance(k) + (-amount) /\ Balance(k) \in Int
    BY <2>3, <2>4, <2>5, BalanceAfterInsert
  <2> QED
    BY <2>4, <2>6, <2>7
<1>2. TxInv /\ [TxNext]_txVars =>
        [\A c \in CustomerId : PaidBy(c)' # PaidBy(c) => Balance(c)' >= 0]_txVars
  BY <1>1
<1> QED
  BY <1>2, Invariance, PTL DEF TxSpec, PaymentsNeverOverdraw

\* One more entry cannot bring a customer into credit, unless it is a negative
\* correction.
LEMMA CreditAfterInsert ==
  ASSUME LedgerTypeOK, CreditNeedsCorrection,
         NEW k \in CustomerId, NEW type \in EntryType, NEW amount \in Int,
         NEW session \in Nat, Insert(k, type, amount, session),
         \/ amount >= 0
         \/ type = "DEBT_CORRECTION"
         \/ 0 <= Balance(k) + amount
  PROVE  CreditNeedsCorrection'
<1>1. /\ LedgerTypeOK' /\ Len(ledger') = Len(ledger) + 1
      /\ \A j \in DOMAIN ledger : ledger'[j] = ledger[j]
      /\ ledger'[Len(ledger) + 1] =
           [customer |-> k, type |-> type, amount |-> amount, session |-> session]
  BY InsertType
<1>2. /\ DOMAIN ledger = 1 .. Len(ledger) /\ DOMAIN ledger' = 1 .. Len(ledger')
      /\ Len(ledger) \in Nat
  BY <1>1 DEF LedgerTypeOK
<1>3. DOMAIN ledger \subseteq DOMAIN ledger' /\ Len(ledger) + 1 \in DOMAIN ledger'
  BY <1>1, <1>2
<1>4. \A c : NegativelyCorrected(c) => NegativelyCorrected(c)'
  BY <1>1, <1>3 DEF NegativelyCorrected, EntriesOf
<1>5. type = "DEBT_CORRECTION" /\ amount < 0 => NegativelyCorrected(k)'
  BY <1>1, <1>3 DEF NegativelyCorrected, EntriesOf
<1>6. /\ Balance(k) \in Int /\ Balance(k)' = Balance(k) + amount
      /\ \A c \in CustomerId \ {k} : Balance(c)' = Balance(c)
  BY BalanceAfterInsert
<1>7. Balance(k)' < 0 => NegativelyCorrected(k)'
  <2>1. CASE NegativelyCorrected(k)
    BY <1>4, <2>1
  <2>2. CASE ~NegativelyCorrected(k)
    <3>1. Balance(k) >= 0
      BY <1>6, <2>2 DEF CreditNeedsCorrection
    <3> QED
      BY <1>5, <1>6, <3>1
  <2> QED
    BY <2>1, <2>2
<1>8. ASSUME NEW c \in CustomerId \ {k}, Balance(c)' < 0
      PROVE  NegativelyCorrected(c)'
  BY <1>4, <1>6, <1>8 DEF CreditNeedsCorrection
<1> QED
  BY <1>7, <1>8 DEF CreditNeedsCorrection

\* No customer is in credit without a negative correction of the owner, however
\* endings, payments and corrections interleave (debt.service.ts:36-163): the
\* check of recordPayment holds for the balance, not only for the one payment.
THEOREM CreditIsCorrected == TxSpec => []CreditNeedsCorrection
<1>1. TxInit => CreditNeedsCorrection
  <2> SUFFICES ASSUME TxInit, NEW c \in CustomerId PROVE Balance(c) = 0
    BY DEF CreditNeedsCorrection
  <2>1. ledger = <<>>
    BY DEF TxInit, Init
  <2>2. EntriesOf(c) = {}
    BY <2>1 DEF EntriesOf
  <2> QED
    BY <2>2, EmptyBalance
<1>2. ASSUME TxInv, CreditNeedsCorrection, [TxNext]_txVars
      PROVE  CreditNeedsCorrection'
  <2>1. LedgerTypeOK
    BY <1>2 DEF TxInv, TxTypes, TypeOK
  <2>2. CASE UNCHANGED ledger
    <3>1. \A c : Balance(c)' = Balance(c)
      BY <2>2 DEF Balance, EntriesOf, AmountOf, MapThenSumSet, MapThenFoldSet
    <3>2. \A c : NegativelyCorrected(c)' <=> NegativelyCorrected(c)
      BY <2>2 DEF NegativelyCorrected, EntriesOf
    <3> QED
      BY <1>2, <3>1, <3>2 DEF CreditNeedsCorrection
  <2>3. CASE ~UNCHANGED ledger
    <3>1. PICK w \in Worker : Commits(w)
      BY <1>2, <2>3, LedgerIsOfCommits DEF TxInv, Commits
    <3>2. CASE \E k \in CustomerId, type \in EntryType \ {"DEBT_PAYMENT"},
                  amount \in Int, session \in Nat :
                  Insert(k, type, amount, session) /\ (type = "DEBT_ADD" => amount > 0)
      <4>1. PICK k \in CustomerId, type \in EntryType \ {"DEBT_PAYMENT"},
                 amount \in Int, session \in Nat :
                 Insert(k, type, amount, session) /\ (type = "DEBT_ADD" => amount > 0)
        BY <3>2
      <4>2. type = "DEBT_CORRECTION" \/ amount >= 0
        BY <4>1 DEF EntryType
      <4> QED
        BY <1>2, <2>1, <4>1, <4>2, CreditAfterInsert
    <3>3. CASE \E k \in CustomerId, amount \in Nat :
                 Insert(k, "DEBT_PAYMENT", -amount, 0) /\ amount <= Balance(k)
      <4>1. PICK k \in CustomerId, amount \in Nat :
                 Insert(k, "DEBT_PAYMENT", -amount, 0) /\ amount <= Balance(k)
        BY <3>3
      <4>2. "DEBT_PAYMENT" \in EntryType /\ -amount \in Int /\ 0 \in Nat
        BY DEF EntryType
      <4>3. Balance(k) \in Int
        BY <2>1, <4>1, <4>2, BalanceAfterInsert
      <4>4. PICK signed \in Int : signed = -amount
        BY <4>2
      <4>5. Insert(k, "DEBT_PAYMENT", signed, 0) /\ 0 <= Balance(k) + signed
        BY <4>1, <4>3, <4>4
      <4> QED
        BY <1>2, <2>1, <4>2, <4>5, CreditAfterInsert
    <3> QED
      BY <2>3, <3>1, <3>2, <3>3, EntryOfCommit
  <2> QED
    BY <2>2, <2>3
<1> QED
  BY <1>1, <1>2, Invariance, PTL DEF TxSpec

-----------------------------------------------------------------------------
(* The promises of the desk hold of the interleaved transactions, whatever  *)
(* happens to rooms and customers in between                                *)

\* A session made by Seat is active and charged for its time, its computer stays
\* as it was found, and has no active session, until the start commits.
Fresh(s) ==
  /\ s.status = "ACTIVE" /\ ChargedFor(s) /\ s.amountDue \in Nat
  /\ s.type # "OPEN_SESSION" =>
       /\ s.plannedEndAt \in Nat
       /\ DiffSeconds(s.startedAt, s.plannedEndAt) \in Nat

Vacant(c) == ComputerTable!Live(c) /\ computers[c].data.status = "AVAILABLE"

SeatsFresh(w) ==
  req[w].kind = "start" =>
    /\ \A k \in DOMAIN seats[w] :
         /\ Fresh(seats[w][k])
         /\ IndexAllows(req[w].batch[k])
         /\ Vacant(req[w].batch[k])
    /\ pc[w] = "insert" => Fresh(found[w]) /\ Vacant(found[w].computer)

LEMMA FreshKept ==
  ASSUME TxTypes, NEW v \in Worker, SameHandler(v), Respects(v), StartRead(v),
         SeatsFresh(v)
  PROVE  SeatsFresh(v)'
<1> SUFFICES ASSUME req[v].kind = "start" PROVE SeatsFresh(v)'
  BY DEF SeatsFresh, SameHandler
<1>1. ASSUME NEW k \in DOMAIN seats[v]
      PROVE  IndexAllows(req[v].batch[k])' /\ Vacant(req[v].batch[k])'
  <2>1. k \in DOMAIN req[v].batch /\ Updates(v, "computer", req[v].batch[k])
    BY DEF StartRead
  <2>2. req[v].batch \in Batches
    BY WorkerFields, RequestFields
  <2>3. PICK c \in ComputerId : c = req[v].batch[k]
    BY <2>1, <2>2, BatchType
  <2>4. /\ ActiveOn(c) = {} => ActiveOn(c)' = {}
        /\ computers'[c] = computers[c]
    BY <2>1, <2>3 DEF Respects
  <2>5. IndexAllows(c) /\ Vacant(c)
    BY <2>3 DEF SeatsFresh
  <2>6. IndexAllows(c)' /\ Vacant(c)'
    BY <2>4, <2>5 DEF IndexAllows, Vacant, ComputerTable!Live
  <2>7. c = req'[v].batch[k]
    BY <2>3 DEF SameHandler
  <2> QED
    BY <2>6, <2>7 DEF IndexAllows, Vacant, ComputerTable!Live
<1>2. ASSUME pc[v] = "insert" PROVE Vacant(found[v].computer)'
  <2>1. PICK c \in ComputerId : c = NextComputer(v)
    BY <1>2, NextComputerIs
  <2>2. c = found[v].computer /\ Updates(v, "computer", c)
    BY <1>2, <2>1 DEF StartRead
  <2>3. computers'[c] = computers[c] /\ found'[v] = found[v]
    BY <2>2 DEF Respects, SameHandler
  <2>4. Vacant(c)
    BY <1>2, <2>2 DEF SeatsFresh
  <2> QED
    BY <2>2, <2>3, <2>4 DEF Vacant, ComputerTable!Live
<1> QED
  BY <1>1, <1>2 DEF SeatsFresh, SameHandler

LEMMA FinishFresh ==
  ASSUME TxTypes, NEW w \in Worker, Finish(w)
  PROVE  SeatsFresh(w)'
<1>1. req'[w].kind = "none"
  BY DEF TxTypes, Finish, NoRequest
<1> QED
  BY <1>1 DEF SeatsFresh

\* A step of w that inserts no session.
LEMMA FreshStays ==
  ASSUME NEW w \in Worker, SeatsFresh(w), UNCHANGED <<sessions, computers>>,
         req'[w] = req[w], seats'[w] = seats[w],
         pc'[w] = "insert" => Fresh(found'[w]) /\ Vacant(found'[w].computer)
  PROVE  SeatsFresh(w)'
BY DEF SeatsFresh, IndexAllows, ActiveOn, Vacant, ComputerTable!Live

LEMMA SeatFresh ==
  ASSUME TxTypes, NEW w \in Worker, StartRead(w), SeatsFresh(w), Seat(w)
  PROVE  SeatsFresh(w)'
<1>1. CASE Abort(w)
  BY <1>1, FinishFresh DEF Abort
<1>2. CASE ~Abort(w)
  <2>1. PICK c \in ComputerId : c = NextComputer(w)
    BY <1>2, NextComputerIs DEF Seat
  <2>2. PICK s : s = NewSession(c, req[w].type, req[w].customer, 0, req[w].term, at[w])
    OBVIOUS
  <2>3. /\ pc[w] = "seat" /\ found'[w] = s
        /\ CanPlan(req[w].type, RateOf(c), at[w], req[w].term)
        /\ req'[w] = req[w] /\ seats'[w] = seats[w]
        /\ CanSeat(c)
        /\ UNCHANGED <<sessions, computers>>
    BY <1>2, <2>1, <2>2 DEF Seat, Seatable, Goto, TxTypes, vars, fleet
  <2>4. /\ req[w].type \in SessionType /\ req[w].term \in Int /\ at[w] \in Nat
        /\ TypeOK
    <3>1. req[w].type \in SessionType /\ req[w].term \in Terms \cup {Absent}
      BY <2>3, WorkerFields, StepFields, RequestFields
    <3>2. Terms \subseteq Int /\ Instants \subseteq Nat /\ Absent \in Int
      BY DeskAssumption DEF Absent
    <3> QED
      BY <3>1, <3>2 DEF TxTypes
  <2>5. ChargedFor(s) /\ s.amountDue \in Nat
    BY <2>2, <2>3, <2>4, StartedCharge
  <2>6. /\ s.status = "ACTIVE" /\ s.computer = c /\ s.type = req[w].type
        /\ s.startedAt = at[w]
        /\ s.plannedEndAt = PlannedEnd(req[w].type, at[w], req[w].term)
    BY <2>2, NewFields
  <2>7. s.type # "OPEN_SESSION" =>
          /\ s.plannedEndAt \in Nat
          /\ DiffSeconds(s.startedAt, s.plannedEndAt) \in Nat
    <3>1. req[w].term \in Nat \cup {Absent}
      <4>1. req[w].term \in Terms \cup {Absent}
        BY <2>3, WorkerFields, StepFields, RequestFields
      <4>2. Terms \subseteq Nat
        BY DeskAssumption
      <4> QED
        BY <4>1, <4>2
    <3> QED
      BY <2>3, <2>4, <2>6, <3>1, PlannedSchedule
  <2>8. Vacant(c)
    BY <2>3 DEF CanSeat, Vacant
  <2>9. Fresh(s)
    BY <2>5, <2>6, <2>7 DEF Fresh
  <2> QED
    BY <2>3, <2>6, <2>8, <2>9, FreshStays
<1> QED
  BY <1>1, <1>2

LEMMA InsertFresh ==
  ASSUME TxTypes, NEW w \in Worker, StartRead(w), SeatsFresh(w), InsertSession(w)
  PROVE  SeatsFresh(w)'
<1>1. CASE Abort(w)
  BY <1>1, FinishFresh DEF Abort
<1>2. CASE ~Abort(w)
  <2>1. /\ pc[w] = "insert" /\ pc'[w] \in {"seat", "commit"}
        /\ seats'[w] = Append(seats[w], found[w])
        /\ req'[w] = req[w]
        /\ IndexAllows(NextComputer(w))
        /\ UNCHANGED <<sessions, computers>>
    BY <1>2 DEF InsertSession, Goto, TxTypes, vars, fleet
  <2>2. /\ req[w].kind = "start" /\ seats[w] \in Seq(Session)
        /\ NextComputer(w) = req[w].batch[Len(seats[w]) + 1]
    BY <2>1, NextComputerIs
  <2>3. /\ found[w] \in Session /\ Fresh(found[w])
        /\ Vacant(NextComputer(w))
    BY <2>1, <2>2 DEF StartRead, SeatsFresh
  <2>4. \A k \in DOMAIN seats'[w] :
          \/ k \in DOMAIN seats[w] /\ seats'[w][k] = seats[w][k]
          \/ k = Len(seats[w]) + 1 /\ seats'[w][k] = found[w]
    BY <2>1, <2>2, <2>3
  <2>5. \A k \in DOMAIN seats'[w] :
          /\ Fresh(seats'[w][k])
          /\ IndexAllows(req[w].batch[k])
          /\ Vacant(req[w].batch[k])
    BY <2>1, <2>2, <2>3, <2>4 DEF SeatsFresh
  <2> QED
    BY <2>1, <2>2, <2>5
    DEF SeatsFresh, Fresh, IndexAllows, ActiveOn, Vacant, ComputerTable!Live
<1> QED
  BY <1>1, <1>2

LEMMA OtherFresh ==
  ASSUME TxTypes, NEW w \in Worker, SeatsFresh(w),
         \/ Connect(w) \/ ResolveCustomer(w)
         \/ LockActive(w) \/ SaveSession(w) \/ LockForRelease(w)
         \/ LockPayer(w) \/ CheckBalance(w) \/ InsertEntry(w)
  PROVE  SeatsFresh(w)'
<1>1. CASE Abort(w)
  BY <1>1, FinishFresh DEF Abort
<1>2. CASE Connect(w) \/ (ResolveCustomer(w) /\ ~Abort(w))
  <2>1. /\ req'[w] = req[w] /\ seats'[w] = seats[w]
        /\ UNCHANGED <<sessions, computers>>
        /\ pc'[w] \in {FirstStep(req[w].kind), "seat"}
    BY <1>2 DEF Connect, ResolveCustomer, Goto, TxTypes, vars, fleet
  <2>2. req[w].kind \in {"start", "extend", "end", "cancel", "pay", "correct"}
    BY <1>2, WorkerFields, StepFields DEF Connect, ResolveCustomer
  <2>3. pc'[w] # "insert"
    BY <2>1, <2>2 DEF FirstStep
  <2> QED
    BY <2>1, <2>3, FreshStays
<1>3. CASE ~Abort(w) /\ ~Connect(w) /\ ~ResolveCustomer(w)
  <2>1. req'[w] = req[w]
    BY <1>3 DEF LockActive, SaveSession, LockForRelease, LockPayer, CheckBalance, InsertEntry
  <2>2. req[w].kind # "start"
    BY <1>3, WorkerFields, StepFields
    DEF LockActive, SaveSession, LockForRelease, LockPayer, CheckBalance, InsertEntry
  <2> QED
    BY <2>1, <2>2 DEF SeatsFresh
<1> QED
  BY <1>1, <1>2, <1>3

LEMMA OwnFresh ==
  ASSUME TxTypes, NEW w \in Worker, StartRead(w), SeatsFresh(w), Acts(w)
  PROVE  SeatsFresh(w)'
<1>1. ASSUME NEW r \in Requests, Arrive(w, r) PROVE SeatsFresh(w)'
  <2>1. pc'[w] = "connect" /\ seats'[w] = <<>>
    BY <1>1 DEF Arrive, Goto, TxTypes, Cleared
  <2> QED
    BY <2>1 DEF SeatsFresh
<1> QED
  BY <1>1, SeatFresh, InsertFresh, OtherFresh, FinishFresh
  DEF Acts, Advance, Commit, Abort, BreakDeadlock, ConnectTimeout, Crash

LEMMA FreshStep ==
  TxInv /\ (\A w \in Worker : SeatsFresh(w)) /\ [TxNext]_txVars
    => (\A w \in Worker : SeatsFresh(w))'
<1> SUFFICES ASSUME TxInv, \A w \in Worker : SeatsFresh(w), [TxNext]_txVars,
                    NEW v \in Worker
             PROVE  SeatsFresh(v)'
  OBVIOUS
<1>1. TxTypes /\ \A w \in Worker : StartRead(w)
  BY DEF TxInv, Reads
<1>2. ASSUME UNCHANGED handlers,
             ManagerStep \/ RegistryStep \/ Tick \/ UNCHANGED vars
      PROVE  SeatsFresh(v)'
  BY <1>1, <1>2, ManagerRespects, RegistryRespects, TickRespects, QuietRespects,
     HandlersStay, FreshKept
<1>3. ASSUME NEW w \in Worker, Acts(w), v # w PROVE SeatsFresh(v)'
  BY <1>1, <1>3, OthersKeep, OthersRespect, FreshKept
<1>4. ASSUME Acts(v) PROVE SeatsFresh(v)'
  BY <1>1, <1>4, OwnFresh
<1> QED
  BY <1>2, <1>3, <1>4 DEF TxNext, TxStep, Acts, ManagerStep, RegistryStep, txVars

DeskInv == TxInv /\ \A w \in Worker : SeatsFresh(w)

LEMMA DeskInvariance == TxSpec => []DeskInv
<1>1. TxInit => \A w \in Worker : SeatsFresh(w)
  BY DEF TxInit, SeatsFresh, NoRequest
<1>2. DeskInv /\ [TxNext]_txVars => DeskInv'
  <2> SUFFICES ASSUME DeskInv, [TxNext]_txVars PROVE DeskInv'
    OBVIOUS
  <2>1. TxInv'
    BY TxInvStep DEF DeskInv
  <2>2. (\A w \in Worker : SeatsFresh(w))'
    BY FreshStep DEF DeskInv
  <2> QED
    BY <2>1, <2>2 DEF DeskInv
<1>3. TxInit => DeskInv
  BY <1>1, TxInvInit DEF DeskInv
<1> QED
  BY <1>2, <1>3, PTL DEF TxSpec

\* Sessions are added to the table, each active, charged for its time, and alone
\* on its computer, which was vacant and becomes occupied.
Opens ==
  /\ UNCHANGED <<ledger, computerUpdates>>
  /\ sessions' \in Seq(Session)
  /\ \A i \in DOMAIN sessions : i \in DOMAIN sessions' /\ sessions'[i] = sessions[i]
  /\ \A i \in DOMAIN sessions' \ DOMAIN sessions :
       /\ Fresh(sessions'[i])
       /\ \A j \in DOMAIN sessions' :
            /\ sessions'[j].status = "ACTIVE"
            /\ sessions'[j].computer = sessions'[i].computer
            => j = i
  /\ \A c \in ComputerId :
       IF \E i \in DOMAIN sessions' \ DOMAIN sessions : sessions'[i].computer = c
         THEN /\ Vacant(c)
              /\ computers'[c].life = "live"
              /\ computers'[c].data.status = "IN_USE"
         ELSE computers'[c] = computers[c]

LEMMA StartOpens ==
  ASSUME NEW w \in Worker, Commits(w), req[w].kind = "start", SeatsFresh(w)
  PROVE  Opens
<1>1. /\ UNCHANGED <<ledger, computerUpdates>>
      /\ sessions' \in Seq(Session)
      /\ \A i \in DOMAIN sessions : i \in DOMAIN sessions' /\ sessions'[i] = sessions[i]
  BY StartCommitted
<1>2. PICK group \in Nat : group = GroupOf(req[w].batch)
  BY GroupType DEF Commits, TxTypes
<1>3. /\ \A k \in DOMAIN seats[w] : seats[w][k] \in Session
      /\ sessions \in Seq(Session)
  BY DEF Commits, TxTypes, TypeOK
<1>4. PICK batch \in Batches : batch = req[w].batch
  BY WorkerFields, RequestFields DEF Commits
<1>5. \A k, l \in DOMAIN batch : batch[k] = batch[l] => k = l
  BY BatchType
<1>6. ASSUME NEW i \in DOMAIN sessions' \ DOMAIN sessions
      PROVE  /\ i - Len(sessions) \in DOMAIN batch
             /\ sessions'[i].computer = batch[i - Len(sessions)]
             /\ ActiveOn(sessions'[i].computer) = {}
             /\ Fresh(sessions'[i])
             /\ Vacant(sessions'[i].computer)
             /\ sessions'[i].computer \in {seats[w][k].computer : k \in DOMAIN seats[w]}
  <2>1. PICK k \in DOMAIN seats[w] :
          k = i - Len(sessions) /\ sessions'[i] = [seats[w][k] EXCEPT !.group = group]
    BY <1>2, <1>6, StartCommitted
  <2>2. /\ k \in DOMAIN batch /\ seats[w][k].computer = batch[k]
    BY <1>4, <2>1 DEF Commits, Reads, StartRead
  <2>3. Fresh(seats[w][k]) /\ IndexAllows(batch[k]) /\ Vacant(batch[k])
    BY <1>4, <2>1 DEF SeatsFresh
  <2>4. /\ sessions'[i].computer = batch[k]
        /\ Fresh(sessions'[i])
    BY <1>3, <2>1, <2>2, <2>3, Regrouped DEF Fresh
  <2> QED
    BY <2>1, <2>2, <2>3, <2>4 DEF IndexAllows
<1>7. ASSUME NEW i \in DOMAIN sessions' \ DOMAIN sessions, NEW j \in DOMAIN sessions',
             sessions'[j].status = "ACTIVE",
             sessions'[j].computer = sessions'[i].computer
      PROVE  j = i
  <2>1. CASE j \in DOMAIN sessions
    <3>1. j \in ActiveOn(sessions'[i].computer)
      BY <1>1, <1>7, <2>1 DEF ActiveOn
    <3> QED
      BY <1>6, <3>1
  <2>2. CASE j \notin DOMAIN sessions
    <3>1. j - Len(sessions) = i - Len(sessions)
      BY <1>5, <1>6, <1>7, <2>2
    <3>2. i \in Int /\ j \in Int /\ Len(sessions) \in Int
      BY <1>1, <1>3
    <3> QED
      BY <3>1, <3>2
  <2> QED
    BY <2>1, <2>2
<1> DEFINE taken == {seats[w][k].computer : k \in DOMAIN seats[w]}
<1>8. \A c \in taken : \E i \in DOMAIN sessions' \ DOMAIN sessions :
        sessions'[i].computer = c
  <2> SUFFICES ASSUME NEW k \in DOMAIN seats[w]
               PROVE  \E i \in DOMAIN sessions' \ DOMAIN sessions :
                        sessions'[i].computer = seats[w][k].computer
    OBVIOUS
  <2>1. PICK i \in DOMAIN sessions' \ DOMAIN sessions : i = Len(sessions) + k
    BY StartCommitted
  <2>2. k \in Int /\ Len(sessions) \in Int
    BY <1>3 DEF Commits, TxTypes
  <2>3. i - Len(sessions) = k
    BY <2>1, <2>2
  <2>4. sessions'[i].computer = batch[k] /\ seats[w][k].computer = batch[k]
    BY <1>4, <1>6, <2>3 DEF Commits, Reads, StartRead
  <2> QED
    BY <2>4
<1>9. computers' = [c \in ComputerId |->
        IF c \in taken THEN [computers[c] EXCEPT !.data.status = "IN_USE"]
                       ELSE computers[c]]
  BY StartCommitted DEF Occupy
<1>10. ASSUME NEW c \in ComputerId
       PROVE  IF \E i \in DOMAIN sessions' \ DOMAIN sessions : sessions'[i].computer = c
                THEN /\ Vacant(c)
                     /\ computers'[c].life = "live"
                     /\ computers'[c].data.status = "IN_USE"
                ELSE computers'[c] = computers[c]
  <2>1. computers[c] \in ComputerTable!Row
    BY DEF Commits, TxTypes, TypeOK, ComputerTable!TypeOK
  <2>2. CASE c \in taken
    <3>1. Vacant(c)
      BY <1>6, <1>8, <2>2
    <3>2. computers'[c] = [computers[c] EXCEPT !.data.status = "IN_USE"]
      BY <1>9, <2>2
    <3> HIDE DEF taken
    <3> QED
      BY <1>8, <2>1, <2>2, <3>1, <3>2
      DEF Vacant, ComputerTable!Live, ComputerTable!Row, ComputerData
  <2>3. CASE c \notin taken
    <3>1. \A i \in DOMAIN sessions' \ DOMAIN sessions : sessions'[i].computer # c
      BY <1>6, <2>3
    <3>2. computers'[c] = computers[c]
      BY <1>9, <2>3
    <3> QED
      BY <3>1, <3>2
  <2> QED
    BY <2>2, <2>3
<1> QED
  BY <1>1, <1>6, <1>7, <1>10 DEF Opens

\* Every step is a step of the desk, or closes a session and leaves its computer,
\* or opens sessions for a start whose room or customer may have changed since it
\* was looked at.
Leaves(w) == Commits(w) /\ LeavesComputer(w) /\ CloseOnly

LEMMA TxStepIs ==
  DeskInv /\ [TxNext]_txVars => [Next]_vars \/ Opens \/ \E w \in Worker : Leaves(w)
<1> SUFFICES ASSUME DeskInv, [TxNext]_txVars
             PROVE  [Next]_vars \/ Opens \/ \E w \in Worker : Leaves(w)
  OBVIOUS
<1>1. ASSUME NEW w \in Worker, Acts(w) PROVE Commit(w) \/ UNCHANGED vars
  BY <1>1 DEF Acts, Advance, Arrive, Connect, ResolveCustomer, Seat, InsertSession,
              LockActive, SaveSession, LockForRelease, LockPayer, CheckBalance, InsertEntry,
              BreakDeadlock, ConnectTimeout, Crash, Abort
<1>2. ASSUME NEW w \in Worker, Commit(w) PROVE Next \/ Opens \/ Leaves(w)
  <2>1. Commits(w) /\ SeatsFresh(w)
    BY <1>2 DEF DeskInv, TxInv, Commits
  <2> QED
    BY <2>1, CommittedIsNext, StartOpens DEF Leaves
<1>3. ManagerStep \/ RegistryStep \/ Tick => Next
  BY DEF ManagerStep, RegistryStep, Next
<1>4. UNCHANGED txVars => UNCHANGED vars
  BY DEF txVars
<1> QED
  BY <1>1, <1>2, <1>3, <1>4 DEF TxNext, TxStep, Acts

LEMMA DeskStep == DeskInv /\ [TxNext]_txVars => [DeskMove]_vars \/ Opens
BY TxStepIs DEF DeskMove, Leaves

\* "At most one ACTIVE session per computer" (session.entity.ts) under every
\* interleaving of requests with each other and with the managers' saves.
THEOREM OneActiveWhenInterleaved == TxSpec => []AtMostOneActive
<1>1. TxInit => AtMostOneActive
  BY DEF TxInit, Init, AtMostOneActive
<1>2. AtMostOneActive /\ Opens => AtMostOneActive'
  BY DEF Opens, AtMostOneActive, IsActive
<1>3. DeskInv => TypeOK
  BY DEF DeskInv, TxInv, TxTypes
<1> QED
  BY <1>1, <1>2, <1>3, DeskInvariance, DeskStep, OneActiveStep, PTL DEF TxSpec

\* "The amount due and the debt can never disagree" (README.md): however requests
\* interleave, time out, deadlock or die with a transaction open, a session has
\* ended short if and only if the ledger has its shortfall, once.
THEOREM DebtAgreesWhenInterleaved == TxSpec => []DebtMatchesShortfall
<1>1. TxInit => DebtMatchesShortfall
  BY DEF TxInit, Init, DebtMatchesShortfall, ShortfallIsOwed, DebtHasShortfall, OwedOnce
<1>2. TypeOK /\ DebtMatchesShortfall /\ Opens => DebtMatchesShortfall'
  <2> SUFFICES ASSUME TypeOK, DebtMatchesShortfall, Opens PROVE DebtMatchesShortfall'
    OBVIOUS
  <2>1. \A i \in DOMAIN sessions' \ DOMAIN sessions : ~EndedShort(i)'
    BY DEF Opens, Fresh, EndedShort
  <2>2. \A i \in DOMAIN sessions : EndedShort(i)' <=> EndedShort(i)
    BY DEF Opens, EndedShort
  <2> QED
    BY <2>1, <2>2, BooksFrame DEF Opens
<1>3. DeskInv => TypeOK
  BY DEF DeskInv, TxInv, TxTypes
<1> QED
  BY <1>1, <1>2, <1>3, DeskInvariance, DeskStep, BooksStep, PTL DEF TxSpec

\* The charge is the price of the billed time at the session's own rate, even when
\* the room is repriced while the start or the ending waits for its locks.
THEOREM ChargesMatchWhenInterleaved == TxSpec => []ChargeMatchesTime
<1>1. TxInit => ChargeInv
  BY DEF TxInit, Init, ChargeInv
<1>2. ChargeInv /\ Opens => ChargeInv'
  BY DEF Opens, Fresh, ChargeInv
<1>3. DeskInv => TypeOK
  BY DEF DeskInv, TxInv, TxTypes
<1>4. ChargeInv => ChargeMatchesTime
  BY DEF ChargeInv, ChargeMatchesTime
<1> QED
  BY <1>1, <1>2, <1>3, <1>4, DeskInvariance, DeskStep, ChargeStep, PTL DEF TxSpec

\* No interleaving rewrites a session that has closed, what a session was started
\* with, or an entry of the ledger.
THEOREM HistoryIsKeptWhenInterleaved == TxSpec => HistoryKept
<1>1. Opens => HistoryStep
  BY DEF Opens, HistoryStep, KeepsIdentity
<1>2. DeskInv => TypeOK
  BY DEF DeskInv, TxInv, TxTypes
<1>3. TypeOK /\ ([DeskMove]_vars \/ Opens) => HistoryStep
  BY <1>1, HistoryOfStep
<1> QED
  BY <1>2, <1>3, DeskInvariance, DeskStep, PTL DEF TxSpec, HistoryKept

\* An extension locks its session and charges it from what it read there: however
\* extensions, ends and starts overlap, a session that stays active is untouched or
\* ends later and costs no less (sessions.service.ts:134-146).
THEOREM ExtensionsAddWhenInterleaved == TxSpec => ExtensionsOnlyAdd
<1> DEFINE OnlyAdd == \A i \in DOMAIN sessions :
             IsActive(i) /\ sessions'[i].status = "ACTIVE" =>
               \/ UNCHANGED sessions[i]
               \/ /\ sessions'[i].plannedEndAt > sessions[i].plannedEndAt
                  /\ sessions'[i].amountDue >= sessions[i].amountDue
<1>1. TxInit => ChargeInv /\ ScheduleInv
  BY DEF TxInit, Init, ChargeInv, ScheduleInv
<1>2. ChargeInv /\ ScheduleInv /\ Opens => ChargeInv' /\ ScheduleInv'
  BY DEF Opens, Fresh, ChargeInv, ScheduleInv
<1>3. DeskInv => TypeOK
  BY DEF DeskInv, TxInv, TxTypes
<1>4. Opens => OnlyAdd
  BY DEF Opens
<1>5. TypeOK /\ ChargeInv /\ ScheduleInv /\ ([DeskMove]_vars \/ Opens) => [OnlyAdd]_vars
  BY <1>4, ExtensionStep
<1> QED
  BY <1>1, <1>2, <1>3, <1>5, DeskInvariance, DeskStep, ChargeStep, ScheduleStep, PTL
  DEF TxSpec, ExtensionsOnlyAdd

LEMMA UnbornInterleaved == TxSpec => []UnbornInv
<1>1. TxInit => UnbornInv
  BY DEF TxInit, Init, UnbornInv
<1>2. TypeOK /\ UnbornInv /\ Opens => UnbornInv'
  <2> SUFFICES ASSUME TypeOK, UnbornInv, Opens PROVE UnbornInv'
    OBVIOUS
  <2>1. ASSUME NEW c \in ComputerId
        PROVE  /\ computers[c].life # "unborn" => computers'[c].life # "unborn"
               /\ computers'[c].life = "unborn" => computers'[c] = computers[c]
    BY DEF Opens
  <2>2. ASSUME NEW i \in DOMAIN sessions
        PROVE  computers'[sessions'[i].computer].life # "unborn"
    <3>1. sessions'[i] = sessions[i] /\ sessions[i].computer \in ComputerId
      BY SessionTyped DEF Opens
    <3> QED
      BY <2>1, <3>1 DEF UnbornInv
  <2>3. ASSUME NEW i \in DOMAIN sessions' \ DOMAIN sessions
        PROVE  computers'[sessions'[i].computer].life # "unborn"
    <3>1. sessions' \in Seq(Session)
      BY DEF Opens
    <3>2. sessions'[i] \in Session
      BY <3>1
    <3>3. sessions'[i].computer \in ComputerId
      BY <3>2 DEF Session
    <3> QED
      BY <3>3 DEF Opens
  <2> QED
    BY <2>1, <2>2, <2>3 DEF UnbornInv
<1>3. DeskInv => TypeOK
  BY DEF DeskInv, TxInv, TxTypes
<1> QED
  BY <1>1, <1>2, <1>3, DeskInvariance, DeskStep, UnbornStep, PTL DEF TxSpec

\* A start checks a computer's status and writes IN_USE in different statements:
\* a manager who takes the computer out of service in between waits for the lock,
\* and the start never overwrites MAINTENANCE or OFFLINE.
THEOREM ServiceIsManualWhenInterleaved == TxSpec => ServiceIsManual
<1> DEFINE Manual == \A c \in ComputerId :
             computers[c].data.status \in OutOfService =>
               \/ computers'[c].data.status = computers[c].data.status
               \/ computerUpdates' # computerUpdates
<1>1. Opens => Manual
  BY DEF Opens, Vacant, OutOfService
<1>2. DeskInv => TypeOK
  BY DEF DeskInv, TxInv, TxTypes
<1>3. TypeOK /\ UnbornInv /\ ([DeskMove]_vars \/ Opens) => [Manual]_vars
  BY <1>1, ServiceStep
<1> QED
  BY <1>2, <1>3, DeskInvariance, DeskStep, UnbornInterleaved, PTL
  DEF TxSpec, ServiceIsManual

\* A save of a removed computer brings it back; this step makes none.
NothingRestored ==
  \A c \in ComputerId : computers[c].life = "removed" => computers'[c].life = "removed"

\* A transaction that is about to commit without its session's computer had found
\* it removed; while nothing is restored, it still is.
LeftIsGone(w) ==
  req[w].kind \in {"end", "cancel"} /\ pc[w] = "commit" /\ ~HasComputer(w) =>
    computers[found[w].computer].life = "removed"

\* The session of an ending or cancellation, and its computer.
LEMMA ClosedComputer ==
  ASSUME TxInv, NEW w \in Worker, req[w].kind \in {"end", "cancel"},
         pc[w] \in {"release", "commit"}
  PROVE  /\ req[w].session \in DOMAIN sessions
         /\ found[w] = sessions[req[w].session]
         /\ found[w].computer \in ComputerId
<1>1. /\ TypeOK /\ req[w].session \in DOMAIN sessions
      /\ found[w] = sessions[req[w].session]
  BY DEF TxInv, TxTypes, Reads, SessionRead
<1> QED
  BY <1>1, SessionTyped

LEMMA ReleasedLast ==
  ASSUME TxTypes, NEW w \in Worker, Acts(w),
         req'[w].kind \in {"end", "cancel"}, pc'[w] = "commit"
  PROVE  LockForRelease(w)
<1>1. ~Finish(w)
  BY DEF TxTypes, Finish
<1>2. ~(\E r \in Requests : Arrive(w, r))
  BY DEF TxTypes, Arrive, Goto
<1>3. ~Connect(w)
  <2> SUFFICES ASSUME Connect(w) PROVE FALSE
    OBVIOUS
  <2>1. pc'[w] = FirstStep(req[w].kind) /\ req'[w] = req[w]
    BY DEF TxTypes, Connect, Goto
  <2> QED
    BY <2>1 DEF FirstStep
<1>4. ~(ResolveCustomer(w) \/ Seat(w) \/ LockActive(w) \/ LockPayer(w) \/ CheckBalance(w))
  BY <1>1 DEF TxTypes, ResolveCustomer, Seat, LockActive, LockPayer, CheckBalance,
              Goto, Abort
<1>5. ~InsertSession(w)
  <2>1. InsertSession(w) => req'[w] = req[w] /\ pc[w] = "insert"
    BY <1>1 DEF InsertSession, Abort
  <2> QED
    BY <2>1, WorkerFields, StepFields
<1>6. ~SaveSession(w)
  <2>1. SaveSession(w) => req'[w] = req[w] /\ pc'[w] = AfterSave(w, found[w])
    BY DEF TxTypes, SaveSession, Goto
  <2> QED
    BY <2>1 DEF AfterSave
<1>7. ~InsertEntry(w)
  <2> SUFFICES ASSUME InsertEntry(w) PROVE FALSE
    OBVIOUS
  <2>1. /\ req'[w] = req[w] /\ pc[w] = "entry"
        /\ pc'[w] = IF req[w].kind = "end" THEN "release" ELSE "commit"
    BY <1>1 DEF TxTypes, InsertEntry, Goto, Abort
  <2> QED
    BY <2>1, WorkerFields, StepFields
<1> QED
  BY <1>1, <1>2, <1>3, <1>4, <1>5, <1>6, <1>7
  DEF Acts, Advance, Commit, BreakDeadlock, ConnectTimeout, Crash, Abort

LEMMA GoneStep ==
  TxInv /\ UnbornInv /\ (\A w \in Worker : LeftIsGone(w))
        /\ [TxNext]_txVars /\ [NothingRestored]_vars
    => (\A w \in Worker : LeftIsGone(w))'
<1> SUFFICES ASSUME TxInv, UnbornInv, \A w \in Worker : LeftIsGone(w),
                    [TxNext]_txVars, [NothingRestored]_vars, NEW v \in Worker,
                    req'[v].kind \in {"end", "cancel"}, pc'[v] = "commit",
                    ~HasComputer(v)'
             PROVE  computers'[found'[v].computer].life = "removed"
  BY DEF LeftIsGone
<1>1. TxTypes
  BY DEF TxInv
<1>2. NothingRestored
  BY DEF NothingRestored, vars, fleet
<1>3. ASSUME SameHandler(v) PROVE computers'[found'[v].computer].life = "removed"
  <2>1. /\ req[v].kind \in {"end", "cancel"} /\ pc[v] = "commit" /\ ~HasComputer(v)
        /\ found'[v] = found[v]
    BY <1>3 DEF SameHandler, HasComputer
  <2>2. PICK c \in ComputerId : c = found[v].computer
    BY <2>1, ClosedComputer
  <2>3. computers[c].life = "removed"
    BY <2>1, <2>2 DEF LeftIsGone
  <2> QED
    BY <1>2, <2>1, <2>2, <2>3 DEF NothingRestored
<1>4. ASSUME Acts(v) PROVE computers'[found'[v].computer].life = "removed"
  <2>1. LockForRelease(v)
    BY <1>1, <1>4, ReleasedLast
  <2>2. /\ pc[v] = "release" /\ req'[v] = req[v] /\ found'[v] = found[v]
        /\ computers' = computers /\ Acquire(v)
    BY <2>1 DEF LockForRelease, vars, fleet
  <2>3. PICK c \in ComputerId : c = found[v].computer /\ computers[c].life # "unborn"
    BY <2>2, ClosedComputer DEF UnbornInv
  <2>4. Wanted(v) \subseteq locks'[v]
    BY <1>1, <2>2, Acquired
  <2>5. ~ComputerTable!Live(c)
    BY <2>2, <2>3, <2>4 DEF Wanted, ForUpdate, HasComputer
  <2>6. computers[c].life \in {"unborn", "live", "removed"}
    BY <1>1 DEF TxTypes, TypeOK, ComputerTable!TypeOK, ComputerTable!Row
  <2> QED
    BY <2>2, <2>3, <2>5, <2>6 DEF ComputerTable!Live
<1>5. ASSUME UNCHANGED handlers PROVE SameHandler(v)
  BY <1>5, HandlersStay
<1>6. ASSUME NEW w \in Worker, Acts(w), v # w PROVE SameHandler(v)
  BY <1>1, <1>6, OthersKeep
<1> QED
  BY <1>3, <1>4, <1>5, <1>6 DEF TxNext, TxStep, Acts, ManagerStep, RegistryStep, txVars

LEMMA GoneInvariance ==
  TxSpec /\ [][NothingRestored]_vars => [](\A w \in Worker : LeftIsGone(w))
<1>1. TxInit => \A w \in Worker : LeftIsGone(w)
  BY DEF TxInit, LeftIsGone
<1> QED
  BY <1>1, GoneStep, Invariance, UnbornInterleaved, PTL DEF TxSpec

\* Closing the session of a removed computer, and leaving that as it is, touches no
\* live one.
LEMMA LeavesOccupancy ==
  ASSUME TxInv, OccupancyAgrees, NEW w \in Worker, LeftIsGone(w), Leaves(w)
  PROVE  OccupancyAgrees'
<1>1. /\ Commits(w) /\ pc[w] = "commit" /\ ~HasComputer(w)
      /\ req[w].kind \in {"end", "cancel"} /\ UNCHANGED computers
  BY DEF Leaves, LeavesComputer
<1>2. PICK i \in DOMAIN sessions :
        i = req[w].session /\ computers[sessions[i].computer].life = "removed"
  BY <1>1, ClosedComputer DEF LeftIsGone
<1>3. TypeOK /\ sessions[i] \in Session
  BY SessionTyped DEF TxInv, TxTypes
<1>4. PICK t \in Session :
        t.computer = sessions[i].computer /\ sessions' = [sessions EXCEPT ![i] = t]
  <2>1. CASE req[w].kind = "end"
    <3> DEFINE due == Finalize(sessions[i], at[w])
               u == Closed(sessions[i], "ENDED", at[w], due,
                           Collected(due, req[w].receipt))
    <3>1. /\ req[w].receipt \in Receipts \cup {Absent} /\ at[w] \in Instants
          /\ EndSession(i, req[w].receipt, at[w])
      BY <1>1, <1>2, <2>1, EndCommitted
    <3>2. u \in Session /\ sessions' = [sessions EXCEPT ![i] = u]
      BY <1>3, <3>1, EndEffect
    <3>3. u.computer = sessions[i].computer
      BY <1>3, ClosedFields DEF KeepsIdentity
    <3> QED
      BY <3>2, <3>3
  <2>2. CASE req[w].kind = "cancel"
    <3> DEFINE u == Closed(sessions[i], "CANCELLED", at[w], 0, 0)
    <3>1. at[w] \in Instants /\ CancelSession(i, at[w])
      BY <1>1, <1>2, <2>2, CancelCommitted
    <3>2. u \in Session /\ sessions' = [sessions EXCEPT ![i] = u]
      BY <1>3, <3>1, CancelEffect
    <3>3. u.computer = sessions[i].computer
      BY <1>3, ClosedFields DEF KeepsIdentity
    <3> QED
      BY <3>2, <3>3
  <2> QED
    BY <1>1, <2>1, <2>2
<1>5. /\ DOMAIN sessions' = DOMAIN sessions /\ sessions'[i] = t
      /\ \A j \in DOMAIN sessions \ {i} : sessions'[j] = sessions[j]
  BY <1>3, <1>4, SessionRewrite
<1>6. ASSUME NEW c \in ComputerId, computers[c].life = "live"
      PROVE  ActiveOn(c)' = ActiveOn(c)
  <2>1. c # sessions[i].computer
    BY <1>2, <1>6
  <2> QED
    BY <1>4, <1>5, <2>1 DEF ActiveOn
<1> QED
  BY <1>1, <1>6 DEF OccupancyAgrees, ComputerTable!Live

\* A live computer is IN_USE exactly while a committed session on it is active,
\* in every interleaving whose managers' saves agree with the sessions when they
\* are written and bring back no removed computer ("drives it to IN_USE and
\* releases it back to AVAILABLE on end", computer.entity.ts).  The second
\* is needed because an ending neither finds nor locks a removed computer
\* (sessions.service.ts:349-352), which a save may restore, IN_USE, before the ending
\* commits: LeavesComputer.
THEOREM OccupancyWhenInterleaved ==
  TxSpec /\ [][SavesAgree]_vars /\ [][NothingRestored]_vars => []OccupancyAgrees
<1>1. TxInit => OccupancyAgrees
  BY DEF TxInit, Init, OccupancyAgrees, ActiveOn, ComputerTable!Live
<1>2. TypeOK /\ OccupancyAgrees /\ Opens => OccupancyAgrees'
  <2> SUFFICES ASSUME TypeOK, OccupancyAgrees, Opens,
                      NEW c \in ComputerId, computers'[c].life = "live"
               PROVE  computers'[c].data.status = "IN_USE" <=> ActiveOn(c)' # {}
    BY DEF OccupancyAgrees, ComputerTable!Live
  <2>1. CASE \E i \in DOMAIN sessions' \ DOMAIN sessions : sessions'[i].computer = c
    <3>1. computers'[c].data.status = "IN_USE"
      BY <2>1 DEF Opens
    <3>2. ActiveOn(c)' # {}
      BY <2>1 DEF Opens, Fresh, ActiveOn
    <3> QED
      BY <3>1, <3>2
  <2>2. CASE \A i \in DOMAIN sessions' \ DOMAIN sessions : sessions'[i].computer # c
    <3>1. computers'[c] = computers[c]
      BY <2>2 DEF Opens
    <3>2. ActiveOn(c)' = ActiveOn(c)
      BY <2>2 DEF Opens, ActiveOn
    <3> QED
      BY <3>1, <3>2 DEF OccupancyAgrees, ComputerTable!Live
  <2> QED
    BY <2>1, <2>2
<1>3. DeskInv => TypeOK /\ TxInv
  BY DEF DeskInv, TxInv, TxTypes
<1>4. TxInv /\ (\A w \in Worker : LeftIsGone(w)) /\ OccupancyAgrees
        /\ (\E w \in Worker : Leaves(w)) => OccupancyAgrees'
  BY LeavesOccupancy
<1> QED
  BY <1>1, <1>2, <1>3, <1>4, DeskInvariance, TxStepIs, UnbornInterleaved,
     OneActiveWhenInterleaved, GoneInvariance, OccupancyStep, PTL DEF TxSpec

-----------------------------------------------------------------------------
(* Refinement *)

\* A step that takes nothing off offer: rooms in use keep their price and stay
\* open, and customers who may play still may.
NothingWithdrawn ==
  /\ \A k \in CustomerId : MayPlay(k) => MayPlay(k)'
  /\ \A r \in RoomId : RoomTable!Live(r) /\ rooms[r].data.isActive =>
       RoomTable!Live(r)' /\ rooms'[r].data = rooms[r].data

\* The sessions of a start are then those that the rows still say.
Seated(w, c, s) ==
  LET r == req[w]
  IN  /\ CanSeat(c)
      /\ CanPlan(r.type, RateOf(c), at[w], r.term)
      /\ s = NewSession(c, r.type, r.customer, 0, r.term, at[w])

StillOffered(w) ==
  req[w].kind = "start" =>
    /\ pc[w] \in {"seat", "insert", "commit"} => MayPlay(req[w].customer)
    /\ \A k \in DOMAIN seats[w] : Seated(w, req[w].batch[k], seats[w][k])
    /\ pc[w] = "insert" => Seated(w, NextComputer(w), found[w])

LEMMA SeatedKept ==
  ASSUME TxTypes, NEW v \in Worker, NothingWithdrawn, req'[v] = req[v], at'[v] = at[v],
         NEW c \in ComputerId, computers'[c] = computers[c], NEW s, Seated(v, c, s)
  PROVE  Seated(v, c, s)'
<1>1. PICK r \in RoomId : r = computers[c].data.room
  BY DEF TxTypes, TypeOK, ComputerTable!TypeOK, ComputerTable!Row, ComputerData
<1>2. RoomTable!Live(r) /\ rooms[r].data.isActive
  BY <1>1 DEF Seated, CanSeat
<1>3. RoomTable!Live(r)' /\ rooms'[r].data = rooms[r].data
  BY <1>2 DEF NothingWithdrawn
<1>4. RateOf(c)' = RateOf(c)
  BY <1>1, <1>3 DEF RateOf
<1>5. CanSeat(c)'
  BY <1>1, <1>2, <1>3 DEF Seated, CanSeat, ComputerTable!Live, RoomTable!Live
<1> QED
  BY <1>4, <1>5 DEF Seated, NewSession

LEMMA MayPlayKept ==
  ASSUME NothingWithdrawn, NEW k \in CustomerId \cup {NoCustomer}, MayPlay(k)
  PROVE  MayPlay(k)'
BY DEF NothingWithdrawn, MayPlay

LEMMA StillOfferedKept ==
  ASSUME TxTypes, NEW v \in Worker, SameHandler(v), Respects(v), StartRead(v),
         NothingWithdrawn, StillOffered(v)
  PROVE  StillOffered(v)'
<1> SUFFICES ASSUME req[v].kind = "start" PROVE StillOffered(v)'
  BY DEF StillOffered, SameHandler
<1>1. req[v].batch \in Batches /\ req[v].customer \in CustomerId \cup {NoCustomer}
  BY WorkerFields, RequestFields
<1>2. ASSUME NEW k \in DOMAIN seats[v]
      PROVE  Seated(v, req[v].batch[k], seats[v][k])'
  <2>1. k \in DOMAIN req[v].batch /\ Updates(v, "computer", req[v].batch[k])
    BY DEF StartRead
  <2>2. PICK c \in ComputerId : c = req[v].batch[k]
    BY <1>1, <2>1, BatchType
  <2>3. PICK s : s = seats[v][k]
    OBVIOUS
  <2>4. computers'[c] = computers[c]
    BY <2>1, <2>2 DEF Respects
  <2>5. Seated(v, c, s)
    BY <2>2, <2>3 DEF StillOffered
  <2>6. Seated(v, c, s)'
    BY <2>4, <2>5, SeatedKept DEF SameHandler
  <2> QED
    BY <2>2, <2>3, <2>6 DEF SameHandler, Seated
<1>3. ASSUME pc[v] = "insert" PROVE Seated(v, NextComputer(v), found[v])'
  <2>1. PICK c \in ComputerId : c = NextComputer(v)
    BY <1>3, NextComputerIs
  <2>2. PICK s : s = found[v]
    OBVIOUS
  <2>3. computers'[c] = computers[c]
    BY <1>3, <2>1 DEF StartRead, Respects
  <2>4. Seated(v, c, s)
    BY <1>3, <2>1, <2>2 DEF StillOffered
  <2>5. Seated(v, c, s)'
    BY <2>3, <2>4, SeatedKept DEF SameHandler
  <2>6. c = NextComputer(v)' /\ s = found'[v]
    BY <2>1, <2>2 DEF SameHandler, NextComputer
  <2> QED
    BY <2>5, <2>6 DEF Seated
<1>4. ASSUME pc[v] \in {"seat", "insert", "commit"} PROVE MayPlay(req[v].customer)'
  <2>1. PICK k \in CustomerId \cup {NoCustomer} : k = req[v].customer
    BY <1>1
  <2>2. MayPlay(k)'
    BY <1>4, <2>1, MayPlayKept DEF StillOffered
  <2> QED
    BY <2>1, <2>2 DEF SameHandler, MayPlay
<1> QED
  BY <1>2, <1>3, <1>4 DEF StillOffered, SameHandler

LEMMA FinishStillOffered ==
  ASSUME TxTypes, NEW w \in Worker, Finish(w)
  PROVE  StillOffered(w)'
<1>1. req'[w].kind = "none"
  BY DEF TxTypes, Finish, NoRequest
<1> QED
  BY <1>1 DEF StillOffered

\* The rows, the request and its instant are as they were.
LEMMA SeatedStays ==
  ASSUME UNCHANGED vars, NEW w \in Worker, req'[w] = req[w], at'[w] = at[w],
         NEW c, NEW s
  PROVE  Seated(w, c, s)' <=> Seated(w, c, s)
BY DEF Seated, CanSeat, RateOf, NewSession, ComputerTable!Live, RoomTable!Live,
       vars, fleet, prices

LEMMA MayPlayStays ==
  ASSUME UNCHANGED vars, NEW k
  PROVE  MayPlay(k)' <=> MayPlay(k)
BY DEF MayPlay, CustomerTable!Live, vars, people

LEMMA ResolveStillOffered ==
  ASSUME TxTypes, NEW w \in Worker, StartRead(w), ResolveCustomer(w)
  PROVE  StillOffered(w)'
<1>1. CASE Abort(w)
  BY <1>1, FinishStillOffered DEF Abort
<1>2. CASE ~Abort(w)
  <2>1. /\ pc[w] = "customer" /\ pc'[w] = "seat" /\ MayPlay(req[w].customer)
        /\ req'[w] = req[w] /\ seats'[w] = seats[w]
        /\ UNCHANGED vars
    BY <1>2 DEF ResolveCustomer, Goto, TxTypes
  <2>2. seats[w] = <<>>
    BY <2>1, WorkerFields, StepFields DEF StartRead
  <2>3. MayPlay(req[w].customer)'
    BY <2>1 DEF MayPlay, CustomerTable!Live, vars, people
  <2> QED
    BY <2>1, <2>2, <2>3 DEF StillOffered
<1> QED
  BY <1>1, <1>2

LEMMA SeatStillOffered ==
  ASSUME TxTypes, NEW w \in Worker, StartRead(w), StillOffered(w), Seat(w)
  PROVE  StillOffered(w)'
<1>1. CASE Abort(w)
  BY <1>1, FinishStillOffered DEF Abort
<1>2. CASE ~Abort(w)
  <2>1. PICK c : c = NextComputer(w)
    OBVIOUS
  <2>2. PICK s : s = NewSession(c, req[w].type, req[w].customer, 0, req[w].term, at[w])
    OBVIOUS
  <2>3. /\ pc[w] = "seat" /\ pc'[w] = "insert" /\ found'[w] = s /\ Seatable(w)
        /\ req'[w] = req[w] /\ at'[w] = at[w] /\ seats'[w] = seats[w]
        /\ UNCHANGED vars
    BY <1>2, <2>1, <2>2 DEF Seat, Goto, TxTypes
  <2>4. Seated(w, c, s)
    BY <2>1, <2>2, <2>3 DEF Seated, Seatable
  <2>5. c = NextComputer(w)'
    BY <2>1, <2>3 DEF NextComputer
  <2>6. Seated(w, c, s)'
    BY <2>3, <2>4, SeatedStays
  <2>7. Seated(w, NextComputer(w), found[w])'
    BY <2>3, <2>5, <2>6 DEF Seated
  <2>8. req[w].kind = "start"
    BY <2>3, WorkerFields, StepFields
  <2>9. MayPlay(req[w].customer)'
    BY <2>3, <2>8 DEF StillOffered, MayPlay, CustomerTable!Live, vars, people
  <2>10. ASSUME NEW k \in DOMAIN seats[w]
         PROVE  Seated(w, req[w].batch[k], seats[w][k])'
    <3>1. PICK d, t : d = req[w].batch[k] /\ t = seats[w][k]
      OBVIOUS
    <3>2. Seated(w, d, t)'
      BY <2>3, <2>8, <3>1, SeatedStays DEF StillOffered
    <3> QED
      BY <2>3, <3>1, <3>2 DEF Seated
  <2> QED
    BY <2>3, <2>7, <2>9, <2>10 DEF StillOffered
<1> QED
  BY <1>1, <1>2

LEMMA InsertStillOffered ==
  ASSUME TxTypes, NEW w \in Worker, StartRead(w), StillOffered(w), InsertSession(w)
  PROVE  StillOffered(w)'
<1>1. CASE Abort(w)
  BY <1>1, FinishStillOffered DEF Abort
<1>2. CASE ~Abort(w)
  <2>1. /\ pc[w] = "insert" /\ pc'[w] \in {"seat", "commit"}
        /\ seats'[w] = Append(seats[w], found[w])
        /\ req'[w] = req[w] /\ at'[w] = at[w]
        /\ UNCHANGED vars
    BY <1>2 DEF InsertSession, Goto, TxTypes
  <2>2. /\ req[w].kind = "start" /\ seats[w] \in Seq(Session)
        /\ NextComputer(w) = req[w].batch[Len(seats[w]) + 1]
    BY <2>1, NextComputerIs
  <2>3. found[w] \in Session
    BY <2>1, <2>2 DEF StartRead
  <2>4. \A k \in DOMAIN seats'[w] :
          \/ k \in DOMAIN seats[w] /\ seats'[w][k] = seats[w][k]
          \/ k = Len(seats[w]) + 1 /\ seats'[w][k] = found[w]
    BY <2>1, <2>2, <2>3
  <2>5. ASSUME NEW k \in DOMAIN seats'[w]
        PROVE  Seated(w, req[w].batch[k], seats[w][k])'
    <3>1. PICK d, t : d = req[w].batch[k] /\ t = seats'[w][k]
      OBVIOUS
    <3>2. Seated(w, d, t)
      BY <2>1, <2>2, <2>4, <3>1 DEF StillOffered
    <3>3. Seated(w, d, t)'
      BY <2>1, <3>2, SeatedStays
    <3> QED
      BY <2>1, <3>1, <3>3 DEF Seated
  <2>6. MayPlay(req[w].customer)'
    BY <2>1, <2>2 DEF StillOffered, MayPlay, CustomerTable!Live, vars, people
  <2> QED
    BY <2>1, <2>5, <2>6 DEF StillOffered
<1> QED
  BY <1>1, <1>2

LEMMA OwnStillOffered ==
  ASSUME TxTypes, NEW w \in Worker, StartRead(w), StillOffered(w), Acts(w)
  PROVE  StillOffered(w)'
<1>1. ASSUME NEW r \in Requests, Arrive(w, r) PROVE StillOffered(w)'
  <2>1. pc'[w] = "connect" /\ seats'[w] = <<>>
    BY <1>1 DEF Arrive, Goto, TxTypes, Cleared
  <2> QED
    BY <2>1 DEF StillOffered
<1>2. ASSUME Connect(w) PROVE StillOffered(w)'
  <2>1. req'[w] = req[w] /\ pc[w] = "connect" /\ seats'[w] = seats[w]
        /\ pc'[w] = FirstStep(req[w].kind)
    BY <1>2 DEF Connect, Goto, TxTypes
  <2>2. req[w].kind = "start" => pc'[w] = "customer" /\ seats[w] = <<>>
    BY <2>1 DEF FirstStep, StartRead
  <2> QED
    BY <2>1, <2>2 DEF StillOffered
<1>3. ASSUME ~Abort(w),
             \/ LockActive(w) \/ SaveSession(w) \/ LockForRelease(w) \/ LockPayer(w)
             \/ CheckBalance(w) \/ InsertEntry(w)
      PROVE  StillOffered(w)'
  <2>1. req'[w] = req[w]
    BY <1>3 DEF LockActive, SaveSession, LockForRelease, LockPayer, CheckBalance, InsertEntry
  <2>2. req[w].kind # "start"
    BY <1>3, WorkerFields, StepFields
    DEF LockActive, SaveSession, LockForRelease, LockPayer, CheckBalance, InsertEntry
  <2> QED
    BY <2>1, <2>2 DEF StillOffered
<1> QED
  BY <1>1, <1>2, <1>3, ResolveStillOffered, SeatStillOffered, InsertStillOffered,
     FinishStillOffered
  DEF Acts, Advance, Commit, Abort, BreakDeadlock, ConnectTimeout, Crash

LEMMA StillOfferedStep ==
  TxInv /\ (\A w \in Worker : StillOffered(w)) /\ [TxNext]_txVars
        /\ [NothingWithdrawn]_txVars
    => (\A w \in Worker : StillOffered(w))'
<1> SUFFICES ASSUME TxInv, \A w \in Worker : StillOffered(w), [TxNext]_txVars,
                    [NothingWithdrawn]_txVars, NEW v \in Worker
             PROVE  StillOffered(v)'
  OBVIOUS
<1>1. TxTypes /\ \A w \in Worker : StartRead(w)
  BY DEF TxInv, Reads
<1>2. NothingWithdrawn
  <2>1. UNCHANGED txVars => NothingWithdrawn
    BY DEF txVars, vars, people, prices, NothingWithdrawn, MayPlay, RoomTable!Live,
           CustomerTable!Live
  <2> QED
    BY <2>1
<1>3. ASSUME UNCHANGED handlers,
             ManagerStep \/ RegistryStep \/ Tick \/ UNCHANGED vars
      PROVE  StillOffered(v)'
  BY <1>1, <1>2, <1>3, ManagerRespects, RegistryRespects, TickRespects, QuietRespects,
     HandlersStay, StillOfferedKept
<1>4. ASSUME NEW w \in Worker, Acts(w), v # w PROVE StillOffered(v)'
  BY <1>1, <1>2, <1>4, OthersKeep, OthersRespect, StillOfferedKept
<1>5. ASSUME Acts(v) PROVE StillOffered(v)'
  BY <1>1, <1>5, OwnStillOffered
<1> QED
  BY <1>3, <1>4, <1>5 DEF TxNext, TxStep, Acts, ManagerStep, RegistryStep, txVars

LEMMA NewGroup ==
  ASSUME NEW c, NEW type, NEW customer, NEW term, NEW startedAt, NEW group
  PROVE  [NewSession(c, type, customer, 0, term, startedAt) EXCEPT !.group = group]
           = NewSession(c, type, customer, group, term, startedAt)
BY DEF NewSession

LEMMA StartIsNext ==
  ASSUME NEW w \in Worker, Commits(w), req[w].kind = "start",
         SeatsFresh(w), StillOffered(w)
  PROVE  Next
<1>1. /\ req[w].batch \in Batches /\ req[w].type \in SessionType
      /\ req[w].customer \in CustomerId \cup {NoCustomer}
      /\ req[w].term \in Terms \cup {Absent} /\ Entered(req[w].type, req[w].term)
      /\ at[w] \in Instants /\ at[w] <= now
  BY WorkerFields, RequestFields DEF Commits, TxTypes
<1>2. /\ DOMAIN seats[w] = DOMAIN req[w].batch
      /\ Len(seats[w]) = Len(req[w].batch)
      /\ \A k \in DOMAIN seats[w] : seats[w][k].computer = req[w].batch[k]
  <2>1. seats[w] \in Seq(Session) /\ req[w].batch \in Seq(ComputerId)
    BY <1>1, BatchType DEF Commits, TxTypes
  <2>2. Len(seats[w]) = Len(req[w].batch)
    BY DEF Commits, Commit, Reads, StartRead
  <2>3. \A k \in DOMAIN seats[w] : seats[w][k].computer = req[w].batch[k]
    BY DEF Commits, Commit, Reads, StartRead
  <2> QED
    BY <2>1, <2>2, <2>3
<1>3. \A k \in DOMAIN req[w].batch :
        /\ CanSeat(req[w].batch[k])
        /\ IndexAllows(req[w].batch[k])
        /\ CanPlan(req[w].type, RateOf(req[w].batch[k]), at[w], req[w].term)
  BY <1>2 DEF StillOffered, Seated, SeatsFresh
<1>4. \A k \in DOMAIN req[w].batch :
        [seats[w][k] EXCEPT !.group = GroupOf(req[w].batch)] =
          NewSession(req[w].batch[k], req[w].type, req[w].customer,
                     GroupOf(req[w].batch), req[w].term, at[w])
  <2>1. \A k \in DOMAIN req[w].batch :
          seats[w][k] = NewSession(req[w].batch[k], req[w].type, req[w].customer, 0,
                                   req[w].term, at[w])
    BY <1>2 DEF StillOffered, Seated
  <2> QED
    BY <2>1, NewGroup
<1>5. /\ CommitStart(w) /\ MayPlay(req[w].customer)
      /\ UNCHANGED <<now, computerUpdates, prices, people>>
  BY DEF Commits, Commit, StillOffered
<1>6. sessions' = sessions \o [k \in DOMAIN req[w].batch |->
         NewSession(req[w].batch[k], req[w].type, req[w].customer,
                    GroupOf(req[w].batch), req[w].term, at[w])]
  BY <1>2, <1>4, <1>5 DEF CommitStart
<1>7. Occupy({req[w].batch[k] : k \in DOMAIN req[w].batch})
  <2>1. {seats[w][k].computer : k \in DOMAIN seats[w]}
          = {req[w].batch[k] : k \in DOMAIN req[w].batch}
    BY <1>2
  <2> QED
    BY <1>5, <2>1 DEF CommitStart
<1>8. Start(req[w].batch, req[w].type, req[w].customer, req[w].term, at[w])
  BY <1>1, <1>2, <1>3, <1>5, <1>6, <1>7 DEF Start, CommitStart
<1>9. SessionRequest
  BY <1>1, <1>8 DEF SessionRequest
<1> QED
  BY <1>9 DEF Next

\* What a step is, as long as nothing was taken off offer.
LEMMA OfferedStepIs ==
  DeskInv /\ (\A w \in Worker : StillOffered(w)) /\ [TxNext]_txVars
    => UNCHANGED vars \/ Next \/ \E w \in Worker : Leaves(w)
<1> SUFFICES ASSUME DeskInv, \A w \in Worker : StillOffered(w), [TxNext]_txVars
             PROVE  UNCHANGED vars \/ Next \/ \E w \in Worker : Leaves(w)
  OBVIOUS
<1>1. ASSUME NEW w \in Worker, Acts(w) PROVE Commit(w) \/ UNCHANGED vars
  BY <1>1 DEF Acts, Advance, Arrive, Connect, ResolveCustomer, Seat, InsertSession,
              LockActive, SaveSession, LockForRelease, LockPayer, CheckBalance, InsertEntry,
              BreakDeadlock, ConnectTimeout, Crash, Abort
<1>2. ASSUME NEW w \in Worker, Commit(w) PROVE Next \/ Leaves(w)
  <2>1. Commits(w) /\ SeatsFresh(w) /\ StillOffered(w)
    BY <1>2 DEF DeskInv, TxInv, Commits
  <2> QED
    BY <2>1, CommittedIsNext, StartIsNext DEF Leaves
<1>3. ManagerStep \/ RegistryStep \/ Tick => Next
  BY DEF ManagerStep, RegistryStep, Next
<1>4. UNCHANGED txVars => UNCHANGED vars
  BY DEF txVars
<1> QED
  BY <1>1, <1>2, <1>3, <1>4 DEF TxNext, TxStep, Acts

LEMMA OffersInvariance ==
  TxSpec /\ [][NothingWithdrawn]_txVars => [](\A w \in Worker : StillOffered(w))
<1>1. TxInit => \A w \in Worker : StillOffered(w)
  BY DEF TxInit, StillOffered, NoRequest
<1> QED
  BY <1>1, Invariance, StillOfferedStep, PTL DEF TxSpec

\* Row locks, waits, the pool, deadlocks and crashes add no behaviour: while no
\* room in use is repriced or closed and no customer is barred, what the
\* transactions commit is what SessionDesk says, one request at a time, but that an
\* ending or cancellation leaves a computer that it found removed
\* (sessions.service.ts and debt.service.ts, manager.transaction).
THEOREM TransactionsImplementDesk ==
  TxSpec /\ [][NothingWithdrawn]_txVars => ImplementsDesk
<1>1. TxInit => Init
  BY DEF TxInit
<1>2. \A w \in Worker : Leaves(w) => LeavesComputer(w)
  BY DEF Leaves
<1>3. DeskInv /\ (\A w \in Worker : StillOffered(w)) /\ [TxNext]_txVars
        => UNCHANGED vars \/ Next \/ \E w \in Worker : LeavesComputer(w)
  BY <1>2, OfferedStepIs
<1> QED
  BY <1>1, <1>3, OffersInvariance, DeskInvariance, PTL DEF TxSpec, ImplementsDesk

\* If no removed computer is brought back either, leaving it is what SessionDesk does
\* with a removed computer, and every behaviour is one of SessionDesk!Spec.
THEOREM TransactionsImplementSpec ==
  TxSpec /\ [][NothingWithdrawn]_txVars /\ [][NothingRestored]_vars => Spec
<1>1. TxInit => Init
  BY DEF TxInit
<1>2. ASSUME TxInv, NEW w \in Worker, LeftIsGone(w), Leaves(w) PROVE Next
  <2>1. /\ Commits(w) /\ pc[w] = "commit" /\ ~HasComputer(w)
        /\ req[w].kind \in {"end", "cancel"} /\ UNCHANGED computers
    BY <1>2 DEF Leaves, LeavesComputer
  <2>2. /\ req[w].session \in DOMAIN sessions
        /\ computers[sessions[req[w].session].computer].life = "removed"
    BY <1>2, <2>1, ClosedComputer DEF LeftIsGone
  <2>3. ReleaseComputer(sessions[req[w].session].computer)
    BY <2>1, <2>2 DEF ReleaseComputer, ComputerTable!Live
  <2>4. CASE req[w].kind = "end"
    <3>1. End(req[w].session, req[w].receipt, at[w])
      BY <2>1, <2>3, <2>4, EndCommitted DEF End
    <3> QED
      BY <2>1, <2>4, <3>1, EndCommitted DEF SessionRequest, Next
  <2>5. CASE req[w].kind = "cancel"
    <3>1. Cancel(req[w].session, at[w])
      BY <2>1, <2>3, <2>5, CancelCommitted DEF Cancel
    <3> QED
      BY <2>1, <2>5, <3>1, CancelCommitted DEF SessionRequest, Next
  <2> QED
    BY <2>1, <2>4, <2>5
<1>3. DeskInv => TxInv
  BY DEF DeskInv
<1>4. DeskInv /\ (\A w \in Worker : StillOffered(w) /\ LeftIsGone(w))
        /\ [TxNext]_txVars => [Next]_vars
  BY <1>2, <1>3, OfferedStepIs
<1>5. (\A w \in Worker : StillOffered(w)) /\ (\A w \in Worker : LeftIsGone(w))
        => \A w \in Worker : StillOffered(w) /\ LeftIsGone(w)
  OBVIOUS
<1> QED
  BY <1>1, <1>4, <1>5, OffersInvariance, GoneInvariance, DeskInvariance, PTL
  DEF TxSpec, Spec

-----------------------------------------------------------------------------
(* Deadlock *)

\* A request that waits for its first row has none, computers are locked by a
\* start or just before a commit, and a customer FOR UPDATE by a payment only.
LocksOf(w) ==
  /\ pc[w] \in {"idle", "connect", "customer", "session", "payer"} => locks[w] = {}
  /\ req[w].kind = "correct" /\ pc[w] = "entry" => locks[w] = {}
  /\ pc[w] = "seat" /\ seats[w] = <<>> => locks[w] = {}
  /\ \A l \in locks[w] :
       /\ l.row[1] = "computer" => req[w].kind = "start" \/ pc[w] = "commit"
       /\ l.mode = "update" /\ l.row[1] = "customer" => req[w].kind = "pay"

LEMMA LocksKept ==
  ASSUME NEW v \in Worker, SameHandler(v), LocksOf(v)
  PROVE  LocksOf(v)'
BY DEF LocksOf, SameHandler

LEMMA FinishLocks ==
  ASSUME TxTypes, NEW w \in Worker, Finish(w)
  PROVE  LocksOf(w)'
<1>1. locks'[w] = {}
  BY DEF TxTypes, Finish
<1> QED
  BY <1>1 DEF LocksOf

\* The rows that a statement may add to its transaction's locks.
LEMMA WantedRows ==
  ASSUME TxTypes, NEW w \in Worker, NEW l \in Wanted(w)
  PROVE  /\ l.row[1] = "computer" => pc[w] \in {"seat", "release"}
         /\ l.mode = "update" /\ l.row[1] = "customer" => pc[w] = "payer"
BY DEF Wanted, KeyShare, ForUpdate, Lock, Row

LEMMA WalkLocks ==
  ASSUME TxTypes, NEW w \in Worker, LocksOf(w), Acquire(w), req'[w] = req[w],
         pc[w] # "idle",
         \/ pc[w] = "seat" /\ pc'[w] = "insert"
         \/ pc[w] = "insert" /\ pc'[w] \in {"seat", "commit"} /\ seats'[w] # <<>>
         \/ pc[w] = "session" /\ pc'[w] = "save"
         \/ pc[w] = "release" /\ pc'[w] = "commit"
         \/ pc[w] = "payer" /\ pc'[w] = "balance"
         \/ pc[w] = "entry" /\ pc'[w] \in {"release", "commit"}
  PROVE  LocksOf(w)'
<1>1. locks'[w] = locks[w] \cup Wanted(w)
  BY Acquired
<1>2. /\ pc[w] = "seat" => req[w].kind = "start"
      /\ pc[w] = "payer" => req[w].kind = "pay"
  BY WorkerFields, StepFields
<1>3. \A l \in locks'[w] :
        /\ l.row[1] = "computer" => req[w].kind = "start" \/ pc'[w] = "commit"
        /\ l.mode = "update" /\ l.row[1] = "customer" => req[w].kind = "pay"
  <2>1. ASSUME NEW l \in locks[w]
        PROVE  /\ l.row[1] = "computer" => req[w].kind = "start" \/ pc'[w] = "commit"
               /\ l.mode = "update" /\ l.row[1] = "customer" => req[w].kind = "pay"
    <3>1. pc[w] # "commit"
      OBVIOUS
    <3> QED
      BY <3>1 DEF LocksOf
  <2>2. ASSUME NEW l \in Wanted(w)
        PROVE  /\ l.row[1] = "computer" => req[w].kind = "start" \/ pc'[w] = "commit"
               /\ l.mode = "update" /\ l.row[1] = "customer" => req[w].kind = "pay"
    BY <1>2, WantedRows
  <2> QED
    BY <1>1, <2>1, <2>2
<1> QED
  BY <1>3 DEF LocksOf

LEMMA OwnLocks ==
  ASSUME TxTypes, NEW w \in Worker, StartRead(w), LocksOf(w), Acts(w)
  PROVE  LocksOf(w)'
<1>1. ASSUME NEW r \in Requests, Arrive(w, r) PROVE LocksOf(w)'
  <2>1. locks'[w] = {}
    BY <1>1 DEF Arrive, TxTypes, Cleared
  <2> QED
    BY <2>1 DEF LocksOf
<1>2. ASSUME Connect(w) \/ (ResolveCustomer(w) /\ ~Abort(w)) PROVE LocksOf(w)'
  <2>1. locks'[w] = {}
    BY <1>2 DEF Connect, ResolveCustomer, LocksOf
  <2> QED
    BY <2>1 DEF LocksOf
<1>3. ASSUME Seat(w), ~Abort(w) PROVE LocksOf(w)'
  BY <1>3, WalkLocks DEF Seat, Goto, TxTypes
<1>4. ASSUME InsertSession(w), ~Abort(w) PROVE LocksOf(w)'
  <2>1. /\ pc[w] = "insert" /\ pc'[w] \in {"seat", "commit"} /\ Acquire(w)
        /\ seats'[w] = Append(seats[w], found[w])
        /\ req'[w] = req[w]
    BY <1>4 DEF InsertSession, Goto, TxTypes
  <2>2. seats[w] \in Seq(Session) /\ found[w] \in Session
    BY <2>1, NextComputerIs DEF StartRead
  <2>3. seats'[w] # <<>>
    BY <2>1, <2>2
  <2> QED
    BY <2>1, <2>3, WalkLocks
<1>5. ASSUME LockActive(w), ~Abort(w) PROVE LocksOf(w)'
  BY <1>5, WalkLocks DEF LockActive, Goto, TxTypes
<1>10. ASSUME SaveSession(w) PROVE LocksOf(w)'
  <2>1. /\ pc[w] = "save" /\ pc'[w] = AfterSave(w, found[w])
        /\ req'[w] = req[w] /\ locks'[w] = locks[w]
    BY <1>10 DEF SaveSession, Goto, TxTypes
  <2>2. req[w].kind \in {"extend", "end", "cancel"}
    BY <2>1, WorkerFields, StepFields
  <2>3. pc'[w] \in {"entry", "release", "commit"}
    BY <2>1, <2>2 DEF AfterSave
  <2> QED
    BY <2>1, <2>2, <2>3 DEF LocksOf
<1>6. ASSUME LockForRelease(w) PROVE LocksOf(w)'
  BY <1>6, WalkLocks DEF LockForRelease, Goto, TxTypes
<1>7. ASSUME LockPayer(w), ~Abort(w) PROVE LocksOf(w)'
  BY <1>7, WalkLocks DEF LockPayer, Goto, TxTypes
<1>8. ASSUME CheckBalance(w), ~Abort(w) PROVE LocksOf(w)'
  <2>1. /\ pc[w] = "balance" /\ pc'[w] = "entry"
        /\ req'[w] = req[w] /\ locks'[w] = locks[w]
    BY <1>8 DEF CheckBalance, Goto, TxTypes
  <2>2. req[w].kind = "pay"
    BY <2>1, WorkerFields, StepFields
  <2> QED
    BY <2>1, <2>2 DEF LocksOf
<1>9. ASSUME InsertEntry(w), ~Abort(w) PROVE LocksOf(w)'
  BY <1>9, WalkLocks DEF InsertEntry, Goto, TxTypes
<1> QED
  BY <1>1, <1>2, <1>3, <1>4, <1>5, <1>6, <1>7, <1>8, <1>9, <1>10, FinishLocks
  DEF Acts, Advance, Commit, Abort, BreakDeadlock, ConnectTimeout, Crash

LEMMA LocksStep ==
  TxInv /\ (\A w \in Worker : LocksOf(w)) /\ [TxNext]_txVars
    => (\A w \in Worker : LocksOf(w))'
<1> SUFFICES ASSUME TxInv, \A w \in Worker : LocksOf(w), [TxNext]_txVars,
                    NEW v \in Worker
             PROVE  LocksOf(v)'
  OBVIOUS
<1>1. TxTypes /\ \A w \in Worker : StartRead(w)
  BY DEF TxInv, Reads
<1>2. ASSUME UNCHANGED handlers PROVE LocksOf(v)'
  BY <1>2, HandlersStay, LocksKept
<1>3. ASSUME NEW w \in Worker, Acts(w), v # w PROVE LocksOf(v)'
  BY <1>1, <1>3, OthersKeep, LocksKept
<1>4. ASSUME Acts(v) PROVE LocksOf(v)'
  BY <1>1, <1>4, OwnLocks
<1> QED
  BY <1>2, <1>3, <1>4 DEF TxNext, TxStep, Acts, ManagerStep, RegistryStep, txVars

\* Who holds a lock ranks above who waits for it, except between the starts of
\* groups.
Rank(w) ==
  IF locks[w] = {} THEN 0
  ELSE IF req[w].kind = "pay" THEN 4
  ELSE IF pc[w] \in {"entry", "release"} THEN 1
  ELSE IF pc[w] = "seat" THEN 2
  ELSE 3

Above(w) == {v \in Worker : Rank(w) < Rank(v) \/ (Rank(w) = 2 /\ Rank(v) = 2)}

LEMMA BlockersAbove ==
  ASSUME TxInv, \A w \in Worker : LocksOf(w), NEW w \in Worker,
         NEW v \in Worker \ {w}, LockBlocks(w, v)
  PROVE  v \in Above(w)
<1>1. TxTypes /\ NoConflicts /\ PayerRead(w) /\ LocksOf(w) /\ LocksOf(v) /\ v \in Worker
  BY DEF TxInv, Reads
<1>2. PICK l \in Wanted(w), m \in locks[v] : Conflict(l, m) /\ v # w
  BY DEF LockBlocks
<1>3. locks[v] # {} /\ Rank(v) \in {1, 2, 3, 4}
  BY <1>2 DEF Rank
<1>4. /\ req[w].kind \in {"none", "start", "extend", "end", "cancel", "pay", "correct"}
      /\ pc[w] \in StepsOf(req[w].kind)
      /\ pc[v] \in StepsOf(req[v].kind)
      /\ req[v].kind \in {"none", "start", "extend", "end", "cancel", "pay", "correct"}
  BY <1>1, WorkerFields
<1>5. SUFFICES ASSUME locks[w] # {}
               PROVE  Rank(w) < Rank(v) \/ (Rank(w) = 2 /\ Rank(v) = 2)
  <2>1. locks[w] = {} => Rank(w) = 0
    BY DEF Rank
  <2> QED
    BY <1>1, <1>3, <1>5, <2>1 DEF Above
<1>6. ASSUME l.row[1] = "computer" PROVE Rank(v) \in {2, 3, 4}
  <2>1. m.row[1] = "computer"
    BY <1>2, <1>6 DEF Conflict
  <2>2. pc[v] \notin {"entry", "release"}
    <3>1. req[v].kind = "start" \/ pc[v] = "commit"
      BY <1>1, <1>2, <2>1 DEF LocksOf
    <3>2. pc[v] = "entry" => req[v].kind # "start"
      BY <1>4, StepFields
    <3>3. pc[v] = "release" => req[v].kind # "start"
      BY <1>4, StepFields
    <3> QED
      BY <3>1, <3>2, <3>3
  <2> QED
    BY <1>3, <2>2 DEF Rank
<1>7. ASSUME l.row[1] = "customer", l.mode = "keyShare" PROVE Rank(v) = 4
  <2>1. m.row[1] = "customer" /\ m.mode = "update"
    BY <1>2, <1>7 DEF Conflict
  <2> QED
    BY <1>1, <1>2, <1>3, <2>1 DEF LocksOf, Rank
<1>8. CASE pc[w] = "seat"
  <2>1. l.row[1] = "computer"
    BY <1>8 DEF Wanted, ForUpdate, Lock, Row
  <2>2. Rank(w) = 2
    <3>1. req[w].kind = "start"
      BY <1>4, <1>8, StepFields
    <3> QED
      BY <1>5, <1>8, <3>1 DEF Rank
  <2> QED
    BY <1>6, <2>1, <2>2
<1>9. CASE pc[w] = "insert"
  <2>1. l.row[1] = "customer" /\ l.mode = "keyShare"
    BY <1>9 DEF Wanted, KeyShare, Lock, Row
  <2>2. Rank(w) = 3
    <3>1. req[w].kind = "start"
      BY <1>4, <1>9, StepFields
    <3> QED
      BY <1>5, <1>9, <3>1 DEF Rank
  <2> QED
    BY <1>7, <2>1, <2>2
<1>10. CASE pc[w] = "entry"
  <2>1. l = Lock("keyShare", Row("customer", Debtor(w)))
    BY <1>10 DEF Wanted, KeyShare
  <2>2. l.row[1] = "customer" /\ l.mode = "keyShare"
    BY <2>1 DEF Lock, Row
  <2>3. CASE req[w].kind = "pay"
    <3>1. Lock("update", l.row) \in locks[w]
      BY <1>1, <1>10, <2>1, <2>3 DEF PayerRead, Updates, Debtor, Lock
    <3>2. ~Conflict(Lock("update", l.row), m)
      BY <1>1, <1>2, <3>1 DEF NoConflicts
    <3> QED
      BY <1>2, <3>2 DEF Conflict, Lock
  <2>4. CASE req[w].kind # "pay"
    <3>1. Rank(w) = 1
      BY <1>5, <1>10, <2>4 DEF Rank
    <3> QED
      BY <1>7, <2>2, <3>1
  <2> QED
    BY <2>3, <2>4
<1>11. CASE pc[w] = "release"
  <2>1. l.row[1] = "computer"
    BY <1>11 DEF Wanted, ForUpdate, Lock, Row
  <2>2. Rank(w) = 1
    <3>1. req[w].kind # "pay"
      BY <1>4, <1>11, StepFields
    <3> QED
      BY <1>5, <1>11, <3>1 DEF Rank
  <2> QED
    BY <1>6, <2>1, <2>2
<1>12. pc[w] \in {"seat", "insert", "entry", "release"}
  <2>1. pc[w] \in {"seat", "insert", "session", "entry", "release", "payer"}
    BY <1>2 DEF Wanted
  <2> QED
    BY <1>1, <1>5, <2>1 DEF LocksOf
<1> QED
  BY <1>8, <1>9, <1>10, <1>11, <1>12

LEMMA RankIs ==
  ASSUME NEW w
  PROVE  Rank(w) \in 0 .. 4
BY DEF Rank

\* An ending or cancellation that waits for a customer waits for payments.
LEMMA EntryWaits ==
  ASSUME TxInv, \A w \in Worker : LocksOf(w), NEW w \in Worker,
         NEW v \in Worker \ {w}, LockBlocks(w, v), pc[w] = "entry"
  PROVE  Rank(v) = 4
<1>1. PICK l \in Wanted(w), m \in locks[v] : Conflict(l, m)
  BY DEF LockBlocks
<1>2. l.row[1] = "customer" /\ l.mode = "keyShare"
  BY <1>1 DEF Wanted, KeyShare, Lock, Row
<1>3. m.row[1] = "customer" /\ m.mode = "update"
  BY <1>1, <1>2 DEF Conflict
<1> QED
  BY <1>1, <1>3 DEF LocksOf, Rank

\* u waits in the index for v, and v for a computer: the one that u holds.
LEMMA ReleaseWaits ==
  ASSUME TxInv, NEW u \in Worker, NEW v \in Worker, IndexBlocks(u, v),
         NEW x \in Worker, LockBlocks(v, x), pc[v] = "release"
  PROVE  x = u
<1>1. PICK i \in ActiveOn(NextComputer(u)) : HasWritten(v, i) /\ pc[u] = "insert"
  BY DEF IndexBlocks
<1>2. sessions[i].computer = NextComputer(u)
  BY <1>1 DEF ActiveOn
<1>3. /\ TxTypes /\ NoConflicts
      /\ SessionRead(v) /\ StartRead(u)
  BY DEF TxInv, Reads
<1>4. found[v] = sessions[i]
  BY <1>1, <1>3 DEF SessionRead, HasWritten
<1>5. req[u].kind = "start"
  BY <1>1, <1>3, NextComputerIs
<1>6. Lock("update", Row("computer", NextComputer(u))) \in locks[u]
  BY <1>1, <1>3, <1>5 DEF StartRead, Updates
<1>7. PICK l \in Wanted(v), m \in locks[x] : Conflict(l, m)
  BY DEF LockBlocks
<1>8. l = Lock("update", Row("computer", NextComputer(u)))
  BY <1>2, <1>4, <1>7 DEF Wanted, ForUpdate
<1>9. x # u => ~Conflict(l, m)
  BY <1>3, <1>6, <1>7, <1>8 DEF NoConflicts
<1> QED
  BY <1>7, <1>9

\* The members of no set closed under waiting are in it only for one of the two
\* causes.
LEMMA WaitsInCircle ==
  ASSUME TxInv, \A w \in Worker : LocksOf(w), NEW w \in Worker, Deadlocked(w),
         \A v \in {w} \cup Blockers(w) : ~SeatsOver(v)
  PROVE  w \in Above(w)
<1> DEFINE Held == {v \in Worker : \E u \in Above(w) : IndexBlocks(u, v)}
<1>1. \A v \in Worker : \A x \in Blockers(v) :
        x \in Worker \ {v} /\ (LockBlocks(v, x) \/ IndexBlocks(v, x))
  BY DEF Blockers, OwnTransaction
<1>2. \A u, v : IndexBlocks(u, v) => SeatsOver(u)
  BY DEF IndexBlocks, SeatsOver, IndexAllows
<1>3. \A v \in Worker : Rank(v) \in 0 .. 4
  BY RankIs
<1>4. Blockers(w) \subseteq Above(w)
  BY <1>1, <1>2, BlockersAbove
<1>5. ASSUME NEW v \in Above(w), NEW x \in Blockers(v)
      PROVE  x \in Above(w) \cup Held
  <2>1. v \in Worker /\ x \in Worker
    BY <1>1 DEF Above
  <2>2. CASE LockBlocks(v, x)
    <3>1. x \in Above(v)
      BY <1>1, <2>1, <2>2, BlockersAbove
    <3> QED
      BY <1>3, <2>1, <3>1 DEF Above
  <2>3. CASE IndexBlocks(v, x)
    BY <2>1, <2>3
  <2> QED
    BY <1>1, <2>1, <2>2, <2>3
<1>6. ASSUME NEW v \in Worker, NEW u \in Worker, IndexBlocks(u, v)
      PROVE  /\ req[v].kind \in {"extend", "end", "cancel"}
             /\ pc[v] \in {"entry", "release", "commit"}
             /\ \A x \in Blockers(v) : LockBlocks(v, x) /\ pc[v] \in {"entry", "release"}
  <2>1. /\ req[v].kind \in {"extend", "end", "cancel"}
        /\ pc[v] \in {"entry", "release", "commit"}
    BY <1>6 DEF IndexBlocks, HasWritten
  <2>2. \A x : ~IndexBlocks(v, x)
    BY <2>1 DEF IndexBlocks
  <2>3. pc[v] = "commit" => \A x : ~LockBlocks(v, x)
    BY DEF LockBlocks, Wanted
  <2> QED
    BY <1>1, <2>1, <2>2, <2>3
<1>7. ASSUME NEW v \in Held, NEW x \in Blockers(v)
      PROVE  x \in Above(w)
  <2>1. PICK u \in Above(w) : IndexBlocks(u, v)
    OBVIOUS
  <2>2. /\ v \in Worker /\ u \in Worker /\ x \in Worker \ {v}
    BY <1>1 DEF Above
  <2>3. LockBlocks(v, x) /\ pc[v] \in {"entry", "release"}
    BY <1>6, <2>1, <2>2
  <2>4. CASE pc[v] = "entry"
    <3>1. Rank(x) = 4
      BY <2>2, <2>3, <2>4, EntryWaits
    <3>2. Rank(w) < 4
      BY <1>3, <2>1, <2>2 DEF Above
    <3> QED
      BY <2>2, <3>1, <3>2 DEF Above
  <2>5. CASE pc[v] = "release"
    BY <2>1, <2>2, <2>3, <2>5, ReleaseWaits
  <2> QED
    BY <2>3, <2>4, <2>5
<1>8. w \in Above(w) \cup Held
  <2>1. Above(w) \cup Held \in SUBSET Worker
    BY DEF Above
  <2> HIDE DEF Held
  <2>2. \A v \in Above(w) \cup Held : Blockers(v) \subseteq Above(w) \cup Held
    BY <1>5, <1>7
  <2> QED
    BY <1>4, <2>1, <2>2 DEF Deadlocked
<1>9. ASSUME w \in Held PROVE FALSE
  <2>1. PICK u \in Worker : IndexBlocks(u, w)
    BY <1>9 DEF Above
  <2>2. Blockers(w) # {}
    <3>1. {} \in SUBSET Worker
      OBVIOUS
    <3> QED
      BY <3>1 DEF Deadlocked
  <2>3. PICK x \in Blockers(w) : LockBlocks(w, x) /\ x \in Worker \ {w}
    BY <1>1, <1>6, <2>1, <2>2
  <2>4. CASE pc[w] = "release"
    <3>1. x = u
      BY <2>1, <2>3, <2>4, ReleaseWaits
    <3> QED
      BY <1>2, <2>1, <2>3, <3>1
  <2>5. CASE pc[w] = "entry"
    <3> DEFINE Paying == {v \in Worker : Rank(v) = 4}
    <3>1. Blockers(w) \subseteq Paying
      BY <1>1, <1>6, <2>1, <2>5, EntryWaits
    <3>2. ASSUME NEW v \in Paying PROVE Blockers(v) = {}
      <4>1. req[v].kind = "pay" /\ v \in Worker
        BY <3>2 DEF Rank
      <4>2. pc[v] # "insert"
        BY <4>1, WorkerFields DEF TxInv, StepsOf
      <4>3. ASSUME NEW x1 \in Blockers(v) PROVE FALSE
        <5>1. LockBlocks(v, x1) /\ x1 \in Worker \ {v}
          BY <1>1, <4>1, <4>2 DEF IndexBlocks
        <5>2. x1 \in Above(v)
          BY <4>1, <5>1, BlockersAbove
        <5> QED
          BY <1>3, <3>2, <5>1, <5>2 DEF Above
      <4> QED
        BY <4>3
    <3>3. Paying \in SUBSET Worker
      OBVIOUS
    <3>4. w \in Paying
      <4> HIDE DEF Paying
      <4> QED
        BY <3>1, <3>2, <3>3 DEF Deadlocked
    <3>5. req[w].kind # "pay"
      BY <1>6, <2>1
    <3> QED
      BY <3>4, <3>5 DEF Rank
  <2> QED
    BY <1>6, <2>1, <2>3, <2>4, <2>5
<1> QED
  BY <1>8, <1>9

LEMMA OnlyGroupsRankEqual ==
  ASSUME TxInv, \A v \in Worker : LocksOf(v), NEW w \in Worker, w \in Above(w)
  PROVE  req[w].kind = "start" /\ Len(req[w].batch) > 1
<1>1. Rank(w) = 2
  BY RankIs DEF Above
<1>2. pc[w] = "seat" /\ locks[w] # {}
  BY <1>1 DEF Rank
<1>3. TxTypes /\ StartRead(w)
  BY DEF TxInv, Reads
<1>4. /\ req[w].kind = "start" /\ seats[w] \in Seq(Session)
      /\ Len(seats[w]) < Len(req[w].batch) /\ Len(req[w].batch) \in Nat
  BY <1>2, <1>3, NextComputerIs DEF StartRead
<1>5. seats[w] # <<>>
  BY <1>2 DEF LocksOf
<1> QED
  BY <1>4, <1>5

LEMMA LocksInvariance == TxSpec => [](\A w \in Worker : LocksOf(w))
<1>1. TxInit => \A w \in Worker : LocksOf(w)
  BY DEF TxInit, LocksOf
<1> QED
  BY <1>1, Invariance, LocksStep, PTL DEF TxSpec

\* Rows are taken in one order, session, customer, computer or computer, customer,
\* and a payment waits for nothing once it has its customer: a transaction waits in
\* a cycle only as a group against another group, which may name the same computers
\* in different orders, or because a start has found a computer AVAILABLE that has
\* an active session and waits in the unique index for the transaction that closes
\* it (sessions.service.ts:61, :102, :203, :219).
THEOREM NoOtherDeadlock == TxSpec => []DeadlockCauses
<1>1. TxInv /\ (\A w \in Worker : LocksOf(w)) => DeadlockCauses
  BY WaitsInCircle, OnlyGroupsRankEqual DEF DeadlockCauses
<1> QED
  BY <1>1, Invariance, LocksInvariance, PTL

\* The second cause needs a manager: while every save of a computer writes the
\* status its sessions give it, and no save brings a removed one back, only groups
\* deadlock.
OnlyGroupsDeadlock ==
  \A w \in Worker : Deadlocked(w) => req[w].kind = "start" /\ Len(req[w].batch) > 1

THEOREM NoDeadlockWithoutManagers ==
  TxSpec /\ [][SavesAgree]_vars /\ [][NothingRestored]_vars => []OnlyGroupsDeadlock
<1>1. ASSUME DeskInv, OccupancyAgrees, NEW w \in Worker PROVE ~SeatsOver(w)
  <2> SUFFICES ASSUME pc[w] = "insert" PROVE IndexAllows(NextComputer(w))
    BY DEF SeatsOver
  <2>1. TxTypes /\ StartRead(w) /\ SeatsFresh(w)
    BY <1>1 DEF DeskInv, TxInv, Reads
  <2>2. PICK c \in ComputerId : c = NextComputer(w) /\ req[w].kind = "start"
    BY <2>1, NextComputerIs
  <2>3. Vacant(c)
    BY <2>1, <2>2 DEF StartRead, SeatsFresh
  <2> QED
    BY <1>1, <2>2, <2>3 DEF Vacant, OccupancyAgrees, IndexAllows
<1>2. DeskInv /\ OccupancyAgrees /\ DeadlockCauses => OnlyGroupsDeadlock
  <2>1. \A w \in Worker : \A v \in Blockers(w) : v \in Worker
    BY DEF Blockers
  <2> QED
    BY <1>1, <2>1 DEF DeadlockCauses, OnlyGroupsDeadlock
<1> QED
  BY <1>2, DeskInvariance, OccupancyWhenInterleaved, NoOtherDeadlock, PTL

=============================================================================
