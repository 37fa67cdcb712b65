----------------------------- MODULE SessionDesk -----------------------------
(***************************************************************************)
(* The session desk of the club: sessions.service.ts over the tables of     *)
(* rooms, computers, customers, sessions and the debt ledger.  This is the   *)
(* specification of what the requests do once they commit: every request    *)
(* that runs in one database transaction is one atomic action.  Module      *)
(* SessionTransactions has the row locks and the steps inside.              *)
(*                                                                         *)
(* Here and in the modules around it, a definition whose name begins with   *)
(* Faulty is not part of the model.  It is the next definition with a bug,   *)
(* kept to show which property that bug breaks.                            *)
(*                                                                         *)
(* A session is identified by its place in `sessions`; a group by the place *)
(* of its first session.                                                   *)
(***************************************************************************)
EXTENDS DebtLedger

CONSTANTS
  ComputerId, RoomId,
  NoCustomer,         \* a session with customerId null
  LiveAtStart,        \* the rows already created in the initial state
  HomeRoom,           \* the room a computer is created in
  Prices,             \* hourly rates a manager may set
  Instants,           \* readings of the wall clock
  Terms,              \* durations and end times a cashier may enter
  Receipts,           \* explicit amountPaid values
  Payments,           \* amounts of debt payments
  Corrections,        \* amounts of owner corrections
  Batches,            \* computerIds of a start request
  StatusEdits,        \* computer statuses a manager may set by hand
  Removable,          \* rows a manager may soft-remove
  MaxSessions,        \* bound on the number of sessions
  Horizon,            \* bound on a planned end
  MaxComputerUpdates, MaxRoomUpdates, MaxCustomerUpdates

VARIABLES
  now, sessions,
  computers, computerUpdates,
  rooms, roomUpdates,
  customers, customerUpdates

fleet == <<computers, computerUpdates>>
prices == <<rooms, roomUpdates>>
people == <<customers, customerUpdates>>
vars == <<now, sessions, ledger, fleet, prices, people>>

-----------------------------------------------------------------------------
ComputerStatus == {"AVAILABLE", "IN_USE", "MAINTENANCE", "OFFLINE"}
SessionStatus == {"ACTIVE", "ENDED", "CANCELLED"}

ComputerData == [status : ComputerStatus, isActive : BOOLEAN, room : RoomId]
RoomData == [pricePerHour : Nat, isActive : BOOLEAN]
CustomerData == [isBlocked : BOOLEAN]

ComputerTable == INSTANCE EntityTable WITH
  Id <- ComputerId, Data <- ComputerData, MaxUpdates <- MaxComputerUpdates,
  table <- computers, updates <- computerUpdates
RoomTable == INSTANCE EntityTable WITH
  Id <- RoomId, Data <- RoomData, MaxUpdates <- MaxRoomUpdates,
  table <- rooms, updates <- roomUpdates
CustomerTable == INSTANCE EntityTable WITH
  Id <- CustomerId, Data <- CustomerData, MaxUpdates <- MaxCustomerUpdates,
  table <- customers, updates <- customerUpdates

Session == [
  computer : ComputerId, room : RoomId, customer : CustomerId \cup {NoCustomer},
  group : Nat, type : SessionType, status : SessionStatus, ratePerHour : Nat,
  startedAt : Nat, plannedEndAt : Int, endedAt : Int,
  amountDue : Int, amountPaid : Int]

ASSUME DeskAssumption ==
  /\ NoCustomer \notin CustomerId
  /\ HomeRoom \in [ComputerId -> RoomId]
  /\ Prices \subseteq Nat
  /\ Instants \subseteq Nat
  /\ Terms \subseteq Nat
  /\ Receipts \subseteq Nat
  /\ Payments \subseteq Nat
  /\ Corrections \subseteq Int
  /\ Batches \subseteq Seq(ComputerId)
  /\ \A batch \in Batches : \A k, l \in DOMAIN batch :
       batch[k] = batch[l] => k = l
  /\ StatusEdits \subseteq ComputerStatus

TypeOK ==
  /\ now \in Instants
  /\ sessions \in Seq(Session)
  /\ LedgerTypeOK
  /\ ComputerTable!TypeOK
  /\ RoomTable!TypeOK
  /\ CustomerTable!TypeOK

Init ==
  /\ now \in Instants
  /\ sessions = <<>>
  /\ ledger = <<>>
  /\ computers = [c \in ComputerId |->
       [life |-> IF c \in LiveAtStart THEN "live" ELSE "unborn",
        data |-> [status |-> "AVAILABLE", isActive |-> TRUE, room |-> HomeRoom[c]]]]
  /\ rooms \in [RoomId -> {
       [life |-> life, data |-> [pricePerHour |-> p, isActive |-> TRUE]] :
         life \in {"live", "unborn"}, p \in Prices}]
  /\ \A r \in RoomId : RoomTable!Live(r) <=> r \in LiveAtStart
  /\ customers = [c \in CustomerId |->
       [life |-> IF c \in LiveAtStart THEN "live" ELSE "unborn",
        data |-> [isBlocked |-> FALSE]]]
  /\ computerUpdates = {} /\ roomUpdates = {} /\ customerUpdates = {}

-----------------------------------------------------------------------------
(* Starting sessions *)

ActiveOn(c) == {i \in DOMAIN sessions :
                  sessions[i].computer = c /\ sessions[i].status = "ACTIVE"}

\* resolveCustomer
MayPlay(customer) ==
  customer # NoCustomer =>
    CustomerTable!Live(customer) /\ ~customers[customer].data.isBlocked

FaultyCanSeat(c) ==         \* the room is not looked at
  /\ ComputerTable!Live(c)
  /\ computers[c].data.isActive
  /\ computers[c].data.status = "AVAILABLE"

\* The checks on one computer of the request, and the partial unique index on
\* (computer_id) WHERE status = 'ACTIVE' that the insert must satisfy.
CanSeat(c) ==
  LET room == computers[c].data.room
  IN  /\ ComputerTable!Live(c)
      /\ computers[c].data.isActive
      /\ computers[c].data.status = "AVAILABLE"
      /\ RoomTable!Live(room)
      /\ rooms[room].data.isActive

FaultyIndexAllows(c) == TRUE

IndexAllows(c) == ActiveOn(c) = {}

RateOf(c) == rooms[computers[c].data.room].data.pricePerHour

NewSession(c, type, customer, group, term, startedAt) == [
  computer |-> c, room |-> computers[c].data.room, customer |-> customer,
  group |-> group, type |-> type, status |-> "ACTIVE", ratePerHour |-> RateOf(c),
  startedAt |-> startedAt, plannedEndAt |-> PlannedEnd(type, startedAt, term),
  endedAt |-> Absent,
  amountDue |-> PlannedAmount(type, RateOf(c), startedAt, term), amountPaid |-> 0]

GroupOf(batch) == IF Len(batch) > 1 THEN Len(sessions) + 1 ELSE 0

Occupy(cs) ==
  computers' = [c \in ComputerId |->
    IF c \in cs THEN [computers[c] EXCEPT !.data.status = "IN_USE"] ELSE computers[c]]

\* The dto's limit on durationMinutes and addMinutes.
Entered(type, term) == type = "FIXED_DURATION" => term <= 24 * 60

\* The start instant is read before the transaction begins, and the locks may
\* be granted later: any instant up to now.
Start(batch, type, customer, term, startedAt) ==
  /\ startedAt <= now
  /\ Len(sessions) + Len(batch) <= MaxSessions
  /\ Entered(type, term)
  /\ PlannedEnd(type, startedAt, term) <= Horizon
  /\ MayPlay(customer)
  /\ \A k \in DOMAIN batch :
       /\ CanSeat(batch[k])
       /\ IndexAllows(batch[k])
       /\ CanPlan(type, RateOf(batch[k]), startedAt, term)
  /\ sessions' = sessions \o [k \in DOMAIN batch |->
       NewSession(batch[k], type, customer, GroupOf(batch), term, startedAt)]
  /\ Occupy({batch[k] : k \in DOMAIN batch})
  /\ UNCHANGED <<now, ledger, computerUpdates, prices, people>>

-----------------------------------------------------------------------------
(* Extending, ending and cancelling one session *)

IsActive(i) == sessions[i].status = "ACTIVE"

FaultyExtended(s, term) ==       \* at the room's price of today
  [s EXCEPT !.plannedEndAt = ExtendedEnd(s, term),
            !.amountDue = ForDuration(RateOf(s.computer), ExtendedSeconds(s, term))]

Extended(s, term) ==
  [s EXCEPT !.plannedEndAt = ExtendedEnd(s, term),
            !.amountDue = ExtendedAmount(s, term)]

Extend(i, term) ==
  /\ IsActive(i)
  /\ Entered(sessions[i].type, term)
  /\ CanExtend(sessions[i], term)
  /\ ExtendedEnd(sessions[i], term) <= Horizon
  /\ sessions' = [sessions EXCEPT ![i] = Extended(sessions[i], term)]
  /\ UNCHANGED <<now, ledger, fleet, prices, people>>

\* Only an IN_USE computer goes back to AVAILABLE; one a manager took out of
\* service, or removed, is left alone.
FaultyReleaseComputer(c) == computers' = computers

FaultyReleaseAnyStatus(c) ==
  computers' = [computers EXCEPT ![c].data.status = "AVAILABLE"]

ReleaseComputer(c) ==
  computers' =
    IF ComputerTable!Live(c) /\ computers[c].data.status = "IN_USE"
      THEN [computers EXCEPT ![c].data.status = "AVAILABLE"]
      ELSE computers

\* The amount collected: everything due unless the cashier enters less.
Collected(due, receipt) == IF receipt = Absent THEN due ELSE receipt

\* Only a customer can be left owing.
FaultyMayOwe(customer) == TRUE

MayOwe(customer) == customer # NoCustomer

\* The columns that closing a session writes.
Closed(s, status, endedAt, due, paid) ==
  [s EXCEPT !.status = status, !.endedAt = endedAt,
            !.amountDue = due, !.amountPaid = paid]

\* What ending a session does to it and to the ledger; End also releases the
\* computer.
EndSession(i, receipt, endedAt) ==
  LET s == sessions[i]
      due == Finalize(s, endedAt)
      paid == Collected(due, receipt)
  IN  /\ IsActive(i)
      /\ endedAt <= now
      /\ CanFinalize(s, endedAt)
      /\ paid <= due
      /\ \/ paid = due /\ UNCHANGED ledger
         \/ /\ paid < due
            /\ MayOwe(s.customer)
            /\ AddDebt(s.customer, due - paid, i)
      /\ sessions' = [sessions EXCEPT ![i] = Closed(s, "ENDED", endedAt, due, paid)]
      /\ UNCHANGED <<now, computerUpdates, prices, people>>

End(i, receipt, endedAt) ==
  EndSession(i, receipt, endedAt) /\ ReleaseComputer(sessions[i].computer)

FaultyCancelSession(i, endedAt) ==      \* of a session in any status
  /\ endedAt <= now
  /\ sessions' = [sessions EXCEPT
       ![i] = Closed(sessions[i], "CANCELLED", endedAt, 0, 0)]
  /\ UNCHANGED <<now, ledger, computerUpdates, prices, people>>

CancelSession(i, endedAt) ==
  /\ IsActive(i)
  /\ endedAt <= now
  /\ sessions' = [sessions EXCEPT
       ![i] = Closed(sessions[i], "CANCELLED", endedAt, 0, 0)]
  /\ UNCHANGED <<now, ledger, computerUpdates, prices, people>>

Cancel(i, endedAt) ==
  CancelSession(i, endedAt) /\ ReleaseComputer(sessions[i].computer)

-----------------------------------------------------------------------------
(* The debt endpoints.  A payment needs a live customer, a correction only a *)
(* row the ledger's foreign key can refer to.                               *)

PayDebt(c, amount) ==
  /\ CustomerTable!Live(c)
  /\ RecordPayment(c, amount)
  /\ UNCHANGED <<now, sessions, fleet, prices, people>>

CorrectDebt(c, amount) ==
  /\ customers[c].life # "unborn"
  /\ Correct(c, amount)
  /\ UNCHANGED <<now, sessions, fleet, prices, people>>

-----------------------------------------------------------------------------
(* The managers' tables *)

\* What an UpdateComputerDto can make of a loaded computer; a room it moves to
\* is looked up first.  (The entity also carries its old `room` relation, which
\* TypeORM prefers to the new roomId when it saves: a move may have no effect,
\* and that is one of the edits here.)
ComputerEdits(data) ==
  {d \in [status : StatusEdits \cup {data.status}, isActive : BOOLEAN,
          room : RoomId] :
     d.room # data.room => RoomTable!Live(d.room)}

CreateComputer(c) ==
  /\ RoomTable!Live(HomeRoom[c])
  /\ ComputerTable!Create(c, [status |-> "AVAILABLE", isActive |-> TRUE,
                              room |-> HomeRoom[c]])

ComputerAdmin ==
  /\ \E c \in ComputerId :
       \/ CreateComputer(c)
       \/ \E d \in ComputerEdits(computers[c].data) : ComputerTable!BeginUpdate(c, d)
       \/ \E u \in computerUpdates : u[1] = c /\ ComputerTable!SaveUpdate(u)
       \/ c \in Removable /\ ComputerTable!SoftRemove(c)
  /\ UNCHANGED <<now, sessions, ledger, prices, people>>

RoomAdmin ==
  /\ \E r \in RoomId :
       \/ \E p \in Prices :
            RoomTable!Create(r, [pricePerHour |-> p, isActive |-> TRUE])
       \/ \E d \in [pricePerHour : Prices, isActive : BOOLEAN] :
            RoomTable!BeginUpdate(r, d)
       \/ \E u \in roomUpdates : u[1] = r /\ RoomTable!SaveUpdate(u)
       \/ r \in Removable /\ RoomTable!SoftRemove(r)
  /\ UNCHANGED <<now, sessions, ledger, fleet, people>>

CustomerAdmin ==
  /\ \E c \in CustomerId :
       \/ CustomerTable!Create(c, [isBlocked |-> FALSE])
       \/ \E d \in CustomerData : CustomerTable!BeginUpdate(c, d)
       \/ \E u \in customerUpdates : u[1] = c /\ CustomerTable!SaveUpdate(u)
       \/ c \in Removable /\ CustomerTable!SoftRemove(c)
  /\ UNCHANGED <<now, sessions, ledger, fleet, prices>>

-----------------------------------------------------------------------------
Tick ==
  /\ now' \in Instants
  /\ now' > now
  /\ UNCHANGED <<sessions, ledger, fleet, prices, people>>

SessionRequest ==
  \/ \E batch \in Batches, type \in SessionType,
        customer \in CustomerId \cup {NoCustomer},
        term \in Terms \cup {Absent}, startedAt \in Instants :
       Start(batch, type, customer, term, startedAt)
  \/ \E i \in DOMAIN sessions :
       \/ \E term \in Terms \cup {Absent} : Extend(i, term)
       \/ \E receipt \in Receipts \cup {Absent}, endedAt \in Instants :
            End(i, receipt, endedAt)
       \/ \E endedAt \in Instants : Cancel(i, endedAt)

DebtRequest ==
  \E c \in CustomerId :
    \/ \E amount \in Payments : PayDebt(c, amount)
    \/ \E amount \in Corrections : CorrectDebt(c, amount)

Next ==
  \/ Tick
  \/ ComputerAdmin
  \/ SessionRequest
  \/ DebtRequest
  \/ RoomAdmin
  \/ CustomerAdmin

Spec == Init /\ [][Next]_vars

-----------------------------------------------------------------------------
(* Properties *)

\* A computer never has two active sessions, even when a manager's stale save
\* has put an occupied computer back to AVAILABLE and it is started again.
AtMostOneActive ==
  \A i, j \in DOMAIN sessions :
    IsActive(i) /\ IsActive(j) /\ sessions[i].computer = sessions[j].computer
      => i = j

\* The charge is always the price of the time it stands for, at the rate the
\* session started with: from the start to the planned end for a fixed session,
\* after any number of extensions and however early it ended; from the start to
\* the end for an open one.  A cancelled session owes and has paid nothing, and
\* no session has paid more than it owes.
BilledSeconds(s) ==
  IF s.type = "OPEN_SESSION"
    THEN UsedSeconds(s, s.endedAt)
    ELSE DiffSeconds(s.startedAt, s.plannedEndAt)

ChargedFor(s) ==
  /\ s.status = "CANCELLED" => s.amountDue = 0 /\ s.amountPaid = 0
  /\ s.status = "ACTIVE" => s.amountPaid = 0
  /\ s.status = "ACTIVE" /\ s.type = "OPEN_SESSION" => s.amountDue = 0
  /\ s.status = "ENDED" => s.amountPaid \in 0 .. s.amountDue
  /\ s.status = "ENDED" \/ (s.status = "ACTIVE" /\ s.type # "OPEN_SESSION") =>
       s.amountDue = ForDuration(s.ratePerHour, BilledSeconds(s))

ChargeMatchesTime == \A i \in DOMAIN sessions : ChargedFor(sessions[i])

\* "The amount due and the debt can never disagree" (README.md; the comment of
\* end()): an ended session is fully paid or its shortfall is in the ledger,
\* exactly once, for the session's own customer; and the ledger has no entry
\* for a session that has not ended short.
DebtEntryOf(i) == [
  customer |-> sessions[i].customer, type |-> "DEBT_ADD",
  amount |-> sessions[i].amountDue - sessions[i].amountPaid, session |-> i]

EndedShort(i) ==
  /\ sessions[i].status = "ENDED"
  /\ sessions[i].amountPaid < sessions[i].amountDue

ShortfallIsOwed ==
  \A i \in DOMAIN sessions :
    EndedShort(i) => \E j \in DOMAIN ledger : ledger[j] = DebtEntryOf(i)

DebtHasShortfall ==
  \A j \in DOMAIN ledger :
    IF ledger[j].session = 0
      THEN ledger[j].type # "DEBT_ADD"
      ELSE /\ ledger[j].session \in DOMAIN sessions
           /\ EndedShort(ledger[j].session)
           /\ ledger[j] = DebtEntryOf(ledger[j].session)

OwedOnce ==
  \A j, k \in DOMAIN ledger :
    ledger[j].session = ledger[k].session /\ ledger[j].session # 0 => j = k

DebtMatchesShortfall == ShortfallIsOwed /\ DebtHasShortfall /\ OwedOnce

\* No request rewrites history (session.entity.ts: "price changes never rewrite
\* history", "Locked once the session ends"): a session keeps its computer,
\* customer, rate and start, changes nothing once it has ended or been
\* cancelled, and ledger entries are neither changed nor removed.
KeepsIdentity(s, t) ==
  /\ s.computer = t.computer /\ s.room = t.room /\ s.customer = t.customer
  /\ s.group = t.group /\ s.type = t.type
  /\ s.ratePerHour = t.ratePerHour /\ s.startedAt = t.startedAt

HistoryStep ==
  /\ \A i \in DOMAIN sessions :
       /\ i \in DOMAIN sessions'
       /\ KeepsIdentity(sessions[i], sessions'[i])
       /\ ~IsActive(i) => sessions'[i] = sessions[i]
  /\ \A j \in DOMAIN ledger : j \in DOMAIN ledger' /\ ledger'[j] = ledger[j]

HistoryKept == [][HistoryStep]_vars

\* An extension moves the planned end later and never lowers the charge, and
\* nothing else changes the charge of a session that stays active.
ExtensionsOnlyAdd ==
  [][\A i \in DOMAIN sessions :
       IsActive(i) /\ sessions'[i].status = "ACTIVE" =>
         \/ UNCHANGED sessions[i]
         \/ /\ sessions'[i].plannedEndAt > sessions[i].plannedEndAt
            /\ sessions'[i].amountDue >= sessions[i].amountDue]_vars

\* "An active session drives it to IN_USE and releases it back to AVAILABLE on
\* end" (computer.entity.ts): on a computer nobody removed, IN_USE means that
\* it has an active session, and the reverse.
OccupancyAgrees ==
  \A c \in ComputerId :
    ComputerTable!Live(c) =>
      (computers[c].data.status = "IN_USE" <=> ActiveOn(c) # {})

\* A computer in maintenance or offline comes back into service only by a
\* manager's save, never because a session on it starts, ends or is cancelled.
OutOfService == {"MAINTENANCE", "OFFLINE"}

ServiceIsManual ==
  [][\A c \in ComputerId :
       computers[c].data.status \in OutOfService =>
         \/ computers'[c].data.status = computers[c].data.status
         \/ computerUpdates' # computerUpdates]_vars

=============================================================================
