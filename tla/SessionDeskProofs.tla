-------------------------- MODULE SessionDeskProofs --------------------------
(* Invariance proofs for SessionDesk, for any fleet, clock and price list. *)
EXTENDS SessionDesk, MoneyTheorems, SequenceTheorems

-----------------------------------------------------------------------------
(* What the pricing operators return *)

LEMMA PlanType ==
  ASSUME NEW type \in SessionType, NEW rate \in Nat, NEW startedAt \in Nat,
         NEW term \in Int, CanPlan(type, rate, startedAt, term)
  PROVE  /\ PlannedEnd(type, startedAt, term) \in Int
         /\ PlannedAmount(type, rate, startedAt, term) \in Nat
<1>1. CASE type = "OPEN_SESSION"
  BY <1>1 DEF PlannedEnd, PlannedAmount, Absent
<1>2. CASE type # "OPEN_SESSION"
  <2> DEFINE secs == PlannedSeconds(type, startedAt, term)
  <2>1. secs \in Nat
    BY <1>2 DEF CanPlan, Chargeable
  <2>2. PlannedAmount(type, rate, startedAt, term) \in Nat
    BY <1>2, <2>1, ForDurationMonotone DEF PlannedAmount
  <2> QED
    BY <1>2, <2>2 DEF SessionType, PlannedEnd, MsPerMinute
<1> QED
  BY <1>1, <1>2

LEMMA ExtendType ==
  ASSUME NEW s \in Session, NEW term \in Int, CanExtend(s, term)
  PROVE  /\ ExtendedEnd(s, term) \in Int
         /\ ExtendedAmount(s, term) \in Nat
         /\ s.type # "OPEN_SESSION"
<1>1. ExtendedSeconds(s, term) \in Nat /\ s.ratePerHour \in Nat
  BY DEF CanExtend, Chargeable
<1>2. ExtendedAmount(s, term) \in Nat
  BY <1>1, ForDurationMonotone DEF ExtendedAmount
<1>3. s.startedAt \in Int /\ s.plannedEndAt \in Int
  BY DEF Session
<1>4. ExtendedEnd(s, term) \in Int
  BY <1>3 DEF ExtendedEnd, MsPerMinute
<1>5. s.type # "OPEN_SESSION"
  BY DEF CanExtend
<1> QED
  BY <1>2, <1>4, <1>5

LEMMA FinalizeType ==
  ASSUME NEW s \in Session, NEW at \in Int, CanFinalize(s, at)
  PROVE  /\ Finalize(s, at) \in Int
         /\ s.type = "OPEN_SESSION" => Finalize(s, at) \in Nat
BY ForDurationMonotone DEF CanFinalize, Finalize, Chargeable, Session

-----------------------------------------------------------------------------
(* What each request does to the tables it writes *)

LEMMA InsertType ==
  ASSUME LedgerTypeOK, NEW c \in CustomerId, NEW type \in EntryType,
         NEW amount \in Int, NEW session \in Nat,
         Insert(c, type, amount, session)
  PROVE  /\ LedgerTypeOK'
         /\ Len(ledger') = Len(ledger) + 1
         /\ \A j \in DOMAIN ledger : ledger'[j] = ledger[j]
         /\ ledger'[Len(ledger) + 1] =
              [customer |-> c, type |-> type, amount |-> amount, session |-> session]
BY DEF LedgerTypeOK, Insert, Entry

LEMMA BatchType ==
  ASSUME NEW batch \in Batches
  PROVE  /\ batch \in Seq(ComputerId)
         /\ Len(batch) \in Nat
         /\ DOMAIN batch = 1 .. Len(batch)
         /\ \A k \in DOMAIN batch : batch[k] \in ComputerId
         /\ \A k, l \in DOMAIN batch : batch[k] = batch[l] => k = l
BY DeskAssumption

LEMMA OccupyType ==
  ASSUME ComputerTable!TypeOK, NEW cs, Occupy(cs), UNCHANGED computerUpdates
  PROVE  ComputerTable!TypeOK'
BY DEF ComputerTable!TypeOK, ComputerTable!Row, Occupy, ComputerData, ComputerStatus

LEMMA ReleaseType ==
  ASSUME ComputerTable!TypeOK, NEW c \in ComputerId, ReleaseComputer(c),
         UNCHANGED computerUpdates
  PROVE  ComputerTable!TypeOK'
BY DEF ComputerTable!TypeOK, ComputerTable!Row, ReleaseComputer, ComputerData,
       ComputerStatus

LEMMA ConcatEffect ==
  ASSUME NEW S, NEW s \in Seq(S), NEW t \in Seq(S)
  PROVE  /\ s \o t \in Seq(S)
         /\ Len(s \o t) = Len(s) + Len(t)
         /\ \A i \in DOMAIN s : (s \o t)[i] = s[i]
         /\ \A i \in DOMAIN (s \o t) \ DOMAIN s :
              i - Len(s) \in DOMAIN t /\ (s \o t)[i] = t[i - Len(s)]
<1>1. /\ s \o t \in Seq(S)
      /\ Len(s \o t) = Len(s) + Len(t)
      /\ \A i \in 1 .. Len(s) + Len(t) :
           (s \o t)[i] = IF i <= Len(s) THEN s[i] ELSE t[i - Len(s)]
  BY ConcatProperties
<1>2. /\ Len(s) \in Nat /\ DOMAIN s = 1 .. Len(s)
      /\ Len(t) \in Nat /\ DOMAIN t = 1 .. Len(t)
      /\ DOMAIN (s \o t) = 1 .. Len(s) + Len(t)
  BY <1>1, LenProperties
<1> QED
  BY <1>1, <1>2

LEMMA NewSessionType ==
  ASSUME TypeOK, NEW c \in ComputerId, NEW type \in SessionType,
         NEW customer \in CustomerId \cup {NoCustomer}, NEW group \in Nat,
         NEW term \in Terms \cup {Absent}, NEW startedAt \in Instants,
         CanPlan(type, RateOf(c), startedAt, term)
  PROVE  NewSession(c, type, customer, group, term, startedAt) \in Session
<1> DEFINE rate == RateOf(c)
<1>1. computers[c].data.room \in RoomId /\ rate \in Nat
  BY DEF TypeOK, ComputerTable!TypeOK, ComputerTable!Row, ComputerData,
         RoomTable!TypeOK, RoomTable!Row, RoomData, RateOf
<1>2. term \in Int /\ startedAt \in Nat
  BY DeskAssumption DEF Absent
<1>3. /\ PlannedEnd(type, startedAt, term) \in Int
      /\ PlannedAmount(type, rate, startedAt, term) \in Int
  BY <1>1, <1>2, PlanType
<1> QED
  BY <1>1, <1>2, <1>3 DEF NewSession, Session, SessionStatus, Absent

\* Start appends its sessions and leaves the earlier ones alone.
LEMMA StartEffect ==
  ASSUME TypeOK, NEW batch \in Batches, NEW type \in SessionType,
         NEW customer \in CustomerId \cup {NoCustomer},
         NEW term \in Terms \cup {Absent}, NEW startedAt \in Instants,
         Start(batch, type, customer, term, startedAt)
  PROVE  /\ sessions' \in Seq(Session)
         /\ Len(sessions') = Len(sessions) + Len(batch)
         /\ \A i \in DOMAIN sessions : sessions'[i] = sessions[i]
         /\ \A i \in DOMAIN sessions' \ DOMAIN sessions :
              /\ i - Len(sessions) \in DOMAIN batch
              /\ sessions'[i] = NewSession(batch[i - Len(sessions)], type, customer,
                                           GroupOf(batch), term, startedAt)
<1> DEFINE new == [k \in DOMAIN batch |->
             NewSession(batch[k], type, customer, GroupOf(batch), term, startedAt)]
<1>1. GroupOf(batch) \in Nat
  BY DEF GroupOf, TypeOK
<1>2. ASSUME NEW k \in DOMAIN batch
      PROVE  new[k] \in Session
  <2>1. batch[k] \in ComputerId
    BY BatchType
  <2>2. CanPlan(type, RateOf(batch[k]), startedAt, term)
    BY DEF Start
  <2> QED
    BY <1>1, <2>1, <2>2, NewSessionType
<1>3. new \in Seq(Session) /\ Len(new) = Len(batch)
  <2>1. DOMAIN batch = 1 .. Len(batch) /\ Len(batch) \in Nat
    BY BatchType
  <2>2. new \in [1 .. Len(batch) -> Session]
    BY <1>2, <2>1
  <2> QED
    BY <2>1, <2>2
<1>4. sessions' = sessions \o new
  BY DEF Start
<1> HIDE DEF new
<1>5. sessions \in Seq(Session)
  BY DEF TypeOK
<1>6. /\ sessions \o new \in Seq(Session)
      /\ Len(sessions \o new) = Len(sessions) + Len(new)
      /\ \A i \in DOMAIN sessions : (sessions \o new)[i] = sessions[i]
      /\ \A i \in DOMAIN (sessions \o new) \ DOMAIN sessions :
           /\ i - Len(sessions) \in DOMAIN new
           /\ (sessions \o new)[i] = new[i - Len(sessions)]
  BY <1>3, <1>5, ConcatEffect
<1>7. \A k \in DOMAIN new : new[k] =
        NewSession(batch[k], type, customer, GroupOf(batch), term, startedAt)
  BY DEF new
<1>8. DOMAIN new = DOMAIN batch
  BY DEF new
<1> QED
  BY <1>3, <1>4, <1>6, <1>7, <1>8

LEMMA SessionTyped ==
  ASSUME TypeOK, NEW i \in DOMAIN sessions
  PROVE  /\ i \in Nat \ {0}
         /\ sessions[i] \in Session
         /\ sessions[i].computer \in ComputerId
         /\ sessions[i].customer \in CustomerId \cup {NoCustomer}
<1>1. i \in Nat \ {0} /\ sessions[i] \in Session
  BY DEF TypeOK
<1> QED
  BY <1>1 DEF Session

\* Extend, End and Cancel rewrite one session and leave its identity alone.
LEMMA SessionRewrite ==
  ASSUME TypeOK, NEW i \in DOMAIN sessions, NEW s \in Session,
         sessions' = [sessions EXCEPT ![i] = s]
  PROVE  /\ sessions' \in Seq(Session)
         /\ DOMAIN sessions' = DOMAIN sessions
         /\ sessions'[i] = s
         /\ \A j \in DOMAIN sessions \ {i} : sessions'[j] = sessions[j]
BY DEF TypeOK

LEMMA ExtendedType ==
  ASSUME NEW s \in Session, NEW term \in Int, CanExtend(s, term)
  PROVE  Extended(s, term) \in Session
<1>1. ExtendedEnd(s, term) \in Int /\ ExtendedAmount(s, term) \in Int
  BY ExtendType
<1> QED
  BY <1>1 DEF Extended, Session

LEMMA ClosedType ==
  ASSUME NEW s \in Session, NEW status \in SessionStatus,
         NEW endedAt \in Int, NEW due \in Int, NEW paid \in Int
  PROVE  Closed(s, status, endedAt, due, paid) \in Session
BY DEF Closed, Session

LEMMA ExtendEffect ==
  ASSUME TypeOK, NEW i \in DOMAIN sessions, NEW term \in Terms \cup {Absent},
         Extend(i, term)
  PROVE  /\ Extended(sessions[i], term) \in Session
         /\ sessions' = [sessions EXCEPT ![i] = Extended(sessions[i], term)]
<1>1. sessions[i] \in Session /\ term \in Int
  BY DeskAssumption, SessionTyped DEF Absent
<1> QED
  BY <1>1, ExtendedType DEF Extend

LEMMA EndEffect ==
  ASSUME TypeOK, NEW i \in DOMAIN sessions, NEW receipt \in Receipts \cup {Absent},
         NEW endedAt \in Instants, EndSession(i, receipt, endedAt)
  PROVE  LET due == Finalize(sessions[i], endedAt)
             paid == Collected(due, receipt)
             t == Closed(sessions[i], "ENDED", endedAt, due, paid)
         IN  /\ due \in Int /\ paid \in Int
             /\ t \in Session
             /\ sessions' = [sessions EXCEPT ![i] = t]
<1> DEFINE due == Finalize(sessions[i], endedAt)
           paid == Collected(due, receipt)
<1>1. sessions[i] \in Session /\ receipt \in Int /\ endedAt \in Int
  BY DeskAssumption, SessionTyped DEF Absent
<1>2. due \in Int
  BY <1>1, FinalizeType DEF EndSession
<1>3. paid \in Int
  BY <1>1, <1>2 DEF Collected
<1>4. sessions' = [sessions EXCEPT
                     ![i] = Closed(sessions[i], "ENDED", endedAt, due, paid)]
  BY DEF EndSession
<1> HIDE DEF due, paid
<1>5. Closed(sessions[i], "ENDED", endedAt, due, paid) \in Session
  BY <1>1, <1>2, <1>3, ClosedType DEF SessionStatus
<1> QED
  BY <1>2, <1>3, <1>4, <1>5 DEF due, paid

LEMMA CancelEffect ==
  ASSUME TypeOK, NEW i \in DOMAIN sessions, NEW endedAt \in Instants,
         CancelSession(i, endedAt)
  PROVE  LET t == Closed(sessions[i], "CANCELLED", endedAt, 0, 0)
         IN  t \in Session /\ sessions' = [sessions EXCEPT ![i] = t]
<1>1. sessions[i] \in Session /\ endedAt \in Int
  BY DeskAssumption, SessionTyped
<1>2. Closed(sessions[i], "CANCELLED", endedAt, 0, 0) \in Session
  BY <1>1, ClosedType DEF SessionStatus
<1> QED
  BY <1>2 DEF CancelSession

-----------------------------------------------------------------------------
(* Type correctness *)

\* Nearly all that the desk promises of sessions and the ledger holds whatever a
\* session that closes does to its computer: SessionTransactions needs it of
\* sessions that close while their computer is removed.
CloseOnly ==
  /\ \E i \in DOMAIN sessions :
       \/ \E receipt \in Receipts \cup {Absent}, endedAt \in Instants :
            EndSession(i, receipt, endedAt)
       \/ \E endedAt \in Instants : CancelSession(i, endedAt)
  /\ UNCHANGED computers

DeskMove == Next \/ CloseOnly

LEMMA NextMoves == [Next]_vars => [DeskMove]_vars
BY DEF DeskMove

LEMMA InitType == Init => TypeOK
<1> SUFFICES ASSUME Init PROVE TypeOK
  OBVIOUS
<1>1. now \in Instants /\ sessions \in Seq(Session) /\ LedgerTypeOK
  BY DEF Init, LedgerTypeOK
<1>2. ComputerTable!TypeOK
  BY DeskAssumption
  DEF Init, ComputerTable!TypeOK, ComputerTable!Row, ComputerData, ComputerStatus
<1>3. RoomTable!TypeOK
  <2> DEFINE initial == {
        [life |-> life, data |-> [pricePerHour |-> p, isActive |-> TRUE]] :
          life \in {"live", "unborn"}, p \in Prices}
  <2>1. ASSUME NEW row \in initial PROVE row \in RoomTable!Row
    <3>1. PICK life \in {"live", "unborn"}, p \in Prices :
            row = [life |-> life, data |-> [pricePerHour |-> p, isActive |-> TRUE]]
      OBVIOUS
    <3>2. [pricePerHour |-> p, isActive |-> TRUE] \in RoomData
      BY DeskAssumption DEF RoomData
    <3> QED
      BY <3>1, <3>2 DEF RoomTable!Row
  <2>2. rooms \in [RoomId -> initial] /\ roomUpdates = {}
    BY DEF Init
  <2> HIDE DEF initial
  <2> QED
    BY <2>1, <2>2 DEF RoomTable!TypeOK
<1>4. CustomerTable!TypeOK
  BY DEF Init, CustomerTable!TypeOK, CustomerTable!Row, CustomerData
<1> QED
  BY <1>1, <1>2, <1>3, <1>4 DEF TypeOK

LEMMA ComputerAdminType == TypeOK /\ ComputerAdmin => ComputerTable!TypeOK'
<1> SUFFICES ASSUME TypeOK, ComputerAdmin PROVE ComputerTable!TypeOK'
  OBVIOUS
<1> USE DEF ComputerTable!TypeOK, ComputerTable!Row
<1>1. ComputerTable!TypeOK
  BY DEF TypeOK
<1>2. PICK c \in ComputerId :
        \/ CreateComputer(c)
        \/ \E d \in ComputerEdits(computers[c].data) : ComputerTable!BeginUpdate(c, d)
        \/ \E u \in computerUpdates : ComputerTable!SaveUpdate(u)
        \/ ComputerTable!SoftRemove(c)
  BY DEF ComputerAdmin
<1>3. CASE CreateComputer(c)
  BY <1>1, <1>3, DeskAssumption
  DEF CreateComputer, ComputerTable!Create, ComputerData, ComputerStatus
<1>4. CASE \E d \in ComputerEdits(computers[c].data) : ComputerTable!BeginUpdate(c, d)
  <2>1. PICK d \in ComputerEdits(computers[c].data) : ComputerTable!BeginUpdate(c, d)
    BY <1>4
  <2>2. d \in ComputerData
    BY <1>1, DeskAssumption DEF ComputerEdits, ComputerData
  <2> QED
    BY <1>1, <2>1, <2>2 DEF ComputerTable!BeginUpdate
<1>5. CASE \E u \in computerUpdates : ComputerTable!SaveUpdate(u)
  BY <1>1, <1>5 DEF ComputerTable!SaveUpdate
<1>6. CASE ComputerTable!SoftRemove(c)
  BY <1>1, <1>6 DEF ComputerTable!SoftRemove
<1> QED
  BY <1>2, <1>3, <1>4, <1>5, <1>6

LEMMA RoomAdminType == TypeOK /\ RoomAdmin => RoomTable!TypeOK'
<1> SUFFICES ASSUME TypeOK, RoomAdmin PROVE RoomTable!TypeOK'
  OBVIOUS
<1> USE DEF RoomTable!TypeOK, RoomTable!Row
<1>1. RoomTable!TypeOK
  BY DEF TypeOK
<1>2. PICK r \in RoomId :
        \/ \E p \in Prices :
             RoomTable!Create(r, [pricePerHour |-> p, isActive |-> TRUE])
        \/ \E d \in [pricePerHour : Prices, isActive : BOOLEAN] :
             RoomTable!BeginUpdate(r, d)
        \/ \E u \in roomUpdates : RoomTable!SaveUpdate(u)
        \/ RoomTable!SoftRemove(r)
  BY DEF RoomAdmin
<1>3. CASE \E p \in Prices :
             RoomTable!Create(r, [pricePerHour |-> p, isActive |-> TRUE])
  BY <1>1, <1>3, DeskAssumption DEF RoomTable!Create, RoomData
<1>4. CASE \E d \in [pricePerHour : Prices, isActive : BOOLEAN] :
             RoomTable!BeginUpdate(r, d)
  <2>1. PICK d \in [pricePerHour : Prices, isActive : BOOLEAN] :
          RoomTable!BeginUpdate(r, d)
    BY <1>4
  <2>2. d \in RoomData
    BY DeskAssumption DEF RoomData
  <2> QED
    BY <1>1, <2>1, <2>2 DEF RoomTable!BeginUpdate
<1>5. CASE \E u \in roomUpdates : RoomTable!SaveUpdate(u)
  BY <1>1, <1>5 DEF RoomTable!SaveUpdate
<1>6. CASE RoomTable!SoftRemove(r)
  BY <1>1, <1>6 DEF RoomTable!SoftRemove
<1> QED
  BY <1>2, <1>3, <1>4, <1>5, <1>6

LEMMA CustomerAdminType == TypeOK /\ CustomerAdmin => CustomerTable!TypeOK'
<1> SUFFICES ASSUME TypeOK, CustomerAdmin PROVE CustomerTable!TypeOK'
  OBVIOUS
<1> USE DEF CustomerTable!TypeOK, CustomerTable!Row
<1>1. CustomerTable!TypeOK
  BY DEF TypeOK
<1>2. PICK c \in CustomerId :
        \/ CustomerTable!Create(c, [isBlocked |-> FALSE])
        \/ \E d \in CustomerData : CustomerTable!BeginUpdate(c, d)
        \/ \E u \in customerUpdates : CustomerTable!SaveUpdate(u)
        \/ CustomerTable!SoftRemove(c)
  BY DEF CustomerAdmin
<1>3. CASE CustomerTable!Create(c, [isBlocked |-> FALSE])
  BY <1>1, <1>3 DEF CustomerTable!Create, CustomerData
<1>4. CASE \E d \in CustomerData : CustomerTable!BeginUpdate(c, d)
  BY <1>1, <1>4 DEF CustomerTable!BeginUpdate
<1>5. CASE \E u \in customerUpdates : CustomerTable!SaveUpdate(u)
  BY <1>1, <1>5 DEF CustomerTable!SaveUpdate
<1>6. CASE CustomerTable!SoftRemove(c)
  BY <1>1, <1>6 DEF CustomerTable!SoftRemove
<1> QED
  BY <1>2, <1>3, <1>4, <1>5, <1>6

\* Every request leaves every table with rows of its type.
LEMMA NextType == TypeOK /\ [DeskMove]_vars => TypeOK'
<1> SUFFICES ASSUME TypeOK, [DeskMove]_vars PROVE TypeOK'
  OBVIOUS
<1> USE DEF LedgerTypeOK, fleet, prices, people
<1>1. ASSUME NEW batch \in Batches, NEW type \in SessionType,
             NEW customer \in CustomerId \cup {NoCustomer},
             NEW term \in Terms \cup {Absent}, NEW startedAt \in Instants,
             Start(batch, type, customer, term, startedAt)
      PROVE  TypeOK'
  <2>1. sessions' \in Seq(Session)
    BY <1>1, StartEffect
  <2>2. ComputerTable!TypeOK'
    BY <1>1, OccupyType DEF Start, TypeOK
  <2> QED
    BY <1>1, <2>1, <2>2
    DEF Start, TypeOK, RoomTable!TypeOK, CustomerTable!TypeOK
<1>2. ASSUME NEW i \in DOMAIN sessions, NEW term \in Terms \cup {Absent},
             Extend(i, term)
      PROVE  TypeOK'
  <2>1. sessions' \in Seq(Session)
    BY <1>2, ExtendEffect, SessionRewrite
  <2> QED
    BY <1>2, <2>1
    DEF Extend, TypeOK, ComputerTable!TypeOK, RoomTable!TypeOK, CustomerTable!TypeOK
<1>3. ASSUME NEW i \in DOMAIN sessions, NEW receipt \in Receipts \cup {Absent},
             NEW endedAt \in Instants, EndSession(i, receipt, endedAt),
             ReleaseComputer(sessions[i].computer) \/ UNCHANGED computers
      PROVE  TypeOK'
  <2>1. sessions' \in Seq(Session)
    BY <1>3, EndEffect, SessionRewrite
  <2>2. ComputerTable!TypeOK'
    BY <1>3, ReleaseType, SessionTyped DEF EndSession, TypeOK, ComputerTable!TypeOK
  <2>3. LedgerTypeOK'
    <3> DEFINE s == sessions[i]
               due == Finalize(s, endedAt)
               paid == Collected(due, receipt)
               shortfall == due - paid
    <3>1. shortfall \in Int /\ i \in Nat
      BY <1>3, EndEffect, SessionTyped
    <3>2. \/ UNCHANGED ledger
          \/ s.customer # NoCustomer /\ Insert(s.customer, "DEBT_ADD", shortfall, i)
      BY <1>3 DEF EndSession, AddDebt, MayOwe
    <3>3. s.customer \in CustomerId \cup {NoCustomer}
      BY SessionTyped
    <3> HIDE DEF s, shortfall
    <3> QED
      BY <3>1, <3>2, <3>3, InsertType DEF TypeOK, EntryType
  <2> QED
    BY <1>3, <2>1, <2>2, <2>3
    DEF EndSession, TypeOK, RoomTable!TypeOK, CustomerTable!TypeOK
<1>4. ASSUME NEW i \in DOMAIN sessions, NEW endedAt \in Instants,
             CancelSession(i, endedAt),
             ReleaseComputer(sessions[i].computer) \/ UNCHANGED computers
      PROVE  TypeOK'
  <2>1. sessions' \in Seq(Session)
    BY <1>4, CancelEffect, SessionRewrite
  <2>2. ComputerTable!TypeOK'
    BY <1>4, ReleaseType, SessionTyped DEF CancelSession, TypeOK, ComputerTable!TypeOK
  <2> QED
    BY <1>4, <2>1, <2>2
    DEF CancelSession, TypeOK, RoomTable!TypeOK, CustomerTable!TypeOK
<1>5. ASSUME NEW c \in CustomerId, NEW amount \in Payments, PayDebt(c, amount)
      PROVE  TypeOK'
  <2>1. LedgerTypeOK'
    <3> DEFINE signed == -amount
    <3>1. Insert(c, "DEBT_PAYMENT", signed, 0)
      BY <1>5 DEF PayDebt, RecordPayment
    <3>2. signed \in Int
      BY DeskAssumption
    <3> HIDE DEF signed
    <3> QED
      BY <3>1, <3>2, InsertType DEF TypeOK, EntryType
  <2> QED
    BY <1>5, <2>1
    DEF PayDebt, TypeOK, ComputerTable!TypeOK, RoomTable!TypeOK, CustomerTable!TypeOK
<1>6. ASSUME NEW c \in CustomerId, NEW amount \in Corrections, CorrectDebt(c, amount)
      PROVE  TypeOK'
  <2>1. LedgerTypeOK'
    <3>1. Insert(c, "DEBT_CORRECTION", amount, 0)
      BY <1>6 DEF CorrectDebt, Correct
    <3>2. amount \in Int
      BY DeskAssumption
    <3> QED
      BY <3>1, <3>2, InsertType DEF TypeOK, EntryType
  <2> QED
    BY <1>6, <2>1
    DEF CorrectDebt, TypeOK, ComputerTable!TypeOK, RoomTable!TypeOK, CustomerTable!TypeOK
<1>7. CASE ComputerAdmin
  BY <1>7, ComputerAdminType
  DEF ComputerAdmin, TypeOK, RoomTable!TypeOK, CustomerTable!TypeOK
<1>8. CASE RoomAdmin
  BY <1>8, RoomAdminType
  DEF RoomAdmin, TypeOK, ComputerTable!TypeOK, CustomerTable!TypeOK
<1>9. CASE CustomerAdmin
  BY <1>9, CustomerAdminType
  DEF CustomerAdmin, TypeOK, ComputerTable!TypeOK, RoomTable!TypeOK
<1>10. CASE Tick
  BY <1>10
  DEF Tick, TypeOK, ComputerTable!TypeOK, RoomTable!TypeOK, CustomerTable!TypeOK
<1>11. CASE UNCHANGED vars
  BY <1>11
  DEF vars, TypeOK, ComputerTable!TypeOK, RoomTable!TypeOK, CustomerTable!TypeOK
<1> QED
  BY <1>1, <1>2, <1>3, <1>4, <1>5, <1>6, <1>7, <1>8, <1>9, <1>10, <1>11
  DEF DeskMove, CloseOnly, Next, SessionRequest, DebtRequest, End, Cancel

\* The tables only ever hold rows of the entities' types, amounts stay integers.
THEOREM TypeCorrect == Spec => []TypeOK
  BY InitType, NextType, NextMoves, PTL DEF Spec

-----------------------------------------------------------------------------
(* One active session per computer *)

LEMMA ExtendedFields ==
  ASSUME NEW s \in Session, NEW term
  PROVE  /\ KeepsIdentity(s, Extended(s, term))
         /\ Extended(s, term).status = s.status
         /\ Extended(s, term).plannedEndAt = ExtendedEnd(s, term)
         /\ Extended(s, term).amountDue = ExtendedAmount(s, term)
         /\ Extended(s, term).amountPaid = s.amountPaid
         /\ Extended(s, term).endedAt = s.endedAt
BY DEF Extended, KeepsIdentity, Session

LEMMA ClosedFields ==
  ASSUME NEW s \in Session, NEW status, NEW endedAt, NEW due, NEW paid
  PROVE  LET t == Closed(s, status, endedAt, due, paid)
         IN  /\ KeepsIdentity(s, t)
             /\ t.status = status /\ t.endedAt = endedAt
             /\ t.amountDue = due /\ t.amountPaid = paid
             /\ t.plannedEndAt = s.plannedEndAt
BY DEF Closed, KeepsIdentity, Session

LEMMA NewFields ==
  ASSUME NEW c, NEW type, NEW customer, NEW group, NEW term, NEW startedAt
  PROVE  LET s == NewSession(c, type, customer, group, term, startedAt)
         IN  /\ s.computer = c /\ s.type = type /\ s.status = "ACTIVE"
             /\ s.ratePerHour = RateOf(c) /\ s.startedAt = startedAt
             /\ s.plannedEndAt = PlannedEnd(type, startedAt, term)
             /\ s.amountDue = PlannedAmount(type, RateOf(c), startedAt, term)
             /\ s.amountPaid = 0
BY DEF NewSession

\* Requests other than the four on sessions leave the sessions alone.
LEMMA SessionsFrame ==
  ASSUME \/ Tick \/ ComputerAdmin \/ RoomAdmin \/ CustomerAdmin \/ UNCHANGED vars
  PROVE  UNCHANGED <<sessions, ledger>>
BY DEF Tick, ComputerAdmin, RoomAdmin, CustomerAdmin, vars

LEMMA DebtFrame ==
  ASSUME NEW c, NEW amount, PayDebt(c, amount) \/ CorrectDebt(c, amount)
  PROVE  UNCHANGED sessions
BY DEF PayDebt, CorrectDebt

LEMMA OneActiveStep ==
  TypeOK /\ AtMostOneActive /\ [DeskMove]_vars => AtMostOneActive'
<1> SUFFICES ASSUME TypeOK, AtMostOneActive, [DeskMove]_vars PROVE AtMostOneActive'
  OBVIOUS
<1>1. ASSUME NEW batch \in Batches, NEW type \in SessionType,
             NEW customer \in CustomerId \cup {NoCustomer},
             NEW term \in Terms \cup {Absent}, NEW startedAt \in Instants,
             Start(batch, type, customer, term, startedAt)
      PROVE  AtMostOneActive'
  <2>1. SUFFICES ASSUME NEW i \in DOMAIN sessions', NEW j \in DOMAIN sessions',
                        sessions'[i].status = "ACTIVE", sessions'[j].status = "ACTIVE",
                        sessions'[i].computer = sessions'[j].computer
                 PROVE  i = j
    BY DEF AtMostOneActive, IsActive
  <2>2. ASSUME NEW k \in DOMAIN sessions' \ DOMAIN sessions
        PROVE  /\ k - Len(sessions) \in DOMAIN batch
               /\ sessions'[k].computer = batch[k - Len(sessions)]
               /\ ActiveOn(sessions'[k].computer) = {}
    <3>0. \A n \in DOMAIN sessions' \ DOMAIN sessions :
           /\ n - Len(sessions) \in DOMAIN batch
           /\ sessions'[n] = NewSession(batch[n - Len(sessions)], type, customer,
                                        GroupOf(batch), term, startedAt)
      BY <1>1, StartEffect
    <3>1. /\ k - Len(sessions) \in DOMAIN batch
          /\ sessions'[k] = NewSession(batch[k - Len(sessions)], type, customer,
                                       GroupOf(batch), term, startedAt)
      BY <3>0
    <3>2. sessions'[k].computer = batch[k - Len(sessions)]
      BY <3>1, NewFields
    <3> QED
      BY <1>1, <3>1, <3>2 DEF Start, IndexAllows
  <2>3. ASSUME NEW k \in DOMAIN sessions
        PROVE  sessions'[k] = sessions[k]
    BY <1>1, StartEffect
  <2>4. CASE i \in DOMAIN sessions /\ j \in DOMAIN sessions
    BY <2>1, <2>3, <2>4 DEF AtMostOneActive, IsActive
  <2>5. CASE i \in DOMAIN sessions /\ j \notin DOMAIN sessions
    <3>1. i \in ActiveOn(sessions'[j].computer)
      BY <2>1, <2>3, <2>5 DEF ActiveOn
    <3> QED
      BY <2>2, <2>5, <3>1
  <2>6. CASE i \notin DOMAIN sessions /\ j \in DOMAIN sessions
    <3>1. j \in ActiveOn(sessions'[i].computer)
      BY <2>1, <2>3, <2>6 DEF ActiveOn
    <3> QED
      BY <2>2, <2>6, <3>1
  <2>7. CASE i \notin DOMAIN sessions /\ j \notin DOMAIN sessions
    <3>1. i - Len(sessions) = j - Len(sessions)
      BY <2>1, <2>2, <2>7, BatchType
    <3>2. i \in Int /\ j \in Int /\ Len(sessions) \in Int
      BY <1>1, StartEffect DEF TypeOK
    <3> QED
      BY <3>1, <3>2
  <2> QED
    BY <2>4, <2>5, <2>6, <2>7
<1>2. ASSUME NEW i \in DOMAIN sessions, NEW t \in Session,
             sessions' = [sessions EXCEPT ![i] = t],
             KeepsIdentity(sessions[i], t),
             t.status = "ACTIVE" => IsActive(i)
      PROVE  AtMostOneActive'
  BY <1>2, SessionRewrite DEF AtMostOneActive, IsActive, KeepsIdentity
<1>3. ASSUME NEW i \in DOMAIN sessions, NEW term \in Terms \cup {Absent},
             Extend(i, term)
      PROVE  AtMostOneActive'
  BY <1>2, <1>3, ExtendEffect, SessionTyped, ExtendedFields DEF Extend
<1>4. ASSUME NEW i \in DOMAIN sessions, NEW receipt \in Receipts \cup {Absent},
             NEW endedAt \in Instants, EndSession(i, receipt, endedAt)
      PROVE  AtMostOneActive'
  BY <1>2, <1>4, EndEffect, SessionTyped, ClosedFields
<1>5. ASSUME NEW i \in DOMAIN sessions, NEW endedAt \in Instants,
             CancelSession(i, endedAt)
      PROVE  AtMostOneActive'
  BY <1>2, <1>5, CancelEffect, SessionTyped, ClosedFields
<1>6. ASSUME UNCHANGED sessions PROVE AtMostOneActive'
  BY <1>6 DEF AtMostOneActive, IsActive
<1> QED
  BY <1>1, <1>3, <1>4, <1>5, <1>6, SessionsFrame, DebtFrame
  DEF DeskMove, CloseOnly, Next, SessionRequest, DebtRequest, End, Cancel

\* session.entity.ts, "At most one ACTIVE session per computer": whatever the
\* cashiers and managers do, and in whatever order their requests commit.
THEOREM OneActivePerComputer == Spec => []AtMostOneActive
<1>1. Init => AtMostOneActive
  BY DEF Init, AtMostOneActive
<1> QED
  BY <1>1, TypeCorrect, OneActiveStep, NextMoves, PTL DEF Spec

-----------------------------------------------------------------------------
(* The debt of an ended session *)

\* A step that adds no entry and neither ends a session nor changes an ended
\* one keeps the books.
LEMMA BooksFrame ==
  ASSUME TypeOK, DebtMatchesShortfall, UNCHANGED ledger,
         DOMAIN sessions \subseteq DOMAIN sessions',
         \A i \in DOMAIN sessions : EndedShort(i)' <=> EndedShort(i),
         \A i \in DOMAIN sessions :
           EndedShort(i) => sessions'[i] = sessions[i],
         \A i \in DOMAIN sessions' \ DOMAIN sessions : ~EndedShort(i)'
  PROVE  DebtMatchesShortfall'
<1>1. ShortfallIsOwed'
  <2> SUFFICES ASSUME NEW i \in DOMAIN sessions', EndedShort(i)'
               PROVE  \E j \in DOMAIN ledger' : ledger'[j] = DebtEntryOf(i)'
    BY DEF ShortfallIsOwed
  <2>1. i \in DOMAIN sessions /\ EndedShort(i) /\ sessions'[i] = sessions[i]
    OBVIOUS
  <2>2. DebtEntryOf(i)' = DebtEntryOf(i)
    BY <2>1 DEF DebtEntryOf
  <2> QED
    BY <2>1, <2>2 DEF DebtMatchesShortfall, ShortfallIsOwed
<1>2. DebtHasShortfall'
  <2> SUFFICES ASSUME NEW j \in DOMAIN ledger
               PROVE  IF ledger[j].session = 0
                        THEN ledger[j].type # "DEBT_ADD"
                        ELSE /\ ledger[j].session \in DOMAIN sessions'
                             /\ EndedShort(ledger[j].session)'
                             /\ ledger[j] = DebtEntryOf(ledger[j].session)'
    BY DEF DebtHasShortfall, EndedShort, DebtEntryOf
  <2>1. CASE ledger[j].session = 0
    BY <2>1 DEF DebtMatchesShortfall, DebtHasShortfall
  <2>2. CASE ledger[j].session # 0
    <3> DEFINE i == ledger[j].session
    <3>1. i \in DOMAIN sessions /\ EndedShort(i) /\ ledger[j] = DebtEntryOf(i)
      BY <2>2 DEF DebtMatchesShortfall, DebtHasShortfall
    <3>2. DebtEntryOf(i)' = DebtEntryOf(i)
      BY <3>1 DEF DebtEntryOf
    <3> QED
      BY <2>2, <3>1, <3>2
  <2> QED
    BY <2>1, <2>2
<1>3. OwedOnce'
  BY DEF DebtMatchesShortfall, OwedOnce
<1> QED
  BY <1>1, <1>2, <1>3 DEF DebtMatchesShortfall

LEMMA BooksStep ==
  TypeOK /\ DebtMatchesShortfall /\ [DeskMove]_vars => DebtMatchesShortfall'
<1> SUFFICES ASSUME TypeOK, DebtMatchesShortfall, [DeskMove]_vars
             PROVE  DebtMatchesShortfall'
  OBVIOUS
<1>1. ASSUME NEW batch \in Batches, NEW type \in SessionType,
             NEW customer \in CustomerId \cup {NoCustomer},
             NEW term \in Terms \cup {Absent}, NEW startedAt \in Instants,
             Start(batch, type, customer, term, startedAt)
      PROVE  DebtMatchesShortfall'
  <2>1. UNCHANGED ledger
    BY <1>1 DEF Start
  <2>2. \A i \in DOMAIN sessions : sessions'[i] = sessions[i]
    BY <1>1, StartEffect
  <2>3. DOMAIN sessions \subseteq DOMAIN sessions'
    <3>1. /\ sessions \in Seq(Session) /\ sessions' \in Seq(Session)
          /\ Len(sessions') = Len(sessions) + Len(batch)
      BY <1>1, StartEffect DEF TypeOK
    <3>2. Len(batch) \in Nat
      BY BatchType
    <3> QED
      BY <3>1, <3>2
  <2>4. \A i \in DOMAIN sessions' \ DOMAIN sessions :
          /\ i - Len(sessions) \in DOMAIN batch
          /\ sessions'[i] = NewSession(batch[i - Len(sessions)], type, customer,
                                       GroupOf(batch), term, startedAt)
    BY <1>1, StartEffect
  <2>5. \A i \in DOMAIN sessions' \ DOMAIN sessions : sessions'[i].status = "ACTIVE"
    BY <2>4, NewFields
  <2> QED
    BY <2>1, <2>2, <2>3, <2>5, BooksFrame DEF EndedShort
<1>2. ASSUME NEW i \in DOMAIN sessions, IsActive(i), NEW t \in Session,
             sessions' = [sessions EXCEPT ![i] = t], UNCHANGED ledger,
             t.status = "ENDED" => t.amountPaid = t.amountDue
      PROVE  DebtMatchesShortfall'
  <2>1. /\ DOMAIN sessions' = DOMAIN sessions
        /\ sessions'[i] = t
        /\ \A j \in DOMAIN sessions \ {i} : sessions'[j] = sessions[j]
    BY <1>2, SessionRewrite
  <2>2. t.amountPaid \in Int /\ t.amountDue \in Int
    BY DEF Session
  <2>3. ~EndedShort(i) /\ ~EndedShort(i)'
    BY <1>2, <2>1, <2>2 DEF EndedShort, IsActive
  <2> QED
    BY <1>2, <2>1, <2>3, BooksFrame DEF EndedShort
<1>3. ASSUME NEW i \in DOMAIN sessions, NEW term \in Terms \cup {Absent},
             Extend(i, term)
      PROVE  DebtMatchesShortfall'
  BY <1>2, <1>3, ExtendEffect, ExtendedFields, SessionTyped DEF Extend, IsActive
<1>4. ASSUME NEW i \in DOMAIN sessions, NEW receipt \in Receipts \cup {Absent},
             NEW endedAt \in Instants, EndSession(i, receipt, endedAt)
      PROVE  DebtMatchesShortfall'
  <2> DEFINE due == Finalize(sessions[i], endedAt)
             paid == Collected(due, receipt)
             short == due - paid
             t == Closed(sessions[i], "ENDED", endedAt, due, paid)
  <2>1. /\ due \in Int /\ paid \in Int /\ t \in Session
        /\ sessions' = [sessions EXCEPT ![i] = t]
        /\ t.amountDue = due /\ t.amountPaid = paid /\ t.status = "ENDED"
        /\ t.customer = sessions[i].customer
    BY <1>4, EndEffect, SessionTyped, ClosedFields DEF KeepsIdentity
  <2>2. \/ paid = due /\ UNCHANGED ledger
        \/ /\ paid < due /\ sessions[i].customer # NoCustomer
           /\ Insert(sessions[i].customer, "DEBT_ADD", short, i)
    BY <1>4 DEF EndSession, AddDebt, MayOwe
  <2>3. IsActive(i)
    BY <1>4 DEF EndSession
  <2>4. /\ DOMAIN sessions' = DOMAIN sessions
        /\ sessions'[i] = t
        /\ \A j \in DOMAIN sessions \ {i} : sessions'[j] = sessions[j]
    BY <2>1, SessionRewrite
  <2>5. short \in Int
    BY <2>1
  <2> HIDE DEF due, paid, t, short
  <2>6. CASE paid = due /\ UNCHANGED ledger
    BY <1>2, <2>1, <2>3, <2>6
  <2>7. CASE /\ paid < due /\ sessions[i].customer # NoCustomer
             /\ Insert(sessions[i].customer, "DEBT_ADD", short, i)
    <3> DEFINE entry == [customer |-> sessions[i].customer, type |-> "DEBT_ADD",
                         amount |-> short, session |-> i]
    <3>1. /\ LedgerTypeOK /\ LedgerTypeOK' /\ Len(ledger') = Len(ledger) + 1
          /\ \A j \in DOMAIN ledger : ledger'[j] = ledger[j]
          /\ ledger'[Len(ledger) + 1] = entry
      <4>1. sessions[i].customer \in CustomerId /\ i \in Nat
        BY <2>7, SessionTyped
      <4>2. LedgerTypeOK /\ "DEBT_ADD" \in EntryType
        BY DEF TypeOK, EntryType
      <4> QED
        BY <2>5, <2>7, <4>1, <4>2, InsertType
    <3>2. /\ DOMAIN ledger' = DOMAIN ledger \cup {Len(ledger) + 1}
          /\ Len(ledger) + 1 \notin DOMAIN ledger
      BY <3>1 DEF LedgerTypeOK
    <3>3. entry = DebtEntryOf(i)' /\ EndedShort(i)' /\ ~EndedShort(i)
      BY <2>1, <2>3, <2>4, <2>7 DEF DebtEntryOf, EndedShort, IsActive, short
    <3>4. \A j \in DOMAIN ledger : ledger[j].session # i
      BY <2>3, SessionTyped
      DEF DebtMatchesShortfall, DebtHasShortfall, EndedShort, IsActive
    <3>5. \A k \in DOMAIN sessions \ {i} :
            (EndedShort(k)' <=> EndedShort(k)) /\ DebtEntryOf(k)' = DebtEntryOf(k)
      BY <2>4 DEF EndedShort, DebtEntryOf
    <3>6. entry.session = i /\ i # 0
      BY SessionTyped
    <3> HIDE DEF entry
    <3>7. ShortfallIsOwed'
      <4> SUFFICES ASSUME NEW k \in DOMAIN sessions', EndedShort(k)'
                   PROVE  \E j \in DOMAIN ledger' : ledger'[j] = DebtEntryOf(k)'
        BY DEF ShortfallIsOwed
      <4>1. CASE k = i
        BY <3>1, <3>2, <3>3, <4>1
      <4>2. CASE k # i
        <5>1. PICK j \in DOMAIN ledger : ledger[j] = DebtEntryOf(k)
          BY <2>4, <3>5, <4>2 DEF DebtMatchesShortfall, ShortfallIsOwed
        <5> QED
          BY <2>4, <3>1, <3>2, <3>5, <4>2, <5>1
      <4> QED
        BY <4>1, <4>2
    <3>8. DebtHasShortfall'
      <4> SUFFICES ASSUME NEW j \in DOMAIN ledger', NEW e, e = ledger'[j]
                   PROVE  IF e.session = 0
                            THEN e.type # "DEBT_ADD"
                            ELSE /\ e.session \in DOMAIN sessions'
                                 /\ EndedShort(e.session)'
                                 /\ e = DebtEntryOf(e.session)'
        BY DEF DebtHasShortfall, EndedShort, DebtEntryOf
      <4>1. CASE j \in DOMAIN ledger
        <5>1. e = ledger[j] /\ ledger[j].session # i
          BY <3>1, <3>4, <4>1
        <5> QED
          BY <2>4, <3>5, <4>1, <5>1 DEF DebtMatchesShortfall, DebtHasShortfall
      <4>2. CASE j = Len(ledger) + 1
        BY <2>4, <3>1, <3>3, <3>6, <4>2
      <4> QED
        BY <3>2, <4>1, <4>2
    <3>9. OwedOnce'
      BY <3>1, <3>2, <3>4, <3>6 DEF DebtMatchesShortfall, OwedOnce
    <3> QED
      BY <3>7, <3>8, <3>9 DEF DebtMatchesShortfall
  <2> QED
    BY <2>2, <2>6, <2>7
<1>5. ASSUME NEW i \in DOMAIN sessions, NEW endedAt \in Instants,
             CancelSession(i, endedAt)
      PROVE  DebtMatchesShortfall'
  <2> DEFINE t == Closed(sessions[i], "CANCELLED", endedAt, 0, 0)
  <2>1. t \in Session /\ sessions' = [sessions EXCEPT ![i] = t]
    BY <1>5, CancelEffect
  <2>2. t.status = "CANCELLED"
    BY SessionTyped, ClosedFields
  <2>3. IsActive(i) /\ UNCHANGED ledger
    BY <1>5 DEF CancelSession
  <2> HIDE DEF t
  <2> QED
    BY <1>2, <2>1, <2>2, <2>3
<1>6. ASSUME UNCHANGED sessions, NEW c \in CustomerId, NEW type \in EntryType,
             NEW amount \in Int, type # "DEBT_ADD", Insert(c, type, amount, 0)
      PROVE  DebtMatchesShortfall'
  <2>1. /\ LedgerTypeOK /\ LedgerTypeOK' /\ Len(ledger') = Len(ledger) + 1
        /\ \A j \in DOMAIN ledger : ledger'[j] = ledger[j]
        /\ ledger'[Len(ledger) + 1].session = 0
        /\ ledger'[Len(ledger) + 1].type # "DEBT_ADD"
    <3>1. /\ LedgerTypeOK /\ LedgerTypeOK' /\ Len(ledger') = Len(ledger) + 1
          /\ \A j \in DOMAIN ledger : ledger'[j] = ledger[j]
          /\ ledger'[Len(ledger) + 1] =
               [customer |-> c, type |-> type, amount |-> amount, session |-> 0]
      BY <1>6, InsertType DEF TypeOK
    <3> QED
      BY <1>6, <3>1
  <2>2. DOMAIN ledger' = DOMAIN ledger \cup {Len(ledger) + 1}
    BY <2>1 DEF LedgerTypeOK
  <2>3. \A i : (EndedShort(i)' <=> EndedShort(i)) /\ DebtEntryOf(i)' = DebtEntryOf(i)
    BY <1>6 DEF EndedShort, DebtEntryOf
  <2>4. ShortfallIsOwed'
    <3> SUFFICES ASSUME NEW k \in DOMAIN sessions, EndedShort(k)
                 PROVE  \E j \in DOMAIN ledger' : ledger'[j] = DebtEntryOf(k)
      BY <1>6, <2>3 DEF ShortfallIsOwed
    <3>1. PICK j \in DOMAIN ledger : ledger[j] = DebtEntryOf(k)
      BY DEF DebtMatchesShortfall, ShortfallIsOwed
    <3> QED
      BY <2>1, <2>2, <3>1
  <2>5. DebtHasShortfall'
    <3> SUFFICES ASSUME NEW j \in DOMAIN ledger', NEW e, e = ledger'[j]
                 PROVE  IF e.session = 0
                          THEN e.type # "DEBT_ADD"
                          ELSE /\ e.session \in DOMAIN sessions'
                               /\ EndedShort(e.session)'
                               /\ e = DebtEntryOf(e.session)'
      BY DEF DebtHasShortfall, EndedShort, DebtEntryOf
    <3>1. CASE j \in DOMAIN ledger
      BY <1>6, <2>1, <2>3, <3>1 DEF DebtMatchesShortfall, DebtHasShortfall
    <3>2. CASE j = Len(ledger) + 1
      BY <2>1, <3>2
    <3> QED
      BY <2>2, <3>1, <3>2
  <2>6. OwedOnce'
    BY <2>1, <2>2 DEF DebtMatchesShortfall, OwedOnce
  <2> QED
    BY <2>4, <2>5, <2>6 DEF DebtMatchesShortfall
<1>7. ASSUME NEW c \in CustomerId, NEW amount \in Payments, PayDebt(c, amount)
      PROVE  DebtMatchesShortfall'
  <2> DEFINE signed == -amount
  <2>1. Insert(c, "DEBT_PAYMENT", signed, 0) /\ UNCHANGED sessions
    BY <1>7 DEF PayDebt, RecordPayment
  <2>2. signed \in Int
    BY DeskAssumption
  <2> HIDE DEF signed
  <2> QED
    BY <1>6, <2>1, <2>2 DEF EntryType
<1>8. ASSUME NEW c \in CustomerId, NEW amount \in Corrections, CorrectDebt(c, amount)
      PROVE  DebtMatchesShortfall'
  <2>1. Insert(c, "DEBT_CORRECTION", amount, 0) /\ UNCHANGED sessions
    BY <1>8 DEF CorrectDebt, Correct
  <2>2. amount \in Int
    BY DeskAssumption
  <2> QED
    BY <1>6, <2>1, <2>2 DEF EntryType
<1>9. ASSUME UNCHANGED <<sessions, ledger>> PROVE DebtMatchesShortfall'
  BY <1>9, BooksFrame DEF EndedShort
<1> QED
  BY <1>1, <1>3, <1>4, <1>5, <1>7, <1>8, <1>9, SessionsFrame
  DEF DeskMove, CloseOnly, Next, SessionRequest, DebtRequest, End, Cancel

\* README.md, "the amount due and the debt can never disagree": for every
\* customer, price and order of requests, an ended session's shortfall is in the
\* ledger exactly once, and nothing is there for a session that is not short.
THEOREM AmountDueAndDebtAgree == Spec => []DebtMatchesShortfall
<1>1. Init => DebtMatchesShortfall
  BY DEF Init, DebtMatchesShortfall, ShortfallIsOwed, DebtHasShortfall, OwedOnce
<1> QED
  BY <1>1, TypeCorrect, BooksStep, NextMoves, PTL DEF Spec

-----------------------------------------------------------------------------
(* The charge of a session *)

\* A fixed session's charge is never negative; needed to know that the amount
\* collected by default, everything due, is not negative either.
ChargeInv ==
  \A i \in DOMAIN sessions :
    ChargedFor(sessions[i]) /\ sessions[i].amountDue \in Nat

LEMMA PlannedCharge ==
  ASSUME NEW type \in SessionType, NEW rate \in Nat, NEW startedAt \in Nat,
         NEW term \in Int, type # "OPEN_SESSION"
  PROVE  PlannedAmount(type, rate, startedAt, term) =
           ForDuration(rate, DiffSeconds(startedAt, PlannedEnd(type, startedAt, term)))
<1>1. CASE type = "FIXED_DURATION"
  <2>1. PlannedSeconds(type, startedAt, term) = term * 60
    BY <1>1, Zenon DEF PlannedSeconds
  <2>2. PlannedEnd(type, startedAt, term) = startedAt + term * MsPerMinute
    BY <1>1, Zenon DEF PlannedEnd
  <2>3. DiffSeconds(startedAt, startedAt + term * MsPerMinute) = term * 60
    BY DiffSecondsOfMinutes
  <2> QED
    BY <1>1, <2>1, <2>2, <2>3 DEF PlannedAmount
<1>2. CASE type = "FIXED_END_TIME"
  <2>1. PlannedSeconds(type, startedAt, term) = DiffSeconds(startedAt, term)
    BY <1>2, Zenon DEF PlannedSeconds
  <2>2. PlannedEnd(type, startedAt, term) = term
    BY <1>2, Zenon DEF PlannedEnd
  <2> QED
    BY <1>2, <2>1, <2>2 DEF PlannedAmount
<1> QED
  BY <1>1, <1>2 DEF SessionType

LEMMA StartedCharge ==
  ASSUME TypeOK, NEW c \in ComputerId, NEW type \in SessionType, NEW customer,
         NEW group, NEW term \in Int, NEW startedAt \in Nat,
         CanPlan(type, RateOf(c), startedAt, term)
  PROVE  LET s == NewSession(c, type, customer, group, term, startedAt)
         IN  ChargedFor(s) /\ s.amountDue \in Nat
<1> DEFINE s == NewSession(c, type, customer, group, term, startedAt)
<1>1. RateOf(c) \in Nat
  BY DEF TypeOK, ComputerTable!TypeOK, ComputerTable!Row, ComputerData,
         RoomTable!TypeOK, RoomTable!Row, RoomData, RateOf
<1>2. s.amountDue \in Nat
  BY <1>1, PlanType, NewFields
<1>3. type = "OPEN_SESSION" => s.amountDue = 0
  BY NewFields DEF PlannedAmount
<1>4. type # "OPEN_SESSION" =>
        s.amountDue = ForDuration(s.ratePerHour, DiffSeconds(s.startedAt, s.plannedEndAt))
  BY <1>1, NewFields, PlannedCharge
<1>5. s.status = "ACTIVE" /\ s.type = type /\ s.amountPaid = 0
  BY NewFields
<1> HIDE DEF s
<1> QED
  BY <1>2, <1>3, <1>4, <1>5 DEF ChargedFor, BilledSeconds, s

LEMMA ExtendedCharge ==
  ASSUME NEW s \in Session, NEW term \in Int, CanExtend(s, term),
         s.status = "ACTIVE", ChargedFor(s)
  PROVE  ChargedFor(Extended(s, term)) /\ Extended(s, term).amountDue \in Nat
<1> DEFINE t == Extended(s, term)
<1>1. /\ t.status = "ACTIVE" /\ t.type = s.type /\ t.startedAt = s.startedAt
      /\ t.ratePerHour = s.ratePerHour /\ t.plannedEndAt = ExtendedEnd(s, term)
      /\ t.amountDue = ExtendedAmount(s, term) /\ t.amountPaid = s.amountPaid
  BY ExtendedFields DEF KeepsIdentity
<1>2. s.type # "OPEN_SESSION" /\ ExtendedAmount(s, term) \in Nat
  BY ExtendType
<1>3. s.amountPaid = 0
  BY DEF ChargedFor
<1> HIDE DEF t
<1>4. t.amountDue = ForDuration(t.ratePerHour, BilledSeconds(t))
  BY <1>1, <1>2 DEF ExtendedAmount, ExtendedSeconds, BilledSeconds
<1> QED
  BY <1>1, <1>2, <1>3, <1>4 DEF ChargedFor, t

LEMMA EndedCharge ==
  ASSUME NEW s \in Session, NEW endedAt \in Int, CanFinalize(s, endedAt),
         NEW receipt \in Nat \cup {Absent},
         Collected(Finalize(s, endedAt), receipt) <= Finalize(s, endedAt),
         s.status = "ACTIVE", ChargedFor(s), s.amountDue \in Nat
  PROVE  LET due == Finalize(s, endedAt)
             t == Closed(s, "ENDED", endedAt, due, Collected(due, receipt))
         IN  ChargedFor(t) /\ t.amountDue \in Nat
<1> DEFINE due == Finalize(s, endedAt)
           paid == Collected(due, receipt)
           t == Closed(s, "ENDED", endedAt, due, paid)
<1>1. due \in Nat
  BY FinalizeType DEF Finalize
<1>2. paid \in 0 .. due
  BY <1>1 DEF Collected
<1>3. /\ t.status = "ENDED" /\ t.endedAt = endedAt /\ t.plannedEndAt = s.plannedEndAt
      /\ t.amountDue = due /\ t.amountPaid = paid
      /\ t.type = s.type /\ t.startedAt = s.startedAt /\ t.ratePerHour = s.ratePerHour
  BY ClosedFields DEF KeepsIdentity
<1>4. CASE s.type = "OPEN_SESSION"
  <2>1. due = ForDuration(s.ratePerHour, UsedSeconds(s, endedAt))
    BY <1>4 DEF Finalize
  <2>2. BilledSeconds(t) = UsedSeconds(s, endedAt)
    BY <1>3, <1>4 DEF BilledSeconds, UsedSeconds
  <2> HIDE DEF due, paid, t
  <2> QED
    BY <1>1, <1>2, <1>3, <2>1, <2>2 DEF ChargedFor, due, paid, t
<1>5. CASE s.type # "OPEN_SESSION"
  <2>1. due = ForDuration(s.ratePerHour, BilledSeconds(s))
    BY <1>5 DEF Finalize, ChargedFor
  <2>2. BilledSeconds(t) = BilledSeconds(s)
    BY <1>3, <1>5 DEF BilledSeconds
  <2> HIDE DEF due, paid, t
  <2> QED
    BY <1>1, <1>2, <1>3, <2>1, <2>2 DEF ChargedFor, due, paid, t
<1> QED
  BY <1>4, <1>5

LEMMA CancelledCharge ==
  ASSUME NEW s \in Session, NEW endedAt
  PROVE  LET t == Closed(s, "CANCELLED", endedAt, 0, 0)
         IN  ChargedFor(t) /\ t.amountDue \in Nat
BY ClosedFields DEF ChargedFor

LEMMA ChargeStep == TypeOK /\ ChargeInv /\ [DeskMove]_vars => ChargeInv'
<1> SUFFICES ASSUME TypeOK, ChargeInv, [DeskMove]_vars PROVE ChargeInv'
  OBVIOUS
<1>1. ASSUME NEW batch \in Batches, NEW type \in SessionType,
             NEW customer \in CustomerId \cup {NoCustomer},
             NEW term \in Terms \cup {Absent}, NEW startedAt \in Instants,
             Start(batch, type, customer, term, startedAt)
      PROVE  ChargeInv'
  <2>1. term \in Int /\ startedAt \in Nat
    BY DeskAssumption DEF Absent
  <2>2. \A k \in DOMAIN batch :
          batch[k] \in ComputerId /\ CanPlan(type, RateOf(batch[k]), startedAt, term)
    BY <1>1, BatchType DEF Start
  <2>3. \A i \in DOMAIN sessions : sessions'[i] = sessions[i]
    BY <1>1, StartEffect
  <2>4. \A i \in DOMAIN sessions' \ DOMAIN sessions :
          /\ i - Len(sessions) \in DOMAIN batch
          /\ sessions'[i] = NewSession(batch[i - Len(sessions)], type, customer,
                                       GroupOf(batch), term, startedAt)
    BY <1>1, StartEffect
  <2>5. ASSUME NEW i \in DOMAIN sessions' \ DOMAIN sessions
        PROVE  ChargedFor(sessions'[i]) /\ sessions'[i].amountDue \in Nat
    BY <2>1, <2>2, <2>4, StartedCharge
  <2> QED
    BY <2>3, <2>5 DEF ChargeInv
<1>2. ASSUME NEW i \in DOMAIN sessions, NEW t \in Session,
             sessions' = [sessions EXCEPT ![i] = t],
             ChargedFor(t), t.amountDue \in Nat
      PROVE  ChargeInv'
  BY <1>2, SessionRewrite DEF ChargeInv
<1>3. ASSUME NEW i \in DOMAIN sessions, NEW term \in Terms \cup {Absent},
             Extend(i, term)
      PROVE  ChargeInv'
  <2>1. term \in Int /\ sessions[i] \in Session
    BY DeskAssumption, SessionTyped DEF Absent
  <2>2. ChargedFor(Extended(sessions[i], term)) /\ Extended(sessions[i], term).amountDue \in Nat
    BY <1>3, <2>1, ExtendedCharge DEF Extend, IsActive, ChargeInv
  <2> QED
    BY <1>2, <1>3, <2>2, ExtendEffect
<1>4. ASSUME NEW i \in DOMAIN sessions, NEW receipt \in Receipts \cup {Absent},
             NEW endedAt \in Instants, EndSession(i, receipt, endedAt)
      PROVE  ChargeInv'
  <2> DEFINE due == Finalize(sessions[i], endedAt)
             paid == Collected(due, receipt)
             t == Closed(sessions[i], "ENDED", endedAt, due, paid)
  <2>1. receipt \in Nat \cup {Absent} /\ endedAt \in Int /\ sessions[i] \in Session
    BY DeskAssumption, SessionTyped
  <2>2. /\ CanFinalize(sessions[i], endedAt) /\ paid <= due
        /\ sessions[i].status = "ACTIVE"
    BY <1>4 DEF EndSession, IsActive
  <2>3. ChargedFor(t) /\ t.amountDue \in Nat
    BY <2>1, <2>2, EndedCharge DEF ChargeInv
  <2>4. t \in Session /\ sessions' = [sessions EXCEPT ![i] = t]
    BY <1>4, EndEffect
  <2> HIDE DEF t
  <2> QED
    BY <1>2, <2>3, <2>4
<1>5. ASSUME NEW i \in DOMAIN sessions, NEW endedAt \in Instants,
             CancelSession(i, endedAt)
      PROVE  ChargeInv'
  <2> DEFINE t == Closed(sessions[i], "CANCELLED", endedAt, 0, 0)
  <2>1. t \in Session /\ sessions' = [sessions EXCEPT ![i] = t]
    BY <1>5, CancelEffect
  <2>2. ChargedFor(t) /\ t.amountDue \in Nat
    BY SessionTyped, CancelledCharge
  <2> HIDE DEF t
  <2> QED
    BY <1>2, <2>1, <2>2
<1>6. ASSUME UNCHANGED sessions PROVE ChargeInv'
  BY <1>6 DEF ChargeInv
<1> QED
  BY <1>1, <1>3, <1>4, <1>5, <1>6, SessionsFrame, DebtFrame
  DEF DeskMove, CloseOnly, Next, SessionRequest, DebtRequest, End, Cancel

\* "amountDue is the deterministic, integer charge" (session.entity.ts): at every
\* rate and after any extensions it is the half-up price of the billed time, and
\* what was collected is between nothing and that.
THEOREM ChargesMatchTime == Spec => []ChargeMatchesTime
<1>1. Init => ChargeInv
  BY DEF Init, ChargeInv
<1>2. ChargeInv => ChargeMatchesTime
  BY DEF ChargeInv, ChargeMatchesTime
<1> QED
  BY <1>1, <1>2, TypeCorrect, ChargeStep, NextMoves, PTL DEF Spec

-----------------------------------------------------------------------------
(* Nothing rewrites history *)

LEMMA LedgerStep ==
  ASSUME TypeOK, [DeskMove]_vars
  PROVE  \A j \in DOMAIN ledger : j \in DOMAIN ledger' /\ ledger'[j] = ledger[j]
<1>1. ASSUME NEW c, NEW type, NEW amount, NEW session, Insert(c, type, amount, session)
      PROVE  \A j \in DOMAIN ledger : j \in DOMAIN ledger' /\ ledger'[j] = ledger[j]
  BY <1>1 DEF Insert, TypeOK, LedgerTypeOK
<1>2. \/ UNCHANGED ledger
      \/ \E c, type, amount, session : Insert(c, type, amount, session)
  BY DEF Next, SessionRequest, DebtRequest, Start, Extend, End, EndSession, AddDebt,
         Cancel, CancelSession, DeskMove, CloseOnly,
         PayDebt, RecordPayment, CorrectDebt, Correct, Tick, ComputerAdmin,
         RoomAdmin, CustomerAdmin, vars
<1> QED
  BY <1>1, <1>2

LEMMA HistoryOfStep == TypeOK /\ [DeskMove]_vars => HistoryStep
<1> SUFFICES ASSUME TypeOK, [DeskMove]_vars
             PROVE  \A i \in DOMAIN sessions :
                      /\ i \in DOMAIN sessions'
                      /\ KeepsIdentity(sessions[i], sessions'[i])
                      /\ ~IsActive(i) => sessions'[i] = sessions[i]
  BY LedgerStep DEF HistoryStep
<1> DEFINE Kept == \A i \in DOMAIN sessions :
             /\ i \in DOMAIN sessions'
             /\ KeepsIdentity(sessions[i], sessions'[i])
             /\ ~IsActive(i) => sessions'[i] = sessions[i]
<1>1. ASSUME NEW batch \in Batches, NEW type \in SessionType,
             NEW customer \in CustomerId \cup {NoCustomer},
             NEW term \in Terms \cup {Absent}, NEW startedAt \in Instants,
             Start(batch, type, customer, term, startedAt)
      PROVE  Kept
  <2>1. /\ sessions \in Seq(Session) /\ sessions' \in Seq(Session)
        /\ Len(sessions') = Len(sessions) + Len(batch)
        /\ \A i \in DOMAIN sessions : sessions'[i] = sessions[i]
    BY <1>1, StartEffect DEF TypeOK
  <2>2. Len(batch) \in Nat
    BY BatchType
  <2>3. DOMAIN sessions \subseteq DOMAIN sessions'
    BY <2>1, <2>2
  <2> QED
    BY <2>1, <2>3 DEF KeepsIdentity
<1>2. ASSUME NEW i \in DOMAIN sessions, NEW t \in Session, IsActive(i),
             sessions' = [sessions EXCEPT ![i] = t], KeepsIdentity(sessions[i], t)
      PROVE  Kept
  BY <1>2, SessionRewrite DEF KeepsIdentity
<1>3. ASSUME NEW i \in DOMAIN sessions, NEW term \in Terms \cup {Absent},
             Extend(i, term)
      PROVE  Kept
  BY <1>2, <1>3, ExtendEffect, SessionTyped, ExtendedFields DEF Extend
<1>4. ASSUME NEW i \in DOMAIN sessions, NEW receipt \in Receipts \cup {Absent},
             NEW endedAt \in Instants, EndSession(i, receipt, endedAt)
      PROVE  Kept
  <2>1. IsActive(i)
    BY <1>4 DEF EndSession
  <2> QED
    BY <1>2, <1>4, <2>1, EndEffect, SessionTyped, ClosedFields
<1>5. ASSUME NEW i \in DOMAIN sessions, NEW endedAt \in Instants,
             CancelSession(i, endedAt)
      PROVE  Kept
  <2>1. IsActive(i)
    BY <1>5 DEF CancelSession
  <2> QED
    BY <1>2, <1>5, <2>1, CancelEffect, SessionTyped, ClosedFields
<1>6. ASSUME UNCHANGED sessions PROVE Kept
  BY <1>6 DEF KeepsIdentity
<1> QED
  BY <1>1, <1>3, <1>4, <1>5, <1>6, SessionsFrame, DebtFrame
  DEF DeskMove, CloseOnly, Next, SessionRequest, DebtRequest, End, Cancel

\* A session keeps its rate, start, computer and customer whatever happens to the
\* room's price, nothing changes once it has closed, and the ledger only grows.
THEOREM HistoryIsKept == Spec => HistoryKept
  BY TypeCorrect, HistoryOfStep, NextMoves, PTL DEF Spec, HistoryKept

-----------------------------------------------------------------------------
(* Extensions *)

\* A fixed session has a planned end, at a representable distance from its start.
\* (The column is nullable and the code of extend() allows for null; only an open
\* session has it.)  Without this an extension could replace a null.
ScheduleInv ==
  \A i \in DOMAIN sessions :
    sessions[i].type # "OPEN_SESSION" =>
      /\ sessions[i].plannedEndAt \in Nat
      /\ DiffSeconds(sessions[i].startedAt, sessions[i].plannedEndAt) \in Nat

LEMMA PlannedSchedule ==
  ASSUME NEW type \in SessionType, NEW rate, NEW startedAt \in Nat,
         NEW term \in Nat \cup {Absent}, type # "OPEN_SESSION",
         CanPlan(type, rate, startedAt, term)
  PROVE  /\ PlannedEnd(type, startedAt, term) \in Nat
         /\ DiffSeconds(startedAt, PlannedEnd(type, startedAt, term)) \in Nat
<1>1. term \in Nat /\ PlannedSeconds(type, startedAt, term) \in Nat
  BY DEF CanPlan, Chargeable
<1>2. CASE type = "FIXED_DURATION"
  <2>1. PlannedEnd(type, startedAt, term) = startedAt + term * MsPerMinute
    BY <1>2, Zenon DEF PlannedEnd
  <2>2. DiffSeconds(startedAt, startedAt + term * MsPerMinute) = term * 60
    BY <1>1, DiffSecondsOfMinutes
  <2> QED
    BY <1>1, <2>1, <2>2 DEF MsPerMinute
<1>3. CASE type = "FIXED_END_TIME"
  <2>1. PlannedEnd(type, startedAt, term) = term
    BY <1>3, Zenon DEF PlannedEnd
  <2>2. PlannedSeconds(type, startedAt, term) = DiffSeconds(startedAt, term)
    BY <1>3, Zenon DEF PlannedSeconds
  <2> QED
    BY <1>1, <2>1, <2>2
<1> QED
  BY <1>2, <1>3 DEF SessionType

\* What extend() does to one session: a later end, and no smaller charge.
LEMMA ExtendedSchedule ==
  ASSUME NEW s \in Session, NEW term \in Int, CanExtend(s, term),
         s.plannedEndAt \in Nat
  PROVE  /\ ExtendedEnd(s, term) \in Nat
         /\ ExtendedEnd(s, term) > s.plannedEndAt
         /\ DiffSeconds(s.startedAt, ExtendedEnd(s, term)) \in Nat
<1>1. s.plannedEndAt # Absent
  BY DEF Absent
<1>2. DiffSeconds(s.startedAt, ExtendedEnd(s, term)) \in Nat
  BY DEF CanExtend, Chargeable, ExtendedSeconds
<1>3. CASE s.type = "FIXED_DURATION"
  <2>1. term > 0
    BY <1>3 DEF CanExtend
  <2>2. ExtendedEnd(s, term) = s.plannedEndAt + term * MsPerMinute
    BY <1>1, <1>3 DEF ExtendedEnd
  <2> QED
    BY <1>2, <2>1, <2>2 DEF MsPerMinute
<1>4. CASE s.type = "FIXED_END_TIME"
  <2>1. term > s.plannedEndAt
    BY <1>1, <1>4 DEF CanExtend
  <2>2. ExtendedEnd(s, term) = term
    BY <1>4 DEF ExtendedEnd
  <2> QED
    BY <1>2, <2>1, <2>2
<1> QED
  BY <1>3, <1>4 DEF CanExtend

LEMMA ScheduleStep == TypeOK /\ ScheduleInv /\ [DeskMove]_vars => ScheduleInv'
<1> SUFFICES ASSUME TypeOK, ScheduleInv, [DeskMove]_vars PROVE ScheduleInv'
  OBVIOUS
<1>1. ASSUME NEW batch \in Batches, NEW type \in SessionType,
             NEW customer \in CustomerId \cup {NoCustomer},
             NEW term \in Terms \cup {Absent}, NEW startedAt \in Instants,
             Start(batch, type, customer, term, startedAt)
      PROVE  ScheduleInv'
  <2>1. term \in Nat \cup {Absent} /\ startedAt \in Nat
    BY DeskAssumption
  <2>2. \A i \in DOMAIN sessions : sessions'[i] = sessions[i]
    BY <1>1, StartEffect
  <2>3. \A i \in DOMAIN sessions' \ DOMAIN sessions :
          /\ i - Len(sessions) \in DOMAIN batch
          /\ sessions'[i] = NewSession(batch[i - Len(sessions)], type, customer,
                                       GroupOf(batch), term, startedAt)
    BY <1>1, StartEffect
  <2>4. ASSUME NEW i \in DOMAIN sessions' \ DOMAIN sessions,
               sessions'[i].type # "OPEN_SESSION"
        PROVE  /\ sessions'[i].plannedEndAt \in Nat
               /\ DiffSeconds(sessions'[i].startedAt, sessions'[i].plannedEndAt) \in Nat
    <3>1. PICK c : /\ sessions'[i] = NewSession(c, type, customer, GroupOf(batch),
                                                term, startedAt)
                   /\ CanPlan(type, RateOf(c), startedAt, term)
      BY <1>1, <2>3 DEF Start
    <3>2. /\ sessions'[i].type = type /\ sessions'[i].startedAt = startedAt
          /\ sessions'[i].plannedEndAt = PlannedEnd(type, startedAt, term)
      BY <3>1, NewFields
    <3>3. type # "OPEN_SESSION"
      BY <2>4, <3>2
    <3>4. /\ PlannedEnd(type, startedAt, term) \in Nat
          /\ DiffSeconds(startedAt, PlannedEnd(type, startedAt, term)) \in Nat
      BY <2>1, <3>1, <3>3, PlannedSchedule
    <3> QED
      BY <3>2, <3>4
  <2> QED
    BY <2>2, <2>4 DEF ScheduleInv
<1>2. ASSUME NEW i \in DOMAIN sessions, NEW t \in Session,
             sessions' = [sessions EXCEPT ![i] = t],
             t.type # "OPEN_SESSION" =>
               t.plannedEndAt \in Nat /\ DiffSeconds(t.startedAt, t.plannedEndAt) \in Nat
      PROVE  ScheduleInv'
  BY <1>2, SessionRewrite DEF ScheduleInv
<1>3. ASSUME NEW i \in DOMAIN sessions, NEW t \in Session,
             sessions' = [sessions EXCEPT ![i] = t],
             KeepsIdentity(sessions[i], t), t.plannedEndAt = sessions[i].plannedEndAt
      PROVE  ScheduleInv'
  BY <1>2, <1>3 DEF ScheduleInv, KeepsIdentity
<1>4. ASSUME NEW i \in DOMAIN sessions, NEW term \in Terms \cup {Absent},
             Extend(i, term)
      PROVE  ScheduleInv'
  <2> DEFINE t == Extended(sessions[i], term)
  <2>1. term \in Int /\ sessions[i] \in Session /\ CanExtend(sessions[i], term)
    BY <1>4, DeskAssumption, SessionTyped DEF Absent, Extend
  <2>2. sessions[i].plannedEndAt \in Nat
    BY <2>1, ExtendType DEF ScheduleInv
  <2>3. t.plannedEndAt = ExtendedEnd(sessions[i], term)
        /\ t.startedAt = sessions[i].startedAt
    BY <2>1, ExtendedFields DEF KeepsIdentity
  <2>4. t.plannedEndAt \in Nat /\ DiffSeconds(t.startedAt, t.plannedEndAt) \in Nat
    BY <2>1, <2>2, <2>3, ExtendedSchedule
  <2>5. t \in Session /\ sessions' = [sessions EXCEPT ![i] = t]
    BY <1>4, ExtendEffect
  <2> HIDE DEF t
  <2> QED
    BY <1>2, <2>4, <2>5
<1>5. ASSUME NEW i \in DOMAIN sessions, NEW receipt \in Receipts \cup {Absent},
             NEW endedAt \in Instants, EndSession(i, receipt, endedAt)
      PROVE  ScheduleInv'
  BY <1>3, <1>5, EndEffect, SessionTyped, ClosedFields
<1>6. ASSUME NEW i \in DOMAIN sessions, NEW endedAt \in Instants,
             CancelSession(i, endedAt)
      PROVE  ScheduleInv'
  BY <1>3, <1>6, CancelEffect, SessionTyped, ClosedFields
<1>7. ASSUME UNCHANGED sessions PROVE ScheduleInv'
  BY <1>7 DEF ScheduleInv
<1> QED
  BY <1>1, <1>4, <1>5, <1>6, <1>7, SessionsFrame, DebtFrame
  DEF DeskMove, CloseOnly, Next, SessionRequest, DebtRequest, End, Cancel

LEMMA ExtensionStep ==
  ASSUME TypeOK, ChargeInv, ScheduleInv, [DeskMove]_vars,
         NEW i \in DOMAIN sessions, IsActive(i), sessions'[i].status = "ACTIVE"
  PROVE  \/ sessions'[i] = sessions[i]
         \/ /\ sessions'[i].plannedEndAt > sessions[i].plannedEndAt
            /\ sessions'[i].amountDue >= sessions[i].amountDue
<1> DEFINE OnlyAdds == \/ sessions'[i] = sessions[i]
                       \/ /\ sessions'[i].plannedEndAt > sessions[i].plannedEndAt
                          /\ sessions'[i].amountDue >= sessions[i].amountDue
<1>1. ASSUME NEW batch \in Batches, NEW type \in SessionType,
             NEW customer \in CustomerId \cup {NoCustomer},
             NEW term \in Terms \cup {Absent}, NEW startedAt \in Instants,
             Start(batch, type, customer, term, startedAt)
      PROVE  OnlyAdds
  BY <1>1, StartEffect
<1>2. ASSUME NEW j \in DOMAIN sessions, NEW term \in Terms \cup {Absent},
             Extend(j, term)
      PROVE  OnlyAdds
  <2> DEFINE t == Extended(sessions[j], term)
  <2>1. t \in Session /\ sessions' = [sessions EXCEPT ![j] = t]
    BY <1>2, ExtendEffect
  <2>2. CASE i # j
    BY <2>1, <2>2, SessionRewrite
  <2>3. CASE i = j
    <3> DEFINE s == sessions[i]
               oldSeconds == DiffSeconds(s.startedAt, s.plannedEndAt)
               newSeconds == DiffSeconds(s.startedAt, ExtendedEnd(s, term))
    <3>1. term \in Int /\ s \in Session /\ CanExtend(s, term)
      BY <1>2, <2>3, DeskAssumption, SessionTyped DEF Absent, Extend
    <3>2. s.type # "OPEN_SESSION"
      BY <3>1, ExtendType
    <3>3. s.plannedEndAt \in Nat /\ oldSeconds \in Nat
      BY <3>2 DEF ScheduleInv
    <3>4. /\ ExtendedEnd(s, term) \in Nat /\ ExtendedEnd(s, term) > s.plannedEndAt
          /\ newSeconds \in Nat
      BY <3>1, <3>3, ExtendedSchedule
    <3>5. s.amountDue = ForDuration(s.ratePerHour, oldSeconds)
      BY <3>2 DEF ChargeInv, ChargedFor, BilledSeconds, IsActive
    <3>6. oldSeconds <= newSeconds
      <4>1. s.startedAt \in Int
        BY <3>1 DEF Session
      <4> QED
        BY <3>3, <3>4, <4>1, DiffSecondsMonotone
    <3>7. s.ratePerHour \in Nat
      BY <3>1 DEF Session
    <3>8. /\ ForDuration(s.ratePerHour, oldSeconds) \in Nat
          /\ ForDuration(s.ratePerHour, newSeconds) \in Nat
          /\ ForDuration(s.ratePerHour, oldSeconds) <= ForDuration(s.ratePerHour, newSeconds)
      <4> HIDE DEF s, oldSeconds, newSeconds
      <4>1. /\ ForDuration(s.ratePerHour, oldSeconds) \in Nat
            /\ ForDuration(s.ratePerHour, oldSeconds) <= ForDuration(s.ratePerHour, newSeconds)
        BY <3>3, <3>4, <3>6, <3>7, ForDurationMonotone
      <4>2. ForDuration(s.ratePerHour, newSeconds) \in Nat
        BY <3>4, <3>7, newSeconds <= newSeconds, ForDurationMonotone
      <4> QED
        BY <4>1, <4>2
    <3>9. sessions'[i] = Extended(s, term)
      BY <2>1, <2>3, SessionRewrite
    <3>10. /\ sessions'[i].plannedEndAt = ExtendedEnd(s, term)
           /\ sessions'[i].amountDue = ForDuration(s.ratePerHour, newSeconds)
      BY <3>1, <3>9, ExtendedFields DEF ExtendedAmount, ExtendedSeconds
    <3> QED
      BY <3>4, <3>5, <3>8, <3>10
  <2> QED
    BY <2>2, <2>3
<1>3. ASSUME NEW j \in DOMAIN sessions, NEW t \in Session,
             sessions' = [sessions EXCEPT ![j] = t], t.status # "ACTIVE"
      PROVE  OnlyAdds
  <2>1. i # j
    BY <1>3, SessionRewrite
  <2> QED
    BY <1>3, <2>1, SessionRewrite
<1>4. ASSUME NEW j \in DOMAIN sessions, NEW receipt \in Receipts \cup {Absent},
             NEW endedAt \in Instants, EndSession(j, receipt, endedAt)
      PROVE  OnlyAdds
  BY <1>3, <1>4, EndEffect, SessionTyped, ClosedFields
<1>5. ASSUME NEW j \in DOMAIN sessions, NEW endedAt \in Instants,
             CancelSession(j, endedAt)
      PROVE  OnlyAdds
  BY <1>3, <1>5, CancelEffect, SessionTyped, ClosedFields
<1>6. ASSUME UNCHANGED sessions PROVE OnlyAdds
  BY <1>6
<1> QED
  BY <1>1, <1>2, <1>4, <1>5, <1>6, SessionsFrame, DebtFrame
  DEF DeskMove, CloseOnly, Next, SessionRequest, DebtRequest, End, Cancel

\* "Recomputes schedule/charge when a fixed session is extended"
\* (session-pricing.service.ts:107), and never downwards: whatever the times
\* entered, the rate and the number of extensions, a session that stays active is
\* either untouched or ends later at no smaller charge.
THEOREM ExtensionsAdd == Spec => ExtensionsOnlyAdd
<1> DEFINE OnlyAdd == \A i \in DOMAIN sessions :
             IsActive(i) /\ sessions'[i].status = "ACTIVE" =>
               \/ UNCHANGED sessions[i]
               \/ /\ sessions'[i].plannedEndAt > sessions[i].plannedEndAt
                  /\ sessions'[i].amountDue >= sessions[i].amountDue
<1>1. Init => ScheduleInv /\ ChargeInv
  BY DEF Init, ScheduleInv, ChargeInv
<1>2. TypeOK /\ ChargeInv /\ ScheduleInv /\ [Next]_vars => OnlyAdd
  BY ExtensionStep, NextMoves
<1>3. TypeOK /\ ChargeInv /\ ScheduleInv /\ [Next]_vars => [OnlyAdd]_vars
  BY <1>2
<1> QED
  BY <1>1, <1>3, TypeCorrect, ChargeStep, ScheduleStep, NextMoves, PTL DEF Spec, ExtensionsOnlyAdd

-----------------------------------------------------------------------------
(* Computers: what the sessions do to their status *)

\* Start: the computers of the request, all AVAILABLE, become IN_USE.
LEMMA StartFleet ==
  ASSUME TypeOK, NEW batch \in Batches, NEW type \in SessionType,
         NEW customer \in CustomerId \cup {NoCustomer},
         NEW term \in Terms \cup {Absent}, NEW startedAt \in Instants,
         Start(batch, type, customer, term, startedAt), NEW c \in ComputerId
  PROVE  /\ computers'[c].life = computers[c].life
         /\ \/ /\ \A k \in DOMAIN batch : batch[k] # c
               /\ computers'[c] = computers[c]
            \/ /\ \E k \in DOMAIN batch : batch[k] = c
               /\ computers[c].life = "live"
               /\ computers[c].data.status = "AVAILABLE"
               /\ computers'[c].data.status = "IN_USE"
<1>1. computers[c] \in ComputerTable!Row
  BY DEF TypeOK, ComputerTable!TypeOK
<1>2. computers' = [d \in ComputerId |->
        IF d \in {batch[k] : k \in DOMAIN batch}
          THEN [computers[d] EXCEPT !.data.status = "IN_USE"] ELSE computers[d]]
  BY DEF Start, Occupy
<1>3. CASE \A k \in DOMAIN batch : batch[k] # c
  BY <1>2, <1>3
<1>4. CASE \E k \in DOMAIN batch : batch[k] = c
  <2>1. CanSeat(c)
    BY <1>4 DEF Start
  <2>2. computers'[c] = [computers[c] EXCEPT !.data.status = "IN_USE"]
    BY <1>2, <1>4
  <2> QED
    BY <1>1, <1>4, <2>1, <2>2 DEF CanSeat, ComputerTable!Live, ComputerTable!Row,
                               ComputerData
<1> QED
  BY <1>3, <1>4

\* End and Cancel: only the session's computer changes, and only from IN_USE.
LEMMA ReleaseFleet ==
  ASSUME TypeOK, NEW d \in ComputerId, ReleaseComputer(d), NEW c \in ComputerId
  PROVE  /\ computers'[c].life = computers[c].life
         /\ \/ computers'[c] = computers[c]
            \/ /\ c = d
               /\ computers[c].data.status = "IN_USE"
               /\ computers'[c].data.status = "AVAILABLE"
         /\ c = d /\ computers[c].life = "live" =>
              computers'[c].data.status # "IN_USE"
<1>1. computers \in [ComputerId -> ComputerTable!Row]
  BY DEF TypeOK, ComputerTable!TypeOK
<1>2. CASE ComputerTable!Live(d) /\ computers[d].data.status = "IN_USE"
  <2>1. computers' = [computers EXCEPT ![d].data.status = "AVAILABLE"]
    BY <1>2 DEF ReleaseComputer
  <2> QED
    BY <1>1, <1>2, <2>1 DEF ComputerTable!Row, ComputerData, ComputerTable!Live
<1>3. CASE ~(ComputerTable!Live(d) /\ computers[d].data.status = "IN_USE")
  BY <1>3 DEF ReleaseComputer, ComputerTable!Live
<1> QED
  BY <1>2, <1>3

\* A manager's step: one row, by the four operations of the table.
LEMMA AdminFleet ==
  ASSUME TypeOK, ComputerAdmin, NEW c \in ComputerId
  PROVE  \/ computers'[c] = computers[c]
         \/ /\ computers[c].life = "unborn" /\ computers'[c].life = "live"
            /\ computers'[c].data.status = "AVAILABLE"
         \/ \E u \in computerUpdates :
              /\ u[1] = c /\ u \notin computerUpdates'
              /\ computers'[c] = [life |-> "live", data |-> u[2]]
         \/ /\ computers[c].life = "live" /\ computers'[c].life = "removed"
            /\ computers'[c].data = computers[c].data
<1>1. computers \in [ComputerId -> ComputerTable!Row]
  BY DEF TypeOK, ComputerTable!TypeOK
<1>2. PICK d \in ComputerId :
        \/ CreateComputer(d)
        \/ \E e \in ComputerEdits(computers[d].data) : ComputerTable!BeginUpdate(d, e)
        \/ \E u \in computerUpdates : u[1] = d /\ ComputerTable!SaveUpdate(u)
        \/ ComputerTable!SoftRemove(d)
  BY DEF ComputerAdmin
<1>3. CASE CreateComputer(d)
  BY <1>1, <1>3 DEF CreateComputer, ComputerTable!Create
<1>4. CASE \E e \in ComputerEdits(computers[d].data) : ComputerTable!BeginUpdate(d, e)
  BY <1>4 DEF ComputerTable!BeginUpdate
<1>5. CASE \E u \in computerUpdates : u[1] = d /\ ComputerTable!SaveUpdate(u)
  BY <1>1, <1>5 DEF ComputerTable!SaveUpdate
<1>6. CASE ComputerTable!SoftRemove(d)
  BY <1>1, <1>6 DEF ComputerTable!SoftRemove, ComputerTable!Live, ComputerTable!Row
<1> QED
  BY <1>2, <1>3, <1>4, <1>5, <1>6

\* Requests that leave the fleet alone.
LEMMA FleetFrame ==
  ASSUME \/ Tick \/ DebtRequest \/ RoomAdmin \/ CustomerAdmin \/ UNCHANGED vars
         \/ \E i \in DOMAIN sessions, term \in Terms \cup {Absent} : Extend(i, term)
  PROVE  UNCHANGED fleet
BY DEF Tick, DebtRequest, PayDebt, CorrectDebt, RoomAdmin, CustomerAdmin, vars, Extend

\* A row that was never inserted shows the status it will be created with, and
\* no session has been played on it.
UnbornInv ==
  /\ \A c \in ComputerId :
       computers[c].life = "unborn" => computers[c].data.status = "AVAILABLE"
  /\ \A i \in DOMAIN sessions : computers[sessions[i].computer].life # "unborn"

LEMMA UnbornStep == TypeOK /\ UnbornInv /\ [DeskMove]_vars => UnbornInv'
<1> SUFFICES ASSUME TypeOK, UnbornInv, [DeskMove]_vars PROVE UnbornInv'
  OBVIOUS
<1>1. ASSUME NEW batch \in Batches, NEW type \in SessionType,
             NEW customer \in CustomerId \cup {NoCustomer},
             NEW term \in Terms \cup {Absent}, NEW startedAt \in Instants,
             Start(batch, type, customer, term, startedAt)
      PROVE  UnbornInv'
  <2>1. ASSUME NEW c \in ComputerId, computers'[c].life = "unborn"
        PROVE  computers'[c].data.status = "AVAILABLE"
    BY <1>1, <2>1, StartFleet DEF UnbornInv
  <2>2. ASSUME NEW i \in DOMAIN sessions
        PROVE  computers'[sessions'[i].computer].life # "unborn"
    <3>1. sessions'[i] = sessions[i] /\ sessions[i].computer \in ComputerId
      BY <1>1, StartEffect, SessionTyped
    <3>2. computers'[sessions[i].computer].life = computers[sessions[i].computer].life
      BY <1>1, <3>1, StartFleet
    <3> QED
      BY <3>1, <3>2 DEF UnbornInv
  <2>3. ASSUME NEW i \in DOMAIN sessions' \ DOMAIN sessions
        PROVE  computers'[sessions'[i].computer].life # "unborn"
    <3>1. PICK k \in DOMAIN batch : sessions'[i].computer = batch[k]
      <4>1. \A j \in DOMAIN sessions' \ DOMAIN sessions :
              /\ j - Len(sessions) \in DOMAIN batch
              /\ sessions'[j] = NewSession(batch[j - Len(sessions)], type, customer,
                                           GroupOf(batch), term, startedAt)
        BY <1>1, StartEffect
      <4>2. sessions'[i].computer = batch[i - Len(sessions)]
        BY <4>1, NewFields
      <4> QED
        BY <4>1, <4>2
    <3>2. batch[k] \in ComputerId
      BY BatchType
    <3>3. /\ computers'[batch[k]].life = computers[batch[k]].life
          /\ computers[batch[k]].life = "live"
      BY <1>1, <3>2, StartFleet
    <3> QED
      BY <3>1, <3>3
  <2> QED
    BY <2>1, <2>2, <2>3 DEF UnbornInv
<1>2. ASSUME NEW i \in DOMAIN sessions, NEW t \in Session,
             sessions' = [sessions EXCEPT ![i] = t], KeepsIdentity(sessions[i], t),
             ReleaseComputer(sessions[i].computer) \/ UNCHANGED computers
      PROVE  UnbornInv'
  <2>1. ASSUME NEW c \in ComputerId
        PROVE  /\ computers'[c].life = computers[c].life
               /\ computers'[c].life = "unborn" =>
                    computers'[c].data.status = "AVAILABLE"
    BY <1>2, SessionTyped, ReleaseFleet DEF UnbornInv
  <2>2. DOMAIN sessions' = DOMAIN sessions
    BY <1>2, SessionRewrite
  <2>3. ASSUME NEW j \in DOMAIN sessions
        PROVE  /\ sessions'[j].computer = sessions[j].computer
               /\ sessions[j].computer \in ComputerId
    BY <1>2, SessionRewrite, SessionTyped DEF KeepsIdentity
  <2> QED
    BY <2>1, <2>2, <2>3 DEF UnbornInv
<1>3. ASSUME NEW i \in DOMAIN sessions, NEW receipt \in Receipts \cup {Absent},
             NEW endedAt \in Instants, EndSession(i, receipt, endedAt),
             ReleaseComputer(sessions[i].computer) \/ UNCHANGED computers
      PROVE  UnbornInv'
  BY <1>2, <1>3, EndEffect, SessionTyped, ClosedFields
<1>4. ASSUME NEW i \in DOMAIN sessions, NEW endedAt \in Instants,
             CancelSession(i, endedAt),
             ReleaseComputer(sessions[i].computer) \/ UNCHANGED computers
      PROVE  UnbornInv'
  BY <1>2, <1>4, CancelEffect, SessionTyped, ClosedFields
<1>5. ASSUME NEW i \in DOMAIN sessions, NEW term \in Terms \cup {Absent},
             Extend(i, term)
      PROVE  UnbornInv'
  <2>1. UNCHANGED computers
    BY <1>5, FleetFrame DEF fleet
  <2>2. DOMAIN sessions' = DOMAIN sessions
    BY <1>5, ExtendEffect, SessionRewrite
  <2>3. ASSUME NEW j \in DOMAIN sessions
        PROVE  sessions'[j].computer = sessions[j].computer
    BY <1>5, ExtendEffect, SessionRewrite, SessionTyped, ExtendedFields
    DEF KeepsIdentity
  <2> QED
    BY <2>1, <2>2, <2>3 DEF UnbornInv
<1>6. ASSUME ComputerAdmin PROVE UnbornInv'
  <2>1. UNCHANGED sessions
    BY <1>6, SessionsFrame
  <2>2. ASSUME NEW c \in ComputerId
        PROVE  /\ computers[c].life # "unborn" => computers'[c].life # "unborn"
               /\ computers'[c].life = "unborn" =>
                    computers'[c].data.status = "AVAILABLE"
    <3>1. CASE computers'[c] = computers[c]
      BY <3>1 DEF UnbornInv
    <3>2. CASE computers'[c].life \in {"live", "removed"}
      BY <3>2
    <3>3. CASE \E u \in computerUpdates :
                 computers'[c] = [life |-> "live", data |-> u[2]]
      BY <3>3
    <3> QED
      BY <1>6, <3>1, <3>2, <3>3, AdminFleet
  <2>3. ASSUME NEW i \in DOMAIN sessions
        PROVE  sessions[i].computer \in ComputerId
    BY SessionTyped
  <2> QED
    BY <2>1, <2>2, <2>3 DEF UnbornInv
<1>7. ASSUME UNCHANGED <<sessions, fleet>> PROVE UnbornInv'
  BY <1>7 DEF UnbornInv, fleet
<1>8. ASSUME \/ Tick \/ DebtRequest \/ RoomAdmin \/ CustomerAdmin \/ UNCHANGED vars
      PROVE  UNCHANGED <<sessions, fleet>>
  BY <1>8, FleetFrame, SessionsFrame, DebtFrame DEF DebtRequest
<1> QED
  BY <1>1, <1>3, <1>4, <1>5, <1>6, <1>7, <1>8
  DEF DeskMove, CloseOnly, Next, SessionRequest, End, Cancel

LEMMA ServiceStep ==
  ASSUME TypeOK, UnbornInv, [DeskMove]_vars, NEW c \in ComputerId,
         computers[c].data.status \in OutOfService
  PROVE  \/ computers'[c].data.status = computers[c].data.status
         \/ computerUpdates' # computerUpdates
<1> DEFINE Manual == \/ computers'[c].data.status = computers[c].data.status
                     \/ computerUpdates' # computerUpdates
<1>1. ASSUME NEW batch \in Batches, NEW type \in SessionType,
             NEW customer \in CustomerId \cup {NoCustomer},
             NEW term \in Terms \cup {Absent}, NEW startedAt \in Instants,
             Start(batch, type, customer, term, startedAt)
      PROVE  Manual
  BY <1>1, StartFleet DEF OutOfService
<1>2. ASSUME NEW d \in ComputerId, ReleaseComputer(d) PROVE Manual
  BY <1>2, ReleaseFleet DEF OutOfService
<1>3. ASSUME NEW i \in DOMAIN sessions, ReleaseComputer(sessions[i].computer)
      PROVE  Manual
  BY <1>2, <1>3, SessionTyped
<1>4. ASSUME UNCHANGED computers PROVE Manual
  BY <1>4
<1>5. ASSUME ComputerAdmin PROVE Manual
  <2>1. CASE computers[c].life = "unborn"
    BY <2>1 DEF UnbornInv, OutOfService
  <2>2. CASE \E u \in computerUpdates : u \notin computerUpdates'
    BY <2>2
  <2>3. CASE computers'[c].data = computers[c].data
    BY <2>3
  <2> QED
    BY <1>5, <2>1, <2>2, <2>3, AdminFleet
<1>6. ASSUME UNCHANGED fleet PROVE Manual
  BY <1>6 DEF fleet
<1> QED
  BY <1>1, <1>3, <1>4, <1>5, <1>6, FleetFrame
  DEF DeskMove, CloseOnly, Next, SessionRequest, End, Cancel

\* "releases it back to AVAILABLE on end" (computer.entity.ts) is never how a
\* computer in MAINTENANCE or OFFLINE comes back: no start, end, cancellation or
\* removal changes that status, in any order with the managers' saves.
THEOREM OnlyManagersReturnToService == Spec => ServiceIsManual
<1> DEFINE Manual == \A c \in ComputerId :
             computers[c].data.status \in OutOfService =>
               \/ computers'[c].data.status = computers[c].data.status
               \/ computerUpdates' # computerUpdates
<1>1. Init => UnbornInv
  BY DEF Init, UnbornInv
<1>2. TypeOK /\ UnbornInv /\ [Next]_vars => [Manual]_vars
  BY ServiceStep, NextMoves
<1> QED
  BY <1>1, <1>2, TypeCorrect, UnbornStep, NextMoves, PTL DEF Spec, ServiceIsManual

-----------------------------------------------------------------------------
(* Computers: IN_USE means an active session *)

\* The one thing that breaks the agreement is a manager's save: it writes the
\* status the form was loaded with, or one entered by hand.  A save does not when
\* the status it writes is right at that moment.
SavesAgree ==
  \A u \in computerUpdates \ computerUpdates' :
    u[2].status = "IN_USE" <=> ActiveOn(u[1]) # {}

LEMMA StartOccupancy ==
  ASSUME TypeOK, OccupancyAgrees, NEW batch \in Batches, NEW type \in SessionType,
         NEW customer \in CustomerId \cup {NoCustomer},
         NEW term \in Terms \cup {Absent}, NEW startedAt \in Instants,
         Start(batch, type, customer, term, startedAt)
  PROVE  OccupancyAgrees'
<1> SUFFICES ASSUME NEW c \in ComputerId, computers'[c].life = "live"
             PROVE  computers'[c].data.status = "IN_USE" <=> ActiveOn(c)' # {}
  BY DEF OccupancyAgrees, ComputerTable!Live
<1>1. \A i \in DOMAIN sessions : sessions'[i] = sessions[i]
  BY StartEffect
<1>2. \A i \in DOMAIN sessions' \ DOMAIN sessions :
        /\ i - Len(sessions) \in DOMAIN batch
        /\ sessions'[i] = NewSession(batch[i - Len(sessions)], type, customer,
                                     GroupOf(batch), term, startedAt)
  BY StartEffect
<1>3. \A i \in DOMAIN sessions' \ DOMAIN sessions :
        /\ i - Len(sessions) \in DOMAIN batch
        /\ sessions'[i].computer = batch[i - Len(sessions)]
        /\ sessions'[i].status = "ACTIVE"
  BY <1>2, NewFields
<1>4. /\ DOMAIN sessions = 1 .. Len(sessions) /\ Len(sessions) \in Nat
      /\ DOMAIN sessions' = 1 .. Len(sessions) + Len(batch)
      /\ DOMAIN batch = 1 .. Len(batch) /\ Len(batch) \in Nat
  <2>1. sessions' \in Seq(Session) /\ Len(sessions') = Len(sessions) + Len(batch)
    BY StartEffect
  <2>2. sessions \in Seq(Session)
    BY DEF TypeOK
  <2> QED
    BY <2>1, <2>2, BatchType
<1>5. CASE \A k \in DOMAIN batch : batch[k] # c
  <2>1. computers'[c] = computers[c]
    BY <1>5, StartFleet
  <2>2. ActiveOn(c)' = ActiveOn(c)
    BY <1>1, <1>3, <1>4, <1>5 DEF ActiveOn
  <2> QED
    BY <2>1, <2>2 DEF OccupancyAgrees, ComputerTable!Live
<1>6. CASE \E k \in DOMAIN batch : batch[k] = c
  <2>1. PICK k \in DOMAIN batch : batch[k] = c
    BY <1>6
  <2> DEFINE i == Len(sessions) + k
  <2>2. i \in DOMAIN sessions' \ DOMAIN sessions /\ i - Len(sessions) = k
    BY <1>4
  <2>3. i \in ActiveOn(c)'
    BY <1>3, <2>1, <2>2 DEF ActiveOn
  <2>4. computers'[c].data.status = "IN_USE"
    BY <1>6, StartFleet
  <2> QED
    BY <2>3, <2>4
<1> QED
  BY <1>5, <1>6

\* End and Cancel: the computer of the closed session has no other active one.
LEMMA CloseOccupancy ==
  ASSUME TypeOK, AtMostOneActive, OccupancyAgrees, NEW i \in DOMAIN sessions,
         NEW t \in Session, sessions' = [sessions EXCEPT ![i] = t],
         KeepsIdentity(sessions[i], t), IsActive(i), t.status # "ACTIVE",
         ReleaseComputer(sessions[i].computer)
  PROVE  OccupancyAgrees'
<1> SUFFICES ASSUME NEW c \in ComputerId, computers'[c].life = "live"
             PROVE  computers'[c].data.status = "IN_USE" <=> ActiveOn(c)' # {}
  BY DEF OccupancyAgrees, ComputerTable!Live
<1>1. /\ DOMAIN sessions' = DOMAIN sessions /\ sessions'[i] = t
      /\ \A j \in DOMAIN sessions \ {i} : sessions'[j] = sessions[j]
  BY SessionRewrite
<1>2. sessions[i].computer \in ComputerId
  BY SessionTyped
<1>3. CASE c = sessions[i].computer
  <2>1. ActiveOn(c)' = {}
    BY <1>1, <1>3 DEF ActiveOn, AtMostOneActive, IsActive, KeepsIdentity
  <2>2. computers[c].life = "live" /\ computers'[c].data.status # "IN_USE"
    BY <1>2, <1>3, ReleaseFleet
  <2> QED
    BY <2>1, <2>2
<1>4. CASE c # sessions[i].computer
  <2>1. ActiveOn(c)' = ActiveOn(c)
    BY <1>1, <1>4 DEF ActiveOn, KeepsIdentity
  <2>2. computers'[c] = computers[c]
    BY <1>2, <1>4, ReleaseFleet
  <2> QED
    BY <2>1, <2>2 DEF OccupancyAgrees, ComputerTable!Live
<1> QED
  BY <1>3, <1>4

LEMMA AdminOccupancy ==
  ASSUME TypeOK, UnbornInv, OccupancyAgrees, SavesAgree, ComputerAdmin
  PROVE  OccupancyAgrees'
<1> SUFFICES ASSUME NEW c \in ComputerId, computers'[c].life = "live"
             PROVE  computers'[c].data.status = "IN_USE" <=> ActiveOn(c)' # {}
  BY DEF OccupancyAgrees, ComputerTable!Live
<1>1. ActiveOn(c)' = ActiveOn(c)
  BY SessionsFrame DEF ActiveOn
<1>2. CASE computers'[c] = computers[c]
  BY <1>1, <1>2 DEF OccupancyAgrees, ComputerTable!Live
<1>3. CASE computers[c].life = "unborn" /\ computers'[c].data.status = "AVAILABLE"
  <2>1. ActiveOn(c) = {}
    BY <1>3 DEF ActiveOn, UnbornInv
  <2> QED
    BY <1>1, <1>3, <2>1
<1>4. CASE \E u \in computerUpdates :
             /\ u[1] = c /\ u \notin computerUpdates'
             /\ computers'[c] = [life |-> "live", data |-> u[2]]
  BY <1>1, <1>4 DEF SavesAgree
<1>5. CASE computers'[c].life = "removed"
  BY <1>5
<1> QED
  BY <1>2, <1>3, <1>4, <1>5, AdminFleet

LEMMA OccupancyStep ==
  TypeOK /\ UnbornInv /\ AtMostOneActive /\ OccupancyAgrees
    /\ [Next]_vars /\ [SavesAgree]_vars => OccupancyAgrees'
<1> SUFFICES ASSUME TypeOK, UnbornInv, AtMostOneActive, OccupancyAgrees,
                    [Next]_vars, [SavesAgree]_vars
             PROVE  OccupancyAgrees'
  OBVIOUS
<1>1. ASSUME NEW i \in DOMAIN sessions, NEW receipt \in Receipts \cup {Absent},
             NEW endedAt \in Instants, End(i, receipt, endedAt)
      PROVE  OccupancyAgrees'
  <2> DEFINE due == Finalize(sessions[i], endedAt)
             t == Closed(sessions[i], "ENDED", endedAt, due, Collected(due, receipt))
  <2>1. t \in Session /\ sessions' = [sessions EXCEPT ![i] = t]
    BY <1>1, EndEffect DEF End
  <2>2. KeepsIdentity(sessions[i], t) /\ t.status # "ACTIVE"
    BY SessionTyped, ClosedFields
  <2>3. IsActive(i) /\ ReleaseComputer(sessions[i].computer)
    BY <1>1 DEF End, EndSession
  <2> HIDE DEF t
  <2> QED
    BY <2>1, <2>2, <2>3, CloseOccupancy
<1>2. ASSUME NEW i \in DOMAIN sessions, NEW endedAt \in Instants, Cancel(i, endedAt)
      PROVE  OccupancyAgrees'
  <2> DEFINE t == Closed(sessions[i], "CANCELLED", endedAt, 0, 0)
  <2>1. t \in Session /\ sessions' = [sessions EXCEPT ![i] = t]
    BY <1>2, CancelEffect DEF Cancel
  <2>2. KeepsIdentity(sessions[i], t) /\ t.status # "ACTIVE"
    BY SessionTyped, ClosedFields
  <2>3. IsActive(i) /\ ReleaseComputer(sessions[i].computer)
    BY <1>2 DEF Cancel, CancelSession
  <2> HIDE DEF t
  <2> QED
    BY <2>1, <2>2, <2>3, CloseOccupancy
<1>3. ASSUME NEW i \in DOMAIN sessions, NEW term \in Terms \cup {Absent},
             Extend(i, term)
      PROVE  OccupancyAgrees'
  <2> DEFINE t == Extended(sessions[i], term)
  <2>1. t \in Session /\ sessions' = [sessions EXCEPT ![i] = t]
    BY <1>3, ExtendEffect
  <2>2. KeepsIdentity(sessions[i], t) /\ t.status = sessions[i].status
    BY SessionTyped, ExtendedFields
  <2> HIDE DEF t
  <2>3. /\ DOMAIN sessions' = DOMAIN sessions /\ sessions'[i] = t
        /\ \A j \in DOMAIN sessions \ {i} : sessions'[j] = sessions[j]
    BY <2>1, SessionRewrite
  <2>4. ASSUME NEW c \in ComputerId PROVE ActiveOn(c)' = ActiveOn(c)
    BY <2>2, <2>3 DEF ActiveOn, KeepsIdentity
  <2>5. UNCHANGED computers
    BY <1>3, FleetFrame DEF fleet
  <2> QED
    BY <2>4, <2>5 DEF OccupancyAgrees, ComputerTable!Live
<1>4. ASSUME ComputerAdmin PROVE OccupancyAgrees'
  <2>1. SavesAgree
    BY DEF SavesAgree, vars, fleet
  <2> QED
    BY <1>4, <2>1, AdminOccupancy
<1>5. ASSUME UNCHANGED <<sessions, fleet>> PROVE OccupancyAgrees'
  BY <1>5 DEF OccupancyAgrees, ComputerTable!Live, ActiveOn, fleet
<1>6. ASSUME \/ Tick \/ DebtRequest \/ RoomAdmin \/ CustomerAdmin \/ UNCHANGED vars
      PROVE  UNCHANGED <<sessions, fleet>>
  BY <1>6, FleetFrame, SessionsFrame, DebtFrame DEF DebtRequest
<1> QED
  BY <1>1, <1>2, <1>3, <1>4, <1>5, <1>6, StartOccupancy DEF Next, SessionRequest

\* "An active session drives it to IN_USE and releases it back to AVAILABLE on
\* end" (computer.entity.ts): in every behaviour whose saves of a computer agree
\* with its sessions when they commit, a live computer is IN_USE exactly while it
\* has an active session.  The sessions' own requests, groups, removals and
\* registrations never break it; the run desk_stale_update shows that a save that
\* disagrees does, so the hypothesis cannot be dropped.
THEOREM OccupancyUnlessStaleSave ==
  Spec /\ [][SavesAgree]_vars => []OccupancyAgrees
<1>1. Init => UnbornInv
  BY DEF Init, UnbornInv
<1>2. Init => OccupancyAgrees
  BY DEF Init, OccupancyAgrees, ActiveOn, ComputerTable!Live
<1> QED
  BY <1>1, <1>2, TypeCorrect, OneActivePerComputer, UnbornStep, OccupancyStep,
     NextMoves, PTL DEF Spec

=============================================================================
