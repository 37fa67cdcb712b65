--------------------------- MODULE SessionPricing ---------------------------
(***************************************************************************)
(* The pricing engine (src/src/modules/sessions/session-pricing.service.ts).*)
(* Instants are milliseconds, as Date.getTime().  `term` stands for the one *)
(* request parameter the session type reads: durationMinutes or addMinutes  *)
(* for FIXED_DURATION, plannedEndAt or newEndAt for FIXED_END_TIME; Absent   *)
(* stands for null, in a request and in a column.                          *)
(***************************************************************************)
EXTENDS Money

SessionType == {"FIXED_DURATION", "FIXED_END_TIME", "OPEN_SESSION"}

Absent == -1

MsPerMinute == 60 * 1000

\* Math.round of the difference in seconds: half a second rounds up.
DiffSeconds(from, to) == (to - from + 500) \div 1000

AtLeastZero(n) == IF n < 0 THEN 0 ELSE n

-----------------------------------------------------------------------------
\* plan(): the schedule and the prepaid charge of a new session.
PlannedEnd(type, startedAt, term) ==
  CASE type = "FIXED_DURATION" -> startedAt + term * MsPerMinute
    [] type = "FIXED_END_TIME" -> term
    [] type = "OPEN_SESSION"   -> Absent

PlannedSeconds(type, startedAt, term) ==
  CASE type = "FIXED_DURATION" -> term * 60
    [] type = "FIXED_END_TIME" -> DiffSeconds(startedAt, term)
    [] type = "OPEN_SESSION"   -> 0

CanPlan(type, rate, startedAt, term) ==
  type # "OPEN_SESSION" =>
    /\ term # Absent
    /\ PlannedSeconds(type, startedAt, term) > 0
    /\ Chargeable(rate, PlannedSeconds(type, startedAt, term))

PlannedAmount(type, rate, startedAt, term) ==
  IF type = "OPEN_SESSION"
    THEN 0
    ELSE ForDuration(rate, PlannedSeconds(type, startedAt, term))

-----------------------------------------------------------------------------
\* extend(): the later end of a fixed session, recharged from its start.
ExtendedEnd(s, term) ==
  IF s.type = "FIXED_END_TIME"
    THEN term
    ELSE (IF s.plannedEndAt = Absent THEN s.startedAt ELSE s.plannedEndAt)
           + term * MsPerMinute

FaultyExtendedSeconds(s, term) ==    \* the added time only
  DiffSeconds(s.plannedEndAt, ExtendedEnd(s, term))

ExtendedSeconds(s, term) == DiffSeconds(s.startedAt, ExtendedEnd(s, term))

FaultyCanExtend(s, term) ==          \* to an earlier end, too
  /\ term # Absent
  /\ s.type # "OPEN_SESSION"
  /\ Chargeable(s.ratePerHour, ExtendedSeconds(s, term))

CanExtend(s, term) ==
  /\ term # Absent
  /\ \/ s.type = "FIXED_DURATION" /\ term > 0
     \/ s.type = "FIXED_END_TIME" /\ (s.plannedEndAt = Absent \/ term > s.plannedEndAt)
  /\ Chargeable(s.ratePerHour, ExtendedSeconds(s, term))

ExtendedAmount(s, term) == ForDuration(s.ratePerHour, ExtendedSeconds(s, term))

-----------------------------------------------------------------------------
\* quote() and finalize(): the charge of session s at an instant.  A fixed
\* session owes its locked amount, however early it ends.
UsedSeconds(s, at) == AtLeastZero(DiffSeconds(s.startedAt, at))

CanFinalize(s, at) ==
  IF s.type = "OPEN_SESSION"
    THEN Chargeable(s.ratePerHour, UsedSeconds(s, at))
    ELSE s.amountDue \in Amount

Finalize(s, at) ==
  IF s.type = "OPEN_SESSION"
    THEN ForDuration(s.ratePerHour, UsedSeconds(s, at))
    ELSE s.amountDue

=============================================================================
