--------------------------- MODULE AnalyticsCache ---------------------------
(***************************************************************************)
(* The dashboard summaries of analytics.service.ts behind the TTL cache of  *)
(* cache.service.ts, in one process.                                       *)
(*                                                                         *)
(* A summary's data is the changes it counts.  Money-affecting changes are  *)
(* numbered in commit order; a query sees those committed by its instant,   *)
(* so a summary is known by what its first and its last query saw.  Changes *)
(* are announced some time after they commit, in any order, perhaps never:  *)
(* see DebtAnnouncements.                                                  *)
(***************************************************************************)
EXTENDS Integers, FiniteSets

CONSTANTS
  Range,          \* date ranges: the cache's keys
  Reader,         \* summary requests that can be in flight at once
  Ttl,            \* CACHE_TTL_SECONDS in ticks of the clock
  MaxChanges      \* bound on the changes

ASSUME CacheAssumption == Ttl \in Nat \ {0} /\ MaxChanges \in Nat

VARIABLES
  committed,      \* how many changes are committed
  announced,      \* the changes whose event has been emitted
  store,          \* range -> its cache entry
  left,           \* range -> ticks until that expires; 0: expired, or none
  reading,        \* reader -> the summary it computes
  answer          \* reader -> what its last request was answered

vars == <<committed, announced, store, left, reading, answer>>

Change == 1 .. MaxChanges

Count == 0 .. MaxChanges

\* `first` is what the summary's first query saw.  `asked` and `filled` are for
\* the properties: what had been announced when the computation began, and when
\* its result was stored.
Entry == [first : Count, asked : SUBSET Change, filled : SUBSET Change]

NoEntry == [first |-> 0, asked |-> {}, filled |-> {}]

NotReading == [step |-> "idle"]

Reading == [step : {"totals", "debt", "set"}, range : Range,
            asked : SUBSET Change, first : Count, last : Count]

NoAnswer == [asked |-> {}, first |-> 0]

Answer == [asked : SUBSET Change, first : Count]

Init ==
  /\ committed = 0
  /\ announced = {}
  /\ store = [k \in Range |-> NoEntry]
  /\ left = [k \in Range |-> 0]
  /\ reading = [r \in Reader |-> NotReading]
  /\ answer = [r \in Reader |-> NoAnswer]

-----------------------------------------------------------------------------
(* Changes *)

Commit ==
  /\ committed < MaxChanges
  /\ committed' = committed + 1
  /\ UNCHANGED <<announced, store, left, reading, answer>>

FaultyMayAnnounce(x) == x <= committed + 1     \* before it commits

MayAnnounce(x) == x <= committed

FaultyInvalidated == {}          \* the prefix matches no key

\* delByPrefix: the summaries of all ranges.
Invalidated == Range

\* onFinancialChange; an event may come twice (session.ended, debt.created).
Announce(x) ==
  /\ MayAnnounce(x)
  /\ announced' = announced \cup {x}
  /\ store' = [k \in Range |-> IF k \in Invalidated THEN NoEntry ELSE store[k]]
  /\ left' = [k \in Range |-> IF k \in Invalidated THEN 0 ELSE left[k]]
  /\ UNCHANGED <<committed, reading, answer>>

-----------------------------------------------------------------------------
(* Requests *)

\* An expired entry is as good as none.
Usable(k) == left[k] > 0

At(r, step) == reading[r].step = step

FaultyLeftAfterHit(k) == Ttl     \* each hit renews the entry

LeftAfterHit(k) == left[k]

Hit(r, k) ==
  /\ At(r, "idle")
  /\ Usable(k)
  /\ answer' = [answer EXCEPT ![r] = [asked |-> announced, first |-> store[k].first]]
  /\ left' = [left EXCEPT ![k] = LeftAfterHit(k)]
  /\ UNCHANGED <<committed, announced, store, reading>>

\* An expired entry is deleted; a computation for the same range that is
\* already under way is not joined.
Miss(r, k) ==
  /\ At(r, "idle")
  /\ ~ Usable(k)
  /\ store' = [store EXCEPT ![k] = NoEntry]
  /\ reading' = [reading EXCEPT ![r] = [step |-> "totals", range |-> k,
                                        asked |-> announced, first |-> 0, last |-> 0]]
  /\ UNCHANGED <<committed, announced, left, answer>>

Read(r, step, first, last) ==
  reading' = [reading EXCEPT ![r] = [step |-> step, range |-> @.range, asked |-> @.asked,
                                     first |-> first, last |-> last]]

\* computeSummary: queries one after the other, each with a snapshot of its own.
ReadTotals(r) ==
  /\ At(r, "totals")
  /\ Read(r, "debt", committed, committed)
  /\ UNCHANGED <<committed, announced, store, left, answer>>

ReadDebt(r) ==
  /\ At(r, "debt")
  /\ Read(r, "set", reading[r].first, committed)
  /\ UNCHANGED <<committed, announced, store, left, answer>>

\* The result is stored whatever happened since, and over whatever is there.
Fill(r) ==
  LET sum == reading[r]
  IN  /\ At(r, "set")
      /\ store' = [store EXCEPT ![sum.range] = [first |-> sum.first, asked |-> sum.asked,
                                                filled |-> announced]]
      /\ left' = [left EXCEPT ![sum.range] = Ttl]
      /\ answer' = [answer EXCEPT ![r] = [asked |-> sum.asked, first |-> sum.first]]
      /\ reading' = [reading EXCEPT ![r] = NotReading]
      /\ UNCHANGED <<committed, announced>>

\* A query fails: nothing is stored.
ComputeFails(r) ==
  /\ reading[r].step \in {"totals", "debt"}
  /\ reading' = [reading EXCEPT ![r] = NotReading]
  /\ UNCHANGED <<committed, announced, store, left, answer>>

-----------------------------------------------------------------------------
(* Time and the process *)

Later(n) == IF n > 0 THEN n - 1 ELSE 0

Tick ==
  /\ left' = [k \in Range |-> Later(left[k])]
  /\ UNCHANGED <<committed, announced, store, reading, answer>>

\* The cache is in memory.
Restart ==
  /\ store' = [k \in Range |-> NoEntry]
  /\ left' = [k \in Range |-> 0]
  /\ reading' = [r \in Reader |-> NotReading]
  /\ UNCHANGED <<committed, announced, answer>>

Compute(r) == ReadTotals(r) \/ ReadDebt(r) \/ Fill(r)

Next ==
  \/ Commit
  \/ \E x \in Change : Announce(x)
  \/ \E r \in Reader, k \in Range : Hit(r, k) \/ Miss(r, k)
  \/ \E r \in Reader : Compute(r) \/ ComputeFails(r)
  \/ Tick
  \/ Restart

Spec == Init /\ [][Next]_vars

\* Time passes, and a query that has been sent returns or fails.
FairSpec == Spec /\ WF_vars(Tick) /\ \A r \in Reader : WF_vars(Compute(r))

-----------------------------------------------------------------------------
(* Properties *)

\* The types of the variables; only committed changes are announced.
TypeOK ==
  /\ committed \in Count
  /\ announced \subseteq 1 .. committed
  /\ store \in [Range -> Entry]
  /\ left \in [Range -> 0 .. Ttl]
  /\ reading \in [Reader -> Reading \cup {NotReading}]
  /\ answer \in [Reader -> Answer]

\* An entry that would be served and misses a change already announced was
\* computed across that announcement: the computation began before it and its
\* result was stored after it.  Whatever was in the cache at the announcement
\* is gone, and whatever is computed from then on has the change
\* (analytics.service.ts:55-80, cache.service.ts:41-62).
StaleOnlyFromOverlap ==
  \A k \in Range : Usable(k) =>
    \A x \in announced : x > store[k].first =>
      x \notin store[k].asked /\ x \in store[k].filled

\* The figures of one summary are from one stretch of time: none is older than
\* what had been announced when its request came, none newer than now
\* (analytics.service.ts:82-138).
SummaryWithinRequest ==
  \A r \in Reader : At(r, "set") =>
    /\ reading[r].asked \subseteq 1 .. reading[r].first
    /\ reading[r].first <= reading[r].last
    /\ reading[r].last <= committed

\* Even such a summary does not stay: from some time after a change has been
\* committed, no request is served without it, even if the change is never
\* announced, or only in another process (cache.service.ts:18-28).
StalenessEnds ==
  \A x \in Change :
    x <= committed ~> [](\A k \in Range : Usable(k) => x <= store[k].first)

\* What the comment on onFinancialChange promises: "drop cached summaries and
\* notify dashboards that fresh numbers are available (they then re-fetch)"
\* (analytics.service.ts:55-58). A request made after an announcement is
\* answered with the announced change.
RefetchIsFresh ==
  \A r \in Reader : answer[r].asked \subseteq 1 .. answer[r].first

=============================================================================
