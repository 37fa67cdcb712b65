------------------------- MODULE AnalyticsCacheProofs -------------------------
(* What the summary cache may serve, for any ranges, readers and TTL. *)
EXTENDS AnalyticsCache, TLAPS

USE CacheAssumption

\* What a computation in flight knows: it was asked for before now, and what
\* it has read so far includes everything announced before it was asked for.
ReadingOK(r) ==
  /\ reading[r].step # "idle" => reading[r].asked \subseteq 1 .. committed
  /\ reading[r].step \in {"debt", "set"} =>
       /\ reading[r].asked \subseteq 1 .. reading[r].first
       /\ reading[r].first <= committed
  /\ reading[r].step = "set" =>
       /\ reading[r].first <= reading[r].last
       /\ reading[r].last <= committed

CacheInv ==
  /\ TypeOK
  /\ \A r \in Reader : ReadingOK(r)
  /\ StaleOnlyFromOverlap

LEMMA CacheInit == Init => CacheInv
BY DEF Init, CacheInv, TypeOK, ReadingOK, StaleOnlyFromOverlap, Count, Answer,
       NoAnswer, NotReading, NoEntry, Entry, Usable

LEMMA CacheStep == CacheInv /\ [Next]_vars => CacheInv'
<1> SUFFICES ASSUME CacheInv, [Next]_vars PROVE CacheInv'
  OBVIOUS
<1> USE DEF CacheInv
<1>1. CASE Commit
  <2>1. TypeOK'
    BY <1>1 DEF Commit, TypeOK, Count
  <2>2. ASSUME NEW r \in Reader PROVE ReadingOK(r)'
    <3>1. committed \in Int /\ committed' = committed + 1 /\ reading' = reading
      BY <1>1 DEF Commit, TypeOK, Count
    <3>2. 1 .. committed \subseteq 1 .. committed'
      BY <3>1
    <3>3. CASE reading[r] = NotReading
      BY <3>1, <3>3 DEF ReadingOK, NotReading
    <3>4. CASE reading[r] \in Reading
      <4>1. reading[r].first \in Int /\ reading[r].last \in Int
        BY <3>4 DEF Reading, Count
      <4> QED
        BY <3>1, <3>2, <4>1 DEF ReadingOK
    <3> QED
      BY <3>3, <3>4 DEF TypeOK
  <2>3. StaleOnlyFromOverlap'
    BY <1>1 DEF Commit, StaleOnlyFromOverlap, Usable
  <2> QED
    BY <2>1, <2>2, <2>3
<1>2. ASSUME NEW x \in Change, Announce(x) PROVE CacheInv'
  <2>1. TypeOK'
    BY <1>2 DEF Announce, MayAnnounce, TypeOK, Count, Change, Entry, NoEntry
  <2>2. \A r \in Reader : ReadingOK(r)'
    BY <1>2 DEF Announce, ReadingOK
  <2>3. StaleOnlyFromOverlap'
    BY <1>2 DEF Announce, Invalidated, StaleOnlyFromOverlap, Usable
  <2> QED
    BY <2>1, <2>2, <2>3
<1>3. ASSUME NEW r \in Reader, NEW k \in Range, Hit(r, k) PROVE CacheInv'
  <2>1. left' = left
    BY <1>3 DEF Hit, LeftAfterHit, TypeOK
  <2>2. TypeOK'
    BY <1>3, <2>1 DEF Hit, TypeOK, Entry, Answer, Change, Count
  <2>3. \A q \in Reader : ReadingOK(q)'
    BY <1>3 DEF Hit, ReadingOK
  <2>4. StaleOnlyFromOverlap'
    BY <1>3, <2>1 DEF Hit, StaleOnlyFromOverlap, Usable
  <2> QED
    BY <2>2, <2>3, <2>4
<1>4. ASSUME NEW r \in Reader, NEW k \in Range, Miss(r, k) PROVE CacheInv'
  <2>1. TypeOK'
    BY <1>4 DEF Miss, TypeOK, Reading, Change, Count, Entry, NoEntry
  <2>2. \A q \in Reader : ReadingOK(q)'
    BY <1>4 DEF Miss, TypeOK, ReadingOK
  <2>3. StaleOnlyFromOverlap'
    BY <1>4 DEF Miss, StaleOnlyFromOverlap, Usable, TypeOK
  <2> QED
    BY <2>1, <2>2, <2>3
<1>5. ASSUME NEW r \in Reader, ReadTotals(r) PROVE CacheInv'
  <2>1. reading[r] \in Reading
    BY <1>5 DEF ReadTotals, At, TypeOK, NotReading
  <2>2. TypeOK'
    BY <1>5, <2>1 DEF ReadTotals, Read, TypeOK, Reading
  <2>3. \A q \in Reader : ReadingOK(q)'
    BY <1>5, <2>1 DEF ReadTotals, Read, At, TypeOK, Reading, ReadingOK, Count
  <2>4. StaleOnlyFromOverlap'
    BY <1>5 DEF ReadTotals, StaleOnlyFromOverlap, Usable
  <2> QED
    BY <2>2, <2>3, <2>4
<1>6. ASSUME NEW r \in Reader, ReadDebt(r) PROVE CacheInv'
  <2>1. reading[r] \in Reading
    BY <1>6 DEF ReadDebt, At, TypeOK, NotReading
  <2>2. TypeOK'
    BY <1>6, <2>1 DEF ReadDebt, Read, TypeOK, Reading
  <2>3. \A q \in Reader : ReadingOK(q)'
    BY <1>6, <2>1 DEF ReadDebt, Read, At, TypeOK, Reading, ReadingOK, Count
  <2>4. StaleOnlyFromOverlap'
    BY <1>6 DEF ReadDebt, StaleOnlyFromOverlap, Usable
  <2> QED
    BY <2>2, <2>3, <2>4
<1>7. ASSUME NEW r \in Reader, Fill(r) PROVE CacheInv'
  <2>1. reading[r] \in Reading
    BY <1>7 DEF Fill, At, TypeOK, NotReading
  <2>2. TypeOK'
    BY <1>7, <2>1 DEF Fill, TypeOK, Reading, Entry, Answer, Change, Count
  <2>3. \A q \in Reader : ReadingOK(q)'
    BY <1>7, <2>1 DEF Fill, TypeOK, ReadingOK, NotReading
  <2>4. StaleOnlyFromOverlap'
    <3> SUFFICES ASSUME NEW k \in Range, Usable(k)',
                        NEW x \in announced', x > store'[k].first
                 PROVE  x \notin store'[k].asked /\ x \in store'[k].filled
      BY DEF StaleOnlyFromOverlap
    <3>1. CASE k = reading[r].range
      <4>1. /\ store'[k].first = reading[r].first
            /\ store'[k].asked = reading[r].asked
            /\ store'[k].filled = announced
            /\ announced' = announced
        BY <1>7, <3>1 DEF Fill, TypeOK
      <4>2. reading[r].asked \subseteq 1 .. reading[r].first
        BY <1>7 DEF Fill, At, ReadingOK
      <4>3. x \in Int /\ reading[r].first \in Int
        BY <2>1, <4>1 DEF TypeOK, Reading, Count
      <4> QED
        BY <4>1, <4>2, <4>3
    <3>2. CASE k # reading[r].range
      BY <1>7, <2>1, <3>2 DEF Fill, TypeOK, Reading, StaleOnlyFromOverlap, Usable
    <3> QED
      BY <3>1, <3>2
  <2> QED
    BY <2>2, <2>3, <2>4
<1>8. ASSUME NEW r \in Reader, ComputeFails(r) PROVE CacheInv'
  <2>1. TypeOK'
    BY <1>8 DEF ComputeFails, TypeOK
  <2>2. \A q \in Reader : ReadingOK(q)'
    BY <1>8 DEF ComputeFails, TypeOK, ReadingOK, NotReading
  <2>3. StaleOnlyFromOverlap'
    BY <1>8 DEF ComputeFails, StaleOnlyFromOverlap, Usable
  <2> QED
    BY <2>1, <2>2, <2>3
<1>9. CASE Tick
  <2>1. \A k \in Range : left'[k] \in 0 .. left[k]
    BY <1>9 DEF Tick, Later, TypeOK
  <2>2. TypeOK'
    BY <1>9, <2>1 DEF Tick, TypeOK
  <2>3. \A r \in Reader : ReadingOK(r)'
    BY <1>9 DEF Tick, ReadingOK
  <2>4. StaleOnlyFromOverlap'
    BY <1>9, <2>1 DEF Tick, StaleOnlyFromOverlap, Usable, TypeOK
  <2> QED
    BY <2>2, <2>3, <2>4
<1>10. CASE Restart
  <2>1. TypeOK'
    BY <1>10 DEF Restart, TypeOK, Entry, NoEntry, Count
  <2>2. \A r \in Reader : ReadingOK(r)'
    BY <1>10 DEF Restart, ReadingOK, NotReading
  <2>3. StaleOnlyFromOverlap'
    BY <1>10 DEF Restart, StaleOnlyFromOverlap, Usable
  <2> QED
    BY <2>1, <2>2, <2>3
<1>11. CASE UNCHANGED vars
  BY <1>11 DEF vars, TypeOK, ReadingOK, StaleOnlyFromOverlap, Usable
<1> QED
  BY <1>1, <1>2, <1>3, <1>4, <1>5, <1>6, <1>7, <1>8, <1>9, <1>10, <1>11
     DEF Next, Compute

LEMMA CacheInvariant == Spec => []CacheInv
BY CacheInit, CacheStep, PTL DEF Spec

\* Every state of the cache and its readers is well typed, and only what has
\* been committed is ever announced.
THEOREM CacheTypeCorrect == Spec => []TypeOK
BY CacheInvariant, PTL DEF CacheInv

\* However many requests compute and however changes commit and are announced,
\* an entry that is served and misses an announced change was computed across
\* that announcement.
THEOREM StalenessNeedsOverlap == Spec => []StaleOnlyFromOverlap
BY CacheInvariant, PTL DEF CacheInv

\* A summary about to be stored has figures from between its request and now.
THEOREM SummariesAreRecent == Spec => []SummaryWithinRequest
<1>1. CacheInv => SummaryWithinRequest
  BY DEF CacheInv, ReadingOK, SummaryWithinRequest, At
<1> QED
  BY <1>1, CacheInvariant, PTL
=============================================================================
