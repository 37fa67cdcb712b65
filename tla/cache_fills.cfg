\* Two readers and two ranges: what the cache may serve.
SPECIFICATION FairSpec
CONSTANTS
  r1 = r1  r2 = r2  today = today  week = week
  Range = {today, week}
  Reader = {r1, r2}
  Ttl = 2
  MaxChanges = 2
INVARIANTS TypeOK StaleOnlyFromOverlap SummaryWithinRequest
PROPERTY StalenessEnds
