\* Two readers: is a re-fetch fresh?
SPECIFICATION Spec
CONSTANTS
  r1 = r1  r2 = r2  today = today  week = week
  Range = {today}
  Reader = {r1, r2}
  Ttl = 2
  MaxChanges = 1
INVARIANT RefetchIsFresh
