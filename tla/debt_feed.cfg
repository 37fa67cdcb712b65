\* Three handlers on two customers: what the process emits and stores.
SPECIFICATION FairSpec
CONSTANTS
  h1 = h1  h2 = h2  h3 = h3
  MaxSafe = 100000000
  CustomerId = {k1, k2}
  k1 = k1  k2 = k2
  MaxEntries = 3
  Handler = {h1, h2, h3}
  Shortfalls = {2}
  Repayments = {1}
  Adjustments <- MCAdjustments
INVARIANTS TypeOK AnnouncedOnce AnnouncedAfterCommit CurrentBalanceIsAnnounced EndBeforeDebt NoFalseAlarm
PROPERTY EveryEntryIsAnnounced
CHECK_DEADLOCK FALSE
