\* Two handlers on one customer: the last event and the balance.
SPECIFICATION Spec
CONSTANTS
  h1 = h1  h2 = h2  h3 = h3
  MaxSafe = 100000000
  CustomerId = {k1}
  k1 = k1  k2 = k2
  MaxEntries = 2
  Handler = {h1, h2}
  Shortfalls = {2}
  Repayments = {1}
  Adjustments <- MCAdjustments
SYMMETRY MCHandlers
INVARIANT LastBalanceIsAuthoritative
CHECK_DEADLOCK FALSE
