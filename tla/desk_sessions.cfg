\* Sessions, extensions, endings, cancellations, payments and corrections on two
\* computers of two rooms; the customer may be removed at any time.
SPECIFICATION Spec
CONSTANTS
  c1 = c1  c2 = c2  r1 = r1  r2 = r2  k1 = k1
  MaxSafe = 100000000
  ComputerId = {c1, c2}
  RoomId = {r1, r2}
  CustomerId = {k1}
  NoCustomer = NoCustomer
  LiveAtStart = {c1, c2, r1, r2, k1}
  HomeRoom <- MCHomeRoom
  Prices <- MCPrices
  Instants <- MCInstants
  Terms <- MCTerms
  Receipts <- MCReceipts
  Payments <- MCAmounts
  Corrections <- MCCorrections
  Batches <- MCBatches
  StatusEdits <- MCNone
  Removable = {k1}
  MaxSessions = 2
  Horizon = 150500
  MaxEntries = 2
  MaxComputerUpdates = 0
  MaxRoomUpdates = 0
  MaxCustomerUpdates = 0
INVARIANTS TypeOK ChargeMatchesTime DebtMatchesShortfall OccupancyAgrees
PROPERTIES HistoryKept ExtensionsOnlyAdd
CHECK_DEADLOCK FALSE
