\* A room is repriced, closed and removed, and a customer registered, blocked and
\* removed, while starts of a group and of a walk-in are under way.
SPECIFICATION TxSpec
CONSTANTS
  c1 = c1  c2 = c2  r1 = r1  k1 = k1
  w1 = w1  w2 = w2  w3 = w3
  MaxSafe = 100000000
  ComputerId = {c1, c2}
  RoomId = {r1}
  CustomerId = {k1}
  NoCustomer = NoCustomer
  LiveAtStart = {c1, c2, r1}
  HomeRoom <- MCHomeRoom
  Prices <- MCTwoPrices
  Instants = {0}
  Terms = {1}
  Receipts = {0, 1}
  Payments = {1, 2}
  Corrections <- MCCorrections
  Batches <- MCBatches
  StatusEdits = {}
  Removable = {r1, k1}
  MaxSessions = 8
  Horizon = 1000000
  MaxEntries = 6
  MaxComputerUpdates = 0
  MaxRoomUpdates = 1
  MaxCustomerUpdates = 1
  Worker = {w1, w2}
  Requests <- MCStartRequests
  PoolSize = 2
  MaxRequests = 2
SYMMETRY MCWorkers
INVARIANT StartsAsOffered
CHECK_DEADLOCK FALSE
