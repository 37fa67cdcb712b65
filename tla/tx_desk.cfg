\* Group starts in both orders, extensions, endings and cancellations of the same
\* sessions, with crashes, and a manager who saves and removes computers.
SPECIFICATION TxSpec
CONSTANTS
  c1 = c1  c2 = c2  r1 = r1  k1 = k1
  w1 = w1  w2 = w2  w3 = w3
  MaxSafe = 100000000
  ComputerId = {c1, c2}
  RoomId = {r1}
  CustomerId = {k1}
  NoCustomer = NoCustomer
  LiveAtStart = {c1, c2, r1, k1}
  HomeRoom <- MCHomeRoom
  Prices <- MCPrices
  Instants = {0}
  Terms = {1}
  Receipts = {0, 1}
  Payments = {1, 2}
  Corrections <- MCCorrections
  Batches <- MCBatches
  StatusEdits = {"MAINTENANCE"}
  Removable = {c1}
  MaxSessions = 8
  Horizon = 1000000
  MaxEntries = 6
  MaxComputerUpdates = 1
  MaxRoomUpdates = 0
  MaxCustomerUpdates = 0
  Worker = {w1, w2}
  Requests <- MCDeskRequests
  PoolSize = 2
  MaxRequests = 3
SYMMETRY MCWorkers
INVARIANTS TxTypeOK DeadlockCauses
PROPERTY ImplementsDesk
CHECK_DEADLOCK FALSE
