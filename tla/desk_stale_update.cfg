\* A manager saves a computer loaded before a session started on it.


SPECIFICATION Spec
CONSTANTS
  c1 = c1  c2 = c2  r1 = r1  r2 = r2  k1 = k1
  MaxSafe = 100000000
  ComputerId = {c1, c2}
  RoomId = {r1}
  CustomerId = {k1}
  NoCustomer = NoCustomer
  LiveAtStart = {c1, c2, r1, k1}
  HomeRoom <- MCHomeRoom
  Prices <- MCPrices
  Instants = {0}
  Terms = {1}
  Receipts = {0}
  Payments = {}
  Corrections = {}
  Batches <- MCBatches
  StatusEdits = {}
  Removable = {}
  MaxSessions = 2
  Horizon = 120000
  MaxEntries = 1
  MaxComputerUpdates = 1
  MaxRoomUpdates = 0
  MaxCustomerUpdates = 0
INVARIANT OccupancyAgrees
CHECK_DEADLOCK FALSE
