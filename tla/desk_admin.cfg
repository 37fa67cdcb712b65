\* Managers create, edit and remove the computer and its room, with updates in
\* flight, while sessions run.
SPECIFICATION Spec
CONSTANTS
  c1 = c1  c2 = c2  r1 = r1  r2 = r2  k1 = k1
  MaxSafe = 100000000
  ComputerId = {c1}
  RoomId = {r1}
  CustomerId = {k1}
  NoCustomer = NoCustomer
  LiveAtStart = {k1}
  HomeRoom <- MCHomeRoom
  Prices <- MCTwoPrices
  Instants = {0}
  Terms = {1}
  Receipts = {0}
  Payments = {}
  Corrections = {}
  Batches <- MCBatches
  StatusEdits = {"AVAILABLE","MAINTENANCE"}
  Removable = {c1, r1}
  MaxSessions = 2
  Horizon = 120000
  MaxEntries = 1
  MaxComputerUpdates = 1
  MaxRoomUpdates = 1
  MaxCustomerUpdates = 0
INVARIANTS ChargeMatchesTime AtMostOneActive
PROPERTY ServiceIsManual
CHECK_DEADLOCK FALSE
