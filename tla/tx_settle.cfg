\* Every request settles, with two connections for three handlers.
SPECIFICATION FairTxSpec
CONSTANTS
  c1 = c1  c2 = c2  r1 = r1  k1 = k1
  w1 = w1  w2 = w2  w3 = w3
  MaxSafe = 100000000
  ComputerId = {c1, c2}
  RoomId = {r1}
  CustomerId = {k1}
  NoCustomer = NoCustomer
  LiveAtStart = {c1, c2, r1, k1}
  HomeRoom <- MCHomeRoom
  Prices <- MCPrices
  Instants = {0}
  Terms = {1}
  Receipts = {0, 1}
  Payments = {1, 2}
  Corrections <- MCCorrections
  Batches <- MCBatches
  StatusEdits = {}
  Removable = {}
  MaxSessions = 8
  Horizon = 1000000
  MaxEntries = 6
  MaxComputerUpdates = 0
  MaxRoomUpdates = 0
  MaxCustomerUpdates = 0
  Worker = {w1, w2, w3}
  Requests <- MCWaitingRequests
  PoolSize = 2
  MaxRequests = 3
INVARIANT CreditNeedsCorrection
PROPERTIES ImplementsDesk PaymentsNeverOverdraw EveryRequestSettles
CHECK_DEADLOCK FALSE
