SPECIFICATION AllSpec
CONSTANTS
  None = None
  Socket = {a, b}
  Instance = {i1, i2}
  TTL = 2
  MaxCrashes = 1
  Req = {r1, r2}
  MaxMessages = 1
  MaxTags = 3
  MaxCalls = 4
  Loop = {l1, l2}
  BatchSize = 2
  MaxEntries = 2
  MaxFaults = 1
  N = 5
  Compensable = {1, 2, 3, 4}
  MaxOrders = 4
  MaxClock = 1
  OrdersCap = 1
  OutboxCap = 2
  MaxWire = 2
  User = {u}
  Full = 2
  MaxRequests = 3
INVARIANTS ClientsAreTold ConsumersRegistered StreamAccounts SagaSettles EventsInOrder
PROPERTIES OfflineInTheEnd FreshIsHandled PromiseSpec EveryEventArrives
CHECK_DEADLOCK FALSE
