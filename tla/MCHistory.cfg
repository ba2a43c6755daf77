SPECIFICATION HistoryFairSpec
CONSTANTS
  o1 = o1
  o2 = o2
  b1 = b1
  Ids <- MCIds
  LiveIds <- MCIds
  ShadowIds = {}
  Bodies = {b1}
  Scopes = {"live"}
  NoScope = NoScope
  NoTail = NoTail
  Fragment = Fragment
  OrderCapacity = 2
  OrderBudget = 5
  TotalBudget = 10
  MaxRecords = 6
  IdRank <- MCIdRank
  ObservedAt <- MCObservedAt
  ExportBatch = 2
  UnknownBatch = 1
  Results = {"accepted", "unknown", "blocked"}
  MaxFaults = 2
INVARIANTS HistoryTypeOK ReceiptsStand
CHECK_DEADLOCK FALSE
PROPERTIES CatchesUp
