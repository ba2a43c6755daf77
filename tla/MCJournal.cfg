SPECIFICATION JournalSpec
CONSTANTS
  i1 = i1
  i2 = i2
  i3 = i3
  b1 = b1
  b2 = b2
  Ids <- MCIds
  LiveIds <- MCLiveIds
  ShadowIds <- MCShadowIds
  Bodies <- MCBodies
  Scopes = {"demo", "live"}
  NoScope = NoScope
  NoTail = NoTail
  Fragment = Fragment
  OrderCapacity = 3
  OrderBudget = 5
  TotalBudget = 13
  MaxRecords = 4
SYMMETRY Symmetry
INVARIANTS
  RestartAccepted
  IndexMatchesLog
  ReadsOwnRecords
  PendingIsExact
PROPERTY ImplementsLedger
CHECK_DEADLOCK FALSE
