SPECIFICATION Spec
CONSTANTS
  i1 = i1
  i2 = i2
  b1 = b1
  b2 = b2
  r1 = r1
  r2 = r2
  r3 = r3
  Ids <- MCIds
  LiveIds = {}
  ShadowIds = {}
  Bodies <- MCBodies
  Scopes = {"demo"}
  NoScope = NoScope
  NoTail = NoTail
  Fragment = Fragment
  OrderCapacity = 3
  OrderBudget = 5
  TotalBudget = 9
  MaxRecords = 6
  Requests <- MCRequests
  Inputs <- MCInputs
  Codes <- MCCodes
  Responses <- MCResponses
  QueueCapacity = 2
  MaxInflight = 2
SYMMETRY Symmetry
INVARIANT UnknownKeepsStopped
CHECK_DEADLOCK FALSE
