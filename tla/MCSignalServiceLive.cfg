SPECIFICATION FairSpec
CONSTANTS
  i1 = i1
  i2 = i2
  b1 = b1
  b2 = b2
  r1 = r1
  r2 = r2
  r3 = r3
  Ids <- MCIds
  LiveIds = {}
  ShadowIds = {}
  Bodies = {b1}
  Scopes = {"demo"}
  NoScope = NoScope
  NoTail = NoTail
  Fragment = Fragment
  OrderCapacity = 3
  OrderBudget = 5
  TotalBudget = 10
  MaxRecords = 4
  Requests = {r1, r2}
  Inputs <- MCOneBody
  Codes <- MCCodes
  Responses <- MCResponses
  QueueCapacity = 1
  MaxInflight = 2
PROPERTIES
  PoisonStops
  QueuedIsAnswered
CHECK_DEADLOCK FALSE
