SPECIFICATION Spec
CONSTANTS
  g1 = g1
  a2 = a2
  b2 = b2
  c2 = c2
  ea2 = ea2
  eb2 = eb2
  c1 = c1
  NoBlock = NoBlock
  NoEvent = NoEvent
  Blocks <- MCBlocks
  NumberOf <- MCNumberOf
  Branches <- MCBranches
  Events <- MCEvents
  BlockOf <- MCBlockOf
  IndexOf <- MCIndexOf
  Conns = {c1}
  Lookback = 0
  Span = 2
  Providers = 2
  BusCapacity = 1
  MaxRollbacks = 1
  MaxFaults = 1
  UmaTrade = TRUE
INVARIANTS FeedTypeOK InStep
PROPERTIES ScanRepairs
SYMMETRY Exchange
