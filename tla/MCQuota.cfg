SPECIFICATION QuotaSpec
CONSTANTS
  m1 = m1
  m2 = m2
  t1 = t1
  t2 = t2
  Markets <- MCMarkets
  Tasks <- MCTasks
  MaxOrders = 2
  Window = 5
  Cooldown = 2
  MaxAge = 1
  MaxClock = 5
  MaxRows = 3
  MaxRuns = 2
SYMMETRY Symmetry
INVARIANTS QuotaTypeOK QuotaKept CooldownKept SlotsLapse
