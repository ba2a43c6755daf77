SPECIFICATION FairSpec
CONSTANTS
  LeaseLimit = 1
  StaleLimit = 1
  Skew = 1
  MaxTime = 6
  MaxInbox = 1
INVARIANTS ControlTypeOK StopReachesProcess SilenceStops OfflineIsDry
PROPERTIES DisconnectDisables
CHECK_DEADLOCK FALSE
