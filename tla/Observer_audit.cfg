SPECIFICATION Spec
CONSTANTS
  MaxSessions = 2
  NumOrders = 2
  BufSize = 3
  MaxSegment = 4
  MaxMishaps = 1
  PipeSize = 1
  MaxPending = 1
  MaxCrashes = 1
CHECK_DEADLOCK FALSE
INVARIANTS
  EveryOrderSeen
  ResyncCost
  AuditMatches
