SPECIFICATION FairSpec
CONSTANTS
  NumFrames = 4
  TxSize = 2
  Word = 8
  MaxLength = 3
  MaxOrders = 4
  MaxLostKicks = 1
  Symbols = {s1, s2}
  SymbolRate = 1
  AggRate = 3
  RiskRate = 2
  Burst = 2
  RiskBurst = 1
  Second = 2
  MaxPosition = 1
  MaxQty = 1
  MaxTime = 3
CHECK_DEADLOCK FALSE
INVARIANTS
  RateRespected
  SentWithinLimit
  FrameOwnership
  WireInOrder
  ChecksumsValid
PROPERTIES
  OrdersLeave
