SPECIFICATION FairSpec
CONSTANTS
  NumOrders = 5
  RingSize = 2
  CursorMod = 4
  MaxSessions = 2
  OrderCap = 3
  AckCap = 3
  AckPoll = 2
  AckBatch = 1
INVARIANTS
  AcceptedOnceInOrder
  SessionsAgree
  LostOnlyByBreak
  EveryOrderHandedOver
  AckedWasAccepted
PROPERTIES
  OrdersArrive
  AcksArrive
