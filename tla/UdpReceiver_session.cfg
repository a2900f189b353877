SPECIFICATION FairSpec
CONSTANTS
  NumPackets = 5
  Start <- MCStart
  Cached = {1, 2, 3, 4, 5}
  Frames = {f1, f2}
  FqSize = 1
  RxSize = 2
  BurstSize = 2
  ReorderMax = 2
  RingSize = 5
  ReqMax = 2
  MaxReplay = 2
  MaxDeliveries = 3
CHECK_DEADLOCK FALSE
INVARIANTS
  FrameOwnership
  SlotOwnership
  RingNeverLapped
  NothingDeliverableWaits
PROPERTIES
  FeedSpec
  GapCloses
