SPECIFICATION Spec
CONSTANTS
  NumPackets = 3
  Start <- MCStart3
  Cached = {1, 2, 3}
  Frames = {f1, f2}
  FqSize = 1
  RxSize = 1
  BurstSize = 1
  ReorderMax = 2
  RingSize = 5
  ReqMax = 2
  MaxReplay = 1
  MaxDeliveries = 3
SYMMETRY FrameSymmetry
CHECK_DEADLOCK FALSE
INVARIANTS
  PinnedFramesMapped
