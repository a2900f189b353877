SPECIFICATION Spec
CONSTANTS
  NumPackets = 5
  Start <- MCStart
  CacheSlots = 2
  CursorMod = 16
  MaxReplay = 2
  DropEvery = 2
  Requests <- MCRequests
  MaxRequests = 1
CHECK_DEADLOCK FALSE
INVARIANTS
  OverwritesAreMisses
