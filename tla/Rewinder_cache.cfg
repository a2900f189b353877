SPECIFICATION Spec
CONSTANTS
  NumPackets = 10
  Start <- MCStart
  CacheSlots = 4
  CursorMod = 8
  MaxReplay = 3
  DropEvery = 2
  Requests <- MCRequests
  MaxRequests = 1
CHECK_DEADLOCK FALSE
INVARIANTS
  CacheHolds
  MissOnlyOutsideWindow
  IntactUnlessOverwritten
  AnswerIsReplay
