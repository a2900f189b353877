SPECIFICATION FairSpec
CONSTANTS
  Sizes = {1, 2}
  Times = {1, 2}
  MaxMessages = 4
  Extra = {0, 3}
  MaxPayload = 8
  BufSize = 9
  MinSize = 2
  Every = 2
CHECK_DEADLOCK FALSE
INVARIANTS
  StreamIsFile
  PacketsAreSound
  WireIsCached
PROPERTIES
  SessionEnds
