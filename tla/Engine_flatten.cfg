SPECIFICATION FairSpec
CONSTANTS
  NumShards = 1
  QuoteQty = 2
  HardLimit = 1
  PanicLimit = 2
  Threshold = 1
  RingSize = 1
  MaxPrice = 3
  MaxTrade = 2
  MaxAhead = 1
CHECK_DEADLOCK FALSE
PROPERTIES
  FlattenTearsDown
