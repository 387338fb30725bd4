SPECIFICATION FairSpec
CONSTANTS
  Roles = {TRUE}
  MaxConv = 2
  Interval = 1
  BufferMax = 2
  WordMax = 3
  MaxReady = 1
  MaxTraffic <- Unbounded
  MaxSetBack <- None
PROPERTIES
  UpdatedRepeatedly
CHECK_DEADLOCK FALSE
