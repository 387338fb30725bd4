SPECIFICATION FairSpec
CONSTANTS
  Roles = {TRUE}
  MaxConv = 2
  Interval = 1
  BufferMax = 2
  WordMax = 3
  MaxReady = 1
  MaxTraffic <- Two
  MaxSetBack <- None
PROPERTIES
  ClosedIsRemoved
CHECK_DEADLOCK FALSE
