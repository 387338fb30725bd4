SPECIFICATION FairSpec
CONSTANTS
  Roles = {TRUE, FALSE}
  MaxConv = 3
  Interval = 1
  BufferMax = 2
  WordMax = 3
  MaxReady = 2
  MaxTraffic <- TwoAndFive
  MaxSetBack <- LocalOne
INVARIANTS
  TypeOK
  SessionOnce
PROPERTIES
  Accepted
  HandedOn
  UpdatedRepeatedly
CHECK_DEADLOCK FALSE
