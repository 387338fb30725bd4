SPECIFICATION Spec
CONSTANTS
  NULL = NULL
  W = 256
  Configs <- Options
  Convs <- Numbers
  ReadSize = 8
  WND_SND = 2
  WND_RCV = 3
  MTU_DEF = 7
  OVERHEAD = 3
  INTERVAL = 100
  RTO_NDL = 30
  RTO_MIN = 100
  MtuMin = 5
  IntervalMin = 10
  IntervalMax = 120
  AckBlock = 2
  WndMod = 16
  Datagrams <- Offsets
  MaxQueued = 2
  MaxAcks = 3
INVARIANTS
  TypeOK
  Configured
  BufferFits
  AcksFit
  WindowShown
  NoLeak
  WritesAccepted
CHECK_DEADLOCK FALSE
