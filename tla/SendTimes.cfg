SPECIFICATION SendSpec
CONSTANTS
  W = 32
  Interval = 2
  NoDelay = FALSE
  FastResend = 0
  RTO_NDL = 2
  RTO_MIN = 6
  RTO_DEF = 7
  RTO_MAX = 7
  PROBE_INIT = 2
  PROBE_LIMIT = 3
  JUMP = 15
  Start = 0
  MaxNow = 0
  MaxSegs = 1
  MaxAcks = 1
  MaxClock = 33
  MaxSetBack = 1
  Steps <- FarBack
INVARIANTS
  UpdaterRuns
  FlushedInTime
  ResentInTime
  FlushPlannedAfterJump
PROPERTIES
  NoEarlyTimeout
CHECK_DEADLOCK FALSE
