SPECIFICATION ClockSpec
CONSTANTS
  W = 44
  Interval = 2
  NoDelay = FALSE
  FastResend = 0
  RTO_NDL = 2
  RTO_MIN = 3
  RTO_DEF = 3
  RTO_MAX = 8
  PROBE_INIT = 2
  PROBE_LIMIT = 3
  JUMP = 6
  Start = 8
  MaxNow = 0
  MaxSegs = 0
  MaxAcks = 0
  MaxClock = 47
  MaxSetBack = 0
  Steps <- Ticks
INVARIANTS
  FlushedAlways
CHECK_DEADLOCK FALSE
