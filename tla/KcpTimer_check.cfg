SPECIFICATION Spec
CONSTANTS
  W = 32
  Interval = 3
  NoDelay = FALSE
  FastResend = 1
  RTO_NDL = 2
  RTO_MIN = 3
  RTO_DEF = 4
  RTO_MAX = 9
  PROBE_INIT = 2
  PROBE_LIMIT = 3
  JUMP = 6
  Start = 22
  MaxNow = 44
  MaxSegs = 1
  MaxAcks = 1
  Steps <- Forth
INVARIANTS
  CheckNamesAFlush
CHECK_DEADLOCK FALSE
