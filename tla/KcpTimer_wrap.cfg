SPECIFICATION Spec
CONSTANTS
  W = 64
  Interval = 3
  NoDelay = FALSE
  FastResend = 1
  RTO_NDL = 2
  RTO_MIN = 3
  RTO_DEF = 4
  RTO_MAX = 9
  PROBE_INIT = 2
  PROBE_LIMIT = 3
  JUMP = 6
  Start = 58
  MaxNow = 71
  MaxSegs = 2
  MaxAcks = 1
  Steps <- Forth
INVARIANTS
  TypeOK
  FlushPlanned
  ProbedInTime
  CheckMissesNothing
  NoLateTimeout
CHECK_DEADLOCK FALSE
