SPECIFICATION Spec
CONSTANTS
  Local = Local
  Server = Server
  SndWnd = 2
  RcvWnd = 1
  WND_RCV = 3
  MTU = 3
  OVERHEAD = 1
  DEADLINK = 2
  FastResend = 1
  NoCwnd = FALSE
  MsgLens <- Lens13
  SendLimit <- OneWay2
  MaxNet = 1
INVARIANTS
  TypeOK
  CwndOpen
  WholeMessages
  FullQueueReadable
  FlightBound
  DatagramFits
PROPERTIES
  ImplementsStream
