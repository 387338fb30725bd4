SPECIFICATION Spec
CONSTANTS
  Local = Local
  Server = Server
  SndWnd = 2
  RcvWnd = 1
  WND_RCV = 3
  MTU = 3
  OVERHEAD = 1
  DEADLINK = 1
  FastResend = 1
  NoCwnd = TRUE
  MsgLens <- Lens1
  SendLimit <- OneWay2
  MaxNet = 2
INVARIANTS
  IInv
  InOrderExactlyOnce
  NoSegmentLost
PROPERTIES
  OnlyForward
