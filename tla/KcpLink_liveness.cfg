SPECIFICATION FairSpec
CONSTANTS
  Local = Local
  Server = Server
  SndWnd = 1
  RcvWnd = 1
  WND_RCV = 2
  MTU = 6
  OVERHEAD = 1
  DEADLINK = 1
  FastResend = 0
  NoCwnd = TRUE
  MsgLens <- Lens1
  SendLimit <- OneWay3
  MaxNet = 1
PROPERTIES
  AllDelivered
