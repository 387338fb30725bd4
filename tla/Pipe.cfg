SPECIFICATION FairSpec
CONSTANTS
  Local = Local
  Server = Server
  Size = 1
  Timeout = 2
  MaxBytes = 2
INVARIANTS
  TypeOK
  NothingBehindEmpty
  OutlivesBriefly
PROPERTIES
  ImplementsStreams
  EndsTogether
  EofDelivered
CHECK_DEADLOCK FALSE
