\* A tunnel whose request may arrive in pieces; every end may leave.
CONSTANTS
  HeadReads <- AnySegments
  MaxSend = 3
  Window = 2
SPECIFICATION FairSpec
INVARIANTS TunnelTypeOK
PROPERTIES UpIsStream DownIsStream IsConnection Drains LeavingEnds
CHECK_DEADLOCK FALSE
