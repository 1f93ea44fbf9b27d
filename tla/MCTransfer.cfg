CONSTANTS
  MaxFd = 3
  MaxConn = 3
  MaxFault = 1
  Addresses = 2
  Server = Server
  None = None
SPECIFICATION FairSpec
INVARIANT NoLeak
INVARIANT Heard
INVARIANT AllClosed
PROPERTY HangUpSeen
