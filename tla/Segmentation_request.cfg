SPECIFICATION Spec
CONSTANTS
  Profile <- MCProfile
  Request <- MCRequest
  W = 32
  IdMod = 16
  BufMax = 6
  TcpHeader = 5
  DefaultFragPos = 8
  MaxFail = 2
INVARIANTS
  TypeOK
  StreamIsClients
  IdsDiffer
  NothingLost
CHECK_DEADLOCK FALSE
