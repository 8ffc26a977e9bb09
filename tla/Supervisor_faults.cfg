SPECIFICATION LiveSpec
CONSTANTS
  Token = {t1, t2, t3, t4}
  NoToken = NoToken
  Route = {r1, r2}
  MaxScripts = 2
  MaxFaults = 1
INVARIANTS
  TypeOK
  KeepinitIsKept
  StoppedIsClean
  OneReference
PROPERTIES
  NoBlackHole
  ServesInTheEnd
CHECK_DEADLOCK FALSE
