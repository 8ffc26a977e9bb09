SPECIFICATION Spec
CONSTANTS
  Size <- MCSize
  Hello = {"hello"}
  MaxSplits = 3
  Lines <- MCLines
  Config <- MCConfig
  Disks <- MCDisks
  Gzipped = {"z"}
  Creatable = {"n", "log", "pid"}
  Subnets = {"net"}
  Passwd <- MCPasswd
  None = None
INVARIANTS
  TypeOK
  ProfilesAreSections
  PortFiltersMean
  ModsReachFakes
  RunsReady
CHECK_DEADLOCK FALSE
