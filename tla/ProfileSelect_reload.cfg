SPECIFICATION Spec
CONSTANTS
  Files <- MCFiles
  Name <- MCName
  Host = {"a.d", "b"}
  HostIsIp = {}
  Above <- MCAbove
  Dest = "ip"
  Impossible = "@"
  Profile <- MCProfile
  Content <- MCContent
  Editable = {"general", "exclude", "ipset"}
  Conn = {"c1"}
  RetransThreshold = 2
  FailThreshold = 2
  MaxSig = 2
  MaxEdits = 1
INVARIANTS
  TypeOK
  DecisionFitsLists
  LoadedIsOnDisk
  DecidedByFreshLists
  ProfileIsKnown
PROPERTIES
  AddedIsNew
