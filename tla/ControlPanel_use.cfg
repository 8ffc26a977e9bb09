SPECIFICATION LiveSpec
CONSTANTS
  s1 = s1
  s2 = s2
  Strategies <- StrategyList
  Modes = {"none"}
  Unknown = Unknown
  MaxEdits = 1
  MaxCommands = 3
INVARIANTS
  TypeOK
  CancelIsOurs
  RunsAsSelected
PROPERTIES
  TestRestores
  BusyEnds
CHECK_DEADLOCK FALSE
