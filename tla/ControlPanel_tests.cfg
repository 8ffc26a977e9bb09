SPECIFICATION Spec
CONSTANTS
  s1 = s1
  s2 = s2
  Strategies <- StrategyList
  Modes = {"none"}
  Unknown = Unknown
  MaxEdits = 1
  MaxCommands = 3
PROPERTY
  SettingsAreRestored
CHECK_DEADLOCK FALSE
