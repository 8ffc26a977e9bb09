SPECIFICATION LiveSpec
CONSTANTS
  MaxUpdates = 2
  MaxToggles = 2
INVARIANTS
  AppSurvives
PROPERTIES
  AppComesBack
CHECK_DEADLOCK FALSE
