CONSTANTS
  Interfaces = {"tui"}
  Workers = {"w1"}
  Limit = 2
  MaxEvents = 1
  MaxLosses = 0

SPECIFICATION FairSpec
CHECK_DEADLOCK FALSE
PROPERTIES
  QuitEnds
