CONSTANTS
  Networks = {"home", "work"}
  MaxSwitches = 1
  MaxEvents = 2
  MaxDrops = 1

SPECIFICATION FairSpec
INVARIANTS
  OneConnection
  FailureIsTrue
  NetworksStayApart
  OneTimerEach
PROPERTIES
  StatusSettles
CHECK_DEADLOCK FALSE
