CONSTANTS
  Devices = {"x"}
  Networks = {"home", "work"}
  Shells = {"s1"}
  MaxSaves = 2
  MaxCommands = 2
  MaxStarts = 2
  NoFile = NoFile

SPECIFICATION Spec
INVARIANT
  ChangesApply
CHECK_DEADLOCK FALSE
