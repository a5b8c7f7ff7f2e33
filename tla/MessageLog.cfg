CONSTANTS
  Windows <- TwoWindows
  Author <- Author0
  Setups <- FourSetups
  MaxEdits = 2
  MaxLosses = 1

SPECIFICATION FairSpec
CHECK_DEADLOCK FALSE
INVARIANTS
  WindowMatchesHistory
  DeletedStaysGone
PROPERTIES
  EditsNeverGoBack
  EditsConverge
  DeletionReachesAll
