CONSTANTS
  Interfaces = {"chat", "tui"}
  Workers = {"w1", "w2"}
  Limit = 2
  MaxEvents = 3
  MaxLosses = 1

SPECIFICATION FairSpec
CHECK_DEADLOCK FALSE
INVARIANTS
  TypeOK
  TranscriptSettles
PROPERTIES
  LeavingEndsOrHangs
