CONSTANTS
  Readers = {"reader"}
  Author = "author"
  MaxInputs = 2
  MaxLosses = 1

SPECIFICATION FairSpec
CHECK_DEADLOCK FALSE
INVARIANTS
  ExtrasMatchHistory
  ReceiptsAreTrue
  ReactionsConverge
PROPERTIES
  ReadIsFinal
  ReceiptsArrive
