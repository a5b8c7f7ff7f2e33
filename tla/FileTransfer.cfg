CONSTANTS
  Transfers = {a, b}
  Addressed = {a, b}
  Filename <- SameName
  MaxChunks = 4
  Lengths <- ChangingLengths
  SenderLimit = 3
  ReceiverLimit = 2
  Existing <- TakenPaths
  MaxCopies = 4
  MaxRestarts = 1

SPECIFICATION FairSpec
CHECK_DEADLOCK FALSE
INVARIANTS
  PartMatchesReceived
  SavedOnce
  SavedIsGenuine
  DiscardedOnlyIfShrunk
PROPERTIES
  NoOverwrite
  EveryTransferEnds
