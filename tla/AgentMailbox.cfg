CONSTANTS
  Messages = {1, 2}
  Senders = {"bob"}
  SentBy <- OnePeer
  Hooks = {"h1", "h2"}
  Users = {"user"}
  MaxRestarts = 1

SPECIFICATION FairMailboxSpec
INVARIANTS
  AlertedOnce
  OneHookAtATime
PROPERTIES
  BurstIsShown
  ReadStaysRead
