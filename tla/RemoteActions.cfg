CONSTANTS
  Requests = {"r"}
  Devices = {"x"}
  From <- Requester
  Action <- Asked
  AlwaysAllowed = {"status"}
  Actions = {"status", "update"}
  SeenCap = 1
  SeenKeep = 1
  MaxRestarts = 1
  NoRequest = NoRequest

SPECIFICATION FairSpec
INVARIANTS
  RunsOncePerClient
  AnswersAreTrue
  NothingLeftBehind
  RunsArePermitted
PROPERTIES
  CallsEnd
