CONSTANTS
  Devices = {d1, d2}
  Timers = {t1, t2, t3}
  NoDevice = NoDevice
  NoTimer = NoTimer
  Timings = {TRUE, FALSE}

SPECIFICATION FairSpec
INVARIANTS
  LinesMatchList
  PendingIsLive
  NoGhostPeers
PROPERTIES
  ImplementsDebouncedPresence
  OfflinePeersLeave
