CONSTANTS
  Devices = {d1, d2}
  Timers = {t1, t2, t3}
  NoDevice = NoDevice
  NoTimer = NoTimer
  Timings = {FALSE}

SPECIFICATION FairSpec
PROPERTIES
  RemovedOnlyWhileOffline
