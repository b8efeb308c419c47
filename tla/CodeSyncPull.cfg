\* A sync of a remote takes the version the remote has.
SPECIFICATION Spec
CONSTANTS
  j1 = j1
  j2 = j2
  Syncs <- MCSyncs
  Source <- MCSource
  ProgressEvery = 3
  MaxFaults = 0
PROPERTY SyncTakesLatest
CHECK_DEADLOCK FALSE
