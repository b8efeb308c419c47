\* Two syncs, the deletion, two versions and one fault.
SPECIFICATION Spec
CONSTANTS
  j1 = j1
  j2 = j2
  Syncs <- MCSyncs
  Source <- MCSource
  ProgressEvery = 3
  MaxFaults = 1
INVARIANTS
  LoneSyncIsExact
  DeletedLeavesNothing
PROPERTY SyncEnds
CHECK_DEADLOCK FALSE
