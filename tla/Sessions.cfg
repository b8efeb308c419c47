\* Three requests of two users, who may have one conversation each.
SPECIFICATION Spec
CONSTANTS
  ann = ann
  bob = bob
  r1 = r1
  r2 = r2
  r3 = r3
  nobody = nobody
  Users <- MCUsers
  Sids <- MCSids
  Requests <- MCRequests
  MaxActive = 1
  Policy = "oldest"
  MemoryTurns = 1
  Nobody = nobody
SYMMETRY MCSymmetry
INVARIANTS
  ActiveIsBounded
  ReportsAreWhole
PROPERTIES
  DeletedStaysDeleted
  ImplementsStore
CHECK_DEADLOCK FALSE
