\* Two administrator requests and a query.
SPECIFICATION Spec
CONSTANTS
  a1 = a1
  a2 = a2
  q1 = q1
  Ids <- MCIds
  Kind <- MCKind
  Driver <- MCDriver
  Seeded <- MCSeeded
  Admins <- MCAdmins
  Queries = {q1}
  MaxRequests = 3
  MaxVer = 2
  MaxEngines = 3
  MaxFaults = 1
SYMMETRY MCSymmetry
INVARIANTS
  AtMostOneDefault
  CacheServesDefault
PROPERTY QueryRunsOnDefault
CHECK_DEADLOCK FALSE
