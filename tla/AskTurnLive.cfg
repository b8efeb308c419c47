\* Either request on its own and three faults: it ends, and its turn does not
\* stay pending unless a fault hit it.
SPECIFICATION MCFairSingle
CONSTANTS
  s1 = s1
  p1 = p1
  Turns <- MCStreamedAndPlain
  Streamed <- MCStreamed
  MemoryEnabled = TRUE
  MaxNodes = 2
  MaxFaults = 3
PROPERTIES
  RequestEnds
  TurnCloses
CHECK_DEADLOCK FALSE
