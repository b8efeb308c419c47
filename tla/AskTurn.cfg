\* One streamed and one plain request, two faults in any combination.
SPECIFICATION Spec
CONSTANTS
  s1 = s1
  p1 = p1
  Turns <- MCStreamedAndPlain
  Streamed <- MCStreamed
  MemoryEnabled = TRUE
  MaxNodes = 1
  MaxFaults = 2
INVARIANTS
  TypeOK
  CancelAckHonoured
  SuccessIsBooked
  EndedIsWhole
PROPERTY ImplementsLedger
CHECK_DEADLOCK FALSE
