\* Two requests of one user, interleaved, the cancellation of each, a restart.
SPECIFICATION Spec
CONSTANTS
  r1 = r1
  r2 = r2
  Reports <- MCTwoReports
  MaxSections = 2
  MaxConcurrent = 1
  MaxRestarts = 1
SYMMETRY MCSymmetry
INVARIANTS
  TypeOK
  LimitUnlessStartsOverlap
  CancelIsSeen
  StatusFitsSections
PROPERTY ReportAdvances
CHECK_DEADLOCK FALSE
