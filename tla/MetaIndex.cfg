\* Two questions, one administrator with two-step requests, one rebuild.
SPECIFICATION Spec
CONSTANTS
  q1 = q1
  q2 = q2
  Items <- MCItems
  Kind <- MCKind
  Parent <- MCParent
  Seeded <- MCSeeded
  Admins = {1}
  Rebuilds = {1}
  Asks <- MCAsks
  MaxEdits = 2
  MaxRebuilds = 1
SYMMETRY MCSymmetry
INVARIANTS
  QueriesAllowedTables
  SelectedIsPublished
  FreshIndexIsRegistry
CHECK_DEADLOCK FALSE
