\* Three steps of a comparison, with days that not all of them have.
SPECIFICATION AskSpec
CONSTANTS
  Plans = {}
  Recalls <- MCRecalls
  Answers <- MCAnswers
  Question = "q1"
  MaxCandidates = 2
  Limits = {0, 2, 4}
  AskEnabled = TRUE
  Registered = {"a", "b"}
  ColumnsOf <- MCColumns
  Hidden <- MCHidden
  BindingRows <- MCBindings
  DefaultDeny = TRUE
  MaxRows = 3
  KeyRank <- MCKeyRank
  DateRank <- MCDateRank
  Numeric = {"1", "2"}
  Null = "none"
  MaxTables = 2
  MaxColumns = 2
  MaxExamples = 1
  MaxShown = 2
  MaxChars = 12
  HeaderChars = 3
  CodeBoost = 5
  MaxPlanSteps = 3
  HubRank <- MCHubRank
  Gates = {}
  Assemblies <- Comparisons
  Prompts = {}
  Shapes = {}
INVARIANT ComparisonComplete
CHECK_DEADLOCK FALSE
