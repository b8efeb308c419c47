\* Fifteen plans, three recalls, at most four steps of any answers; and the
\* inputs of the helpers.
SPECIFICATION AskSpec
CONSTANTS
  Plans <- MCPlans
  Recalls <- MCRecalls
  Answers <- MCAnswers
  Question = "q1"
  MaxCandidates = 2
  Limits = {0, 2, 4}
  AskEnabled = TRUE
  Registered = {"a", "b"}
  ColumnsOf <- MCColumns
  Hidden <- MCHidden
  BindingRows <- MCBindings
  DefaultDeny = TRUE
  MaxRows = 3
  KeyRank <- MCKeyRank
  DateRank <- MCDateRank
  Numeric = {"1", "2"}
  Null = "none"
  MaxTables = 2
  MaxColumns = 2
  MaxExamples = 1
  MaxShown = 2
  MaxChars = 12
  HeaderChars = 3
  CodeBoost = 5
  MaxPlanSteps = 3
  HubRank <- MCHubRank
  Gates <- MCGates
  Assemblies <- MCAssemblies
  Prompts <- MCPrompts
  Shapes <- MCShapes
INVARIANTS
  EachCallOnce
  PlanIsFollowed
  GateHolds
  AssemblyHolds
  PromptHolds
  ShapeHolds
CHECK_DEADLOCK FALSE
