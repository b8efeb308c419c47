SPECIFICATION Spec
CONSTANTS
    MaxCorrect = 2
    VerifyMaxCorrect = 1
    MaxAgentSteps = 2
    MaxPlanSteps = 4
    RecursionLimits = {25, 36}
INVARIANTS
    TypeOK
    CorrectionBudget
    NoRecursionError
    AnswerIsOfReportedSql
PROPERTIES
    RejectionIsFinal
    Answered
CHECK_DEADLOCK FALSE
