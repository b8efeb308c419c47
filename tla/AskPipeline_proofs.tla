------------------------- MODULE AskPipeline_proofs -------------------------
(* Theorems about AskPipeline, for all limits and all settings. *)
EXTENDS AskPipeline, TLAPS

----------------------------------------------------------------------------
(* Type correctness *)

LEMMA TypeInit == Init => TypeOK
BY LimitsAreNat DEF Init, TypeOK, Nodes, Codes, None, Statuses

LEMMA TypeStep == TypeOK /\ [Next]_vars => TypeOK'
<1> SUFFICES ASSUME TypeOK, [Next]_vars PROVE TypeOK'
  OBVIOUS
<1> USE LimitsAreNat DEF TypeOK, Nodes, Ended, Codes, None, Statuses,
        DialogueStatuses, sqlVars, verifyVars, planVars, Superstep
<1>1. CASE Straight
  BY <1>1 DEF Straight, StraightEdges
<1>2. CASE RouteDialogue
  BY <1>2 DEF RouteDialogue
<1>3. CASE MergeRecall
  BY <1>3 DEF MergeRecall
<1>4. CASE PlanQuestion
  BY <1>4 DEF PlanQuestion
<1>5. CASE ReplyChat
  BY <1>5 DEF ReplyChat
<1>6. CASE AskClarification
  BY <1>6 DEF AskClarification
<1>7. CASE AgentStops
  BY <1>7 DEF AgentStops
<1>8. CASE AgentAsksUser
  BY <1>8 DEF AgentAsksUser
<1>9. CASE AgentCallsTool
  BY <1>9 DEF AgentCallsTool
<1>10. CASE BuildAgentContext
  BY <1>10 DEF BuildAgentContext
<1>11. CASE GenerateSql("generate_sql") \/ GenerateSql("generate_sql_step")
  BY <1>11 DEF GenerateSql
<1>12. CASE ValidateSql
  BY <1>12 DEF ValidateSql, AfterValidate
<1>13. CASE SkipValidate
  BY <1>13 DEF SkipValidate, AfterValidate
<1>14. CASE ApplyPolicy
  BY <1>14 DEF ApplyPolicy
<1>15. CASE ExecuteSql
  BY <1>15 DEF ExecuteSql, AfterExecute
<1>16. CASE SkipExecute
  BY <1>16 DEF SkipExecute, AfterExecute
<1>17. CASE CorrectSql
  BY <1>17 DEF CorrectSql
<1>18. CASE ExecutePlanSqlStep
  BY <1>18 DEF ExecutePlanSqlStep
<1>19. CASE AssembleResult
  BY <1>19 DEF AssembleResult
<1>20. CASE VerifyAnswer
  <2>1. PICK ok \in BOOLEAN : /\ passed' = ok
                              /\ err' = IF ok THEN None ELSE "verify"
                              /\ RouteAfterVerify(ok, attempts')
    BY <1>20 DEF VerifyAnswer
  <2>2. passed' \in BOOLEAN
    BY <2>1, Zenon
  <2>3. err' \in Codes
    BY <2>1
  <2>4. /\ pc' \in Nodes \cup Ended
        /\ steps' \in Nat /\ req' = req /\ fromVerify' \in Nat
    BY <2>1 DEF RouteAfterVerify, AfterVerify
  <2> QED
    BY <1>20, <2>2, <2>3, <2>4 DEF VerifyAnswer
<1>27. CASE VerifyDisabled
  BY <1>27 DEF VerifyDisabled, RouteAfterVerify, AfterVerify
<1>21. CASE SkipVerify
  BY <1>21 DEF SkipVerify, RouteAfterVerify, AfterVerify
<1>22. CASE BuildChart
  BY <1>22 DEF BuildChart
<1>23. CASE FormatAnswer
  BY <1>23 DEF FormatAnswer
<1>24. CASE Raise
  BY <1>24 DEF Raise
<1>25. CASE Recursion
  BY <1>25 DEF Recursion
<1>26. CASE UNCHANGED vars
  BY <1>26 DEF vars
<1> QED
  BY <1>1, <1>2, <1>3, <1>4, <1>5, <1>6, <1>7, <1>8, <1>9, <1>10, <1>11,
     <1>12, <1>13, <1>14, <1>15, <1>16, <1>17, <1>18, <1>19, <1>20, <1>21,
     <1>22, <1>23, <1>24, <1>25, <1>26, <1>27 DEF Next

THEOREM TypeCorrect == Spec => []TypeOK
BY TypeInit, TypeStep, PTL DEF Spec

----------------------------------------------------------------------------
(* How many supersteps lie behind each node *)

LoopMax == AtLeast(1, MaxAgentSteps)
StepsMax == AtLeast(3, MaxPlanSteps)

\* Behind validate_sql: 15 nodes up to the plan, the agent loop and its
\* context, the SQLs of the plan steps, and five nodes for each correction.
SqlBase == 14 + LoopMax + StepsMax + 5 * corrects

\* Up to the plan every node runs at most once.
PrefixBound ==
    /\ pc = "normalize_question"     => steps <= 0
    /\ pc = "load_session_memory"    => steps <= 1
    /\ pc = "load_user_preference"   => steps <= 2
    /\ pc = "route_dialogue"         => steps <= 3
    /\ pc = "process_memory_context" => steps <= 4
    /\ pc = "extract_keywords"       => steps <= 5
    /\ pc = "do_recall_tables"       => steps <= 6
    /\ pc = "do_recall_columns"      => steps <= 7
    /\ pc = "do_recall_metrics"      => steps <= 8
    /\ pc = "do_recall_field_values" => steps <= 9
    /\ pc = "merge_retrieved_info"   => steps <= 10
    /\ pc = "do_recall_sql_examples" => steps <= 11
    /\ pc = "build_llm_context"      => steps <= 12
    /\ pc = "select_l1_examples"     => steps <= 13
    /\ pc = "plan_question"          => steps <= 14

\* The agent loop and the plan steps, each with its own counter.
AgentBound ==
    /\ pc = "agent_loop" => /\ steps <= 15 + agentSteps
                            /\ agentSteps + 1 <= LoopMax
    /\ pc \in {"agent_loop", "build_agent_context"} => idx = 0
    /\ pc = "build_agent_context" => steps <= 15 + LoopMax
    /\ pc \in {"reply_chat", "ask_clarification", "generate_sql",
               "generate_sql_step"} => steps <= 16 + LoopMax
    /\ pc = "execute_plan_sql_step" => /\ steps <= 16 + LoopMax + idx
                                       /\ idx + 1 <= planSteps
    /\ pc = "assemble_result" => steps <= 16 + LoopMax + StepsMax

\* From validate_sql on the corrections are counted.
SqlBound ==
    /\ pc = "validate_sql"  => steps <= SqlBase
    /\ pc = "apply_policy"  => steps <= SqlBase + 1
    /\ pc = "execute_sql"   => steps <= SqlBase + 2
    /\ pc = "verify_answer" => steps <= SqlBase + 3
    /\ pc \in {"correct_sql", "build_chart"} => steps <= SqlBase + 4
    /\ pc = "format_answer" => steps <= SqlBase + 5

\* A correction begins only while the budget lasts.
CorrectBound ==
    /\ corrects <= MaxCorrect
    /\ pc = "correct_sql" => corrects < MaxCorrect

LimitBound == NoRecursionError

StepInv == PrefixBound /\ AgentBound /\ SqlBound /\ CorrectBound /\ LimitBound

\* The two maxima, as far as the bounds need them.
LEMMA Maxima ==
    /\ LoopMax \in Nat /\ LoopMax >= 1 /\ LoopMax >= MaxAgentSteps
    /\ StepsMax \in Nat /\ StepsMax >= 3 /\ StepsMax >= MaxPlanSteps
    /\ WorstCase = 20 + LoopMax + StepsMax + 5 * MaxCorrect
BY LimitsAreNat DEF LoopMax, StepsMax, AtLeast, WorstCase

LEMMA StepInit == Init => StepInv
BY LimitsAreNat, Maxima
   DEF Init, StepInv, PrefixBound, AgentBound, SqlBound, CorrectBound,
       LimitBound, NoRecursionError

LEMMA PrefixBoundStep == TypeOK /\ StepInv /\ [Next]_vars => PrefixBound'
<1> SUFFICES ASSUME TypeOK, StepInv, [Next]_vars PROVE PrefixBound'
  OBVIOUS
<1> USE DEF PrefixBound, TypeOK, StepInv, Superstep, None, sqlVars,
        verifyVars, planVars
<1>1. CASE Straight
  BY <1>1 DEF Straight, StraightEdges
<1>2. CASE RouteDialogue
  BY <1>2 DEF RouteDialogue
<1>3. CASE MergeRecall
  BY <1>3 DEF MergeRecall
<1>4. CASE PlanQuestion
  BY <1>4 DEF PlanQuestion
<1>5. CASE ReplyChat
  BY <1>5 DEF ReplyChat
<1>6. CASE AskClarification
  BY <1>6 DEF AskClarification
<1>7. CASE AgentStops
  BY <1>7 DEF AgentStops
<1>8. CASE AgentAsksUser
  BY <1>8 DEF AgentAsksUser
<1>9. CASE AgentCallsTool
  BY <1>9 DEF AgentCallsTool
<1>10. CASE BuildAgentContext
  BY <1>10 DEF BuildAgentContext
<1>11. CASE GenerateSql("generate_sql") \/ GenerateSql("generate_sql_step")
  BY <1>11 DEF GenerateSql
<1>12. CASE ValidateSql
  BY <1>12 DEF ValidateSql, AfterValidate, MayCorrect
<1>13. CASE SkipValidate
  BY <1>13 DEF SkipValidate, AfterValidate, MayCorrect
<1>14. CASE ApplyPolicy
  BY <1>14 DEF ApplyPolicy
<1>15. CASE ExecuteSql
  BY <1>15 DEF ExecuteSql, AfterExecute, MayCorrect
<1>16. CASE SkipExecute
  BY <1>16 DEF SkipExecute, AfterExecute, MayCorrect
<1>17. CASE CorrectSql
  BY <1>17 DEF CorrectSql
<1>18. CASE ExecutePlanSqlStep
  BY <1>18 DEF ExecutePlanSqlStep
<1>19. CASE AssembleResult
  BY <1>19 DEF AssembleResult
<1>20. CASE VerifyAnswer
  BY <1>20 DEF VerifyAnswer, RouteAfterVerify, AfterVerify
<1>21. CASE VerifyDisabled
  BY <1>21 DEF VerifyDisabled, RouteAfterVerify, AfterVerify
<1>22. CASE SkipVerify
  BY <1>22 DEF SkipVerify, RouteAfterVerify, AfterVerify
<1>23. CASE BuildChart
  BY <1>23 DEF BuildChart
<1>24. CASE FormatAnswer
  BY <1>24 DEF FormatAnswer
<1>25. CASE Raise
  BY <1>25 DEF Raise
<1>26. CASE Recursion
  BY <1>26 DEF Recursion
<1>27. CASE UNCHANGED vars
  BY <1>27 DEF vars
<1> QED
  BY <1>1, <1>2, <1>3, <1>4, <1>5, <1>6, <1>7, <1>8, <1>9, <1>10,
     <1>11, <1>12, <1>13, <1>14, <1>15, <1>16, <1>17, <1>18,
     <1>19, <1>20, <1>21, <1>22, <1>23, <1>24, <1>25, <1>26,
     <1>27 DEF Next

LEMMA AgentBoundStep == TypeOK /\ StepInv /\ [Next]_vars => AgentBound'
<1> SUFFICES ASSUME TypeOK, StepInv, [Next]_vars PROVE AgentBound'
  OBVIOUS
<1> USE Maxima, LimitsAreNat DEF PrefixBound, AgentBound, TypeOK, StepInv, Superstep, None, sqlVars,
        verifyVars, planVars
<1>1. CASE Straight
  BY <1>1 DEF Straight, StraightEdges
<1>2. CASE RouteDialogue
  BY <1>2 DEF RouteDialogue
<1>3. CASE MergeRecall
  BY <1>3 DEF MergeRecall
<1>4. CASE PlanQuestion
  BY <1>4 DEF PlanQuestion
<1>5. CASE ReplyChat
  BY <1>5 DEF ReplyChat
<1>6. CASE AskClarification
  BY <1>6 DEF AskClarification
<1>7. CASE AgentStops
  BY <1>7 DEF AgentStops
<1>8. CASE AgentAsksUser
  BY <1>8 DEF AgentAsksUser
<1>9. CASE AgentCallsTool
  BY <1>9 DEF AgentCallsTool
<1>10. CASE BuildAgentContext
  BY <1>10 DEF BuildAgentContext
<1>11. CASE GenerateSql("generate_sql") \/ GenerateSql("generate_sql_step")
  BY <1>11 DEF GenerateSql
<1>12. CASE ValidateSql
  BY <1>12 DEF ValidateSql, AfterValidate, MayCorrect
<1>13. CASE SkipValidate
  BY <1>13 DEF SkipValidate, AfterValidate, MayCorrect
<1>14. CASE ApplyPolicy
  BY <1>14 DEF ApplyPolicy
<1>15. CASE ExecuteSql
  BY <1>15 DEF ExecuteSql, AfterExecute, MayCorrect
<1>16. CASE SkipExecute
  BY <1>16 DEF SkipExecute, AfterExecute, MayCorrect
<1>17. CASE CorrectSql
  BY <1>17 DEF CorrectSql
<1>18. CASE ExecutePlanSqlStep
  BY <1>18 DEF ExecutePlanSqlStep
<1>19. CASE AssembleResult
  BY <1>19 DEF AssembleResult
<1>20. CASE VerifyAnswer
  BY <1>20 DEF VerifyAnswer, RouteAfterVerify, AfterVerify
<1>21. CASE VerifyDisabled
  BY <1>21 DEF VerifyDisabled, RouteAfterVerify, AfterVerify
<1>22. CASE SkipVerify
  BY <1>22 DEF SkipVerify, RouteAfterVerify, AfterVerify
<1>23. CASE BuildChart
  BY <1>23 DEF BuildChart
<1>24. CASE FormatAnswer
  BY <1>24 DEF FormatAnswer
<1>25. CASE Raise
  BY <1>25 DEF Raise
<1>26. CASE Recursion
  BY <1>26 DEF Recursion
<1>27. CASE UNCHANGED vars
  BY <1>27 DEF vars
<1> QED
  BY <1>1, <1>2, <1>3, <1>4, <1>5, <1>6, <1>7, <1>8, <1>9, <1>10,
     <1>11, <1>12, <1>13, <1>14, <1>15, <1>16, <1>17, <1>18,
     <1>19, <1>20, <1>21, <1>22, <1>23, <1>24, <1>25, <1>26,
     <1>27 DEF Next

LEMMA SqlBoundStep == TypeOK /\ StepInv /\ [Next]_vars => SqlBound'
<1> SUFFICES ASSUME TypeOK, StepInv, [Next]_vars PROVE SqlBound'
  OBVIOUS
<1> USE Maxima, LimitsAreNat DEF PrefixBound, AgentBound, SqlBound, TypeOK, StepInv, Superstep, None, sqlVars,
        verifyVars, planVars, SqlBase
<1>1. CASE Straight
  BY <1>1 DEF Straight, StraightEdges
<1>2. CASE RouteDialogue
  BY <1>2 DEF RouteDialogue
<1>3. CASE MergeRecall
  BY <1>3 DEF MergeRecall
<1>4. CASE PlanQuestion
  BY <1>4 DEF PlanQuestion
<1>5. CASE ReplyChat
  BY <1>5 DEF ReplyChat
<1>6. CASE AskClarification
  BY <1>6 DEF AskClarification
<1>7. CASE AgentStops
  BY <1>7 DEF AgentStops
<1>8. CASE AgentAsksUser
  BY <1>8 DEF AgentAsksUser
<1>9. CASE AgentCallsTool
  BY <1>9 DEF AgentCallsTool
<1>10. CASE BuildAgentContext
  BY <1>10 DEF BuildAgentContext
<1>11. CASE GenerateSql("generate_sql") \/ GenerateSql("generate_sql_step")
  BY <1>11 DEF GenerateSql
<1>12. CASE ValidateSql
  BY <1>12 DEF ValidateSql, AfterValidate, MayCorrect
<1>13. CASE SkipValidate
  BY <1>13 DEF SkipValidate, AfterValidate, MayCorrect
<1>14. CASE ApplyPolicy
  BY <1>14 DEF ApplyPolicy
<1>15. CASE ExecuteSql
  BY <1>15 DEF ExecuteSql, AfterExecute, MayCorrect
<1>16. CASE SkipExecute
  BY <1>16 DEF SkipExecute, AfterExecute, MayCorrect
<1>17. CASE CorrectSql
  BY <1>17 DEF CorrectSql
<1>18. CASE ExecutePlanSqlStep
  BY <1>18 DEF ExecutePlanSqlStep
<1>19. CASE AssembleResult
  BY <1>19 DEF AssembleResult
<1>20. CASE VerifyAnswer
  BY <1>20 DEF VerifyAnswer, RouteAfterVerify, AfterVerify
<1>21. CASE VerifyDisabled
  BY <1>21 DEF VerifyDisabled, RouteAfterVerify, AfterVerify
<1>22. CASE SkipVerify
  BY <1>22 DEF SkipVerify, RouteAfterVerify, AfterVerify
<1>23. CASE BuildChart
  BY <1>23 DEF BuildChart
<1>24. CASE FormatAnswer
  BY <1>24 DEF FormatAnswer
<1>25. CASE Raise
  BY <1>25 DEF Raise
<1>26. CASE Recursion
  BY <1>26 DEF Recursion
<1>27. CASE UNCHANGED vars
  BY <1>27 DEF vars
<1> QED
  BY <1>1, <1>2, <1>3, <1>4, <1>5, <1>6, <1>7, <1>8, <1>9, <1>10,
     <1>11, <1>12, <1>13, <1>14, <1>15, <1>16, <1>17, <1>18,
     <1>19, <1>20, <1>21, <1>22, <1>23, <1>24, <1>25, <1>26,
     <1>27 DEF Next

LEMMA CorrectBoundStep == TypeOK /\ StepInv /\ [Next]_vars => CorrectBound'
<1> SUFFICES ASSUME TypeOK, StepInv, [Next]_vars PROVE CorrectBound'
  OBVIOUS
<1> USE LimitsAreNat DEF CorrectBound, TypeOK, StepInv, Superstep, None, sqlVars,
        verifyVars, planVars
<1>1. CASE Straight
  BY <1>1 DEF Straight, StraightEdges
<1>2. CASE RouteDialogue
  BY <1>2 DEF RouteDialogue
<1>3. CASE MergeRecall
  BY <1>3 DEF MergeRecall
<1>4. CASE PlanQuestion
  BY <1>4 DEF PlanQuestion
<1>5. CASE ReplyChat
  BY <1>5 DEF ReplyChat
<1>6. CASE AskClarification
  BY <1>6 DEF AskClarification
<1>7. CASE AgentStops
  BY <1>7 DEF AgentStops
<1>8. CASE AgentAsksUser
  BY <1>8 DEF AgentAsksUser
<1>9. CASE AgentCallsTool
  BY <1>9 DEF AgentCallsTool
<1>10. CASE BuildAgentContext
  BY <1>10 DEF BuildAgentContext
<1>11. CASE GenerateSql("generate_sql") \/ GenerateSql("generate_sql_step")
  BY <1>11 DEF GenerateSql
<1>12. CASE ValidateSql
  BY <1>12 DEF ValidateSql, AfterValidate, MayCorrect
<1>13. CASE SkipValidate
  BY <1>13 DEF SkipValidate, AfterValidate, MayCorrect
<1>14. CASE ApplyPolicy
  BY <1>14 DEF ApplyPolicy
<1>15. CASE ExecuteSql
  BY <1>15 DEF ExecuteSql, AfterExecute, MayCorrect
<1>16. CASE SkipExecute
  BY <1>16 DEF SkipExecute, AfterExecute, MayCorrect
<1>17. CASE CorrectSql
  BY <1>17 DEF CorrectSql
<1>18. CASE ExecutePlanSqlStep
  BY <1>18 DEF ExecutePlanSqlStep
<1>19. CASE AssembleResult
  BY <1>19 DEF AssembleResult
<1>20. CASE VerifyAnswer
  BY <1>20 DEF VerifyAnswer, RouteAfterVerify, AfterVerify
<1>21. CASE VerifyDisabled
  BY <1>21 DEF VerifyDisabled, RouteAfterVerify, AfterVerify
<1>22. CASE SkipVerify
  BY <1>22 DEF SkipVerify, RouteAfterVerify, AfterVerify
<1>23. CASE BuildChart
  BY <1>23 DEF BuildChart
<1>24. CASE FormatAnswer
  BY <1>24 DEF FormatAnswer
<1>25. CASE Raise
  BY <1>25 DEF Raise
<1>26. CASE Recursion
  BY <1>26 DEF Recursion
<1>27. CASE UNCHANGED vars
  BY <1>27 DEF vars
<1> QED
  BY <1>1, <1>2, <1>3, <1>4, <1>5, <1>6, <1>7, <1>8, <1>9, <1>10,
     <1>11, <1>12, <1>13, <1>14, <1>15, <1>16, <1>17, <1>18,
     <1>19, <1>20, <1>21, <1>22, <1>23, <1>24, <1>25, <1>26,
     <1>27 DEF Next

\* Whatever node is next, the worst case has not been used up.
LEMMA NodeWithinWorstCase ==
    ASSUME TypeOK, StepInv, pc \in Nodes PROVE steps < WorstCase
BY Maxima, LimitsAreNat
   DEF TypeOK, StepInv, PrefixBound, AgentBound, SqlBound, CorrectBound,
       SqlBase, Nodes

LEMMA LimitBoundStep == TypeOK /\ StepInv /\ [Next]_vars => LimitBound'
<1> SUFFICES ASSUME TypeOK, StepInv, [Next]_vars PROVE LimitBound'
  OBVIOUS
<1> USE DEF LimitBound, NoRecursionError, StepInv
<1>1. CASE Recursion
  <2>1. WorstCase \in Nat /\ steps \in Nat
    BY Maxima, LimitsAreNat DEF TypeOK
  <2>2. req \in Requests
    BY DEF TypeOK
  <2>3. req.limit \in Nat
    BY <2>2, LimitsAreNat DEF Requests
  <2>4. steps < WorstCase /\ steps >= req.limit /\ req' = req
    BY <1>1, NodeWithinWorstCase DEF Recursion
  <2> QED
    BY <2>1, <2>3, <2>4
<1>2. CASE UNCHANGED vars
  BY <1>2 DEF vars, WorstCase
<1>3. CASE Next /\ ~Recursion
  <2>1. pc' # "recursion_error"
    BY <1>3 DEF Next, Superstep, Straight, StraightEdges, RouteDialogue,
        MergeRecall, PlanQuestion, ReplyChat, AskClarification, AgentStops,
        AgentAsksUser, AgentCallsTool, BuildAgentContext, GenerateSql,
        ValidateSql, SkipValidate, AfterValidate, ApplyPolicy, ExecuteSql,
        SkipExecute, AfterExecute, CorrectSql, ExecutePlanSqlStep,
        AssembleResult, VerifyAnswer, VerifyDisabled, SkipVerify,
        RouteAfterVerify, AfterVerify, BuildChart, FormatAnswer, Raise
  <2> QED
    BY <2>1
<1> QED
  BY <1>1, <1>2, <1>3

LEMMA StepStep == TypeOK /\ StepInv /\ [Next]_vars => StepInv'
BY PrefixBoundStep, AgentBoundStep, SqlBoundStep, CorrectBoundStep,
   LimitBoundStep DEF StepInv

\* The bounds hold at every step of every run.
THEOREM StepsBounded == Spec => []StepInv
<1>1. Init => TypeOK /\ StepInv
  BY TypeInit, StepInit
<1>2. TypeOK /\ StepInv /\ [Next]_vars => (TypeOK /\ StepInv)'
  BY TypeStep, StepStep
<1> QED
  BY <1>1, <1>2, PTL DEF Spec

\* correct_sql runs at most agent_max_correct times, whichever routes lead
\* to it.
THEOREM CorrectionsBounded == Spec => []CorrectionBudget
<1>1. StepInv => CorrectionBudget
  BY DEF StepInv, CorrectBound, CorrectionBudget
<1> QED
  BY <1>1, StepsBounded, PTL

\* With a recursion limit of at least the worst case LangGraph never aborts
\* an ask; the defaults (6, 6, 3) need 47 of 64 supersteps.
THEOREM RecursionLimitSuffices == Spec => []NoRecursionError
<1>1. StepInv => NoRecursionError
  BY DEF StepInv, LimitBound
<1> QED
  BY <1>1, StepsBounded, PTL

----------------------------------------------------------------------------
(* Error codes along the graph *)

\* The nodes reached only without an error.
CleanNodes == Nodes \ {"validate_sql", "execute_sql", "correct_sql",
                       "verify_answer", "build_chart", "format_answer"}

ErrorFlow ==
    /\ pc \in CleanNodes => err = None
    /\ err = "verify" =>
           pc \in {"correct_sql", "format_answer", "raised", "recursion_error"}
    /\ err = "rejected" /\ passed => pc # "correct_sql"
    /\ pc \in Nodes \ {"format_answer"} => status = "running"
    /\ pc = "format_answer" => status # "success"
    /\ pc = "format_answer" /\ err # None => status = "running"
    /\ status = "success" => pc = "end" /\ err = None

LEMMA ErrorInit == Init => ErrorFlow
BY DEF Init, ErrorFlow, None, CleanNodes, Nodes

LEMMA ErrorStep == TypeOK /\ ErrorFlow /\ [Next]_vars => ErrorFlow'
<1> SUFFICES ASSUME TypeOK, ErrorFlow, [Next]_vars PROVE ErrorFlow'
  OBVIOUS
<1> USE DEF ErrorFlow, CleanNodes, Nodes, Codes, CorrectableCodes,
        DialogueStatuses, TypeOK, Superstep, None, sqlVars, verifyVars, planVars
<1>1. CASE Straight
  BY <1>1 DEF Straight, StraightEdges
<1>2. CASE RouteDialogue
  BY <1>2 DEF RouteDialogue
<1>3. CASE MergeRecall
  BY <1>3 DEF MergeRecall
<1>4. CASE PlanQuestion
  BY <1>4 DEF PlanQuestion
<1>5. CASE ReplyChat
  BY <1>5 DEF ReplyChat
<1>6. CASE AskClarification
  BY <1>6 DEF AskClarification
<1>7. CASE AgentStops
  BY <1>7 DEF AgentStops
<1>8. CASE AgentAsksUser
  BY <1>8 DEF AgentAsksUser
<1>9. CASE AgentCallsTool
  BY <1>9 DEF AgentCallsTool
<1>10. CASE BuildAgentContext
  BY <1>10 DEF BuildAgentContext
<1>11. CASE GenerateSql("generate_sql") \/ GenerateSql("generate_sql_step")
  BY <1>11 DEF GenerateSql
<1>12. CASE ValidateSql
  BY <1>12 DEF ValidateSql, AfterValidate, MayCorrect
<1>13. CASE SkipValidate
  BY <1>13 DEF SkipValidate, AfterValidate, MayCorrect
<1>14. CASE ApplyPolicy
  BY <1>14 DEF ApplyPolicy
<1>15. CASE ExecuteSql
  BY <1>15 DEF ExecuteSql, AfterExecute, MayCorrect
<1>16. CASE SkipExecute
  BY <1>16 DEF SkipExecute, AfterExecute, MayCorrect
<1>17. CASE CorrectSql
  BY <1>17 DEF CorrectSql
<1>18. CASE ExecutePlanSqlStep
  BY <1>18 DEF ExecutePlanSqlStep
<1>19. CASE AssembleResult
  BY <1>19 DEF AssembleResult
<1>20. CASE VerifyAnswer
  BY <1>20 DEF VerifyAnswer, RouteAfterVerify, AfterVerify
<1>21. CASE VerifyDisabled
  BY <1>21 DEF VerifyDisabled, RouteAfterVerify, AfterVerify
<1>22. CASE SkipVerify
  BY <1>22 DEF SkipVerify, RouteAfterVerify, AfterVerify
<1>23. CASE BuildChart
  BY <1>23 DEF BuildChart
<1>24. CASE FormatAnswer
  BY <1>24 DEF FormatAnswer
<1>25. CASE Raise
  BY <1>25 DEF Raise
<1>26. CASE Recursion
  BY <1>26 DEF Recursion
<1>27. CASE UNCHANGED vars
  BY <1>27 DEF vars
<1> QED
  BY <1>1, <1>2, <1>3, <1>4, <1>5, <1>6, <1>7, <1>8, <1>9, <1>10,
     <1>11, <1>12, <1>13, <1>14, <1>15, <1>16, <1>17, <1>18,
     <1>19, <1>20, <1>21, <1>22, <1>23, <1>24, <1>25, <1>26,
     <1>27 DEF Next

\* A code outside _CORRECTABLE_CODES is not cleared again, as long as no
\* verification failed: no node after it runs that resets the error.
THEOREM RejectionsAreFinal == Spec => RejectionIsFinal
<1>1. Init => TypeOK /\ ErrorFlow
  BY TypeInit, ErrorInit
<1>2. TypeOK /\ ErrorFlow /\ [Next]_vars => (TypeOK /\ ErrorFlow)'
  BY TypeStep, ErrorStep
<1>3. TypeOK /\ ErrorFlow /\ [Next]_vars
        => [err = "rejected" /\ passed
               => err' = "rejected" /\ status' # "success"]_vars
  <2> SUFFICES ASSUME TypeOK, ErrorFlow, [Next]_vars,
                      err = "rejected", passed
               PROVE  err' = "rejected" /\ status' # "success"
    OBVIOUS
  <2>1. ErrorFlow'
    BY ErrorStep
  <2>2. err' = "rejected"
    <3> USE DEF ErrorFlow, CleanNodes, Nodes, Codes, CorrectableCodes,
            DialogueStatuses, TypeOK, Superstep, None, sqlVars, verifyVars,
            planVars
    <3>1. CASE UNCHANGED vars
      BY <3>1 DEF vars
    <3>2. CASE Next
      BY <3>2 DEF Next, Straight, StraightEdges, RouteDialogue, MergeRecall,
          PlanQuestion, ReplyChat, AskClarification, AgentStops,
          AgentAsksUser, AgentCallsTool, BuildAgentContext, GenerateSql,
          ValidateSql, SkipValidate, ApplyPolicy, ExecuteSql, SkipExecute,
          CorrectSql, ExecutePlanSqlStep, AssembleResult, VerifyAnswer,
          VerifyDisabled, SkipVerify, BuildChart, FormatAnswer, Raise,
          Recursion
    <3> QED
      BY <3>1, <3>2
  <2> QED
    BY <2>1, <2>2 DEF ErrorFlow, None
<1> QED
  BY <1>1, <1>2, <1>3, PTL DEF Spec, RejectionIsFinal

----------------------------------------------------------------------------
(* SQL, rows and verdict along the graph *)

Reported == final # 0 /\ rowsOf = final /\ final \in {applied, assembled}
Judged == req.verify => verified = final

AnswerFlow ==
    /\ pc = "validate_sql" /\ err = None => raw # 0
    /\ pc = "apply_policy" => final # 0
    /\ pc = "execute_sql" /\ err = None => final # 0 /\ applied = final
    /\ pc = "verify_answer" /\ err = None => Reported
    /\ pc \in {"build_chart", "format_answer"} /\ err \in {None, "verify"}
           /\ status \notin DialogueStatuses => Reported /\ Judged
    /\ status = "success" => Reported /\ Judged

LEMMA AnswerInit == Init => AnswerFlow
BY DEF Init, AnswerFlow, None

LEMMA AnswerStep == TypeOK /\ ErrorFlow /\ AnswerFlow /\ [Next]_vars => AnswerFlow'
<1> SUFFICES ASSUME TypeOK, ErrorFlow, AnswerFlow, [Next]_vars PROVE AnswerFlow'
  OBVIOUS
<1> USE DEF AnswerFlow, Reported, Judged, ErrorFlow, CleanNodes, Nodes,
        Codes, DialogueStatuses, TypeOK, Superstep, None, sqlVars,
        verifyVars, planVars, Requests
<1>1. CASE Straight
  BY <1>1 DEF Straight, StraightEdges
<1>2. CASE RouteDialogue
  BY <1>2 DEF RouteDialogue
<1>3. CASE MergeRecall
  BY <1>3 DEF MergeRecall
<1>4. CASE PlanQuestion
  BY <1>4 DEF PlanQuestion
<1>5. CASE ReplyChat
  BY <1>5 DEF ReplyChat
<1>6. CASE AskClarification
  BY <1>6 DEF AskClarification
<1>7. CASE AgentStops
  BY <1>7 DEF AgentStops
<1>8. CASE AgentAsksUser
  BY <1>8 DEF AgentAsksUser
<1>9. CASE AgentCallsTool
  BY <1>9 DEF AgentCallsTool
<1>10. CASE BuildAgentContext
  BY <1>10 DEF BuildAgentContext
<1>11. CASE GenerateSql("generate_sql") \/ GenerateSql("generate_sql_step")
  BY <1>11 DEF GenerateSql
<1>12. CASE ValidateSql
  BY <1>12 DEF ValidateSql, AfterValidate, MayCorrect
<1>13. CASE SkipValidate
  BY <1>13 DEF SkipValidate, AfterValidate, MayCorrect
<1>14. CASE ApplyPolicy
  BY <1>14 DEF ApplyPolicy
<1>15. CASE ExecuteSql
  BY <1>15 DEF ExecuteSql, AfterExecute, MayCorrect
<1>16. CASE SkipExecute
  BY <1>16 DEF SkipExecute, AfterExecute, MayCorrect
<1>17. CASE CorrectSql
  BY <1>17 DEF CorrectSql
<1>18. CASE ExecutePlanSqlStep
  BY <1>18 DEF ExecutePlanSqlStep
<1>19. CASE AssembleResult
  BY <1>19 DEF AssembleResult
<1>20. CASE VerifyAnswer
  BY <1>20 DEF VerifyAnswer, RouteAfterVerify, AfterVerify
<1>21. CASE VerifyDisabled
  BY <1>21 DEF VerifyDisabled, RouteAfterVerify, AfterVerify
<1>22. CASE SkipVerify
  BY <1>22 DEF SkipVerify, RouteAfterVerify, AfterVerify
<1>23. CASE BuildChart
  BY <1>23 DEF BuildChart
<1>24. CASE FormatAnswer
  BY <1>24 DEF FormatAnswer
<1>25. CASE Raise
  BY <1>25 DEF Raise
<1>26. CASE Recursion
  BY <1>26 DEF Recursion
<1>27. CASE UNCHANGED vars
  BY <1>27 DEF vars
<1> QED
  BY <1>1, <1>2, <1>3, <1>4, <1>5, <1>6, <1>7, <1>8, <1>9, <1>10,
     <1>11, <1>12, <1>13, <1>14, <1>15, <1>16, <1>17, <1>18,
     <1>19, <1>20, <1>21, <1>22, <1>23, <1>24, <1>25, <1>26,
     <1>27 DEF Next

\* A successful answer reports the SQL its rows come from, that SQL passed
\* apply_policy or was assembled, and the stored verdict is about it.
THEOREM AnswersAreConsistent == Spec => []AnswerIsOfReportedSql
<1>1. Init => TypeOK /\ ErrorFlow /\ AnswerFlow
  BY TypeInit, ErrorInit, AnswerInit
<1>2. TypeOK /\ ErrorFlow /\ AnswerFlow /\ [Next]_vars
        => (TypeOK /\ ErrorFlow /\ AnswerFlow)'
  BY TypeStep, ErrorStep, AnswerStep
<1>3. AnswerFlow => AnswerIsOfReportedSql
  BY DEF AnswerFlow, AnswerIsOfReportedSql, Reported, Judged
<1> QED
  BY <1>1, <1>2, <1>3, PTL DEF Spec
=============================================================================
