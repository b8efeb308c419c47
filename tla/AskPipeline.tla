---------------------------- MODULE AskPipeline ----------------------------
(***************************************************************************)
(* The LangGraph pipeline of one ask (app/agent/graph.py): which node runs *)
(* after which, and the part of the graph state that the routing functions *)
(* read.  A node and the conditional edge behind it are one action, as     *)
(* LangGraph runs them in one superstep.                                   *)
(*                                                                         *)
(* SQL texts are numbered in the order the model produces them, 0 stands   *)
(* for None.  Error codes are grouped by how the routes treat them:        *)
(*   "correctable"  a code of _CORRECTABLE_CODES set by a guard or by the  *)
(*                  execution (PARSE_ERROR, MISSING_SCH_ID, ...)           *)
(*   "verify"       VERIFY_FAILED, also in _CORRECTABLE_CODES              *)
(*   "rejected"     any other code (SCOPE_VIOLATION, COLUMN_DENIED,        *)
(*                  LLM_NO_SQL, ...)                                       *)
(* The status field is kept from the point where somebody reads it: the    *)
(* "running" and "fail" that nodes write in between mirror err.            *)
(***************************************************************************)
EXTENDS Integers

CONSTANTS
    MaxCorrect,        \* settings.agent_max_correct
    VerifyMaxCorrect,  \* settings.verify_max_correct
    MaxAgentSteps,     \* settings.agent_max_steps
    MaxPlanSteps,      \* steps[:6] in plan_llm.py
    RecursionLimits    \* values of settings.graph_recursion_limit

ASSUME LimitsAreNat ==
    /\ MaxCorrect \in Nat /\ VerifyMaxCorrect \in Nat
    /\ MaxAgentSteps \in Nat /\ MaxPlanSteps \in Nat
    /\ RecursionLimits \subseteq Nat

VARIABLES
    req,        \* settings and user policy that steer the run, fixed
    pc,         \* the node to run next
    steps,      \* supersteps run so far
    err,        \* error_code
    status,     \* status
    corrects,   \* correct_sql_count
    attempts,   \* verify_attempts
    passed,     \* verify_passed, TRUE while absent
    agentSteps, \* agent_step_count
    planSteps,  \* number of plan steps with sql_step
    idx,        \* sql_exec_step_index
    raw,        \* raw_sql
    final,      \* final_sql
    applied,    \* the last SQL that apply_policy let through
    rowsOf,     \* the SQL whose columns/rows the state holds
    assembled,  \* the SQL assemble_result combined, with its step results
    verified,   \* the SQL whose rows verify_result judges
    fromVerify  \* history: how often verify_answer led to correct_sql

sqlVars    == <<raw, final, applied, rowsOf, assembled>>
verifyVars == <<attempts, passed, verified, fromVerify>>
planVars   == <<agentSteps, planSteps, idx>>
vars == <<req, pc, steps, err, status, corrects, attempts, passed, agentSteps,
          planSteps, idx, raw, final, applied, rowsOf, assembled, verified,
          fromVerify>>

None == "none"
Codes == {None, "correctable", "verify", "rejected"}
\* Mutant of CorrectableCodes: every error is worth a correction.
AllErrorCodes == Codes \ {None}
CorrectableCodes == {"correctable", "verify"}
DialogueStatuses == {"need_clarification", "chitchat", "out_of_scope"}
Statuses == {"running", "success", "fail"} \cup DialogueStatuses

Requests == [verify : BOOLEAN,   \* verify_answer_enabled
             multi  : BOOLEAN,   \* agent_multi_sql_enabled
             columns: BOOLEAN,   \* recall_columns_enabled
             scope  : BOOLEAN,   \* DataScope applies to the user
             sch    : BOOLEAN,   \* applies_sch_id_filter
             limit  : RecursionLimits] \* graph_recursion_limit

Nodes == {"normalize_question", "load_session_memory", "load_user_preference",
          "route_dialogue", "reply_chat", "ask_clarification",
          "process_memory_context", "extract_keywords", "do_recall_tables",
          "do_recall_columns", "do_recall_metrics", "do_recall_field_values",
          "merge_retrieved_info", "do_recall_sql_examples",
          "build_llm_context", "select_l1_examples", "plan_question",
          "agent_loop", "build_agent_context", "generate_sql",
          "generate_sql_step", "execute_plan_sql_step", "assemble_result",
          "validate_sql", "correct_sql", "apply_policy", "execute_sql",
          "verify_answer", "build_chart", "format_answer"}
Ended == {"end", "raised", "recursion_error"}

Init ==
    /\ req \in Requests
    /\ pc = "normalize_question"
    /\ steps = 0 /\ err = None /\ status = "running"
    /\ corrects = 0 /\ attempts = 0 /\ passed = TRUE
    /\ agentSteps = 0 /\ planSteps = 0 /\ idx = 0
    /\ raw = 0 /\ final = 0 /\ applied = 0 /\ rowsOf = 0
    /\ assembled = 0 /\ verified = 0 /\ fromVerify = 0

\* One superstep of `node` that hands over to `next`.
Superstep(node, next) ==
    /\ pc = node
    /\ steps < req.limit
    /\ pc' = next
    /\ steps' = steps + 1
    /\ UNCHANGED req

----------------------------------------------------------------------------
(* From the question to a plan *)

\* The plain edges up to the plan; what their nodes write no route reads.
\* do_recall_columns is in the graph only when recall_columns_enabled.
StraightEdges ==
    {<<"normalize_question", "load_session_memory">>,
     <<"load_session_memory", "load_user_preference">>,
     <<"load_user_preference", "route_dialogue">>,
     <<"process_memory_context", "extract_keywords">>,
     <<"extract_keywords", "do_recall_tables">>,
     <<"do_recall_metrics", "do_recall_field_values">>,
     <<"do_recall_field_values", "merge_retrieved_info">>,
     <<"do_recall_sql_examples", "build_llm_context">>,
     <<"build_llm_context", "select_l1_examples">>,
     <<"select_l1_examples", "plan_question">>}
    \cup IF req.columns THEN {<<"do_recall_tables", "do_recall_columns">>,
                              <<"do_recall_columns", "do_recall_metrics">>}
                        ELSE {<<"do_recall_tables", "do_recall_metrics">>}

Straight ==
    /\ \E edge \in StraightEdges : Superstep(edge[1], edge[2])
    /\ UNCHANGED <<err, status, corrects, sqlVars, verifyVars, planVars>>

\* route_dialogue and route_after_dialogue.
RouteDialogue ==
    /\ \E next \in {"process_memory_context", "ask_clarification",
                    "reply_chat"} : Superstep("route_dialogue", next)
    /\ UNCHANGED <<err, status, corrects, sqlVars, verifyVars, planVars>>

\* The recall gate in merge_retrieved_info and route_after_merge_recall.
MergeRecall ==
    \E next \in {"do_recall_sql_examples", "ask_clarification",
                 "format_answer"} :
        /\ Superstep("merge_retrieved_info", next)
        /\ status' = IF next = "format_answer" THEN "out_of_scope" ELSE status
        /\ UNCHANGED <<err, corrects, sqlVars, verifyVars, planVars>>

\* Mutant of PlanQuestion: the plan keeps more steps than steps[:6].
PlanQuestionUncapped ==
    /\ Superstep("plan_question", "agent_loop")
    /\ planSteps' \in 0..(MaxPlanSteps + 1)
    /\ agentSteps' = 0
    /\ idx' = 0
    /\ UNCHANGED <<err, status, corrects, sqlVars, verifyVars>>

\* plan_question and route_after_plan; a plan for agent_loop resets the
\* agent's counters, the two other outcomes do not use them.
PlanQuestion ==
    \/ /\ \E next \in {"generate_sql", "ask_clarification"} :
              Superstep("plan_question", next)
       /\ UNCHANGED <<err, status, corrects, sqlVars, verifyVars, planVars>>
    \/ /\ Superstep("plan_question", "agent_loop")
       /\ planSteps' \in 0..MaxPlanSteps
       /\ agentSteps' = 0
       /\ idx' = 0
       /\ UNCHANGED <<err, status, corrects, sqlVars, verifyVars>>

\* reply_chat: the answer of a chitchat or an out-of-scope question.
ReplyChat ==
    /\ Superstep("reply_chat", "format_answer")
    /\ status' \in {"chitchat", "out_of_scope"}
    /\ final' = 0 /\ rowsOf' = 0
    /\ UNCHANGED <<err, corrects, raw, applied, assembled, verifyVars,
                   planVars>>

\* ask_clarification drops any result and error and asks the user.
AskClarification ==
    /\ Superstep("ask_clarification", "format_answer")
    /\ status' = "need_clarification"
    /\ err' = None
    /\ final' = 0 /\ rowsOf' = 0
    /\ UNCHANGED <<corrects, raw, applied, assembled, verifyVars, planVars>>

----------------------------------------------------------------------------
(* The agent loop *)

\* The loop is disabled, at its limit, has every observation it needs, the
\* LLM finishes, or it wants to ask while asking is disabled.
AgentStops ==
    /\ Superstep("agent_loop", "build_agent_context")
    /\ UNCHANGED <<err, status, corrects, sqlVars, verifyVars, planVars>>

AgentAsksUser ==
    /\ agentSteps < MaxAgentSteps
    /\ Superstep("agent_loop", "ask_clarification")
    /\ agentSteps' = agentSteps + 1
    /\ UNCHANGED <<err, status, corrects, sqlVars, verifyVars, planSteps, idx>>

\* Mutant of AgentCallsTool: the tool calls are not counted.
AgentCallsToolUncounted ==
    /\ agentSteps < MaxAgentSteps
    /\ \E next \in {"build_agent_context", "agent_loop"} :
           Superstep("agent_loop", next)
    /\ UNCHANGED <<err, status, corrects, sqlVars, verifyVars, planVars>>

\* A tool call; a duplicate one or the last one needed ends the loop, and so
\* does reaching agent_max_steps.
AgentCallsTool ==
    /\ agentSteps < MaxAgentSteps
    /\ agentSteps' = agentSteps + 1
    /\ \E done \in BOOLEAN :
           Superstep("agent_loop",
                     IF done \/ agentSteps' >= MaxAgentSteps
                     THEN "build_agent_context" ELSE "agent_loop")
    /\ UNCHANGED <<err, status, corrects, sqlVars, verifyVars, planSteps, idx>>

\* build_agent_context and route_after_build_agent_context.
BuildAgentContext ==
    /\ Superstep("build_agent_context",
                 IF req.multi /\ planSteps >= 2
                 THEN "execute_plan_sql_step" ELSE "generate_sql_step")
    /\ UNCHANGED <<err, status, corrects, sqlVars, verifyVars, planVars>>

----------------------------------------------------------------------------
(* One SQL: generate, validate, apply the policy, execute, correct *)

\* generate_sql and generate_sql_step, the L2 retry inside them included.
GenerateSql(node) ==
    /\ Superstep(node, "validate_sql")
    /\ \/ raw' = raw + 1 /\ UNCHANGED err
       \/ err' = "rejected" /\ UNCHANGED raw            \* LLM_NO_SQL
    /\ UNCHANGED <<status, corrects, final, applied, rowsOf, assembled,
                   verifyVars, planVars>>

\* Mutant of MayCorrect: one correction too many.
MayCorrectOnceMore(code) == code \in CorrectableCodes /\ corrects <= MaxCorrect

\* route_after_validate and the error branch of route_after_execute.
MayCorrect(code) == code \in CorrectableCodes /\ corrects < MaxCorrect

AfterValidate(code) ==
    CASE code = None      -> "apply_policy"
      [] MayCorrect(code) -> "correct_sql"
      [] OTHER            -> "format_answer"

ValidateSql ==
    /\ err = None
    /\ \E code \in {None, "correctable", "rejected"} :
           /\ Superstep("validate_sql", AfterValidate(code))
           /\ err' = code
           /\ final' = IF code = None THEN raw ELSE final
    /\ UNCHANGED <<status, corrects, raw, applied, rowsOf, assembled,
                   verifyVars, planVars>>

\* With an error_code set the node returns {}; its route is still taken.
SkipValidate ==
    /\ err # None
    /\ Superstep("validate_sql", AfterValidate(err))
    /\ UNCHANGED <<err, status, corrects, sqlVars, verifyVars, planVars>>

\* Scope literals and injection, or the sch_id rule; otherwise nothing to fail.
ApplyPolicy ==
    /\ Superstep("apply_policy", "execute_sql")
    /\ \E code \in IF req.scope \/ req.sch
                   THEN {None, "correctable", "rejected"} ELSE {None} :
           /\ err' = code
           /\ applied' = IF code = None THEN final ELSE applied
    /\ UNCHANGED <<status, corrects, raw, final, rowsOf, assembled,
                   verifyVars, planVars>>

AfterExecute(code) ==
    IF MayCorrect(code) THEN "correct_sql" ELSE "verify_answer"

\* Mutant of ExecuteSql: a failed execution goes on without an error code.
ExecuteSqlSwallows ==
    /\ err = None
    /\ Superstep("execute_sql", "verify_answer")
    /\ rowsOf' \in {final, rowsOf}
    /\ UNCHANGED <<err, status, corrects, raw, final, applied, assembled,
                   verifyVars, planVars>>

ExecuteSql ==
    /\ err = None
    /\ \E code \in {None, "correctable"} :             \* SQL_EXEC_ERROR
           /\ Superstep("execute_sql", AfterExecute(code))
           /\ err' = code
           /\ rowsOf' = IF code = None THEN final ELSE rowsOf
    /\ UNCHANGED <<status, corrects, raw, final, applied, assembled,
                   verifyVars, planVars>>

SkipExecute ==
    /\ err # None
    /\ Superstep("execute_sql", AfterExecute(err))
    /\ UNCHANGED <<err, status, corrects, sqlVars, verifyVars, planVars>>

\* A new SQL from the error message; final_sql and the error are reset only
\* when the model returns one, the rows never.
CorrectSql ==
    /\ Superstep("correct_sql", "validate_sql")
    /\ corrects' = corrects + 1
    /\ \/ raw' = raw + 1 /\ final' = 0 /\ err' = None
       \/ err' = "rejected" /\ UNCHANGED <<raw, final>>   \* LLM_NO_SQL
    /\ UNCHANGED <<status, applied, rowsOf, assembled, verifyVars, planVars>>

----------------------------------------------------------------------------
(* Several SQLs: one per plan step, then assembled *)

\* Each step generates, validates and executes its own SQL in one node.
ExecutePlanSqlStep ==
    \/ /\ Superstep("execute_plan_sql_step",
                    IF idx + 1 < planSteps
                    THEN "execute_plan_sql_step" ELSE "assemble_result")
       /\ idx' = idx + 1
       /\ UNCHANGED <<err, status, corrects, sqlVars, verifyVars, agentSteps,
                      planSteps>>
    \/ /\ Superstep("execute_plan_sql_step", "format_answer")
       /\ err' \in {"correctable", "rejected"}
       /\ UNCHANGED <<status, corrects, sqlVars, verifyVars, planVars>>

\* assemble_result and route_after_assemble_result.
AssembleResult ==
    /\ Superstep("assemble_result",
                 IF req.verify THEN "verify_answer" ELSE "format_answer")
    /\ raw' = raw + 1
    /\ final' = raw' /\ rowsOf' = raw' /\ assembled' = raw'
    /\ UNCHANGED <<err, status, corrects, applied, verifyVars, planVars>>

----------------------------------------------------------------------------
(* The answer *)

VerifyCap == IF VerifyMaxCorrect < MaxCorrect
             THEN VerifyMaxCorrect ELSE MaxCorrect

\* Mutant of AfterVerify: corrections until the verification passes.
AfterVerifyForever(ok, tries) == IF ok THEN "build_chart" ELSE "correct_sql"

\* route_after_verify reads verify_passed, whoever set it.
AfterVerify(ok, tries) ==
    CASE ok -> "build_chart"
      [] ~ok /\ tries <= VerifyCap /\ corrects < MaxCorrect -> "correct_sql"
      [] OTHER -> "format_answer"

RouteAfterVerify(ok, tries) ==
    /\ Superstep("verify_answer", AfterVerify(ok, tries))
    /\ fromVerify' = IF AfterVerify(ok, tries) = "correct_sql"
                     THEN fromVerify + 1 ELSE fromVerify

\* The heuristic (and the LLM, if enabled) judges the rows.
VerifyAnswer ==
    /\ req.verify
    /\ err = None
    /\ attempts' = attempts + 1
    /\ verified' = rowsOf
    /\ \E ok \in BOOLEAN :
           /\ passed' = ok
           /\ err' = IF ok THEN None ELSE "verify"
           /\ RouteAfterVerify(ok, attempts')
    /\ UNCHANGED <<status, corrects, sqlVars, planVars>>

\* With verify_answer_enabled off the node passes everything.
VerifyDisabled ==
    /\ ~req.verify
    /\ err = None
    /\ passed' = TRUE
    /\ RouteAfterVerify(TRUE, attempts)
    /\ UNCHANGED <<err, status, corrects, attempts, verified, sqlVars,
                   planVars>>

\* With an error_code set the node returns {}: verify_passed and
\* verify_attempts are those of an earlier SQL.
SkipVerify ==
    /\ err # None
    /\ RouteAfterVerify(passed, attempts)
    /\ UNCHANGED <<err, status, corrects, attempts, passed, verified, sqlVars,
                   planVars>>

BuildChart ==
    /\ Superstep("build_chart", "format_answer")
    /\ UNCHANGED <<err, status, corrects, sqlVars, verifyVars, planVars>>

\* A dialogue outcome is kept; VERIFY_FAILED is answered as a success.
FormatAnswer ==
    /\ Superstep("format_answer", "end")
    /\ status' = IF status \in DialogueStatuses THEN status
                 ELSE IF err \in {None, "verify"} THEN "success" ELSE "fail"
    /\ err' = IF status \notin DialogueStatuses /\ err = "verify"
              THEN None ELSE err
    /\ UNCHANGED <<corrects, sqlVars, verifyVars, planVars>>

----------------------------------------------------------------------------
\* Any node may raise (LLM client, database); the run is over.
Raise ==
    /\ pc \in Nodes
    /\ pc' = "raised"
    /\ UNCHANGED <<req, steps, err, status, corrects, sqlVars, verifyVars,
                   planVars>>

\* LangGraph gives up when nodes are left after recursion_limit supersteps.
Recursion ==
    /\ pc \in Nodes
    /\ steps >= req.limit
    /\ pc' = "recursion_error"
    /\ UNCHANGED <<req, steps, err, status, corrects, sqlVars, verifyVars,
                   planVars>>

Next ==
    \/ Straight \/ RouteDialogue \/ MergeRecall \/ PlanQuestion
    \/ ReplyChat \/ AskClarification
    \/ AgentStops \/ AgentAsksUser \/ AgentCallsTool \/ BuildAgentContext
    \/ GenerateSql("generate_sql") \/ GenerateSql("generate_sql_step")
    \/ ValidateSql \/ SkipValidate \/ ApplyPolicy
    \/ ExecuteSql \/ SkipExecute \/ CorrectSql
    \/ ExecutePlanSqlStep \/ AssembleResult
    \/ VerifyAnswer \/ VerifyDisabled \/ SkipVerify
    \/ BuildChart \/ FormatAnswer
    \/ Raise \/ Recursion

\* The event loop keeps running a ready graph; every await in a node is
\* bounded by the LLM client's or the database's timeout.
Spec == Init /\ [][Next]_vars /\ WF_vars(Next)

----------------------------------------------------------------------------
(* Properties *)

AtLeast(m, n) == IF n < m THEN m ELSE n

\* Every field has its type.
TypeOK ==
    /\ req \in Requests
    /\ pc \in Nodes \cup Ended
    /\ err \in Codes
    /\ status \in Statuses
    /\ passed \in BOOLEAN
    /\ steps \in Nat /\ corrects \in Nat /\ attempts \in Nat
    /\ agentSteps \in Nat /\ planSteps \in 0..MaxPlanSteps /\ idx \in Nat
    /\ raw \in Nat /\ final \in Nat /\ applied \in Nat /\ rowsOf \in Nat
    /\ assembled \in Nat /\ verified \in Nat /\ fromVerify \in Nat

\* The three routes into correct_sql (after validation, execution and
\* verification) share one budget, agent_max_correct.
CorrectionBudget == corrects <= MaxCorrect

\* The longest run the limits allow: 15 nodes up to the plan, the agent loop
\* and its context, one SQL or one per plan step, every correction, the answer.
WorstCase ==
    20 + AtLeast(1, MaxAgentSteps) + AtLeast(3, MaxPlanSteps) + 5 * MaxCorrect

\* A recursion limit that covers the worst case is never met, so a question
\* with many plan steps and corrections still gets its answer.
NoRecursionError == WorstCase <= req.limit => pc # "recursion_error"

\* A successful answer shows the rows of the very SQL it reports, that SQL
\* went through apply_policy (or was assembled from the plan steps), and the
\* verdict stored beside it is about those rows: nothing is left over from a
\* SQL that was corrected away.
AnswerIsOfReportedSql ==
    status = "success" =>
        /\ final # 0 /\ rowsOf = final
        /\ final \in {applied, assembled}
        /\ req.verify => verified = final

\* A code outside _CORRECTABLE_CODES ends the run as a failure as long as no
\* verification failed before it: no later node clears it.
RejectionIsFinal ==
    [][err = "rejected" /\ passed => err' = "rejected" /\ status' # "success"]_vars

\* Every ask ends with an answer, or with the exception of a node: neither the
\* agent loop nor the correction loops keep it running until LangGraph aborts.
Answered == WorstCase <= req.limit => <>(pc \in {"end", "raised"})

\* settings.verify_max_correct: how often a failed verification may lead to
\* correct_sql.  The code violates it, see the README.
VerifyBudget == fromVerify <= VerifyMaxCorrect

\* The docstring of _prepare_final_sql: the SQLs of the plan steps are prepared
\* as validate_sql and apply_policy would.  The code violates it, see the README.
StepsFollowPolicy == status = "success" /\ req.scope => applied = final

=============================================================================
