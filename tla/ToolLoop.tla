------------------------------- MODULE ToolLoop -------------------------------
(***************************************************************************)
(* The tool loop of the agent (agent/agent_nodes.py, agent/agent_llm.py):  *)
(* the model names the next tool, agent_llm.py replaces what the plan does *)
(* not need or what has been called, and agent_nodes.py runs it, at most   *)
(* agent_max_steps times.                                                  *)
(*                                                                         *)
(* A call is a tool with a set of words: the tables of describe_table,     *)
(* list_relations and get_join_path, the query of a search, the SQL of a   *)
(* probe.  Two calls are equal when tool_call_fingerprint is.  A name that *)
(* is no name of a table (_normalize_meta_table_name) is "".               *)
(***************************************************************************)
EXTENDS Integers, FiniteSets, Sequences, Lists

CONSTANTS
    Plans,          \* [needs, tables]: the tools and the tables of a plan, in order
    Recalls,        \* sequences of names, the tables recalled for the question
    Answers,        \* tool calls the model may answer with
    Question,       \* the default query of a search
    MaxCandidates,  \* tables considered: 5
    Limits,         \* values of agent_max_steps
    AskEnabled      \* dialogue_agent_ask_enabled

ByTable == {"describe_table", "list_relations", "get_join_path"}
Searches == {"search_metrics", "search_field_values", "search_sql_examples",
             "search_code_artifacts"}
Tools == ByTable \cup Searches \cup
    {"run_probe_sql", "get_code_artifact", "trace_code_flow", "link_artifact_to_meta"}

ASSUME ToolLoopAssumption ==
    /\ Limits \subseteq Nat /\ MaxCandidates \in Nat /\ AskEnabled \in BOOLEAN
    /\ \A c \in Answers : c.tool \in Tools
    /\ \A p \in Plans : p.needs \in Seq(STRING)

VARIABLES
    needs,          \* needs_tool of the plan's steps
    candidates,     \* the tables recalled
    targets,        \* the tables to describe
    limit,          \* agent_max_steps
    obs,            \* tool_observations
    steps,          \* agent_step_count
    done,           \* agent_loop_done, with the reason
    helped          \* history: the model gave a usable answer

loopVars == <<needs, candidates, targets, limit, obs, steps, done, helped>>

Call(tool, words) == [tool |-> tool, words |-> words]
Finish == Call("finish", {"loop"})  \* no tool, not even one of that name
Ask == Call("ask_user_question", {})
Unusable == Call("", {})

\* The names that name a table.
Distinct(s) == WithoutRepeats(Where(s, LAMBDA x : x # ""))

\* _pick_candidate_tables.
Picked(recall) == Leading(Distinct(recall), MaxCandidates)

\* _plan_describe_targets.
TargetsOf(tables, picked) ==
    LET named == Distinct(tables)
        known == Where(named, LAMBDA t : t \in ToSet(picked))
    IN IF known # <<>> THEN Leading(known, MaxCandidates)
       ELSE IF named # <<>> THEN Leading(named, MaxCandidates)
       ELSE Leading(picked, 1)

LoopInit ==
    /\ \E p \in Plans, r \in Recalls :
          /\ needs = p.needs
          /\ candidates = Picked(r)
          /\ targets = TargetsOf(p.tables, Picked(r))
    /\ limit \in Limits
    /\ obs = <<>> /\ steps = 0 /\ done = "no" /\ helped = FALSE

-----------------------------------------------------------------------------
(* What has been called, and what the plan still needs                     *)

Keyless(c) == c.tool \in ByTable /\ c.words = {}

\* Mutant of IsDuplicate: only the call before counts.
IsDuplicateOfLast(c, o) == o # <<>> /\ ~Keyless(c) /\ o[Len(o)] = c

IsDuplicate(c, o) ==
    /\ ~Keyless(c) /\ c.tool \notin {"ask_user_question", "submit_final_sql"}
    /\ \E i \in DOMAIN o : o[i] = c

Tried(tool, o) == UNION {o[i].words : i \in {j \in DOMAIN o : o[j].tool = tool}}

\* A describe_table without a table fails; without targets it is never done.
ToolDone(tool, o) ==
    IF tool = "describe_table"
    THEN targets # <<>> /\ ToSet(targets) \subseteq Tried(tool, o)
    ELSE \E i \in DOMAIN o : o[i].tool = tool

NeedsComplete(o) ==
    /\ needs # <<>>
    /\ \A i \in DOMAIN needs : ToolDone(needs[i], o)

First(s, P(_)) == LET is == {i \in DOMAIN s : P(s[i])}
                  IN IF is = {} THEN {} ELSE {s[CHOOSE i \in is : \A j \in is : i <= j]}

\* The pairs of candidates, in the order of the two loops.
UntriedPair(o) ==
    LET tried == {o[i].words : i \in {j \in DOMAIN o : o[j].tool = "get_join_path"}}
        n == Len(candidates)
        open == {p \in (1..n) \X (1..n) :
                    p[1] < p[2] /\ {candidates[p[1]], candidates[p[2]]} \notin tried}
    IN IF open = {} THEN ToSet(IF n < 2 THEN <<>> ELSE Leading(candidates, 2))
       ELSE LET p == CHOOSE p \in open : \A q \in open :
                        p[1] < q[1] \/ (p[1] = q[1] /\ p[2] <= q[2])
            IN {candidates[p[1]], candidates[p[2]]}

DefaultWords(tool, o) ==
    CASE tool = "describe_table" -> First(targets, LAMBDA t : t \notin Tried(tool, o))
      [] tool = "list_relations" ->
            LET next == First(candidates, LAMBDA t : t \notin Tried(tool, o))
            IN IF next # {} THEN next ELSE ToSet(Leading(candidates, 1))
      [] tool = "get_join_path" -> UntriedPair(o)
      [] tool \in Searches -> {Question}
      [] OTHER -> {}

DefaultCall(tool, o) == Call(tool, DefaultWords(tool, o))

\* _fallback_action: the first tool of the plan that is open.
Fallback(o) ==
    LET open == First(needs, LAMBDA tool :
                    ~ToolDone(tool, o) /\ ~IsDuplicate(DefaultCall(tool, o), o))
    IN IF open = {} THEN Finish ELSE DefaultCall(CHOOSE tool \in open : TRUE, o)

-----------------------------------------------------------------------------
(* decide_agent_action                                                     *)

\* Words the model gave that name no candidate, or were tried, are replaced.
Sanitize(c, o) ==
    LET known == ToSet(candidates) \cup
                 (IF c.tool = "describe_table" THEN ToSet(targets) ELSE {})
        fresh == IF c.tool = "get_join_path"
                 THEN \A i \in DOMAIN o : o[i] # c
                 ELSE c.words \cap Tried(c.tool, o) = {}
    IN IF c.tool \notin ByTable /\ c.words # {} THEN c
       ELSE IF c.tool \in ByTable /\ c.words # {} /\ c.words \subseteq known /\ fresh THEN c
       ELSE DefaultCall(c.tool, o)

AvoidDuplicate(c, o, fallback) ==
    IF c = Finish \/ ~IsDuplicate(c, o) THEN c
    ELSE IF fallback # Finish /\ ~IsDuplicate(fallback, o) THEN fallback
    ELSE Finish

\* Mutant of Decide: a plan does not keep the model to its tools.
DecideFreely(answer, o) ==
    IF answer \in {Finish, Ask} THEN answer
    ELSE AvoidDuplicate(Sanitize(answer, o), o, Fallback(o))

Decide(answer, o) ==
    LET fallback == AvoidDuplicate(Fallback(o), o, Finish)
        needed == \E i \in DOMAIN needs : needs[i] = answer.tool
        call == Sanitize(answer, o)
    IN IF answer \in {Finish, Ask} THEN answer
       ELSE IF answer = Unusable \/ (needs # <<>> /\ ~needed) THEN fallback
       ELSE IF call.tool = "describe_table" /\ call.words = {} THEN fallback
       ELSE AvoidDuplicate(call, o, Fallback(o))

-----------------------------------------------------------------------------
(* agent_loop                                                              *)

\* Nothing is left to do; but for agent_max_steps = 0, RunsTool found that out.
LoopEnds ==
    /\ done = "no"
    /\ steps >= limit \/ NeedsComplete(obs)
    /\ done' = IF steps >= limit THEN "max_steps" ELSE "needs_tool_complete"
    /\ UNCHANGED <<needs, candidates, targets, limit, obs, steps, helped>>

\* Finishing without any observation is not believed.
Action(answer) ==
    LET a == Decide(answer, obs)
    IN IF a = Finish /\ obs = <<>> THEN Fallback(obs) ELSE a

Deciding(answer) ==
    /\ done = "no" /\ steps < limit /\ ~NeedsComplete(obs)
    /\ helped' = (helped \/ answer # Unusable)
    /\ UNCHANGED <<needs, candidates, targets, limit>>

Finishes(answer) ==
    /\ Deciding(answer)
    /\ Action(answer) = Finish \/ (Action(answer) = Ask /\ ~AskEnabled)
    /\ done' = "finish"
    /\ UNCHANGED <<obs, steps>>

AsksUser(answer) ==
    /\ Deciding(answer)
    /\ Action(answer) = Ask /\ AskEnabled
    /\ obs' = Append(obs, Ask) /\ steps' = steps + 1
    /\ done' = "ask_user"

\* A call that was made before gives way to the plan's, or ends the loop.
RunsTool(answer) ==
    LET a == Action(answer)
        forced == Fallback(obs)
        call == IF ~IsDuplicate(a, obs) THEN a ELSE forced
    IN
    /\ Deciding(answer)
    /\ a \notin {Finish, Ask}
    /\ steps' = steps + 1
    /\ IF IsDuplicate(a, obs) /\ (forced = Finish \/ IsDuplicate(forced, obs))
       THEN /\ obs' = Append(obs, Call("skipped", {a.tool}))
            /\ done' = "duplicate_tool_call"
       ELSE /\ obs' = Append(obs, call)
            /\ done' = IF NeedsComplete(obs') THEN "needs_tool_complete"
                       ELSE IF steps' >= limit THEN "max_steps" ELSE "no"

LoopNext ==
    \/ LoopEnds
    \/ \E answer \in Answers \cup {Finish, Ask, Unusable} :
          Finishes(answer) \/ AsksUser(answer) \/ RunsTool(answer)

LoopSpec == LoopInit /\ [][LoopNext]_loopVars

-----------------------------------------------------------------------------
\* What the prompt promises as a hard rule: no call is made twice, whatever
\* the model answers, and the loop keeps to its steps.  A call without the
\* table it needs has no fingerprint, and the question to the user ends it.
EachCallOnce ==
    /\ Len(obs) = steps /\ steps <= limit
    /\ \A i, j \in DOMAIN obs : i # j /\ obs[i] = obs[j] => Keyless(obs[i])

\* Only tools the plan needs are run; and a model that is down for the whole
\* loop leaves a plan that is complete, unless the steps ran out, or the plan
\* needs the question to the user and that is switched off.
PlanIsFollowed ==
    /\ needs # <<>> =>
          \A i \in DOMAIN obs : obs[i] = Ask \/ obs[i].tool \in ToSet(needs)
    /\ done = "finish" /\ ~helped =>
          \/ needs = <<>> \/ NeedsComplete(obs)
          \/ ~AskEnabled /\ Ask.tool \in ToSet(needs)

=============================================================================
