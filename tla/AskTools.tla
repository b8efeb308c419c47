------------------------------- MODULE AskTools -------------------------------
(***************************************************************************)
(* The tools of one question: its tool loop (ToolLoop) runs, or one of the *)
(* helpers that the nodes of the pipeline call is given an input: the gate *)
(* of its SQL, the assembly of its results, the choices for a prompt, the  *)
(* shape of its plan.  The helpers keep no state: what they promise is     *)
(* stated of every input.                                                  *)
(***************************************************************************)
EXTENDS ToolLoop, SqlGate, ResultAssembly, PromptContext, PlanShape

CONSTANTS
    Gates,          \* [kind, q, u, found]: a query, its user, the rows found
    Assemblies,     \* results to join, to pivot, or the steps of a plan
    Prompts,        \* what a prompt is chosen from
    Shapes          \* answers to the planner, relations, tables recalled

\* A query has its names in a list, and a limit.
IsGate(g) ==
    /\ g.kind = "gate" /\ g.found \in Nat /\ g.q.limit.n \in Nat
    /\ g.q.froms \in Seq([name : STRING \ {""}, alias : STRING, plain : BOOLEAN, outer : BOOLEAN])

\* A result of a SQL: its columns are of one word and differ, and every row has
\* a cell for each.
IsResult(t) ==
    /\ t \in [cols : Seq(Seq(STRING)), rows : Seq(Seq(STRING))]
    /\ Rectangular(t) /\ IsInjective(t.cols) /\ (t.rows # <<>> => t.cols # <<>>)
    /\ \A i \in DOMAIN t.cols : Len(t.cols[i]) = 1

IsAssembly(x) ==
    \/ x.kind = "join" /\ IsResult(x.l) /\ IsResult(x.r)
    \/ x.kind = "pivot" /\ IsResult(x.t) /\ x.hint \in STRING
    \/ /\ x.kind = "steps" /\ x.steps \in Seq({x.steps[i] : i \in DOMAIN x.steps})
       /\ \A i \in DOMAIN x.steps : IsResult(x.steps[i].table) /\ x.steps[i].label \in STRING

IsPrompt(x) ==
    \/ /\ x.kind = "path" /\ IsFiniteSet(x.allowed)
       /\ x.rels \in Seq([from : STRING, to : STRING, on : BOOLEAN])
    \/ x.kind = "trace" /\ x.hops \in Nat /\ x.edges \in Seq([from : Nat, to : Nat])
    \/ x.kind = "tables" /\ x.tables \in Seq([table : STRING, score : Int])
    \/ /\ x.kind = "columns" /\ x.active \in BOOLEAN /\ x.recalled \in Seq(STRING)
       /\ x.cols \in Seq([name : STRING, must : BOOLEAN])
    \/ /\ x.kind = "examples"
       /\ x.examples \in Seq([id : Int, priority : Int, score : Int,
                              draft : BOOLEAN, unreviewed : BOOLEAN, adminOnly : BOOLEAN,
                              role : STRING, tables : SUBSET STRING])
       /\ \A i, j \in DOMAIN x.examples : x.examples[i].id = x.examples[j].id => i = j
    \/ /\ x.kind = "observations" /\ x.candidates \in Seq(STRING)
       /\ x.obs \in Seq([tool : STRING, table : STRING, lengths : Seq(Nat)])

IsShape(x) ==
    /\ x.kind = "shape" /\ x.raw.steps \in Seq(STRING) /\ x.raw.multi \in BOOLEAN
    /\ x.rels \in Seq([from : DOMAIN HubRank, to : DOMAIN HubRank, on : BOOLEAN, many : BOOLEAN])
    /\ IsFiniteSet(x.recalled) /\ x.mentioned \in Seq((DOMAIN HubRank) \X DOMAIN HubRank)

ASSUME AskToolsAssumption ==
    /\ \A g \in Gates : IsGate(g)
    /\ \A x \in Assemblies : IsAssembly(x)
    /\ \A x \in Prompts : IsPrompt(x)
    /\ \A x \in Shapes : IsShape(x)

VARIABLE input
askVars == <<loopVars, input>>

AskInit ==
    \/ LoopInit /\ input = [kind |-> "none"]
    \/ /\ input \in Gates \cup Assemblies \cup Prompts \cup Shapes
       /\ needs = <<>> /\ candidates = <<>> /\ targets = <<>> /\ limit = 0
       /\ obs = <<>> /\ steps = 0 /\ done = "none" /\ helped = FALSE
AskNext == LoopNext /\ UNCHANGED input
AskSpec == AskInit /\ [][AskNext]_askVars

-----------------------------------------------------------------------------
\* What passes the gate keeps of the scope of its user what the gate keeps, and its
\* rows the limits (SqlGate).
GateHolds ==
    input.kind = "gate" =>
        /\ ScopeKept(input.q, input.u) /\ DenialKept(input.q, input.u)
        /\ Bounded(input.q, input.found) /\ FewAreExact

\* The results of several steps become one table of the last matches, of the last
\* values of a label, of the days the entities share (ResultAssembly).
AssemblyHolds ==
    CASE input.kind = "join" -> JoinTakesLast(input.l, input.r) /\ Rectangular(Join(input.l, input.r))
      [] input.kind = "pivot" -> PivotKeepsLast(input.t, input.hint)
      [] input.kind = "steps" -> /\ ComparisonIsPerDay(input.steps, input.plan.wanted)
                                 /\ AssemblyIsWhole(input.steps, input.plan)
      [] OTHER -> TRUE

\* What is chosen for a prompt is what should be (PromptContext).
PromptHolds ==
    CASE input.kind = "path" -> PathIsShortest(input.rels, input.allowed, "a", input.to)
      [] input.kind = "trace" -> TraceIsComplete(input.edges, 1, input.hops)
      [] input.kind = "tables" -> TablesAreBest(input.tables, input.artifacts, input.allowed)
      [] input.kind = "columns" -> ColumnsFit(input.active, input.cols, input.keys, input.recalled)
      [] input.kind = "examples" -> ExamplesAreBest(input.examples, input.role, input.allowed)
      [] input.kind = "observations" -> ObservationsFit(input.obs, input.candidates)
      [] OTHER -> TRUE

\* The shape of a plan is one that can be run (PlanShape).
ShapeHolds ==
    input.kind = "shape" =>
        /\ SplitIsNeeded(input.rels, input.recalled, input.mentioned)
        /\ ShapeIsOne(input.raw, input.rels, input.recalled, input.mentioned)

-----------------------------------------------------------------------------
(* What comments of the code say, and the code does not do                  *)

\* guard.py:2 and :163, "forced LIMIT": the executor meets no result that is too long.
LimitForced == input.kind = "gate" => LimitIsForced(input.q, input.found)

\* result_assembler.py:261, "outer join by date": a comparison shows the days of
\* every entity.
ComparisonComplete ==
    input.kind = "steps" => ComparisonShowsAllDays(input.steps, input.plan.wanted)

=============================================================================
