# Data Copilot: formal models

TLA+ specifications of the backend of Data Copilot, an assistant that answers
natural-language questions over a business database (NL2SQL). This file says what
the system is made of, what is modelled, what TLC checks on small instances, what
TLAPS proves for every instance, and what is left.

Paths without a directory prefix are relative to `src/backend/app`.

Contents: [Inventory](#1-inventory) ·
[Modules](#2-modules-and-the-code-they-model) ·
[Runs](#3-what-the-runs-check) · [Fairness](#4-fairness) ·
[Proofs](#5-what-is-proved) · [Assumptions](#6-assumptions) ·
[Findings](#7-findings) · [Not modelled](#8-what-is-not-modelled) ·
[Plan](#9-plan)

## 1. Inventory

The backend is one FastAPI process on one event loop. It keeps its own state in
MySQL (the *copilot* database, accessed through SQLAlchemy's `AsyncSession`) and
reads a *business* database through a second engine. The web client, an embedded
widget and an MCP server call it.

| part | state it keeps | operations | talks to | module |
|---|---|---|---|---|
| **Ask turn** (`agent/runner.py`, `observability/tracer.py`, `api/ask.py`) | `copilot_ask_turn`, `copilot_audit_log`, the counter in `copilot_ask_session`; per request: an open transaction, a worker task, a queue | run a plain or a streamed ask, cancel, finish after errors and disconnects | pipeline, sessions, dialogue memory | `AskTurn` |
| **Ask pipeline** (`agent/graph.py`, `agent/*_nodes.py`) | the LangGraph state of one run | 30 nodes, 10 conditional routes | models, SQL gateway, executor, recall | `AskPipeline` |
| **Agent tools, plans and prompts** (`agent/agent_llm.py`, `agent/plan_*`, `agent/tools`, `agent/context_builder.py`) | none beyond the graph state | choose and run tools, shape the plan, choose what a prompt shows | models, metadata | `ToolLoop`, `PlanShape`, `PromptContext` |
| **SQL gateway** (`sql/*`, `policy/*`) | the whitelist of the process | validate, column guard, whitelist, scope injection | pipeline | `SqlGate`, `MetaIndex` |
| **SQL execution** (`sql/executor.py`, `system/connectors`) | none | execute with limit and timeout | business database | `SqlGate`, `RuntimeConfig` |
| **Result assembly** (`agent/result_assembler.py`) | none | join, put side by side, pivot, compare by date | pipeline | `ResultAssembly` |
| **Dialogue gate** (`agent/dialogue_nodes.py`, `memory/memory_service.py`) | `slot_json.pending_clarification` of a session | route a question, merge an answer, ask, clear, write back after a success | pipeline, ask turn | `DialogueGate` |
| **Sessions** (`memory/session_service.py`, `api/sessions.py`) | `copilot_ask_session`, `copilot_session_summary` | create (with eviction), delete, upsert by a question, load the memory | ask turn, dialogue gate | `Sessions` |
| **Brief reports** (`brief_report/*`) | `copilot_brief_report`, files | choose turns, build, export, mark | ask turns | `Sessions` |
| **Research reports** (`research/*`) | `copilot_research_report`, `copilot_research_section`, the set in `cancel_registry` | plan and run a report, branch from a section, cancel, export | ask turn (one ask per section) | `ResearchReport` |
| **Code knowledge** (`code/*`, `api/admin_code.py`) | repositories and their code graph | sync a Git repository, delete, query | recall | `CodeSync` |
| **Runtime configuration, business engine** (`system/*`, `db/business.py`) | process-wide globals, one engine, their rows | change model, data source and parameters, refresh, invalidate | everything that runs SQL or a model | `RuntimeConfig` |
| **Metadata and index** (`meta/*`, `api/admin_meta.py`) | tables, columns, values, metrics, examples, search index | administrate, publish, introspect, rebuild the index | recall, whitelist | `MetaIndex` |
| **Retrieval** (`retrieval/*`, `ask/*`) | none | search with fallbacks, rank, boost | index | `MetaIndex`, `PromptContext` |
| **Preferences, memory prompt, references** (`memory/*`) | `copilot_user_preference` | create, update, delete; build prompt texts | pipeline | - |
| **Authentication, users, embedding, MCP** | users, roles, scopes, keys | plain create/update/delete | all | - |
| **Trace log, streaming frames** | log rows | formatting | ask turn | - |
| **Demo mode, web client, chart server** | none that matters here | - | - | - |

What makes the parts that carry the program hard, and what correct means there:

* **Ask turn.** Between the first row of a turn (`pending`) and its final status
  lie dozens of awaits. At each one the client may leave (`CancelledError`),
  another request may cancel the turn, a statement may fail, the process may die.
  Five different handlers finish a turn, two of them in the session that just
  failed, one in a session of its own. *Correct*: an acknowledged cancel is
  final; audit row, counter and status agree; nothing keeps running; a turn stays
  open only because of a fault; every request ends.
* **Ask pipeline.** A cyclic graph whose routes read counters and flags that other
  nodes wrote, often for an earlier SQL. *Correct*: the budgets hold in sum, the
  run ends before LangGraph aborts it, the answer shows rows, SQL and verdict
  that belong together, a rejection is final.
* **Tool loop.** The model may answer anything at every step; the rules that replace
  an answer call each other. *Correct*: no call twice, only tools of the plan, and a
  plan is completed without a model.
* **SQL gate.** Several rules about tables, columns, literals and injected conditions
  have to close one gap each, over what a parser finds in a text. *Correct*: a statement
  that passes names granted tables, and shows granted values only. The code keeps the
  first but for names a CTE has, and the second under the conditions that `ValuesKept`
  lists; what it does not restrict is under "Findings".
* **Result assembly, prompt choices, plan shape.** Sequential code with many cases:
  joins by guessed keys, cuts after merged priorities, a search around a table.
  *Correct*: what an independent definition says.
* **Dialogue gate.** A clarification lives over several turns, in a row and in
  the states of the graphs that loaded it, and every read and write of it
  swallows its errors. *Correct*: what is stored is what the user was asked last,
  an answered question is over, a change of topic forgets the old one.
* **Sessions, brief reports.** Count-then-insert with eviction, deletion while a
  question runs, upserts that create what they do not find. *Correct*: the limit
  holds; a deleted session stays deleted; a memory or a report shows only successful
  turns of its user and session; a report that is done has its file.
* **Research reports.** Minutes of work behind one row. The limit is tested before
  a model call and used after it; the cancel endpoint, the loop and the finish
  write the same row. *Correct*: the limit holds, a cancellation stops the
  report, the final status fits the sections, every request ends.
* **Code knowledge.** A status row committed first, thousands of inserts committed
  in batches, no lock. *Correct*: a synced repository has exactly one graph, of
  one version; a failed or killed sync can be repeated; every sync ends.
* **Runtime configuration.** Globals assigned between awaits, an engine disposed
  while in use. *Correct*: one default per kind, the process serves it, a query runs
  on it.
* **Metadata and index.** A whitelist that all questions share and any of them
  reassigns, an index that is older than the registry, a rebuild that stops half
  way. *Correct*: a question queries what was allowed, shows what was published, a
  clean rebuild is exact.

Every hazard found is listed with its line in `PROJECT.json` under `hazards`,
with the properties that cover it or the reason why none does. Some of them the code does
fall into: a crash or a cancelled `wait_for` leaves a turn or a report open, a stale
verdict decides about a later SQL, starts, creations, syncs, refreshes or turns that
overlap break what each keeps alone. There the property excepts exactly that case, by a
history variable or a premise (`why`, `overlapped`, `extra`, `mixed`, `stale`, `late`,
`passed`), and so speaks for everything else and not for the hazard itself; the note of
the hazard says so, and "Findings" tells what happens. Six lesser ones are
only told here: a failed turn is stored with the rows of an earlier SQL
(`agent/runner.py:534`); `assembly_mode` and `intermediate_results` of the plan steps
are left over in the state (`agent/sql_step_nodes.py:307`); the error at
`agent/nodes.py:541` and the timeouts at `research/runner.py:340` and `:399` are under
"Findings"; two feedbacks on one turn overwrite each other (`api/feedback.py:48`).

## 2. Modules and the code they model

    TurnLedger  <--implements--  AskTurn        <-- MCAskTurn,        AskTurn_proofs
                                 AskPipeline                          <-- AskPipeline_proofs
                                 ResearchReport <-- MCResearchReport, ResearchReport_proofs
                                 DialogueGate                         <-- DialogueGate_proofs
    SessionStore <--implements-- Sessions       <-- MCSessions,       Sessions_proofs
                                 CodeSync       <-- MCCodeSync,       CodeSync_proofs
                                 RuntimeConfig  <-- MCRuntimeConfig,  QueryPath_proofs
                                 MetaIndex      <-- MCMetaIndex,      MetaIndex_proofs
    Lists  <--  ToolLoop, ResultAssembly,      \
                PromptContext, PlanShape, SqlGate } <-- AskTools <-- MCAskTools, QueryPath_proofs

`X <-- X_proofs`: the theorems are in a module of their own that extends `X`;
`QueryPath_proofs` extends both `AskTools` and `RuntimeConfig`, whose names are distinct,
and holds what is proved of the path of a query. An
`MC` module gives model values, small inputs and symmetry to TLC. Definitions whose
comment begins with "Mutant of" are no part of a specification: each is the
definition named there with a plausible bug in it, and shows that a property can be
violated (`mutants` in `PROJECT.json`).

The machines meet at narrow places. `AskTurn` sees the pipeline as a number
of node steps that end in a status; `AskPipeline` is what happens in them. Of its nodes,
`agent_loop` is `ToolLoop`, `plan_question` is `PlanShape`, `validate_sql` with
`apply_policy` and `execute_sql` is `SqlGate`, `assemble_result` is `ResultAssembly`, and
`PromptContext` and `MetaIndex` are behind the recall and prompt nodes.
`ResearchReport` sees an ask as the status of its section. `DialogueGate` takes
the dialogue nodes of the pipeline and the end of the turn, for several turns of
one session; `Sessions` takes the session and the turn rows of several sessions.
`RuntimeConfig` is the engine `execute_sql` runs on. Keeping them apart is what makes
faults at every await affordable.

### AskTurn and TurnLedger

`TurnLedger` is the abstract specification: what the copilot database promises
about a turn, one committed transaction at a time. A turn opens as `pending`, a
run *publishes* status, audit row and counter together, an error *aborts* it (the
audit row may have been kept), a cancel ends it. No coroutine, worker or open
transaction appears. `AskTurn` contains `Ledger == INSTANCE TurnLedger WITH ...`.

`AskTurn` is the code. Per request:

| variable | code |
|---|---|
| `row`, `audits`, `counted` | committed `copilot_ask_turn.status`, audit rows, increments of `turn_count` |
| `acked` | `POST /ask/cancel` answered `ok` |
| `wstatus`, `waudit`, `wcount` | what the open transaction of the request's session wrote |
| `view` | the snapshot of that transaction (REPEATABLE READ) |
| `stage` | the await at which the request's coroutine is |
| `worker`, `nodes`, `outq` | `_astream_worker`, the node it is in, `out_q` |
| `acc`, `resp` | the accumulated graph status, what the client got |
| `late` | finalizing inside the `GraphRecursionError` handler, outside the `try` |
| `why`, `faults` | history: the first fault of the request, and the bound on faults |

Actions: `_prepare_ask_run` (`InsertTurnStart`, `LoadPolicy`, `PrepareRaises`), the
graph and its worker (`GraphNode`, `GraphEnd`, `GraphRaises`, `WorkerCheck`), the main
loop of `stream_ask_graph` (`ReceiveChunk`, `ReceiveEnd`, `ReceiveError`, `FinalCheck`),
`_finalize_ask_run` one await at a time (`FinalizeCheck` to `Deliver`), the handlers
(`FinishTurnOnFatal`, `FatalFallsBack`, `FinishTurnIsolated`, `FatalLost`,
`FinishTurnOnUserCancel`, `UserCancelLost`), the faults (`FinalizeRaises`,
`LoopRaises`, `Disconnect`, `SubAskTimeout`, `Crash`), `Cleanup` and the endpoint
`CancelAskRun`. The finalization is one action per await because the interesting
faults lie between its statements.

### AskPipeline

One LangGraph run. A node and the conditional edge behind it are one action, as
LangGraph runs them in one superstep; `steps` counts supersteps. SQL texts are
numbered in the order in which the model produces them, so `raw_sql`, `final_sql`,
the SQL that `apply_policy` let through, the one whose rows are in the state
and the one the verdict is about can be compared. Error codes are grouped by how
the routes treat them (`correctable`, `verify`, `rejected`). What models and
databases answer is a free choice. `req` holds the settings and the user's policy,
all combinations of which are initial states. `fromVerify` is a history variable.

### ToolLoop and the helpers of a question

`ToolLoop` is the loop of the agent: the model names a tool (`Decide`), a chain of rules
replaces what the plan does not need or what was called before (`Sanitize`,
`AvoidDuplicate`, `Fallback`), `RunsTool` runs it. A call is a tool and a set of words;
two calls are equal when `tool_call_fingerprint` is. Any answer of the model is
allowed at every step. `AskTools` puts it together with the helpers below: an initial state
either starts the loop, or holds an `input` of one helper, of which its promise is stated
(`GateHolds`, `AssemblyHolds`, `PromptHolds`, `ShapeHolds`).

The helpers are operators without state, each beside a definition of what it
promises that is made without the code's order of search:

* `SqlGate`: one SELECT as what the parser finds in it: the table nodes in order, each with
  its alias and whether it is in the FROM of the outermost SELECT (`froms`), the names of
  the WITH (`ctes`), the output aliases (`outputs`), the column references (`cols`), the
  literals compared with a column anywhere and whether the comparison filters the result
  (`lits`), whether the WHERE is a disjunction (`either`), the limit; the policy of a user;
  `Valid`, `LiteralsGranted`, `Conditions`, `Executes`, `Fetched`. Promise: `ScopeKept`
  (`TablesKept`, `ColumnsKept`, `ValuesKept`), `DenialKept`, `Bounded`, `FewAreExact`. They
  say what the gate keeps and no more: names of CTEs, stars, names that are output
  aliases and references under a name of two tables are not tested; the condition on a
  bound column goes to the first node of the table, and to none if a literal is compared
  with the column anywhere; a FETCH is not capped.
* `ResultAssembly`: `Join`, `Beside`, `Pivot`, `Compared`, `Assemble` over tables of a few
  columns. Promise: `JoinTakesLast`, `PivotKeepsLast`, `ComparisonIsPerDay`,
  `AssemblyIsWhole`, each for any results, those with repeated keys and labels included.
* `PromptContext`: the breadth-first searches over table relations and over the code
  graph, the ranking and cutting of tables, columns, examples and observations.
  `Finalized` cuts the tables first and boosts them afterwards, as `finalize_kb_recall`
  does; `PromptColumns` has the branch of a table that is missing or disabled, whose
  recalled columns are neither filtered nor cut. Promise: `PathIsShortest`, `TraceIsComplete`, `TablesAreBest`, `ColumnsFit`,
  `ExamplesAreBest`, `ObservationsFit`.
* `PlanShape`: `_normalize_plan`, the analysis that splits a statement into branches, and
  the plans that skip the agent. Promise: `SplitIsNeeded`, `ShapeIsOne`.

`Lists` has the list idioms they share (`s[:n]`, `[x for x in s if ...]`, `dict.fromkeys`,
`sorted`), each told by the places of the list it takes its elements from (`Kept`, `Nth`)
and not by a loop, so that it can be reasoned about. For the same reason the loops
of `PromptContext` and `ResultAssembly` are recursive functions over the number of
rounds. `IsResult`, `IsAssembly`, `IsPrompt` and `IsShape` of `AskTools` say what the
inputs of the helpers are; `AskToolsAssumption` asks it of the constants, and TLC
evaluates it for every input of the run.

### DialogueGate

The turns of one session. `slot` is the committed pending clarification, `kept` the
one in the state of a turn's graph; a clarification is identified by the turn that
saved it and its contents are in `asked`. Actions are the outcomes of
`route_dialogue`, `ask_clarification` and `reply_chat`, the places in the pipeline
that ask (`QueryAsks`), and the three steps of `_finalize_ask_run` after a success.
Reads and writes may fail and are swallowed, as in the code.

### Sessions and SessionStore

`SessionStore` is the abstract specification: a new session takes the place of one of the
same user if, and only if, the user has as many as he may, and a session is deleted by its
owner only, one commit at a time. A session that comes *beyond* (`CreateBeyond`: the client
named it, or another request of the user changed what the creation had counted) needs no
room, evicts at most one of the same user, and is counted in `extra`. `Sessions`
contains `Store == INSTANCE SessionStore WITH ...` and is the code:

| variable | code |
|---|---|
| `sess`, `recent` | `copilot_ask_session`: existence, mark, owner and `turn_count`; the order by `updated_at` |
| `turn`, `finished` | `copilot_ask_turn`: session, user, status; the order by `created_at` |
| `summary` | live rows of `copilot_session_summary` |
| `req` | a request: what it does, for whom, and what it read |
| `memory`, `report` | what `load_session_memory` returned; `copilot_brief_report` and the file |
| `extra` | history: sessions a user got without room for them |

A request reads in one action and commits in another. `CreateSession`/`AskInNewSession`
count and choose a victim, `SessionCreated`/`AskBegins` write; `AskInSession` is a question
under an id the client names, whose upsert makes a row when there is none, past the
limit. `LoadTurns` to `MarkDone` are a brief report with its failures.

### ResearchReport

The reports of one user: `stream_research_report` from the count of running
reports to `finish_report`, and `cancel_report` in its three parts (read the status,
set the flag, write and commit). An action ends where the code awaits or yields.
`section` and `done` are the section rows and the `section_done` column, `results`
the dictionary of the request, `flags` the set in `cancel_registry`. A branch
(`origin`) inherits the sections of its parent in front of the fork. `acked`,
`mustStop` and `overlapped` are history: confirmed cancellations, cancellations set
while the loop had another check ahead, and two starts at the same time.

### CodeSync

One repository, its syncs and its deletion. `Source[v]` is the content of version `v`
after the path filter; a row of `live` stands for a symbol with its edges and
links. `pending` are the rows a sync inserted and has not committed; it commits every
`ProgressEvery` files and at the end, a failed one as well. The unique key
`uk_repo_qualified` rejects a name that is taken; the row locks are in the guards
(`InsertWaits`, `ClearWaits`), with lock wait timeouts, deadlock victims and crashes as
actions. `mixed` and `raced` are history: a sync that was not alone, a deletion that
overlapped a sync.

### RuntimeConfig

The rows of models, data sources and parameters with their flags and a version, the
cache of `runtime_config.py`, the engine of `business.py` and the queries on it. An
administrator's request reads (`Request`), writes (`Write`), re-reads everything
(`RefreshReads`), assigns one global per await (`Assign`), and disposes and forgets
the engine in two steps (`Dispose`, `DropEngine`). `stale` is history: a refresh failed
or overlapped another request.

### MetaIndex

The registry with a deletion mark and two flags per row, the administrator's requests
that read and write in two steps, the rebuild kind by kind, and questions that
refresh the shared whitelist, search the index, load what they find and query.
`fresh` and `since` are history: the registry a clean rebuild saw, and the tables
allowed since a question began.

## 3. What the runs check

Every run below is exhaustive over its instance. Deadlock is not checked: in all
of them the system may stop (all requests over, nobody asks again).

* **`AskTurn.cfg`**: one streamed and one plain request, a cancel of each, two
  faults of any kind anywhere (1.5 million states).
  `TypeOK`; `CancelAckHonoured` (an acknowledged cancel is never overwritten, whoever
  finishes the turn); `SuccessIsBooked` (audit row and counter with the status);
  `EndedIsWhole` (what the client was told is what is stored, no running graph or row
  lock is left, a turn stays pending only after a fault); `ImplementsLedger`
  (refinement of `TurnLedger`).
  *Bounds.* Two requests because they meet in crashes only; one of each kind as the
  two have different handlers. Two faults reach every handler of a handler
  (`fatal_iso` needs one to get to `fatal` and one to fall through it);
  the liveness run has three. `MaxNodes = 1`: one node before the last one has both
  kinds of worker check; the finalization does not depend on the number of nodes.
* **`AskTurnLive.cfg`**: either request on its own with three faults and two nodes.
  `RequestEnds`, `TurnCloses` (a pending turn gets a final status or was hit by a
  fault). The main loop waits for an `end` frame with no timeout, so this rests
  on every path of the worker putting one.
* **`AskPipeline.cfg`**: two corrections, one verification correction, two agent
  steps, four plan steps, and two values of the recursion limit: 36, which is exactly
  `WorstCase` for these numbers, and 25, LangGraph's default (350 thousand states).
  `TypeOK`, `CorrectionBudget` (three routes share one budget), `NoRecursionError` and
  `Answered` (a limit that covers the worst case is never met, and every run ends),
  `AnswerIsOfReportedSql` (rows, SQL and verdict of a success belong
  together), `RejectionIsFinal`.
  *Bounds.* The budgets are small but above one, so each counter can be
  below, at and (in a mutant) above its limit while another one is not. For the
  defaults of `config/settings.py` (3, 1, 6, 6) `WorstCase` is 47, and
  `graph_recursion_limit` is 64.
* **`AskTools.cfg`**: the tool loop for fifteen plans, three recalls, up to four steps
  and any of eighteen calls (or none, or the end) as each answer; and the helpers over
  some two hundred and fifty thousand inputs, each an initial state of its own.
  `EachCallOnce` (no call is made twice, the loop keeps to its steps), `PlanIsFollowed`
  (only tools of the plan, and a model that is down for the whole loop leaves a
  finished plan, unless the plan needs a question to the user and asking is switched off), `GateHolds` (`SqlGate`), `AssemblyHolds` (`ResultAssembly`), `PromptHolds`
  (`PromptContext`), `ShapeHolds` (`PlanShape`).
  *Bounds.* Inputs are built so that each rule meets its exceptions: repeated and
  empty names, equal scores, `None` in a key, two bindings of one table, a relation
  that is off, cycles, a table that refers to itself, lists one above every limit. The
  queries have self-joins, a table in a subquery, aliases that are the name of another
  table, CTEs with a name of their own or of a table, output aliases named like a denied
  column, literals that filter and that do not, every kind of limit.
* **`AskToolsDays.cfg`** violates `ComparisonComplete` on a part of the inputs of
  `AskTools.cfg`: see "Findings".
* **`ResearchReport.cfg`**: two requests of a user, each possibly a branch of the
  other, two sections, the limit one, a cancellation of each, a restart (10 million
  states). `TypeOK`, `LimitUnlessStartsOverlap`, `CancelIsSeen`, `StatusFitsSections`,
  and `ReportAdvances`: every step of a request lowers `Ahead`, a bound of
  `3 * MaxSections + 6` steps, so that no report runs for ever. It needs no fairness,
  and `Ahead` is proved for any number of sections.
  *Bounds.* Two sections are a first and a last one, with a check of the flag
  between them; two requests suffice to exceed a limit of one and to inherit.
* **`DialogueGate.cfg`**: four turns, overlapping or not, one failed read or write
  (1.2 million states). `TypeOK`, `SlotFollowsLatest`, `AnsweredOnce`.
  *Bounds.* Four turns are a question, two clarifications in a row, and a turn
  after the answer. The properties speak of turns that follow each other without
  a lost write; what they exclude is described under "Findings".
* **`Sessions.cfg`**: three requests of two users, three ids, a limit of one session
  (320 thousand states). `ActiveIsBounded` (the limit, but for the sessions counted in
  `extra`), `DeletedStaysDeleted`, `ReportsAreWhole`; `ImplementsStore` (refinement of
  `SessionStore`).
  *Bounds.* Two creations that overlap and a third that follows them show an excess and
  its end; a question, its deletion and a report are three requests as well. A limit of
  one makes every second creation an eviction.
* **`CodeSync.cfg`**: two syncs and the deletion of a repository, over two versions of
  its source, one fault (100 thousand states). `LoneSyncIsExact` (a repository that says
  `ok` after a sync nothing overlapped holds exactly the version of `content_hash`,
  whatever failed or crashed before), `DeletedLeavesNothing`, `SyncEnds`.
  *Bounds.* Version 1 has two declarations of one name, a file without any and one more
  file than a batch; version 2 an overload and the other order of files, so that two
  syncs can wait for each other's names.
* **`CodeSyncPull.cfg`** violates `SyncTakesLatest`: see "Findings".
* **`RuntimeConfig.cfg`**: three requests of two administrators on two data sources, one
  of them an Excel source, a query, up to three engines, one fault (4.2 million states).
  `AtMostOneDefault`, `CacheServesDefault` (between requests the process serves what the
  database says, unless the last refresh failed or overlapped; a later request that
  runs alone repairs that), `QueryRunsOnDefault`.
  *Bounds.* Two rows are enough for two defaults and three requests for an overlap and
  its repair. Models and parameters follow the same rules and are left to the parameter
  `Kind`.
* **`MetaIndex.cfg`**: two questions, one administrator, one rebuild; a table with a
  column, a value, a metric and an example, of which only the metric exists at first;
  two changes of the registry (2.2 million states).
  `QueriesAllowedTables`, `SelectedIsPublished`, `FreshIndexIsRegistry`; that the
  variables keep their types is proved (section 5).
  *Bounds.* Two questions are needed to reassign the whitelist behind each other's back;
  two changes to register and then disable, delete or unpublish.

## 4. Fairness

Safety is checked without fairness. For liveness:

* `AskTurn`: weak fairness of each request's own coroutine (`RunnerStep`) and of
  its graph task (`WorkerStep`). The event loop runs every task that is ready; model
  and SQL calls have timeouts, so a node that started ends with a result or an
  exception. Nothing is assumed about clients, cancels or faults.
* `AskPipeline`: weak fairness of the run, for the same reason. The loop of the agent
  and the correction loops end by their counters and not by fairness: no choice of a
  model's answer is assumed.
* `CodeSync`: weak fairness of the steps of each sync that has begun. A sync that
  waits for a lock is not enabled; that the holder goes on, or that one of two syncs
  that wait for each other becomes the victim, is what `SyncEnds` checks. No sync is
  assumed to begin, and a lock wait need not time out.

`MCFairSingle` restricts `FairSpec` of `AskTurn` to behaviours in which one of the two
requests is never made. The requests share no variable except the fault counter, so
for the end of each one this loses nothing but the crash of both at once, which
ends both.

## 5. What is proved

For every value of the constants allowed by the named assumptions:

| module | theorem | states |
|---|---|---|
| `AskTurn_proofs` | `TypeCorrect`, `BookingCorrect` | `TypeOK`, `BookingInv` |
| | `CancelAckIsHonoured`, `TurnIsBookedOnce`, `StoredSuccessIsBooked`, `EndedIsWholeCorrect` | the safety properties of the bookkeeping and of the end of a turn |
| | `LedgerRefinement` | `Spec => Ledger!LedgerSpec` |
| `AskPipeline_proofs` | `TypeCorrect`, `CorrectionsBounded`, `RecursionLimitSuffices` | types, the budget, `NoRecursionError` |
| | `StepsBounded` | a bound on the supersteps at every node |
| | `RejectionsAreFinal`, `AnswersAreConsistent` | an action property, `AnswerIsOfReportedSql` |
| `ResearchReport_proofs` | `TypeCorrect`, `LimitCorrect`, `CancelCorrect`, `FinalStatusCorrect`, `ReportAdvancesCorrect` | all properties of `ResearchReport.cfg` |
| `DialogueGate_proofs` | `TypeCorrect`, `SlotCorrect`, `AnsweredOnceCorrect` | types, `SlotFollowsLatest`, `AnsweredOnce` |
| `Sessions_proofs` | `TypeCorrect`, `LimitIsKept`, `DeletionIsFinal`, `ReportsHold` | types and all invariants and action properties of `Sessions.cfg` |
| | `StoreRefinement` | `Spec => Store!StoreSpec` |
| `CodeSync_proofs` | `TypeCorrect`, `SyncIsExact`, `DeletionClears` | types, `LoneSyncIsExact`, `DeletedLeavesNothing` |
| `MetaIndex_proofs` | `TypeCorrect`, `WhitelistHolds`, `PromptShowsPublished`, `RebuildIsFaithful` | types and all properties of `MetaIndex.cfg` |
| `QueryPath_proofs` | `CallsCorrect`, `PlanCorrect` | `EachCallOnce`, `PlanIsFollowed` of the tool loop, for any plan, recall and answers |
| | `GateKeepsScope`, `GateKeepsDenial`, `RowsAreBounded`, `GateCorrect` | `ScopeKept`, `DenialKept` and `Bounded` (that only a FETCH makes a result too long) for any query, user, bindings and result; `GateHolds` |
| | `Connected`, `ShapesCorrect` | what the search between tables finds; `ShapeHolds` for any relations, tables and answers |
| | `PathsCorrect`, `TracesCorrect` | what the two breadth-first searches find, for any relations and any call graph |
| | `TablesCorrect`, `ColumnsCorrect`, `ExamplesCorrect`, `ObservationsCorrect`, `PromptsCorrect` | what the choices for a prompt show; `PromptHolds` |
| | `JoinsCorrect`, `PivotsCorrect`, `ComparisonsCorrect`, `AssembliesAreWhole`, `AssembliesCorrect` | what joins, pivots and comparisons tell of the results of any number of steps; `AssemblyHolds` |
| | `ConfigTypeCorrect`, `OneDefaultCorrect`, `CacheCorrect`, `QueryCorrect` | types, `AtMostOneDefault`, `CacheServesDefault`, the action property `QueryRunsOnDefault` |

The arguments:

* **AskTurn.** None of the bookkeeping properties is inductive: whether a commit is
  allowed depends on what the interrupted finalization left in the session.
  `BookingInv` says for each stage what the open transaction holds: nothing before
  the UPDATE, then the status (or nothing, when the row is cancelled), then the audit
  row, then the counter, and at the commit everything or nothing. With "a locked
  row is never a cancelled one" every committing action is a `Publish`,
  `Abort` or `Cancel` of the ledger, and all others are stutters.
  `EndedIsWhole` needs more, `WholeInv`: while a turn is undecided no fault has hit it and
  its client was told nothing; at the commit of the finalization it is written as a whole
  or backed, that is, its row has that status or is cancelled, or a database fault took
  the write; an outcome the client was told is backed. Each handler of a fault leads to a
  stage of which that can be said, and of another request's row a step changes nothing
  but to cancel it.
* **AskPipeline.** `StepInv` bounds `steps` at each node by what was spent up to
  it: nodes in front, agent steps, plan steps, and five supersteps per correction.
  It needs `CorrectionBudget`, and gives `steps < WorstCase` while a node is left.
  `ErrorFlow` says which nodes can be reached with an error set, `AnswerFlow` which SQL
  numbers agree at which node; `RejectionIsFinal` and `AnswerIsOfReportedSql`
  follow.
* **ResearchReport.** `LimitInv` counts `Claimed`, the reports that are running or
  planning: without overlap a start finds nobody planning, so the limit holds for the
  sum. `CancelInv`: a flag with a check ahead stays set until the loop reads
  it. `FitInv` ties the dictionary of the request to the section rows at each place.
  `ReportAdvances` is proved action by action from `TypeOK`: the sections left are a
  finite set, and `StartSection` takes one out.
* **DialogueGate.** `RefInv` (a clarification refers to a turn that asked), `SeqInv`
  (without overlap at most the latest turn runs, and what it has loaded is what is
  stored), `FollowInv` (the stored clarification at each place of the latest turn).
* **Sessions.** Every step does one of four things to the sessions (`Effect`: nothing, a
  creation, a first upsert, a deletion) and leaves the other requests as they are
  but for a flag (`OthersStay`). `Fresh`: an id that a creation holds is used by nobody
  until it commits, and its victim is a session of the user; so an insert never meets a
  row, and what is deleted stays so. `Roomy`: a creation that nothing disturbed still has
  the room, or the victim it found for want of room; so it keeps the limit, and every
  other growth is counted in `extra`. For the refinement the same facts say which step of
  `SessionStore` a commit is: an undisturbed creation is `Create`, with a victim exactly
  at the limit, any other one and a first upsert are `CreateBeyond`. `Whole`: a turn that succeeded belongs to a request that ended, so
  what a memory or a report shows can no longer change.
* **CodeSync.** `RowsSoFar` is the invariant of the loop over the files: while one sync
  works alone, the rows committed and pending are those of the files before the next
  one. It needs `OneAtATime` (nothing overlaps, no deletion is under way),
  `NothingPending` (only a sync that inserts has rows nobody sees) and
  `StatusIsSyncing` (the `ok` of an earlier sync is gone before the graph is cleared).
  `DeletedLeavesNothing` follows from `LoneDeletion`: a deletion that met no sync has
  none beside it until the row is marked, because a sync that begins then is recorded.
* **MetaIndex.** `WhitelistsAreRecent`: every whitelist that is still to be assigned
  was read after the question began, or the question is `late`. `ExamplesStayReviewed`:
  no operation takes a review back, so what a snapshot or the index calls
  reviewed still is, which is why `is_l1_visible` need not see it. `LoneRebuild`: the
  kinds a lone rebuild has passed are those of its snapshot; `SnapshotsAreCounted`: the
  snapshot is the registry as long as nobody has edited it; `FreshIsQuiet`: nobody
  rebuilds while the index counts as fresh.
* **ToolLoop.** `FallbackIsOpen`: what `_fallback_action` takes is a tool of the plan that
  is open, with words no call had; an open plan always offers one (an undone
  `describe_table` has a target nobody has described). `Decided`: the chain of rules ends in
  the end of the loop, the question to the user, the fallback, or a new call of a tool
  the plan needs. So the branch of `agent_loop` that skips a duplicate call is dead, and
  every call appended is new. `PlanIsFollowed` needs the exception it names: a plan that
  needs `ask_user_question` is left open when that is switched off.
* **RuntimeConfig.** `RowsOK`: clearing the flag of a kind and setting it on one existing
  row keeps one default, whatever the handler's snapshot showed. `FreshInv`: while nothing
  is stale at most one request is at work, and it knows how far the cache is
  from the rows: not at all before it writes and after its refresh, and in between up to the
  kinds it has assigned. `EngineInv`: a closed engine is the singleton only while somebody
  awaits its disposal, so between requests a query never gets one.
* **SqlGate.** `ClearIsResolved`: a name under which a node is the only table of the
  query is resolved to that table, though the map keeps the last node of a name. So every
  reference to such a node is tested as one of its table (`ColumnsAreKept`). For a bound
  column of the first node of a table (`FirstIsFirst`) there are two cases: literals are
  compared with it, which were all tested and filter by assumption, or none is, and it
  gets the condition, whose values are the granted ones or the active one, which was
  tested before the question was asked. `RowsAreBounded` goes by the kind of limit.
* **PlanShape.** `Connected`: a round of the search finds a table or none does from then
  on, and there are at most twice as many tables as relations, so `2 * Len(rels)` rounds
  find what every closed set must hold. With it `~Avoids` is `Separate`, defined without a
  search. `BestLink`: the links of a table have a best one, so that `Anchor` is a table it
  links to. Induction goes over a set of numbers (`Induct`, from the least element).
* **Lists.** A finite set of numbers is counted off by `Nth` (`Ranks`), which gives the
  places of `Kept`, its length and its order; a strict total order of the places counts
  them off in the same way, which gives `StableSort` as an arrangement of the list
  (`Arranges`) in which a smaller element comes first. A recursive function over
  `0..n` exists and obeys its equation (`RunsExist`), by `Induct`.
* **PromptContext.** The invariant of the path search (`Searched`) is: the visited
  tables are those within the distance of the last one queued, the queue is in the
  order of the distance (`InTurn`), and every visited table has a path of the length
  of its distance (`Shortest`). So when the queue is empty nothing else is
  connected, and as each table is queued once, `Cardinality(allowed)` rounds end it.
  The trace search (`Traced`) has, after each round, the calls of every symbol within so
  many hops, and its frontier is what the last round found. Tables, columns of an active
  table and examples: what is chosen is a beginning of an arrangement of the candidates,
  so nothing left out comes before anything chosen; the boost arranges what was chosen
  once more. Observations: in the arrangement
  those of candidates come first, and the lines are a beginning that fits.
* **ResultAssembly.** `Cell` is told by the place of a column (`PlaceIs`). A row of a join is
  that of a row of the left and the last row of the right that matches it
  (`MatchedAt`, `JoinedAt`); which rows there are follows place by place (`JoinedAreLast`,
  `JoinedOnce`), for keys and for columns with repeated values alike. A pivot has a row
  for each tuple of dimensions and a column for each label and value (`AreHeads`,
  `AreCells`), and a cell tells the value of the last row that falls into it
  (`PivotedTells`). For a comparison, the induction over the joined results (`DaysUpto`)
  keeps `DaysFrom` some `k` on: the rows are the days that the results from the `k`-th
  to the last one joined all have, one a day, and each row tells a row of each. A result
  that joins one without rows replaces it and becomes the new `k` (`StartsAt`). It needs
  that two renamed results share the day alone, that is, that names made of different
  labels differ (`NamesAreTold`).

Each proof module is laid out alike: the invariant holds initially, one lemma or
step per action, the temporal theorem by `PTL`.

*Only model-checked.* Liveness (`RequestEnds`, `TurnCloses`, `Answered`, `SyncEnds`)
is out of the prover's reach: it rests on fairness and on `ENABLED`. Every
invariant and every action property of the passing runs is stated by a theorem.

## 6. Assumptions

* MySQL at REPEATABLE READ: a plain SELECT sees the snapshot of the transaction's
  first read, an UPDATE sees the newest committed row and locks it until the end
  of the transaction. In `AskTurn` the snapshot opens in `_prepare_ask_run` after its
  commit. In `CodeSync` an insert waits for an uncommitted insert of the same unique key
  and a clearing UPDATE for every uncommitted insert; a deadlock rolls back the whole
  transaction, a lock wait timeout only the statement.
* A cancelled await on the database invalidates its connection, which rolls back
  the transaction. A deadlock rolls back the whole transaction on the server, also
  where the code swallows the exception.
* After a disconnect the handler's own await may be cancelled again, or the worker
  may still hold the session: the handler may have no effect (`UserCancelLost`).
* LangGraph stops with `GraphRecursionError` when nodes are left after
  `recursion_limit` supersteps.
* Reports: one process. Time is not modelled; `TotalTimeout` may happen whenever the
  code looks at the clock. A disconnect ends a streamed report at any await.
* Dialogue: the session memory is enabled and the session is not deleted meanwhile.
  What a text means (cancel, new topic, fills the slots) is a free choice, and so is
  whether a success writes the summary (the code does from the third
  successful turn on). Turns start in the order of their numbers.
* Sessions: a generated uuid is new and known to nobody before it is written
  (`Generated`); the summary row of a session comes and goes, its contents are
  `DialogueGate`.
* SqlGate: `POLICY_DATA_SCOPE_ENABLED` is on (its default); what sqlglot finds in a
  statement, and in which order, is given. Names of tables and aliases are in lower case
  and without the name of a database, as the code takes them. A comparison without a
  table in front of its column is of the table that has the column: of two the database
  refuses it as ambiguous.
* AskTools: a result of a SQL has a cell per column in every row, and a column if it has a
  row. Its columns have different names: the executor would also return two columns that
  a SELECT names alike (`sql/executor.py:72`), of which `_row_dicts` keeps the last;
  that is left out. A name of one column is one word, and a name the code makes of a
  label and a name has two: that a made name equals the name of another column is
  left out as well. The ids of curated examples differ, as they are primary keys;
  scores and priorities are integers, as only their order counts. The lines of an
  observation have a length, an edge of the code graph two symbols (0: unresolved).
* The ranks of key and date columns (`KeyRank`, `DateRank`) are the positions in the
  tuples of `agent/result_assembler.py`, and the limits of a prompt are not negative.
* The named assumptions on constants: `AskTurnAssumption`, `LimitsAreNat`,
  `ReportsFinite`, `DialogueGateAssumption`, `SessionsAssumption`, `CodeSyncAssumption`,
  `RuntimeConfigAssumption`, `MetaIndexAssumption`, `ToolLoopAssumption`, `SqlGateAssumption`,
  `PlanShapeAssumption`, `PromptContextAssumption`, `ResultAssemblyAssumption`,
  `AskToolsAssumption`.

## 7. Findings

By a run:

* **A remote is cloned once and never pulled** (`CodeSyncPull.cfg`,
  `code/sync_worker.py:143`). The first sync stores the checkout in `local_path` (`:300`);
  `is_local_import` then takes the repository for a local directory, and every later sync
  parses the old checkout and reports `ok`. `api/admin_code.py:139` and
  `sync_worker.py:225` say that a sync pulls.

* **A comparison by date is an inner join** (`AskToolsDays.cfg`,
  `agent/result_assembler.py:294`). The docstring (`:261`) says 按日期外连接合并, an outer
  join; the function merges with `join_result_sets`, which drops what has no match.
  `ComparisonIsPerDay` says exactly what is shown instead.

By properties that are defined in the modules and hold in no run; add one to the
configuration named to see the behaviour:

1. **A cancelled turn is counted as a successful one** (`CountsSuccessfulTurns` in
   `AskTurn.cfg`; `agent/runner.py:592`). The cancel commits after the last status check
   and before `finish_turn`. `finish_turn` respects it; `upsert_on_ask(success=True)` does
   not look at its result. `V007__agent_memory.sql:8` calls `turn_count` the number of
   successful turns. In the same behaviour the client is sent the successful answer
   of a turn whose cancel was acknowledged.
2. **A rejected correction is corrected again** (`VerifyBudget` in `AskPipeline.cfg`;
   `agent/verify_nodes.py:456`). `verify_answer` returns `{}` when an error is set;
   `route_after_verify` then decides on `verify_passed` and `verify_attempts` of the
   previous SQL. `VERIFY_MAX_CORRECT` (settings.py:291) is exceeded.
   `RejectionIsFinal` has `passed` in its premise for this reason.
3. **SQLs of plan steps skip `apply_policy`** (`StepsFollowPolicy` in `AskPipeline.cfg`;
   `agent/sql_step_nodes.py:74`), against the docstring of `_prepare_final_sql`. What
   `SqlGate` promises about injected conditions is not true of them.
4. **The limit of running reports can be exceeded** (`LimitHolds` in
   `ResearchReport.cfg`; `research/runner.py:235`): the count is taken before the planner
   is awaited.
5. **A confirmed cancellation of a report is overwritten** (`ConfirmedCancelIsFinal` in
   `ResearchReport.cfg`; `research/runner.py:507`): after the loop nobody looks at the
   flag, and `finish_report` has no condition on the status.
6. **A change of topic does not forget the old question** (`SwitchForgetsTopic` in
   `DialogueGate.cfg`; `agent/dialogue_nodes.py:326`): the clarification stays in the
   state of the graph, and what the new turn asks is stored under the old question,
   thread and count.
7. **A sync that overlaps the deletion of its repository leaves its graph**
   (`DeletedGraphIsGone` in `CodeSync.cfg`; `code/repository.py:144`).
8. **Replaced engines are not disposed** (`ReplacedEnginesDisposed` in `RuntimeConfig.cfg`):
   an engine that a query replaces, or whose default was deleted, stays open;
   docs/10-LLM_DATASOURCE_CONFIG_PLAN.md:170 promises dispose and clear.
9. **A FETCH is not capped** (`LimitForced` in `AskTools.cfg`; `sql/guard.py:134`), against
   the forced LIMIT of `sql/guard.py:2` and `:163`. `validate_sql` caps an `exp.Limit` only;
   `FETCH FIRST n ROWS` stays, and a result longer than `max_rows` is refused with
   `TOO_MANY_ROWS` instead of being cut.

Met while modelling and visible in the models:

*Questions*
* `format_answer` (`agent/nodes.py:527`) is meant to answer with the rows it has; it
  does so for `VERIFY_FAILED` only. A correction that yields no SQL after rows
  were found ends as a failure.
* Without a candidate table a plan that needs `describe_table` repeats the same empty call
  until `agent_max_steps`.
* `boost_tables_by_code_artifacts` runs after the cut to `recall_top_k_table`
  (`agent/context_builder.py:207-213`), so that a table which code artifacts name is ordered
  first but never brought in by them; `table_names` keeps the order before it. Of a table that is missing or disabled the recalled columns are
  shown without `max_columns_per_table` (`:168-170`).
* The search tools return `items` while
  `_format_tool_observations` looks for `metrics` and `values`.
* A table that refers to itself counts as a branch of itself, so that it and a table
  directly related to it are split (`agent/plan_analyzer.py:77`). `_is_likely_source_table`
  and the test `metric_count < 2 and len(sources) < 2` never have an effect.
* What the SQL gate does not restrict, each visible in `SqlGate`: a name that a CTE has is
  no table to the whitelist, wherever it stands (`sql/guard.py:27-45`); a column is not
  tested if its name is also an output alias (`sql/column_guard.py:77`, `:119`) or if it is a
  star, and the guard compares column names as they are written; a name under which two
  nodes of a query go counts for the last one; the condition on a bound column is put on
  the first node of its table and not on a second one or one in a subquery
  (`policy/scope_injector.py:192-197`), and on none when a literal is compared with the
  column anywhere, be it under an OR or in a SELECT list (`:187-190`); it is joined to the
  WHERE by `exp.and_` (`:216`), and whether that puts a disjunction in parentheses is
  sqlglot's. `ScopeKept` says what holds besides.
* A probe of the agent passes `validate_sql` but neither `validate_sql_columns` nor
  `apply_policy` (`agent/tools/probe_tools.py:39`).
* The ClickHouse executor writes parameter 1 over the head of parameter 10
  (`sql/executor.py:94`): a scope of more than ten values is garbled (`Rendered`).
* In a comparison steps whose date columns have different names are put side by side row
  by row; an empty intermediate join makes the next result replace everything. `join_result_sets` returns the other side when one
  is empty, the last of several right rows of a key, and the right one of equal
  column names. In a pivot `None` and 空 are the same label.
* `expand_table_names_by_relations`, `filter_tables` and `filter_columns_for_prompt` are
  never called.

*Dialogue and sessions*
* At `dialogue_clarify_max_asks` the code keeps and re-saves the clarification;
  docs/16 says both that it may (:476) and that it is cleared (:493).
* A clarification asked after a completely merged answer stores that bare answer as
  the original question (`agent/dialogue_nodes.py:494`).
* A mismatching `thread_id` drops the structured answers, but the text of the
  message is merged all the same (docs/16:522).
* Overlapping turns of one session can lose or resurrect a clarification: the
  end of a success writes back what it read. No document excludes overlap.
* A question under the id of a deleted session, also of another user's, goes on adding
  turns to it; it is not listed and remembers nothing. Two users who send the same new
  id at once put their turns into one session.
* `save_pending_clarification` revives the summary row of a deleted session, which nothing
  loads.
* Creations that overlap exceed `session_max_per_user`.

*Reports*
* A failing PDF export leaves the report running (`research/runner.py:499`), against
  docs/15:335; so does a client that leaves (docs/15:1568). Nothing sweeps such a
  report and it counts against the limit.
* A failed section of the parent is a successful one in the branch
  (`research/runner.py:136`; docs/15:586 and :1017): `InheritedStatus`.
* The total timeout leaves sections `pending`; the report can still be a `success`
  (`research/runner.py:340`).
* Sections of a streamed report have no timeout of their own (`research/runner.py:399`;
  docs/15:1018).
* `section_done` does not count degraded sections.
* A flag set after the last check stays in `cancel_registry` until the report id is
  used again or the process ends.
* `except BriefReportError: raise` (`brief_report/service.py:247`) is never reached.

*Metadata*
* `refresh_allowed_tables` reads and assigns with an await in between: an older answer may
  replace a newer one (`sql/whitelist.py:40`; `late` exempts such a question). When the
  last table is disabled the whitelist falls back to the tables of the metrics.
* `upsert_field_value` returns the result of the INSERT instead of the row
  (`meta/repository.py:577-633`): a new value that is not active is rolled back, an active
  one is committed and answered with 500.
* `int(review_status or 1)` makes the later test for 0 dead, so `is_l1_visible` does not see
  that an example is not reviewed; what saves it is the index, and the review that
  cannot be taken back.
* A rebuild skips a kind the registry has nothing of, so its old documents stay.
* `update_table_manual_fields` (`:337`) and the publication read first and write later: of two
  edits one is lost. Removing `draft` by an update does not publish, although a docstring
  says so. A metric code of a deleted row stays taken (`uk_metric_code`).
* Administrators whose requests overlap leave a stale cache until the next request.

## 8. What is not modelled

Inside the modelled parts: wording of prompts and SSE frames; audit texts; charts and
PDF layout; time. `DialogueGate` leaves out turns without a session and sessions
deleted in between; `AskPipeline` leaves out the pending clarification (it is
`DialogueGate`); `Sessions` leaves out lists and renaming, which are single queries;
`CodeSync` takes what the parsers find as the constant `Source`; `SqlGate` leaves out the
older `sch_id` rules of `policy/role_policy.py`; `MetaIndex` leaves out users, datasets and
the import of SQL files.

Whole parts: see the component list in `PROJECT.json`, with a reason each. Rendering,
drivers, embeddings, scores of the search engines and formatting are computation or I/O
without a protocol. Authentication, users and preferences are plain
create/update/delete. The connection pool of `db/copilot.py` (every stream holds one
connection and needs a second) depends on SQLAlchemy's pool and its timeout, and is
listed as a hazard without a property.

## 9. Plan

What would add most, in this order:

1. An abstract specification of `CodeSync` (the graph of a repository is that of one
   finished sync), as a refinement.
2. Names of several words in `IsResult`: that a name the code makes of a label and a
   column is no other column's needs the labels of a plan to be told apart from names.
3. `ConnectionPool`: streams that hold one connection and wait for a second one, with
   its timeout as a fault.
4. `Feedback`: the one row per turn that two requests write.
