--------------------------- MODULE ResearchReport ---------------------------
(***************************************************************************)
(* Deep-analysis reports of one user (app/research): the request that      *)
(* plans a report, runs one ask per section and writes the result          *)
(* (stream_research_report), and the endpoint that cancels it              *)
(* (cancel_report).  They share the rows of copilot_research_report and    *)
(* copilot_research_section and the in-process set of cancel_registry.     *)
(*                                                                         *)
(* An action ends where the code awaits or yields; statements up to a      *)
(* commit are one action, as other sessions see them at the commit only.   *)
(* The ask behind a section is modelled by the status it returns.          *)
(***************************************************************************)
EXTENDS Integers, FiniteSets

CONSTANTS
    Reports,        \* report ids, one per request
    MaxSections,    \* settings.research_max_sections
    MaxConcurrent,  \* settings.research_max_concurrent_per_user
    MaxRestarts     \* bound: restarts of the server process

ASSUME ReportsFinite == IsFiniteSet(Reports)
ASSUME LimitsAreNat ==
    MaxSections \in Nat /\ MaxConcurrent \in Nat /\ MaxRestarts \in Nat

VARIABLES
    row,        \* status column of the report, "none" while there is no row
    section,    \* status columns of its sections
    done,       \* section_done column
    flags,      \* cancel_registry._cancelled
    pc,         \* the request that runs the report
    origin,     \* parent_report_id and branch_from_section of the request
    todo,       \* sections its loop has not started
    cur,        \* the section being run, 0 for none
    results,    \* section_results: the status per section, "none" if absent
    cpc,        \* the cancel request of the report
    acked,      \* history: reports whose cancellation was confirmed
    mustStop,   \* history: flagged with another check of the flag ahead
    overlapped, \* history: two starts were between count and insert
    restarts

dbVars     == <<row, section, done>>
runnerVars == <<pc, origin, todo, cur, results>>
cancelVars == <<flags, cpc, acked, mustStop>>
vars == <<dbVars, runnerVars, cancelVars, overlapped, restarts>>

None == "none"
Indexes == 1..MaxSections
Outcomes == {"success", "degraded", "fail"}
FinalStatuses == {"success", "partial", "fail"}
NoOrigin == [parent |-> None, fork |-> 0]

\* The request ended by itself / by an exception or with its process.
Finished == {"refused", "cancelled", "no_results", "finished"}
Dead == {"raised", "pdf_failed", "gone"}
Active == {"planning", "created", "head", "section", "save", "stopping",
           "synthesis", "export", "finish"}

Init ==
    /\ row = [r \in Reports |-> None]
    /\ section = [r \in Reports |-> [i \in Indexes |-> None]]
    /\ done = [r \in Reports |-> 0]
    /\ flags = {}
    /\ pc = [r \in Reports |-> "idle"]
    /\ origin = [r \in Reports |-> NoOrigin]
    /\ todo = [r \in Reports |-> {}]
    /\ cur = [r \in Reports |-> 0]
    /\ results = [r \in Reports |-> [i \in Indexes |-> None]]
    /\ cpc = [r \in Reports |-> "idle"]
    /\ acked = {} /\ mustStop = {} /\ overlapped = FALSE /\ restarts = 0

----------------------------------------------------------------------------
(* Starting a report *)

Running == {r \in Reports : row[r] = "running"}
Planning == {r \in Reports : pc[r] = "planning"}

\* Mutant of BelowLimit: one report too many.
BelowLimitOffByOne == Cardinality(Running) <= MaxConcurrent
BelowLimit == Cardinality(Running) < MaxConcurrent

\* Mutant of InheritedStatus: sections that were never run come along.
InheritedStatusAsIs(status) == status
InheritedStatus(status) ==
    CASE status = None -> None
      [] status \in {"success", "degraded"} -> status
      [] status \in {"pending", "fail"} -> "success"

\* _load_branch_inherited: the parent's sections in front of the fork.
Inherited(o) ==
    [i \in Indexes |->
        IF o.parent # None /\ i < o.fork
        THEN InheritedStatus(section[o.parent][i]) ELSE None]

Origins == {NoOrigin} \cup
    [parent : {p \in Reports : row[p] # None}, fork : Indexes]

\* The reads of the request share the snapshot of its first query.
Open(r) ==
    /\ pc[r] = "idle"
    /\ \E o \in Origins :
        IF BelowLimit
        THEN /\ pc' = [pc EXCEPT ![r] = "planning"]
             /\ origin' = [origin EXCEPT ![r] = o]
             /\ results' = [results EXCEPT ![r] = Inherited(o)]
             /\ overlapped' = (overlapped \/ Planning # {})
        ELSE /\ pc' = [pc EXCEPT ![r] = "refused"]
             /\ UNCHANGED <<origin, results, overlapped>>
    /\ UNCHANGED <<dbVars, cancelVars, todo, cur, restarts>>

\* PARENT_NOT_FOUND, or DB_ERROR after a rollback.
StartFails(r) ==
    /\ pc[r] = "planning"
    /\ pc' = [pc EXCEPT ![r] = "refused"]
    /\ UNCHANGED <<dbVars, cancelVars, origin, todo, cur, results, overlapped,
                   restarts>>

Counted(sections) == Cardinality({i \in Indexes : sections[i] \in {"success", "fail"}})

\* The sections to run: the planner returns at least one, but none may be
\* behind the fork.
Plans(r) ==
    IF \A i \in Indexes : results[r][i] = None
    THEN (SUBSET Indexes) \ {{}}
    ELSE SUBSET {i \in Indexes : i >= origin[r].fork}

\* create_report ('pending'), update_report_plan ('running'),
\* insert_sections, the results of inherited sections: one transaction.
CreateReport(r) ==
    /\ pc[r] = "planning"
    /\ \E plan \in Plans(r) :
        /\ todo' = [todo EXCEPT ![r] = plan]
        /\ section' = [section EXCEPT ![r] =
               [i \in Indexes |-> IF i \in plan THEN "pending" ELSE results[r][i]]]
    /\ row' = [row EXCEPT ![r] = "running"]
    /\ done' = [done EXCEPT ![r] = Counted(results[r])]
    /\ pc' = [pc EXCEPT ![r] = "created"]
    /\ UNCHANGED <<cancelVars, origin, cur, results, overlapped, restarts>>

\* clear_cancel before the first event.
ClearOldFlag(r) ==
    /\ pc[r] = "created"
    /\ flags' = flags \ {r}
    /\ pc' = [pc EXCEPT ![r] = "head"]
    /\ UNCHANGED <<dbVars, cpc, acked, mustStop, origin, todo, cur, results,
                   overlapped, restarts>>

----------------------------------------------------------------------------
(* The loop over the sections *)

LoopHead(r) == pc[r] = "head" /\ todo[r] # {}

StopCancelled(r) ==
    /\ LoopHead(r)
    /\ r \in flags
    /\ row' = [row EXCEPT ![r] = "cancelled"]
    /\ pc' = [pc EXCEPT ![r] = "stopping"]
    /\ UNCHANGED <<section, done, cancelVars, origin, todo, cur, results,
                   overlapped, restarts>>

ReportCancelled(r) ==
    /\ pc[r] = "stopping"
    /\ flags' = flags \ {r}
    /\ pc' = [pc EXCEPT ![r] = "cancelled"]
    /\ UNCHANGED <<dbVars, cpc, acked, mustStop, origin, todo, cur, results,
                   overlapped, restarts>>

\* After the loop the flag is dropped; without results the request ends.
LeaveLoop(r) ==
    /\ flags' = flags \ {r}
    /\ pc' = [pc EXCEPT ![r] =
          IF \A i \in Indexes : results[r][i] = None THEN "no_results"
                                                      ELSE "synthesis"]
    /\ UNCHANGED <<dbVars, cpc, acked, mustStop, origin, todo, cur, results,
                   overlapped, restarts>>

\* Mutant of TotalTimeout: the clock is looked at before the flag.
TotalTimeoutFirst(r) == LoopHead(r) /\ LeaveLoop(r)

\* The break on TOTAL_TIMEOUT; the time itself is not modelled.
TotalTimeout(r) == LoopHead(r) /\ r \notin flags /\ LeaveLoop(r)

LoopEnds(r) == pc[r] = "head" /\ todo[r] = {} /\ LeaveLoop(r)

\* Mutant of StartSection: the section stays in the list of the loop.
StartSectionAgain(r) ==
    /\ LoopHead(r)
    /\ r \notin flags
    /\ \E i \in todo[r] :
        /\ \A j \in todo[r] : i <= j
        /\ cur' = [cur EXCEPT ![r] = i]
    /\ pc' = [pc EXCEPT ![r] = "section"]
    /\ UNCHANGED <<dbVars, cancelVars, origin, todo, results, overlapped,
                   restarts>>

StartSection(r) ==
    /\ LoopHead(r)
    /\ r \notin flags
    /\ \E i \in todo[r] :
        /\ \A j \in todo[r] : i <= j
        /\ cur' = [cur EXCEPT ![r] = i]
        /\ todo' = [todo EXCEPT ![r] = @ \ {i}]
    /\ pc' = [pc EXCEPT ![r] = "section"]
    /\ UNCHANGED <<dbVars, cancelVars, origin, results, overlapped, restarts>>

\* The ask of the section: errors and timeouts become "fail".
SectionAsk(r) ==
    /\ pc[r] = "section"
    /\ \E outcome \in Outcomes :
        results' = [results EXCEPT ![r][cur[r]] = outcome]
    /\ pc' = [pc EXCEPT ![r] = "save"]
    /\ UNCHANGED <<dbVars, cancelVars, origin, todo, cur, overlapped, restarts>>

\* update_section_result with the recount of section_done, and the commit.
SaveSection(r) ==
    /\ pc[r] = "save"
    /\ section' = [section EXCEPT ![r][cur[r]] = results[r][cur[r]]]
    /\ done' = [done EXCEPT ![r] = Counted(section'[r])]
    /\ cur' = [cur EXCEPT ![r] = 0]
    /\ pc' = [pc EXCEPT ![r] = "head"]
    /\ UNCHANGED <<row, cancelVars, origin, todo, results, overlapped, restarts>>

----------------------------------------------------------------------------
(* The end of a report *)

Synthesize(r) ==
    /\ pc[r] = "synthesis"
    /\ pc' = [pc EXCEPT ![r] = "export"]
    /\ UNCHANGED <<dbVars, cancelVars, origin, todo, cur, results, overlapped,
                   restarts>>

\* export_report_pdf; nothing catches its exception.
ExportPdf(r) ==
    /\ pc[r] = "export"
    /\ \E next \in {"finish", "pdf_failed"} : pc' = [pc EXCEPT ![r] = next]
    /\ UNCHANGED <<dbVars, cancelVars, origin, todo, cur, results, overlapped,
                   restarts>>

\* Mutant of FinalStatus: one success makes the report a success.
FinalStatusAnySuccess(statuses) ==
    IF "success" \in statuses THEN "success" ELSE "fail"

FinalStatus(statuses) ==
    IF statuses = {"success"} THEN "success"
    ELSE IF "success" \in statuses THEN "partial" ELSE "fail"

\* finish_report, whatever the status is by now.
FinishReport(r) ==
    /\ pc[r] = "finish"
    /\ row' = [row EXCEPT ![r] =
           FinalStatus({results[r][i] : i \in Indexes} \ {None})]
    /\ pc' = [pc EXCEPT ![r] = "finished"]
    /\ UNCHANGED <<section, done, cancelVars, origin, todo, cur, results,
                   overlapped, restarts>>

\* An exception of the database or of the synthesis leaves the generator.
Raise(r) ==
    /\ \/ pc[r] \in {"save", "synthesis", "finish"}
       \/ LoopHead(r) /\ r \in flags
    /\ pc' = [pc EXCEPT ![r] = "raised"]
    /\ UNCHANGED <<dbVars, cancelVars, origin, todo, cur, results, overlapped,
                   restarts>>

\* The client of a streamed report is gone: the task is cancelled.
Disconnect(r) ==
    /\ pc[r] \in Active
    /\ pc' = [pc EXCEPT ![r] = "gone"]
    /\ UNCHANGED <<dbVars, cancelVars, origin, todo, cur, results, overlapped,
                   restarts>>

----------------------------------------------------------------------------
(* The cancel endpoint *)

\* get_report; any other status is answered with NOT_CANCELLABLE.
CancelRead(r) ==
    /\ cpc[r] = "idle"
    /\ row[r] = "running"
    /\ cpc' = [cpc EXCEPT ![r] = "checked"]
    /\ UNCHANGED <<dbVars, runnerVars, flags, acked, mustStop, overlapped,
                   restarts>>

\* The loop will look at the flag again.
CheckAhead(r) == todo[r] # {} /\ pc[r] \in {"head", "section", "save"}

RequestCancel(r) ==
    /\ cpc[r] = "checked"
    /\ flags' = flags \cup {r}
    /\ mustStop' = IF CheckAhead(r) THEN mustStop \cup {r} ELSE mustStop
    /\ cpc' = [cpc EXCEPT ![r] = "flagged"]
    /\ UNCHANGED <<dbVars, runnerVars, acked, overlapped, restarts>>

\* mark_report_cancelled, commit and the answer.
CommitCancel(r) ==
    /\ cpc[r] = "flagged"
    /\ row' = [row EXCEPT ![r] = "cancelled"]
    /\ acked' = acked \cup {r}
    /\ cpc' = [cpc EXCEPT ![r] = "idle"]
    /\ UNCHANGED <<section, done, runnerVars, flags, mustStop, overlapped,
                   restarts>>

CancelFails(r) ==
    /\ cpc[r] \in {"checked", "flagged"}
    /\ cpc' = [cpc EXCEPT ![r] = "idle"]
    /\ UNCHANGED <<dbVars, runnerVars, flags, acked, mustStop, overlapped,
                   restarts>>

----------------------------------------------------------------------------

\* The process ends with all requests; the registry is empty afterwards.
Restart ==
    /\ restarts < MaxRestarts
    /\ restarts' = restarts + 1
    /\ pc' = [r \in Reports |-> IF pc[r] \in Active THEN "gone" ELSE pc[r]]
    /\ cpc' = [r \in Reports |-> "idle"]
    /\ flags' = {}
    /\ UNCHANGED <<dbVars, origin, todo, cur, results, acked, mustStop,
                   overlapped>>

RunnerStep(r) ==
    \/ StartFails(r) \/ CreateReport(r) \/ ClearOldFlag(r)
    \/ StopCancelled(r) \/ ReportCancelled(r) \/ TotalTimeout(r) \/ LoopEnds(r)
    \/ StartSection(r) \/ SectionAsk(r) \/ SaveSection(r)
    \/ Synthesize(r) \/ ExportPdf(r) \/ FinishReport(r) \/ Raise(r)

CancelStep(r) ==
    CancelRead(r) \/ RequestCancel(r) \/ CommitCancel(r) \/ CancelFails(r)

Next ==
    \/ \E r \in Reports :
        Open(r) \/ RunnerStep(r) \/ Disconnect(r) \/ CancelStep(r)
    \/ Restart

Spec == Init /\ [][Next]_vars

----------------------------------------------------------------------------
(* Properties *)

\* Types, and which status a report row can have at which point of its
\* request: only an insert (create_report) makes a row.
TypeOK ==
    /\ row \in [Reports -> {None, "running", "cancelled"} \cup FinalStatuses]
    /\ section \in [Reports -> [Indexes -> {None, "pending"} \cup Outcomes]]
    /\ done \in [Reports -> 0..MaxSections]
    /\ flags \in SUBSET Reports
    /\ pc \in [Reports -> {"idle"} \cup Active \cup Finished \cup Dead]
    /\ origin \in [Reports -> [parent : Reports \cup {None}, fork : 0..MaxSections]]
    /\ todo \in [Reports -> SUBSET Indexes]
    /\ cur \in [Reports -> 0..MaxSections]
    /\ results \in [Reports -> [Indexes -> {None} \cup Outcomes]]
    /\ cpc \in [Reports -> {"idle", "checked", "flagged"}]
    /\ acked \in SUBSET Reports /\ mustStop \in SUBSET Reports
    /\ overlapped \in BOOLEAN /\ restarts \in 0..MaxRestarts

\* As long as no two requests were between count_running_reports and the
\* insert at the same time, a user never has more running reports than
\* research_max_concurrent_per_user.
LimitUnlessStartsOverlap ==
    overlapped \/ Cardinality(Running) <= MaxConcurrent

\* A cancellation that sets the flag while the loop still has a check of it
\* ahead stops the report: it is never synthesised or finished, whatever
\* timeouts and restarts happen, and when its request ends the row says so.
CancelIsSeen ==
    \A r \in mustStop :
        /\ pc[r] \notin {"synthesis", "export", "finish", "finished", "no_results"}
        /\ pc[r] \in {"stopping", "cancelled"} => row[r] = "cancelled"

Recorded(r) == {i \in Indexes : section[r][i] \in Outcomes}

\* The final status of a report and its section_done column agree with what
\* the rows of its sections say, inherited ones included.
StatusFitsSections ==
    \A r \in Reports :
        LET statuses == {section[r][i] : i \in Recorded(r)}
        IN  /\ row[r] = "success" => /\ statuses = {"success"}
                                     /\ done[r] = Cardinality(Recorded(r))
            /\ row[r] = "partial" => "success" \in statuses /\ statuses # {"success"}
            /\ row[r] = "fail" => "success" \notin statuses /\ statuses # {}

\* An upper bound on the steps the request of a report has before it.
Ahead(r) ==
    CASE pc[r] = "planning"  -> 3 * MaxSections + 6
      [] pc[r] = "created"   -> 3 * Cardinality(todo[r]) + 5
      [] pc[r] = "head"      -> 3 * Cardinality(todo[r]) + 4
      [] pc[r] = "section"   -> 3 * Cardinality(todo[r]) + 6
      [] pc[r] = "save"      -> 3 * Cardinality(todo[r]) + 5
      [] pc[r] = "synthesis" -> 3
      [] pc[r] = "export"    -> 2
      [] pc[r] \in {"stopping", "finish"} -> 1
      [] OTHER -> 0

\* Every step of a running request brings it nearer to its end, whatever the
\* cancellation, the other requests, a failure, a disconnect or a restart do
\* in between: a report never starts a section twice and never goes back, so
\* it is over after at most 3 * MaxSections + 6 steps of its generator.
ReportAdvances ==
    [][\A r \in Reports : pc[r] \in Active =>
          \/ UNCHANGED <<pc[r], origin[r], todo[r], cur[r], results[r]>>
          \/ Ahead(r)' < Ahead(r)]_vars

\* docs/15-DEEP_ANALYTICS_REPORT_PLAN.md:1367, research_max_concurrent_per_user:
\* the limit holds for all requests.  The code violates it, see the README.
LimitHolds == Cardinality(Running) <= MaxConcurrent

\* docs/15-DEEP_ANALYTICS_REPORT_PLAN.md:1193, cancel_report: a confirmed
\* cancellation has interrupted the report.  The code violates it, see the README.
ConfirmedCancelIsFinal == \A r \in acked : row[r] = "cancelled"

=============================================================================
