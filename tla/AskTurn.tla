------------------------------- MODULE AskTurn -------------------------------
(***************************************************************************)
(* One ask request from its HTTP call to its end: agent/runner.py with the *)
(* writes of observability/tracer.py and memory/session_service.py, the    *)
(* graph worker of a streamed request, the cancel endpoint, clients that   *)
(* disconnect, database errors and a server crash.  What the graph does    *)
(* inside (AskPipeline) appears only as node steps that end in a status.   *)
(*                                                                         *)
(* The copilot database is MySQL at its default REPEATABLE READ: a plain   *)
(* SELECT sees the snapshot of the transaction's first read, an UPDATE     *)
(* sees the newest committed row and locks it until the transaction ends.  *)
(***************************************************************************)
EXTENDS Naturals, Sequences

CONSTANTS
  Turns,          \* trace ids; each is used by one request (uk_trace)
  Streamed,       \* the requests with options.stream = true
  MemoryEnabled,  \* settings.session_memory_enabled
  MaxNodes,       \* bound: graph nodes a run executes before format_answer
  MaxFaults       \* bound: faults (errors, disconnects, timeouts, crashes)

ASSUME AskTurnAssumption ==
  /\ Streamed \subseteq Turns
  /\ MemoryEnabled \in BOOLEAN
  /\ MaxNodes \in Nat
  /\ MaxFaults \in Nat

VARIABLES
  row,        \* committed status of copilot_ask_turn
  audits,     \* committed audit rows of the turn
  counted,    \* committed increments of session.turn_count by the turn
  acked,      \* cancel endpoint answered ok
  wstatus,    \* status the request's open transaction wrote into the row
  waudit,     \* audit rows it wrote
  wcount,     \* increments of turn_count it wrote
  view,       \* status its first SELECT saw, repeated by later SELECTs
  stage,      \* where the request's own coroutine is
  late,       \* finalizing inside the GraphRecursionError handler
  worker,     \* _astream_worker, or ainvoke's graph for a plain request
  nodes,      \* graph nodes executed
  outq,       \* out_q of a streamed request
  acc,        \* "status" of the accumulated graph state
  resp,       \* what the client received
  why,        \* first fault that hit the request
  faults      \* faults so far, bounded by MaxFaults

db == <<row, audits, counted, acked>>
run == <<late, worker, nodes, outq, acc>>
tx == <<wstatus, waudit, wcount, view>>
vars == <<row, audits, counted, acked, wstatus, waudit, wcount, view, stage, late, worker,
          nodes, outq, acc, resp, why, faults>>

None == "none"

Ledger == INSTANCE TurnLedger
            WITH Turns <- Turns, row <- row, audits <- audits,
                 counted <- counted, acked <- acked

Outcomes == Ledger!Outcomes
Statuses == Ledger!Statuses

\* Stages of _finalize_ask_run, in the order of its awaits.
FinStages == {"fin_check", "fin_update", "fin_audit", "fin_session",
              "fin_clear", "fin_commit", "fin_summary"}

Stages == FinStages \union
  {"idle", "prepared", "running", "final_check", "deliver", "fatal",
   "fatal_iso", "ucancel", "cleanup", "done", "dead"}

Over(t) == stage[t] \in {"done", "dead"}

\* finish_turn and finish_turn_user_cancelled wait for the row's lock; a
\* transaction holds it from its UPDATE to its end.
Locked(t) == wstatus[t] # None

\* The status a locking UPDATE of the request's own session finds.
Current(t) == IF Locked(t) THEN wstatus[t] ELSE row[t]

\* The status a plain SELECT of the request's own session finds.
Visible(t) == IF Locked(t) THEN wstatus[t]
              ELSE IF view[t] # None THEN view[t] ELSE row[t]

Init ==
  /\ row = [t \in Turns |-> "absent"]
  /\ audits = [t \in Turns |-> 0]
  /\ counted = [t \in Turns |-> 0]
  /\ acked = [t \in Turns |-> FALSE]
  /\ wstatus = [t \in Turns |-> None]
  /\ waudit = [t \in Turns |-> 0]
  /\ wcount = [t \in Turns |-> 0]
  /\ view = [t \in Turns |-> None]
  /\ stage = [t \in Turns |-> "idle"]
  /\ late = [t \in Turns |-> FALSE]
  /\ worker = [t \in Turns |-> "off"]
  /\ nodes = [t \in Turns |-> 0]
  /\ outq = [t \in Turns |-> <<>>]
  /\ acc = [t \in Turns |-> None]
  /\ resp = [t \in Turns |-> None]
  /\ why = [t \in Turns |-> None]
  /\ faults = 0

-----------------------------------------------------------------------------
(* Building blocks *)

Goto(t, s) == stage' = [stage EXCEPT ![t] = s]

\* The request's session has no open transaction any more.
Rollback(t) ==
  /\ wstatus' = [wstatus EXCEPT ![t] = None]
  /\ waudit' = [waudit EXCEPT ![t] = 0]
  /\ wcount' = [wcount EXCEPT ![t] = 0]
  /\ view' = [view EXCEPT ![t] = None]

\* Commit of the request's session.
Commit(t) ==
  /\ row' = [row EXCEPT ![t] = Current(t)]
  /\ audits' = [audits EXCEPT ![t] = @ + waudit[t]]
  /\ counted' = [counted EXCEPT ![t] = @ + wcount[t]]
  /\ Rollback(t)
  /\ UNCHANGED acked

\* The request's open transaction holds no write.
Unwritten(t) == wstatus[t] = None /\ waudit[t] = 0 /\ wcount[t] = 0

\* Mutants of FinishTurn: without its WHERE clause, and one that writes the
\* status it found back into the row.
FinishTurnUnguarded(t, s) == wstatus' = [wstatus EXCEPT ![t] = s]

FinishTurnWritesBack(t, s) ==
  wstatus' = [wstatus EXCEPT ![t] = IF Current(t) = "cancelled" THEN "cancelled" ELSE s]

\* A statement of finish_turn: "SET status = s WHERE status != 'cancelled'".
FinishTurn(t, s) ==
  wstatus' = [wstatus EXCEPT ![t] = IF Current(t) = "cancelled" THEN @ ELSE s]

Fault(t, reason) ==
  /\ faults < MaxFaults
  /\ faults' = faults + 1
  /\ why' = [why EXCEPT ![t] = IF @ = None THEN reason ELSE @]

NoFault == UNCHANGED <<why, faults>>

-----------------------------------------------------------------------------
(* _prepare_ask_run *)

\* insert_turn_start and upsert_on_ask(success=False), committed together.
InsertTurnStart(t) ==
  /\ stage[t] = "idle"
  /\ row[t] = "absent"
  /\ row' = [row EXCEPT ![t] = "pending"]
  /\ Goto(t, "prepared")
  /\ UNCHANGED <<audits, counted, acked, tx, run, resp>>
  /\ NoFault

\* refresh_allowed_tables and load_effective_policy read with the request's
\* session: their first SELECT opens the transaction and fixes its view.
LoadPolicy(t) ==
  /\ stage[t] = "prepared"
  /\ view' = [view EXCEPT ![t] = row[t]]
  /\ worker' = [worker EXCEPT ![t] = "node"]
  /\ Goto(t, "running")
  /\ UNCHANGED <<db, wstatus, waudit, wcount, late, nodes, outq, acc, resp>>
  /\ NoFault

\* A PolicyError or a database error there is outside every try block: the
\* request fails and nobody finishes the row.
PrepareRaises(t) ==
  /\ stage[t] = "prepared"
  /\ Fault(t, "prepare")
  /\ resp' = [resp EXCEPT ![t] = "error"]
  /\ Goto(t, "done")
  /\ UNCHANGED <<db, tx, run>>

-----------------------------------------------------------------------------
(* The graph: ainvoke, or astream inside _astream_worker *)

Put(t, items) == outq' = [outq EXCEPT ![t] = @ \o items]

\* A node reads with the shared session, and may commit it
\* (save_pending_clarification does): then the view is gone.
NodeTouchesSession(t) ==
  /\ \E seen \in {None, IF view[t] = None THEN row[t] ELSE view[t]} :
       view' = [view EXCEPT ![t] = seen]
  /\ UNCHANGED <<wstatus, waudit, wcount>>

\* One node before format_answer; a streamed run queues its chunk.
GraphNode(t) ==
  /\ worker[t] = "node"
  /\ nodes[t] < MaxNodes
  /\ nodes' = [nodes EXCEPT ![t] = @ + 1]
  /\ NodeTouchesSession(t)
  /\ IF t \in Streamed
     THEN /\ Put(t, <<[kind |-> "chunk", status |-> None]>>)
          /\ worker' = [worker EXCEPT ![t] = "check"]
     ELSE UNCHANGED <<outq, worker>>
  /\ UNCHANGED <<db, stage, late, acc, resp>>
  /\ NoFault

\* format_answer decides the status and the graph ends.
GraphEnd(t, s) ==
  /\ worker[t] = "node"
  /\ IF t \in Streamed
     THEN /\ Put(t, <<[kind |-> "chunk", status |-> s]>>)
          /\ worker' = [worker EXCEPT ![t] = "last"]
          /\ UNCHANGED <<acc, stage>>
     ELSE /\ acc' = [acc EXCEPT ![t] = s]
          /\ worker' = [worker EXCEPT ![t] = "off"]
          /\ Goto(t, "fin_check")
          /\ UNCHANGED outq
  /\ UNCHANGED <<db, tx, late, nodes, resp>>
  /\ NoFault

\* A node, or a status check of the worker, raises PolicyError or another
\* exception ("error"), or the graph exceeds recursion_limit ("recursion").
GraphRaises(t, kind) ==
  /\ \/ worker[t] = "node"
     \/ kind = "error" /\ worker[t] \in {"check", "last"}
  /\ worker' = [worker EXCEPT ![t] = "off"]
  /\ IF t \in Streamed
     THEN /\ Put(t, <<[kind |-> kind, status |-> None], [kind |-> "end", status |-> None]>>)
          /\ UNCHANGED <<stage, acc>>
     ELSE /\ Goto(t, IF kind = "recursion" THEN "fin_check" ELSE "fatal")
          /\ acc' = [acc EXCEPT ![t] = "fail"]
          /\ UNCHANGED outq
  /\ UNCHANGED <<db, tx, late, nodes, resp>>
  /\ NoFault

\* Mutant of WorkerCheck: a cancelled worker leaves without its "end".
WorkerCheckSilent(t) ==
  /\ worker[t] \in {"check", "last"}
  /\ IF row[t] = "cancelled"
     THEN worker' = [worker EXCEPT ![t] = "off"] /\ UNCHANGED outq
     ELSE IF worker[t] = "last"
     THEN worker' = [worker EXCEPT ![t] = "off"] /\ Put(t, <<[kind |-> "end", status |-> None]>>)
     ELSE worker' = [worker EXCEPT ![t] = "node"] /\ UNCHANGED outq
  /\ UNCHANGED <<db, tx, stage, late, nodes, acc, resp>>
  /\ NoFault

\* After each chunk the worker reads the status in a session of its own and
\* stops when the turn is cancelled; its finally puts "end".
WorkerCheck(t) ==
  /\ worker[t] \in {"check", "last"}
  /\ IF worker[t] = "last" \/ row[t] = "cancelled"
     THEN /\ Put(t, <<[kind |-> "end", status |-> None]>>)
          /\ worker' = [worker EXCEPT ![t] = "off"]
     ELSE /\ worker' = [worker EXCEPT ![t] = "node"]
          /\ UNCHANGED outq
  /\ UNCHANGED <<db, tx, stage, late, nodes, acc, resp>>
  /\ NoFault

-----------------------------------------------------------------------------
(* The main loop of stream_ask_graph *)

Receives(t, kind) ==
  /\ t \in Streamed
  /\ stage[t] = "running"
  /\ outq[t] # <<>>
  /\ Head(outq[t]).kind = kind
  /\ outq' = [outq EXCEPT ![t] = Tail(@)]

\* A chunk is dropped, and the loop left, when the turn is already cancelled;
\* otherwise it is merged into the accumulated state.
ReceiveChunk(t) ==
  /\ Receives(t, "chunk")
  /\ IF row[t] = "cancelled"
     THEN /\ Goto(t, "final_check")
          /\ UNCHANGED acc
     ELSE /\ acc' = [acc EXCEPT ![t] = IF Head(outq[t]).status = None
                                       THEN @ ELSE Head(outq[t]).status]
          /\ UNCHANGED stage
  /\ UNCHANGED <<db, tx, late, worker, nodes, resp>>
  /\ NoFault

ReceiveEnd(t) ==
  /\ Receives(t, "end")
  /\ Goto(t, "final_check")
  /\ UNCHANGED <<db, tx, late, worker, nodes, acc, resp>>
  /\ NoFault

\* "raise payload": the exception handlers take over.
ReceiveError(t) ==
  /\ \/ /\ Receives(t, "error")
        /\ Goto(t, "fatal")
        /\ UNCHANGED <<late, acc>>
     \/ /\ Receives(t, "recursion")
        /\ Goto(t, "fin_check")
        /\ late' = [late EXCEPT ![t] = TRUE]
        /\ acc' = [acc EXCEPT ![t] = "fail"]
  /\ UNCHANGED <<db, tx, worker, nodes, resp>>
  /\ NoFault

\* The check after the loop, again in a session of its own.
FinalCheck(t) ==
  /\ stage[t] = "final_check"
  /\ IF row[t] = "cancelled"
     THEN /\ resp' = [resp EXCEPT ![t] = "cancelled"]
          /\ Goto(t, "cleanup")
     ELSE /\ Goto(t, "fin_check")
          /\ UNCHANGED resp
  /\ UNCHANGED <<db, tx, run>>
  /\ NoFault

-----------------------------------------------------------------------------
(* _finalize_ask_run *)

\* final_state.get("status") or "fail"
Status(t) == IF acc[t] = None THEN "fail" ELSE acc[t]

\* The cancel check reads with the request's own session, so inside an open
\* transaction it sees that transaction's view.
FinalizeCheck(t) ==
  /\ stage[t] = "fin_check"
  /\ IF Visible(t) = "cancelled"
     THEN /\ resp' = [resp EXCEPT ![t] = "cancelled"]
          /\ Goto(t, "deliver")
     ELSE /\ Goto(t, "fin_update")
          /\ UNCHANGED resp
  /\ view' = [view EXCEPT ![t] = Visible(t)]
  /\ UNCHANGED <<db, wstatus, waudit, wcount, run>>
  /\ NoFault

\* Mutant of FinalizeUpdate: finish_turn commits on its own.
FinalizeUpdateAutocommit(t) ==
  /\ stage[t] = "fin_update"
  /\ row' = [row EXCEPT ![t] = IF @ = "cancelled" THEN @ ELSE Status(t)]
  /\ Goto(t, "fin_audit")
  /\ UNCHANGED <<audits, counted, acked, tx, run, resp>>
  /\ NoFault

FinalizeUpdate(t) ==
  /\ stage[t] = "fin_update"
  /\ FinishTurn(t, Status(t))
  /\ Goto(t, "fin_audit")
  /\ UNCHANGED <<db, waudit, wcount, view, run, resp>>
  /\ NoFault

InsertAudit(t) ==
  /\ stage[t] = "fin_audit"
  /\ waudit' = [waudit EXCEPT ![t] = @ + 1]
  /\ Goto(t, IF Status(t) = "success" THEN "fin_session" ELSE "fin_commit")
  /\ UNCHANGED <<db, wstatus, wcount, view, run, resp>>
  /\ NoFault

\* upsert_on_ask(success=True)
UpsertOnAsk(t) ==
  /\ stage[t] = "fin_session"
  /\ wcount' = [wcount EXCEPT ![t] = @ + 1]
  /\ Goto(t, IF MemoryEnabled THEN "fin_clear" ELSE "fin_commit")
  /\ UNCHANGED <<db, wstatus, waudit, view, run, resp>>
  /\ NoFault

\* clear_pending_clarification commits the session itself, and swallows its
\* errors: a failed statement leaves the transaction as it was, a deadlock
\* makes the server roll all of it back.
ClearPendingClarification(t) ==
  /\ stage[t] = "fin_clear"
  /\ \/ Commit(t) /\ NoFault
     \/ UNCHANGED <<db, tx>> /\ Fault(t, "db")
     \/ UNCHANGED db /\ Rollback(t) /\ Fault(t, "db")
  /\ Goto(t, "fin_commit")
  /\ UNCHANGED <<run, resp>>

\* Mutant of FinalizeCommit: the commit is forgotten.
FinalizeNoCommit(t) ==
  /\ stage[t] = "fin_commit"
  /\ resp' = [resp EXCEPT ![t] = Status(t)]
  /\ Goto(t, "deliver")
  /\ UNCHANGED <<db, tx, run>>
  /\ NoFault

FinalizeCommit(t) ==
  /\ stage[t] = "fin_commit"
  /\ Commit(t)
  /\ IF Status(t) = "success" /\ MemoryEnabled
     THEN Goto(t, "fin_summary") /\ UNCHANGED resp
     ELSE Goto(t, "deliver") /\ resp' = [resp EXCEPT ![t] = Status(t)]
  /\ UNCHANGED run
  /\ NoFault

\* load_session_memory, update_session_summary and their commit touch other
\* rows only.
UpdateSessionSummary(t) ==
  /\ stage[t] = "fin_summary"
  /\ resp' = [resp EXCEPT ![t] = Status(t)]
  /\ Goto(t, "deliver")
  /\ UNCHANGED <<db, tx, run>>
  /\ NoFault

\* A plain request returns, a streamed one resumes after its last yield.
Deliver(t) ==
  /\ stage[t] = "deliver"
  /\ Goto(t, "cleanup")
  /\ UNCHANGED <<db, tx, run, resp>>
  /\ NoFault

-----------------------------------------------------------------------------
(* Errors and their handlers *)

\* Only the try block of stream_ask_graph surrounds a finalization; it does
\* not surround the one in its own GraphRecursionError handler.
Guarded(t) == t \in Streamed /\ ~late[t]

Escape(t) ==
  /\ Rollback(t)
  /\ resp' = [resp EXCEPT ![t] = "error"]
  /\ Goto(t, "cleanup")

\* An await of the finalization raises.  The transaction survives a failed
\* statement; a failed commit or a deadlock loses it.
FinalizeRaises(t) ==
  /\ stage[t] \in FinStages \ {"fin_clear"}
  /\ Fault(t, "db")
  /\ IF Guarded(t)
     THEN /\ Goto(t, "fatal")
          /\ \/ Rollback(t)
             \/ stage[t] # "fin_commit" /\ UNCHANGED tx
          /\ UNCHANGED resp
     ELSE Escape(t)
  /\ UNCHANGED <<db, run>>

\* A status check of the main loop raises.
LoopRaises(t) ==
  /\ t \in Streamed
  /\ stage[t] \in {"running", "final_check"}
  /\ Fault(t, "db")
  /\ Goto(t, "fatal")
  /\ UNCHANGED <<db, tx, run, resp>>

\* Mutant of FinishTurnOnFatal: only the client hears of the error.
FatalOnlyResponds(t) ==
  /\ stage[t] = "fatal"
  /\ Escape(t)
  /\ UNCHANGED <<db, run>>
  /\ NoFault

\* _finish_turn_on_fatal: finish_turn(fail) and commit in the session at
\* hand, with whatever the interrupted finalization left in it.
FinishTurnOnFatal(t) ==
  /\ stage[t] = "fatal"
  /\ row' = [row EXCEPT ![t] = IF Current(t) = "cancelled" THEN @ ELSE "fail"]
  /\ audits' = [audits EXCEPT ![t] = @ + waudit[t]]
  /\ counted' = [counted EXCEPT ![t] = @ + wcount[t]]
  /\ Rollback(t)
  /\ resp' = [resp EXCEPT ![t] = "error"]
  /\ Goto(t, "cleanup")
  /\ UNCHANGED <<acked, run>>
  /\ NoFault

\* That failed: rollback, then again in an independent session.
FatalFallsBack(t) ==
  /\ stage[t] = "fatal"
  /\ Fault(t, "db")
  /\ Rollback(t)
  /\ Goto(t, "fatal_iso")
  /\ UNCHANGED <<db, run, resp>>

FinishTurnIsolated(t) ==
  /\ stage[t] = "fatal_iso"
  /\ row' = [row EXCEPT ![t] = IF @ = "cancelled" THEN @ ELSE "fail"]
  /\ resp' = [resp EXCEPT ![t] = "error"]
  /\ Goto(t, "cleanup")
  /\ UNCHANGED <<audits, counted, acked, tx, run>>
  /\ NoFault

FatalLost(t) ==
  /\ stage[t] = "fatal_iso"
  /\ Fault(t, "db")
  /\ Escape(t)
  /\ UNCHANGED <<db, run>>

-----------------------------------------------------------------------------
(* Clients that go away, timeouts, crashes, and the end of a request *)

\* The client of a streamed request disconnects: the await the request is
\* suspended at raises CancelledError.  A cancelled database await loses its
\* transaction.  Inside the try block the user-cancel handler runs.
Disconnect(t) ==
  /\ t \in Streamed
  /\ stage[t] \in FinStages \union {"running", "final_check", "deliver", "fatal", "fatal_iso", "ucancel"}
  /\ Fault(t, "disconnect")
  /\ IF stage[t] \in {"running", "final_check"} THEN UNCHANGED tx ELSE Rollback(t)
  /\ IF stage[t] \in {"fatal", "fatal_iso", "ucancel"} \/ late[t]
     THEN Goto(t, "cleanup")
     ELSE Goto(t, "ucancel")
  /\ UNCHANGED <<db, run, resp>>

\* Mutant of FinishTurnOnUserCancel: finished turns are cancelled too.
UserCancelAnyTurn(t) ==
  /\ stage[t] = "ucancel"
  /\ row' = [row EXCEPT ![t] = "cancelled"]
  /\ Rollback(t)
  /\ Goto(t, "cleanup")
  /\ UNCHANGED <<audits, counted, acked, run, resp>>
  /\ NoFault

\* _finish_turn_on_user_cancel: only a pending turn is updated, and only then
\* is the session committed.
FinishTurnOnUserCancel(t) ==
  /\ stage[t] = "ucancel"
  /\ row' = [row EXCEPT ![t] = IF @ = "pending" THEN "cancelled" ELSE @]
  /\ Rollback(t)
  /\ Goto(t, "cleanup")
  /\ UNCHANGED <<audits, counted, acked, run, resp>>
  /\ NoFault

\* The handler's own await fails: the worker still uses the session, or the
\* invalidated transaction or a repeated cancellation raises.
UserCancelLost(t) ==
  /\ stage[t] = "ucancel"
  /\ Rollback(t)
  /\ Goto(t, "cleanup")
  /\ UNCHANGED <<db, run, resp>>
  /\ NoFault

\* asyncio.wait_for around run_ask_graph (a report's section): run_ask_graph
\* does not catch CancelledError.
SubAskTimeout(t) ==
  /\ t \in Turns \ Streamed
  /\ stage[t] \in FinStages \union {"running", "fatal", "fatal_iso"}
  /\ Fault(t, "timeout")
  /\ worker' = [worker EXCEPT ![t] = "off"]
  /\ Rollback(t)
  /\ Goto(t, "cleanup")
  /\ UNCHANGED <<db, late, nodes, outq, acc, resp>>

\* Mutant of Cleanup: the worker is not cancelled.
CleanupKeepsWorker(t) ==
  /\ stage[t] = "cleanup"
  /\ Rollback(t)
  /\ Goto(t, "done")
  /\ UNCHANGED <<db, late, worker, nodes, outq, acc, resp>>
  /\ NoFault

\* The finally block cancels and awaits the worker; the dependency closes the
\* request's session, which rolls back what is open.
Cleanup(t) ==
  /\ stage[t] = "cleanup"
  /\ worker' = [worker EXCEPT ![t] = "off"]
  /\ outq' = [outq EXCEPT ![t] = <<>>]
  /\ Rollback(t)
  /\ Goto(t, "done")
  /\ UNCHANGED <<db, late, nodes, acc, resp>>
  /\ NoFault

\* The server process dies; what was not committed is gone.
Crash ==
  /\ faults < MaxFaults
  /\ faults' = faults + 1
  /\ LET hit == {t \in Turns : stage[t] # "idle" /\ ~Over(t)}
     IN /\ hit # {}
        /\ stage' = [t \in Turns |-> IF t \in hit THEN "dead" ELSE stage[t]]
        /\ worker' = [t \in Turns |-> IF t \in hit THEN "off" ELSE worker[t]]
        /\ outq' = [t \in Turns |-> IF t \in hit THEN <<>> ELSE outq[t]]
        /\ wstatus' = [t \in Turns |-> IF t \in hit THEN None ELSE wstatus[t]]
        /\ waudit' = [t \in Turns |-> IF t \in hit THEN 0 ELSE waudit[t]]
        /\ wcount' = [t \in Turns |-> IF t \in hit THEN 0 ELSE wcount[t]]
        /\ view' = [t \in Turns |-> IF t \in hit THEN None ELSE view[t]]
        /\ why' = [t \in Turns |-> IF t \in hit /\ why[t] = None THEN "crash" ELSE why[t]]
  /\ UNCHANGED <<db, late, nodes, acc, resp>>

\* POST /ask/cancel by the owner: updates a pending turn and commits, waiting
\* for the row's lock; in every other case it answers 404 and changes nothing.
CancelAskRun(t) ==
  /\ row[t] = "pending"
  /\ ~Locked(t)
  /\ row' = [row EXCEPT ![t] = "cancelled"]
  /\ acked' = [acked EXCEPT ![t] = TRUE]
  /\ UNCHANGED <<audits, counted, tx, stage, run, resp>>
  /\ NoFault

-----------------------------------------------------------------------------
\* Steps of the request's own coroutine and of the graph's task.
RunnerStep(t) ==
  \/ LoadPolicy(t)
  \/ ReceiveChunk(t) \/ ReceiveEnd(t) \/ ReceiveError(t)
  \/ FinalCheck(t) \/ FinalizeCheck(t) \/ FinalizeUpdate(t)
  \/ InsertAudit(t) \/ UpsertOnAsk(t) \/ ClearPendingClarification(t)
  \/ FinalizeCommit(t) \/ UpdateSessionSummary(t) \/ Deliver(t)
  \/ FinishTurnOnFatal(t) \/ FinishTurnIsolated(t)
  \/ FinishTurnOnUserCancel(t) \/ UserCancelLost(t)
  \/ Cleanup(t)

WorkerStep(t) ==
  \/ GraphNode(t)
  \/ \E s \in Outcomes : GraphEnd(t, s)
  \/ \E kind \in {"error", "recursion"} : GraphRaises(t, kind)
  \/ WorkerCheck(t)

FaultStep(t) ==
  \/ PrepareRaises(t) \/ FinalizeRaises(t) \/ LoopRaises(t)
  \/ FatalFallsBack(t) \/ FatalLost(t)
  \/ Disconnect(t) \/ SubAskTimeout(t)

Next ==
  \/ \E t \in Turns :
       InsertTurnStart(t) \/ RunnerStep(t) \/ WorkerStep(t) \/ FaultStep(t) \/ CancelAskRun(t)
  \/ Crash

Spec == Init /\ [][Next]_vars

\* The event loop runs every ready task; LLM and SQL calls have timeouts, so a
\* node that started ends.  Nothing forces a client to ask, cancel or leave.
Fairness == \A t \in Turns : WF_vars(RunnerStep(t)) /\ WF_vars(WorkerStep(t))

FairSpec == Spec /\ Fairness

-----------------------------------------------------------------------------
(* Properties *)

Item == [kind: {"chunk", "error", "recursion", "end"}, status: Outcomes \union {None}]

\* The type of every variable; nodes and faults stay within their bounds.
TypeOK ==
  /\ row \in [Turns -> Statuses]
  /\ audits \in [Turns -> Nat]
  /\ counted \in [Turns -> Nat]
  /\ acked \in [Turns -> BOOLEAN]
  /\ wstatus \in [Turns -> Outcomes \union {None}]
  /\ waudit \in [Turns -> Nat]
  /\ wcount \in [Turns -> Nat]
  /\ view \in [Turns -> Statuses \union {None}]
  /\ stage \in [Turns -> Stages]
  /\ late \in [Turns -> BOOLEAN]
  /\ worker \in [Turns -> {"off", "node", "check", "last"}]
  /\ nodes \in [Turns -> 0..MaxNodes]
  /\ outq \in [Turns -> Seq(Item)]
  /\ acc \in [Turns -> Outcomes \union {None}]
  /\ resp \in [Turns -> Outcomes \union {None, "cancelled", "error"}]
  /\ why \in [Turns -> {None, "prepare", "db", "disconnect", "timeout", "crash"}]
  /\ faults \in 0..MaxFaults

\* Once the cancel endpoint has answered ok, the row is cancelled for good:
\* no late finish_turn, fatal handler or isolated session brings it back.
CancelAckHonoured == \A t \in Turns : acked[t] => row[t] = "cancelled"

\* A turn gets at most one audit row and one counter increment, however its
\* finalization is interrupted and handled.
BookedOnce == \A t \in Turns : audits[t] <= 1 /\ counted[t] <= 1

\* A turn stored as success was audited and counted in its session: the three
\* writes become visible together.
SuccessIsBooked ==
  \A t \in Turns : row[t] = "success" => audits[t] = 1 /\ counted[t] = 1

\* A client that was told an outcome finds that outcome stored, unless the
\* turn was cancelled meanwhile or a swallowed database error lost the write.
ResponseBacked ==
  \A t \in Turns :
    resp[t] \in Outcomes => row[t] \in {resp[t], "cancelled"} \/ why[t] = "db"

\* A request that is over leaves no running graph, no queued frame and no
\* open transaction (so no row lock) behind.
NothingLeftBehind ==
  \A t \in Turns :
    Over(t) => worker[t] = "off" /\ outq[t] = <<>> /\ Unwritten(t)

\* A turn is left pending only by a fault of its own request: a graph error,
\* a recursion error or a fault of another request never strands it.
PendingOnlyByFault ==
  \A t \in Turns : Over(t) /\ row[t] = "pending" => why[t] # None

\* A request that is over is over as a whole: the three above together.
EndedIsWhole == ResponseBacked /\ NothingLeftBehind /\ PendingOnlyByFault

\* The strengthening that makes the safety properties inductive: what the open
\* transaction of a request may hold at each stage, and that a locked row is
\* never a cancelled one.
Unbooked(t) == row[t] \in {"pending", "cancelled"} /\ audits[t] = 0 /\ counted[t] = 0

Written(t) == \/ wstatus[t] = Status(t)
              \/ wstatus[t] = None /\ row[t] = "cancelled"

FullyWritten(t) ==
  Unbooked(t) /\ Written(t) /\ waudit[t] = 1
  /\ wcount[t] = Ledger!Increment(Status(t))

StageInv(t) ==
  /\ stage[t] = "idle" => row[t] = "absent" /\ audits[t] = 0 /\ counted[t] = 0
  /\ stage[t] # "idle" => row[t] # "absent"
  /\ stage[t] \in {"prepared", "running", "final_check", "fin_check", "fin_update"} =>
       Unbooked(t) /\ Unwritten(t)
  /\ stage[t] = "fin_audit" => Unbooked(t) /\ Written(t) /\ waudit[t] = 0 /\ wcount[t] = 0
  /\ stage[t] = "fin_session" =>
       Unbooked(t) /\ Written(t) /\ waudit[t] = 1 /\ wcount[t] = 0 /\ Status(t) = "success"
  /\ stage[t] = "fin_clear" => FullyWritten(t) /\ Status(t) = "success"
  /\ stage[t] = "fin_commit" => Unwritten(t) \/ FullyWritten(t)
  /\ stage[t] = "fatal" => 
       Unwritten(t) \/ (Unbooked(t) /\ waudit[t] <= 1 /\ wcount[t] = 0)
  /\ stage[t] \in {"idle", "fin_summary", "deliver", "fatal_iso", "ucancel", "cleanup", "done", "dead"} =>
       Unwritten(t)
  /\ worker[t] # "off" /\ t \notin Streamed => stage[t] = "running"

TurnInv(t) ==
  /\ acked[t] => row[t] = "cancelled"
  /\ Locked(t) => row[t] # "cancelled"
  /\ audits[t] <= 1 /\ counted[t] <= 1
  /\ row[t] = "success" => audits[t] = 1 /\ counted[t] = 1
  /\ StageInv(t)

BookingInv == \A t \in Turns : TurnInv(t)

\* Every transaction the code commits is one the ledger allows.
ImplementsLedger == Ledger!LedgerSpec

\* Every started request comes to its end, whatever faults hit it.
RequestEnds == \A t \in Turns : (stage[t] = "prepared") ~> Over(t)

\* Every pending turn gets a final status, unless a fault hit its request.
TurnCloses ==
  \A t \in Turns : (row[t] = "pending") ~> (row[t] # "pending" \/ why[t] # None)

\* V007__agent_memory.sql:8 "成功 turn 累计": the session counter counts the
\* turns stored as success.
CountsSuccessfulTurns ==
  \A t \in Turns : Over(t) => counted[t] = Ledger!Increment(row[t])

=============================================================================
