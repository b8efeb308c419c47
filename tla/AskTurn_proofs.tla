--------------------------- MODULE AskTurn_proofs ---------------------------
(***************************************************************************)
(* Theorems about AskTurn for every set of requests, every number of graph *)
(* nodes and every number of faults.                                       *)
(***************************************************************************)
EXTENDS AskTurn, TLAPS

USE AskTurnAssumption DEF None

\* The members of the type sets, so that the sets stay folded in the proofs.
LEMMA Members ==
  /\ "idle" \in Stages /\ "prepared" \in Stages /\ "running" \in Stages
  /\ "final_check" \in Stages /\ "deliver" \in Stages /\ "fatal" \in Stages
  /\ "fatal_iso" \in Stages /\ "ucancel" \in Stages /\ "cleanup" \in Stages
  /\ "done" \in Stages /\ "dead" \in Stages
  /\ "fin_check" \in Stages /\ "fin_update" \in Stages /\ "fin_audit" \in Stages
  /\ "fin_session" \in Stages /\ "fin_clear" \in Stages /\ "fin_commit" \in Stages
  /\ "fin_summary" \in Stages
  /\ "success" \in Outcomes /\ "fail" \in Outcomes
  /\ "pending" \in Statuses /\ "cancelled" \in Statuses /\ "absent" \in Statuses
  /\ Outcomes \subseteq Statuses
  /\ "none" \notin Outcomes /\ "cancelled" \notin Outcomes /\ "pending" \notin Outcomes
  /\ "absent" \notin Outcomes
BY DEF Stages, FinStages, Outcomes, Statuses, Ledger!Outcomes, Ledger!Statuses

\* What an UPDATE or a SELECT of the request's session finds is a status, and
\* the status of the final state is an outcome.
LEMMA ValueTypes ==
  ASSUME TypeOK, NEW t \in Turns
  PROVE  Current(t) \in Statuses /\ Visible(t) \in Statuses /\ Status(t) \in Outcomes
BY Members DEF TypeOK, Current, Visible, Locked, Status

\* Taking a frame off the queue leaves a queue, and the frame is an Item.
LEMMA QueueType ==
  ASSUME TypeOK, NEW t \in Turns, NEW kind, Receives(t, kind)
  PROVE  /\ Head(outq[t]) \in Item
         /\ outq' \in [Turns -> Seq(Item)]
<1> USE DEF TypeOK, Receives
<1>1. outq[t] \in Seq(Item) /\ outq[t] # <<>>
  OBVIOUS
<1>2. Head(outq[t]) \in Item /\ Tail(outq[t]) \in Seq(Item)
  BY <1>1
<1> QED
  BY <1>2

\* The types of the request's open transaction and of the committed rows.
TxType ==
  /\ wstatus \in [Turns -> Outcomes \union {None}]
  /\ waudit \in [Turns -> Nat]
  /\ wcount \in [Turns -> Nat]
  /\ view \in [Turns -> Statuses \union {None}]

DbType ==
  /\ row \in [Turns -> Statuses]
  /\ audits \in [Turns -> Nat]
  /\ counted \in [Turns -> Nat]
  /\ acked \in [Turns -> BOOLEAN]

RestType ==
  /\ stage \in [Turns -> Stages]
  /\ late \in [Turns -> BOOLEAN]
  /\ worker \in [Turns -> {"off", "node", "check", "last"}]
  /\ nodes \in [Turns -> 0..MaxNodes]
  /\ outq \in [Turns -> Seq(Item)]
  /\ acc \in [Turns -> Outcomes \union {None}]
  /\ resp \in [Turns -> Outcomes \union {None, "cancelled", "error"}]
  /\ why \in [Turns -> {None, "prepare", "db", "disconnect", "timeout", "crash"}]
  /\ faults \in 0..MaxFaults

\* The type invariant in three parts.
LEMMA TypeParts == TypeOK <=> TxType /\ DbType /\ RestType
BY DEF TypeOK, TxType, DbType, RestType

LEMMA TypePartsNext == TypeOK' <=> TxType' /\ DbType' /\ RestType'
BY DEF TypeOK, TxType, DbType, RestType

\* Ending the transaction keeps its type.
LEMMA RollbackType ==
  ASSUME TxType, NEW t \in Turns, Rollback(t)
  PROVE  TxType'
BY DEF TxType, Rollback

\* A commit keeps the types of what it writes.
LEMMA CommitType ==
  ASSUME TypeOK, NEW t \in Turns, Commit(t)
  PROVE  DbType' /\ TxType'
<1>1. row' \in [Turns -> Statuses]
  BY ValueTypes DEF TypeOK, Commit
<1>2. audits' \in [Turns -> Nat] /\ counted' \in [Turns -> Nat] /\ acked' \in [Turns -> BOOLEAN]
  BY DEF TypeOK, Commit
<1>3. TxType'
  BY TypeParts, RollbackType DEF Commit
<1> QED
  BY <1>1, <1>2, <1>3 DEF DbType

\* Counting a fault keeps the types of the fault variables.
LEMMA FaultType ==
  ASSUME RestType, NEW t \in Turns,
         NEW reason \in {"prepare", "db", "disconnect", "timeout"}, Fault(t, reason)
  PROVE  /\ why' \in [Turns -> {None, "prepare", "db", "disconnect", "timeout", "crash"}]
         /\ faults' \in 0..MaxFaults
BY DEF RestType, Fault

\* So does a move of the request, and an answer to its client.
LEMMA GotoType ==
  ASSUME RestType, NEW t \in Turns, NEW s \in Stages, Goto(t, s)
  PROVE  stage' \in [Turns -> Stages]
BY DEF RestType, Goto

Responses == Outcomes \union {None, "cancelled", "error"}

LEMMA RespType ==
  ASSUME RestType, NEW t \in Turns, NEW r \in Responses, resp' = [resp EXCEPT ![t] = r]
  PROVE  resp' \in [Turns -> Responses]
BY DEF RestType, Responses

\* A step of one request keeps the types of all variables.
LEMMA TypeRunner ==
  ASSUME TypeOK, NEW t \in Turns, RunnerStep(t)
  PROVE  TypeOK'
<1> USE Members, ValueTypes DEF db, run, tx, NoFault, Goto, Rollback
<1>0. TxType /\ DbType /\ RestType
  BY TypeParts
<1>1. CASE LoadPolicy(t)
  BY <1>1 DEF LoadPolicy, TypeOK
<1>2. CASE ReceiveChunk(t)
  <2>1. Receives(t, "chunk")
    BY <1>2 DEF ReceiveChunk
  <2>2. Head(outq[t]).status \in Outcomes \union {None}
    BY <2>1, QueueType DEF Item
  <2>3. outq' \in [Turns -> Seq(Item)]
    BY <2>1, QueueType
  <2>4. acc' \in [Turns -> Outcomes \union {None}]
    BY <1>2, <2>2, ZenonT(60) DEF ReceiveChunk, TypeOK
  <2>5. DbType' /\ TxType'
    BY <1>0, <1>2 DEF ReceiveChunk, DbType, TxType
  <2>6. stage' \in [Turns -> Stages]
    BY <1>0, <1>2 DEF ReceiveChunk, RestType
  <2>7. RestType'
    BY <1>0, <1>2, <2>3, <2>4, <2>6 DEF ReceiveChunk, RestType
  <2> QED
    BY <2>5, <2>7, TypePartsNext
<1>3. CASE ReceiveEnd(t)
  <2>1. outq' \in [Turns -> Seq(Item)]
    BY <1>3, QueueType DEF ReceiveEnd
  <2>2. DbType' /\ TxType'
    BY <1>0, <1>3 DEF ReceiveEnd, DbType, TxType
  <2>3. RestType'
    BY <1>0, <1>3, <2>1 DEF ReceiveEnd, RestType
  <2> QED
    BY <2>2, <2>3, TypePartsNext
<1>4. CASE ReceiveError(t)
  <2>1. outq' \in [Turns -> Seq(Item)]
    BY <1>4, QueueType DEF ReceiveError
  <2>2. DbType' /\ TxType'
    BY <1>0, <1>4 DEF ReceiveError, DbType, TxType
  <2>3. stage' \in [Turns -> Stages] /\ acc' \in [Turns -> Outcomes \union {None}]
        /\ late' \in [Turns -> BOOLEAN]
    <3>1. CASE Receives(t, "error") /\ Goto(t, "fatal") /\ UNCHANGED <<late, acc>>
      BY <1>0, <3>1 DEF RestType
    <3>2. CASE Goto(t, "fin_check") /\ late' = [late EXCEPT ![t] = TRUE]
               /\ acc' = [acc EXCEPT ![t] = "fail"]
      BY <1>0, <3>2 DEF RestType
    <3> QED
      BY <1>4, <3>1, <3>2 DEF ReceiveError
  <2>4. RestType'
    BY <1>0, <1>4, <2>1, <2>3 DEF ReceiveError, RestType
  <2> QED
    BY <2>2, <2>4, TypePartsNext
<1>5. CASE FinalCheck(t)
  <2>1. DbType' /\ TxType'
    BY <1>0, <1>5 DEF FinalCheck, DbType, TxType
  <2>2. stage' \in [Turns -> Stages] /\ resp' \in [Turns -> Responses]
    <3>1. CASE row[t] = "cancelled"
      <4>1. resp' = [resp EXCEPT ![t] = "cancelled"]
        BY <1>5, <3>1 DEF FinalCheck
      <4>2. resp' \in [Turns -> Responses]
        BY <1>0, <4>1, RespType DEF Responses
      <4>3. stage' \in [Turns -> Stages]
        BY <1>0, <1>5, <3>1 DEF FinalCheck, RestType
      <4> QED
        BY <4>2, <4>3
    <3>2. CASE row[t] # "cancelled"
      BY <1>0, <1>5, <3>2 DEF FinalCheck, RestType, Responses
    <3> QED
      BY <3>1, <3>2
  <2>3. RestType'
    BY <1>0, <1>5, <2>2 DEF FinalCheck, RestType, Responses
  <2> QED
    BY <2>1, <2>3, TypePartsNext
<1>6. CASE FinalizeCheck(t)
  <2>1. DbType' /\ TxType'
    BY <1>0, <1>6 DEF FinalizeCheck, DbType, TxType
  <2>2. stage' \in [Turns -> Stages] /\ resp' \in [Turns -> Responses]
    <3>1. CASE Visible(t) = "cancelled"
      <4>1. resp' = [resp EXCEPT ![t] = "cancelled"]
        BY <1>6, <3>1 DEF FinalizeCheck
      <4>2. resp' \in [Turns -> Responses]
        BY <1>0, <4>1, RespType DEF Responses
      <4>3. stage' \in [Turns -> Stages]
        BY <1>0, <1>6, <3>1 DEF FinalizeCheck, RestType
      <4> QED
        BY <4>2, <4>3
    <3>2. CASE Visible(t) # "cancelled"
      BY <1>0, <1>6, <3>2 DEF FinalizeCheck, RestType, Responses
    <3> QED
      BY <3>1, <3>2
  <2>3. RestType'
    BY <1>0, <1>6, <2>2 DEF FinalizeCheck, RestType, Responses
  <2> QED
    BY <2>1, <2>3, TypePartsNext
<1>7. CASE FinalizeUpdate(t)
  BY <1>7 DEF FinalizeUpdate, FinishTurn, TypeOK
<1>8. CASE InsertAudit(t)
  BY <1>8 DEF InsertAudit, TypeOK
<1>9. CASE UpsertOnAsk(t)
  BY <1>9 DEF UpsertOnAsk, TypeOK
<1>10. CASE ClearPendingClarification(t)
  <2>1. DbType' /\ TxType'
    BY <1>0, <1>10, CommitType, RollbackType DEF ClearPendingClarification, DbType, TxType
  <2>2. RestType'
    BY <1>0, <1>10, FaultType DEF ClearPendingClarification, RestType
  <2> QED
    BY <2>1, <2>2, TypePartsNext
<1>11. CASE FinalizeCommit(t)
  <2>1. DbType' /\ TxType'
    BY <1>11, CommitType DEF FinalizeCommit
  <2>2. RestType'
    BY <1>0, <1>11 DEF FinalizeCommit, RestType
  <2> QED
    BY <2>1, <2>2, TypePartsNext
<1>12. CASE UpdateSessionSummary(t)
  BY <1>12 DEF UpdateSessionSummary, TypeOK
<1>13. CASE Deliver(t)
  BY <1>13 DEF Deliver, TypeOK
<1>14. CASE FinishTurnOnFatal(t)
  <2>1. TxType'
    BY <1>0, <1>14, RollbackType DEF FinishTurnOnFatal
  <2>2. DbType'
    BY <1>0, <1>14 DEF FinishTurnOnFatal, DbType, TxType
  <2>3. stage' \in [Turns -> Stages] /\ resp' \in [Turns -> Responses]
    BY <1>0, <1>14 DEF FinishTurnOnFatal, RestType, Responses
  <2>4. RestType'
    BY <1>0, <1>14, <2>3 DEF FinishTurnOnFatal, RestType, Responses
  <2> QED
    BY <2>1, <2>2, <2>4, TypePartsNext
<1>15. CASE FinishTurnIsolated(t)
  BY <1>15 DEF FinishTurnIsolated, TypeOK
<1>16. CASE FinishTurnOnUserCancel(t)
  BY <1>16 DEF FinishTurnOnUserCancel, TypeOK
<1>17. CASE UserCancelLost(t)
  BY <1>17 DEF UserCancelLost, TypeOK
<1>18. CASE Cleanup(t)
  BY <1>18 DEF Cleanup, TypeOK
<1> QED
  BY <1>1, <1>2, <1>3, <1>4, <1>5, <1>6, <1>7, <1>8, <1>9, <1>10, <1>11,
     <1>12, <1>13, <1>14, <1>15, <1>16, <1>17, <1>18 DEF RunnerStep

\* So does a step of its graph.
LEMMA TypeWorker ==
  ASSUME TypeOK, NEW t \in Turns, WorkerStep(t)
  PROVE  TypeOK'
<1> USE Members DEF db, run, tx, NoFault, Goto, TypeOK
<1>q. ASSUME NEW items \in Seq(Item), Put(t, items)
      PROVE  outq' \in [Turns -> Seq(Item)]
  BY <1>q DEF Put
<1>f. ASSUME NEW k \in {"chunk", "error", "recursion", "end"},
             NEW s \in Outcomes \union {None}
      PROVE  [kind |-> k, status |-> s] \in Item
  BY DEF Item
<1>1. CASE GraphNode(t)
  <2>1. outq' \in [Turns -> Seq(Item)]
    <3>1. <<[kind |-> "chunk", status |-> None]>> \in Seq(Item)
      BY <1>f
    <3> QED
      BY <1>1, <1>q, <3>1 DEF GraphNode
  <2>2. view' \in [Turns -> Statuses \union {None}]
    BY <1>1 DEF GraphNode, NodeTouchesSession
  <2>3. nodes' \in [Turns -> 0..MaxNodes]
    BY <1>1 DEF GraphNode
  <2>4. worker' \in [Turns -> {"off", "node", "check", "last"}]
    <3>1. CASE t \in Streamed
      <4>1. worker' = [worker EXCEPT ![t] = "check"]
        BY <1>1, <3>1 DEF GraphNode
      <4> QED
        BY <4>1
    <3>2. CASE t \notin Streamed
      BY <1>1, <3>2 DEF GraphNode
    <3> QED
      BY <3>1, <3>2
  <2> QED
    BY <1>1, <2>1, <2>2, <2>3, <2>4 DEF GraphNode, NodeTouchesSession
<1>2. ASSUME NEW s \in Outcomes, GraphEnd(t, s)
      PROVE  TypeOK'
  <2>1. outq' \in [Turns -> Seq(Item)]
    <3>1. <<[kind |-> "chunk", status |-> s]>> \in Seq(Item)
      BY <1>f
    <3> QED
      BY <1>2, <1>q, <3>1 DEF GraphEnd
  <2>2. /\ acc' \in [Turns -> Outcomes \union {None}] /\ stage' \in [Turns -> Stages]
        /\ worker' \in [Turns -> {"off", "node", "check", "last"}]
    <3>1. CASE t \in Streamed
      BY <1>2, <3>1 DEF GraphEnd
    <3>2. CASE t \notin Streamed
      <4>1. /\ acc' = [acc EXCEPT ![t] = s]
            /\ worker' = [worker EXCEPT ![t] = "off"]
            /\ stage' = [stage EXCEPT ![t] = "fin_check"]
        BY <1>2, <3>2 DEF GraphEnd
      <4>2. acc' \in [Turns -> Outcomes \union {None}]
        BY <4>1
      <4>3. stage' \in [Turns -> Stages]
        BY <4>1
      <4> QED
        BY <4>1, <4>2, <4>3
    <3> QED
      BY <3>1, <3>2
  <2> QED
    BY <1>2, <2>1, <2>2 DEF GraphEnd
<1>3. ASSUME NEW kind \in {"error", "recursion"}, GraphRaises(t, kind)
      PROVE  TypeOK'
  <2>1. outq' \in [Turns -> Seq(Item)]
    <3>1. [kind |-> kind, status |-> None] \in Item /\ [kind |-> "end", status |-> None] \in Item
      BY <1>f
    <3>2. <<[kind |-> kind, status |-> None], [kind |-> "end", status |-> None]>> \in Seq(Item)
      BY <3>1
    <3> QED
      BY <1>3, <1>q, <3>2 DEF GraphRaises
  <2>2. acc' \in [Turns -> Outcomes \union {None}] /\ stage' \in [Turns -> Stages]
    <3>1. CASE t \in Streamed
      BY <1>3, <3>1 DEF GraphRaises
    <3>2. CASE t \notin Streamed
      <4>1. /\ acc' = [acc EXCEPT ![t] = "fail"]
            /\ stage' = [stage EXCEPT ![t] = IF kind = "recursion" THEN "fin_check" ELSE "fatal"]
        BY <1>3, <3>2 DEF GraphRaises
      <4>2. acc' \in [Turns -> Outcomes \union {None}]
        BY <4>1
      <4>3. stage' \in [Turns -> Stages]
        BY <4>1
      <4> QED
        BY <4>2, <4>3
    <3> QED
      BY <3>1, <3>2
  <2>3. worker' \in [Turns -> {"off", "node", "check", "last"}]
    BY <1>3 DEF GraphRaises
  <2> QED
    BY <1>3, <2>1, <2>2, <2>3 DEF GraphRaises
<1>4. CASE WorkerCheck(t)
  <2>1. outq' \in [Turns -> Seq(Item)]
    <3>1. <<[kind |-> "end", status |-> None]>> \in Seq(Item)
      BY <1>f
    <3> QED
      BY <1>4, <1>q, <3>1 DEF WorkerCheck
  <2> QED
    BY <1>4, <2>1 DEF WorkerCheck
<1> QED
  BY <1>1, <1>2, <1>3, <1>4 DEF WorkerStep

\* And a fault that hits it.
LEMMA TypeFault ==
  ASSUME TypeOK, NEW t \in Turns, FaultStep(t)
  PROVE  TypeOK'
<1> USE Members DEF db, run, tx, Goto, Rollback, Escape
<1>0. TxType /\ DbType /\ RestType
  BY TypeParts
<1>1. CASE PrepareRaises(t)
  BY <1>0, <1>1, FaultType DEF PrepareRaises, TypeOK
<1>2. CASE FinalizeRaises(t)
  <2>1. DbType' /\ TxType'
    BY <1>0, <1>2, RollbackType DEF FinalizeRaises, DbType, TxType
  <2>2. stage' \in [Turns -> Stages] /\ resp' \in [Turns -> Responses]
    <3>1. CASE Guarded(t)
      BY <1>0, <1>2, <3>1 DEF FinalizeRaises, RestType, Responses
    <3>2. CASE ~Guarded(t)
      BY <1>0, <1>2, <3>2, RespType DEF FinalizeRaises, RestType, Responses
    <3> QED
      BY <3>1, <3>2
  <2>3. RestType'
    BY <1>0, <1>2, <2>2, FaultType DEF FinalizeRaises, RestType, Responses
  <2> QED
    BY <2>1, <2>3, TypePartsNext
<1>3. CASE LoopRaises(t)
  BY <1>0, <1>3, FaultType DEF LoopRaises, TypeOK
<1>4. CASE FatalFallsBack(t)
  BY <1>0, <1>4, FaultType DEF FatalFallsBack, TypeOK
<1>5. CASE FatalLost(t)
  BY <1>0, <1>5, FaultType DEF FatalLost, TypeOK
<1>6. CASE Disconnect(t)
  <2>1. DbType' /\ TxType'
    BY <1>0, <1>6, RollbackType DEF Disconnect, DbType, TxType
  <2>2. stage' \in [Turns -> Stages]
    BY <1>0, <1>6, GotoType DEF Disconnect, RestType
  <2>3. RestType'
    BY <1>0, <1>6, <2>2, FaultType DEF Disconnect, RestType
  <2> QED
    BY <2>1, <2>3, TypePartsNext
<1>7. CASE SubAskTimeout(t)
  BY <1>0, <1>7, FaultType DEF SubAskTimeout, TypeOK
<1> QED
  BY <1>1, <1>2, <1>3, <1>4, <1>5, <1>6, <1>7 DEF FaultStep

\* Every variable keeps its type.
THEOREM TypeCorrect == Spec => []TypeOK
<1> USE Members
<1>1. Init => TypeOK
  BY DEF Init, TypeOK
<1>2. TypeOK /\ [Next]_vars => TypeOK'
  <2> SUFFICES ASSUME TypeOK, [Next]_vars PROVE TypeOK'
    OBVIOUS
  <2>1. ASSUME NEW t \in Turns, InsertTurnStart(t) PROVE TypeOK'
    BY <2>1 DEF InsertTurnStart, TypeOK, run, tx, NoFault, Goto
  <2>2. ASSUME NEW t \in Turns, CancelAskRun(t) PROVE TypeOK'
    BY <2>2 DEF CancelAskRun, TypeOK, run, tx, NoFault
  <2>3. CASE Crash
    BY <2>3 DEF Crash, TypeOK, db
  <2>4. CASE UNCHANGED vars
    BY <2>4 DEF vars, TypeOK
  <2> QED
    BY <2>1, <2>2, <2>3, <2>4, TypeRunner, TypeWorker, TypeFault DEF Next
<1> QED
  BY <1>1, <1>2, PTL DEF Spec

-----------------------------------------------------------------------------
(* BookingInv is inductive *)

\* Nothing the booking invariant says of turn u has changed.
Same(u) ==
  /\ row'[u] = row[u] /\ audits'[u] = audits[u] /\ counted'[u] = counted[u]
  /\ acked'[u] = acked[u] /\ stage'[u] = stage[u] /\ acc'[u] = acc[u]
  /\ wstatus'[u] = wstatus[u] /\ waudit'[u] = waudit[u] /\ wcount'[u] = wcount[u]
  /\ worker'[u] = worker[u]

LEMMA SameKeeps ==
  ASSUME NEW u, Same(u), TurnInv(u)
  PROVE  TurnInv(u)'
BY DEF Same, TurnInv, StageInv, Unbooked, Written, FullyWritten, Unwritten, Locked, Status

\* A step of request t says nothing of another turn u.
LEMMA OthersSame ==
  ASSUME TypeOK, NEW t \in Turns, NEW u \in Turns, u # t,
         RunnerStep(t) \/ WorkerStep(t) \/ FaultStep(t)
  PROVE  Same(u)
<1> USE DEF db, run, tx, Goto, Rollback, Same, Commit, Receives, Put, Escape
<1>0. TxType /\ DbType /\ RestType
  BY TypeParts
<1> HIDE DEF TypeOK
<1> USE <1>0 DEF TxType, DbType, RestType
<1>1. CASE LoadPolicy(t)
  BY <1>1 DEF LoadPolicy
<1>2. CASE ReceiveChunk(t)
  BY <1>2 DEF ReceiveChunk
<1>3. CASE ReceiveEnd(t)
  BY <1>3 DEF ReceiveEnd
<1>4. CASE ReceiveError(t)
  BY <1>4 DEF ReceiveError
<1>5. CASE FinalCheck(t)
  BY <1>5 DEF FinalCheck
<1>6. CASE FinalizeCheck(t)
  BY <1>6 DEF FinalizeCheck
<1>7. CASE FinalizeUpdate(t)
  BY <1>7 DEF FinalizeUpdate, FinishTurn
<1>8. CASE InsertAudit(t)
  BY <1>8 DEF InsertAudit
<1>9. CASE UpsertOnAsk(t)
  BY <1>9 DEF UpsertOnAsk
<1>10. CASE ClearPendingClarification(t)
  BY <1>10 DEF ClearPendingClarification
<1>11. CASE FinalizeCommit(t)
  BY <1>11 DEF FinalizeCommit
<1>12. CASE UpdateSessionSummary(t)
  BY <1>12 DEF UpdateSessionSummary
<1>13. CASE Deliver(t)
  BY <1>13 DEF Deliver
<1>14. CASE FinishTurnOnFatal(t)
  BY <1>14 DEF FinishTurnOnFatal
<1>15. CASE FinishTurnIsolated(t)
  BY <1>15 DEF FinishTurnIsolated
<1>16. CASE FinishTurnOnUserCancel(t)
  BY <1>16 DEF FinishTurnOnUserCancel
<1>17. CASE UserCancelLost(t)
  BY <1>17 DEF UserCancelLost
<1>18. CASE Cleanup(t)
  BY <1>18 DEF Cleanup
<1>19. CASE GraphNode(t)
  BY <1>19 DEF GraphNode, NodeTouchesSession
<1>20. ASSUME NEW s \in Outcomes, GraphEnd(t, s) PROVE Same(u)
  BY <1>20 DEF GraphEnd
<1>21. ASSUME NEW kind \in {"error", "recursion"}, GraphRaises(t, kind) PROVE Same(u)
  BY <1>21 DEF GraphRaises
<1>22. CASE WorkerCheck(t)
  BY <1>22 DEF WorkerCheck
<1>23. CASE PrepareRaises(t)
  BY <1>23 DEF PrepareRaises
<1>24. CASE FinalizeRaises(t)
  BY <1>24 DEF FinalizeRaises
<1>25. CASE LoopRaises(t)
  BY <1>25 DEF LoopRaises
<1>26. CASE FatalFallsBack(t)
  BY <1>26 DEF FatalFallsBack
<1>27. CASE FatalLost(t)
  BY <1>27 DEF FatalLost
<1>28. CASE Disconnect(t)
  BY <1>28 DEF Disconnect
<1>29. CASE SubAskTimeout(t)
  BY <1>29 DEF SubAskTimeout
<1> QED
  BY <1>1, <1>2, <1>3, <1>4, <1>5, <1>6, <1>7, <1>8, <1>9, <1>10, <1>11, <1>12,
     <1>13, <1>14, <1>15, <1>16, <1>17, <1>18, <1>19, <1>20, <1>21, <1>22, <1>23, <1>24,
     <1>25, <1>26, <1>27, <1>28, <1>29
  DEF RunnerStep, WorkerStep, FaultStep

\* A step of request t keeps the invariant of its own turn.
LEMMA OwnTurn ==
  ASSUME TypeOK, NEW t \in Turns, TurnInv(t),
         RunnerStep(t) \/ WorkerStep(t) \/ FaultStep(t)
  PROVE  TurnInv(t)'
<1> USE DEF db, run, tx, Goto, Rollback, Commit, Receives, Put, Escape, TurnInv, StageInv,
            Unbooked, Written, FullyWritten, Unwritten, Locked, Status, Current, Ledger!Increment,
            FinStages
<1>0. TxType /\ DbType /\ RestType
  BY TypeParts
<1> HIDE DEF TypeOK
<1> USE <1>0 DEF TxType, DbType, RestType
<1>1. CASE LoadPolicy(t)
  BY <1>1 DEF LoadPolicy
<1>2. CASE ReceiveChunk(t)
  BY <1>2 DEF ReceiveChunk
<1>3. CASE ReceiveEnd(t)
  BY <1>3 DEF ReceiveEnd
<1>4. CASE ReceiveError(t)
  BY <1>4 DEF ReceiveError
<1>5. CASE FinalCheck(t)
  BY <1>5 DEF FinalCheck
<1>6. CASE FinalizeCheck(t)
  BY <1>6 DEF FinalizeCheck
<1>7. CASE FinalizeUpdate(t)
  BY <1>7 DEF FinalizeUpdate, FinishTurn
<1>8. CASE InsertAudit(t)
  BY <1>8 DEF InsertAudit
<1>9. CASE UpsertOnAsk(t)
  BY <1>9 DEF UpsertOnAsk
<1>10. CASE ClearPendingClarification(t)
  BY <1>10 DEF ClearPendingClarification
<1>11. CASE FinalizeCommit(t)
  <2>1. Commit(t) /\ stage[t] = "fin_commit" /\ acc' = acc /\ worker' = worker
    BY <1>11 DEF FinalizeCommit
  <2>2. stage'[t] \in {"fin_summary", "deliver"}
    BY <1>11 DEF FinalizeCommit
  <2>3. Unwritten(t)' /\ acked' = acked /\ row'[t] = Current(t)
        /\ audits'[t] = audits[t] + waudit[t] /\ counted'[t] = counted[t] + wcount[t]
    BY <2>1
  <2>4. CASE Unwritten(t)
    <3>1. row'[t] = row[t] /\ audits'[t] = audits[t] /\ counted'[t] = counted[t]
      BY <2>3, <2>4
    <3> QED
      BY <2>1, <2>2, <2>3, <3>1
  <2>5. CASE FullyWritten(t)
    <3>1. row'[t] \in {Status(t), "cancelled"} /\ audits'[t] = 1
          /\ counted'[t] = Ledger!Increment(Status(t))
      BY <2>3, <2>5
    <3>2. acked[t] => row'[t] = "cancelled"
      BY <2>3, <2>5
    <3>3. row'[t] # "absent"
      BY <3>1, Members DEF RestType
    <3> QED
      BY <2>1, <2>2, <2>3, <3>1, <3>2, <3>3
  <2> QED
    BY <2>1, <2>4, <2>5
<1>12. CASE UpdateSessionSummary(t)
  BY <1>12 DEF UpdateSessionSummary
<1>13. CASE Deliver(t)
  BY <1>13 DEF Deliver
<1>14. CASE FinishTurnOnFatal(t)
  BY <1>14 DEF FinishTurnOnFatal
<1>15. CASE FinishTurnIsolated(t)
  BY <1>15 DEF FinishTurnIsolated
<1>16. CASE FinishTurnOnUserCancel(t)
  BY <1>16 DEF FinishTurnOnUserCancel
<1>17. CASE UserCancelLost(t)
  BY <1>17 DEF UserCancelLost
<1>18. CASE Cleanup(t)
  BY <1>18 DEF Cleanup
<1>19. CASE GraphNode(t)
  BY <1>19 DEF GraphNode, NodeTouchesSession
<1>20. ASSUME NEW s \in Outcomes, GraphEnd(t, s) PROVE TurnInv(t)'
  BY <1>20 DEF GraphEnd
<1>21. ASSUME NEW kind \in {"error", "recursion"}, GraphRaises(t, kind) PROVE TurnInv(t)'
  BY <1>21 DEF GraphRaises
<1>22. CASE WorkerCheck(t)
  BY <1>22 DEF WorkerCheck
<1>23. CASE PrepareRaises(t)
  BY <1>23 DEF PrepareRaises
<1>24. CASE FinalizeRaises(t)
  BY <1>24 DEF FinalizeRaises
<1>25. CASE LoopRaises(t)
  BY <1>25 DEF LoopRaises
<1>26. CASE FatalFallsBack(t)
  BY <1>26 DEF FatalFallsBack
<1>27. CASE FatalLost(t)
  BY <1>27 DEF FatalLost
<1>28. CASE Disconnect(t)
  BY <1>28 DEF Disconnect
<1>29. CASE SubAskTimeout(t)
  BY <1>29 DEF SubAskTimeout
<1> QED
  BY <1>1, <1>2, <1>3, <1>4, <1>5, <1>6, <1>7, <1>8, <1>9, <1>10, <1>11, <1>12,
     <1>13, <1>14, <1>15, <1>16, <1>17, <1>18, <1>19, <1>20, <1>21, <1>22, <1>23, <1>24,
     <1>25, <1>26, <1>27, <1>28, <1>29
  DEF RunnerStep, WorkerStep, FaultStep

LEMMA BookingStep ==
  ASSUME TypeOK, BookingInv, [Next]_vars
  PROVE  BookingInv'
<1> SUFFICES ASSUME NEW u \in Turns PROVE TurnInv(u)'
  BY DEF BookingInv
<1>0. TurnInv(u) /\ TxType /\ DbType /\ RestType
  BY TypeParts DEF BookingInv
<1>1. ASSUME NEW t \in Turns, RunnerStep(t) \/ WorkerStep(t) \/ FaultStep(t)
      PROVE  TurnInv(u)'
  <2>1. CASE u = t
    BY <1>0, <1>1, <2>1, OwnTurn
  <2>2. CASE u # t
    BY <1>0, <1>1, <2>2, OthersSame, SameKeeps
  <2> QED
    BY <2>1, <2>2
<1>2. ASSUME NEW t \in Turns, InsertTurnStart(t) PROVE TurnInv(u)'
  BY <1>0, <1>2 DEF InsertTurnStart, Goto, run, tx, TurnInv, StageInv, Unbooked, Written,
     FullyWritten, Unwritten, Locked, Status, TxType, DbType, RestType
<1>3. ASSUME NEW t \in Turns, CancelAskRun(t) PROVE TurnInv(u)'
  BY <1>0, <1>3 DEF CancelAskRun, run, tx, TurnInv, StageInv, Unbooked, Written,
     FullyWritten, Unwritten, Locked, Status, TxType, DbType, RestType
<1>4. CASE Crash
  BY <1>0, <1>4 DEF Crash, db, Over, TurnInv, StageInv, Unbooked, Written,
     FullyWritten, Unwritten, Locked, Status, TxType, DbType, RestType
<1>5. CASE UNCHANGED vars
  BY <1>0, <1>5, SameKeeps DEF vars, Same
<1> QED
  BY <1>1, <1>2, <1>3, <1>4, <1>5 DEF Next

\* What the open transaction of a request holds at each stage, and what is
\* committed, for any number of concurrent requests, cancels and faults.
THEOREM BookingCorrect == Spec => []BookingInv
<1>1. Init => BookingInv
  <2> SUFFICES ASSUME Init, NEW t \in Turns PROVE TurnInv(t)
    BY DEF BookingInv
  <2>1. /\ row[t] = "absent" /\ audits[t] = 0 /\ counted[t] = 0 /\ ~acked[t]
        /\ stage[t] = "idle" /\ worker[t] = "off"
        /\ wstatus[t] = None /\ waudit[t] = 0 /\ wcount[t] = 0
    BY DEF Init
  <2> QED
    BY <2>1 DEF TurnInv, StageInv, Unwritten, Locked
<1>2. TypeOK /\ BookingInv /\ [Next]_vars => BookingInv'
  BY BookingStep
<1> QED
  BY <1>1, <1>2, TypeCorrect, PTL DEF Spec

\* An acknowledged cancel is never undone (tracer.finish_turn's WHERE clause
\* together with the row lock).
THEOREM CancelAckIsHonoured == Spec => []CancelAckHonoured
<1>1. BookingInv => CancelAckHonoured
  BY DEF BookingInv, TurnInv, CancelAckHonoured
<1> QED
  BY <1>1, BookingCorrect, PTL

\* No turn is audited or counted twice, however its finalization fails.
THEOREM TurnIsBookedOnce == Spec => []BookedOnce
<1>1. BookingInv => BookedOnce
  BY DEF BookingInv, TurnInv, BookedOnce
<1> QED
  BY <1>1, BookingCorrect, PTL

\* A stored success is audited and counted.
THEOREM StoredSuccessIsBooked == Spec => []SuccessIsBooked
<1>1. BookingInv => SuccessIsBooked
  BY DEF BookingInv, TurnInv, SuccessIsBooked
<1> QED
  BY <1>1, BookingCorrect, PTL

-----------------------------------------------------------------------------
(* A request that is over is over as a whole *)

\* Before its outcome is decided a request has told its client nothing, and no
\* fault has hit it; a finalization goes on only past a swallowed fault.
Undecided == {"idle", "prepared", "running", "final_check", "fin_check", "fin_update",
              "fin_audit", "fin_session", "fin_clear"}
Answering == {"fin_commit", "fin_summary", "deliver"}

\* The outcome is stored, or the row was cancelled, or the write was lost.
Backed(t, s) == row[t] \in {s, "cancelled"} \/ why[t] = "db"

\* What EndedIsWhole needs to know of a request at every stage.
EndInv(t) ==
  /\ stage[t] \in Undecided => why[t] = None
  /\ stage[t] \in Answering => why[t] \in {None, "db"}
  /\ stage[t] \in {"fatal_iso", "ucancel"} => why[t] # None
  /\ stage[t] \in Undecided \union {"fin_commit", "fin_summary", "fatal", "fatal_iso"} =>
       resp[t] = None
  /\ stage[t] = "fin_commit" => FullyWritten(t) \/ Backed(t, Status(t))
  /\ stage[t] = "fin_summary" => Backed(t, Status(t))
  /\ resp[t] \in Outcomes => Backed(t, resp[t])
  /\ stage[t] \in {"deliver", "cleanup", "done", "dead"} =>
       row[t] # "pending" \/ why[t] # None
  /\ view[t] = "cancelled" => row[t] = "cancelled"
  /\ stage[t] \in {"idle", "prepared", "done", "dead"} =>
       worker[t] = "off" /\ outq[t] = <<>>

WholeInv == \A t \in Turns : EndInv(t)

\* Nothing that EndInv says of turn u has changed.
SameEnd(u) ==
  /\ row'[u] = row[u] /\ stage'[u] = stage[u] /\ acc'[u] = acc[u]
  /\ audits'[u] = audits[u] /\ counted'[u] = counted[u]
  /\ wstatus'[u] = wstatus[u] /\ waudit'[u] = waudit[u] /\ wcount'[u] = wcount[u]
  /\ view'[u] = view[u] /\ resp'[u] = resp[u] /\ why'[u] = why[u]
  /\ worker'[u] = worker[u] /\ outq'[u] = outq[u]

LEMMA SameEndKeeps ==
  ASSUME NEW u, SameEnd(u), EndInv(u)
  PROVE  EndInv(u)'
BY DEF SameEnd, EndInv, Backed, FullyWritten, Unbooked, Written, Status

\* A step of request t leaves what EndInv says of another turn as it is.
LEMMA OthersEndSame ==
  ASSUME TypeOK, NEW t \in Turns, NEW u \in Turns, u # t,
         RunnerStep(t) \/ WorkerStep(t) \/ FaultStep(t)
  PROVE  SameEnd(u)
<1> USE DEF db, run, tx, Goto, Rollback, SameEnd, Commit, Receives, Put, Escape, NoFault, Fault
<1>0. TxType /\ DbType /\ RestType
  BY TypeParts
<1> HIDE DEF TypeOK
<1> USE <1>0 DEF TxType, DbType, RestType
<1>1. CASE LoadPolicy(t)
  BY <1>1 DEF LoadPolicy
<1>2. CASE ReceiveChunk(t)
  BY <1>2 DEF ReceiveChunk
<1>3. CASE ReceiveEnd(t)
  BY <1>3 DEF ReceiveEnd
<1>4. CASE ReceiveError(t)
  BY <1>4 DEF ReceiveError
<1>5. CASE FinalCheck(t)
  BY <1>5 DEF FinalCheck
<1>6. CASE FinalizeCheck(t)
  BY <1>6 DEF FinalizeCheck
<1>7. CASE FinalizeUpdate(t)
  BY <1>7 DEF FinalizeUpdate, FinishTurn
<1>8. CASE InsertAudit(t)
  BY <1>8 DEF InsertAudit
<1>9. CASE UpsertOnAsk(t)
  BY <1>9 DEF UpsertOnAsk
<1>10. CASE ClearPendingClarification(t)
  BY <1>10 DEF ClearPendingClarification
<1>11. CASE FinalizeCommit(t)
  BY <1>11 DEF FinalizeCommit
<1>12. CASE UpdateSessionSummary(t)
  BY <1>12 DEF UpdateSessionSummary
<1>13. CASE Deliver(t)
  BY <1>13 DEF Deliver
<1>14. CASE FinishTurnOnFatal(t)
  BY <1>14 DEF FinishTurnOnFatal
<1>15. CASE FinishTurnIsolated(t)
  BY <1>15 DEF FinishTurnIsolated
<1>16. CASE FinishTurnOnUserCancel(t)
  BY <1>16 DEF FinishTurnOnUserCancel
<1>17. CASE UserCancelLost(t)
  BY <1>17 DEF UserCancelLost
<1>18. CASE Cleanup(t)
  BY <1>18 DEF Cleanup
<1>19. CASE GraphNode(t)
  BY <1>19 DEF GraphNode, NodeTouchesSession
<1>20. ASSUME NEW s \in Outcomes, GraphEnd(t, s) PROVE SameEnd(u)
  BY <1>20 DEF GraphEnd
<1>21. ASSUME NEW kind \in {"error", "recursion"}, GraphRaises(t, kind) PROVE SameEnd(u)
  BY <1>21 DEF GraphRaises
<1>22. CASE WorkerCheck(t)
  BY <1>22 DEF WorkerCheck
<1>23. CASE PrepareRaises(t)
  BY <1>23 DEF PrepareRaises
<1>24. CASE FinalizeRaises(t)
  BY <1>24 DEF FinalizeRaises
<1>25. CASE LoopRaises(t)
  BY <1>25 DEF LoopRaises
<1>26. CASE FatalFallsBack(t)
  BY <1>26 DEF FatalFallsBack
<1>27. CASE FatalLost(t)
  BY <1>27 DEF FatalLost
<1>28. CASE Disconnect(t)
  BY <1>28 DEF Disconnect
<1>29. CASE SubAskTimeout(t)
  BY <1>29 DEF SubAskTimeout
<1> QED
  BY <1>1, <1>2, <1>3, <1>4, <1>5, <1>6, <1>7, <1>8, <1>9, <1>10, <1>11, <1>12,
     <1>13, <1>14, <1>15, <1>16, <1>17, <1>18, <1>19, <1>20, <1>21, <1>22, <1>23, <1>24,
     <1>25, <1>26, <1>27, <1>28, <1>29
  DEF RunnerStep, WorkerStep, FaultStep

\* What a client is told when no outcome is known is no outcome.
LEMMA NoOutcomes == "cancelled" \notin Outcomes /\ "error" \notin Outcomes /\ None \notin Outcomes
BY DEF Outcomes, Ledger!Outcomes

\* A step of request t keeps EndInv of its own turn.
LEMMA OwnEnd ==
  ASSUME TypeOK, NEW t \in Turns, TurnInv(t), EndInv(t),
         RunnerStep(t) \/ WorkerStep(t) \/ FaultStep(t)
  PROVE  EndInv(t)'
<1> USE DEF db, run, tx, Goto, Rollback, Commit, Receives, Put, Escape, NoFault, Fault, TurnInv, StageInv,
            Unbooked, Written, FullyWritten, Unwritten, Locked, Status, Current, FinStages,
            EndInv, Backed, Undecided, Answering
<1>0. TxType /\ DbType /\ RestType
  BY TypeParts
<1>s. Status(t) \in Outcomes /\ "pending" \notin Outcomes
  BY ValueTypes, Members
<1> HIDE DEF TypeOK
<1> USE <1>0 DEF TxType, DbType, RestType
<1>1. CASE LoadPolicy(t)
  BY <1>1 DEF LoadPolicy
<1>2. CASE ReceiveChunk(t)
  BY <1>2 DEF ReceiveChunk
<1>3. CASE ReceiveEnd(t)
  BY <1>3 DEF ReceiveEnd
<1>4. CASE ReceiveError(t)
  BY <1>4 DEF ReceiveError
<1>5. CASE FinalCheck(t)
  BY <1>5 DEF FinalCheck
<1>6. CASE FinalizeCheck(t)
  BY <1>6, <1>s, NoOutcomes DEF FinalizeCheck, Visible
<1>7. CASE FinalizeUpdate(t)
  BY <1>7 DEF FinalizeUpdate, FinishTurn
<1>8. CASE InsertAudit(t)
  BY <1>8, <1>s, NoOutcomes DEF InsertAudit, Ledger!Increment
<1>9. CASE UpsertOnAsk(t)
  BY <1>9, <1>s, NoOutcomes DEF UpsertOnAsk, Ledger!Increment
<1>10. CASE ClearPendingClarification(t)
  BY <1>10 DEF ClearPendingClarification
<1>11. CASE FinalizeCommit(t)
  BY <1>11, <1>s, NoOutcomes DEF FinalizeCommit
<1>12. CASE UpdateSessionSummary(t)
  BY <1>12, <1>s, NoOutcomes DEF UpdateSessionSummary
<1>13. CASE Deliver(t)
  BY <1>13 DEF Deliver
<1>14. CASE FinishTurnOnFatal(t)
  BY <1>14, <1>s, NoOutcomes DEF FinishTurnOnFatal
<1>15. CASE FinishTurnIsolated(t)
  BY <1>15, <1>s, NoOutcomes DEF FinishTurnIsolated
<1>16. CASE FinishTurnOnUserCancel(t)
  BY <1>16 DEF FinishTurnOnUserCancel
<1>17. CASE UserCancelLost(t)
  BY <1>17 DEF UserCancelLost
<1>18. CASE Cleanup(t)
  BY <1>18 DEF Cleanup
<1>19. CASE GraphNode(t)
  BY <1>19 DEF GraphNode, NodeTouchesSession
<1>20. ASSUME NEW s \in Outcomes, GraphEnd(t, s) PROVE EndInv(t)'
  BY <1>20 DEF GraphEnd
<1>21. ASSUME NEW kind \in {"error", "recursion"}, GraphRaises(t, kind) PROVE EndInv(t)'
  BY <1>21 DEF GraphRaises
<1>22. CASE WorkerCheck(t)
  BY <1>22 DEF WorkerCheck
<1>23. CASE PrepareRaises(t)
  BY <1>23, <1>s, NoOutcomes DEF PrepareRaises
<1>24. CASE FinalizeRaises(t)
  BY <1>24 DEF FinalizeRaises
<1>25. CASE LoopRaises(t)
  BY <1>25 DEF LoopRaises
<1>26. CASE FatalFallsBack(t)
  BY <1>26 DEF FatalFallsBack
<1>27. CASE FatalLost(t)
  BY <1>27, <1>s, NoOutcomes DEF FatalLost
<1>28. CASE Disconnect(t)
  BY <1>28 DEF Disconnect
<1>29. CASE SubAskTimeout(t)
  BY <1>29 DEF SubAskTimeout
<1> QED
  BY <1>1, <1>2, <1>3, <1>4, <1>5, <1>6, <1>7, <1>8, <1>9, <1>10, <1>11, <1>12,
     <1>13, <1>14, <1>15, <1>16, <1>17, <1>18, <1>19, <1>20, <1>21, <1>22, <1>23, <1>24,
     <1>25, <1>26, <1>27, <1>28, <1>29
  DEF RunnerStep, WorkerStep, FaultStep

LEMMA WholeStep ==
  ASSUME TypeOK, BookingInv, WholeInv, [Next]_vars
  PROVE  WholeInv'
<1> SUFFICES ASSUME NEW u \in Turns PROVE EndInv(u)'
  BY DEF WholeInv
<1>0. TurnInv(u) /\ EndInv(u) /\ TxType /\ DbType /\ RestType
  BY TypeParts DEF BookingInv, WholeInv
<1>1. ASSUME NEW t \in Turns, RunnerStep(t) \/ WorkerStep(t) \/ FaultStep(t)
      PROVE  EndInv(u)'
  <2>1. CASE u = t
    BY <1>0, <1>1, <2>1, OwnEnd
  <2>2. CASE u # t
    BY <1>0, <1>1, <2>2, OthersEndSame, SameEndKeeps
  <2> QED
    BY <2>1, <2>2
<1>2. ASSUME NEW t \in Turns, InsertTurnStart(t) PROVE EndInv(u)'
  BY <1>0, <1>2 DEF InsertTurnStart, Goto, run, tx, NoFault, EndInv, Undecided, Answering, Backed,
     FullyWritten, Unbooked, Written, Status, TxType, DbType, RestType
<1>3. ASSUME NEW t \in Turns, CancelAskRun(t) PROVE EndInv(u)'
  BY <1>0, <1>3 DEF CancelAskRun, run, tx, NoFault, EndInv, Undecided, Answering, Backed,
     FullyWritten, Unbooked, Written, Locked, Status, TxType, DbType, RestType
<1>4. CASE Crash
  BY <1>0, <1>4 DEF Crash, db, Over, EndInv, Undecided, Answering, Backed,
     FullyWritten, Unbooked, Written, Status, TxType, DbType, RestType
<1>5. CASE UNCHANGED vars
  BY <1>0, <1>5, SameEndKeeps DEF vars, SameEnd
<1> QED
  BY <1>1, <1>2, <1>3, <1>4, <1>5 DEF Next

\* Whatever faults, cancels and disconnects hit any number of requests: a client
\* that was told an outcome finds it stored, a request that is over leaves
\* nothing running, and only a fault of its own leaves its turn pending.
THEOREM EndedIsWholeCorrect == Spec => []EndedIsWhole
<1>1. Init => WholeInv
  <2> SUFFICES ASSUME Init, NEW t \in Turns PROVE EndInv(t)
    BY DEF WholeInv
  <2>1. /\ row[t] = "absent" /\ view[t] = None /\ stage[t] = "idle" /\ worker[t] = "off"
        /\ outq[t] = <<>> /\ resp[t] = None /\ why[t] = None
    BY DEF Init
  <2> QED
    BY <2>1, NoOutcomes DEF EndInv
<1>2. TypeOK /\ BookingInv /\ WholeInv /\ [Next]_vars => WholeInv'
  BY WholeStep
<1>3. BookingInv /\ WholeInv => EndedIsWhole
  <2> SUFFICES ASSUME NEW t \in Turns, TurnInv(t), EndInv(t)
               PROVE  /\ resp[t] \in Outcomes => row[t] \in {resp[t], "cancelled"} \/ why[t] = "db"
                      /\ Over(t) => worker[t] = "off" /\ outq[t] = <<>> /\ Unwritten(t)
                      /\ Over(t) /\ row[t] = "pending" => why[t] # None
    BY DEF EndedIsWhole, ResponseBacked, NothingLeftBehind, PendingOnlyByFault, BookingInv, WholeInv
  <2> QED
    BY DEF EndInv, Backed, Over, TurnInv, StageInv
<1> QED
  BY <1>1, <1>2, <1>3, TypeCorrect, BookingCorrect, PTL DEF Spec

-----------------------------------------------------------------------------
(* AskTurn implements TurnLedger *)

\* The commit of a finalization publishes its outcome, unless there is nothing
\* left to commit.
LEMMA CommitPublishes ==
  ASSUME TypeOK, NEW t \in Turns, Commit(t), Unwritten(t) \/ FullyWritten(t),
         Locked(t) => row[t] # "cancelled"
  PROVE  Ledger!Publish(t, Status(t)) \/ UNCHANGED Ledger!ledger
<1>0. TxType /\ DbType
  BY TypeParts
<1>1. CASE Unwritten(t)
  <2>1. row' = row /\ audits' = audits /\ counted' = counted /\ acked' = acked
    BY <1>0, <1>1 DEF Commit, Unwritten, Current, Locked, TxType, DbType
  <2> QED
    BY <2>1 DEF Ledger!ledger
<1>2. CASE FullyWritten(t)
  <2>1. row[t] \in {"pending", "cancelled"} /\ audits[t] = 0
    BY <1>2 DEF FullyWritten, Unbooked
  <2>2. row' = [row EXCEPT ![t] = IF @ = "cancelled" THEN @ ELSE Status(t)]
    <3>1. Status(t) \in Outcomes
      BY ValueTypes
    <3>2. Current(t) = IF row[t] = "cancelled" THEN row[t] ELSE Status(t)
      BY <1>2, <3>1, Members DEF FullyWritten, Written, Current, Locked, None
    <3> QED
      BY <3>2 DEF Commit
  <2>3. /\ audits' = [audits EXCEPT ![t] = @ + 1]
        /\ counted' = [counted EXCEPT ![t] = @ + Ledger!Increment(Status(t))]
        /\ UNCHANGED acked
    BY <1>2 DEF Commit, FullyWritten
  <2> QED
    BY <2>1, <2>2, <2>3 DEF Ledger!Publish
<1> QED
  BY <1>1, <1>2

LEMMA FatalAborts ==
  ASSUME TypeOK, NEW t \in Turns, TurnInv(t), FinishTurnOnFatal(t)
  PROVE  Ledger!Abort(t)
<1>0. TxType /\ DbType
  BY TypeParts
<1>1. Unwritten(t) \/ (Unbooked(t) /\ waudit[t] <= 1 /\ wcount[t] = 0)
  BY DEF FinishTurnOnFatal, TurnInv, StageInv
<1>2. waudit[t] \in {0, 1} /\ wcount[t] = 0 /\ (waudit[t] = 1 => audits[t] = 0)
  BY <1>0, <1>1 DEF Unwritten, Unbooked, TxType
<1>3. row[t] # "absent"
  BY DEF FinishTurnOnFatal, TurnInv, StageInv
<1>4. row' = [row EXCEPT ![t] = IF @ = "cancelled" THEN @ ELSE "fail"]
  <2>1. (Current(t) = "cancelled") <=> (row[t] = "cancelled")
    BY <1>0, Members DEF Current, Locked, TurnInv, TxType
  <2> QED
    BY <2>1 DEF FinishTurnOnFatal
<1>5. audits' = [audits EXCEPT ![t] = @ + waudit[t]]
  BY DEF FinishTurnOnFatal
<1>6. counted' = counted /\ acked' = acked
  BY <1>0, <1>2 DEF FinishTurnOnFatal, DbType
<1> QED
  BY <1>2, <1>3, <1>4, <1>5, <1>6 DEF Ledger!Abort

\* Every step of the runner's system is a step of the ledger or leaves it.
LEMMA StepSimulation ==
  ASSUME TypeOK, BookingInv, [Next]_vars
  PROVE  [Ledger!LedgerNext]_(Ledger!ledger)
<1>0. TxType /\ DbType
  BY TypeParts
<1>s. UNCHANGED db => UNCHANGED Ledger!ledger
  BY DEF db, Ledger!ledger
<1>1. ASSUME NEW t \in Turns, InsertTurnStart(t)
      PROVE  Ledger!Open(t)
  <2>1. row[t] = "absent" /\ row' = [row EXCEPT ![t] = "pending"]
    BY <1>1 DEF InsertTurnStart
  <2>2. UNCHANGED <<audits, counted, acked>>
    BY <1>1 DEF InsertTurnStart
  <2> QED
    BY <2>1, <2>2 DEF Ledger!Open
<1>2. ASSUME NEW t \in Turns, CancelAskRun(t)
      PROVE  Ledger!Cancel(t)
  BY <1>2 DEF CancelAskRun, Ledger!Cancel
<1>3. ASSUME NEW t \in Turns, RunnerStep(t)
      PROVE  \/ Ledger!Publish(t, Status(t)) \/ Ledger!Abort(t) \/ Ledger!Cancel(t)
             \/ UNCHANGED Ledger!ledger
  <2>0. TurnInv(t)
    BY DEF BookingInv
  <2>1. CASE ClearPendingClarification(t)
    <3>1. FullyWritten(t) /\ (Locked(t) => row[t] # "cancelled")
      BY <2>0, <2>1 DEF ClearPendingClarification, TurnInv, StageInv
    <3>2. Commit(t) \/ UNCHANGED db
      BY <2>1 DEF ClearPendingClarification
    <3> QED
      BY <3>1, <3>2, <1>s, CommitPublishes
  <2>2. CASE FinalizeCommit(t)
    <3>1. (Unwritten(t) \/ FullyWritten(t)) /\ (Locked(t) => row[t] # "cancelled")
      BY <2>0, <2>2 DEF FinalizeCommit, TurnInv, StageInv
    <3>2. Commit(t)
      BY <2>2 DEF FinalizeCommit
    <3> QED
      BY <3>1, <3>2, CommitPublishes
  <2>3. CASE FinishTurnOnFatal(t)
    BY <2>0, <2>3, FatalAborts
  <2>4. CASE FinishTurnIsolated(t)
    <3>1. /\ row[t] # "absent"
          /\ row' = [row EXCEPT ![t] = IF @ = "cancelled" THEN @ ELSE "fail"]
          /\ UNCHANGED <<audits, counted, acked>>
      BY <2>0, <2>4 DEF FinishTurnIsolated, TurnInv, StageInv
    <3>2. audits' = [audits EXCEPT ![t] = @ + 0]
      BY <1>0, <3>1 DEF DbType
    <3>3. 0 \in {0, 1} /\ (0 = 1 => audits[t] = 0)
      OBVIOUS
    <3>4. Ledger!Abort(t)
      BY <3>1, <3>2, <3>3 DEF Ledger!Abort
    <3> QED
      BY <3>4
  <2>5. CASE FinishTurnOnUserCancel(t)
    <3>1. /\ row' = [row EXCEPT ![t] = IF @ = "pending" THEN "cancelled" ELSE @]
          /\ UNCHANGED <<audits, counted, acked>>
      BY <2>5 DEF FinishTurnOnUserCancel
    <3>2. CASE row[t] = "pending"
      BY <3>1, <3>2 DEF Ledger!Cancel
    <3>3. CASE row[t] # "pending"
      BY <1>0, <3>1, <3>3 DEF DbType, Ledger!ledger
    <3> QED
      BY <3>2, <3>3
  <2>6. CASE \/ LoadPolicy(t) \/ ReceiveChunk(t) \/ ReceiveEnd(t) \/ ReceiveError(t)
            \/ FinalCheck(t) \/ FinalizeCheck(t) \/ FinalizeUpdate(t) \/ InsertAudit(t)
            \/ UpsertOnAsk(t) \/ UpdateSessionSummary(t) \/ Deliver(t)
            \/ UserCancelLost(t) \/ Cleanup(t)
    <3>1. UNCHANGED db
      BY <2>6 DEF LoadPolicy, ReceiveChunk, ReceiveEnd, ReceiveError, FinalCheck,
         FinalizeCheck, FinalizeUpdate, InsertAudit, UpsertOnAsk, UpdateSessionSummary,
         Deliver, UserCancelLost, Cleanup
    <3> QED
      BY <3>1, <1>s
  <2> QED
    BY <1>3, <2>1, <2>2, <2>3, <2>4, <2>5, <2>6 DEF RunnerStep
<1>4. ASSUME NEW t \in Turns, WorkerStep(t) PROVE UNCHANGED db
  BY <1>4 DEF WorkerStep, GraphNode, GraphEnd, GraphRaises, WorkerCheck
<1>5. ASSUME NEW t \in Turns, FaultStep(t) PROVE UNCHANGED db
  BY <1>5 DEF FaultStep, PrepareRaises, FinalizeRaises, LoopRaises, FatalFallsBack, FatalLost,
     Disconnect, SubAskTimeout
<1>6. CASE Crash
  BY <1>6, <1>s DEF Crash
<1>7. CASE UNCHANGED vars
  BY <1>7 DEF vars, Ledger!ledger
<1>8. ASSUME NEW t \in Turns PROVE Status(t) \in Outcomes
  BY ValueTypes
<1> QED
  BY <1>1, <1>2, <1>3, <1>4, <1>5, <1>6, <1>7, <1>8, <1>s DEF Next, Ledger!LedgerNext, Outcomes

\* The runner, its worker, the cancel endpoint and every failure path implement
\* the ledger: each commit is one of its four atomic changes.
THEOREM LedgerRefinement == Spec => ImplementsLedger
<1>1. Init => Ledger!LedgerInit
  BY DEF Init, Ledger!LedgerInit
<1>2. TypeOK /\ BookingInv /\ [Next]_vars => [Ledger!LedgerNext]_(Ledger!ledger)
  BY StepSimulation
<1> QED
  BY <1>1, <1>2, TypeCorrect, BookingCorrect, PTL DEF Spec, ImplementsLedger, Ledger!LedgerSpec

=============================================================================
