----------------------------- MODULE TurnLedger -----------------------------
(***************************************************************************)
(* What the copilot database promises about ask turns, seen one committed  *)
(* transaction at a time: the status of each copilot_ask_turn row, the     *)
(* audit rows written for it, what it added to its session's turn_count,   *)
(* and whether POST /ask/cancel answered "ok" for it.  No runner, worker,  *)
(* queue or open transaction appears here; AskTurn is shown to implement   *)
(* this ledger.                                                            *)
(***************************************************************************)
EXTENDS Naturals

CONSTANT Turns            \* trace ids of ask requests

VARIABLES
  row,                    \* committed status of the turn's row
  audits,                 \* committed copilot_audit_log rows of the turn
  counted,                \* committed increments of session.turn_count
  acked                   \* the cancel endpoint answered ok=true

ledger == <<row, audits, counted, acked>>

\* Statuses format_answer and the dialogue nodes give a finished graph.
Outcomes == {"success", "fail", "need_clarification", "chitchat", "out_of_scope"}

Statuses == Outcomes \union {"absent", "pending", "cancelled"}

LedgerInit ==
  /\ row = [t \in Turns |-> "absent"]
  /\ audits = [t \in Turns |-> 0]
  /\ counted = [t \in Turns |-> 0]
  /\ acked = [t \in Turns |-> FALSE]

\* insert_turn_start: every turn is born pending.
Open(t) ==
  /\ row[t] = "absent"
  /\ row' = [row EXCEPT ![t] = "pending"]
  /\ UNCHANGED <<audits, counted, acked>>

\* What one finished run adds to the session counter.
Increment(s) == IF s = "success" THEN 1 ELSE 0

(***************************************************************************)
(* A run publishes outcome s: status, audit row and counter in one         *)
(* transaction.  The status column alone is protected by                   *)
(* "status != 'cancelled'": when a cancel came first the row stays         *)
(* cancelled and the audit row and the counter are written all the same.   *)
(***************************************************************************)
Publish(t, s) ==
  /\ row[t] \in {"pending", "cancelled"}
  /\ audits[t] = 0
  /\ row' = [row EXCEPT ![t] = IF @ = "cancelled" THEN @ ELSE s]
  /\ audits' = [audits EXCEPT ![t] = @ + 1]
  /\ counted' = [counted EXCEPT ![t] = @ + Increment(s)]
  /\ UNCHANGED acked

\* An error after some of the run's writes: the row becomes fail (unless it
\* is cancelled) and the audit row may have been kept.
Abort(t) ==
  /\ row[t] # "absent"
  /\ row' = [row EXCEPT ![t] = IF @ = "cancelled" THEN @ ELSE "fail"]
  /\ \E kept \in {0, 1} :
       /\ kept = 1 => audits[t] = 0
       /\ audits' = [audits EXCEPT ![t] = @ + kept]
  /\ UNCHANGED <<counted, acked>>

\* The cancel endpoint, or the runner that lost its client, ends a pending
\* turn; only the endpoint acknowledges.
Cancel(t) ==
  /\ row[t] = "pending"
  /\ row' = [row EXCEPT ![t] = "cancelled"]
  /\ acked' \in {acked, [acked EXCEPT ![t] = TRUE]}
  /\ UNCHANGED <<audits, counted>>

LedgerNext ==
  \E t \in Turns :
    \/ Open(t)
    \/ \E s \in Outcomes : Publish(t, s)
    \/ Abort(t)
    \/ Cancel(t)

LedgerSpec == LedgerInit /\ [][LedgerNext]_ledger

=============================================================================
