----------------------------- MODULE DialogueGate -----------------------------
(***************************************************************************)
(* The pending clarification of one chat session: agent/dialogue_nodes.py  *)
(* with memory/memory_service.py and the end of _finalize_ask_run.  A turn *)
(* that lacks a slot is answered with a question to the user, and what it  *)
(* asked is kept in slot_json of copilot_session_summary; the next turn of *)
(* the session is merged with it, drops it or leaves it.  Turns of one     *)
(* session may overlap (two tabs, or a resend while the first one runs).   *)
(*                                                                         *)
(* A text is abstracted to the turn that brought it: the question of a     *)
(* pending clarification is the turn whose question it is.  What a text    *)
(* means (cancel, new topic, fills the slots or not) is chosen freely, and *)
(* with it the effect of a thread_id that does not match, which drops the  *)
(* structured answers and leaves the text.  dialogue_clarify_max_asks only *)
(* changes the wording: below and at the limit the turn asks again.        *)
(***************************************************************************)
EXTENDS Naturals, FiniteSets

CONSTANTS
    MaxTurns,   \* bound: turns of the session
    MaxFaults   \* bound: reads and writes of the summary that fail (fail-open)

ASSUME DialogueGateAssumption == MaxTurns \in Nat /\ MaxFaults \in Nat

Turns == 1 .. MaxTurns

VARIABLES
    slot,       \* committed slot_json.pending_clarification
    pc,         \* where each turn is
    kept,       \* its state["pending_clarification"]
    merged,     \* the turn whose clarification it was merged with
    filled,     \* and whether that filled every slot
    switched,   \* the turns that dropped a pending clarification
    asked,      \* what each turn asked the user
    reload,     \* pending clarification in the memory read again at the end
    faults,     \* failed reads and writes so far
    lost,       \* one of them was a write
    overlapped  \* two turns were running at the same time

turnVars == <<kept, merged, filled, switched, asked, reload>>
faultVars == <<faults, lost>>
vars == <<slot, turnVars, pc, faultVars, overlapped>>

None == 0
NotAsked == [question |-> None, thread |-> None, count |-> 0]

Ended == {"asked", "success", "chat", "failed"}
Running == {"route", "fresh", "query", "clarify", "reply", "clear", "reload", "summary"}

Init ==
    /\ slot = None
    /\ pc = [t \in Turns |-> "idle"]
    /\ kept = [t \in Turns |-> None]
    /\ merged = [t \in Turns |-> None]
    /\ filled = {} /\ switched = {}
    /\ asked = [t \in Turns |-> NotAsked]
    /\ reload = [t \in Turns |-> None]
    /\ faults = 0 /\ lost = FALSE
    /\ overlapped = FALSE

Goto(t, place) == pc' = [pc EXCEPT ![t] = place]

\* A pending clarification; the slot and the turns hold the turn that saved it
\* and find its contents in asked.
Question(p) == asked[p].question
Thread(p) == asked[p].thread
Count(p) == IF p = None THEN 0 ELSE asked[p].count

NoFault == UNCHANGED faultVars

Fault ==
    /\ faults < MaxFaults
    /\ faults' = faults + 1

\* save_pending_clarification: its commit makes p the pending clarification,
\* and an error on the way is logged and swallowed.
Save(p) ==
    \/ slot' = p /\ NoFault
    \/ Fault /\ lost' = TRUE /\ UNCHANGED slot

ClearPending == Save(None)

----------------------------------------------------------------------------

\* A turn starts and loads the memory of its session (None after an error).
LoadSessionMemory(t) ==
    /\ pc[t] = "idle"
    /\ \A u \in 1 .. t - 1 : pc[u] # "idle"
    /\ Goto(t, "route")
    /\ \/ kept' = [kept EXCEPT ![t] = slot] /\ NoFault
       \/ Fault /\ UNCHANGED <<kept, lost>>
    /\ overlapped' = (overlapped \/ \E u \in Turns : pc[u] \in Running)
    /\ UNCHANGED <<slot, merged, filled, switched, asked, reload>>

\* dialogue_gate_enabled is off: the question is run as it is.
GateDisabled(t) ==
    /\ pc[t] = "route"
    /\ Goto(t, "query")
    /\ UNCHANGED <<slot, turnVars, faultVars, overlapped>>

\* A new topic or a cancel: the pending clarification is cleared in the
\* database and the question is routed as if there were none.  The one in the
\* state of the graph stays.
SwitchTopic(t) ==
    /\ pc[t] = "route" /\ kept[t] # None
    /\ switched' = switched \cup {t}
    /\ ClearPending
    /\ Goto(t, "fresh")
    /\ UNCHANGED <<kept, merged, filled, asked, reload, overlapped>>

\* The merged question still lacks a slot: ask again, at the limit too.
StillMissing(t) ==
    /\ pc[t] = "route" /\ kept[t] # None
    /\ merged' = [merged EXCEPT ![t] = kept[t]]
    /\ Goto(t, "clarify")
    /\ UNCHANGED <<slot, kept, filled, switched, asked, reload, faultVars, overlapped>>

\* Mutant of MergeAnswer: the clarification is left for the end of the turn.
MergeAnswerKeeps(t) ==
    /\ pc[t] = "route" /\ kept[t] # None
    /\ merged' = [merged EXCEPT ![t] = kept[t]]
    /\ filled' = filled \cup {t}
    /\ kept' = [kept EXCEPT ![t] = None]
    /\ Goto(t, "query")
    /\ UNCHANGED <<slot, switched, asked, reload, faultVars, overlapped>>

\* Every slot is filled: the clarification is cleared, the question is run.
MergeAnswer(t) ==
    /\ pc[t] = "route" /\ kept[t] # None
    /\ merged' = [merged EXCEPT ![t] = kept[t]]
    /\ filled' = filled \cup {t}
    /\ kept' = [kept EXCEPT ![t] = None]
    /\ ClearPending
    /\ Goto(t, "query")
    /\ UNCHANGED <<switched, asked, reload, overlapped>>

\* Routing of a question without a pending clarification (before the model is
\* awaited the clearing of SwitchTopic is already committed).
Fresh(t) == pc[t] = "fresh" \/ (pc[t] = "route" /\ kept[t] = None)

RouteQuery(t) ==
    /\ Fresh(t)
    /\ kept' = [kept EXCEPT ![t] = None]
    /\ Goto(t, "query")
    /\ UNCHANGED <<slot, merged, filled, switched, asked, reload, faultVars, overlapped>>

\* Rules and model gave no route: dialogue_fail_open runs the question.
RouteFailOpen(t) ==
    /\ Fresh(t)
    /\ Goto(t, "query")
    /\ UNCHANGED <<slot, turnVars, faultVars, overlapped>>

RouteClarify(t) ==
    /\ Fresh(t)
    /\ Goto(t, "clarify")
    /\ UNCHANGED <<slot, turnVars, faultVars, overlapped>>

\* Small talk, out of scope (also when fail_open is off), or a cancel, which
\* clears on its own.
RouteReply(t) ==
    /\ Fresh(t)
    /\ ClearPending \/ UNCHANGED <<slot, faultVars>>
    /\ Goto(t, "reply")
    /\ UNCHANGED <<turnVars, overlapped>>

ReplyChat(t) ==
    /\ pc[t] = "reply"
    /\ ClearPending
    /\ Goto(t, "chat")
    /\ UNCHANGED <<turnVars, overlapped>>

\* Mutant of Ask: the count starts at zero.
AskCountsFromZero(t) ==
    [question |-> IF kept[t] = None THEN t ELSE Question(kept[t]),
     thread |-> IF kept[t] = None THEN t ELSE Thread(kept[t]),
     count |-> Count(kept[t])]

\* What ask_clarification saves: question, thread and count go on from the
\* pending clarification in the state of the graph.
Ask(t) ==
    [question |-> IF kept[t] = None THEN t ELSE Question(kept[t]),
     thread |-> IF kept[t] = None THEN t ELSE Thread(kept[t]),
     count |-> Count(kept[t]) + 1]

AskClarification(t) ==
    /\ pc[t] = "clarify"
    /\ asked' = [asked EXCEPT ![t] = Ask(t)]
    /\ Save(t)
    /\ Goto(t, "asked")
    /\ UNCHANGED <<kept, merged, filled, switched, reload, overlapped>>

\* The recall gate, the plan or the agent finds something to ask.
QueryAsks(t) ==
    /\ pc[t] = "query"
    /\ Goto(t, "clarify")
    /\ UNCHANGED <<slot, turnVars, faultVars, overlapped>>

QuerySucceeds(t) ==
    /\ pc[t] = "query"
    /\ Goto(t, "clear")
    /\ UNCHANGED <<slot, turnVars, faultVars, overlapped>>

\* The turn ends otherwise: it fails, is out of scope after the recall, is
\* cancelled, or raises on the way (after its success was stored too).
TurnFails(t) ==
    /\ pc[t] \in Running
    /\ Goto(t, "failed")
    /\ UNCHANGED <<slot, turnVars, faultVars, overlapped>>

\* _finalize_ask_run after a success: clear and commit ...
ClearAfterSuccess(t) ==
    /\ pc[t] = "clear"
    /\ ClearPending
    /\ Goto(t, "reload")
    /\ UNCHANGED <<turnVars, overlapped>>

\* ... read the memory again: with fewer than three successful turns, or
\* after an error, nothing else is written ...
ReloadMemory(t) ==
    /\ pc[t] = "reload"
    /\ \/ Goto(t, "success") /\ UNCHANGED reload
       \/ Goto(t, "summary") /\ reload' = [reload EXCEPT ![t] = slot]
    /\ UNCHANGED <<slot, kept, merged, filled, switched, asked, faultVars, overlapped>>

\* Mutant of UpdateSessionSummary: it keeps what the turn has loaded.
UpdateSummaryKeepsLoaded(t) ==
    /\ pc[t] = "summary"
    /\ slot' = kept[t]
    /\ Goto(t, "success")
    /\ UNCHANGED <<turnVars, faultVars, overlapped>>

\* ... and write the summary, with the pending clarification as it was read.
UpdateSessionSummary(t) ==
    /\ pc[t] = "summary"
    /\ slot' = reload[t]
    /\ Goto(t, "success")
    /\ UNCHANGED <<turnVars, faultVars, overlapped>>

Turn(t) ==
    \/ LoadSessionMemory(t)
    \/ GateDisabled(t) \/ SwitchTopic(t) \/ StillMissing(t) \/ MergeAnswer(t)
    \/ RouteQuery(t) \/ RouteFailOpen(t) \/ RouteClarify(t) \/ RouteReply(t)
    \/ ReplyChat(t) \/ AskClarification(t)
    \/ QueryAsks(t) \/ QuerySucceeds(t) \/ TurnFails(t)
    \/ ClearAfterSuccess(t) \/ ReloadMemory(t) \/ UpdateSessionSummary(t)

Next == \E t \in Turns : Turn(t)

Spec == Init /\ [][Next]_vars

----------------------------------------------------------------------------
(* Properties *)

Pending == Turns \cup {None}

TypeOK ==
    /\ slot \in Pending
    /\ pc \in [Turns -> {"idle"} \cup Running \cup Ended]
    /\ kept \in [Turns -> Pending]
    /\ merged \in [Turns -> Pending]
    /\ filled \subseteq Turns /\ switched \subseteq Turns
    /\ asked \in [Turns -> {NotAsked} \cup [question : Turns, thread : Turns, count : Turns]]
    /\ reload \in [Turns -> Pending]
    /\ faults \in 0 .. MaxFaults /\ lost \in BOOLEAN
    /\ overlapped \in BOOLEAN

\* The turns of the session did not overlap and no write was lost.
InOrder == ~overlapped /\ ~lost

Latest(t) == pc[t] \in Ended /\ \A u \in Turns : u > t => pc[u] = "idle"

\* Between two turns the stored clarification is the one the user was asked
\* last, and none after an answer or a reply; a turn that failed leaves the
\* one it found or none.  So an answer is never added to a finished question.
SlotFollowsLatest ==
    InOrder => \A t \in Turns : Latest(t) =>
        /\ pc[t] = "asked" => slot = t
        /\ pc[t] \in {"success", "chat"} => slot = None
        /\ pc[t] = "failed" /\ kept[t] # None => slot \in {kept[t], None}

\* A clarification whose slots were all filled is not merged into a second
\* question: what was asked and answered is over, even if the turn that
\* answered it failed.
AnsweredOnce ==
    InOrder => \A t \in filled, u \in Turns : u > t => merged[u] # merged[t]

\* docs/16-DIALOGUE_GATE_PLAN.md:525: after a change of topic the old half
\* question is dropped, and the new one is not joined to it.  The code violates it,
\* see the README.
SwitchForgetsTopic ==
    \A t \in switched : asked[t] # NotAsked => asked[t].question = t

=============================================================================
