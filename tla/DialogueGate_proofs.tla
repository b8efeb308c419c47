-------------------------- MODULE DialogueGate_proofs --------------------------
(* Theorems about DialogueGate, for any number of turns and faults. *)
EXTENDS DialogueGate, TLAPS

----------------------------------------------------------------------------
(* Types.  That ask_count stays within the number of turns, and that there *)
(* is a question behind every clarification taken up, needs RefInv.        *)

WasAsked(p) == p # None => pc[p] = "asked"

\* Turns start in order; whatever is referred to was asked, and by an earlier
\* turn if it was loaded; so no clarification counts more than the turns so far.
RefInv ==
    /\ \A t \in Turns, u \in Turns : t < u /\ pc[u] # "idle" => pc[t] # "idle"
    /\ WasAsked(slot)
    /\ \A t \in Turns :
        /\ WasAsked(kept[t]) /\ WasAsked(merged[t]) /\ WasAsked(reload[t])
        /\ kept[t] < t
        /\ pc[t] = "asked" => asked[t] # NotAsked
        /\ asked[t].count <= t

Records == [question : Turns, thread : Turns, count : Turns]

LEMMA RefInit == Init => TypeOK /\ RefInv
<1> SUFFICES ASSUME Init PROVE TypeOK /\ RefInv
  OBVIOUS
<1>1. RefInv
  BY DEF Init, RefInv, WasAsked, NotAsked, None, Turns
<1>2. lost \in BOOLEAN /\ overlapped \in BOOLEAN
  BY Zenon DEF Init
<1>3. faults \in 0 .. MaxFaults
  BY DialogueGateAssumption DEF Init
<1>4. asked \in [Turns -> {NotAsked} \cup Records]
  BY DEF Init
<1> QED
  BY <1>1, <1>2, <1>3, <1>4 DEF Init, TypeOK, Pending, Running, Records

\* What ask_clarification saves is a record with a count of at most t.
LEMMA AskType ==
    ASSUME TypeOK, RefInv, NEW t \in Turns
    PROVE  Ask(t) \in Records /\ Ask(t).count <= t /\ Ask(t) # NotAsked
<1>1. CASE kept[t] = None
  <2>1. Ask(t) = [question |-> t, thread |-> t, count |-> 1]
    BY <1>1 DEF Ask, Count
  <2>2. Ask(t).question # NotAsked.question
    BY <2>1 DEF NotAsked, None, Turns
  <2> QED
    BY <2>1, <2>2, DialogueGateAssumption DEF Records, Turns
<1>2. CASE kept[t] # None
  <2>1. kept[t] \in Turns /\ kept[t] < t
    BY <1>2 DEF TypeOK, Pending, RefInv
  <2>2. asked[kept[t]] \in Records /\ asked[kept[t]].count <= kept[t]
    BY <1>2, <2>1 DEF TypeOK, RefInv, WasAsked, Records
  <2>3. asked[kept[t]].question \in Turns /\ asked[kept[t]].thread \in Turns
        /\ asked[kept[t]].count \in Turns
    BY <2>2 DEF Records
  <2>4. Ask(t) = [question |-> asked[kept[t]].question,
                  thread |-> asked[kept[t]].thread,
                  count |-> asked[kept[t]].count + 1]
    BY <1>2 DEF Ask, Question, Thread, Count
  <2>5. asked[kept[t]].count + 1 \in Turns /\ asked[kept[t]].count + 1 <= t
    BY <2>1, <2>2, <2>3, DialogueGateAssumption DEF Turns
  <2>6. asked[kept[t]].question # None
    BY <2>3 DEF Turns, None
  <2> QED
    BY <2>3, <2>4, <2>5, <2>6 DEF Records, NotAsked
<1> QED
  BY <1>1, <1>2

LEMMA SaveType ==
    ASSUME TypeOK, NEW p \in Pending, Save(p)
    PROVE  slot' \in Pending /\ faults' \in 0 .. MaxFaults /\ lost' \in BOOLEAN
<1>1. CASE slot' = p /\ NoFault
  BY <1>1 DEF TypeOK, NoFault, faultVars
<1>2. CASE Fault /\ lost' = TRUE /\ UNCHANGED slot
  BY <1>2, DialogueGateAssumption DEF TypeOK, Fault
<1> QED
  BY <1>1, <1>2 DEF Save

LEMMA TypeStep == TypeOK /\ RefInv /\ [Next]_vars => TypeOK'
<1> SUFFICES ASSUME TypeOK, RefInv, [Next]_vars PROVE TypeOK'
  OBVIOUS
<1> USE DialogueGateAssumption DEF TypeOK, Pending, Running, Ended
<1>1. ASSUME NEW t \in Turns, LoadSessionMemory(t) PROVE TypeOK'
  <2>1. overlapped' \in BOOLEAN
    BY <1>1, Zenon DEF LoadSessionMemory
  <2>2. kept' \in [Turns -> Pending] /\ faults' \in 0 .. MaxFaults /\ lost' \in BOOLEAN
    BY <1>1 DEF LoadSessionMemory, Fault, NoFault, faultVars
  <2>3. pc' \in [Turns -> {"idle"} \cup Running \cup Ended]
    BY <1>1 DEF LoadSessionMemory, Goto
  <2> QED
    BY <1>1, <2>1, <2>2, <2>3 DEF LoadSessionMemory
<1>2. ASSUME NEW t \in Turns, GateDisabled(t) PROVE TypeOK'
  BY <1>2 DEF GateDisabled, Goto, turnVars, faultVars
<1>3. ASSUME NEW t \in Turns, SwitchTopic(t) PROVE TypeOK'
  <2>1. slot' \in Pending /\ faults' \in 0 .. MaxFaults /\ lost' \in BOOLEAN
    BY <1>3, SaveType DEF SwitchTopic, ClearPending
  <2> QED
    BY <1>3, <2>1 DEF SwitchTopic, Goto, turnVars
<1>4. ASSUME NEW t \in Turns, StillMissing(t) PROVE TypeOK'
  BY <1>4 DEF StillMissing, Goto, turnVars, faultVars
<1>5. ASSUME NEW t \in Turns, MergeAnswer(t) PROVE TypeOK'
  <2>1. slot' \in Pending /\ faults' \in 0 .. MaxFaults /\ lost' \in BOOLEAN
    BY <1>5, SaveType DEF MergeAnswer, ClearPending
  <2> QED
    BY <1>5, <2>1 DEF MergeAnswer, Goto, turnVars
<1>6. ASSUME NEW t \in Turns, RouteQuery(t) PROVE TypeOK'
  BY <1>6 DEF RouteQuery, Goto, turnVars, faultVars, Fresh
<1>7. ASSUME NEW t \in Turns, RouteFailOpen(t) PROVE TypeOK'
  BY <1>7 DEF RouteFailOpen, Goto, turnVars, faultVars, Fresh
<1>8. ASSUME NEW t \in Turns, RouteClarify(t) PROVE TypeOK'
  BY <1>8 DEF RouteClarify, Goto, turnVars, faultVars, Fresh
<1>9. ASSUME NEW t \in Turns, RouteReply(t) PROVE TypeOK'
  <2>1. slot' \in Pending /\ faults' \in 0 .. MaxFaults /\ lost' \in BOOLEAN
    BY <1>9, SaveType DEF RouteReply, ClearPending, faultVars
  <2> QED
    BY <1>9, <2>1 DEF RouteReply, Goto, turnVars, Fresh
<1>10. ASSUME NEW t \in Turns, ReplyChat(t) PROVE TypeOK'
  <2>1. slot' \in Pending /\ faults' \in 0 .. MaxFaults /\ lost' \in BOOLEAN
    BY <1>10, SaveType DEF ReplyChat, ClearPending
  <2> QED
    BY <1>10, <2>1 DEF ReplyChat, Goto, turnVars
<1>11. ASSUME NEW t \in Turns, AskClarification(t) PROVE TypeOK'
  <2>1. Ask(t) \in Records
    BY AskType
  <2>2. asked' \in [Turns -> {NotAsked} \cup [question : Turns, thread : Turns, count : Turns]]
    BY <1>11, <2>1 DEF AskClarification, Records
  <2>3. slot' \in Pending /\ faults' \in 0 .. MaxFaults /\ lost' \in BOOLEAN
    BY <1>11, SaveType DEF AskClarification, Pending
  <2>4. pc' \in [Turns -> {"idle"} \cup Running \cup Ended]
    BY <1>11 DEF AskClarification, Goto
  <2> QED
    BY <1>11, <2>2, <2>3, <2>4 DEF AskClarification
<1>12. ASSUME NEW t \in Turns, QueryAsks(t) PROVE TypeOK'
  BY <1>12 DEF QueryAsks, Goto, turnVars, faultVars
<1>13. ASSUME NEW t \in Turns, QuerySucceeds(t) PROVE TypeOK'
  BY <1>13 DEF QuerySucceeds, Goto, turnVars, faultVars
<1>14. ASSUME NEW t \in Turns, TurnFails(t) PROVE TypeOK'
  BY <1>14 DEF TurnFails, Goto, turnVars, faultVars
<1>15. ASSUME NEW t \in Turns, ClearAfterSuccess(t) PROVE TypeOK'
  <2>1. slot' \in Pending /\ faults' \in 0 .. MaxFaults /\ lost' \in BOOLEAN
    BY <1>15, SaveType DEF ClearAfterSuccess, ClearPending
  <2> QED
    BY <1>15, <2>1 DEF ClearAfterSuccess, Goto, turnVars
<1>16. ASSUME NEW t \in Turns, ReloadMemory(t) PROVE TypeOK'
  BY <1>16 DEF ReloadMemory, Goto, turnVars, faultVars
<1>17. ASSUME NEW t \in Turns, UpdateSessionSummary(t) PROVE TypeOK'
  BY <1>17 DEF UpdateSessionSummary, Goto, turnVars, faultVars
<1>18. CASE UNCHANGED vars
  BY <1>18 DEF vars, turnVars, faultVars
<1> QED
  BY <1>1, <1>2, <1>3, <1>4, <1>5, <1>6, <1>7, <1>8, <1>9,
     <1>10, <1>11, <1>12, <1>13, <1>14, <1>15, <1>16, <1>17, <1>18
  DEF Next, Turn

LEMMA RefStep == TypeOK /\ RefInv /\ [Next]_vars => RefInv'
<1> SUFFICES ASSUME TypeOK, RefInv, [Next]_vars PROVE RefInv'
  OBVIOUS
<1> USE DialogueGateAssumption DEF TypeOK, RefInv, WasAsked, Pending, Running, Ended, None, Turns
<1>1. ASSUME NEW t \in Turns, LoadSessionMemory(t) PROVE RefInv'
  <2>1. kept'[t] \in {slot, kept[t]} /\ \A u \in Turns \ {t} : kept'[u] = kept[u]
    BY <1>1 DEF LoadSessionMemory
  <2>2. slot # None => slot < t
    BY <1>1 DEF LoadSessionMemory
  <2>3. pc' = [pc EXCEPT ![t] = "route"] /\ slot' = slot /\ merged' = merged
        /\ asked' = asked /\ reload' = reload
    BY <1>1 DEF LoadSessionMemory, Goto
  <2>4. \A u \in Turns : pc[u] = "asked" <=> pc'[u] = "asked"
    BY <1>1, <2>3 DEF LoadSessionMemory
  <2>5. \A u \in Turns, v \in Turns : u < v /\ pc'[v] # "idle" => pc'[u] # "idle"
    BY <1>1, <2>3 DEF LoadSessionMemory
  <2>6. \A u \in Turns : WasAsked(kept[u])' /\ kept'[u] < u
    BY <2>1, <2>2, <2>4
  <2>7. WasAsked(slot)' /\ \A u \in Turns : WasAsked(merged[u])' /\ WasAsked(reload[u])'
    BY <2>3, <2>4
  <2>8. \A u \in Turns : /\ pc'[u] = "asked" => asked'[u] # NotAsked
                         /\ asked'[u].count <= u
    BY <2>3, <2>4
  <2> QED
    BY <2>5, <2>6, <2>7, <2>8
<1>2. ASSUME NEW t \in Turns, GateDisabled(t) PROVE RefInv'
  BY <1>2 DEF GateDisabled, Goto, turnVars, faultVars
<1>3. ASSUME NEW t \in Turns, SwitchTopic(t) PROVE RefInv'
  BY <1>3 DEF SwitchTopic, Goto, turnVars, faultVars, ClearPending, Save, Fault, NoFault
<1>4. ASSUME NEW t \in Turns, StillMissing(t) PROVE RefInv'
  BY <1>4 DEF StillMissing, Goto, turnVars, faultVars
<1>5. ASSUME NEW t \in Turns, MergeAnswer(t) PROVE RefInv'
  BY <1>5 DEF MergeAnswer, Goto, turnVars, faultVars, ClearPending, Save, Fault, NoFault
<1>6. ASSUME NEW t \in Turns, RouteQuery(t) PROVE RefInv'
  BY <1>6 DEF RouteQuery, Goto, turnVars, faultVars, Fresh
<1>7. ASSUME NEW t \in Turns, RouteFailOpen(t) PROVE RefInv'
  BY <1>7 DEF RouteFailOpen, Goto, turnVars, faultVars, Fresh
<1>8. ASSUME NEW t \in Turns, RouteClarify(t) PROVE RefInv'
  BY <1>8 DEF RouteClarify, Goto, turnVars, faultVars, Fresh
<1>9. ASSUME NEW t \in Turns, RouteReply(t) PROVE RefInv'
  BY <1>9 DEF RouteReply, Goto, turnVars, faultVars, Fresh, ClearPending, Save, Fault, NoFault
<1>10. ASSUME NEW t \in Turns, ReplyChat(t) PROVE RefInv'
  BY <1>10 DEF ReplyChat, Goto, turnVars, faultVars, ClearPending, Save, Fault, NoFault
<1>11. ASSUME NEW t \in Turns, AskClarification(t) PROVE RefInv'
  <2>1. Ask(t).count <= t /\ Ask(t) # NotAsked
    BY AskType
  <2>2. asked' = [asked EXCEPT ![t] = Ask(t)]
    BY <1>11 DEF AskClarification
  <2>3. \A u \in Turns : /\ asked'[u].count <= u
                         /\ pc'[u] = "asked" => asked'[u] # NotAsked
    BY <1>11, <2>1, <2>2 DEF AskClarification, Goto
  <2>4. slot' \in {slot, t} /\ pc' = [pc EXCEPT ![t] = "asked"]
        /\ UNCHANGED <<kept, merged, reload>>
    BY <1>11 DEF AskClarification, Save, Goto
  <2> QED
    BY <1>11, <2>3, <2>4 DEF AskClarification
<1>12. ASSUME NEW t \in Turns, QueryAsks(t) PROVE RefInv'
  BY <1>12 DEF QueryAsks, Goto, turnVars, faultVars
<1>13. ASSUME NEW t \in Turns, QuerySucceeds(t) PROVE RefInv'
  BY <1>13 DEF QuerySucceeds, Goto, turnVars, faultVars
<1>14. ASSUME NEW t \in Turns, TurnFails(t) PROVE RefInv'
  BY <1>14 DEF TurnFails, Goto, turnVars, faultVars
<1>15. ASSUME NEW t \in Turns, ClearAfterSuccess(t) PROVE RefInv'
  BY <1>15 DEF ClearAfterSuccess, Goto, turnVars, faultVars, ClearPending, Save, Fault, NoFault
<1>16. ASSUME NEW t \in Turns, ReloadMemory(t) PROVE RefInv'
  <2>1. \A u \in Turns : reload'[u] \in {reload[u], slot}
    BY <1>16 DEF ReloadMemory
  <2>2. \A u \in Turns : /\ pc[u] = "asked" <=> pc'[u] = "asked"
                         /\ pc[u] = "idle" <=> pc'[u] = "idle"
    BY <1>16 DEF ReloadMemory, Goto
  <2>3. UNCHANGED <<slot, kept, merged, asked>>
    BY <1>16 DEF ReloadMemory
  <2> QED
    BY <2>1, <2>2, <2>3
<1>17. ASSUME NEW t \in Turns, UpdateSessionSummary(t) PROVE RefInv'
  BY <1>17 DEF UpdateSessionSummary, Goto, turnVars, faultVars
<1>18. CASE UNCHANGED vars
  BY <1>18 DEF vars, turnVars, faultVars
<1> QED
  BY <1>1, <1>2, <1>3, <1>4, <1>5, <1>6, <1>7, <1>8, <1>9,
     <1>10, <1>11, <1>12, <1>13, <1>14, <1>15, <1>16, <1>17, <1>18
  DEF Next, Turn

\* Every reachable state is well typed: ask_count never exceeds the turns.
THEOREM TypeCorrect == Spec => []TypeOK
<1> QED
  BY RefInit, TypeStep, RefStep, PTL DEF Spec

----------------------------------------------------------------------------
(* Turns that follow each other *)

\* Without an overlap only the latest turn runs.
SeqInv ==
    ~overlapped => \A t \in Turns, u \in Turns :
        t < u /\ pc[u] # "idle" => pc[t] \in Ended

\* The strengthening of SlotFollowsLatest and AnsweredOnce: what the running
\* turn holds agrees with the slot, and the slot never goes back to a
\* clarification that was answered.
FollowInv ==
    InOrder =>
        /\ \A t \in Turns :
            /\ pc[t] = "idle" =>
                 merged[t] = None /\ kept[t] = None /\ t \notin filled
            /\ pc[t] = "route" => kept[t] \in {slot, None} /\ t \notin filled
            /\ pc[t] \in Running /\ kept[t] # None => slot \in {kept[t], None}
            /\ pc[t] \in {"reload", "summary"} => slot = None
            /\ pc[t] = "summary" => reload[t] = None
        /\ \A t \in filled : merged[t] # None /\ merged[t] # slot
        /\ \A t \in filled, u \in Turns : u > t => merged[u] # merged[t]
        /\ \A t \in Turns : Latest(t) =>
            /\ pc[t] = "asked" => slot = t
            /\ pc[t] \in {"success", "chat"} => slot = None
            /\ pc[t] = "failed" /\ kept[t] # None => slot \in {kept[t], None}

LEMMA SeqStep == TypeOK /\ RefInv /\ SeqInv /\ [Next]_vars => SeqInv'
<1> SUFFICES ASSUME TypeOK, RefInv, SeqInv, [Next]_vars PROVE SeqInv'
  OBVIOUS
<1> USE DEF TypeOK, RefInv, SeqInv, Running, Ended, Turns
<1>1. ASSUME NEW t \in Turns, LoadSessionMemory(t) PROVE SeqInv'
  <2>1. ~overlapped' => ~overlapped /\ \A u \in Turns : pc[u] \notin Running
    BY <1>1, Zenon DEF LoadSessionMemory
  <2>2. pc' = [pc EXCEPT ![t] = "route"] /\ pc[t] = "idle"
        /\ \A u \in 1 .. t - 1 : pc[u] # "idle"
    BY <1>1 DEF LoadSessionMemory, Goto
  <2> QED
    BY <2>1, <2>2
<1>2. ASSUME NEW t \in Turns, GateDisabled(t) PROVE SeqInv'
  BY <1>2 DEF GateDisabled, Goto, turnVars, faultVars
<1>3. ASSUME NEW t \in Turns, SwitchTopic(t) PROVE SeqInv'
  BY <1>3 DEF SwitchTopic, Goto, turnVars, faultVars, ClearPending, Save, Fault, NoFault
<1>4. ASSUME NEW t \in Turns, StillMissing(t) PROVE SeqInv'
  BY <1>4 DEF StillMissing, Goto, turnVars, faultVars
<1>5. ASSUME NEW t \in Turns, MergeAnswer(t) PROVE SeqInv'
  BY <1>5 DEF MergeAnswer, Goto, turnVars, faultVars, ClearPending, Save, Fault, NoFault
<1>6. ASSUME NEW t \in Turns, RouteQuery(t) PROVE SeqInv'
  BY <1>6 DEF RouteQuery, Goto, turnVars, faultVars, Fresh
<1>7. ASSUME NEW t \in Turns, RouteFailOpen(t) PROVE SeqInv'
  BY <1>7 DEF RouteFailOpen, Goto, turnVars, faultVars, Fresh
<1>8. ASSUME NEW t \in Turns, RouteClarify(t) PROVE SeqInv'
  BY <1>8 DEF RouteClarify, Goto, turnVars, faultVars, Fresh
<1>9. ASSUME NEW t \in Turns, RouteReply(t) PROVE SeqInv'
  BY <1>9 DEF RouteReply, Goto, turnVars, faultVars, Fresh, ClearPending, Save, Fault, NoFault
<1>10. ASSUME NEW t \in Turns, ReplyChat(t) PROVE SeqInv'
  BY <1>10 DEF ReplyChat, Goto, turnVars, faultVars, ClearPending, Save, Fault, NoFault
<1>11. ASSUME NEW t \in Turns, AskClarification(t) PROVE SeqInv'
  BY <1>11 DEF AskClarification, Goto, turnVars, faultVars, Save, Fault, NoFault
<1>12. ASSUME NEW t \in Turns, QueryAsks(t) PROVE SeqInv'
  BY <1>12 DEF QueryAsks, Goto, turnVars, faultVars
<1>13. ASSUME NEW t \in Turns, QuerySucceeds(t) PROVE SeqInv'
  BY <1>13 DEF QuerySucceeds, Goto, turnVars, faultVars
<1>14. ASSUME NEW t \in Turns, TurnFails(t) PROVE SeqInv'
  BY <1>14 DEF TurnFails, Goto, turnVars, faultVars
<1>15. ASSUME NEW t \in Turns, ClearAfterSuccess(t) PROVE SeqInv'
  BY <1>15 DEF ClearAfterSuccess, Goto, turnVars, faultVars, ClearPending, Save, Fault, NoFault
<1>16. ASSUME NEW t \in Turns, ReloadMemory(t) PROVE SeqInv'
  BY <1>16 DEF ReloadMemory, Goto, turnVars, faultVars
<1>17. ASSUME NEW t \in Turns, UpdateSessionSummary(t) PROVE SeqInv'
  BY <1>17 DEF UpdateSessionSummary, Goto, turnVars, faultVars
<1>18. CASE UNCHANGED vars
  BY <1>18 DEF vars, turnVars, faultVars
<1> QED
  BY <1>1, <1>2, <1>3, <1>4, <1>5, <1>6, <1>7, <1>8, <1>9,
     <1>10, <1>11, <1>12, <1>13, <1>14, <1>15, <1>16, <1>17, <1>18
  DEF Next, Turn

\* While one turn runs, the earlier ones have ended and the others are idle.
LEMMA OnlyOneRuns ==
    ASSUME TypeOK, SeqInv, ~overlapped, NEW t \in Turns, pc[t] \in Running
    PROVE  \A u \in Turns : /\ u < t => pc[u] \in Ended
                            /\ u > t => pc[u] = "idle"
                            /\ u # t => pc[u] \notin Running
BY DEF TypeOK, SeqInv, Running, Ended, Turns

LEMMA FollowStep ==
    TypeOK /\ RefInv /\ SeqInv /\ FollowInv /\ [Next]_vars => FollowInv'
<1> SUFFICES ASSUME TypeOK, RefInv, SeqInv, FollowInv, [Next]_vars, InOrder'
             PROVE  FollowInv'
  BY DEF FollowInv
<1>0. InOrder
  <2>1. overlapped => overlapped'
    <3>1. ASSUME NEW t \in Turns, Turn(t) PROVE overlapped => overlapped'
      BY <3>1 DEF Turn, AskClarification, ClearAfterSuccess, GateDisabled, LoadSessionMemory, MergeAnswer, QueryAsks, QuerySucceeds, ReloadMemory, ReplyChat, RouteClarify, RouteFailOpen, RouteQuery, RouteReply, StillMissing, SwitchTopic, TurnFails, UpdateSessionSummary
    <3> QED
      BY <3>1 DEF Next, vars
  <2>2. lost => lost'
    <3>1. ASSUME NEW t \in Turns, Turn(t) PROVE lost => lost'
      BY <3>1 DEF Turn, AskClarification, ClearAfterSuccess, GateDisabled, LoadSessionMemory, MergeAnswer, QueryAsks, QuerySucceeds, ReloadMemory, ReplyChat, RouteClarify, RouteFailOpen, RouteQuery, RouteReply, StillMissing, SwitchTopic, TurnFails, UpdateSessionSummary,
           ClearPending, Save, Fault, NoFault, faultVars
    <3> QED
      BY <3>1 DEF Next, vars, faultVars
  <2> QED
    BY <2>1, <2>2 DEF InOrder
<1> USE <1>0 DEF TypeOK, FollowInv, InOrder, Latest, Pending, Running, Ended, None, Turns
<1>1. ASSUME NEW t \in Turns, LoadSessionMemory(t) PROVE FollowInv'
  <2>1. ~overlapped' => ~overlapped /\ \A u \in Turns : pc[u] \notin Running
    BY <1>1, Zenon DEF LoadSessionMemory
  <2>2. \A u \in Turns : /\ u < t => pc[u] \in Ended
                         /\ u > t => pc[u] = "idle"
    BY <1>1, <2>1 DEF LoadSessionMemory, SeqInv, RefInv
  <2>3. /\ pc' = [pc EXCEPT ![t] = "route"] /\ pc[t] = "idle"
        /\ kept'[t] \in {slot, kept[t]} /\ \A u \in Turns \ {t} : kept'[u] = kept[u]
        /\ UNCHANGED <<slot, merged, filled, reload>>
    BY <1>1 DEF LoadSessionMemory, Goto
  <2>4. kept[t] = None
    BY <2>3
  <2> QED
    BY <2>2, <2>3, <2>4
<1>2. ASSUME NEW t \in Turns, GateDisabled(t) PROVE FollowInv'
  <2>1. \A u \in Turns : /\ u < t => pc[u] \in Ended
                         /\ u > t => pc[u] = "idle"
                         /\ u # t => pc[u] \notin Running
    BY <1>2, OnlyOneRuns DEF GateDisabled
  <2> QED
    BY <1>2, <2>1 DEF GateDisabled, Goto, turnVars, faultVars
<1>3. ASSUME NEW t \in Turns, SwitchTopic(t) PROVE FollowInv'
  <2>1. \A u \in Turns : /\ u < t => pc[u] \in Ended
                         /\ u > t => pc[u] = "idle"
                         /\ u # t => pc[u] \notin Running
    BY <1>3, OnlyOneRuns DEF SwitchTopic
  <2> QED
    BY <1>3, <2>1 DEF SwitchTopic, Goto, turnVars, faultVars, ClearPending, Save, Fault, NoFault
<1>4. ASSUME NEW t \in Turns, StillMissing(t) PROVE FollowInv'
  <2>1. \A u \in Turns : /\ u < t => pc[u] \in Ended
                         /\ u > t => pc[u] = "idle"
                         /\ u # t => pc[u] \notin Running
    BY <1>4, OnlyOneRuns DEF StillMissing
  <2> QED
    BY <1>4, <2>1 DEF StillMissing, Goto, turnVars, faultVars
<1>5. ASSUME NEW t \in Turns, MergeAnswer(t) PROVE FollowInv'
  <2>1. \A u \in Turns : /\ u < t => pc[u] \in Ended
                         /\ u > t => pc[u] = "idle"
                         /\ u # t => pc[u] \notin Running
    BY <1>5, OnlyOneRuns DEF MergeAnswer
  <2> QED
    BY <1>5, <2>1 DEF MergeAnswer, Goto, turnVars, faultVars, ClearPending, Save, Fault, NoFault
<1>6. ASSUME NEW t \in Turns, RouteQuery(t) PROVE FollowInv'
  <2>1. \A u \in Turns : /\ u < t => pc[u] \in Ended
                         /\ u > t => pc[u] = "idle"
                         /\ u # t => pc[u] \notin Running
    BY <1>6, OnlyOneRuns DEF RouteQuery, Fresh
  <2> QED
    BY <1>6, <2>1 DEF RouteQuery, Goto, turnVars, faultVars, Fresh
<1>7. ASSUME NEW t \in Turns, RouteFailOpen(t) PROVE FollowInv'
  <2>1. \A u \in Turns : /\ u < t => pc[u] \in Ended
                         /\ u > t => pc[u] = "idle"
                         /\ u # t => pc[u] \notin Running
    BY <1>7, OnlyOneRuns DEF RouteFailOpen, Fresh
  <2> QED
    BY <1>7, <2>1 DEF RouteFailOpen, Goto, turnVars, faultVars, Fresh
<1>8. ASSUME NEW t \in Turns, RouteClarify(t) PROVE FollowInv'
  <2>1. \A u \in Turns : /\ u < t => pc[u] \in Ended
                         /\ u > t => pc[u] = "idle"
                         /\ u # t => pc[u] \notin Running
    BY <1>8, OnlyOneRuns DEF RouteClarify, Fresh
  <2> QED
    BY <1>8, <2>1 DEF RouteClarify, Goto, turnVars, faultVars, Fresh
<1>9. ASSUME NEW t \in Turns, RouteReply(t) PROVE FollowInv'
  <2>1. \A u \in Turns : /\ u < t => pc[u] \in Ended
                         /\ u > t => pc[u] = "idle"
                         /\ u # t => pc[u] \notin Running
    BY <1>9, OnlyOneRuns DEF RouteReply, Fresh
  <2> QED
    BY <1>9, <2>1 DEF RouteReply, Goto, turnVars, faultVars, Fresh, ClearPending, Save, Fault, NoFault
<1>10. ASSUME NEW t \in Turns, ReplyChat(t) PROVE FollowInv'
  <2>1. \A u \in Turns : /\ u < t => pc[u] \in Ended
                         /\ u > t => pc[u] = "idle"
                         /\ u # t => pc[u] \notin Running
    BY <1>10, OnlyOneRuns DEF ReplyChat
  <2> QED
    BY <1>10, <2>1 DEF ReplyChat, Goto, turnVars, faultVars, ClearPending, Save, Fault, NoFault
<1>11. ASSUME NEW t \in Turns, AskClarification(t) PROVE FollowInv'
  <2>1. \A u \in Turns : /\ u < t => pc[u] \in Ended
                         /\ u > t => pc[u] = "idle"
                         /\ u # t => pc[u] \notin Running
    BY <1>11, OnlyOneRuns DEF AskClarification
  <2>2. slot' = t /\ pc' = [pc EXCEPT ![t] = "asked"] /\ pc[t] = "clarify"
        /\ UNCHANGED <<kept, merged, filled, reload>>
    BY <1>11 DEF AskClarification, Save, Goto
  <2>3. \A u \in filled : merged[u] # t
    BY <2>2 DEF RefInv, WasAsked
  <2> QED
    BY <2>1, <2>2, <2>3
<1>12. ASSUME NEW t \in Turns, QueryAsks(t) PROVE FollowInv'
  <2>1. \A u \in Turns : /\ u < t => pc[u] \in Ended
                         /\ u > t => pc[u] = "idle"
                         /\ u # t => pc[u] \notin Running
    BY <1>12, OnlyOneRuns DEF QueryAsks
  <2> QED
    BY <1>12, <2>1 DEF QueryAsks, Goto, turnVars, faultVars
<1>13. ASSUME NEW t \in Turns, QuerySucceeds(t) PROVE FollowInv'
  <2>1. \A u \in Turns : /\ u < t => pc[u] \in Ended
                         /\ u > t => pc[u] = "idle"
                         /\ u # t => pc[u] \notin Running
    BY <1>13, OnlyOneRuns DEF QuerySucceeds
  <2> QED
    BY <1>13, <2>1 DEF QuerySucceeds, Goto, turnVars, faultVars
<1>14. ASSUME NEW t \in Turns, TurnFails(t) PROVE FollowInv'
  <2>1. \A u \in Turns : /\ u < t => pc[u] \in Ended
                         /\ u > t => pc[u] = "idle"
                         /\ u # t => pc[u] \notin Running
    BY <1>14, OnlyOneRuns DEF TurnFails
  <2> QED
    BY <1>14, <2>1 DEF TurnFails, Goto, turnVars, faultVars
<1>15. ASSUME NEW t \in Turns, ClearAfterSuccess(t) PROVE FollowInv'
  <2>1. \A u \in Turns : /\ u < t => pc[u] \in Ended
                         /\ u > t => pc[u] = "idle"
                         /\ u # t => pc[u] \notin Running
    BY <1>15, OnlyOneRuns DEF ClearAfterSuccess
  <2> QED
    BY <1>15, <2>1 DEF ClearAfterSuccess, Goto, turnVars, faultVars, ClearPending, Save, Fault, NoFault
<1>16. ASSUME NEW t \in Turns, ReloadMemory(t) PROVE FollowInv'
  <2>1. \A u \in Turns : /\ u < t => pc[u] \in Ended
                         /\ u > t => pc[u] = "idle"
                         /\ u # t => pc[u] \notin Running
    BY <1>16, OnlyOneRuns DEF ReloadMemory
  <2> QED
    BY <1>16, <2>1, ZenonT(60) DEF ReloadMemory, Goto, turnVars, faultVars
<1>17. ASSUME NEW t \in Turns, UpdateSessionSummary(t) PROVE FollowInv'
  <2>1. \A u \in Turns : /\ u < t => pc[u] \in Ended
                         /\ u > t => pc[u] = "idle"
                         /\ u # t => pc[u] \notin Running
    BY <1>17, OnlyOneRuns DEF UpdateSessionSummary
  <2> QED
    BY <1>17, <2>1 DEF UpdateSessionSummary, Goto, turnVars, faultVars
<1>18. CASE UNCHANGED vars
  BY <1>18 DEF vars, turnVars, faultVars
<1> QED
  BY <1>1, <1>2, <1>3, <1>4, <1>5, <1>6, <1>7, <1>8, <1>9,
     <1>10, <1>11, <1>12, <1>13, <1>14, <1>15, <1>16, <1>17, <1>18
  DEF Next, Turn

LEMMA FollowInit == Init => SeqInv /\ FollowInv
BY DEF Init, SeqInv, FollowInv, InOrder, Latest, Running, Ended, None

LEMMA Following == Spec => []FollowInv
<1> QED
  BY RefInit, FollowInit, TypeStep, RefStep, SeqStep, FollowStep, PTL DEF Spec

\* Between two turns the slot holds what the user was asked last, or nothing.
THEOREM SlotCorrect == Spec => []SlotFollowsLatest
<1>1. FollowInv => SlotFollowsLatest
  BY DEF FollowInv, SlotFollowsLatest
<1> QED
  BY <1>1, Following, PTL

\* An answered clarification is never merged into another question.
THEOREM AnsweredOnceCorrect == Spec => []AnsweredOnce
<1>1. FollowInv => AnsweredOnce
  BY DEF FollowInv, AnsweredOnce
<1> QED
  BY <1>1, Following, PTL

=============================================================================
