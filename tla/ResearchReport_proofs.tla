---------------------- MODULE ResearchReport_proofs ----------------------
(* Theorems about ResearchReport, for any finite set of requests and all  *)
(* limits.                                                                *)
EXTENDS ResearchReport, FiniteSetTheorems, TLAPS

----------------------------------------------------------------------------
(* Type correctness *)

\* Some of the sections are no more than all.
LEMMA SectionsType ==
    ASSUME NEW S \in SUBSET Indexes
    PROVE  IsFiniteSet(S) /\ Cardinality(S) \in 0..MaxSections
<1>1. IsFiniteSet(Indexes) /\ Cardinality(Indexes) = MaxSections
  BY FS_Interval, LimitsAreNat DEF Indexes
<1>2. IsFiniteSet(S) /\ Cardinality(S) <= Cardinality(Indexes)
  BY <1>1, FS_Subset
<1>3. Cardinality(S) \in Nat
  BY <1>2, FS_CardinalityType
<1> QED
  BY <1>1, <1>2, <1>3, LimitsAreNat

\* section_done counts a subset of the sections.
LEMMA CountedType ==
    ASSUME NEW f
    PROVE  Counted(f) \in 0..MaxSections
<1> DEFINE C == {i \in Indexes : f[i] \in {"success", "fail"}}
<1>1. C \in SUBSET Indexes
  OBVIOUS
<1> HIDE DEF C
<1>2. Cardinality(C) \in 0..MaxSections
  BY <1>1, SectionsType
<1> QED
  BY <1>2 DEF Counted, C

LEMMA TypeInit == Init => TypeOK
<1> SUFFICES ASSUME Init PROVE TypeOK
  OBVIOUS
<1>1. NoOrigin \in [parent : Reports \cup {None}, fork : 0..MaxSections]
  BY LimitsAreNat DEF NoOrigin
<1>2. origin \in [Reports -> [parent : Reports \cup {None}, fork : 0..MaxSections]]
  BY <1>1 DEF Init
<1>3. /\ section \in [Reports -> [Indexes -> {None, "pending"} \cup Outcomes]]
      /\ results \in [Reports -> [Indexes -> {None} \cup Outcomes]]
      /\ todo \in [Reports -> SUBSET Indexes]
  BY DEF Init
<1>4. /\ pc \in [Reports -> {"idle"} \cup Active \cup Finished \cup Dead]
      /\ row \in [Reports -> {None, "running", "cancelled"} \cup FinalStatuses]
      /\ cpc \in [Reports -> {"idle", "checked", "flagged"}]
  BY DEF Init
<1>5. done \in [Reports -> 0..MaxSections] /\ cur \in [Reports -> 0..MaxSections]
  BY LimitsAreNat DEF Init
<1>6. /\ flags \in SUBSET Reports /\ acked \in SUBSET Reports
      /\ mustStop \in SUBSET Reports
      /\ restarts \in 0..MaxRestarts
  BY LimitsAreNat DEF Init
<1>7. overlapped \in BOOLEAN
  BY Zenon DEF Init
<1> QED
  BY <1>2, <1>3, <1>4, <1>5, <1>6, <1>7 DEF TypeOK

LEMMA TypeStep == TypeOK /\ [Next]_vars => TypeOK'
<1> SUFFICES ASSUME TypeOK, [Next]_vars PROVE TypeOK'
  OBVIOUS
<1> USE LimitsAreNat DEF TypeOK, Active, Finished, Dead, Outcomes, FinalStatuses,
        dbVars, runnerVars, cancelVars
<1>1. ASSUME NEW r \in Reports, Open(r) PROVE TypeOK'
  <2>1. PICK o \in Origins :
           IF BelowLimit
           THEN /\ pc' = [pc EXCEPT ![r] = "planning"]
                /\ origin' = [origin EXCEPT ![r] = o]
                /\ results' = [results EXCEPT ![r] = Inherited(o)]
                /\ overlapped' = (overlapped \/ Planning # {})
           ELSE /\ pc' = [pc EXCEPT ![r] = "refused"]
                /\ UNCHANGED <<origin, results, overlapped>>
    BY <1>1 DEF Open
  <2>2. o \in [parent : Reports \cup {None}, fork : 0..MaxSections]
    BY DEF Origins, NoOrigin, Indexes
  <2>3. Inherited(o) \in [Indexes -> {None} \cup Outcomes]
    <3>1. ASSUME NEW i \in Indexes PROVE Inherited(o)[i] \in {None} \cup Outcomes
      <4>1. CASE o.parent # None /\ i < o.fork
        <5>1. o.parent \in Reports
          BY <2>2, <4>1
        <5>2. section[o.parent][i] \in {None, "pending"} \cup Outcomes
          BY <5>1
        <5> QED
          BY <4>1, <5>2 DEF Inherited, InheritedStatus, None
      <4>2. CASE ~(o.parent # None /\ i < o.fork)
        BY <4>2 DEF Inherited
      <4> QED
        BY <4>1, <4>2
    <3> QED
      BY <3>1 DEF Inherited
  <2>4. overlapped' \in BOOLEAN
    <3>1. CASE BelowLimit
      <4>1. overlapped' = (overlapped \/ Planning # {})
        BY <2>1, <3>1
      <4> QED
        BY <4>1, Zenon
    <3>2. CASE ~BelowLimit
      BY <2>1, <3>2
    <3> QED
      BY <3>1, <3>2
  <2>5. pc' \in [Reports -> {"idle"} \cup Active \cup Finished \cup Dead]
    BY <2>1
  <2>6. origin' \in [Reports -> [parent : Reports \cup {None}, fork : 0..MaxSections]]
    BY <2>1, <2>2, ZenonT(60)
  <2>7. results' \in [Reports -> [Indexes -> {None} \cup Outcomes]]
    BY <2>1, <2>3
  <2> QED
    BY <1>1, <2>4, <2>5, <2>6, <2>7 DEF Open
<1>2. ASSUME NEW r \in Reports, StartFails(r) PROVE TypeOK'
  BY <1>2 DEF StartFails
<1>3. ASSUME NEW r \in Reports, CreateReport(r) PROVE TypeOK'
  <2>1. PICK plan \in Plans(r) :
           /\ todo' = [todo EXCEPT ![r] = plan]
           /\ section' = [section EXCEPT ![r] =
                  [i \in Indexes |-> IF i \in plan THEN "pending" ELSE results[r][i]]]
    BY <1>3 DEF CreateReport
  <2>2. plan \in SUBSET Indexes
    BY DEF Plans
  <2>3. done' \in [Reports -> 0..MaxSections]
    BY <1>3, CountedType DEF CreateReport
  <2> QED
    BY <1>3, <2>1, <2>2, <2>3 DEF CreateReport
<1>4. ASSUME NEW r \in Reports, ClearOldFlag(r) PROVE TypeOK'
  BY <1>4 DEF ClearOldFlag
<1>5. ASSUME NEW r \in Reports, StopCancelled(r) PROVE TypeOK'
  BY <1>5 DEF StopCancelled, LoopHead
<1>6. ASSUME NEW r \in Reports, ReportCancelled(r) PROVE TypeOK'
  BY <1>6 DEF ReportCancelled
<1>7. ASSUME NEW r \in Reports, TotalTimeout(r) PROVE TypeOK'
  BY <1>7 DEF TotalTimeout, LoopHead, LeaveLoop
<1>8. ASSUME NEW r \in Reports, LoopEnds(r) PROVE TypeOK'
  BY <1>8 DEF LoopEnds, LeaveLoop
<1>9. ASSUME NEW r \in Reports, StartSection(r) PROVE TypeOK'
  <2>1. PICK i \in todo[r] : /\ cur' = [cur EXCEPT ![r] = i]
                           /\ todo' = [todo EXCEPT ![r] = @ \ {i}]
    BY <1>9 DEF StartSection
  <2>2. i \in 0..MaxSections
    BY DEF Indexes
  <2>3. cur' \in [Reports -> 0..MaxSections]
    BY <2>1, <2>2
  <2>4. todo' \in [Reports -> SUBSET Indexes]
    BY <2>1
  <2>5. pc' \in [Reports -> {"idle"} \cup Active \cup Finished \cup Dead]
    BY <1>9 DEF StartSection
  <2>6. UNCHANGED <<row, section, done, flags, cpc, acked, mustStop, origin,
                    results, overlapped, restarts>>
    BY <1>9 DEF StartSection
  <2> QED
    BY <2>3, <2>4, <2>5, <2>6
<1>10. ASSUME NEW r \in Reports, SectionAsk(r) PROVE TypeOK'
  <2>1. PICK outcome \in Outcomes :
           results' = [results EXCEPT ![r][cur[r]] = outcome]
    BY <1>10 DEF SectionAsk
  <2>2. results' \in [Reports -> [Indexes -> {None} \cup Outcomes]]
    <3>1. results[r] \in [Indexes -> {None} \cup Outcomes]
      OBVIOUS
    <3> QED
      BY <2>1, <3>1
  <2> QED
    BY <1>10, <2>2 DEF SectionAsk
<1>11. ASSUME NEW r \in Reports, SaveSection(r) PROVE TypeOK'
  <2>1. done' \in [Reports -> 0..MaxSections]
    BY <1>11, CountedType DEF SaveSection
  <2>2. section' \in [Reports -> [Indexes -> {None, "pending"} \cup Outcomes]]
    <3>1. results[r] \in [Indexes -> {None} \cup Outcomes]
      OBVIOUS
    <3>2. CASE cur[r] \in Indexes
      BY <1>11, <3>1, <3>2 DEF SaveSection
    <3>3. CASE cur[r] \notin Indexes
      BY <1>11, <3>3, ZenonT(60) DEF SaveSection
    <3> QED
      BY <3>2, <3>3
  <2> QED
    BY <1>11, <2>1, <2>2 DEF SaveSection
<1>12. ASSUME NEW r \in Reports, Synthesize(r) PROVE TypeOK'
  BY <1>12 DEF Synthesize
<1>13. ASSUME NEW r \in Reports, ExportPdf(r) PROVE TypeOK'
  BY <1>13 DEF ExportPdf
<1>14. ASSUME NEW r \in Reports, FinishReport(r) PROVE TypeOK'
  BY <1>14 DEF FinishReport, FinalStatus
<1>15. ASSUME NEW r \in Reports, Raise(r) PROVE TypeOK'
  BY <1>15 DEF Raise, LoopHead
<1>16. ASSUME NEW r \in Reports, Disconnect(r) PROVE TypeOK'
  BY <1>16 DEF Disconnect
<1>17. ASSUME NEW r \in Reports, CancelRead(r) PROVE TypeOK'
  BY <1>17 DEF CancelRead
<1>18. ASSUME NEW r \in Reports, RequestCancel(r) PROVE TypeOK'
  BY <1>18 DEF RequestCancel, CheckAhead
<1>19. ASSUME NEW r \in Reports, CommitCancel(r) PROVE TypeOK'
  BY <1>19 DEF CommitCancel
<1>20. ASSUME NEW r \in Reports, CancelFails(r) PROVE TypeOK'
  BY <1>20 DEF CancelFails
<1>21. CASE Restart
  BY <1>21 DEF Restart
<1>22. CASE UNCHANGED vars
  BY <1>22 DEF vars
<1> QED
  BY <1>1, <1>2, <1>3, <1>4, <1>5, <1>6, <1>7, <1>8, <1>9, <1>10,
     <1>11, <1>12, <1>13, <1>14, <1>15, <1>16, <1>17, <1>18,
     <1>19, <1>20, <1>21, <1>22
  DEF Next, RunnerStep, CancelStep

\* Every reachable state is well typed.
THEOREM TypeCorrect == Spec => []TypeOK
BY TypeInit, TypeStep, PTL DEF Spec

----------------------------------------------------------------------------
(* The limit on running reports *)

\* A request between the count and the insert uses up a place as well.
Claimed == Running \cup Planning
LimitInv == overlapped \/ Cardinality(Claimed) <= MaxConcurrent

LEMMA ClaimedFinite == /\ IsFiniteSet(Claimed) /\ Cardinality(Claimed) \in Nat
                       /\ IsFiniteSet(Running) /\ Cardinality(Running) \in Nat
<1>1. IsFiniteSet(Claimed) /\ IsFiniteSet(Running)
  BY ReportsFinite, FS_Subset DEF Claimed, Running, Planning
<1> QED
  BY <1>1, FS_CardinalityType

\* A step that claims no new place preserves LimitInv.
LEMMA ClaimedShrinks ==
    ASSUME LimitInv, Claimed' \subseteq Claimed, overlapped' = overlapped
    PROVE  LimitInv'
<1>1. Cardinality(Claimed') <= Cardinality(Claimed) /\ IsFiniteSet(Claimed')
  BY ClaimedFinite, FS_Subset
<1>2. Cardinality(Claimed') \in Nat
  BY <1>1, FS_CardinalityType
<1> QED
  BY <1>1, <1>2, ClaimedFinite, LimitsAreNat DEF LimitInv

LEMMA LimitInit == Init => LimitInv
<1> SUFFICES ASSUME Init PROVE LimitInv
  OBVIOUS
<1>1. Claimed = {}
  BY DEF Init, Claimed, Running, Planning, None
<1> QED
  BY <1>1, FS_EmptySet, LimitsAreNat DEF LimitInv

LEMMA LimitStep == TypeOK /\ LimitInv /\ [Next]_vars => LimitInv'
<1> SUFFICES ASSUME TypeOK, LimitInv, [Next]_vars PROVE LimitInv'
  OBVIOUS
<1> USE DEF TypeOK, dbVars, runnerVars, cancelVars
<1>1. ASSUME NEW r \in Reports, Open(r) PROVE LimitInv'
  <2>1. CASE BelowLimit
    <3>1. /\ pc' = [pc EXCEPT ![r] = "planning"] /\ row' = row
          /\ overlapped' = (overlapped \/ Planning # {})
      BY <1>1, <2>1 DEF Open
    <3>2. CASE overlapped \/ Planning # {}
      <4>1. overlapped'
        BY <3>1, <3>2, Zenon
      <4> QED
        BY <4>1, Zenon DEF LimitInv
    <3>3. CASE ~overlapped /\ Planning = {}
      <4>1. Claimed' = Running \cup {r}
        BY <3>1, <3>3 DEF Claimed, Running, Planning
      <4>2. \/ Cardinality(Running \cup {r}) = Cardinality(Running)
            \/ Cardinality(Running \cup {r}) = Cardinality(Running) + 1
        BY ClaimedFinite, FS_AddElement, Zenon
      <4>3. Cardinality(Running \cup {r}) \in Nat
        BY <4>2, ClaimedFinite
      <4>4. Cardinality(Claimed') <= MaxConcurrent
        BY <2>1, <4>1, <4>2, <4>3, ClaimedFinite, LimitsAreNat DEF BelowLimit
      <4> QED
        BY <4>4 DEF LimitInv
    <3> QED
      BY <3>2, <3>3
  <2>2. CASE ~BelowLimit
    <3>1. Claimed' \subseteq Claimed /\ overlapped' = overlapped
      BY <1>1, <2>2 DEF Open, Claimed, Running, Planning
    <3> QED
      BY <3>1, ClaimedShrinks
  <2> QED
    BY <2>1, <2>2
<1>2. ASSUME NEW r \in Reports, StartFails(r) PROVE LimitInv'
  <2>1. Claimed' \subseteq Claimed /\ overlapped' = overlapped
    BY <1>2 DEF StartFails, Claimed, Running, Planning
  <2> QED
    BY <2>1, ClaimedShrinks
<1>3. ASSUME NEW r \in Reports, CreateReport(r) PROVE LimitInv'
  <2>1. Claimed' \subseteq Claimed /\ overlapped' = overlapped
    BY <1>3 DEF CreateReport, Claimed, Running, Planning
  <2> QED
    BY <2>1, ClaimedShrinks
<1>4. ASSUME NEW r \in Reports, ClearOldFlag(r) PROVE LimitInv'
  <2>1. Claimed' \subseteq Claimed /\ overlapped' = overlapped
    BY <1>4 DEF ClearOldFlag, Claimed, Running, Planning
  <2> QED
    BY <2>1, ClaimedShrinks
<1>5. ASSUME NEW r \in Reports, StopCancelled(r) PROVE LimitInv'
  <2>1. Claimed' \subseteq Claimed /\ overlapped' = overlapped
    BY <1>5 DEF StopCancelled, LoopHead, Claimed, Running, Planning
  <2> QED
    BY <2>1, ClaimedShrinks
<1>6. ASSUME NEW r \in Reports, ReportCancelled(r) PROVE LimitInv'
  <2>1. Claimed' \subseteq Claimed /\ overlapped' = overlapped
    BY <1>6 DEF ReportCancelled, Claimed, Running, Planning
  <2> QED
    BY <2>1, ClaimedShrinks
<1>7. ASSUME NEW r \in Reports, TotalTimeout(r) PROVE LimitInv'
  <2>1. Claimed' \subseteq Claimed /\ overlapped' = overlapped
    BY <1>7 DEF TotalTimeout, LoopHead, LeaveLoop, Claimed, Running, Planning
  <2> QED
    BY <2>1, ClaimedShrinks
<1>8. ASSUME NEW r \in Reports, LoopEnds(r) PROVE LimitInv'
  <2>1. Claimed' \subseteq Claimed /\ overlapped' = overlapped
    BY <1>8 DEF LoopEnds, LeaveLoop, Claimed, Running, Planning
  <2> QED
    BY <2>1, ClaimedShrinks
<1>9. ASSUME NEW r \in Reports, StartSection(r) PROVE LimitInv'
  <2>1. Claimed' \subseteq Claimed /\ overlapped' = overlapped
    BY <1>9 DEF StartSection, LoopHead, Claimed, Running, Planning
  <2> QED
    BY <2>1, ClaimedShrinks
<1>10. ASSUME NEW r \in Reports, SectionAsk(r) PROVE LimitInv'
  <2>1. Claimed' \subseteq Claimed /\ overlapped' = overlapped
    BY <1>10 DEF SectionAsk, Claimed, Running, Planning
  <2> QED
    BY <2>1, ClaimedShrinks
<1>11. ASSUME NEW r \in Reports, SaveSection(r) PROVE LimitInv'
  <2>1. Claimed' \subseteq Claimed /\ overlapped' = overlapped
    BY <1>11 DEF SaveSection, Claimed, Running, Planning
  <2> QED
    BY <2>1, ClaimedShrinks
<1>12. ASSUME NEW r \in Reports, Synthesize(r) PROVE LimitInv'
  <2>1. Claimed' \subseteq Claimed /\ overlapped' = overlapped
    BY <1>12 DEF Synthesize, Claimed, Running, Planning
  <2> QED
    BY <2>1, ClaimedShrinks
<1>13. ASSUME NEW r \in Reports, ExportPdf(r) PROVE LimitInv'
  <2>1. Claimed' \subseteq Claimed /\ overlapped' = overlapped
    BY <1>13 DEF ExportPdf, Claimed, Running, Planning
  <2> QED
    BY <2>1, ClaimedShrinks
<1>14. ASSUME NEW r \in Reports, FinishReport(r) PROVE LimitInv'
  <2>1. Claimed' \subseteq Claimed /\ overlapped' = overlapped
    BY <1>14 DEF FinishReport, FinalStatus, Claimed, Running, Planning
  <2> QED
    BY <2>1, ClaimedShrinks
<1>15. ASSUME NEW r \in Reports, Raise(r) PROVE LimitInv'
  <2>1. Claimed' \subseteq Claimed /\ overlapped' = overlapped
    BY <1>15 DEF Raise, LoopHead, Claimed, Running, Planning
  <2> QED
    BY <2>1, ClaimedShrinks
<1>16. ASSUME NEW r \in Reports, Disconnect(r) PROVE LimitInv'
  <2>1. Claimed' \subseteq Claimed /\ overlapped' = overlapped
    BY <1>16 DEF Disconnect, Claimed, Running, Planning
  <2> QED
    BY <2>1, ClaimedShrinks
<1>17. ASSUME NEW r \in Reports, CancelRead(r) PROVE LimitInv'
  <2>1. Claimed' \subseteq Claimed /\ overlapped' = overlapped
    BY <1>17 DEF CancelRead, Claimed, Running, Planning
  <2> QED
    BY <2>1, ClaimedShrinks
<1>18. ASSUME NEW r \in Reports, RequestCancel(r) PROVE LimitInv'
  <2>1. Claimed' \subseteq Claimed /\ overlapped' = overlapped
    BY <1>18 DEF RequestCancel, CheckAhead, Claimed, Running, Planning
  <2> QED
    BY <2>1, ClaimedShrinks
<1>19. ASSUME NEW r \in Reports, CommitCancel(r) PROVE LimitInv'
  <2>1. Claimed' \subseteq Claimed /\ overlapped' = overlapped
    BY <1>19 DEF CommitCancel, Claimed, Running, Planning
  <2> QED
    BY <2>1, ClaimedShrinks
<1>20. ASSUME NEW r \in Reports, CancelFails(r) PROVE LimitInv'
  <2>1. Claimed' \subseteq Claimed /\ overlapped' = overlapped
    BY <1>20 DEF CancelFails, Claimed, Running, Planning
  <2> QED
    BY <2>1, ClaimedShrinks
<1>21. CASE Restart
  <2>1. Claimed' \subseteq Claimed /\ overlapped' = overlapped
    BY <1>21 DEF Restart, Claimed, Running, Planning
  <2> QED
    BY <2>1, ClaimedShrinks
<1>22. CASE UNCHANGED vars
  <2>1. Claimed' \subseteq Claimed /\ overlapped' = overlapped
    BY <1>22 DEF vars, Claimed, Running, Planning
  <2> QED
    BY <2>1, ClaimedShrinks
<1> QED
  BY <1>1, <1>2, <1>3, <1>4, <1>5, <1>6, <1>7, <1>8, <1>9, <1>10,
     <1>11, <1>12, <1>13, <1>14, <1>15, <1>16, <1>17, <1>18,
     <1>19, <1>20, <1>21, <1>22
  DEF Next, RunnerStep, CancelStep

\* However requests, cancellations, crashes and restarts interleave, the
\* limit is exceeded only after two starts overlapped.
THEOREM LimitCorrect == Spec => []LimitUnlessStartsOverlap
<1>1. TypeOK /\ LimitInv => LimitUnlessStartsOverlap
  <2> SUFFICES ASSUME LimitInv, ~overlapped PROVE Cardinality(Running) <= MaxConcurrent
    BY DEF LimitUnlessStartsOverlap
  <2>1. Cardinality(Running) <= Cardinality(Claimed)
    BY ClaimedFinite, FS_Subset DEF Claimed
  <2> QED
    BY <2>1, ClaimedFinite, LimitsAreNat DEF LimitInv
<1> QED
  BY <1>1, TypeInit, TypeStep, LimitInit, LimitStep, PTL DEF Spec

----------------------------------------------------------------------------
(* A cancellation is seen *)

\* While the loop of a report that must stop runs, the flag is set and a
\* section is left, so the next check comes and finds it.
CancelInv ==
    \A q \in mustStop :
        /\ pc[q] \in {"head", "section", "save", "stopping", "cancelled"} \cup Dead
        /\ pc[q] \in {"head", "section", "save"} => q \in flags /\ todo[q] # {}
        /\ pc[q] \in {"stopping", "cancelled"} => row[q] = "cancelled"

LEMMA CancelInit == Init => CancelInv
BY DEF Init, CancelInv

LEMMA CancelInvStep == TypeOK /\ CancelInv /\ [Next]_vars => CancelInv'
<1> SUFFICES ASSUME TypeOK, CancelInv, [Next]_vars PROVE CancelInv'
  OBVIOUS
<1> USE DEF TypeOK, CancelInv, Active, Dead, dbVars, runnerVars, cancelVars
<1>1. ASSUME NEW r \in Reports, Open(r) PROVE CancelInv'
  BY <1>1 DEF Open
<1>2. ASSUME NEW r \in Reports, StartFails(r) PROVE CancelInv'
  BY <1>2 DEF StartFails
<1>3. ASSUME NEW r \in Reports, CreateReport(r) PROVE CancelInv'
  BY <1>3 DEF CreateReport
<1>4. ASSUME NEW r \in Reports, ClearOldFlag(r) PROVE CancelInv'
  BY <1>4 DEF ClearOldFlag
<1>5. ASSUME NEW r \in Reports, StopCancelled(r) PROVE CancelInv'
  BY <1>5 DEF StopCancelled, LoopHead
<1>6. ASSUME NEW r \in Reports, ReportCancelled(r) PROVE CancelInv'
  BY <1>6 DEF ReportCancelled
<1>7. ASSUME NEW r \in Reports, TotalTimeout(r) PROVE CancelInv'
  BY <1>7 DEF TotalTimeout, LoopHead, LeaveLoop
<1>8. ASSUME NEW r \in Reports, LoopEnds(r) PROVE CancelInv'
  BY <1>8 DEF LoopEnds, LeaveLoop
<1>9. ASSUME NEW r \in Reports, StartSection(r) PROVE CancelInv'
  BY <1>9 DEF StartSection, LoopHead
<1>10. ASSUME NEW r \in Reports, SectionAsk(r) PROVE CancelInv'
  BY <1>10 DEF SectionAsk
<1>11. ASSUME NEW r \in Reports, SaveSection(r) PROVE CancelInv'
  BY <1>11 DEF SaveSection
<1>12. ASSUME NEW r \in Reports, Synthesize(r) PROVE CancelInv'
  BY <1>12 DEF Synthesize
<1>13. ASSUME NEW r \in Reports, ExportPdf(r) PROVE CancelInv'
  BY <1>13 DEF ExportPdf
<1>14. ASSUME NEW r \in Reports, FinishReport(r) PROVE CancelInv'
  BY <1>14 DEF FinishReport
<1>15. ASSUME NEW r \in Reports, Raise(r) PROVE CancelInv'
  BY <1>15 DEF Raise, LoopHead
<1>16. ASSUME NEW r \in Reports, Disconnect(r) PROVE CancelInv'
  BY <1>16 DEF Disconnect
<1>17. ASSUME NEW r \in Reports, CancelRead(r) PROVE CancelInv'
  BY <1>17 DEF CancelRead
<1>18. ASSUME NEW r \in Reports, RequestCancel(r) PROVE CancelInv'
  BY <1>18 DEF RequestCancel, CheckAhead
<1>19. ASSUME NEW r \in Reports, CommitCancel(r) PROVE CancelInv'
  BY <1>19 DEF CommitCancel
<1>20. ASSUME NEW r \in Reports, CancelFails(r) PROVE CancelInv'
  BY <1>20 DEF CancelFails
<1>21. CASE Restart
  BY <1>21 DEF Restart
<1>22. CASE UNCHANGED vars
  BY <1>22 DEF vars
<1> QED
  BY <1>1, <1>2, <1>3, <1>4, <1>5, <1>6, <1>7, <1>8, <1>9, <1>10,
     <1>11, <1>12, <1>13, <1>14, <1>15, <1>16, <1>17, <1>18,
     <1>19, <1>20, <1>21, <1>22
  DEF Next, RunnerStep, CancelStep

\* A cancellation with a check of the flag ahead is never lost.
THEOREM CancelCorrect == Spec => []CancelIsSeen
<1>1. CancelInv => CancelIsSeen
  BY DEF CancelInv, CancelIsSeen, Dead
<1> QED
  BY <1>1, TypeInit, TypeStep, CancelInit, CancelInvStep, PTL DEF Spec

----------------------------------------------------------------------------
(* The final status fits the sections *)

InLoop == {"created", "head", "section", "save", "synthesis", "export", "finish"}

\* section_results and the section rows agree, up to the section that is
\* not saved yet; the sections to come have no result in either.
RowsMatchResults(q) ==
    \A i \in Indexes :
        /\ section[q][i] \in Outcomes => results[q][i] = section[q][i]
        /\ results[q][i] # None /\ ~(pc[q] = "save" /\ cur[q] = i) =>
               section[q][i] = results[q][i]
        /\ i \in todo[q] => section[q][i] \notin Outcomes
CurrentIsOpen(q) ==
    pc[q] \in {"section", "save"} =>
        /\ cur[q] \in Indexes
        /\ cur[q] \notin todo[q]
        /\ section[q][cur[q]] \notin Outcomes
InheritedAreInFront(q) ==
    pc[q] = "planning" =>
        \A i \in Indexes : results[q][i] # None => i < origin[q].fork
HasResults(q) ==
    pc[q] \in {"synthesis", "export", "finish"} =>
        \E i \in Indexes : results[q][i] # None
Statuses(q) == {section[q][i] : i \in Recorded(q)}
StatusFits(q) ==
    /\ row[q] = "success" => /\ Statuses(q) = {"success"}
                             /\ done[q] = Cardinality(Recorded(q))
    /\ row[q] = "partial" => "success" \in Statuses(q) /\ Statuses(q) # {"success"}
    /\ row[q] = "fail" => "success" \notin Statuses(q) /\ Statuses(q) # {}
Fit(q) ==
    /\ row[q] \in FinalStatuses => pc[q] = "finished"
    /\ pc[q] \in InLoop => RowsMatchResults(q) /\ done[q] = Counted(section[q])
    /\ CurrentIsOpen(q)
    /\ InheritedAreInFront(q)
    /\ HasResults(q)
    /\ StatusFits(q)
FitInv == \A q \in Reports : Fit(q)

LEMMA FitInit == Init => FitInv
BY DEF Init, FitInv, Fit, CurrentIsOpen, InheritedAreInFront, HasResults,
       StatusFits, InLoop, FinalStatuses, None

\* A report whose request stays where it is, or ends before it finishes,
\* keeps Fit, cancelled in between or not.
LEMMA FitKept ==
    ASSUME NEW q \in Reports, Fit(q),
           row'[q] \in {row[q], "cancelled"},
           section'[q] = section[q], done'[q] = done[q],
           origin'[q] = origin[q], todo'[q] = todo[q], cur'[q] = cur[q],
           results'[q] = results[q],
           \/ pc'[q] = pc[q]
           \/ pc[q] # "finished"
              /\ pc'[q] \in {"refused", "stopping", "cancelled"} \cup Dead
    PROVE  Fit(q)'
<1>1. (row[q] \in FinalStatuses => pc[q] = "finished")'
  BY DEF Fit, FinalStatuses
<1>2. (pc[q] \in InLoop => RowsMatchResults(q) /\ done[q] = Counted(section[q]))'
  BY DEF Fit, InLoop, Dead, RowsMatchResults, Counted
<1>3. CurrentIsOpen(q)' /\ InheritedAreInFront(q)' /\ HasResults(q)'
  BY DEF Fit, CurrentIsOpen, InheritedAreInFront, HasResults, Dead
<1>4. Recorded(q)' = Recorded(q)
  BY DEF Recorded
<1>5. Statuses(q)' = Statuses(q)
  BY <1>4 DEF Statuses
<1>6. StatusFits(q)'
  BY <1>4, <1>5 DEF Fit, StatusFits
<1> QED
  BY <1>1, <1>2, <1>3, <1>6 DEF Fit

LEMMA FitStep == TypeOK /\ FitInv /\ [Next]_vars => FitInv'
<1> SUFFICES ASSUME TypeOK, FitInv, [Next]_vars PROVE FitInv'
  OBVIOUS
<1> USE DEF TypeOK, Active, Dead, dbVars, runnerVars, cancelVars
<1>1. ASSUME NEW r \in Reports, Open(r) PROVE FitInv'
  <2> SUFFICES ASSUME NEW q \in Reports PROVE Fit(q)'
    BY DEF FitInv
  <2>1. CASE q # r
    <3>1. Fit(q)
      BY DEF FitInv
    <3> QED
      BY <1>1, <2>1, <3>1, FitKept DEF Open
  <2>2. CASE q = r
    <3>0. Fit(r)
      BY DEF FitInv
    <3>1. Fit(r)'
      <4>1. pc[r] = "idle" /\ pc'[r] \in {"planning", "refused"}
        BY <1>1 DEF Open
      <4>2. row'[r] = row[r] /\ row[r] \notin FinalStatuses
        BY <1>1, <4>1, <3>0 DEF Open, Fit
      <4>3. InheritedAreInFront(r)'
        <5>1. CASE BelowLimit
          <6>1. PICK o \in Origins : /\ origin' = [origin EXCEPT ![r] = o]
                                     /\ results' = [results EXCEPT ![r] = Inherited(o)]
            BY <1>1, <5>1 DEF Open
          <6> QED
            BY <6>1 DEF InheritedAreInFront, Inherited
        <5>2. CASE ~BelowLimit
          BY <1>1, <5>2 DEF Open, InheritedAreInFront
        <5> QED
          BY <5>1, <5>2
      <4> QED
        BY <4>1, <4>2, <4>3 DEF Fit, InLoop, CurrentIsOpen, HasResults, StatusFits,
           FinalStatuses
    <3> QED
      BY <2>2, <3>1
  <2> QED
    BY <2>1, <2>2
<1>2. ASSUME NEW r \in Reports, StartFails(r) PROVE FitInv'
  <2> SUFFICES ASSUME NEW q \in Reports PROVE Fit(q)'
    BY DEF FitInv
  <2>1. Fit(q)
    BY DEF FitInv
  <2> QED
    BY <1>2, <2>1, FitKept DEF StartFails
<1>3. ASSUME NEW r \in Reports, CreateReport(r) PROVE FitInv'
  <2> SUFFICES ASSUME NEW q \in Reports PROVE Fit(q)'
    BY DEF FitInv
  <2>1. CASE q # r
    <3>1. Fit(q)
      BY DEF FitInv
    <3> QED
      BY <1>3, <2>1, <3>1, FitKept DEF CreateReport
  <2>2. CASE q = r
    <3>0. Fit(r)
      BY DEF FitInv
    <3>1. Fit(r)'
      <4>1. PICK plan \in Plans(r) :
               /\ todo'[r] = plan
               /\ section'[r] =
                      [i \in Indexes |-> IF i \in plan THEN "pending" ELSE results[r][i]]
        BY <1>3 DEF CreateReport
      <4>2. /\ pc[r] = "planning" /\ pc'[r] = "created" /\ row'[r] = "running"
            /\ results'[r] = results[r] /\ done'[r] = Counted(results[r])
        BY <1>3 DEF CreateReport
      <4>3. \A i \in plan : i \in Indexes /\ results[r][i] = None
        <5>1. CASE \A i \in Indexes : results[r][i] = None
          BY <5>1 DEF Plans
        <5>2. CASE ~(\A i \in Indexes : results[r][i] = None)
          <6>1. \A i \in Indexes : results[r][i] # None => i < origin[r].fork
            BY <3>0, <4>2 DEF Fit, InheritedAreInFront
          <6>2. \A i \in plan : i \in Indexes /\ i >= origin[r].fork
            BY <5>2 DEF Plans
          <6>3. origin[r].fork \in Int /\ \A i \in Indexes : i \in Int
            BY DEF Indexes
          <6> QED
            BY <6>1, <6>2, <6>3
        <5> QED
          BY <5>1, <5>2
      <4>4. \A i \in Indexes : results[r][i] \in {None} \cup Outcomes
        OBVIOUS
      <4>5. \A i \in Indexes : section'[r][i] =
                IF i \in plan THEN "pending" ELSE results[r][i]
        BY <4>1
      <4>6. RowsMatchResults(r)'
        BY <4>1, <4>2, <4>3, <4>4, <4>5 DEF RowsMatchResults, None, Outcomes
      <4>7. {i \in Indexes : results[r][i] \in {"success", "fail"}}
                = {i \in Indexes : section'[r][i] \in {"success", "fail"}}
        BY <4>3, <4>5 DEF None
      <4>8. done'[r] = Counted(section'[r])
        BY <4>2, <4>7 DEF Counted
      <4> QED
        BY <4>2, <4>6, <4>8 DEF Fit, InLoop, CurrentIsOpen, InheritedAreInFront,
           HasResults, StatusFits, FinalStatuses
    <3> QED
      BY <2>2, <3>1
  <2> QED
    BY <2>1, <2>2
<1>4. ASSUME NEW r \in Reports, ClearOldFlag(r) PROVE FitInv'
  <2> SUFFICES ASSUME NEW q \in Reports PROVE Fit(q)'
    BY DEF FitInv
  <2>1. CASE q # r
    <3>1. Fit(q)
      BY DEF FitInv
    <3> QED
      BY <1>4, <2>1, <3>1, FitKept DEF ClearOldFlag
  <2>2. CASE q = r
    <3>0. Fit(r)
      BY DEF FitInv
    <3>1. Fit(r)'
      <4>1. row'[r] \notin FinalStatuses
        BY <1>4, <3>0 DEF ClearOldFlag, Fit, InLoop
      <4>2. RowsMatchResults(r)' /\ done'[r] = Counted(section'[r])
        BY <1>4, <3>0 DEF ClearOldFlag, Fit, InLoop, RowsMatchResults
      <4>3. CurrentIsOpen(r)' /\ InheritedAreInFront(r)' /\ HasResults(r)'
        BY <1>4, <3>0 DEF ClearOldFlag, Fit, CurrentIsOpen, InheritedAreInFront,
           HasResults
      <4> QED
        BY <4>1, <4>2, <4>3 DEF Fit, StatusFits, FinalStatuses
    <3> QED
      BY <2>2, <3>1
  <2> QED
    BY <2>1, <2>2
<1>5. ASSUME NEW r \in Reports, StopCancelled(r) PROVE FitInv'
  <2> SUFFICES ASSUME NEW q \in Reports PROVE Fit(q)'
    BY DEF FitInv
  <2>1. Fit(q)
    BY DEF FitInv
  <2> QED
    BY <1>5, <2>1, FitKept DEF StopCancelled, LoopHead
<1>6. ASSUME NEW r \in Reports, ReportCancelled(r) PROVE FitInv'
  <2> SUFFICES ASSUME NEW q \in Reports PROVE Fit(q)'
    BY DEF FitInv
  <2>1. Fit(q)
    BY DEF FitInv
  <2> QED
    BY <1>6, <2>1, FitKept DEF ReportCancelled
<1>7. ASSUME NEW r \in Reports, TotalTimeout(r) PROVE FitInv'
  <2> SUFFICES ASSUME NEW q \in Reports PROVE Fit(q)'
    BY DEF FitInv
  <2>1. CASE q # r
    <3>1. Fit(q)
      BY DEF FitInv
    <3> QED
      BY <1>7, <2>1, <3>1, FitKept DEF TotalTimeout, LoopHead, LeaveLoop
  <2>2. CASE q = r
    <3>0. Fit(r)
      BY DEF FitInv
    <3>1. Fit(r)'
      <4>1. row'[r] \notin FinalStatuses
        BY <1>7, <3>0 DEF TotalTimeout, LoopHead, LeaveLoop, Fit, InLoop
      <4>2. RowsMatchResults(r)' /\ done'[r] = Counted(section'[r])
        BY <1>7, <3>0 DEF TotalTimeout, LoopHead, LeaveLoop, Fit, InLoop, RowsMatchResults
      <4>3. CurrentIsOpen(r)' /\ InheritedAreInFront(r)' /\ HasResults(r)'
        BY <1>7, <3>0 DEF TotalTimeout, LoopHead, LeaveLoop, Fit, CurrentIsOpen, InheritedAreInFront,
           HasResults
      <4> QED
        BY <4>1, <4>2, <4>3 DEF Fit, StatusFits, FinalStatuses
    <3> QED
      BY <2>2, <3>1
  <2> QED
    BY <2>1, <2>2
<1>8. ASSUME NEW r \in Reports, LoopEnds(r) PROVE FitInv'
  <2> SUFFICES ASSUME NEW q \in Reports PROVE Fit(q)'
    BY DEF FitInv
  <2>1. CASE q # r
    <3>1. Fit(q)
      BY DEF FitInv
    <3> QED
      BY <1>8, <2>1, <3>1, FitKept DEF LoopEnds, LeaveLoop
  <2>2. CASE q = r
    <3>0. Fit(r)
      BY DEF FitInv
    <3>1. Fit(r)'
      <4>1. row'[r] \notin FinalStatuses
        BY <1>8, <3>0 DEF LoopEnds, LeaveLoop, Fit, InLoop
      <4>2. RowsMatchResults(r)' /\ done'[r] = Counted(section'[r])
        BY <1>8, <3>0 DEF LoopEnds, LeaveLoop, Fit, InLoop, RowsMatchResults
      <4>3. CurrentIsOpen(r)' /\ InheritedAreInFront(r)' /\ HasResults(r)'
        BY <1>8, <3>0 DEF LoopEnds, LeaveLoop, Fit, CurrentIsOpen, InheritedAreInFront,
           HasResults
      <4> QED
        BY <4>1, <4>2, <4>3 DEF Fit, StatusFits, FinalStatuses
    <3> QED
      BY <2>2, <3>1
  <2> QED
    BY <2>1, <2>2
<1>9. ASSUME NEW r \in Reports, StartSection(r) PROVE FitInv'
  <2> SUFFICES ASSUME NEW q \in Reports PROVE Fit(q)'
    BY DEF FitInv
  <2>1. CASE q # r
    <3>1. Fit(q)
      BY DEF FitInv
    <3> QED
      BY <1>9, <2>1, <3>1, FitKept DEF StartSection, LoopHead
  <2>2. CASE q = r
    <3>0. Fit(r)
      BY DEF FitInv
    <3>1. Fit(r)'
      <4>1. PICK i \in todo[r] : cur'[r] = i /\ todo'[r] = todo[r] \ {i}
        BY <1>9 DEF StartSection
      <4>2. /\ pc[r] = "head" /\ pc'[r] = "section" /\ row'[r] = row[r]
            /\ section'[r] = section[r] /\ done'[r] = done[r]
            /\ results'[r] = results[r]
        BY <1>9 DEF StartSection, LoopHead
      <4>3. RowsMatchResults(r) /\ done[r] = Counted(section[r]) /\ row[r] \notin FinalStatuses
        BY <3>0, <4>2 DEF Fit, InLoop
      <4>4. RowsMatchResults(r)' /\ done'[r] = Counted(section'[r])
        BY <4>1, <4>2, <4>3 DEF RowsMatchResults
      <4>5. i \in Indexes /\ section[r][i] \notin Outcomes
        BY <4>3 DEF RowsMatchResults
      <4>6. CurrentIsOpen(r)'
        BY <4>1, <4>2, <4>5 DEF CurrentIsOpen
      <4> QED
        BY <4>2, <4>3, <4>4, <4>6 DEF Fit, InheritedAreInFront, HasResults,
           StatusFits, FinalStatuses
    <3> QED
      BY <2>2, <3>1
  <2> QED
    BY <2>1, <2>2
<1>10. ASSUME NEW r \in Reports, SectionAsk(r) PROVE FitInv'
  <2> SUFFICES ASSUME NEW q \in Reports PROVE Fit(q)'
    BY DEF FitInv
  <2>1. CASE q # r
    <3>1. Fit(q)
      BY DEF FitInv
    <3> QED
      BY <1>10, <2>1, <3>1, FitKept DEF SectionAsk
  <2>2. CASE q = r
    <3>0. Fit(r)
      BY DEF FitInv
    <3>1. Fit(r)'
      <4>1. PICK outcome \in Outcomes :
               results' = [results EXCEPT ![r][cur[r]] = outcome]
        BY <1>10 DEF SectionAsk
      <4>2. /\ pc[r] = "section" /\ pc'[r] = "save" /\ row'[r] = row[r]
            /\ section'[r] = section[r] /\ done'[r] = done[r]
            /\ cur'[r] = cur[r] /\ todo'[r] = todo[r]
        BY <1>10 DEF SectionAsk
      <4>3. RowsMatchResults(r) /\ done[r] = Counted(section[r]) /\ row[r] \notin FinalStatuses
        BY <3>0, <4>2 DEF Fit, InLoop
      <4>4. /\ cur[r] \in Indexes /\ cur[r] \notin todo[r]
            /\ section[r][cur[r]] \notin Outcomes
        BY <3>0, <4>2 DEF Fit, CurrentIsOpen
      <4>5. results[r] \in [Indexes -> {None} \cup Outcomes]
        OBVIOUS
      <4>6. \A i \in Indexes : i # cur[r] => results'[r][i] = results[r][i]
        BY <4>1, <4>5
      <4>7. RowsMatchResults(r)' /\ done'[r] = Counted(section'[r])
        BY <4>2, <4>3, <4>4, <4>6 DEF RowsMatchResults
      <4>8. CurrentIsOpen(r)'
        BY <4>2, <4>4 DEF CurrentIsOpen
      <4> QED
        BY <4>2, <4>3, <4>7, <4>8 DEF Fit, InheritedAreInFront, HasResults,
           StatusFits, FinalStatuses
    <3> QED
      BY <2>2, <3>1
  <2> QED
    BY <2>1, <2>2
<1>11. ASSUME NEW r \in Reports, SaveSection(r) PROVE FitInv'
  <2> SUFFICES ASSUME NEW q \in Reports PROVE Fit(q)'
    BY DEF FitInv
  <2>1. CASE q # r
    <3>1. Fit(q)
      BY DEF FitInv
    <3> QED
      BY <1>11, <2>1, <3>1, FitKept DEF SaveSection
  <2>2. CASE q = r
    <3>0. Fit(r)
      BY DEF FitInv
    <3>1. Fit(r)'
      <4>1. /\ pc[r] = "save" /\ pc'[r] = "head" /\ row'[r] = row[r]
            /\ results'[r] = results[r] /\ todo'[r] = todo[r]
            /\ section' = [section EXCEPT ![r][cur[r]] = results[r][cur[r]]]
            /\ done'[r] = Counted(section'[r])
        BY <1>11 DEF SaveSection
      <4>2. RowsMatchResults(r) /\ row[r] \notin FinalStatuses
        BY <3>0, <4>1 DEF Fit, InLoop
      <4>3. cur[r] \in Indexes /\ cur[r] \notin todo[r]
        BY <3>0, <4>1 DEF Fit, CurrentIsOpen
      <4>4. section[r] \in [Indexes -> {None, "pending"} \cup Outcomes]
        OBVIOUS
      <4>5. \A i \in Indexes : section'[r][i] =
                IF i = cur[r] THEN results[r][i] ELSE section[r][i]
        BY <4>1, <4>3, <4>4
      <4>6. RowsMatchResults(r)'
        BY <4>1, <4>2, <4>3, <4>5 DEF RowsMatchResults
      <4> QED
        BY <4>1, <4>2, <4>6 DEF Fit, CurrentIsOpen, InheritedAreInFront, HasResults,
           StatusFits, FinalStatuses
    <3> QED
      BY <2>2, <3>1
  <2> QED
    BY <2>1, <2>2
<1>12. ASSUME NEW r \in Reports, Synthesize(r) PROVE FitInv'
  <2> SUFFICES ASSUME NEW q \in Reports PROVE Fit(q)'
    BY DEF FitInv
  <2>1. CASE q # r
    <3>1. Fit(q)
      BY DEF FitInv
    <3> QED
      BY <1>12, <2>1, <3>1, FitKept DEF Synthesize
  <2>2. CASE q = r
    <3>0. Fit(r)
      BY DEF FitInv
    <3>1. Fit(r)'
      <4>1. row'[r] \notin FinalStatuses
        BY <1>12, <3>0 DEF Synthesize, Fit, InLoop
      <4>2. RowsMatchResults(r)' /\ done'[r] = Counted(section'[r])
        BY <1>12, <3>0 DEF Synthesize, Fit, InLoop, RowsMatchResults
      <4>3. CurrentIsOpen(r)' /\ InheritedAreInFront(r)' /\ HasResults(r)'
        BY <1>12, <3>0 DEF Synthesize, Fit, CurrentIsOpen, InheritedAreInFront,
           HasResults
      <4> QED
        BY <4>1, <4>2, <4>3 DEF Fit, StatusFits, FinalStatuses
    <3> QED
      BY <2>2, <3>1
  <2> QED
    BY <2>1, <2>2
<1>13. ASSUME NEW r \in Reports, ExportPdf(r) PROVE FitInv'
  <2> SUFFICES ASSUME NEW q \in Reports PROVE Fit(q)'
    BY DEF FitInv
  <2>1. CASE q # r
    <3>1. Fit(q)
      BY DEF FitInv
    <3> QED
      BY <1>13, <2>1, <3>1, FitKept DEF ExportPdf
  <2>2. CASE q = r
    <3>0. Fit(r)
      BY DEF FitInv
    <3>1. Fit(r)'
      <4>1. CASE pc'[r] = "pdf_failed"
        BY <1>13, <3>0, <4>1, FitKept DEF ExportPdf
      <4>2. CASE pc'[r] = "finish"
        <5>1. row'[r] \notin FinalStatuses
          BY <1>13, <3>0 DEF ExportPdf, Fit
        <5>2. RowsMatchResults(r)' /\ done'[r] = Counted(section'[r])
          BY <1>13, <3>0, <4>2 DEF ExportPdf, Fit, InLoop, RowsMatchResults
        <5>3. CurrentIsOpen(r)' /\ InheritedAreInFront(r)' /\ HasResults(r)'
          BY <1>13, <3>0, <4>2 DEF ExportPdf, Fit, CurrentIsOpen,
             InheritedAreInFront, HasResults
        <5> QED
          BY <5>1, <5>2, <5>3 DEF Fit, StatusFits, FinalStatuses
      <4> QED
        BY <1>13, <4>1, <4>2 DEF ExportPdf
    <3> QED
      BY <2>2, <3>1
  <2> QED
    BY <2>1, <2>2
<1>14. ASSUME NEW r \in Reports, FinishReport(r) PROVE FitInv'
  <2> SUFFICES ASSUME NEW q \in Reports PROVE Fit(q)'
    BY DEF FitInv
  <2>1. CASE q # r
    <3>1. Fit(q)
      BY DEF FitInv
    <3> QED
      BY <1>14, <2>1, <3>1, FitKept DEF FinishReport
  <2>2. CASE q = r
    <3>0. Fit(r)
      BY DEF FitInv
    <3>1. Fit(r)'
      <4>1. /\ pc[r] = "finish" /\ pc'[r] = "finished"
            /\ row'[r] = FinalStatus({results[r][i] : i \in Indexes} \ {None})
            /\ section'[r] = section[r] /\ done'[r] = done[r]
        BY <1>14 DEF FinishReport
      <4>2. /\ RowsMatchResults(r) /\ done[r] = Counted(section[r])
            /\ \E i \in Indexes : results[r][i] # None
        BY <3>0, <4>1 DEF Fit, InLoop, HasResults
      <4>3. \A i \in Indexes : results[r][i] \in {None} \cup Outcomes
        OBVIOUS
      <4>4. Statuses(r) = {results[r][i] : i \in Indexes} \ {None}
        BY <4>1, <4>2, <4>3 DEF Statuses, Recorded, RowsMatchResults, Outcomes, None
      <4>5. Statuses(r) # {}
        BY <4>2, <4>4
      <4>6. Recorded(r)' = Recorded(r) /\ Statuses(r)' = Statuses(r)
        BY <4>1 DEF Recorded, Statuses
      <4>7. Statuses(r) = {"success"} => done[r] = Cardinality(Recorded(r))
        <5> SUFFICES ASSUME Statuses(r) = {"success"}
                     PROVE  done[r] = Cardinality(Recorded(r))
          OBVIOUS
        <5>1. Recorded(r) = {i \in Indexes : section[r][i] \in {"success", "fail"}}
          BY DEF Statuses, Recorded, Outcomes
        <5> QED
          BY <5>1, <4>2 DEF Counted
      <4>8. StatusFits(r)'
        BY <4>1, <4>4, <4>5, <4>6, <4>7 DEF StatusFits, FinalStatus
      <4> QED
        BY <4>1, <4>8 DEF Fit, InLoop, CurrentIsOpen, InheritedAreInFront, HasResults
    <3> QED
      BY <2>2, <3>1
  <2> QED
    BY <2>1, <2>2
<1>15. ASSUME NEW r \in Reports, Raise(r) PROVE FitInv'
  <2> SUFFICES ASSUME NEW q \in Reports PROVE Fit(q)'
    BY DEF FitInv
  <2>1. Fit(q)
    BY DEF FitInv
  <2> QED
    BY <1>15, <2>1, FitKept DEF Raise, LoopHead
<1>16. ASSUME NEW r \in Reports, Disconnect(r) PROVE FitInv'
  <2> SUFFICES ASSUME NEW q \in Reports PROVE Fit(q)'
    BY DEF FitInv
  <2>1. Fit(q)
    BY DEF FitInv
  <2> QED
    BY <1>16, <2>1, FitKept DEF Disconnect
<1>17. ASSUME NEW r \in Reports, CancelRead(r) PROVE FitInv'
  <2> SUFFICES ASSUME NEW q \in Reports PROVE Fit(q)'
    BY DEF FitInv
  <2>1. Fit(q)
    BY DEF FitInv
  <2> QED
    BY <1>17, <2>1, FitKept DEF CancelRead
<1>18. ASSUME NEW r \in Reports, RequestCancel(r) PROVE FitInv'
  <2> SUFFICES ASSUME NEW q \in Reports PROVE Fit(q)'
    BY DEF FitInv
  <2>1. Fit(q)
    BY DEF FitInv
  <2> QED
    BY <1>18, <2>1, FitKept DEF RequestCancel, CheckAhead
<1>19. ASSUME NEW r \in Reports, CommitCancel(r) PROVE FitInv'
  <2> SUFFICES ASSUME NEW q \in Reports PROVE Fit(q)'
    BY DEF FitInv
  <2>1. Fit(q)
    BY DEF FitInv
  <2> QED
    BY <1>19, <2>1, FitKept DEF CommitCancel
<1>20. ASSUME NEW r \in Reports, CancelFails(r) PROVE FitInv'
  <2> SUFFICES ASSUME NEW q \in Reports PROVE Fit(q)'
    BY DEF FitInv
  <2>1. Fit(q)
    BY DEF FitInv
  <2> QED
    BY <1>20, <2>1, FitKept DEF CancelFails
<1>21. CASE Restart
  <2> SUFFICES ASSUME NEW q \in Reports PROVE Fit(q)'
    BY DEF FitInv
  <2>1. Fit(q)
    BY DEF FitInv
  <2> QED
    BY <1>21, <2>1, FitKept DEF Restart
<1>22. CASE UNCHANGED vars
  <2> SUFFICES ASSUME NEW q \in Reports PROVE Fit(q)'
    BY DEF FitInv
  <2>1. Fit(q)
    BY DEF FitInv
  <2> QED
    BY <1>22, <2>1, FitKept DEF vars
<1> QED
  BY <1>1, <1>2, <1>3, <1>4, <1>5, <1>6, <1>7, <1>8, <1>9, <1>10,
     <1>11, <1>12, <1>13, <1>14, <1>15, <1>16, <1>17, <1>18,
     <1>19, <1>20, <1>21, <1>22
  DEF Next, RunnerStep, CancelStep

\* A finished report says of its sections what their rows say.
THEOREM FinalStatusCorrect == Spec => []StatusFitsSections
<1>1. FitInv => StatusFitsSections
  BY DEF FitInv, Fit, StatusFits, StatusFitsSections, Statuses
<1> QED
  BY <1>1, TypeInit, TypeStep, FitInit, FitStep, PTL DEF Spec

----------------------------------------------------------------------------
(* A request comes to its end *)

\* A running request has a step before it.
LEMMA AheadOfActive ==
    ASSUME TypeOK, NEW r \in Reports, pc[r] \in Active
    PROVE  Ahead(r) \in Nat /\ Ahead(r) > 0
<1>1. todo[r] \in SUBSET Indexes
  BY DEF TypeOK
<1>2. Cardinality(todo[r]) \in Nat
  BY <1>1, SectionsType, LimitsAreNat
<1> QED
  BY <1>2, LimitsAreNat DEF Ahead, Active

\* One that is over has none.
LEMMA AheadOfEnded ==
    ASSUME NEW r, pc'[r] \in Finished \cup Dead
    PROVE  Ahead(r)' = 0
BY DEF Ahead, Finished, Dead

Kept(r) == UNCHANGED <<pc[r], origin[r], todo[r], cur[r], results[r]>>
Advances(r) == pc[r] \in Active => Kept(r) \/ Ahead(r)' < Ahead(r)

\* A step that ends a request, or that is not its own.
LEMMA EndAdvances ==
    ASSUME TypeOK, NEW r \in Reports, pc'[r] \in Finished \cup Dead
    PROVE  Advances(r)
BY AheadOfActive, AheadOfEnded DEF Advances

LEMMA AdvanceStep == TypeOK /\ [Next]_vars => \A r \in Reports : Advances(r)
<1> SUFFICES ASSUME TypeOK, [Next]_vars, NEW r \in Reports, pc[r] \in Active
             PROVE  Kept(r) \/ Ahead(r)' < Ahead(r)
  BY DEF Advances
<1> DEFINE n == Cardinality(todo[r])
<1>0. /\ n \in Nat /\ n <= MaxSections
      /\ todo[r] \in SUBSET Indexes /\ IsFiniteSet(todo[r])
  <2>1. todo[r] \in SUBSET Indexes
    BY DEF TypeOK
  <2> QED
    BY <2>1, SectionsType, LimitsAreNat
<1>1. ASSUME NEW q \in Reports, Open(q) PROVE Kept(r) \/ Ahead(r)' < Ahead(r)
  <2>1. CASE q # r
    BY <1>1, <2>1 DEF Open, Kept, TypeOK
  <2>2. CASE q = r
    BY <1>1, <2>2 DEF Open, Active
  <2> QED
    BY <2>1, <2>2
<1>2. ASSUME NEW q \in Reports, StartFails(q) PROVE Kept(r) \/ Ahead(r)' < Ahead(r)
  <2>1. CASE q # r
    BY <1>2, <2>1 DEF StartFails, Kept, TypeOK
  <2>2. CASE q = r
    <3>1. pc'[r] \in Finished \cup Dead
      BY <1>2, <2>2 DEF StartFails, TypeOK, Finished, Dead
    <3> QED
      BY <3>1, EndAdvances DEF Advances
  <2> QED
    BY <2>1, <2>2
<1>3. ASSUME NEW q \in Reports, CreateReport(q) PROVE Kept(r) \/ Ahead(r)' < Ahead(r)
  <2>1. CASE q # r
    BY <1>3, <2>1 DEF CreateReport, Kept, TypeOK
  <2>2. CASE q = r
    <3>1. pc[r] = "planning" /\ pc'[r] = "created" /\ todo'[r] \in SUBSET Indexes
      BY <1>3, <2>2 DEF CreateReport, Plans, TypeOK
    <3>2. Cardinality(todo'[r]) \in 0..MaxSections
      BY <3>1, SectionsType
    <3> QED
      BY <3>1, <3>2, LimitsAreNat DEF Ahead
  <2> QED
    BY <2>1, <2>2
<1>4. ASSUME NEW q \in Reports, ClearOldFlag(q) PROVE Kept(r) \/ Ahead(r)' < Ahead(r)
  <2>1. CASE q # r
    BY <1>4, <2>1 DEF ClearOldFlag, Kept, TypeOK
  <2>2. CASE q = r
    <3>1. pc[r] = "created" /\ pc'[r] = "head" /\ todo'[r] = todo[r]
      BY <1>4, <2>2 DEF ClearOldFlag, TypeOK
    <3> QED
      BY <1>0, <3>1 DEF Ahead
  <2> QED
    BY <2>1, <2>2
<1>5. ASSUME NEW q \in Reports, StopCancelled(q) PROVE Kept(r) \/ Ahead(r)' < Ahead(r)
  <2>1. CASE q # r
    BY <1>5, <2>1 DEF StopCancelled, LoopHead, Kept, TypeOK
  <2>2. CASE q = r
    <3>1. pc[r] = "head" /\ pc'[r] = "stopping" /\ todo'[r] = todo[r]
      BY <1>5, <2>2 DEF StopCancelled, LoopHead, TypeOK
    <3> QED
      BY <1>0, <3>1 DEF Ahead
  <2> QED
    BY <2>1, <2>2
<1>6. ASSUME NEW q \in Reports, ReportCancelled(q) PROVE Kept(r) \/ Ahead(r)' < Ahead(r)
  <2>1. CASE q # r
    BY <1>6, <2>1 DEF ReportCancelled, Kept, TypeOK
  <2>2. CASE q = r
    <3>1. pc'[r] \in Finished \cup Dead
      BY <1>6, <2>2 DEF ReportCancelled, TypeOK, Finished, Dead
    <3> QED
      BY <3>1, EndAdvances DEF Advances
  <2> QED
    BY <2>1, <2>2
<1>7. ASSUME NEW q \in Reports, TotalTimeout(q) PROVE Kept(r) \/ Ahead(r)' < Ahead(r)
  <2>1. CASE q # r
    BY <1>7, <2>1 DEF TotalTimeout, LoopHead, LeaveLoop, Kept, TypeOK
  <2>2. CASE q = r
    <3>1. pc[r] = "head" /\ pc'[r] \in {"no_results", "synthesis"}
      BY <1>7, <2>2 DEF TotalTimeout, LoopHead, LeaveLoop, TypeOK
    <3> QED
      BY <1>0, <3>1 DEF Ahead
  <2> QED
    BY <2>1, <2>2
<1>8. ASSUME NEW q \in Reports, LoopEnds(q) PROVE Kept(r) \/ Ahead(r)' < Ahead(r)
  <2>1. CASE q # r
    BY <1>8, <2>1 DEF LoopEnds, LeaveLoop, Kept, TypeOK
  <2>2. CASE q = r
    <3>1. pc[r] = "head" /\ pc'[r] \in {"no_results", "synthesis"}
      BY <1>8, <2>2 DEF LoopEnds, LeaveLoop, TypeOK
    <3> QED
      BY <1>0, <3>1 DEF Ahead
  <2> QED
    BY <2>1, <2>2
<1>9. ASSUME NEW q \in Reports, StartSection(q) PROVE Kept(r) \/ Ahead(r)' < Ahead(r)
  <2>1. CASE q # r
    BY <1>9, <2>1 DEF StartSection, Kept, TypeOK
  <2>2. CASE q = r
    <3>1. PICK i \in todo[r] : todo'[r] = todo[r] \ {i}
      BY <1>9, <2>2 DEF StartSection, TypeOK
    <3>2. Cardinality(todo'[r]) = n - 1
      <4>1. Cardinality(todo[r] \ {i}) = Cardinality(todo[r]) - 1
        BY <1>0, FS_RemoveElement, Zenon
      <4> QED
        BY <3>1, <4>1
    <3>3. pc[r] = "head" /\ pc'[r] = "section"
      BY <1>9, <2>2 DEF StartSection, LoopHead, TypeOK
    <3> QED
      BY <1>0, <3>2, <3>3 DEF Ahead
  <2> QED
    BY <2>1, <2>2
<1>10. ASSUME NEW q \in Reports, SectionAsk(q) PROVE Kept(r) \/ Ahead(r)' < Ahead(r)
  <2>1. CASE q # r
    BY <1>10, <2>1 DEF SectionAsk, Kept, TypeOK
  <2>2. CASE q = r
    <3>1. pc[r] = "section" /\ pc'[r] = "save" /\ todo'[r] = todo[r]
      BY <1>10, <2>2 DEF SectionAsk, TypeOK
    <3> QED
      BY <1>0, <3>1 DEF Ahead
  <2> QED
    BY <2>1, <2>2
<1>11. ASSUME NEW q \in Reports, SaveSection(q) PROVE Kept(r) \/ Ahead(r)' < Ahead(r)
  <2>1. CASE q # r
    BY <1>11, <2>1 DEF SaveSection, Kept, TypeOK
  <2>2. CASE q = r
    <3>1. pc[r] = "save" /\ pc'[r] = "head" /\ todo'[r] = todo[r]
      BY <1>11, <2>2 DEF SaveSection, TypeOK
    <3> QED
      BY <1>0, <3>1 DEF Ahead
  <2> QED
    BY <2>1, <2>2
<1>12. ASSUME NEW q \in Reports, Synthesize(q) PROVE Kept(r) \/ Ahead(r)' < Ahead(r)
  <2>1. CASE q # r
    BY <1>12, <2>1 DEF Synthesize, Kept, TypeOK
  <2>2. CASE q = r
    <3>1. pc[r] = "synthesis" /\ pc'[r] = "export" /\ todo'[r] = todo[r]
      BY <1>12, <2>2 DEF Synthesize, TypeOK
    <3> QED
      BY <1>0, <3>1 DEF Ahead
  <2> QED
    BY <2>1, <2>2
<1>13. ASSUME NEW q \in Reports, ExportPdf(q) PROVE Kept(r) \/ Ahead(r)' < Ahead(r)
  <2>1. CASE q # r
    BY <1>13, <2>1 DEF ExportPdf, Kept, TypeOK
  <2>2. CASE q = r
    <3>1. pc[r] = "export" /\ pc'[r] \in {"finish", "pdf_failed"}
      BY <1>13, <2>2 DEF ExportPdf, TypeOK
    <3> QED
      BY <3>1 DEF Ahead
  <2> QED
    BY <2>1, <2>2
<1>14. ASSUME NEW q \in Reports, FinishReport(q) PROVE Kept(r) \/ Ahead(r)' < Ahead(r)
  <2>1. CASE q # r
    BY <1>14, <2>1 DEF FinishReport, Kept, TypeOK
  <2>2. CASE q = r
    <3>1. pc'[r] \in Finished \cup Dead
      BY <1>14, <2>2 DEF FinishReport, TypeOK, Finished, Dead
    <3> QED
      BY <3>1, EndAdvances DEF Advances
  <2> QED
    BY <2>1, <2>2
<1>15. ASSUME NEW q \in Reports, Raise(q) PROVE Kept(r) \/ Ahead(r)' < Ahead(r)
  <2>1. CASE q # r
    BY <1>15, <2>1 DEF Raise, Kept, TypeOK
  <2>2. CASE q = r
    <3>1. pc'[r] \in Finished \cup Dead
      BY <1>15, <2>2 DEF Raise, TypeOK, Finished, Dead
    <3> QED
      BY <3>1, EndAdvances DEF Advances
  <2> QED
    BY <2>1, <2>2
<1>16. ASSUME NEW q \in Reports, Disconnect(q) PROVE Kept(r) \/ Ahead(r)' < Ahead(r)
  <2>1. CASE q # r
    BY <1>16, <2>1 DEF Disconnect, Kept, TypeOK
  <2>2. CASE q = r
    <3>1. pc'[r] \in Finished \cup Dead
      BY <1>16, <2>2 DEF Disconnect, TypeOK, Finished, Dead
    <3> QED
      BY <3>1, EndAdvances DEF Advances
  <2> QED
    BY <2>1, <2>2
<1>17. ASSUME NEW q \in Reports, CancelRead(q) PROVE Kept(r) \/ Ahead(r)' < Ahead(r)
  BY <1>17 DEF CancelRead, runnerVars, Kept
<1>18. ASSUME NEW q \in Reports, RequestCancel(q) PROVE Kept(r) \/ Ahead(r)' < Ahead(r)
  BY <1>18 DEF RequestCancel, runnerVars, Kept
<1>19. ASSUME NEW q \in Reports, CommitCancel(q) PROVE Kept(r) \/ Ahead(r)' < Ahead(r)
  BY <1>19 DEF CommitCancel, runnerVars, Kept
<1>20. ASSUME NEW q \in Reports, CancelFails(q) PROVE Kept(r) \/ Ahead(r)' < Ahead(r)
  BY <1>20 DEF CancelFails, runnerVars, Kept
<1>21. CASE Restart
  <2>1. pc'[r] = "gone"
    BY <1>21 DEF Restart
  <2> QED
    BY <2>1, EndAdvances DEF Advances, Dead
<1>22. CASE UNCHANGED vars
  BY <1>22 DEF vars, runnerVars, Kept
<1> QED
  BY <1>1, <1>2, <1>3, <1>4, <1>5, <1>6, <1>7, <1>8, <1>9, <1>10,
     <1>11, <1>12, <1>13, <1>14, <1>15, <1>16, <1>17, <1>18,
     <1>19, <1>20, <1>21, <1>22
  DEF Next, RunnerStep, CancelStep

\* Whatever happens around it, every step of a running request brings it nearer
\* to its end: no section is started twice.
THEOREM ReportAdvancesCorrect == Spec => ReportAdvances
<1>1. TypeOK /\ [Next]_vars =>
        [\A r \in Reports : pc[r] \in Active =>
            \/ UNCHANGED <<pc[r], origin[r], todo[r], cur[r], results[r]>>
            \/ Ahead(r)' < Ahead(r)]_vars
  BY AdvanceStep DEF Advances, Kept
<1> QED
  BY <1>1, TypeCorrect, PTL DEF Spec, ReportAdvances

=============================================================================
