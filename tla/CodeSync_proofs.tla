---------------------------- MODULE CodeSync_proofs ----------------------------
(***************************************************************************)
(* Proofs about CodeSync, for any set of syncs, any versions of the code   *)
(* and any bound on the faults: the type invariant, that the graph of a    *)
(* repository deleted without a sync around is empty, and that a           *)
(* repository whose status is ok after a sync nothing overlapped holds     *)
(* the rows of one version.                                                *)
(*                                                                         *)
(* Neither property is inductive.  The first needs that a deletion which   *)
(* overlaps no sync has no sync beside it from its first read on; the      *)
(* second follows the loop over the files: while one sync works alone, the *)
(* rows it has committed and the rows it has pending are those of the      *)
(* files before the next one.                                              *)
(***************************************************************************)
EXTENDS CodeSync, TLAPS

-----------------------------------------------------------------------------
(* The inductive invariant                                                 *)

\* A remote that was cloned has a version in its working directory.
SourceKnown ==
    kind = "git" =>
        /\ localPath => tree # None
        /\ \A j \in Syncs :
              (local[j] \/ pc[j] \in {"fetched", "cleared", "parsing", "report"})
                  => tree # None

\* Only a sync that inserts files has rows no one else sees.
NothingPending ==
    \A j \in Syncs : pc[j] \notin {"parsing", "report", "failing"} => pending[j] = {}

\* A deletion that met no sync has none beside it.
LoneDeletion == (~raced /\ (Deleting \/ deleted)) => \A j \in Syncs : ~Active(j)
ClearedIsEmpty == (~raced /\ (dpc = "cleared" \/ deleted)) => live = {}

\* A sync nothing overlaps is the only one, and no deletion is under way.
OneAtATime ==
    ~mixed => /\ \A j, k \in Syncs : Active(j) /\ Active(k) => j = k
              /\ Deleting => \A j \in Syncs : ~Active(j)

\* While it works the status is not ok.
StatusIsSyncing ==
    (~mixed /\ ~deleted) =>
        \A j \in Syncs :
            pc[j] \in {"marked", "fetched", "cleared", "parsing", "report", "failing"}
                => status = "syncing"

\* Its rows are those of the files it has passed.
RowsUpTo(j, n) == total[j] = Len(Source[tree]) /\ live \cup pending[j] = RowsBefore(tree, n)
RowsSoFar ==
    (~mixed /\ kind = "git") =>
        \A j \in Syncs :
            /\ pc[j] = "cleared" => live = {}
            /\ pc[j] = "parsing" => RowsUpTo(j, next[j]) /\ next[j] <= total[j] + 1
            /\ pc[j] = "report" => RowsUpTo(j, next[j] + 1) /\ next[j] <= total[j]

IInv ==
    /\ TypeOK /\ SourceKnown /\ NothingPending
    /\ LoneDeletion /\ ClearedIsEmpty
    /\ OneAtATime /\ StatusIsSyncing /\ RowsSoFar /\ LoneSyncIsExact

-----------------------------------------------------------------------------
(* The rows of files                                                       *)

LEMMA Sources ==
  ASSUME NEW v \in Versions
  PROVE  Len(Source[v]) \in Nat /\ DOMAIN Source[v] = 1 .. Len(Source[v])
BY CodeSyncAssumption DEF Versions

LEMMA VersionsExist == Len(Source) \in Nat /\ 1 \in Versions
BY CodeSyncAssumption DEF Versions

\* The rows of a file are rows of the graph.
LEMMA FileRowsAreRows ==
  ASSUME NEW v \in Versions, NEW f \in DOMAIN Source[v]
  PROVE  FileRows(v, f) \subseteq AllRows
<1>1. f \in 1 .. (Len(Source[v]) + 1) - 1
  BY Sources
<1>2. FileRows(v, f) \subseteq VersionRows(v)
  BY <1>1, Zenon DEF VersionRows, RowsBefore
<1>3. QED  BY <1>2, Zenon DEF AllRows

\* One file further, its rows are added.
LEMMA NextFile ==
  ASSUME NEW v, NEW n \in Nat \ {0}
  PROVE  RowsBefore(v, n + 1) = RowsBefore(v, n) \cup FileRows(v, n)
<1>1. 1 .. (n + 1) - 1 = (1 .. n - 1) \cup {n}
  OBVIOUS
<1>2. QED  BY <1>1, Zenon DEF RowsBefore

LEMMA NoFileYet == ASSUME NEW v PROVE RowsBefore(v, 1) = {}
<1>1. 1 .. 1 - 1 = {}
  OBVIOUS
<1>2. QED  BY <1>1, Zenon DEF RowsBefore

LEMMA AcceptedAreOfTheFile ==
  ASSUME NEW v, NEW f, NEW taken
  PROVE  Accepted(v, f, taken) \subseteq FileRows(v, f)
BY Zenon DEF Accepted

-----------------------------------------------------------------------------
(* Types                                                                   *)

\* The version a scan reads, once the source is there.
LEMMA ScannedExists ==
  ASSUME TypeOK, SourceKnown, NEW j \in Syncs,
         pc[j] \in {"fetched", "cleared", "parsing", "report"}
  PROVE  Scanned \in Versions
<1>1. CASE kind = "git"
  <2>1. tree # None
    BY <1>1, Zenon DEF SourceKnown
  <2>2. tree \in 0 .. origin /\ origin \in 1 .. Len(Source) /\ Len(Source) \in Nat
    BY VersionsExist, Zenon DEF TypeOK, Versions
  <2>3. tree \in Versions
    BY <2>1, <2>2 DEF None, Versions
  <2>4. QED  BY <1>1, <2>3, Zenon DEF Scanned
<1>2. CASE kind # "git"
  BY <1>2, Zenon DEF Scanned, TypeOK
<1>3. QED  BY <1>1, <1>2

LEMMA TypePreserved ==
  ASSUME TypeOK, SourceKnown, [Next]_vars
  PROVE  TypeOK'
<1> USE VersionsExist DEF TypeOK, Versions, None
<1>1. CASE UNCHANGED vars
  BY <1>1 DEF vars, repoVars, syncVars, historyVars
<1>2. ASSUME NEW j \in Syncs, FindRepo(j) PROVE TypeOK'
  BY <1>2 DEF FindRepo, Goto, repoVars
<1>3. ASSUME NEW j \in Syncs, MarkSyncing(j) PROVE TypeOK'
  BY <1>3 DEF MarkSyncing, Goto, SetStatus
<1>4. ASSUME NEW j \in Syncs, ScanInPlace(j) PROVE TypeOK'
  BY <1>4 DEF ScanInPlace, Goto, repoVars, historyVars
<1>5. ASSUME NEW j \in Syncs, CloneOrPull(j) PROVE TypeOK'
  BY <1>5 DEF CloneOrPull, Goto, historyVars
<1>6. ASSUME NEW j \in Syncs, SourceFails(j) PROVE TypeOK'
  BY <1>6, CodeSyncAssumption DEF SourceFails, Goto, repoVars, historyVars
<1>7. ASSUME NEW j \in Syncs, ClearGraph(j) PROVE TypeOK'
  BY <1>7 DEF ClearGraph, Goto, repoVars
<1>8. ASSUME NEW j \in Syncs, ListFiles(j) PROVE TypeOK'
  <2>1. Scanned \in 1 .. Len(Source)
    BY <1>8, ScannedExists, Zenon DEF ListFiles
  <2>2. Len(Source[Scanned]) \in Nat
    BY <2>1, Sources
  <2>3. QED  BY <1>8, <2>2 DEF ListFiles, Goto, SetStatus, historyVars
<1>9. ASSUME NEW j \in Syncs, SkipFile(j) PROVE TypeOK'
  BY <1>9 DEF SkipFile, repoVars, historyVars
<1>10. ASSUME NEW j \in Syncs, InsertFile(j) PROVE TypeOK'
  <2>1. Scanned \in Versions /\ next[j] \in DOMAIN Source[Scanned]
    BY <1>10, ScannedExists, Zenon DEF InsertFile, ReadsFile, Parses
  <2>2. FileRows(Scanned, next[j]) \subseteq AllRows
    BY <2>1, FileRowsAreRows, Zenon
  <2>3. Accepted(Scanned, next[j], Names(live \cup pending[j])) \subseteq AllRows
    BY <2>2, AcceptedAreOfTheFile, Zenon
  <2>4. pending' \in [Syncs -> SUBSET AllRows]
    BY <1>10, <2>3 DEF InsertFile
  <2>5. next' = next \/ next' = [next EXCEPT ![j] = @ + 1]
    BY <1>10, Zenon DEF InsertFile
  <2>6. next' \in [Syncs -> Nat \ {0}]
    <3> HIDE DEF TypeOK
    <3>1. next \in [Syncs -> Nat \ {0}]
      BY Zenon DEF TypeOK
    <3>2. next[j] + 1 \in Nat \ {0}
      BY <3>1
    <3>3. QED  BY <2>5, <3>1, <3>2
  <2>7. pc' = pc \/ pc' = [pc EXCEPT ![j] = "report"] \/ pc' = [pc EXCEPT ![j] = "failing"]
    BY <1>10, Zenon DEF InsertFile, Goto
  <2>8. pc' \in [Syncs -> {"idle", "found", "marked", "fetched", "cleared", "parsing",
                          "report", "failing", "done", "failed", "dead"}]
    BY <2>7
  <2>9. QED  BY <1>10, <2>4, <2>6, <2>8 DEF InsertFile, repoVars, historyVars
<1>11. ASSUME NEW j \in Syncs, FileVanished(j) PROVE TypeOK'
  BY <1>11 DEF FileVanished, Goto, repoVars, historyVars
<1>12. ASSUME NEW j \in Syncs, ReportProgress(j) PROVE TypeOK'
  BY <1>12 DEF ReportProgress, Goto, SetStatus, Commit
<1>13. ASSUME NEW j \in Syncs, SyncOk(j) PROVE TypeOK'
  <2>1. Scanned \in Versions
    BY <1>13, ScannedExists, Zenon DEF SyncOk
  <2>2. QED  BY <1>13, <2>1 DEF SyncOk, Goto, SetStatus, Commit
<1>14. ASSUME NEW j \in Syncs, SyncFails(j) PROVE TypeOK'
  BY <1>14 DEF SyncFails, Goto, SetStatus, Commit
<1>15. ASSUME NEW j \in Syncs, LockWaitFails(j) PROVE TypeOK'
  BY <1>15, CodeSyncAssumption DEF LockWaitFails, Goto, repoVars, historyVars
<1>16. ASSUME NEW j \in Syncs, DeadlockVictim(j) PROVE TypeOK'
  BY <1>16 DEF DeadlockVictim, Goto, repoVars, historyVars
<1>17. CASE Crash
  BY <1>17, CodeSyncAssumption DEF Crash, repoVars
<1>18. CASE Push
  BY <1>18 DEF Push, syncVars, historyVars
<1>19. CASE EmptyLocalPath
  BY <1>19 DEF EmptyLocalPath, syncVars, historyVars
<1>20. CASE DeleteFound
  BY <1>20 DEF DeleteFound, repoVars, syncVars
<1>21. CASE DeleteClears
  BY <1>21 DEF DeleteClears, repoVars, syncVars
<1>22. CASE DeleteRepo
  BY <1>22 DEF DeleteRepo, syncVars
<1>23. QED
  BY <1>1, <1>2, <1>3, <1>4, <1>5, <1>6, <1>7, <1>8, <1>9, <1>10, <1>11, <1>12, <1>13,
     <1>14, <1>15, <1>16, <1>17, <1>18, <1>19, <1>20, <1>21, <1>22, Zenon DEF Next, SyncStep

\* The source of a remote stays once it is there.
LEMMA SourceKnownPreserved ==
  ASSUME TypeOK, SourceKnown, [Next]_vars
  PROVE  SourceKnown'
<1> USE VersionsExist DEF TypeOK, SourceKnown, Versions, None
<1>1. CASE UNCHANGED vars
  BY <1>1 DEF vars, repoVars, syncVars, historyVars
<1>2. ASSUME NEW j \in Syncs, FindRepo(j) PROVE SourceKnown'
  BY <1>2 DEF FindRepo, Goto, repoVars
<1>3. ASSUME NEW j \in Syncs, MarkSyncing(j) PROVE SourceKnown'
  BY <1>3 DEF MarkSyncing, Goto, SetStatus
<1>4. ASSUME NEW j \in Syncs, ScanInPlace(j) PROVE SourceKnown'
  BY <1>4 DEF ScanInPlace, Goto, repoVars, historyVars
<1>5. ASSUME NEW j \in Syncs, CloneOrPull(j) PROVE SourceKnown'
  BY <1>5 DEF CloneOrPull, Goto, historyVars
<1>6. ASSUME NEW j \in Syncs, SourceFails(j) PROVE SourceKnown'
  BY <1>6 DEF SourceFails, Goto, repoVars, historyVars
<1>7. ASSUME NEW j \in Syncs, ClearGraph(j) PROVE SourceKnown'
  BY <1>7 DEF ClearGraph, Goto, repoVars
<1>8. ASSUME NEW j \in Syncs, ListFiles(j) PROVE SourceKnown'
  BY <1>8 DEF ListFiles, Goto, SetStatus, historyVars
<1>9. ASSUME NEW j \in Syncs, SkipFile(j) PROVE SourceKnown'
  BY <1>9 DEF SkipFile, repoVars, historyVars
<1>10. ASSUME NEW j \in Syncs, InsertFile(j) PROVE SourceKnown'
  BY <1>10 DEF InsertFile, ReadsFile, Parses, Goto, repoVars, historyVars
<1>11. ASSUME NEW j \in Syncs, FileVanished(j) PROVE SourceKnown'
  BY <1>11 DEF FileVanished, Goto, repoVars, historyVars
<1>12. ASSUME NEW j \in Syncs, ReportProgress(j) PROVE SourceKnown'
  BY <1>12 DEF ReportProgress, Goto, SetStatus, Commit
<1>13. ASSUME NEW j \in Syncs, SyncOk(j) PROVE SourceKnown'
  BY <1>13 DEF SyncOk, Goto, SetStatus, Commit
<1>14. ASSUME NEW j \in Syncs, SyncFails(j) PROVE SourceKnown'
  BY <1>14 DEF SyncFails, Goto, SetStatus, Commit
<1>15. ASSUME NEW j \in Syncs, LockWaitFails(j) PROVE SourceKnown'
  BY <1>15 DEF LockWaitFails, Goto, repoVars, historyVars
<1>16. ASSUME NEW j \in Syncs, DeadlockVictim(j) PROVE SourceKnown'
  BY <1>16 DEF DeadlockVictim, Goto, repoVars, historyVars
<1>17. CASE Crash
  BY <1>17 DEF Crash, repoVars
<1>18. CASE Push
  BY <1>18 DEF Push, syncVars, historyVars
<1>19. CASE EmptyLocalPath
  BY <1>19 DEF EmptyLocalPath, syncVars, historyVars
<1>20. CASE DeleteFound
  BY <1>20 DEF DeleteFound, repoVars, syncVars
<1>21. CASE DeleteClears
  BY <1>21 DEF DeleteClears, repoVars, syncVars
<1>22. CASE DeleteRepo
  BY <1>22 DEF DeleteRepo, syncVars
<1>23. QED
  BY <1>1, <1>2, <1>3, <1>4, <1>5, <1>6, <1>7, <1>8, <1>9, <1>10, <1>11, <1>12, <1>13,
     <1>14, <1>15, <1>16, <1>17, <1>18, <1>19, <1>20, <1>21, <1>22, Zenon DEF Next, SyncStep

-----------------------------------------------------------------------------
(* Syncs and the deletion beside each other                                *)

Working == {"marked", "fetched", "cleared", "parsing", "report", "failing"}

\* A step of one sync leaves the others and the deletion alone.
LEMMA StepOfOne ==
  ASSUME TypeOK, NEW j \in Syncs, SyncStep(j)
  PROVE  /\ \A k \in Syncs \ {j} : pc'[k] = pc[k] /\ pending'[k] = pending[k]
         /\ kind' = kind /\ deleted' = deleted /\ dpc' = dpc
         /\ \/ FindRepo(j)
            \/ Active(j) /\ raced' = raced /\ (mixed' = mixed \/ MarkSyncing(j))
<1> USE DEF TypeOK, Active, Ended
<1>1. CASE FindRepo(j)
  BY <1>1 DEF FindRepo, Goto, repoVars
<1>2. CASE MarkSyncing(j)
  BY <1>2 DEF MarkSyncing, Goto, SetStatus
<1>3. CASE ScanInPlace(j)
  BY <1>3 DEF ScanInPlace, Goto, repoVars, historyVars
<1>4. CASE CloneOrPull(j)
  BY <1>4 DEF CloneOrPull, Goto, historyVars
<1>5. CASE SourceFails(j)
  BY <1>5 DEF SourceFails, Goto, repoVars, historyVars
<1>6. CASE ClearGraph(j)
  BY <1>6 DEF ClearGraph, Goto, repoVars
<1>7. CASE ListFiles(j)
  BY <1>7 DEF ListFiles, Goto, historyVars
<1>8. CASE SkipFile(j)
  BY <1>8 DEF SkipFile, ReadsFile, Parses, repoVars, historyVars
<1>9. CASE InsertFile(j)
  BY <1>9 DEF InsertFile, ReadsFile, Parses, Goto, repoVars, historyVars
<1>10. CASE FileVanished(j)
  BY <1>10 DEF FileVanished, Parses, Goto, repoVars, historyVars
<1>11. CASE ReportProgress(j)
  BY <1>11 DEF ReportProgress, Goto, Commit
<1>12. CASE SyncOk(j)
  BY <1>12 DEF SyncOk, Goto, Commit
<1>13. CASE SyncFails(j)
  BY <1>13 DEF SyncFails, Goto, Commit
<1>14. CASE LockWaitFails(j)
  BY <1>14 DEF LockWaitFails, Waits, ReadsFile, Parses, Goto, repoVars, historyVars
<1>15. CASE DeadlockVictim(j)
  BY <1>15 DEF DeadlockVictim, Waits, ReadsFile, Parses, Goto, repoVars, historyVars
<1>16. QED
  BY <1>1, <1>2, <1>3, <1>4, <1>5, <1>6, <1>7, <1>8, <1>9, <1>10, <1>11, <1>12, <1>13,
     <1>14, <1>15, Zenon DEF SyncStep

\* What it does to its own rows, and to the status while it works.
LEMMA OwnRows ==
  ASSUME TypeOK, NothingPending, NEW j \in Syncs, SyncStep(j)
  PROVE  /\ pc'[j] \notin {"parsing", "report", "failing"} => pending'[j] = {}
         /\ ~deleted /\ pc'[j] \in Working =>
               status' = "syncing" \/ (pc[j] \in Working /\ status' = status)
<1> USE DEF TypeOK, NothingPending, Working
<1>1. CASE FindRepo(j)
  BY <1>1 DEF FindRepo, Goto, repoVars
<1>2. CASE MarkSyncing(j)
  <2>1. pc'[j] = "marked" /\ pc[j] = "found" /\ pending' = pending
    BY <1>2 DEF MarkSyncing, Goto
  <2>2. ~deleted => status' = "syncing"
    BY <1>2, Zenon DEF MarkSyncing, SetStatus
  <2>3. QED  BY <2>1, <2>2
<1>3. CASE ScanInPlace(j)
  BY <1>3 DEF ScanInPlace, Goto, repoVars, historyVars
<1>4. CASE CloneOrPull(j)
  BY <1>4 DEF CloneOrPull, Goto, historyVars
<1>5. CASE SourceFails(j)
  BY <1>5 DEF SourceFails, Goto, repoVars, historyVars
<1>6. CASE ClearGraph(j)
  BY <1>6 DEF ClearGraph, Goto, repoVars
<1>7. CASE ListFiles(j)
  <2>1. pc'[j] = "parsing"
    BY <1>7 DEF ListFiles, Goto
  <2>2. ~deleted => status' = "syncing"
    BY <1>7, Zenon DEF ListFiles, SetStatus
  <2>3. QED  BY <2>1, <2>2
<1>8. CASE SkipFile(j)
  BY <1>8 DEF SkipFile, ReadsFile, Parses, repoVars, historyVars
<1>9. CASE InsertFile(j)
  BY <1>9 DEF InsertFile, ReadsFile, Parses, Goto, repoVars, historyVars
<1>10. CASE FileVanished(j)
  BY <1>10 DEF FileVanished, Parses, Goto, repoVars, historyVars
<1>11. CASE ReportProgress(j)
  <2>1. pc'[j] = "parsing"
    BY <1>11 DEF ReportProgress, Goto
  <2>2. ~deleted => status' = "syncing"
    BY <1>11, Zenon DEF ReportProgress, SetStatus
  <2>3. QED  BY <2>1, <2>2
<1>12. CASE SyncOk(j)
  BY <1>12 DEF SyncOk, Goto, SetStatus, Commit
<1>13. CASE SyncFails(j)
  BY <1>13 DEF SyncFails, Goto, SetStatus, Commit
<1>14. CASE LockWaitFails(j)
  BY <1>14 DEF LockWaitFails, Waits, ReadsFile, Parses, Goto, repoVars, historyVars
<1>15. CASE DeadlockVictim(j)
  BY <1>15 DEF DeadlockVictim, Waits, ReadsFile, Parses, Goto, repoVars, historyVars
<1>16. QED
  BY <1>1, <1>2, <1>3, <1>4, <1>5, <1>6, <1>7, <1>8, <1>9, <1>10, <1>11, <1>12, <1>13,
     <1>14, <1>15, Zenon DEF SyncStep

\* The steps of no sync.
Elsewhere == Crash \/ Push \/ EmptyLocalPath \/ DeleteFound \/ DeleteClears \/ DeleteRepo

LEMMA StepElsewhere ==
  ASSUME TypeOK, NothingPending, Elsewhere
  PROVE  /\ kind' = kind
         /\ \/ pc' = pc /\ pending' = pending
            \/ \A j \in Syncs : ~Active(j)' /\ pending'[j] = {}
         /\ tree' = tree /\ total' = total /\ next' = next /\ local' = local
         /\ status' = status /\ hash' = hash
         /\ live' = live \/ (live' = {} /\ mixed')
         /\ (mixed => mixed') /\ (deleted => deleted')
<1> USE DEF TypeOK
<1>1. CASE Crash
  <2>1. \A j \in Syncs : ~Active(j)' /\ pending'[j] = {}
    BY <1>1 DEF Crash, Active, Ended
  <2>2. QED  BY <1>1, <2>1, Zenon DEF Crash, repoVars
<1>2. CASE Push
  BY <1>2, Zenon DEF Push, syncVars, historyVars
<1>3. CASE EmptyLocalPath
  BY <1>3, Zenon DEF EmptyLocalPath, syncVars, historyVars
<1>4. CASE DeleteFound
  BY <1>4, Zenon DEF DeleteFound, repoVars, syncVars
<1>5. CASE DeleteClears
  BY <1>5, Zenon DEF DeleteClears, repoVars, syncVars
<1>6. CASE DeleteRepo
  BY <1>6, Zenon DEF DeleteRepo, syncVars
<1>7. QED
  BY <1>1, <1>2, <1>3, <1>4, <1>5, <1>6, Zenon DEF Elsewhere

LEMMA Steps ==
  ASSUME [Next]_vars
  PROVE  UNCHANGED vars \/ (\E j \in Syncs : SyncStep(j)) \/ Elsewhere
BY Zenon DEF Next, Elsewhere

LEMMA NothingPendingPreserved ==
  ASSUME TypeOK, NothingPending, [Next]_vars
  PROVE  NothingPending'
<1>1. CASE UNCHANGED vars
  BY <1>1 DEF NothingPending, vars, syncVars
<1>2. ASSUME NEW j \in Syncs, SyncStep(j) PROVE NothingPending'
  <2>1. \A k \in Syncs \ {j} : pc'[k] = pc[k] /\ pending'[k] = pending[k]
    BY <1>2, StepOfOne
  <2>2. pc'[j] \notin {"parsing", "report", "failing"} => pending'[j] = {}
    BY <1>2, OwnRows
  <2>3. QED  BY <2>1, <2>2 DEF NothingPending
<1>3. CASE Elsewhere
  <2>1. CASE pc' = pc /\ pending' = pending
    BY <2>1 DEF NothingPending
  <2>2. CASE \A j \in Syncs : ~Active(j)' /\ pending'[j] = {}
    BY <2>2 DEF NothingPending
  <2>3. QED  BY <1>3, <2>1, <2>2, StepElsewhere
<1>4. QED  BY <1>1, <1>2, <1>3, Steps

\* Someone who deletes a repository no sync works on stays alone with it.
LEMMA LoneDeletionPreserved ==
  ASSUME TypeOK, NothingPending, LoneDeletion, [Next]_vars
  PROVE  LoneDeletion'
<1>1. CASE UNCHANGED vars
  BY <1>1 DEF LoneDeletion, Deleting, Active, vars, repoVars, syncVars, historyVars
<1>2. ASSUME NEW j \in Syncs, SyncStep(j) PROVE LoneDeletion'
  <2>1. /\ \A k \in Syncs \ {j} : pc'[k] = pc[k] /\ pending'[k] = pending[k]
        /\ deleted' = deleted /\ dpc' = dpc
    BY <1>2, StepOfOne
  <2>2. CASE FindRepo(j) /\ deleted
    <3>1. raced' = raced /\ pc'[j] = "failed"
      BY <2>2 DEF FindRepo, Goto, TypeOK
    <3>2. QED  BY <2>1, <3>1 DEF LoneDeletion, Deleting, Active, Ended
  <2>3. CASE FindRepo(j) /\ ~deleted
    <3>1. ~raced' => ~Deleting
      BY <2>3, Zenon DEF FindRepo
    <3>2. QED  BY <2>1, <2>3, <3>1, Zenon DEF LoneDeletion, Deleting
  <2>4. CASE Active(j) /\ raced' = raced
    BY <2>1, <2>4, Zenon DEF LoneDeletion, Deleting
  <2>5. QED  BY <1>2, <2>2, <2>3, <2>4, StepOfOne
<1>3. CASE Crash
  BY <1>3, StepElsewhere, Zenon DEF LoneDeletion, Elsewhere, Crash, Active, Deleting, Ended, repoVars
<1>4. CASE Push
  BY <1>4, Zenon DEF LoneDeletion, Deleting, Active, Push, syncVars, historyVars
<1>5. CASE EmptyLocalPath
  BY <1>5, Zenon DEF LoneDeletion, Deleting, Active, EmptyLocalPath, syncVars, historyVars
<1>6. CASE DeleteFound
  BY <1>6, Zenon DEF LoneDeletion, Deleting, Active, DeleteFound, repoVars, syncVars
<1>7. CASE DeleteClears
  BY <1>7 DEF LoneDeletion, Deleting, Active, DeleteClears, repoVars, syncVars
<1>8. CASE DeleteRepo
  BY <1>8 DEF LoneDeletion, Deleting, Active, DeleteRepo, syncVars
<1>9. QED
  BY <1>1, <1>2, <1>3, <1>4, <1>5, <1>6, <1>7, <1>8, Steps DEF Elsewhere

\* A clear in a commit of its own would be undone by the pending rows of a sync;
\* there is none.
LEMMA ClearedIsEmptyPreserved ==
  ASSUME TypeOK, NothingPending, LoneDeletion, ClearedIsEmpty, [Next]_vars
  PROVE  ClearedIsEmpty'
<1>1. CASE UNCHANGED vars
  BY <1>1 DEF ClearedIsEmpty, vars, repoVars, historyVars
<1>2. ASSUME NEW j \in Syncs, SyncStep(j) PROVE ClearedIsEmpty'
  <2>1. deleted' = deleted /\ dpc' = dpc
    BY <1>2, StepOfOne
  <2>2. CASE FindRepo(j)
    <3>1. live' = live /\ (~raced' => ~raced)
      BY <2>2, Zenon DEF FindRepo
    <3>2. QED  BY <2>1, <3>1, Zenon DEF ClearedIsEmpty
  <2>3. CASE Active(j) /\ raced' = raced
    <3>1. ~(~raced /\ (dpc = "cleared" \/ deleted))
      BY <2>3 DEF LoneDeletion, Deleting
    <3>2. QED  BY <2>1, <2>3, <3>1, Zenon DEF ClearedIsEmpty
  <2>4. QED  BY <1>2, <2>2, <2>3, StepOfOne
<1>3. CASE Crash
  <2>1. dpc' = "cleared" => dpc = "cleared"
    BY <1>3 DEF Crash, Deleting
  <2>2. QED  BY <1>3, <2>1, Zenon DEF ClearedIsEmpty, Crash, repoVars
<1>4. CASE Push
  BY <1>4, Zenon DEF ClearedIsEmpty, Push, historyVars
<1>5. CASE EmptyLocalPath
  BY <1>5, Zenon DEF ClearedIsEmpty, EmptyLocalPath, historyVars
<1>6. CASE DeleteFound
  BY <1>6 DEF ClearedIsEmpty, DeleteFound, repoVars
<1>7. CASE DeleteClears
  BY <1>7 DEF ClearedIsEmpty, DeleteClears
<1>8. CASE DeleteRepo
  BY <1>8 DEF ClearedIsEmpty, DeleteRepo
<1>9. QED
  BY <1>1, <1>2, <1>3, <1>4, <1>5, <1>6, <1>7, <1>8, Steps DEF Elsewhere

-----------------------------------------------------------------------------
(* A sync that nothing overlaps                                            *)

LEMMA OneAtATimePreserved ==
  ASSUME TypeOK, NothingPending, OneAtATime, [Next]_vars
  PROVE  OneAtATime'
<1>1. CASE UNCHANGED vars
  BY <1>1 DEF OneAtATime, Deleting, Active, vars, syncVars, historyVars
<1>2. ASSUME NEW j \in Syncs, SyncStep(j) PROVE OneAtATime'
  <2>1. (\A k \in Syncs \ {j} : pc'[k] = pc[k]) /\ dpc' = dpc
    BY <1>2, StepOfOne
  <2>2. CASE FindRepo(j) /\ deleted
    <3>1. mixed' = mixed /\ pc'[j] = "failed"
      BY <2>2 DEF FindRepo, Goto, TypeOK
    <3>2. \A k \in Syncs : Active(k)' => Active(k)
      BY <2>1, <3>1 DEF Active, Ended
    <3>3. QED  BY <2>1, <3>1, <3>2, Zenon DEF OneAtATime, Deleting
  <2>3. CASE ~mixed' => /\ \A k \in Syncs \ {j} : ~Active(k)
                        /\ ~Deleting \/ ~Active(j)'
    BY <2>1, <2>3 DEF OneAtATime, Active, Deleting
  <2>4. CASE FindRepo(j) /\ ~deleted
    BY <2>3, <2>4, Zenon DEF FindRepo, OthersActive
  <2>5. CASE MarkSyncing(j)
    <3>1. ~mixed' => ~mixed \/ (~OthersActive(j) /\ ~Deleting)
      BY <2>5, Zenon DEF MarkSyncing
    <3>2. Active(j)
      BY <2>5 DEF MarkSyncing, Active, Ended
    <3>3. QED  BY <2>3, <3>1, <3>2 DEF OneAtATime, OthersActive
  <2>6. CASE Active(j) /\ mixed' = mixed
    BY <2>3, <2>6 DEF OneAtATime
  <2>7. QED  BY <1>2, <2>2, <2>4, <2>5, <2>6, StepOfOne
<1>3. CASE Crash
  BY <1>3, StepElsewhere DEF OneAtATime, Elsewhere, Crash, Active, Ended, Deleting
<1>4. CASE Push
  BY <1>4, Zenon DEF OneAtATime, Deleting, Active, Push, syncVars, historyVars
<1>5. CASE EmptyLocalPath
  BY <1>5, Zenon DEF OneAtATime, Deleting, Active, EmptyLocalPath, syncVars, historyVars
<1>6. CASE DeleteFound
  BY <1>6, Zenon DEF OneAtATime, Deleting, Active, DeleteFound, repoVars, syncVars
<1>7. CASE DeleteClears
  BY <1>7, Zenon DEF OneAtATime, DeleteClears
<1>8. CASE DeleteRepo
  BY <1>8 DEF OneAtATime, Deleting, Active, DeleteRepo, syncVars
<1>9. QED
  BY <1>1, <1>2, <1>3, <1>4, <1>5, <1>6, <1>7, <1>8, Steps DEF Elsewhere

LEMMA StatusIsSyncingPreserved ==
  ASSUME TypeOK, NothingPending, OneAtATime, StatusIsSyncing, [Next]_vars
  PROVE  StatusIsSyncing'
<1>1. CASE UNCHANGED vars
  BY <1>1 DEF StatusIsSyncing, vars, repoVars, syncVars, historyVars
<1>2. ASSUME NEW j \in Syncs, SyncStep(j) PROVE StatusIsSyncing'
  <2>1. (\A k \in Syncs \ {j} : pc'[k] = pc[k]) /\ deleted' = deleted
    BY <1>2, StepOfOne
  <2>2. CASE FindRepo(j)
    <3>1. pc'[j] \in {"found", "failed"}
      BY <2>2 DEF FindRepo, Goto, TypeOK
    <3>2. status' = status /\ (~mixed' => ~mixed)
      BY <2>2, Zenon DEF FindRepo, repoVars
    <3>3. QED  BY <2>1, <3>1, <3>2 DEF StatusIsSyncing
  <2>3. CASE MarkSyncing(j)
    <3>1. ~deleted => status' = "syncing"
      BY <2>3, Zenon DEF MarkSyncing, SetStatus
    <3>2. QED  BY <2>1, <3>1, Zenon DEF StatusIsSyncing
  <2>4. CASE Active(j) /\ mixed' = mixed
    <3>1. ~mixed => \A k \in Syncs \ {j} : pc'[k] \in Ended
      BY <2>1, <2>4 DEF OneAtATime, Active
    <3>2. (~mixed /\ ~deleted /\ pc'[j] \in Working) => status' = "syncing"
      BY <1>2, OwnRows DEF StatusIsSyncing, Working
    <3>3. QED  BY <2>1, <2>4, <3>1, <3>2 DEF StatusIsSyncing, Working, Ended
  <2>5. QED  BY <1>2, <2>2, <2>3, <2>4, StepOfOne
<1>3. CASE Elsewhere
  <2>1. status' = status /\ (~mixed' /\ ~deleted' => ~mixed /\ ~deleted)
    BY <1>3, StepElsewhere
  <2>2. CASE pc' = pc
    BY <2>1, <2>2 DEF StatusIsSyncing
  <2>3. CASE \A j \in Syncs : ~Active(j)'
    BY <2>3 DEF StatusIsSyncing, Active, Ended
  <2>4. QED  BY <1>3, <2>2, <2>3, StepElsewhere
<1>4. QED  BY <1>1, <1>2, <1>3, Steps

\* The loop over the files: what one sync has inserted so far.
OwnRowsSoFar(j) ==
    /\ pc[j] = "cleared" => live = {}
    /\ pc[j] = "parsing" => RowsUpTo(j, next[j]) /\ next[j] <= total[j] + 1
    /\ pc[j] = "report" => RowsUpTo(j, next[j] + 1) /\ next[j] <= total[j]

LEMMA LoopKeepsRows ==
  ASSUME TypeOK, SourceKnown, NothingPending, RowsSoFar,
         kind = "git", ~mixed, mixed' = mixed, NEW j \in Syncs, SyncStep(j)
  PROVE  OwnRowsSoFar(j)'
<1>1. OwnRowsSoFar(j) /\ next[j] \in Nat \ {0} /\ Scanned = tree
  BY Zenon DEF RowsSoFar, OwnRowsSoFar, TypeOK, Scanned
<1>2. pc'[j] \notin {"cleared", "parsing", "report"} => OwnRowsSoFar(j)'
  BY DEF OwnRowsSoFar
<1>3. CASE FindRepo(j)
  BY <1>2, <1>3 DEF FindRepo, Goto, TypeOK
<1>4. CASE MarkSyncing(j)
  BY <1>2, <1>4 DEF MarkSyncing, Goto, TypeOK
<1>5. CASE ScanInPlace(j) \/ CloneOrPull(j) \/ SourceFails(j)
  BY <1>2, <1>5 DEF ScanInPlace, CloneOrPull, SourceFails, Goto, TypeOK
<1>6. CASE ClearGraph(j)
  <2>1. pc'[j] = "cleared" /\ live' = {}
    BY <1>6 DEF ClearGraph, Goto, TypeOK
  <2>2. QED  BY <2>1 DEF OwnRowsSoFar
<1>7. CASE ListFiles(j)
  <2>1. pc[j] = "cleared" /\ live' = live /\ pending' = pending /\ tree' = tree
    BY <1>7, Zenon DEF ListFiles
  <2>2. live' \cup pending'[j] = {}
    BY <1>1, <2>1 DEF OwnRowsSoFar, NothingPending
  <2>3. pc'[j] = "parsing" /\ next'[j] = 1 /\ total'[j] = Len(Source[tree])
    BY <1>1, <1>7 DEF ListFiles, Goto, TypeOK
  <2>4. Len(Source[tree]) \in Nat
    BY <1>1, <2>1, ScannedExists, Sources
  <2>5. next'[j] <= total'[j] + 1
    BY <2>3, <2>4
  <2>6. QED  BY <2>1, <2>2, <2>3, <2>5, NoFileYet DEF OwnRowsSoFar, RowsUpTo
<1>8. CASE SkipFile(j)
  <2>1. /\ pc[j] = "parsing" /\ pc' = pc /\ live' = live /\ pending' = pending
        /\ tree' = tree /\ total' = total /\ next[j] <= total[j]
        /\ FileRows(tree, next[j]) = {}
    BY <1>1, <1>8, Zenon DEF SkipFile, ReadsFile, Parses, Mine, repoVars
  <2>2. next'[j] = next[j] + 1
    BY <1>8 DEF SkipFile, TypeOK
  <2>3. RowsBefore(tree, next[j] + 1) = RowsBefore(tree, next[j])
    BY <1>1, <2>1, NextFile, ZenonT(60)
  <2>4. total[j] \in Nat /\ next'[j] <= total[j] + 1
    BY <1>1, <2>1, <2>2 DEF TypeOK
  <2>5. RowsUpTo(j, next[j])
    BY <1>1, <2>1, Zenon DEF OwnRowsSoFar
  <2>6. RowsUpTo(j, next[j])'
    BY <2>1, <2>2, <2>3, <2>5, Zenon DEF RowsUpTo
  <2>7. QED  BY <2>1, <2>4, <2>6 DEF OwnRowsSoFar
<1>9. CASE InsertFile(j)
  <2>1. /\ pc[j] = "parsing" /\ live' = live /\ tree' = tree /\ total' = total
        /\ next[j] <= total[j]
    BY <1>1, <1>9, Zenon DEF InsertFile, ReadsFile, Parses, repoVars
  <2> DEFINE taken == Names(live \cup pending[j])
  <2>2. CASE ~Fits(tree, next[j], taken)
    <3>1. pc'[j] = "failing"
      BY <1>1, <1>9, <2>2 DEF InsertFile, Goto, TypeOK
    <3>2. QED  BY <1>2, <3>1
  <2>3. CASE Fits(tree, next[j], taken)
    <3>1. pending'[j] = pending[j] \cup Accepted(tree, next[j], taken)
      BY <1>1, <1>9 DEF InsertFile, TypeOK
    <3>2. Accepted(tree, next[j], taken) = FileRows(tree, next[j])
      BY <2>3, Zenon DEF Fits
    <3>3. RowsUpTo(j, next[j])
      BY <1>1, <2>1, Zenon DEF OwnRowsSoFar
    <3>4. live' \cup pending'[j] = RowsBefore(tree, next[j] + 1)
      BY <1>1, <2>1, <3>1, <3>2, <3>3, NextFile DEF RowsUpTo
    <3>5. \/ pc'[j] = "report" /\ next' = next
          \/ pc' = pc /\ next'[j] = next[j] + 1
      BY <1>1, <1>9, <2>3 DEF InsertFile, Goto, TypeOK
    <3>6. total[j] \in Nat /\ next[j] + 1 <= total[j] + 1
      BY <1>1, <2>1 DEF TypeOK
    <3>7. total'[j] = Len(Source[tree'])
      BY <2>1, <3>3 DEF RowsUpTo
    <3>8. QED  BY <2>1, <3>4, <3>5, <3>6, <3>7 DEF OwnRowsSoFar, RowsUpTo
  <2>4. QED  BY <2>2, <2>3
<1>10. CASE ReportProgress(j)
  <2>1. /\ pc[j] = "report" /\ tree' = tree /\ total' = total
        /\ live' = live \cup pending[j]
    BY <1>10, Zenon DEF ReportProgress, Commit
  <2>2. pc'[j] = "parsing" /\ pending'[j] = {} /\ next'[j] = next[j] + 1
    BY <1>10 DEF ReportProgress, Commit, Goto, TypeOK
  <2>3. RowsUpTo(j, next[j] + 1) /\ next[j] <= total[j]
    BY <1>1, <2>1, Zenon DEF OwnRowsSoFar
  <2>4. total[j] \in Nat /\ next[j] + 1 <= total[j] + 1
    BY <1>1, <2>3 DEF TypeOK
  <2>5. live' \cup pending'[j] = live \cup pending[j]
    BY <2>1, <2>2
  <2>6. RowsUpTo(j, next[j])'
    BY <2>1, <2>2, <2>3, <2>5 DEF RowsUpTo
  <2>7. QED  BY <2>1, <2>2, <2>4, <2>6 DEF OwnRowsSoFar
<1>11. CASE FileVanished(j)
  BY <1>2, <1>11 DEF FileVanished, Goto, TypeOK
<1>12. CASE SyncOk(j)
  BY <1>2, <1>12 DEF SyncOk, Goto, TypeOK
<1>13. CASE SyncFails(j)
  BY <1>2, <1>13 DEF SyncFails, Goto, TypeOK
<1>14. CASE LockWaitFails(j)
  BY <1>2, <1>14 DEF LockWaitFails, Goto, TypeOK
<1>15. CASE DeadlockVictim(j)
  BY <1>2, <1>15 DEF DeadlockVictim, Goto, TypeOK
<1>16. QED
  BY <1>3, <1>4, <1>5, <1>6, <1>7, <1>8, <1>9, <1>10, <1>11, <1>12, <1>13, <1>14, <1>15,
     Zenon DEF SyncStep

LEMMA RowsSoFarPreserved ==
  ASSUME TypeOK, SourceKnown, NothingPending, OneAtATime, RowsSoFar, [Next]_vars
  PROVE  RowsSoFar'
<1>1. CASE UNCHANGED vars
  BY <1>1 DEF RowsSoFar, RowsUpTo, vars, repoVars, syncVars, historyVars
<1>2. ASSUME NEW j \in Syncs, SyncStep(j) PROVE RowsSoFar'
  <2>1. (\A k \in Syncs \ {j} : pc'[k] = pc[k]) /\ kind' = kind
    BY <1>2, StepOfOne
  <2>2. CASE FindRepo(j)
    <3>1. pc'[j] \in {"found", "failed"}
      BY <2>2 DEF FindRepo, Goto, TypeOK
    <3>2. /\ total' = total /\ tree' = tree /\ next' = next
          /\ live' = live /\ pending' = pending /\ (~mixed' => ~mixed)
      BY <2>2, Zenon DEF FindRepo, repoVars
    <3>3. QED  BY <2>1, <3>1, <3>2 DEF RowsSoFar, RowsUpTo
  <2>3. CASE MarkSyncing(j)
    <3>1. pc'[j] = "marked"
      BY <2>3 DEF MarkSyncing, Goto, TypeOK
    <3>2. ~mixed' => \A k \in Syncs : Active(k)' => k = j
      <4>1. OneAtATime'
        BY <1>2, OneAtATimePreserved, Zenon DEF Next
      <4>2. QED  BY <3>1, <4>1 DEF OneAtATime, Active, Ended
    <3>3. QED  BY <3>1, <3>2 DEF RowsSoFar, Active, Ended
  <2>4. CASE Active(j) /\ mixed' = mixed
    <3>1. SUFFICES ASSUME ~mixed, kind = "git"
                   PROVE  \A k \in Syncs : OwnRowsSoFar(k)'
      BY <2>1, <2>4, <3>1, Zenon DEF RowsSoFar, OwnRowsSoFar
    <3>2. OwnRowsSoFar(j)'
      BY <1>2, <2>4, <3>1, LoopKeepsRows
    <3>3. \A k \in Syncs \ {j} : pc'[k] \in Ended
      BY <2>1, <2>4, <3>1 DEF OneAtATime, Active
    <3>4. \A k \in Syncs \ {j} : OwnRowsSoFar(k)'
      BY <3>3 DEF OwnRowsSoFar, Ended
    <3>5. QED  BY <3>2, <3>4
  <2>5. QED  BY <1>2, <2>2, <2>3, <2>4, StepOfOne
<1>3. CASE Elsewhere
  <2>1. /\ kind' = kind /\ tree' = tree /\ total' = total /\ next' = next
        /\ ~mixed' => ~mixed /\ live' = live
    BY <1>3, StepElsewhere
  <2>2. CASE pc' = pc /\ pending' = pending
    BY <2>1, <2>2 DEF RowsSoFar, RowsUpTo
  <2>3. CASE \A j \in Syncs : ~Active(j)'
    BY <2>3 DEF RowsSoFar, Active, Ended
  <2>4. QED  BY <1>3, <2>2, <2>3, StepElsewhere
<1>4. QED  BY <1>1, <1>2, <1>3, Steps

\* Only the end of a sync says ok, and it says so of all the rows.
LEMMA LoneSyncIsExactPreserved ==
  ASSUME IInv, [Next]_vars
  PROVE  LoneSyncIsExact'
<1> USE DEF IInv
<1>1. CASE UNCHANGED vars
  BY <1>1 DEF LoneSyncIsExact, vars, repoVars, historyVars
<1>2. ASSUME NEW j \in Syncs, SyncStep(j) PROVE LoneSyncIsExact'
  <2>1. kind' = kind /\ deleted' = deleted
    BY <1>2, StepOfOne
  <2>2. CASE FindRepo(j)
    BY <2>2, Zenon DEF FindRepo, repoVars, LoneSyncIsExact
  <2>3. CASE SyncOk(j)
    <3>1. SUFFICES ASSUME kind = "git", ~mixed, ~deleted
                   PROVE  hash' \in Versions /\ live' = VersionRows(hash')
      <4>1. mixed' = mixed
        BY <2>3, Zenon DEF SyncOk
      <4>2. QED  BY <2>1, <3>1, <4>1 DEF LoneSyncIsExact
    <3>2. /\ pc[j] = "parsing" /\ next[j] > total[j]
          /\ hash' = Scanned /\ live' = live \cup pending[j]
      BY <2>3, <3>1, Zenon DEF SyncOk, SetStatus, Commit
    <3>3. Scanned = tree /\ Scanned \in Versions
      BY <3>1, <3>2, ScannedExists, Zenon DEF Scanned
    <3>4. RowsUpTo(j, next[j]) /\ next[j] <= total[j] + 1
      BY <3>1, <3>2, Zenon DEF RowsSoFar
    <3>5. next[j] = Len(Source[tree]) + 1
      <4>1. next[j] \in Nat /\ total[j] \in Nat /\ total[j] = Len(Source[tree])
        BY <3>4 DEF TypeOK, RowsUpTo
      <4>2. QED  BY <3>2, <3>4, <4>1
    <3>6. live' = VersionRows(tree)
      BY <3>2, <3>4, <3>5, Zenon DEF RowsUpTo, VersionRows
    <3>7. QED  BY <3>2, <3>3, <3>6
  <2>4. CASE MarkSyncing(j) \/ ListFiles(j) \/ ReportProgress(j)
    BY <2>1, <2>4, Zenon DEF MarkSyncing, ListFiles, ReportProgress, SetStatus, LoneSyncIsExact
  <2>5. CASE SyncFails(j)
    <3>1. ~deleted => status' = "fail"
      BY <2>5, Zenon DEF SyncFails, SetStatus
    <3>2. QED  BY <2>1, <3>1 DEF LoneSyncIsExact
  <2>6. CASE pc[j] \in Working /\ mixed' = mixed /\ status' = status
    <3>1. (~mixed /\ ~deleted) => status = "syncing"
      BY <2>6, Zenon DEF StatusIsSyncing, Working
    <3>2. QED  BY <2>1, <2>6, <3>1, Zenon DEF LoneSyncIsExact
  <2>7. \/ FindRepo(j) \/ SyncOk(j) \/ SyncFails(j)
        \/ MarkSyncing(j) \/ ListFiles(j) \/ ReportProgress(j)
        \/ pc[j] \in Working /\ mixed' = mixed /\ status' = status
    BY <1>2, Zenon DEF SyncStep, ScanInPlace, CloneOrPull, SourceFails, ClearGraph, SkipFile,
       InsertFile, FileVanished, LockWaitFails, DeadlockVictim, Waits, ReadsFile, Parses,
       Working, repoVars, historyVars
  <2>8. QED  BY <2>2, <2>3, <2>4, <2>5, <2>6, <2>7
<1>3. CASE Elsewhere
  BY <1>3, StepElsewhere DEF LoneSyncIsExact
<1>4. QED  BY <1>1, <1>2, <1>3, Steps

-----------------------------------------------------------------------------
(* Theorems                                                                *)

LEMMA IInvInit == Init => IInv
<1> SUFFICES ASSUME Init PROVE IInv
  OBVIOUS
<1>1. TypeOK
  <2>1. 1 \in 1 .. Len(Source) /\ 0 \in 0 .. Len(Source) /\ 0 \in 0 .. 1
    BY VersionsExist DEF Versions
  <2>2. 0 \in 0 .. MaxFaults
    BY CodeSyncAssumption
  <2>3. localPath \in BOOLEAN /\ mixed \in BOOLEAN /\ raced \in BOOLEAN /\ deleted \in BOOLEAN
    BY Zenon DEF Init
  <2>4. /\ kind \in {"git", "dir"} /\ origin \in Versions /\ tree \in 0 .. origin
        /\ status = "pending" /\ hash \in 0 .. Len(Source) /\ hash = None /\ faults \in 0 .. MaxFaults
    BY <2>1, <2>2 DEF Init, None, Versions
  <2>5. /\ live = {} /\ pending \in [Syncs -> SUBSET AllRows]
        /\ pc \in [Syncs -> {"idle"}] /\ local \in [Syncs -> BOOLEAN]
        /\ total \in [Syncs -> Nat] /\ next \in [Syncs -> Nat \ {0}] /\ dpc = "idle"
    BY DEF Init
  <2>6. QED  BY <2>3, <2>4, <2>5 DEF TypeOK
<1>2. SourceKnown /\ NothingPending /\ LoneDeletion /\ ClearedIsEmpty
  BY DEF Init, SourceKnown, NothingPending, LoneDeletion, ClearedIsEmpty, Deleting
<1>3. OneAtATime /\ StatusIsSyncing /\ RowsSoFar /\ LoneSyncIsExact
  BY DEF Init, OneAtATime, Active, Ended, Deleting, StatusIsSyncing, RowsSoFar, LoneSyncIsExact
<1>4. QED  BY <1>1, <1>2, <1>3 DEF IInv

LEMMA IInvNext == IInv /\ [Next]_vars => IInv'
BY TypePreserved, SourceKnownPreserved, NothingPendingPreserved, LoneDeletionPreserved,
   ClearedIsEmptyPreserved, OneAtATimePreserved, StatusIsSyncingPreserved,
   RowsSoFarPreserved, LoneSyncIsExactPreserved, Zenon DEF IInv

THEOREM Inductive == Spec => []IInv
BY IInvInit, IInvNext, PTL DEF Spec

\* Every variable keeps its type, in particular a status of ok is the only one
\* beside a content hash (update_sync_status).
THEOREM TypeCorrect == Spec => []TypeOK
<1>1. IInv => TypeOK
  BY DEF IInv
<1>2. QED  BY <1>1, Inductive, PTL

\* delete_repo: after a deletion no sync overlapped, the graph of the
\* repository is empty.
THEOREM DeletionClears == Spec => []DeletedLeavesNothing
<1>1. IInv => DeletedLeavesNothing
  BY Zenon DEF IInv, ClearedIsEmpty, DeletedLeavesNothing
<1>2. QED  BY <1>1, Inductive, PTL

\* sync_repo: a repository that is ok after a sync nothing overlapped holds
\* the rows of one version, the one of its content hash, for any number of
\* files, any size of a batch, and whatever failed before.
THEOREM SyncIsExact == Spec => []LoneSyncIsExact
<1>1. IInv => LoneSyncIsExact
  BY DEF IInv
<1>2. QED  BY <1>1, Inductive, PTL

=============================================================================
