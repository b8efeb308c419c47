------------------------------- MODULE CodeSync -------------------------------
(***************************************************************************)
(* The code knowledge of one Git repository: code/sync_worker.py with      *)
(* code/repository.py and the handlers of api/admin_code.py.  A sync takes *)
(* the source, clears the code graph and inserts it file by file in one    *)
(* session that commits every ProgressEvery files; it runs inside the      *)
(* request (or in scripts/sync_git_repos.py), and nothing keeps two syncs, *)
(* or a sync and the deletion of the repository, apart.                    *)
(*                                                                         *)
(* A row stands for a symbol with its edges, artifact and table links:     *)
(* they are inserted and cleared together.  Source[v] is the content of    *)
(* version v after the path filter, a sequence of files; a file is the     *)
(* sequence of declarations the parser finds in it, empty when the parser  *)
(* returns None.  Row locks of InnoDB are in the guards: an insert waits   *)
(* for the uncommitted insert of the same name, a clear for every          *)
(* uncommitted insert.                                                     *)
(***************************************************************************)
EXTENDS Integers, Sequences, FiniteSets

CONSTANTS
    Syncs,          \* the sync requests
    Source,         \* Source[v][f]: declarations [base, line] of file f in version v
    ProgressEvery,  \* progress_every, 50 in the code
    MaxFaults       \* bound: failing git calls, lock waits, crashes

ASSUME CodeSyncAssumption ==
    /\ Source \in Seq(Seq(Seq([base : STRING, line : Nat])))
    /\ Source # << >>
    /\ ProgressEvery \in Nat \ {0}
    /\ MaxFaults \in Nat

Versions == 1 .. Len(Source)
None == 0

VARIABLES
    kind,       \* "git": a remote; "dir": a directory that is scanned in place
    origin,     \* the version at the remote, or in the directory
    tree,       \* the version in the working directory of a remote
    localPath,  \* copilot_git_repo.local_path is set
    deleted, status, hash,  \* the rest of the row; hash: a version or None
    live,       \* committed rows of the graph with deleted = 0
    pc, local, total, next, pending,   \* per sync; pending: uncommitted rows
    dpc,        \* the deletion request
    faults,
    mixed,      \* history: syncs overlapped, or a deletion cleared the graph
    raced       \* history: the deletion overlapped a sync

repoVars == <<kind, origin, tree, localPath, deleted, status, hash>>
syncVars == <<pc, local, total, next, pending>>
historyVars == <<mixed, raced>>
vars == <<repoVars, live, syncVars, dpc, faults, historyVars>>

Ended == {"idle", "done", "failed", "dead"}
Active(j) == pc[j] \notin Ended
OthersActive(j) == \E k \in Syncs \ {j} : Active(k)
Deleting == dpc \in {"found", "cleared"}

-----------------------------------------------------------------------------
(* The source and its rows.                                                *)

\* Overloads of a method are told apart by their line.
QualifiedName(file, i) ==
    [base |-> file[i].base,
     line |-> IF \E k \in DOMAIN file \ {i} : file[k].base = file[i].base
              THEN file[i].line ELSE 0]

FileRows(v, f) ==
    {[name |-> QualifiedName(Source[v][f], i), version |-> v, file |-> f] :
        i \in DOMAIN Source[v][f]}
RowsBefore(v, n) == UNION {FileRows(v, f) : f \in 1 .. n - 1}
VersionRows(v) == RowsBefore(v, Len(Source[v]) + 1)
AllRows == UNION {VersionRows(v) : v \in Versions}
Names(rows) == {r.name : r \in rows}

\* The version a scan reads now.
Scanned == IF kind = "git" THEN tree ELSE origin

\* The rows of a file up to the first one uk_repo_qualified rejects.
Accepted(v, f, taken) ==
    {r \in FileRows(v, f) :
        \E i \in DOMAIN Source[v][f] :
            /\ r.name = QualifiedName(Source[v][f], i)
            /\ \A k \in 1 .. i : /\ QualifiedName(Source[v][f], k) \notin taken
                                 /\ \A l \in 1 .. k - 1 : QualifiedName(Source[v][f], l)
                                                        # QualifiedName(Source[v][f], k)}
Fits(v, f, taken) == /\ Accepted(v, f, taken) = FileRows(v, f)
                     /\ Cardinality(FileRows(v, f)) = Len(Source[v][f])

Init ==
    /\ kind \in {"git", "dir"}
    /\ origin = 1 /\ tree = None
    /\ localPath = (kind = "dir")
    /\ deleted = FALSE /\ status = "pending" /\ hash = None
    /\ live = {}
    /\ pc = [j \in Syncs |-> "idle"] /\ local = [j \in Syncs |-> FALSE]
    /\ total = [j \in Syncs |-> 0] /\ next = [j \in Syncs |-> 1]
    /\ pending = [j \in Syncs |-> {}]
    /\ dpc = "idle"
    /\ faults = 0
    /\ mixed = FALSE /\ raced = FALSE

Goto(j, step) == pc' = [pc EXCEPT ![j] = step]

\* update_sync_status: a deleted row is left as it is; the message is left out.
SetStatus(s, h) ==
    /\ status' = IF deleted THEN status ELSE s
    /\ hash' = IF deleted THEN hash ELSE h

\* A commit of the session of j.
Commit(j) ==
    /\ live' = live \cup pending[j]
    /\ pending' = [pending EXCEPT ![j] = {}]

-----------------------------------------------------------------------------
(* GitSyncWorker.sync_repo                                                 *)

FindRepo(j) ==
    /\ pc[j] = "idle"
    /\ IF deleted
       THEN Goto(j, "failed") /\ UNCHANGED <<local, mixed, raced>>
       ELSE /\ Goto(j, "found")
            /\ local' = [local EXCEPT ![j] = localPath]
            /\ mixed' = (mixed \/ OthersActive(j) \/ Deleting)
            /\ raced' = (raced \/ Deleting)
    /\ UNCHANGED <<repoVars, live, total, next, pending, dpc, faults>>

MarkSyncing(j) ==
    /\ pc[j] = "found" /\ Goto(j, "marked")
    /\ SetStatus("syncing", None)
    /\ mixed' = (mixed /\ (OthersActive(j) \/ Deleting))
    /\ UNCHANGED <<kind, origin, tree, localPath, deleted, live, local, total, next,
                   pending, dpc, faults, raced>>

\* is_local_import: a directory, or a row whose local_path an earlier sync has set.
ScanInPlace(j) ==
    /\ pc[j] = "marked" /\ local[j]
    /\ Goto(j, "fetched")
    /\ UNCHANGED <<repoVars, live, local, total, next, pending, dpc, faults, historyVars>>

CloneOrPull(j) ==
    /\ pc[j] = "marked" /\ ~local[j]
    /\ Goto(j, "fetched")
    /\ tree' = origin
    /\ localPath' = (localPath \/ ~deleted)
    /\ UNCHANGED <<kind, origin, deleted, status, hash, live, local, total, next, pending,
                   dpc, faults, historyVars>>

\* The directory is not there, no token, or git reports an error: a clone
\* that fails leaves nothing, a fetch that fails what was there.
SourceFails(j) ==
    /\ pc[j] = "marked" /\ faults < MaxFaults
    /\ Goto(j, "failing")
    /\ faults' = faults + 1
    /\ UNCHANGED <<repoVars, live, local, total, next, pending, dpc, historyVars>>

ClearWaits(j) == \E k \in Syncs \ {j} : pending[k] # {}

ClearGraph(j) ==
    /\ pc[j] = "fetched" /\ ~ClearWaits(j)
    /\ Goto(j, "cleared")
    /\ live' = {}
    /\ UNCHANGED <<repoVars, local, total, next, pending, dpc, faults, mixed, raced>>

ListFiles(j) ==
    /\ pc[j] = "cleared" /\ Goto(j, "parsing")
    /\ total' = [total EXCEPT ![j] = Len(Source[Scanned])]
    /\ next' = [next EXCEPT ![j] = 1]
    /\ SetStatus("syncing", None)
    /\ UNCHANGED <<kind, origin, tree, localPath, deleted, live, local, pending, dpc,
                   faults, historyVars>>

Parses(j) == pc[j] = "parsing" /\ next[j] <= total[j]
ReadsFile(j) == Parses(j) /\ next[j] \in DOMAIN Source[Scanned]
Mine(j) == FileRows(Scanned, next[j])
InsertWaits(j) ==
    \E k \in Syncs \ {j} : Names(pending[k]) \cap Names(Mine(j)) # {}

\* Mutant of SkipFile: the loop does not advance.
SkipFileStays(j) ==
    /\ ReadsFile(j) /\ Mine(j) = {}
    /\ UNCHANGED vars

\* The parser returns None: continue, past the progress report.
SkipFile(j) ==
    /\ ReadsFile(j) /\ Mine(j) = {}
    /\ next' = [next EXCEPT ![j] = @ + 1]
    /\ UNCHANGED <<repoVars, live, pc, local, total, pending, dpc, faults, historyVars>>

ReportDue(j) == next[j] % ProgressEvery = 0 \/ next[j] = total[j]

\* Mutant of InsertFile: a name that is taken does not end the sync.
InsertFileIgnoresClash(j) ==
    /\ ReadsFile(j) /\ Mine(j) # {} /\ ~InsertWaits(j)
    /\ pending' = [pending EXCEPT ![j] =
                      @ \cup Accepted(Scanned, next[j], Names(live \cup pending[j]))]
    /\ IF ReportDue(j) THEN Goto(j, "report") /\ UNCHANGED next
       ELSE next' = [next EXCEPT ![j] = @ + 1] /\ UNCHANGED pc
    /\ UNCHANGED <<repoVars, live, local, total, dpc, faults, historyVars>>

InsertFile(j) ==
    /\ ReadsFile(j) /\ Mine(j) # {} /\ ~InsertWaits(j)
    /\ LET taken == Names(live \cup pending[j]) IN
       /\ pending' = [pending EXCEPT ![j] = @ \cup Accepted(Scanned, next[j], taken)]
       /\ IF Fits(Scanned, next[j], taken)
          THEN IF ReportDue(j) THEN Goto(j, "report") /\ UNCHANGED next
               ELSE next' = [next EXCEPT ![j] = @ + 1] /\ UNCHANGED pc
          ELSE Goto(j, "failing") /\ UNCHANGED next
    /\ UNCHANGED <<repoVars, live, local, total, dpc, faults, historyVars>>

\* A listed file is no longer there when it is read.
FileVanished(j) ==
    /\ Parses(j) /\ ~ReadsFile(j)
    /\ Goto(j, "failing")
    /\ UNCHANGED <<repoVars, live, local, total, next, pending, dpc, faults, historyVars>>

ReportProgress(j) ==
    /\ pc[j] = "report" /\ Goto(j, "parsing")
    /\ Commit(j)
    /\ SetStatus("syncing", None)
    /\ next' = [next EXCEPT ![j] = @ + 1]
    /\ UNCHANGED <<kind, origin, tree, localPath, deleted, local, total, dpc,
                   faults, mixed, raced>>

SyncOk(j) ==
    /\ pc[j] = "parsing" /\ next[j] > total[j]
    /\ Goto(j, "done")
    /\ Commit(j)
    /\ SetStatus("ok", Scanned)
    /\ UNCHANGED <<kind, origin, tree, localPath, deleted, local, total, next, dpc,
                   faults, mixed, raced>>

\* except Exception: the same session commits what was inserted so far.
SyncFails(j) ==
    /\ pc[j] = "failing" /\ Goto(j, "failed")
    /\ Commit(j)
    /\ SetStatus("fail", None)
    /\ UNCHANGED <<kind, origin, tree, localPath, deleted, local, total, next, dpc,
                   faults, mixed, raced>>

-----------------------------------------------------------------------------
(* InnoDB and the process.                                                 *)

Waits(j) == \/ pc[j] = "fetched" /\ ClearWaits(j)
            \/ ReadsFile(j) /\ Mine(j) # {} /\ InsertWaits(j)

\* Lock wait timeout: the statement fails, the transaction stays open.
LockWaitFails(j) ==
    /\ Waits(j) /\ faults < MaxFaults
    /\ faults' = faults + 1
    /\ Goto(j, "failing")
    /\ UNCHANGED <<repoVars, live, local, total, next, pending, dpc, historyVars>>

\* Deadlock: the victim loses its transaction.
DeadlockVictim(j) ==
    /\ Waits(j) /\ pending[j] # {}
    /\ \E k \in Syncs \ {j} : Waits(k) /\ pending[k] # {}
    /\ Goto(j, "failing")
    /\ pending' = [pending EXCEPT ![j] = {}]
    /\ UNCHANGED <<repoVars, live, local, total, next, dpc, faults, historyVars>>

\* The process ends: what was not committed is gone, and nothing resumes it.
Crash ==
    /\ faults < MaxFaults /\ faults' = faults + 1
    /\ \E j \in Syncs : Active(j) \/ Deleting
    /\ pc' = [j \in Syncs |-> IF Active(j) THEN "dead" ELSE pc[j]]
    /\ pending' = [j \in Syncs |-> {}]
    /\ dpc' = IF Deleting THEN "dead" ELSE dpc
    /\ UNCHANGED <<repoVars, live, local, total, next, mixed, raced>>

-----------------------------------------------------------------------------
(* The other handlers of admin_code.                                       *)

\* Someone pushes to the remote, or edits the directory.
Push ==
    /\ origin < Len(Source) /\ origin' = origin + 1
    /\ UNCHANGED <<kind, tree, localPath, deleted, status, hash, live, syncVars, dpc,
                   faults, historyVars>>

\* update_repo: of the fields only local_path matters here, and the form can empty it.
EmptyLocalPath ==
    /\ ~deleted /\ kind = "git" /\ localPath
    /\ localPath' = FALSE
    /\ UNCHANGED <<kind, origin, tree, deleted, status, hash, live, syncVars, dpc,
                   faults, historyVars>>

DeleteFound ==
    /\ dpc \in {"idle", "dead"} /\ ~deleted
    /\ dpc' = "found"
    /\ mixed' = (mixed \/ \E j \in Syncs : Active(j))
    /\ raced' = \E j \in Syncs : Active(j)
    /\ UNCHANGED <<repoVars, live, syncVars, faults>>

\* Mutant of DeleteClears: the graph is left to the next sync.
DeleteClearsNothing ==
    /\ dpc = "found" /\ \A j \in Syncs : pending[j] = {}
    /\ dpc' = "cleared"
    /\ mixed' = TRUE
    /\ UNCHANGED <<repoVars, live, syncVars, faults, raced>>

DeleteClears ==
    /\ dpc = "found" /\ \A j \in Syncs : pending[j] = {}
    /\ dpc' = "cleared"
    /\ live' = {}
    /\ mixed' = TRUE
    /\ UNCHANGED <<repoVars, syncVars, faults, raced>>

DeleteRepo ==
    /\ dpc = "cleared" /\ dpc' = "done"
    /\ deleted' = TRUE
    /\ UNCHANGED <<kind, origin, tree, localPath, status, hash, live, syncVars,
                   faults, mixed, raced>>

-----------------------------------------------------------------------------
SyncStep(j) ==
    \/ FindRepo(j) \/ MarkSyncing(j) \/ ScanInPlace(j) \/ CloneOrPull(j) \/ SourceFails(j)
    \/ ClearGraph(j) \/ ListFiles(j) \/ SkipFile(j) \/ InsertFile(j) \/ FileVanished(j)
    \/ ReportProgress(j) \/ SyncOk(j) \/ SyncFails(j)
    \/ LockWaitFails(j) \/ DeadlockVictim(j)

Next ==
    \/ \E j \in Syncs : SyncStep(j)
    \/ Crash \/ Push \/ EmptyLocalPath
    \/ DeleteFound \/ DeleteClears \/ DeleteRepo

\* A request that has begun goes on: the event loop resumes it, and InnoDB
\* grants the lock it waits for once the holder has committed.
Fairness == \A j \in Syncs : WF_vars(SyncStep(j) /\ pc[j] # "idle")

Spec == Init /\ [][Next]_vars /\ Fairness

-----------------------------------------------------------------------------
(* Properties                                                              *)

TypeOK ==
    /\ kind \in {"git", "dir"}
    /\ origin \in Versions /\ tree \in 0 .. origin
    /\ localPath \in BOOLEAN /\ deleted \in BOOLEAN
    /\ status \in {"pending", "syncing", "ok", "fail"}
    /\ hash \in 0 .. Len(Source) /\ (hash # None => status = "ok")
    /\ live \subseteq AllRows
    /\ pc \in [Syncs -> {"idle", "found", "marked", "fetched", "cleared", "parsing",
                         "report", "failing", "done", "failed", "dead"}]
    /\ local \in [Syncs -> BOOLEAN]
    /\ total \in [Syncs -> Nat] /\ next \in [Syncs -> Nat \ {0}]
    /\ pending \in [Syncs -> SUBSET AllRows]
    /\ dpc \in {"idle", "found", "cleared", "done", "dead"}
    /\ faults \in 0 .. MaxFaults
    /\ mixed \in BOOLEAN /\ raced \in BOOLEAN

\* A repository that says ok after a sync nothing overlapped holds exactly one
\* version of the code, the one content_hash was computed from, whatever
\* failed, crashed or was left half inserted before that sync.
LoneSyncIsExact ==
    (kind = "git" /\ ~mixed /\ ~deleted /\ status = "ok")
        => hash \in Versions /\ live = VersionRows(hash)

\* A deletion that overlapped no sync leaves no row of the graph behind.
DeletedLeavesNothing == (deleted /\ ~raced) => live = {}

\* Every sync ends, also when two of them wait for each other's rows.
SyncEnds == \A j \in Syncs : Active(j) ~> ~Active(j)

\* What the sync handler says of itself, "clone/pull": the sync of a remote
\* takes the version the remote has.  The code does so only the first time.
SyncTakesLatest ==
    [][\A j \in Syncs : (pc[j] = "marked" /\ pc'[j] = "fetched") => Scanned' = origin]_vars

\* What delete_repo says of itself: the graph of a deleted repository is gone
\* once no request works on it.  A sync that overlaps the deletion goes on.
DeletedGraphIsGone ==
    (deleted /\ \A j \in Syncs : ~Active(j)) => live = {}

=============================================================================
