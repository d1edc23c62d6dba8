-------------------------------- MODULE Jobs --------------------------------
(***************************************************************************)
(* Background jobs: the handlers that spawn them (project_tools.rs,        *)
(* git_tools.rs), the tasks themselves, JobCleanupGuard, cancellation      *)
(* (job_service.rs), handle_delete_project's abort of a project's jobs,    *)
(* the job records of the registry, the checkpoint store and a restart.    *)
(*                                                                         *)
(* A task is dropped only where it awaits.  What it awaits is a blocking   *)
(* closure (a store write) that tokio runs to its end even when the task   *)
(* that submitted it is aborted: it is kept in blocking[j].                *)
(***************************************************************************)
EXTENDS Integers, FiniteSets

CONSTANTS
    Jobs,           \* job identifiers (fresh UUIDs: none is used twice)
    MaxConcurrent,  \* max_concurrent_jobs
    Settings        \* the situations explored, see setting

Kinds == {"index", "update", "git", "zip"}

ASSUME JobsAssumption ==
    /\ IsFiniteSet(Jobs)
    /\ MaxConcurrent \in Nat \ {0}
    /\ \A s \in Settings :
          /\ \E js \in SUBSET Jobs : s.kind \in [js -> Kinds]
          /\ s.storeFails \in BOOLEAN
          /\ s.cancels \in Nat /\ s.crashes \in Nat /\ s.deletes \in Nat

Terminal == {"done", "failed", "cancelled", "aborted"}
Phases == {"Scanning", "VectorIndexing", "Failed"}

VARIABLES
    setting,     \* [kind, storeFails, cancels, crashes, deletes]: the jobs there are with
                 \* their kinds, whether store writes may fail, and the bounds
    record,      \* registry: status of the job's record, or "none"
    checkpoint,  \* checkpoint store: the phase of the job's checkpoint, or "none"
    published,   \* whether the job's source generation became the head
    count,       \* active_indexing_count
    tokens,      \* keys of cancellation_tokens
    fired,       \* jobs whose cancellation token is cancelled
    handles,     \* keys of active_jobs
    aborting,    \* jobs whose task was aborted
    spawner,     \* per job: where its spawning handler is
    task,        \* per job: where its task is
    result,      \* per job: what the indexing or the publication returned
    blocking,    \* per job: the submitted blocking closure, or "none"
    seen,        \* per job: the record status the progress callback has read
    cleanup,     \* per job: where the task JobCleanupGuard spawned is
    cancel,      \* per job: [at, cp, ok], the running cancel request
    outcome,     \* per job: what its last finished cancel request returned
    delete,      \* handle_delete_project: [at, jobs]
    cancels, crashes, deletes   \* counters for the bounds

store  == <<record, checkpoint, published>>
maps   == <<tokens, fired, handles, aborting>>
work   == <<task, result, blocking, seen>>
bounds == <<cancels, crashes, deletes>>
vars   == <<store, count, maps, spawner, work, cleanup, cancel, outcome, delete, bounds>>

Kind == setting.kind
StoreFails == setting.storeFails
\* Whether a write of the registry or the checkpoint store succeeds.
Written == IF StoreFails THEN BOOLEAN ELSE {TRUE}
\* Bounds: cancel requests per job, process crashes, deletions of the project.
MaxCancels == setting.cancels
MaxCrashes == setting.crashes
MaxDeletes == setting.deletes

NoCancel == [at |-> "idle", cp |-> "none", ok |-> TRUE]
NoDelete == [at |-> "idle", jobs |-> {}]

Init ==
    /\ setting \in Settings
    /\ record = [j \in Jobs |-> "none"]
    /\ checkpoint = [j \in Jobs |-> "none"]
    /\ published = [j \in Jobs |-> FALSE]
    /\ count = 0
    /\ tokens = {} /\ fired = {} /\ handles = {} /\ aborting = {}
    /\ spawner = [j \in Jobs |-> "idle"]
    /\ task = [j \in Jobs |-> "none"]
    /\ result = [j \in Jobs |-> "none"]
    /\ blocking = [j \in Jobs |-> "none"]
    /\ seen = [j \in Jobs |-> "none"]
    /\ cleanup = [j \in Jobs |-> "none"]
    /\ cancel = [j \in Jobs |-> NoCancel]
    /\ outcome = [j \in Jobs |-> "none"]
    /\ delete = NoDelete
    /\ cancels = [j \in Jobs |-> 0] /\ crashes = 0 /\ deletes = 0

\* Checkpoint::is_resumable
Resumable(phase) == phase \in {"Scanning", "VectorIndexing"}

-----------------------------------------------------------------------------
(* spawn_job_index_directory, spawn_job_update_project,                    *)
(* spawn_job_git_history and the background path of ingest_zip_history.    *)

\* An index job claims a slot of active_indexing_count before anything else,
\* or is refused; the other kinds begin with their record.
Claim(j) ==
    /\ j \in DOMAIN Kind /\ spawner[j] = "idle"
    /\ IF Kind[j] = "index"
       THEN \/ /\ count < MaxConcurrent
               /\ count' = count + 1
               /\ spawner' = [spawner EXCEPT ![j] = "claimed"]
            \/ /\ count >= MaxConcurrent
               /\ spawner' = [spawner EXCEPT ![j] = "refused"]
               /\ UNCHANGED count
       ELSE spawner' = [spawner EXCEPT ![j] = "claimed"] /\ UNCHANGED count
    /\ UNCHANGED <<store, maps, work, cleanup, cancel, outcome, delete, bounds>>

\* The "running" record is persisted.
PutRunning(j) ==
    /\ spawner[j] = "claimed"
    /\ record' = [record EXCEPT ![j] = "running"]
    /\ spawner' = [spawner EXCEPT ![j] = "recorded"]
    /\ UNCHANGED <<checkpoint, published, count, maps, work, cleanup, cancel, outcome,
                   delete, bounds>>

\* The record cannot be persisted: the claimed slot is released.  A git job
\* ignores the error.
PutRunningFails(j) ==
    /\ StoreFails
    /\ spawner[j] = "claimed"
    /\ IF Kind[j] = "git"
       THEN spawner' = [spawner EXCEPT ![j] = "recorded"] /\ UNCHANGED count
       ELSE /\ spawner' = [spawner EXCEPT ![j] = "refused"]
            /\ count' = IF Kind[j] = "index" THEN count - 1 ELSE count
    /\ UNCHANGED <<store, maps, work, cleanup, cancel, outcome, delete, bounds>>

\* The token is registered before the task exists.
InsertToken(j) ==
    /\ spawner[j] = "recorded"
    /\ tokens' = tokens \cup {j}
    /\ spawner' = [spawner EXCEPT ![j] = "registered"]
    /\ UNCHANGED <<store, count, fired, handles, aborting, work, cleanup, cancel,
                   outcome, delete, bounds>>

\* A git job counts itself without asking for the limit; tokio::spawn.
Spawn(j) ==
    /\ spawner[j] = "registered"
    /\ count' = IF Kind[j] = "git" THEN count + 1 ELSE count
    /\ task' = [task EXCEPT ![j] = "unpolled"]
    /\ spawner' = [spawner EXCEPT ![j] = "spawned"]
    /\ UNCHANGED <<store, maps, result, blocking, seen, cleanup, cancel, outcome,
                   delete, bounds>>

\* The join handle is registered after the task may have run, and ended.
InsertHandle(j) ==
    /\ spawner[j] = "spawned"
    /\ handles' = handles \cup {j}
    /\ spawner' = [spawner EXCEPT ![j] = "returned"]
    /\ UNCHANGED <<store, count, tokens, fired, aborting, work, cleanup, cancel,
                   outcome, delete, bounds>>

SpawnStep(j) ==
    \/ Claim(j) \/ PutRunning(j) \/ PutRunningFails(j) \/ InsertToken(j)
    \/ Spawn(j) \/ InsertHandle(j)

-----------------------------------------------------------------------------
(* The task.                                                               *)

\* The task can take a step: it is at pc, what it awaited is there, and it is
\* not aborted (an aborted task is dropped where it awaits).
At(j, pc) == task[j] = pc /\ blocking[j] = "none" /\ j \notin aborting

Move(j, pc) == task' = [task EXCEPT ![j] = pc]
Submit(j, closure) == blocking' = [blocking EXCEPT ![j] = closure]

\* The first poll installs the guard; the task then waits for the project
\* lock, opens the engine, captures the source head and scans.
Poll(j) ==
    /\ At(j, "unpolled")
    /\ Move(j, "armed")
    /\ UNCHANGED <<store, count, maps, spawner, result, blocking, seen, cleanup,
                   cancel, outcome, delete, bounds>>

\* Index and update jobs write the Scanning checkpoint.
BeginIndexing(j) ==
    /\ At(j, "armed")
    /\ IF Kind[j] \in {"index", "update"} THEN Submit(j, "cpScanning")
                                          ELSE UNCHANGED blocking
    /\ Move(j, "indexing")
    /\ UNCHANGED <<store, count, maps, spawner, result, seen, cleanup, cancel,
                   outcome, delete, bounds>>

\* The progress callback runs inside a poll: it reads the record ...
ProgressRead(j) ==
    /\ At(j, "indexing") /\ Kind[j] # "zip"
    /\ record[j] # "none"
    /\ seen' = [seen EXCEPT ![j] = record[j]]
    /\ Move(j, "progress")
    /\ UNCHANGED <<store, count, maps, spawner, result, blocking, cleanup, cancel,
                   outcome, delete, bounds>>

\* ... and writes it back in a second transaction; no abort comes in between.
ProgressWrite(j) ==
    /\ task[j] = "progress"
    /\ \E ok \in Written : record' = IF ok THEN [record EXCEPT ![j] = seen[j]] ELSE record
    /\ seen' = [seen EXCEPT ![j] = "none"]
    /\ Move(j, "indexing")
    /\ UNCHANGED <<checkpoint, published, count, maps, spawner, result, blocking,
                   cleanup, cancel, outcome, delete, bounds>>

\* determine_job_status and its equivalents: the status of the final record.
Status(j, r) ==
    CASE Kind[j] = "zip" -> IF r = "ok" THEN "done" ELSE "failed"
      [] Kind[j] = "update" /\ published[j] -> "done"
      [] Kind[j] # "zip" /\ j \in fired -> "cancelled"
      [] r = "err" -> "failed"
      [] OTHER -> "done"

\* The work of a job is over.  An index job disarms its guard and gives its
\* slot back at once, and then waits for the cache eviction; an update job
\* writes a Failed checkpoint unless it succeeded; the others write their
\* final record.
Conclude(j, r) ==
    /\ result' = [result EXCEPT ![j] = r]
    /\ CASE Kind[j] = "index" ->
              /\ Move(j, "closing")
              /\ count' = count - 1
              /\ UNCHANGED blocking
         [] Kind[j] = "update" /\ Status(j, r) # "done" ->
              /\ Move(j, "failing")
              /\ Submit(j, "cpFailed")
              /\ UNCHANGED count
         [] OTHER ->
              /\ Move(j, "final")
              /\ Submit(j, Status(j, r))
              /\ UNCHANGED count
    /\ UNCHANGED <<store, maps, spawner, seen, cleanup, cancel, outcome, delete, bounds>>

\* The work fails before or during indexing, notices the cancelled token, or
\* (update) finds nothing to do.
Fail(j) == (At(j, "armed") \/ At(j, "indexing")) /\ Conclude(j, "err")
Unchanged(j) == At(j, "armed") /\ Kind[j] = "update" /\ Conclude(j, "ok")

\* Everything is indexed: an update writes its next checkpoint, the others
\* conclude.
Indexed(j) ==
    /\ At(j, "indexing")
    /\ IF Kind[j] = "update"
       THEN /\ Submit(j, "cpVector")
            /\ Move(j, "publishing")
            /\ UNCHANGED <<store, count, maps, spawner, result, seen, cleanup, cancel,
                           outcome, delete, bounds>>
       ELSE Conclude(j, "ok")

\* An index job after the eviction: cancelled, indexed or failed.
CloseIndex(j) ==
    /\ At(j, "closing")
    /\ IF j \in fired
       THEN Submit(j, "cpFailed") /\ Move(j, "failing")
       ELSE IF result[j] = "ok" THEN Submit(j, "cpVector") /\ Move(j, "publishing")
       ELSE Submit(j, "failed") /\ Move(j, "final")
    /\ UNCHANGED <<store, count, maps, spawner, result, seen, cleanup, cancel,
                   outcome, delete, bounds>>

\* The publication of the source head is submitted; an update looks at its
\* token once more.
Publish(j) ==
    /\ At(j, "publishing")
    /\ Kind[j] = "update" => j \notin fired
    /\ Submit(j, "publish")
    /\ Move(j, "published")
    /\ UNCHANGED <<store, count, maps, spawner, result, seen, cleanup, cancel,
                   outcome, delete, bounds>>

\* The work between indexing and publication failed, or the token is seen.
PublishSkipped(j) ==
    /\ At(j, "publishing")
    /\ IF Kind[j] = "update"
       THEN Conclude(j, "err")
       ELSE /\ Submit(j, "failed") /\ Move(j, "final")
            /\ UNCHANGED <<store, count, maps, spawner, result, seen, cleanup, cancel,
                           outcome, delete, bounds>>

\* Mutated: what the publication returned is not looked at.
AfterPublishAny(j) ==
    /\ At(j, "published")
    /\ Submit(j, "done") /\ Move(j, "final")
    /\ UNCHANGED <<store, count, maps, spawner, result, seen, cleanup, cancel,
                   outcome, delete, bounds>>

\* Mutated: a failed publication is tried again.
AfterPublishRetries(j) ==
    /\ At(j, "published")
    /\ IF published[j] THEN Submit(j, "done") /\ Move(j, "final")
                       ELSE Move(j, "publishing") /\ UNCHANGED blocking
    /\ UNCHANGED <<store, count, maps, spawner, result, seen, cleanup, cancel,
                   outcome, delete, bounds>>

\* The publication has returned.
AfterPublish(j) ==
    /\ At(j, "published")
    /\ LET r == IF published[j] THEN "ok" ELSE "err" IN
       IF Kind[j] = "update"
       THEN Conclude(j, r)
       ELSE /\ Submit(j, IF r = "ok" THEN "done" ELSE "failed") /\ Move(j, "final")
            /\ UNCHANGED <<store, count, maps, spawner, result, seen, cleanup, cancel,
                           outcome, delete, bounds>>

\* The Failed checkpoint is written: the final record follows.  An index job
\* is here only when it was cancelled.
AfterFailing(j) ==
    /\ At(j, "failing")
    /\ Submit(j, IF Kind[j] = "index" THEN "cancelled" ELSE Status(j, result[j]))
    /\ Move(j, "final")
    /\ UNCHANGED <<store, count, maps, spawner, result, seen, cleanup, cancel,
                   outcome, delete, bounds>>

\* The final record is written: the task leaves active_jobs ...
RemoveHandle(j) ==
    /\ At(j, "final")
    /\ handles' = handles \ {j}
    /\ Move(j, "unlisted")
    /\ UNCHANGED <<store, count, tokens, fired, aborting, spawner, result, blocking,
                   seen, cleanup, cancel, outcome, delete, bounds>>

\* ... and cancellation_tokens, and ends; a git job's ActiveGuard is dropped.
RemoveToken(j) ==
    /\ At(j, "unlisted")
    /\ tokens' = tokens \ {j}
    /\ count' = IF Kind[j] = "git" THEN count - 1 ELSE count
    /\ Move(j, "finished")
    /\ UNCHANGED <<store, fired, handles, aborting, spawner, result, blocking, seen,
                   cleanup, cancel, outcome, delete, bounds>>

\* The phase a checkpoint write records.
PhaseOf(closure) ==
    CASE closure = "cpScanning" -> "Scanning"
      [] closure = "cpVector" -> "VectorIndexing"
      [] OTHER -> "Failed"

\* The blocking closure j's task submitted runs, whether the task still lives;
\* what a write that failed returns is logged or ignored.
RunBlocking(j) ==
    /\ blocking[j] # "none"
    /\ Submit(j, "none")
    /\ \/ /\ blocking[j] \in Terminal
          /\ \E ok \in Written :
                record' = IF ok THEN [record EXCEPT ![j] = blocking[j]] ELSE record
          /\ UNCHANGED <<checkpoint, published>>
       \/ /\ blocking[j] = "publish"
          /\ published' \in {[published EXCEPT ![j] = TRUE], published}
          /\ UNCHANGED <<record, checkpoint>>
       \/ /\ blocking[j] \in {"cpScanning", "cpVector", "cpFailed"}
          /\ \E ok \in Written :
                checkpoint' = IF ok THEN [checkpoint EXCEPT ![j] = PhaseOf(blocking[j])]
                                    ELSE checkpoint
          /\ UNCHANGED <<record, published>>
    /\ UNCHANGED <<count, maps, spawner, task, result, seen, cleanup, cancel, outcome,
                   delete, bounds>>

TaskStep(j) ==
    \/ Poll(j) \/ BeginIndexing(j) \/ ProgressRead(j) \/ ProgressWrite(j)
    \/ Fail(j) \/ Unchanged(j) \/ Indexed(j) \/ CloseIndex(j)
    \/ Publish(j) \/ PublishSkipped(j) \/ AfterPublish(j) \/ AfterFailing(j)
    \/ RemoveHandle(j) \/ RemoveToken(j)

-----------------------------------------------------------------------------
(* Abort and JobCleanupGuard.                                              *)

Over == {"none", "finished", "dropped"}

\* The guard exists from the first poll until the job disarms it.
Armed(j) ==
    CASE Kind[j] = "index" -> task[j] \in {"armed", "indexing", "progress"}
      [] Kind[j] = "update" -> task[j] \in {"armed", "indexing", "progress",
                                            "publishing", "published", "failing"}
      [] OTHER -> FALSE

\* The job holds a slot that its guard gives back when the task is dropped.
Counted(j) ==
    CASE Kind[j] = "index" -> Armed(j)
      [] Kind[j] = "git" -> task[j] \notin Over \cup {"unpolled"}
      [] OTHER -> FALSE

\* The runtime drops an aborted task where it awaits, or before its first
\* poll: what it submitted still runs, and an armed guard releases the slot
\* and spawns the cleanup.
Drop(j) ==
    /\ j \in aborting /\ task[j] \notin Over \cup {"progress"}
    /\ Move(j, "dropped")
    /\ count' = IF Counted(j) THEN count - 1 ELSE count
    /\ cleanup' = IF Armed(j) THEN [cleanup EXCEPT ![j] = "record"] ELSE cleanup
    /\ UNCHANGED <<store, maps, spawner, result, blocking, seen, cancel, outcome,
                   delete, bounds>>

\* The spawned cleanup writes the failure tombstone, then empties the maps.
CleanupRecord(j) ==
    /\ cleanup[j] = "record"
    /\ \E ok \in Written : record' = IF ok THEN [record EXCEPT ![j] = "failed"] ELSE record
    /\ cleanup' = [cleanup EXCEPT ![j] = "handle"]
    /\ UNCHANGED <<checkpoint, published, count, maps, spawner, work, cancel, outcome,
                   delete, bounds>>

CleanupHandle(j) ==
    /\ cleanup[j] = "handle"
    /\ handles' = handles \ {j}
    /\ cleanup' = [cleanup EXCEPT ![j] = "token"]
    /\ UNCHANGED <<store, count, tokens, fired, aborting, spawner, work, cancel,
                   outcome, delete, bounds>>

CleanupToken(j) ==
    /\ cleanup[j] = "token"
    /\ tokens' = tokens \ {j}
    /\ cleanup' = [cleanup EXCEPT ![j] = "none"]
    /\ UNCHANGED <<store, count, fired, handles, aborting, spawner, work, cancel,
                   outcome, delete, bounds>>

CleanupStep(j) == CleanupRecord(j) \/ CleanupHandle(j) \/ CleanupToken(j)

-----------------------------------------------------------------------------
(* cancel_job_internal.                                                    *)

CancelAt(j, at) == cancel' = [cancel EXCEPT ![j].at = at]

\* The token is taken out of the map and cancelled; without one, a handle
\* may have been left behind.  A job's id is known once it is recorded.
CancelToken(j) ==
    /\ cancel[j].at = "idle" /\ cancels[j] < MaxCancels
    /\ spawner[j] \in {"recorded", "registered", "spawned", "returned"}
    /\ cancels' = [cancels EXCEPT ![j] = @ + 1]
    /\ tokens' = tokens \ {j}
    /\ IF j \in tokens
       THEN fired' = fired \cup {j} /\ CancelAt(j, "handle")
       ELSE UNCHANGED fired /\ CancelAt(j, "probe")
    /\ UNCHANGED <<store, count, handles, aborting, spawner, work, cleanup, outcome,
                   delete, crashes, deletes>>

\* The handle, if there is one, is removed and aborted.
AbortHandle(js) ==
    /\ aborting' = aborting \cup (handles \cap js)
    /\ handles' = handles \ js

CancelHandle(j) ==
    /\ cancel[j].at = "handle"
    /\ AbortHandle({j})
    /\ CancelAt(j, "mark")
    /\ UNCHANGED <<store, count, tokens, fired, spawner, work, cleanup, outcome,
                   delete, bounds>>

\* No token: a handle alone is aborted, nothing at all is answered NotFound
\* once the checkpoint and a stale record are settled.
CancelProbe(j) ==
    /\ cancel[j].at = "probe"
    /\ AbortHandle({j})
    /\ CancelAt(j, IF j \in handles THEN "mark" ELSE "markAbsent")
    /\ UNCHANGED <<store, count, tokens, fired, spawner, work, cleanup, outcome,
                   delete, bounds>>

\* mark_checkpoint_cancelled reads the checkpoint ...
MarkRead(j) ==
    /\ cancel[j].at \in {"mark", "markAbsent"}
    /\ cancel' = [cancel EXCEPT ![j].cp = checkpoint[j],
                                ![j].at = IF @ = "mark" THEN "put" ELSE "putAbsent"]
    /\ UNCHANGED <<store, count, maps, spawner, work, cleanup, outcome, delete, bounds>>

\* ... and, in a second transaction, writes it back as Failed if it was
\* resumable.  A failure is remembered for the tombstone.
MarkPut(j) ==
    /\ cancel[j].at \in {"put", "putAbsent"}
    /\ \E ok \in (IF Resumable(cancel[j].cp) THEN Written ELSE {TRUE}) :
          /\ checkpoint' = IF Resumable(cancel[j].cp) /\ ok
                           THEN [checkpoint EXCEPT ![j] = "Failed"] ELSE checkpoint
          /\ cancel' = [cancel EXCEPT ![j].ok = ok,
                          ![j].at = IF @ = "put" THEN "tombstone" ELSE "stale"]
    /\ UNCHANGED <<record, published, count, maps, spawner, work, cleanup, outcome,
                   delete, bounds>>

\* The cancelled tombstone replaces whatever the record says.  The outcome
\* names a tombstone that was not written and a checkpoint that was not marked.
Tombstone(j) ==
    /\ cancel[j].at = "tombstone"
    /\ \E ok \in Written :
          /\ record' = IF ok THEN [record EXCEPT ![j] = "cancelled"] ELSE record
          /\ outcome' = [outcome EXCEPT ![j] =
                IF ~ok THEN "without" ELSE IF cancel[j].ok THEN "cancelled" ELSE "warned"]
    /\ cancel' = [cancel EXCEPT ![j] = NoCancel]
    /\ UNCHANGED <<checkpoint, published, count, maps, spawner, work, cleanup,
                   delete, bounds>>

\* NotFound: only a record that is not terminal is overwritten, after a read
\* in a transaction of its own.
StaleRead(j) ==
    /\ cancel[j].at = "stale"
    /\ IF record[j] = "running"
       THEN CancelAt(j, "stalePut") /\ UNCHANGED outcome
       ELSE /\ cancel' = [cancel EXCEPT ![j] = NoCancel]
            /\ outcome' = [outcome EXCEPT ![j] = "notFound"]
    /\ UNCHANGED <<store, count, maps, spawner, work, cleanup, delete, bounds>>

StalePut(j) ==
    /\ cancel[j].at = "stalePut"
    /\ \E ok \in Written : record' = IF ok THEN [record EXCEPT ![j] = "cancelled"] ELSE record
    /\ cancel' = [cancel EXCEPT ![j] = NoCancel]
    /\ outcome' = [outcome EXCEPT ![j] = "notFound"]
    /\ UNCHANGED <<checkpoint, published, count, maps, spawner, work, cleanup,
                   delete, bounds>>

CancelStep(j) ==
    \/ CancelHandle(j) \/ CancelProbe(j) \/ MarkRead(j) \/ MarkPut(j)
    \/ Tombstone(j) \/ StaleRead(j) \/ StalePut(j)

-----------------------------------------------------------------------------
(* handle_delete_project: all the jobs belong to the deleted project.      *)

DeleteList ==
    /\ delete.at = "idle" /\ deletes < MaxDeletes
    /\ delete' = [at |-> "signal", jobs |-> {j \in Jobs : record[j] = "running"}]
    /\ deletes' = deletes + 1
    /\ UNCHANGED <<store, count, maps, spawner, work, cleanup, cancel, outcome,
                   cancels, crashes>>

DeleteSignal ==
    /\ delete.at = "signal"
    /\ fired' = fired \cup (tokens \cap delete.jobs)
    /\ delete' = [delete EXCEPT !.at = "abort"]
    /\ UNCHANGED <<store, count, tokens, handles, aborting, spawner, work, cleanup,
                   cancel, outcome, bounds>>

DeleteAbort ==
    /\ delete.at = "abort"
    /\ AbortHandle(delete.jobs)
    /\ delete' = [delete EXCEPT !.at = "unlist"]
    /\ UNCHANGED <<store, count, tokens, fired, spawner, work, cleanup, cancel,
                   outcome, bounds>>

DeleteTokens ==
    /\ delete.at = "unlist"
    /\ tokens' = tokens \ delete.jobs
    /\ delete' = [delete EXCEPT !.at = "destroy"]
    /\ UNCHANGED <<store, count, fired, handles, aborting, spawner, work, cleanup,
                   cancel, outcome, bounds>>

\* delete_all_for_project removes the project's job records too.
DeleteDestroy ==
    /\ delete.at = "destroy"
    /\ record' = [j \in Jobs |-> "none"]
    /\ delete' = [delete EXCEPT !.at = "deleted"]
    /\ UNCHANGED <<checkpoint, published, count, maps, spawner, work, cleanup, cancel,
                   outcome, bounds>>

DeleteStep == DeleteSignal \/ DeleteAbort \/ DeleteTokens \/ DeleteDestroy

-----------------------------------------------------------------------------
(* A crash loses everything but the stores; cleanup_orphaned_jobs aborts   *)
(* the records that still run before the server answers again.             *)

Aborted(status) == IF status = "running" THEN "aborted" ELSE status

Restart ==
    /\ crashes < MaxCrashes
    /\ crashes' = crashes + 1
    /\ record' = [j \in Jobs |-> Aborted(record[j])]
    /\ count' = 0
    /\ tokens' = {} /\ fired' = {} /\ handles' = {} /\ aborting' = {}
    /\ spawner' = [j \in Jobs |-> IF spawner[j] = "idle" THEN "idle" ELSE "returned"]
    /\ task' = [j \in Jobs |-> "none"]
    /\ result' = [j \in Jobs |-> "none"]
    /\ blocking' = [j \in Jobs |-> "none"]
    /\ seen' = [j \in Jobs |-> "none"]
    /\ cleanup' = [j \in Jobs |-> "none"]
    /\ cancel' = [j \in Jobs |-> NoCancel]
    /\ outcome' = [j \in Jobs |-> "none"]
    /\ delete' = NoDelete
    /\ UNCHANGED <<checkpoint, published, cancels, deletes>>

Next ==
    \/ \E j \in Jobs : SpawnStep(j) \/ TaskStep(j) \/ RunBlocking(j) \/ Drop(j)
                          \/ CleanupStep(j) \/ CancelToken(j) \/ CancelStep(j)
    \/ DeleteList \/ DeleteStep
    \/ Restart

Spec == Init /\ [][Next /\ UNCHANGED setting]_<<vars, setting>>

\* The runtime runs ready tasks, the blocking pool runs what it was given, and
\* a request that began ends.  Progress callbacks come finitely often: nothing
\* makes a task report progress instead of going on.
Fairness ==
    /\ \A j \in Jobs :
          /\ WF_vars(PutRunning(j) \/ PutRunningFails(j) \/ InsertToken(j)
                       \/ Spawn(j) \/ InsertHandle(j))
          /\ WF_vars(TaskStep(j)) /\ SF_vars(Fail(j) \/ Indexed(j))
          /\ WF_vars(RunBlocking(j))
          /\ WF_vars(Drop(j))
          /\ WF_vars(CleanupStep(j))
          /\ WF_vars(CancelStep(j))
    /\ WF_vars(DeleteStep)

FairSpec == Spec /\ Fairness

-----------------------------------------------------------------------------
(* Properties.                                                             *)

\* Nothing of job j is left that could still write.
Quiet(j) ==
    /\ spawner[j] \in {"returned", "refused"} /\ task[j] \in Over
    /\ blocking[j] = "none" /\ cleanup[j] = "none" /\ cancel[j] = NoCancel

\* The jobs with a guard, in a store that takes every write.
Guarded(j) == Kind[j] \in {"index", "update"} /\ ~StoreFails

\* What the registry says of an index or update job is true: a running record
\* has someone who will settle it (the spawner, the task, the blocking closure,
\* the guard's cleanup, a cancel request or the deletion), unless a write of
\* the record can fail; and "done" of an index job means that its source
\* generation is the published head.
RecordsAreTrue ==
    \A j \in Jobs :
        /\ record[j] = "running" /\ Guarded(j)
              => \/ ~Quiet(j)
                 \/ delete.at \in {"signal", "abort", "unlist", "destroy"} /\ j \in delete.jobs
        /\ record[j] = "done" /\ Kind[j] = "index" => published[j]

\* An index or update job that began is settled for good, whatever cancels,
\* deletes or restarts: from some point on its record never says "running".
JobsSettle ==
    \A j \in Jobs : record[j] = "running" /\ Guarded(j) ~> [](record[j] # "running")
=============================================================================
