----------------------------- MODULE CommitLane -----------------------------
(***************************************************************************)
(* The locks an index write goes through, in the order the code takes      *)
(* them: the project update lock, mutation admission, the commit lane of   *)
(* hybrid/commit.rs, the vector bootstrap mutex and the Tantivy writer;    *)
(* and the workers that go on with native writes after the request that    *)
(* started them is gone.                                                   *)
(*                                                                         *)
(* A flow is the sequence of steps its function takes.  The three          *)
(* mutexes are FIFO (tokio): a queue whose head is the owner.  An entry    *)
(* stays in the lane until the Guard and the delegated Native share are    *)
(* both dropped.  Recovery's exclusive phase is the module Coordinator's.  *)
(***************************************************************************)
EXTENDS Naturals, Sequences, SequencesExt

CONSTANTS
    Tasks,     \* requests, jobs and sweeps that run at once
    NoTask,
    Settings   \* the mixes of flows explored, see setting

ASSUME LaneAssumption ==
    /\ NoTask \notin Tasks
    /\ \A mix \in Settings :
         mix.kinds \subseteq {"update", "sweep", "bulk", "index", "lexical", "delete", "compact"}

VARIABLES
    setting,    \* [tasks, kinds, faults]: who takes part, the flows they run, and
                \* whether calls fail, requests disappear and threads panic
    pc,         \* steps left of the task's flow; <<>>: idle
    unwinding,  \* tasks whose flow is being dropped
    panicking,  \* those of them that unwind from a panic
    worker,     \* per task: its native worker
    guard,      \* tasks that hold a commit Guard
    lock,       \* project update lock
    lane,       \* commit lane
    boot,       \* bootstrap mutex
    writer,     \* owner of the Tantivy writer
    faulted,    \* State::faulted
    docs,       \* the project has stored documents
    route       \* the project has a vector route

flow   == <<pc, unwinding, panicking>>
stored == <<docs, route>>
vars   == <<flow, worker, guard, lock, lane, boot, writer, faulted, stored>>

-----------------------------------------------------------------------------
(* The flows.                                                              *)

\* clear_staged_source_generation, delete_namespace, delete_documents,
\* delete_files: vectors first, then the lexical rows.
DeleteSteps == <<"lane", "native", "writer", "erase", "release">>

\* purge_old_generations: lexical rows first.
PurgeSteps == <<"lane", "writer", "erase", "native", "release">>

\* create_bulk_writer_async .. embed_and_upsert_vectors_with_writer .. finish.
BulkSteps ==
    <<"lane", "table", "writer", "table", "native", "commit", "release">>

\* index_docs with vectors.
IndexSteps ==
    <<"lane", "table", "writer", "commit", "table", "native", "release">>

\* index_docs and a bulk writer of an engine without vectors.
LexicalSteps == <<"lane", "boot", "writer", "commit", "release">>

\* compact_vector_fragments.
CompactSteps == <<"lane", "native", "release">>

\* update_project: one lock and one admission for the whole flow.
UpdateSteps ==
    <<"lock", "admit">> \o DeleteSteps \o BulkSteps \o PurgeSteps \o <<"unlock">>

\* purge_project_old_gens: a held lock means skip.
SweepSteps == <<"trylock", "admit">> \o PurgeSteps \o <<"unlock">>

Steps(kind) ==
    CASE kind = "update"  -> UpdateSteps
      [] kind = "sweep"   -> SweepSteps
      [] kind = "bulk"    -> <<"admit">> \o BulkSteps
      [] kind = "index"   -> <<"admit">> \o IndexSteps
      [] kind = "lexical" -> <<"admit">> \o LexicalSteps
      [] kind = "delete"  -> <<"admit">> \o DeleteSteps
      [] kind = "compact" -> <<"admit">> \o CompactSteps

Faults == setting.faults

Init ==
    /\ setting \in Settings
    /\ pc = [t \in Tasks |-> <<>>]
    /\ unwinding = {} /\ panicking = {}
    /\ worker = [t \in Tasks |-> "none"]
    /\ guard = {} /\ lock = <<>> /\ lane = <<>> /\ boot = <<>>
    /\ writer = NoTask /\ faulted = FALSE
    /\ docs \in BOOLEAN /\ route \in BOOLEAN

-----------------------------------------------------------------------------
At(t, step) == t \notin unwinding /\ pc[t] # <<>> /\ Head(pc[t]) = step
Owns(t, queue) == queue # <<>> /\ Head(queue) = t
Waits(t, queue) == t \in Range(queue)
\* The owner unlocks or a waiter gives up: a task is queued at most once.
Leave(t, queue) ==
    IF Waits(t, queue) THEN RemoveAt(queue, CHOOSE i \in 1..Len(queue) : queue[i] = t)
                       ELSE queue

Advance(t) == pc' = [pc EXCEPT ![t] = Tail(@)] /\ UNCHANGED <<unwinding, panicking>>
\* An error return: the locals of the flow are dropped.
Fail(t) == unwinding' = unwinding \cup {t} /\ UNCHANGED <<pc, panicking>>

Pending == {t \in Tasks : worker[t] \in {"native", "check", "create"}}

Start(t, kind) ==
    /\ t \in setting.tasks /\ pc[t] = <<>> /\ worker[t] = "none"
    /\ pc' = [pc EXCEPT ![t] = Steps(kind)]
    /\ UNCHANGED <<unwinding, panicking, worker, guard, lock, lane, boot, writer, faulted, stored>>

AwaitLock(t) ==
    /\ At(t, "lock") /\ ~Waits(t, lock)
    /\ lock' = Append(lock, t)
    /\ UNCHANGED <<flow, worker, guard, lane, boot, writer, faulted, stored>>

TakeLock(t) ==
    /\ At(t, "lock") /\ Owns(t, lock)
    /\ Advance(t)
    /\ UNCHANGED <<worker, guard, lock, lane, boot, writer, faulted, stored>>

\* try_acquire_project_update_lock.
TryLock(t) ==
    /\ At(t, "trylock")
    /\ IF lock = <<>> THEN lock' = <<t>> /\ Advance(t)
                      ELSE UNCHANGED lock /\ Fail(t)
    /\ UNCHANGED <<worker, guard, lane, boot, writer, faulted, stored>>

\* try_mutation: Busy while an operation is pending.
Admit(t) ==
    /\ At(t, "admit")
    /\ IF ~faulted /\ Pending = {} THEN Advance(t) ELSE Fail(t)
    /\ UNCHANGED <<worker, guard, lock, lane, boot, writer, faulted, stored>>

\* Mutated: the lane is not first come, first served.
AwaitLaneJumps(t) ==
    /\ At(t, "lane") /\ ~Waits(t, lane)
    /\ IF faulted
         THEN Fail(t) /\ UNCHANGED lane
         ELSE /\ lane' = IF lane = <<>> THEN <<t>> ELSE <<Head(lane), t>> \o Tail(lane)
              /\ UNCHANGED flow
    /\ UNCHANGED <<worker, guard, lock, boot, writer, faulted, stored>>

\* acquire_commit: begin_mutation re-validates, then the lane is awaited.
AwaitLane(t) ==
    /\ At(t, "lane") /\ ~Waits(t, lane)
    /\ IF faulted THEN Fail(t) /\ UNCHANGED lane
                  ELSE lane' = Append(lane, t) /\ UNCHANGED flow
    /\ UNCHANGED <<worker, guard, lock, boot, writer, faulted, stored>>

TakeLane(t) ==
    /\ At(t, "lane") /\ t \notin guard /\ Owns(t, lane)
    /\ IF faulted THEN Fail(t) /\ UNCHANGED guard
                  ELSE guard' = guard \cup {t} /\ Advance(t)
    /\ UNCHANGED <<worker, lock, lane, boot, writer, faulted, stored>>

\* lexical_only, and the wait of vector_write_table for its bootstrap.
AwaitBoot(t) ==
    /\ ~Waits(t, boot) /\ worker[t] = "none"
    /\ \/ At(t, "boot")
       \/ At(t, "table") /\ ~route /\ ~docs
    /\ boot' = Append(boot, t)
    /\ UNCHANGED <<flow, worker, guard, lock, lane, writer, faulted, stored>>

TakeBoot(t) ==
    /\ At(t, "boot") /\ Owns(t, boot)
    /\ Advance(t)
    /\ UNCHANGED <<worker, guard, lock, lane, boot, writer, faulted, stored>>

\* vector_write_table: the recorded table, or the refusal to adopt documents.
OpenTable(t) ==
    /\ At(t, "table") /\ ~Waits(t, boot) /\ worker[t] = "none"
    /\ route \/ docs
    /\ IF route THEN Advance(t) ELSE Fail(t)
    /\ UNCHANGED <<worker, guard, lock, lane, boot, writer, faulted, stored>>

\* run_native_vector_mutation: the worker owns the mutex and its operation.
StartBootstrap(t) ==
    /\ At(t, "table") /\ Owns(t, boot) /\ worker[t] = "none"
    /\ IF faulted
         THEN Fail(t) /\ UNCHANGED worker
         ELSE worker' = [worker EXCEPT ![t] = "check"] /\ UNCHANGED flow
    /\ UNCHANGED <<guard, lock, lane, boot, writer, faulted, stored>>

\* What a worker leaves: its result for the request, or nobody takes it.
Result(t, r) == IF t \in unwinding \/ pc[t] = <<>> THEN "none" ELSE r

\* bootstrap_vector_table looks again under the mutex.
BootstrapCheck(t) ==
    /\ worker[t] = "check"
    /\ IF route \/ docs
         THEN /\ worker' = [worker EXCEPT ![t] = Result(t, IF route THEN "ok" ELSE "failed")]
              /\ boot' = Leave(t, boot)
         ELSE worker' = [worker EXCEPT ![t] = "create"] /\ UNCHANGED boot
    /\ UNCHANGED <<flow, guard, lock, lane, writer, faulted, stored>>

BootstrapDone(t, ok) ==
    /\ worker[t] = "create" /\ (ok \/ Faults)
    /\ route' = (route \/ ok)
    /\ worker' = [worker EXCEPT ![t] = Result(t, IF ok THEN "ok" ELSE "failed")]
    /\ boot' = Leave(t, boot)
    /\ UNCHANGED <<flow, guard, lock, lane, writer, faulted, docs>>

\* The request takes its worker's result; a native worker returns the lane.
TakeResult(t) ==
    /\ t \notin unwinding /\ worker[t] \in {"ok", "failed"}
    /\ worker' = [worker EXCEPT ![t] = "none"]
    /\ IF worker[t] = "ok" THEN Advance(t) ELSE Fail(t)
    /\ UNCHANGED <<guard, lock, lane, boot, writer, faulted, stored>>

\* acquire_writer: LockBusy is retried.
TakeWriter(t) ==
    /\ At(t, "writer") /\ writer = NoTask
    /\ writer' = t /\ Advance(t)
    /\ UNCHANGED <<worker, guard, lock, lane, boot, faulted, stored>>

\* Commit and wait_merges; a deletion may leave documents.
DropWriter(t) ==
    /\ At(t, "commit") \/ At(t, "erase")
    /\ writer' = NoTask /\ Advance(t)
    /\ docs' \in IF At(t, "commit") THEN {TRUE} ELSE {docs, FALSE}
    /\ UNCHANGED <<worker, guard, lock, lane, boot, faulted, route>>

\* run_native_vector_mutation_with_commit: delegate.
StartNative(t) ==
    /\ At(t, "native") /\ worker[t] = "none"
    /\ IF faulted
         THEN Fail(t) /\ UNCHANGED worker
         ELSE worker' = [worker EXCEPT ![t] = "native"] /\ UNCHANGED flow
    /\ UNCHANGED <<guard, lock, lane, boot, writer, faulted, stored>>

\* The worker ends; the lane goes with its share when the Guard is gone.
NativeDone(t, result) ==
    /\ worker[t] = "native"
    /\ result = "ok" \/ Faults
    /\ worker' = [worker EXCEPT ![t] = Result(t, IF result = "ok" THEN "ok" ELSE "failed")]
    /\ lane' = IF t \in guard THEN lane ELSE Leave(t, lane)
    /\ faulted' = (faulted \/ result = "panic")
    /\ UNCHANGED <<flow, guard, lock, boot, writer, stored>>

\* The Guard of one operation is dropped, its bootstrap mutex before it.
Release(t) ==
    /\ At(t, "release")
    /\ guard' = guard \ {t}
    /\ boot' = Leave(t, boot) /\ lane' = Leave(t, lane)
    /\ Advance(t)
    /\ UNCHANGED <<worker, lock, writer, faulted, stored>>

Unlock(t) ==
    /\ At(t, "unlock")
    /\ lock' = Leave(t, lock) /\ Advance(t)
    /\ UNCHANGED <<worker, guard, lane, boot, writer, faulted, stored>>

-----------------------------------------------------------------------------
(* A flow that fails, is aborted or panics.                                *)

Abandon(t, panic) ==
    /\ Faults /\ pc[t] # <<>> /\ t \notin unwinding
    /\ unwinding' = unwinding \cup {t}
    /\ panicking' = IF panic THEN panicking \cup {t} ELSE panicking
    /\ worker' = [worker EXCEPT ![t] = IF t \in Pending THEN @ ELSE "none"]
    /\ UNCHANGED <<pc, guard, lock, lane, boot, writer, faulted, stored>>

\* How the writer in hand was to be finished.
OpenFor(t, step) ==
    Head(SelectSeq(pc[t], LAMBDA s : s \in {"commit", "erase"})) = step

\* BulkWriterGuard::drop commits what it can; another writer rolls back.
UnwindWriter(t) ==
    /\ t \in unwinding /\ writer = t
    /\ writer' = NoTask
    /\ docs' \in {docs} \cup (IF OpenFor(t, "commit") THEN {TRUE} ELSE {})
    /\ UNCHANGED <<flow, worker, guard, lock, lane, boot, faulted, route>>

\* Mutated: the lane is released before the writer has finished.
UnwindGuardFirst(t) ==
    /\ t \in unwinding
    /\ guard' = guard \ {t}
    /\ lane' = IF worker[t] = "native" THEN lane ELSE Leave(t, lane)
    /\ boot' = IF t \in Pending THEN boot ELSE Leave(t, boot)
    /\ lock' = Leave(t, lock)
    /\ faulted' = (faulted \/ t \in panicking)
    /\ pc' = IF writer = t THEN pc ELSE [pc EXCEPT ![t] = <<>>]
    /\ unwinding' = IF writer = t THEN unwinding ELSE unwinding \ {t}
    /\ panicking' = IF writer = t THEN panicking ELSE panicking \ {t}
    /\ UNCHANGED <<worker, writer, stored>>

\* The remaining guards; a worker keeps its shares.
UnwindGuard(t) ==
    /\ t \in unwinding /\ writer # t
    /\ guard' = guard \ {t}
    /\ lane' = IF worker[t] = "native" THEN lane ELSE Leave(t, lane)
    /\ boot' = IF t \in Pending THEN boot ELSE Leave(t, boot)
    /\ lock' = Leave(t, lock)
    /\ faulted' = (faulted \/ (t \in panicking /\ t \in guard))
    /\ pc' = [pc EXCEPT ![t] = <<>>]
    /\ unwinding' = unwinding \ {t} /\ panicking' = panicking \ {t}
    /\ UNCHANGED <<worker, writer, stored>>

-----------------------------------------------------------------------------
Request(t) ==
    \/ AwaitLock(t) \/ TakeLock(t) \/ TryLock(t) \/ Admit(t)
    \/ AwaitLane(t) \/ TakeLane(t) \/ AwaitBoot(t) \/ TakeBoot(t)
    \/ OpenTable(t) \/ StartBootstrap(t) \/ TakeResult(t)
    \/ TakeWriter(t) \/ DropWriter(t) \/ StartNative(t)
    \/ Release(t) \/ Unlock(t) \/ UnwindWriter(t) \/ UnwindGuard(t)

Worker(t) ==
    \/ BootstrapCheck(t) \/ \E ok \in BOOLEAN : BootstrapDone(t, ok)
    \/ \E result \in {"ok", "failed", "panic"} : NativeDone(t, result)

Next ==
    \E t \in Tasks :
        \/ \E kind \in setting.kinds : Start(t, kind)
        \/ Request(t) \/ Worker(t)
        \/ \E panic \in BOOLEAN : Abandon(t, panic)

Spec == Init /\ [][Next /\ UNCHANGED setting]_<<vars, setting>>

(* Every task and every worker is run by the executor.                     *)
FairSpec == Spec /\ \A t \in Tasks : WF_vars(Request(t)) /\ WF_vars(Worker(t))

-----------------------------------------------------------------------------
(* Properties.                                                             *)

\* "the writer, bootstrap and mutation must finish dropping before the final
\* payload lane lifetime can be released": a Tantivy writer and a native
\* write in flight belong to the owner of the lane, whoever disappeared.
PayloadUnderLane ==
    \A t \in Tasks : writer = t \/ worker[t] = "native" => Owns(t, lane)

\* No flow waits for ever: the order of the locks has no cycle, the queues
\* starve nobody and a detached worker gives back what it holds.
EveryFlowEnds == \A t \in Tasks : pc[t] # <<>> ~> pc[t] = <<>>
=============================================================================
