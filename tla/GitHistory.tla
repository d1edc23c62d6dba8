------------------------------ MODULE GitHistory ------------------------------
(***************************************************************************)
(* Git history enrichment of one project: the walks of index_git_history   *)
(* and of every project update, their two watermarks and the completion    *)
(* sentinel in the registry, the temporal-coupling weights in the graph    *)
(* and the history documents in the lexical index.                         *)
(*                                                                         *)
(* A commit is a number, its commit time: parents are older than their     *)
(* children, so the walks' TOPOLOGICAL | TIME order is the descending one. *)
(* weight[c] is the number of times commit c's couplings are in the graph  *)
(* and docs the commits whose documents are committed; one run adds both   *)
(* commit by commit, through an accumulator flushed to the graph and a     *)
(* bounded channel to a consumer that owns the lexical writer.             *)
(*                                                                         *)
(* What a rename carries over from the old path, the bulk-commit cut-off   *)
(* and anti-pattern documents (a second batch on the same channel) are     *)
(* data of a commit here.                                                  *)
(*                                                                         *)
(* A run holds the project update lock for as long as its task lives; a    *)
(* cancelled job is aborted, and its producer and consumer outlive it.     *)
(***************************************************************************)
EXTENDS Naturals, FiniteSets, FiniteSetsExt, Sequences

CONSTANTS
    N,          \* number of commits that may ever exist
    Parents,    \* [1 .. N -> SUBSET (1 .. N)]
    Runs,       \* history runs that may overlap (aborted ones live on)
    FlushEvery, \* EDGE_FLUSH_EVERY
    CommitEvery,\* commits whose documents fill TANTIVY_COMMIT_EVERY
    Slots,      \* capacity of the document channel
    Situations  \* the situations explored, see situation

Commits == 1 .. N
None == 0
Free == "free"
Repairer == "repair"
MaxWeight == 2  \* weights saturate here

ASSUME HistoryAssumption ==
    /\ N \in Nat \ {0}
    /\ Parents \in [Commits -> SUBSET Commits]
    /\ \A c \in Commits : \A p \in Parents[c] : p < c
    /\ Free \notin Runs /\ Repairer \notin Runs
    /\ FlushEvery > 0 /\ CommitEvery > 0 /\ Slots > 0
    /\ \A s \in Situations :
          /\ s.caps \subseteq Nat \ {0} /\ s.batch > 0
          /\ s.modes \subseteq {"forward", "both", "backfill"} /\ s.forces \subseteq BOOLEAN
          /\ s.faults \in {"never", "scratch", "crash", "any"}
          /\ s.cancels \in {"never", "token", "abort"}

VARIABLES
    situation, \* [modes, forces, caps, batch, faults, cancels, repairs]: what
               \* callers ask for (mode, force, max_commits); the commits whose
               \* documents fill MAX_BATCH_DOCS; the faults: "never", "scratch"
               \* (crashes and errors of first walks), "crash" (of any walk) or
               \* "any" (lost watermarks too); cancellation: "never", "token" or
               \* "abort"; the repairs asked for
    head,    \* the approved history root of the repository
    meta,    \* last_git_oid, oldest_indexed_git_oid, git_backfill_complete
    weight,
    docs,
    lock,    \* the project update lock
    run,     \* the history runs
    repair,  \* "none", "purged", or the watermark a wipe clears next
    skipped  \* history: commits a cap or a cancelled backfill left out for good

Caps == situation.caps
BatchSize == situation.batch
Faults == situation.faults
Cancels == situation.cancels

walkVars == <<head, meta, weight, docs, lock, run, repair, skipped>>

NoWeights == [c \in Commits |-> 0]

IdleRun ==
    [pc |-> "idle", mode |-> "forward", force |-> FALSE,
     stop |-> None, start |-> None, was |-> FALSE,
     cancelled |-> FALSE, detached |-> FALSE,
     leg |-> "forward", walk |-> {}, cap |-> 0, count |-> 0,
     ran |-> FALSE, got |-> 0,
     newest |-> None, first |-> None, deepest |-> None, root |-> FALSE,
     acc |-> NoWeights, since |-> 0, buf |-> {}, failed |-> FALSE,
     exhausted |-> FALSE,
     chan |-> <<>>, rx |-> "none", wrote |-> {}]

WalkInit ==
    /\ situation \in Situations
    /\ head \in Commits
    /\ meta = [last |-> None, oldest |-> None, complete |-> FALSE]
    /\ weight = NoWeights
    /\ docs = {}
    /\ lock = Free
    /\ run = [r \in Runs |-> IdleRun]
    /\ repair = "none"
    /\ skipped = {}

-----------------------------------------------------------------------------
(* The walks.                                                              *)

\* What a revwalk from c yields: c and, of each commit, all parents.
Closed == {S \in SUBSET Commits : \A c \in S : Parents[c] \subseteq S}
Ancestors == [c \in Commits |-> {d \in Commits : \A S \in Closed : c \in S => d \in S}]

\* The first `max` commits the newest-first revwalk yields.
Newest(S, max) == {c \in S : Cardinality({d \in S : d > c}) < max}

\* walk_commits_streaming_from stops at the watermark, wherever the order
\* reaches it.
NewCommits(stop) ==
    IF stop \in Ancestors[head]
    THEN {c \in Ancestors[head] : c > stop}
    ELSE Ancestors[head]

\* walk_older_commits: below the anchor, or without one from HEAD, which is
\* taken to be the approved root.
OlderCommits(anchor) ==
    IF anchor = None THEN Ancestors[head] ELSE Ancestors[anchor] \ {anchor}

Plus(w, a) == [c \in Commits |-> Min({w[c] + a[c], MaxWeight})]

Or(a, b) == IF a # None THEN a ELSE b

\* history_fully_indexed: a cancelled run proves nothing.
HistoryFullyIndexed(x) ==
    IF x.cancelled THEN x.was
    ELSE x.was \/ x.root \/ (x.ran /\ x.got < x.cap - x.count)

\* A run ends: it gives the lock back unless its task was aborted before.
End(r) ==
    /\ run' = [run EXCEPT ![r] = IdleRun]
    /\ lock' = IF lock = r THEN Free ELSE lock

FaultAllowed(x) ==
    \/ Faults \in {"crash", "any"}
    \/ /\ Faults = "scratch"
       /\ x.stop = None /\ ~x.force /\ x.pc \notin {"oldest", "complete"}

-----------------------------------------------------------------------------
(* The run's task.                                                         *)

\* The task has the lock and reads the watermarks; a forward run that is
\* already at the root returns without writing.
Begin(r, mode, force) ==
    LET stop == IF force THEN None ELSE meta.last
    IN  /\ run[r].pc = "idle" /\ lock = Free
        /\ mode = "backfill" => stop # None  \* callers walk forward first
        /\ ~(mode = "forward" /\ ~force /\ stop # None /\ stop = head)
        /\ lock' = r
        /\ run' = [run EXCEPT ![r] =
              [IdleRun EXCEPT !.pc = IF stop = None THEN "clear" ELSE "walk",
                              !.mode = mode, !.force = force, !.stop = stop,
                              !.start = IF force THEN None ELSE meta.oldest,
                              !.was = ~force /\ meta.complete]]
        /\ UNCHANGED <<head, meta, weight, docs, repair, skipped>>

\* 16d: a walk without a watermark starts from an empty coupling graph.
Clear(r) ==
    /\ run[r].pc = "clear"
    /\ weight' = NoWeights
    /\ IF run[r].detached THEN End(r)
       ELSE run' = [run EXCEPT ![r].pc = "walk"] /\ UNCHANGED lock
    /\ UNCHANGED <<head, meta, docs, repair, skipped>>

\* The consumer and the producer are spawned; the producer collects the
\* forward window, the newest max_commits of what is new.
Walk(r, cap) ==
    LET x == run[r]
        new == IF x.mode = "backfill" THEN {} ELSE NewCommits(x.stop)
        window == IF x.cancelled THEN {} ELSE Newest(new, cap)
    IN  /\ x.pc = "walk" /\ ~x.detached
        /\ run' = [run EXCEPT ![r].pc = "process", ![r].cap = cap,
                              ![r].walk = window,
                              ![r].count = Cardinality(window),
                              ![r].rx = "waiting"]
        /\ skipped' = IF x.stop = None THEN {} ELSE (skipped \ new) \cup (new \ window)
        /\ UNCHANGED <<head, meta, weight, docs, lock, repair>>

\* The run's watermarks: the first commit of a backfill is its deepest, the
\* last one of a forward walk its newest.
Marks(x, c) ==
    IF x.leg = "backfill" THEN [x EXCEPT !.deepest = Or(@, c)]
    ELSE [x EXCEPT !.newest = c, !.first = Or(@, c)]

\* process_commit: one commit of the window, the oldest first.
Process(r) ==
    LET x == run[r]
        c == Min(x.walk)
        acc == [x.acc EXCEPT ![c] = @ + 1]
        flush == x.since + 1 >= FlushEvery
    IN  /\ x.pc = "process" /\ x.walk # {} /\ ~x.cancelled
        /\ weight' = IF flush THEN Plus(weight, acc) ELSE weight
        /\ run' = [run EXCEPT ![r] =
              [Marks(x, c) EXCEPT
                  !.walk = @ \ {c},
                  !.root = @ \/ Parents[c] = {},
                  !.acc = IF flush THEN NoWeights ELSE acc,
                  !.since = IF flush THEN 0 ELSE @ + 1,
                  !.buf = @ \cup {c},
                  !.pc = IF Cardinality(x.buf \cup {c}) >= BatchSize
                         THEN "send" ELSE "process"]]
        /\ UNCHANGED <<head, meta, docs, lock, repair, skipped>>

LegOver(x) == x.pc = "process" /\ (x.walk = {} \/ x.cancelled)

\* The persisted oldest watermark takes precedence over this run's oldest.
Anchor(x) == Or(x.start, x.first)

\* The forward leg is over; what the cap leaves goes to the backfill leg.
EndForward(r) ==
    LET x == run[r]
        rest == x.cap - x.count
        ran == rest > 0 /\ x.mode # "forward" /\ ~x.was
        older == IF ran /\ ~x.cancelled
                 THEN Newest(OlderCommits(Anchor(x)), rest) ELSE {}
    IN  /\ LegOver(x) /\ x.leg = "forward"
        /\ run' = [run EXCEPT ![r] =
              [x EXCEPT !.leg = "backfill", !.ran = ran, !.walk = older,
                        !.got = Cardinality(older)]]
        /\ skipped' = skipped \ older
        /\ UNCHANGED <<head, meta, weight, docs, lock, repair>>

\* The walk is over: the termination decision, then the last edge flush.  The
\* first commit of a backfill is its watermark, whatever a cancellation leaves.
EndWalk(r) ==
    LET x == run[r]
    IN  /\ LegOver(x) /\ x.leg = "backfill"
        /\ weight' = Plus(weight, x.acc)
        /\ run' = [run EXCEPT ![r] =
              [x EXCEPT !.leg = "closing", !.walk = {}, !.acc = NoWeights,
                        !.exhausted = HistoryFullyIndexed(x),
                        !.pc = IF x.buf = {} THEN "join" ELSE "send"]]
        /\ skipped' = IF x.deepest = None THEN skipped ELSE skipped \cup x.walk
        /\ UNCHANGED <<head, meta, docs, lock, repair>>

\* A document batch enters the channel, or the consumer is gone and the
\* producer fails.
Send(r) ==
    LET x == run[r]
    IN  /\ x.pc = "send"
        /\ \/ /\ x.rx \in {"waiting", "open"} /\ Len(x.chan) < Slots
              /\ run' = [run EXCEPT ![r] =
                    [x EXCEPT !.chan = Append(@, x.buf), !.buf = {},
                              !.pc = IF x.leg = "closing" THEN "join"
                                     ELSE "process"]]
           \/ /\ x.rx \notin {"waiting", "open"}
              /\ run' = [run EXCEPT ![r] =
                    [x EXCEPT !.pc = "join", !.failed = TRUE, !.buf = {},
                              !.acc = NoWeights]]
        /\ UNCHANGED <<head, meta, weight, docs, lock, repair, skipped>>

\* A git or graph error ends the producer; the accumulator goes with it.
ProducerFails(r) ==
    /\ FaultAllowed(run[r])
    /\ run[r].pc = "process"
    /\ run' = [run EXCEPT ![r].pc = "join", ![r].failed = TRUE,
                          ![r].walk = {}, ![r].buf = {}, ![r].acc = NoWeights]
    /\ UNCHANGED <<head, meta, weight, docs, lock, repair, skipped>>

-----------------------------------------------------------------------------
(* The consumer.                                                           *)

\* create_bulk_writer_async: the consumer has its place in the commit lane.
AcquireWriter(r) ==
    /\ run[r].rx = "waiting"
    /\ run' = [run EXCEPT ![r].rx = "open"]
    /\ UNCHANGED <<head, meta, weight, docs, lock, repair, skipped>>

\* A batch is written; a cancelled consumer leaves its loop instead, and
\* drops what is queued.
Receive(r) ==
    LET x == run[r]
        wrote == x.wrote \cup Head(x.chan)
        full == Cardinality(wrote) >= CommitEvery
    IN  /\ x.rx = "open" /\ x.chan # <<>>
        /\ IF x.cancelled
           THEN /\ docs' = docs \cup x.wrote
                /\ run' = [run EXCEPT ![r].rx = "done", ![r].chan = <<>>,
                                      ![r].wrote = {}]
           ELSE /\ docs' = IF full THEN docs \cup wrote ELSE docs
                /\ run' = [run EXCEPT ![r].chan = Tail(@),
                              ![r].wrote = IF full THEN {} ELSE wrote]
        /\ UNCHANGED <<head, meta, weight, lock, repair, skipped>>

\* The producer's sender is gone and the channel empty: finish() commits.
ConsumerEnds(r) ==
    /\ run[r].rx = "open" /\ run[r].chan = <<>> /\ run[r].pc = "join"
    /\ docs' = docs \cup run[r].wrote
    /\ run' = [run EXCEPT ![r].rx = "done", ![r].wrote = {}]
    /\ UNCHANGED <<head, meta, weight, lock, repair, skipped>>

\* The writer could not be had, for one because the token was cancelled
\* before, or a write failed; dropping it commits if it can.
ConsumerFails(r) ==
    /\ \/ FaultAllowed(run[r]) /\ run[r].rx \in {"waiting", "open"}
       \/ run[r].cancelled /\ run[r].rx = "waiting"
    /\ \E kept \in {{}, run[r].wrote} : docs' = docs \cup kept
    /\ run' = [run EXCEPT ![r].rx = "failed", ![r].chan = <<>>,
                          ![r].wrote = {}]
    /\ UNCHANGED <<head, meta, weight, lock, repair, skipped>>

-----------------------------------------------------------------------------
(* The watermarks.                                                         *)

\* Mutated: the producer's error is not looked at.
JoinIgnoresProducer(r) ==
    LET x == run[r]
    IN  /\ x.pc = "join" /\ x.rx \in {"done", "failed"}
        /\ IF x.detached \/ x.rx = "failed" THEN End(r)
           ELSE run' = [run EXCEPT ![r].pc = "last"] /\ UNCHANGED lock
        /\ UNCHANGED <<head, meta, weight, docs, repair, skipped>>

\* Both sides are awaited; an error of either leaves the watermarks alone.
Join(r) ==
    LET x == run[r]
    IN  /\ x.pc = "join" /\ x.rx \in {"done", "failed"}
        /\ IF x.detached \/ x.failed \/ x.rx = "failed" THEN End(r)
           ELSE run' = [run EXCEPT ![r].pc = "last"] /\ UNCHANGED lock
        /\ UNCHANGED <<head, meta, weight, docs, repair, skipped>>

\* One best-effort set_meta; an aborted task leaves the one in flight.
Save(r, here, next, m) ==
    /\ run[r].pc = here
    /\ \/ meta' = m
       \/ Faults = "any" /\ UNCHANGED meta
    /\ IF run[r].detached \/ next = "idle" THEN End(r)
       ELSE run' = [run EXCEPT ![r].pc = next] /\ UNCHANGED lock
    /\ UNCHANGED <<head, weight, docs, skipped>>

SaveLast(r) ==
    LET v == Or(run[r].newest, run[r].stop)
    IN  /\ Save(r, "last", "oldest",
                IF v = None THEN meta ELSE [meta EXCEPT !.last = v])
        /\ UNCHANGED repair

SaveOldest(r) ==
    LET v == Or(run[r].deepest, Or(run[r].start, run[r].first))
    IN  /\ Save(r, "oldest", "complete",
                IF v = None THEN meta ELSE [meta EXCEPT !.oldest = v])
        /\ UNCHANGED repair

\* The sentinel; a forced walk has restored what a repair purged.
SaveComplete(r) ==
    LET x == run[r]
    IN  /\ Save(r, "complete", "idle",
                IF x.exhausted \/ x.force
                THEN [meta EXCEPT !.complete = x.exhausted] ELSE meta)
        /\ repair' = IF x.force /\ repair = "purged" THEN "none" ELSE repair

-----------------------------------------------------------------------------
(* Cancellation, repairs, crashes and new commits.                         *)

\* cancel_job_internal fires the token first ...
Cancel(r) ==
    /\ Cancels # "never"
    /\ run[r].pc # "idle" /\ ~run[r].cancelled /\ ~run[r].detached
    /\ run' = [run EXCEPT ![r].cancelled = TRUE]
    /\ UNCHANGED <<head, meta, weight, docs, lock, repair, skipped>>

\* ... and aborts the task, whose lock is free before its workers end.
Abort(r) ==
    /\ Cancels = "abort"
    /\ run[r].cancelled /\ ~run[r].detached /\ run[r].pc # "idle"
    /\ lock' = Free
    /\ run' = [run EXCEPT ![r] = IF @.pc = "walk" THEN IdleRun
                                 ELSE [@ EXCEPT !.detached = TRUE]]
    /\ UNCHANGED <<head, meta, weight, docs, repair, skipped>>

\* repair_project deletes the project's graph; a wipe then clears the
\* watermarks, a graph_only repair leaves them over an empty graph until a
\* forced walk; its own follow-up run is an ordinary forward run.
RepairGraph(kind) ==
    /\ lock = Free /\ repair = "none"
    /\ weight' = NoWeights
    /\ IF kind = "wipe" THEN lock' = Repairer /\ repair' = "last"
       ELSE repair' = "purged" /\ UNCHANGED lock
    /\ UNCHANGED <<head, meta, docs, run, skipped>>

WipeWatermark ==
    /\ \/ /\ repair = "last" /\ repair' = "oldest"
          /\ meta' = [meta EXCEPT !.last = None] /\ UNCHANGED lock
       \/ /\ repair = "oldest" /\ repair' = "complete"
          /\ meta' = [meta EXCEPT !.oldest = None] /\ UNCHANGED lock
       \/ /\ repair = "complete" /\ repair' = "none"
          /\ meta' = [meta EXCEPT !.complete = FALSE] /\ lock' = Free
    /\ UNCHANGED <<head, weight, docs, run, skipped>>

\* The process ends; uncommitted documents and accumulators are gone.
Crash ==
    /\ \E r \in Runs : run[r].pc # "idle"
    /\ \A r \in Runs : run[r].pc # "idle" => FaultAllowed(run[r])
    /\ run' = [r \in Runs |-> IdleRun]
    /\ lock' = Free
    /\ UNCHANGED <<head, meta, weight, docs, repair, skipped>>

\* Commits are published on the approved branch.
Advance ==
    /\ \E c \in Commits : head < c /\ head \in Ancestors[c] /\ head' = c
    /\ UNCHANGED <<meta, weight, docs, lock, run, repair, skipped>>

Step(r) ==
    \/ Clear(r) \/ \E cap \in Caps : Walk(r, cap)
    \/ Process(r) \/ EndForward(r) \/ EndWalk(r) \/ Send(r)
    \/ AcquireWriter(r) \/ Receive(r) \/ ConsumerEnds(r)
    \/ Join(r) \/ SaveLast(r) \/ SaveOldest(r) \/ SaveComplete(r)

WalkNext ==
    \/ \E r \in Runs :
          \/ \E mode \in situation.modes, force \in situation.forces : Begin(r, mode, force)
          \/ Step(r)
          \/ ProducerFails(r) \/ ConsumerFails(r)
          \/ Cancel(r) \/ Abort(r)
    \/ \E kind \in situation.repairs : RepairGraph(kind)
    \/ WipeWatermark
    \/ Crash
    \/ Advance

WalkSpec == WalkInit /\ [][WalkNext /\ UNCHANGED situation]_<<walkVars, situation>>

-----------------------------------------------------------------------------
(* Properties.                                                             *)

\* Nothing of any run or repair is left in flight.
AtRest == lock = Free /\ \A r \in Runs : run[r].pc = "idle"

\* The commits of a branch that lie before or after every other one of it: not
\* those of parallel branches, which a walk may leave out (see Deviations).
Trunk == [h \in Commits |-> {c \in Ancestors[h] :
             \A d \in Ancestors[h] : c \in Ancestors[d] \/ d \in Ancestors[c]}]

\* The commits from the oldest watermark to the newest.
Window ==
    {c \in Commits : meta.oldest # None /\ meta.oldest <= c /\ c <= meta.last}

\* The commits whose couplings and documents the registry claims to have: all
\* when the sentinel is set.
Claimed ==
    {c \in Trunk[head] : c \in Ancestors[meta.last] /\ (meta.complete \/ c \in Window)}
       \ skipped

\* What the watermarks and the sentinel enclose is there, so that the next walk
\* starts where the last stopped and the temporal gate may take an absent
\* coupling for evidence: no commit is missing from the graph but those known
\* to be skipped; none outside the watermarks is counted and none twice (16d),
\* with merges too, unless a later walk was cut short; and the documents are
\* committed unless a run was cancelled.
HistoryIsSound ==
    AtRest /\ meta.last # None /\ repair = "none" =>
        /\ \A c \in Claimed : weight[c] > 0
        /\ Faults \in {"never", "scratch"} /\ Cancels = "never" =>
              \A c \in Commits : weight[c] <= IF c \in Window THEN 1 ELSE 0
        /\ Cancels = "never" => Claimed \subseteq docs
=============================================================================
