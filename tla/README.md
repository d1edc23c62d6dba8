# A TLA+ model of Engram

Engram indexes a project's source into a lexical store (Tantivy), a vector
store (LanceDB) and a code graph (redb), publishes the result as a numbered
*generation*, and answers searches from a published generation while the next
one is built, repaired or collected. This directory models the parts of Engram
in which concurrent requests, background actors, detached work and crashes
meet: what decides which generation is published, what keeps the stores
consistent with it, and what makes the background work happen.

## Inventory

| Component | State | Operations | Talks to |
|---|---|---|---|
| Registry (`engram_core/src/registry.rs`, `registry/source_head.rs`) | redb: project records; per project the head, the markers `required`, `managed`, `attested`, `verified`, a revision and an identity epoch; one anonymous revision sequence | register, edit, two deletions, head writes, capture, publish, attest, recovery capture / reserve / publish | handlers hold its tokens across awaits |
| Reindex requirements (`registry/reindex.rs`) | per project a map reason -> revision and an aggregate flag in the record | require, begin / resume a repair, read a token, settle, dismiss | same transactions and sequence as the registry |
| Mutation coordinator (`hybrid/mutation.rs`) | phase, two counters, reservation number, fault flag, behind one mutex | admit a flow, begin an operation, release, reserve / mark / finish / abandon a recovery | guards in `hybrid.rs`; `vector_epochs.rs` |
| Snapshot catalog (`hybrid/snapshots.rs`) | record files, two boundary files, a cache of resolved views with leases | pin, prepare, seal, protect for collection, prune, high water | the engine, the registry |
| Lexical and vector rows (`hybrid.rs`, `hybrid/vector_mutations.rs`, `hybrid/commit.rs`) | rows per file and generation | bulk write, native upsert, staging clear, purge | coordinator, catalog |
| Publication flows (`handlers/project_tools.rs`, `actors/gc.rs`, `state.rs`) | the project update lock, tokens and leases on the stack of a request | update, full index, repair, sweep | all of the above |
| Commit lane (`hybrid/commit.rs`, write flows of `hybrid.rs`) | five locks and the delegated workers | every index write | coordinator, flows |
| Vector epochs (`hybrid/vector_epochs.rs`, `vector_initialization.rs`, `vector_reads.rs`, `vector_history/native.rs`) | route, receipt and intent files, tables, leases | bootstrap, write, rebuild, collect, prune, search | coordinator |
| Change detection (`services/project_service.rs`, `handlers/project_tools.rs`, `actors/gc.rs`) | file nodes with hash and time, identity epoch, purge baseline | scan, update, selected-path update, repair, collect | graph, registry |
| Graph store (`engram_graph/src/store.rs`) | nodes, edges, two adjacency tables | upsert, scoped purge with remapping, generation purge, drain, symbol resolution, learning | flows, dreamer |
| Git history (`handlers/git_tools.rs`, `handlers/history_refresh.rs`, `engram_git/src/history.rs`) | two watermarks, a sentinel, a cursor; couplings; documents | forward, backfill and combined walks; document refresh | graph, lexical store |
| Jobs (`handlers/project_tools.rs`, `git_tools.rs`, `services/job_service.rs`) | records, checkpoints, two tracking maps, a slot counter | spawn, run, cancel, abort, clean up, restart | flows |
| Project runtimes (`state.rs`, `services/project_service.rs`) | cache of engines in LRU order, runtime locks, update locks | open, evict, delete | every handler |
| Memory budget (`engram_core/src/memory.rs`) | atomics | allocate, release, set the budget | index work |
| Watcher (`actors/watcher.rs`) | watchers, pending deadlines, in-flight set, cancel tokens | event, notification, debounce, update, unwatch | updates |
| Dreamer (`actors/dreamer.rs`) | dirty projects, idle window; insights, fingerprints, documents | learn, dream, the tool `dream_project` | graph, lexical store |
| Multi-client daemon (`multi_client.rs`) | OS lock, metadata and socket files, sessions | elect, admit, idle exit, shut down | processes |
| Extractors, providers, ranking, report services, tool surface | derived data, text | | read the above |

What is hard here: every multi-step operation is an `async` request that can be
dropped at any await while the native write, the blocking closure or the
publication it started runs on; the process can die between any two durable
writes; callers hold values (tokens, leases, table handles, generations) read
long before they are used; several stores are written without a common
transaction; and processes know of each other only through a lock and two
files. The hazards, each at its line and with the properties that cover it, are
in `PROJECT.json`.

## Modules

    VersionedHead         abstract: publication is compare-and-swap on a version
      ^ implemented by
    Registry              tokens and heads              + RegistryProofs
    Coordinator           admission and recovery        + ProcessProofs
    SourcePublication     catalog, rows, flows, sweep   + SourcePublicationProofs
    CommitLane            the lock order of index writes + CommitLaneProofs
    VectorEpochs          the vector table and its route + StoresProofs
    GraphStore            the graph's tables and their flows + StoresProofs
    IncrementalUpdate     what an update believes changed + ActorsProofs
    GitHistory            walks, watermarks, couplings, documents + JobsProofs
    HistoryRefresh        rewriting the history documents + JobsProofs
    Jobs                  records, cancellation, cleanup + JobsProofs
    ProjectRuntime        engines, eviction, locks, deletion + ProcessProofs
    MemoryBudget          reservations, one atomic operation per step + ProcessProofs
    Watcher               watching and updating         + ActorsProofs
    Dreamer               learning and dreaming         + ActorsProofs
    Daemon                the processes over one data directory + DaemonProofs
    MC*                   instances for TLC

**Registry.** Every method of the Rust type is one redb transaction, so it is
one action; a transaction that fails (a sequence at its end, a missing record)
is an action that is not enabled. What interleaves are the *tokens*: a worker
captures one in a transaction and presents it in a later one. The record
`token[w]` covers the four Rust token types. The history variables (`changes`,
`lifetime`, `failures`, `published`, `witness`, and the tokens' `seen` and
`life`) count what happened so that the properties can say *since*; no guard
reads them. Raw bytes of the head are a natural number, `Absent` or `Damaged`.
`Init` includes databases written by older versions: heads without revision or
epoch, reindex flags without a requirement map.

**VersionedHead** states what the registry promises without its metadata: a
project has a version that every change of its source authority moves, a holder
remembers the version it captured, and only a holder of the current version can
publish. `ImplementsVersionedHead` is the refinement.

**Coordinator.** Each method takes the state mutex once, hence one action each;
`IndexOperationGuard` drops its operation permit and its share of the admission
in two. A *flow* is one admitted mutation: its permit is an `Arc` shared by the
request and by every operation it started, so `Admitted` is defined from the
shares, not stored. `panicking` is the answer of `std::thread::panicking()` in a
guard's own drop.

**SourcePublication.** One project. A generation's record (state, parent,
checkpoint files, changed, deleted) is the catalog file; `cache` is the memory
of resolved views; a lease is a view some reader, sweep or detached purge
holds, and `Pinned` is the `Arc::strong_count > 1` of the code. A row
`(path, generation)` holds a set of attempts: `"current"` when it was written by
the attempt that owns the generation's present record and `"stale"` when an
abandoned attempt wrote it, so a complete and unmixed file is exactly
`{"current"}` in both stores. A flow's `pc` names the await it has reached; `op`
is the native write, purge or publication it has handed to another task, which
`Cancel` leaves running. The registry is taken at its abstract meaning:
`tokens` are the workers whose version is current (the compare-and-swap that
`ImplementsVersionedHead` establishes). The coordinator is taken as `Quiet`: no
new flow while an operation runs (`NoOvertaking`, proved).

**CommitLane.** A flow is the sequence of lock and write steps its function in
`hybrid.rs` takes (`DeleteSteps`, `BulkSteps`, ...). The project update lock,
the lane and the bootstrap mutex are FIFO queues, as tokio's mutex is; an entry
of the lane lives until both the guard and the delegated native share are gone.
A request may fail, be dropped or panic at any step while its worker goes on.

**VectorEpochs.** The files `route`, `pending` (bootstrap intent) and
`receipts`, the native `tables` and `rows`, the cached route, reader leases,
and writers whose table handle is not leased. A publication may be durable
although the call reported an error, which closes the root (`"uncertain"`). A
row keeps the embedding model of its vector. Exclusive work (rebuild,
collection, pruning) runs under the coordinator's exclusive permit.

**GraphStore.** Declarations and learning endpoints are nodes with the
generation that wrote them; a call is an edge to a name until
`resolve_symbol_edges` binds it. `ADJ_OUT` and `ADJ_IN` are variables of their
own. Each redb transaction is an action, and a batch is any part of what is left
to delete. `live` is the published text, against which the properties compare.
Of the resolver's ladder `Bindings` is one rung: a name that exactly one
declaration has. The tie-breaks by file and receiver, qualified names, suffix and
terminal fallbacks and api routes (`store.rs` 3310-3360, 3379-3480, 3497-3569)
are left out, so a call they would bind is a call `CallsBound` says nothing of.

**IncrementalUpdate.** A text is a model value and all texts have one size, so a
change shows only in the modification time or in the hash. `view` is what is
published, `disk` what is there, `node` what the scan compares. The history
variable `suspect` marks the files whose graph part the known deviations below
have made unreliable (a file repaired away but not removed from the graph, a
graph deleted before a repair that then failed, an upsert that outlived its
aborted job); a file leaves the set when it is indexed again. The properties
speak of the other files, so they say that *nothing else* loses a change.

**GitHistory, HistoryRefresh.** A commit is its rank in commit time; `weight[c]`
counts how often the couplings of `c` are in the graph (saturating at 2), `docs`
the commits whose documents are stored. A run is a producer that flushes
couplings and feeds a bounded channel, and a consumer that first has to get the
lexical writer; an aborted job leaves both running. Commits may have any parents,
and a walk takes all of them, as `MergeCommitPolicy::AllParents` does. What the
code leaves out for good is not assumed away but named (see Deviations): the
history variable `skipped` holds the commits that `max_commits` or a cancelled
backfill passed over, and `Trunk` are the commits of a branch that have no
parallel ones. `HistoryIsSound` claims the trunk without the skipped commits, and
for all commits that none is counted twice or outside the watermarks. Assumed of
the callers is that a backfill follows a forward walk.

**Jobs.** A job has a spawning handler, a task, at most one blocking closure
(which an abort does not stop), the task its cleanup guard spawns, and cancel
requests; each registry or checkpoint write is a step, and fails or not where
`setting` says that the store's writes may (`Written`): the code logs or ignores
what such a write returns and goes on. `seen` is the record the
progress callback of a git job has read and will write back. Panics are not
modelled: the guard treats one before `disarm` like an abort, and one after it is
a deviation.

**ProjectRuntime.** Engines are numbered; `unlocked` remembers those that the
actors' own loaders opened without the runtime lock. Update locks are numbered
too, because the map entry and the mutex a caller already holds can differ.

**MemoryBudget.** Loads, compare-and-swaps and subtractions are separate steps
on words of `Word` values, so that a wrap would show. The bytes of a set of
reservations are counted one by one (`BytesOf`), which is their sum.

**Watcher, Dreamer.** One action per branch of the actor's `select!`, one per
step of a task or a dream. `owed` is history: projects changed since their last
update began. The dreamer's `dream_once` is run by the actor and by the tool.

**Daemon.** Unix. Lock, metadata file, socket file and storage are separate
variables read and written in separate steps by clients, hosts and proxies;
`gap` is history: polls since the last admission.

### Several components in one run

`MCProcess`, `MCActors`, `MCStores` and `MCHistory` check components that share
no variable in one run: an initial choice says which of them runs, and the
others stay in one initial state. Every behaviour of each is explored, and the
properties are about one component each. The variable `setting` (in `Jobs`,
`CommitLane`, `VectorEpochs`, `Dreamer`; `situation` in `GitHistory`, `scenario`
in `IncrementalUpdate`, `mix` in `GraphStore`) is likewise chosen initially and
never changes: it says which actors, flows and faults a behaviour may contain,
so that each fault is explored with the bounds it needs.

## Runs

| Run | Instance | What it shows |
|---|---|---|
| `registry` | one project, two identities, two workers, two reasons, two kinds of damage: every step on three revisions, the source head's on four, the requirements' on five, the recovery's on seven | tokens are fenced against every change (no ABA), epochs and verifications name one lifetime, damage never strands a project nor exposes the legacy default, a settlement acknowledges only what it captured, publication by either path refines `VersionedHead` |
| `registry_unattested` | one worker, six revisions | the comment above `capture_source_recovery` is out of date |
| `process` | coordinator: three flows, three operations, two recoveries; memory: two threads, 4-bit words; runtimes: two callers, two projects, a cache of one, one job | recovery excludes mutations and stays resumable when uncertain, and no order of releases faults the coordinator; the budget is exact and never exceeded; opening is single-flight and updates of a project are serialized |
| `publication_chain` | two files, one worker, a reader, depth limit two, cache of one, three generations | inherited revisions survive collection, checkpoints and crashes; seals never fail late |
| `publication_flows` | one file, two workers, every flow and failure; with a reader to generation two, without to three | detached work never corrupts a leased view, writers never overlap, what is published stays recoverable and its numbers are never reused |
| `lane` | pairs of the seven flows with faults; three flows that start again for ever without | payload writes stay inside the lane; nothing deadlocks or starves |
| `stores` | vectors: two searches beside exclusive work; two racing writers; a writer and a search over two models, one crash. Graph: two files, a callee that moves, four generations | the route is always served and complete, reads keep their table, models never mix; mirrors agree and calls follow a moved declaration |
| `incremental` | one file with every flow and late or detached failures; one with retargets; two with selected paths | no change is missed and the published source converges to the directory |
| `history` | four commits in a row, four with a merge, caps from one commit to all, one run with aborted workers; five commits to refresh | what the watermarks claim is there and counted once; the refresh cursor passes nothing superseded |
| `jobs` | one job of each kind with a cancellation, and for index and update a deletion and a restart; an index job alone, and two jobs that share a limit of one, in a store whose writes may fail | records are true and settle |
| `actors` | two projects, channel capacities one and two; three clusters, two of them of one project, dreams of one cluster, three sessions, one fault | every change is followed by an update; insights are sound, and what was learned is dreamt unless the cap on a dream leaves it out |
| `daemon` | two clients, two process slots, both modes, crashes at every step | idle close against admission, clean handover, an idle host leaves, every client gets an answer |

*Bounds.* `MaxRevision` plays `u64::MAX`: the guards of a recovery that refuse to
wrap become reachable. A registration or retarget takes two revisions, a
publication, a reservation and a requirement one each. Steps of all kinds go up
to three revisions together, and further apart (`Horizons`): on four a project is
registered, deleted and recreated with the old token alive, or registered,
published, damaged and published again; on five a requirement of a recreated
project is recorded beside the token of an earlier one; and on seven two
reservations are held side by side and one is published (five), or a reservation
survives a deletion and a recreation and meets the next one (six), which is
published (seven). The theorems hold for every length.
`MaxGeneration = 3` lets a sweep retire a generation that has a retired parent,
and a damaged head be recovered after two publications; two generations suffice
for a reader that holds the old one while the new one is published and its
purge runs detached. `MaxDepth = 2` makes the third update a checkpoint;
`CacheEntries = 1` makes every second pin evict. `MaxCount` in `process` is
below what three flows with operations could reach, so the overflow guards
matter. A budget of 4 or 5 with requests of 2, 3 and 15 bytes on 4-bit words has
both a tight fit and an overflowing sum. Two process slots are the old and the
new primary of a handover. Four commits with flushes of two allow a partial
flush below a watermark, and four with a merge a stop commit that has a parallel
one. Two clusters of one project are one more than a dream takes up. Crashes and errors are bounded by one or two a
behaviour: each may strike anywhere, and the work that follows it meets what it
left behind.
Symmetry is used on workers, identities, paths and flows, of which no definition
singles one out, and only with invariants and step properties.

*Deadlock.* It is checked in `publication_*`, `lane` and `daemon`. The other
runs set `CHECK_DEADLOCK FALSE`: at the end of the revision sequence, after the
bounded number of calls, sessions, commits or generations, or when the process
has ended, nothing more can happen.

*Fairness.* Weak fairness of every step of a task, a worker, a blocking closure
and a timer stands for the tokio runtime, which polls what is ready. Strong
fairness appears where another step may disable one again and again and the
code gets its turn in between: the watcher's and the clients' updates behind a
lock that is a queue, while sweeps only try it (`incremental`); the dreamer's
idle window (`actors`); a job that reports progress finitely often (`jobs`). No
request, session, signal, crash, file change or client departure is ever
promised. In `lane` weak fairness suffices because the queues are FIFO: no flow
starves although three start again for ever.

## Proofs

Eight modules hold theorems, each about the specification the runs check and for
every value of the constants its assumptions admit. In each, a property is
proved from an inductive invariant (`IInv`, or one named for its component),
which TLC checked on an instance of the module first, with one lemma per action
or per class of actions: the lemmas say what a step may do to the state so that
the invariant is kept, and each action is shown to be such a step.

| Module | Proved, beside `IInv` |
|---|---|
| `ProcessProofs` | of the coordinator `TypeOK`, `CountsPermits`, `RecoveryIsExclusive`, `FaultOnlyAfterPanic`, `UncertainIsResumable`, `NoOvertaking`; of the runtimes `OneEngine`, `UpdatesAreSerialized`; of the memory budget `NeverOvercommitted` |
| `RegistryProofs` | `TypeOK`, `AuthorityOrdered`, `TokenFencesChanges`, `NeverStranded`, `PublishedNeverLegacy`, `ReservationsDistinct`, `EpochNamesLifetime`, `SettlementNamesFailure`, `ImplementsVersionedHead` |
| `SourcePublicationProofs` | `WritersAreSerialized`, `PublishedNeverRestaged`, `SourceIsReadable`, `StagedCanBeSealed` |
| `StoresProofs` | of the vector route `RouteIsServed`, `ReadsKeepTable`, `SpacesNeverMix`, `CompleteOnActivation`; of the graph `TablesAgree`, `CallsBound` |
| `CommitLaneProofs` | `PayloadUnderLane` |
| `DaemonProofs` | `HandoverIsClean`, `ClosedMeansIdle` |
| `ActorsProofs` | of the watcher `UpdatesAreOwned`; of the updates `GraphIsEvidence`; of the dreamer `InsightsAreSound` |
| `JobsProofs` | of the jobs `RecordsAreTrue`; of the history walks `HistoryIsSound`, for any commit graph, without aborts and lost watermark writes; of the history refresh `RefreshIsSafe` |

**Coordinator** (any finite sets of flows and operations, any recoveries,
projects and limits). `RecoveryIsExclusive` is not inductive: that a recovery
starts beside no permit follows from the counters being zero, so the counters
must count the permits exactly (`CountsPermits`), and that they stay zero
follows from the phase. `IInv` adds `Phases` (what the phase says of the live
recovery, its reservation number, its project and the publication marker) and
`Shares` (which operation guards belong to a flow). `PermitsFinite`,
`CountersZero` and the library's facts on cardinalities connect counters and
sets. `FaultOnlyAfterPanic` comes out of the same invariant: each check in a
destructor is shown to be unsatisfiable. Assumed: `CoordinatorAssumption`.

**Registry** (any projects, identities, workers, reasons and any length of the
sequence). `TokenFencesChanges` is not inductive. Most changes draw a revision
above the sequence, and a token's revision is within it, so after such a change
the token no longer matches; but a deletion and outside damage draw none. The
strengthening `Fresh` therefore says of a token whose revision is still its
project's that it is either *faithful* (it copied exactly the present state) or
*outdated*: the project is not registered, its head has a lower rank (published,
zero, unreadable) than the token's, or the layout marker the token saw is gone.
Being outdated ends only with a new revision. `NeverStranded` needs the order of
epoch, revision and sequence alone; the refinement needs `TokenFencesChanges` at
the two publications, everything else is a change, a capture or a stutter.
Four more properties have an invariant of their own on top of `IInv`, all resting
on `SequenceGrows` (no deletion and no aborted write rewinds the sequence):
`Marked` (a published head is a required head, until every key is deleted) for
`PublishedNeverLegacy`; `Allotted` (a reserved generation is a past reading of
the sequence) for `ReservationsDistinct`; `Lived` (a token's epoch was drawn from
the sequence, and while it is the project's, so is the token's lifetime) for
`EpochNamesLifetime`; `Settled` (pending revisions and those of requirement
tokens were issued, the synthetic revision of a legacy flag included, and while a
token's is pending no failure came since) for `SettlementNamesFailure`. Assumed:
`UnknownAssumption`, `ProjectsAssumption`, `BoundAssumption`.

**SourcePublication** (any finite sets of paths, workers and readers, any number
of generations, any depth limit and cache size). `PublishedNeverRestaged` rests on `WritersAreSerialized`: the
target of a flow is newer than every published generation when the flow begins
(`Fresh`), and stays so because only its own operation can publish before it
ends (`Locked`, `Single`). After damage only the stores tell what was published:
`Newest` says that the record of the newest published generation is never
pruned, so the high water of a recovery is above it; `Collecting` is why pruning
spares it.

`SourceIsReadable` and `StagedCanBeSealed` have an invariant of their own on top
of `IInv`, `RowInv`, which relates records, views and rows. What the record files
resolve to is `Chain`, the walk of `load` without a cache; the walk is a recursive
function, and that it satisfies its own equation is proved (`WalkExists`) by the
least generation up to which it would not be defined, because parents go down
(`Linked`). Then: a view in memory is what the files resolve to, as long as they
still do (`Fits`), so that `load` returns the same whatever the cache holds
(`LoadedOver`); every published generation the boundary has not retired is
`Complete`, which says that its chain resolves within the depth limit and that
every revision it selects is in both stores, of one attempt; and `Layers` says
that of the revisions no newer than a served generation, a later one selects only
those the served one selects too. `Layers` is what makes a purge safe: the rows
of the active view and of the leased ones are spared, and a view pinned while the
purge is under way, or an attempt staged above it, needs no other old row
(`PurgeSafe`). `Staging` and `Running` follow the rows of the attempt that is
written, its detached writes included, and `Reading` the views readers hold.
Assumed: `PublicationAssumption`.

**VectorEpochs** (any readers, writers, documents, models, crashes and errors).
None of the properties is inductive. That the file names a table that exists
rests on what each stage of a bootstrap or a rebuild has done (`Booting`,
`Waiting`, `Working`); that a reader's table is kept rests on the cached view
never naming the table that is being dropped (`Spared`), which rests on the
cached view agreeing with the file except while an unfinished bootstrap refuses
it or an uncertain root is closed (`Cached`); and all of it on exclusive work
never running beside writers and workers (`Gated`) and on drawn tokens being new
(`Fresh`). `Pure` and `Writes` give `SpacesNeverMix`. `CompleteOnActivation` adds
what a rebuild has copied when it publishes. Assumed: `EpochsAssumption` (the
markers for "no route" and "not loaded" are no record, table or view; settings
choose among the declared participants).

**GraphStore** (any files, texts, names and search hits, any mix of flows, any
number of generations, sessions and stops). `GraphInv` says of each stage of a
flow what it has in hand (`Staged`): what is inserted are keys of the edge table,
successors are declarations (a hit is identified by itself, so it has none), and
references to be bound are still stored, because nobody else removes edges
meanwhile. With that every transaction changes the edges and both mirrors by the
same set, and the drain of a repair passes from one empty table to the next
(`Mirrored`). Purges spare the published text because of generations
(`Unpurged`): what an extraction renewed is at the head when the scoped purge
looks, nothing published is older than the baseline of the sweep, and a baseline
is recorded only when every published declaration is at the head; stops in
between leave nodes ahead of the head, never behind it. A repair that drains the
tables is taken unstopped (`Unstopped`) and, for the mirrors, without search
sessions beside it (`Uncrossed`), as the deviations below say.

`CallsBound` needs `CallsInv` on top, for flows that nothing stops and without
full repairs (`Undisturbed`). Between flows the stored declarations are the
published ones, every stored call stands for a call of the text, and every call
of the text whose target stayed in its file has an edge (`Settled`). An update
leaves that and comes back to it in three stages. What it upserts is dated one
generation ahead (`Upserted`), so the publication splits the calls of the
refreshed files into new ones at the head and old ones behind it. Before the
purge chooses, each call of an unchanged file has an edge whose target is
published or has a successor of its file and name (`Purging`, `Found`); here
`severed` excludes the calls whose target a file ceased to declare, because the
purge drops their edge and nobody extracts the caller again. What the purge
leaves and what it has in hand to insert are then together the calls of the text
(`Moving`), whatever the batches. The resolver binds every reference whose name
one declaration has, and as the stored declarations are the published ones, no
bindable reference is left (`Resolved`). The sweep removes no call, because the
baseline is only moved where every call is at the head (`Dated`).

Assumed: `GraphAssumption` (declarations, hits and names are different keys, and
a text declares nodes of its own file, which make its calls).

**CommitLane** (any number of tasks, any mix of flows and faults). Whether a
task that takes the writer owns the lane depends on steps it has taken, and only
the steps left are in the state. `Flowing` says of those what their order in the
code guarantees: a payload step comes after a "lane" with no "release" between,
or the task holds its guard (`Covered`), and a writer is finished before the
guard is released (`Closed`, `Ends`). `Held` ties guard, delegated share and
writer to the lane, `Tied` a worker to the step that awaits it. Assumed:
`LaneAssumption` (settings choose among the seven kinds of flow).

**Daemon** (any number of clients and processes, any session limit and timeout).
`Owned` follows the lock from the election to the release, and the storage
beyond it until the process ends; `Idle` says that the quiet time a poll looks
at never runs ahead of the session-free time it stands for. Assumed:
`DaemonAssumption`.

**Watcher** (any projects, tasks, requests and channel capacities). That a
project has one update at a time rests on the in-flight marker outliving the
task, late removals included (`Slots`); that an update of an unwatched project
was told to stop rests on `update_cancels` holding the token of every update
that was not told yet (`Tokens`, `Armed`). Assumed: `WatcherAssumption`.

**IncrementalUpdate** (any files and texts, any mix of flows and faults, any
bounds). `UpdateInv` says of a file that is not under suspicion (`Evident`): what
is published of it has a node and declarations that are not older than the last
full index, so no sweep reaches them; and a node of a published generation has
the published hash, and once the identity is verified also a time at which the
disk had that text (`Sure`). A node of the next generation, left by a failed
attempt, is no evidence. That the next publication, which takes that very
generation, makes it none either follows from what each stage has done: the
files a scan has passed over have nodes of the published source whose times can
be trusted, or an observation that is still to be written and whose node has not
changed since it was read (`Scanning`, `Observed`); an update keeps that until it
publishes (`Choosing`); a file that still has a time the flow, or an aborted one,
read has the text that was indexed, although times are read before texts
(`Match`, `Reading`); and what a cleanup may remove is not what was published
(`Closing`). All of it holds as long as the identity epoch is the flow's
(`InTime`); afterwards no step of the flow publishes. A file is under suspicion
(`suspect`) after the deviations listed below: a graph repair that fails, the
upsert of an aborted flow that lands in another flow or after its generation, a
node left by a repair. Of those nothing is claimed. Assumed:
`IncrementalAssumption` (the markers are no text and no node).

**ProjectRuntime** (any projects, callers and jobs, any size of the cache). The
runtime lock is held from the second look at the cache to the insertion, so only
an actor's loader can put an engine there in between (`Flight`). The update lock
of a project is one mutex for as long as nobody deletes it (`OwnMutex`): a
deletion forgets the mutex before the record and ends after it (`Removing`), and
a caller holds only the mutex it asked for (`Held`). What is evicted, and in
which order, is left open. Assumed: `RuntimeAssumption` (`NoOne` is no caller).

**MemoryBudget** (any callers, subsystems, sizes and budgets). The usage is the
sum of what granted reservations hold, and a step of one thread moves such a sum
by what that thread contributes before and after it (`ShiftBytes`). A caller is
granted at most the budget it read, which is at most the largest one installed
so far (`WithinLimit`); that bounds every sum (`CountersFit`), and so no wrapping
addition or subtraction wraps. Assumed: `MemoryAssumption` (what all callers may
hold together fits a word, and no budget is the value at which the addition
saturates).

**Jobs** (any number of jobs of any kinds, any cancel requests, deletions and
restarts). That a running record has a writer left is not inductive, since every
abort takes one away. `HasSettler` names the one there is: the handler, a task
that is not aborted or whose guard is armed, the submitted final record, the
cleanup before its tombstone, or the request that aborted the task, which is then
on its way to a tombstone (`Settling`). No job is aborted before its handler has
registered its handle (`Unspawned`), so a task that begins is such a writer. The
steps after the final record rest on its having been written, so this half is
about a store that takes its writes; that a done index job is published is not.
No assumption is used.

**GitHistory** (any number of commits with any parents, any number of runs, any
modes, caps, flush and batch sizes, repairs and new commits). At rest the
watermarks must enclose commits that are in the graph and in the index; a walk
breaks that in between, since it counts and files commits long before it moves a
watermark, from both ends of what is indexed. `WalkInv` therefore follows the run
under way: the part of the trunk that it found indexed or has processed itself
(`Have`) lies between the marks it would store now (`Bottom`, `Top`); of what is
left to walk no trunk commit is missing towards that part, unless it is skipped
(`Above` in the forward leg, `Below` in the backfill); every commit of the part is
counted, in the graph or the accumulator (`Weighted`), and filed, in the index,
the writer, the channel or the buffer (`Filed`); the decision that history is
complete means that everything of the trunk up to the top was reached (`Rooted`,
`Decided`); and the watermarks in the registry are the ones the run started from
until it stores its own, one after another (`Known`). At rest this is `Resting`.
Merges do not disturb it because a trunk commit is an ancestor of every newer
commit of its branch (`TrunkFacts`): the walk orders it against all others.
`NewestAre` says what a capped walk takes, `WindowIs` and `OlderAre` what that is
in the two legs.

The theorem excludes (`Undisturbed`) aborted runs, lost watermark writes, and
forced walks where runs may be cancelled or walks with a watermark may crash. What
it says depends on the rest: when nobody cancels and at most first walks fail
(`Exact`), no commit of any branch is counted twice or outside the watermarks, and
otherwise the trunk is counted at least once; documents are claimed when no run
is cancelled. Assumed beside: `HistoryAssumption` (commits have older parents, and
sizes and caps are positive).

**HistoryRefresh** (any number of commits, any limits and batch sizes). A batch
stopped at any step may have written new documents, deleted superseded ones or
neither, and `RefreshInv` says what holds at each: nothing the cursor has passed
is superseded, and what a running batch has checked and is superseded is among
the changed commits in hand (`Passed`); what is still to be checked comes after
what has been checked, and before superseded text outside the batch (`Ahead`);
and the changed commits whose chunk has been written have a new document before
the old one goes (`Replaced`). That a batch leaves nothing out behind it rests on
the commits being taken in the order of their ids (`FirstAreBefore`), for which
every set of naturals is shown to have a least element (`LeastNatural`). Assumed:
`RefreshAssumption` (limits and batch sizes are positive, which
`sanitized_max_commits` makes the request's limit).

**Dreamer** (any clusters and projects, any events, settings and bounds). The
node, the edges and the document of an insight are three transactions, and two
dreams may be between them at once. `Balanced` counts: the linked insights and
those in hand before their edges are no more than the nodes, the documents and
those in hand before their document no more than the linked ones; as long as
nothing has failed they are equal, and a fault only drops what is in hand. A mark
is set after the node (`Earned`). Without the tool there is one dream, which
takes up a cluster only when it finds no insight of it (`Alone`). No assumption
is used.

Only model-checked:
- liveness (`EveryFlowEnds`, `ClientsSettle` and the other leads-to properties),
  which is out of the prover's reach, as is `ENABLED`;
- `HistoryIsSound` where runs are aborted or watermark writes are lost: what it
  then still says holds in the situations the run explores (forward walks, and
  with lost writes walks of the whole history), not in all of them.

## Deviations

The run `registry_unattested` shows one disagreement between code and comment:
`capture_source_recovery` is commented "Healthy heads and unattested legacy
absence keep the ordinary token path", but its classification admits an absent,
never attested head; a unit test expects the code's behaviour. Nothing unsafe
follows: such a recovery is fenced like any other.

Modelling met more places where the code does not do what a comment or document
beside it says. Unless an entry says that the case is not modelled, the model has
a counterexample when the promise is checked without the restriction named here;
the runs check what remains true.

*Daemon* (`multi_client.rs`)
- 432: a client that was refused removes the socket file without knowing that it
  is still the one it tried; a daemon that bound the path meanwhile listens on
  an unlinked socket until its idle timeout. `ClientsSettle` says that clients
  get an answer, not that they are served.
- 1199: on Unix a proxy takes a missing socket for a crashed primary, also in
  the window between the metadata write and the bind.

*Watcher* (`project_tools.rs`)
- 4166: a watch and an unwatch request may commit in one order and announce in
  the other; the actor then watches a project whose saved watch is off, until a
  restart. `UpdatesAreOwned` speaks of the actor's own set.

*Jobs* (`project_tools.rs`, `git_tools.rs`, `job_service.rs`)
- `project_tools.rs` 1392: a task aborted before its first poll has no cleanup
  guard yet, and its slot of `active_indexing_count` is lost.
- `job_service.rs` 17: the checkpoint write of an aborted task may run after the
  cancellation looked, leaving a resumable checkpoint of a cancelled job.
- `git_tools.rs` 1507: the progress callback of a git job writes back the record
  it read before a cancellation's tombstone. `RecordsAreTrue` and `JobsSettle`
  are about index and update jobs, which have a guard.
- `job_service.rs` 143: a cancellation after the publication reports a published
  update as cancelled.
- `project_tools.rs` 4108: a deletion between a job's record and its handle
  leaves the job running.
- `project_tools.rs` 1725: what writing the final record returns is ignored; when
  it fails, the record says "running" until the next restart. `RecordsAreTrue`
  and `JobsSettle` say this much only of a store that takes its writes.
- `git_tools.rs` 1729: a task that ends before its handle is registered leaves
  the handle behind.
- `project_tools.rs` 1572: the guard, which is there for panics and aborts, is
  disarmed before the teardown; a panic of the task after that leaves the record
  "running" until the next restart. Panics are not modelled.

*Runtimes* (`state.rs`, `project_service.rs`)
- `state.rs` 414: the filter that should keep a project being indexed in the
  cache compares project identifiers with job identifiers and excludes nothing.
- `state.rs` 405: overlapping puts each see room; the cache exceeds its bound.
- `project_tools.rs` 4130: a deletion removes the update mutex while an update
  holds it, so two updates can run until the record is gone.
  `UpdatesAreSerialized` is about projects that nobody deletes.
- `project_service.rs` 97: a lookup that has read the record opens and caches
  the runtime of a project deleted meanwhile.

*Memory* (`memory.rs`)
- 142: `release` wraps when more is released than reserved; a test says that it
  saturates. Only the allocation guard releases, once.
- 391: the comment of a stress test still accepts "a brief transient
  oversubscription window"; the comment of `try_allocate` (79-81) and the code
  leave none, which `NeverOvercommitted` states. Here the code is better than
  the comment, and there is no counterexample.

*Change detection* (`project_service.rs`, `ingest_service.rs`, `project_tools.rs`)
- `project_service.rs` 619: a repair leaves the graph node of a file that is
  gone; restored with its old bytes before a sweep, the file counts as unchanged
  and stays out of the published source.
- `ingest_service.rs` 1349: the graph upsert of an aborted job may land under
  the generation the next update has just published.
- `project_tools.rs` 3912: a graph repair deletes the graph before it has
  something to publish; when it fails, a file removed since is never reported.
- `project_tools.rs` 2577: the retry of a failed update uses its generation
  again, so declarations of a text that was never published stay.

The first three are what `suspect` marks.

*Graph* (`store.rs`, `project_tools.rs`)
- `store.rs` 2219: a search session learned while a repair drains the tables
  keeps its edge and loses its mirrors; in the run no session is learned beside
  the drain.
- `project_tools.rs` 4003: a full repair after a declaration moved resolves
  beside the old declarations and leaves the callers unbound.
- `store.rs` 2660: a crash inside the scoped purge loses the successors it kept
  in memory; an unchanged caller's edge dangles. `CallsBound` is about flows
  that nothing interrupts.
- `store.rs` 2770: a call into a declaration that its file gives up is dropped,
  not turned back into a reference; when the name is declared again, in any file,
  an unchanged caller stays unbound. `severed` marks these calls.
- `store.rs` 2525: the sweep removes by key what a session renewed meanwhile.

*Git history* (`history.rs`, `git_tools.rs`, `project_tools.rs`)
- `history.rs` 226: with more new commits than `max_commits`, the run indexes
  the newest and moves the watermark past the rest (`skipped`), although the
  answer asks to run again for the remaining history.
- `history.rs` 220: commits of a merged older branch sort below the stop commit
  or outside the ancestors of the oldest commit and are left out, while the
  sentinel says complete; so is a second root once the first one was seen.
  `HistoryIsSound` claims the `Trunk` only.
- `git_tools.rs` 962: a backfill stores the first commit it processes, its
  deepest; when it is cancelled after that, the commits between it and the old
  anchor are left out for good (`skipped`).
- `git_tools.rs` 794: the token cancelled before the consumer has its writer
  makes `acquire_commit` (`commit.rs` 168, 181) return an error, for all retries;
  the run then fails over couplings already flushed, which are counted again by
  the next one.
- `project_tools.rs` 3912: a graph-only repair deletes the couplings and keeps
  the watermarks, so that only a forced walk restores them.
- `git_tools.rs` 749: a run with a watermark that crashed after a flush, or
  between its two watermark writes, is counted again.
- `git_tools.rs` 818: a run cancelled after its producer queued the last batch
  drops the batch and still moves the watermarks.
- `git_tools.rs` 1236: a backfill before the first forward walk leaves an oldest
  watermark without a newest.
- `git_tools.rs` 755: a forced walk empties the coupling graph first; cancelled or
  crashed after that it leaves the old watermarks over what it had emptied.
- `history.rs` 147: a backfill without an oldest watermark, which a lost write
  leaves, starts at the checked-out HEAD, not at the approved root from which the
  forward walk starts. The model takes them to be one commit, so this is not
  modelled.

*Dreamer* (`dreamer.rs`, `main.rs`)
- 352: the tool and the actor may both summarise one cluster and store two
  insights.
- `cognitive_tools.rs` 2690: a timeout of the tool between graph and index
  leaves an insight that no search finds, for good.
- 46: the idle pass forgets that a project was active before it dreams, and
  `clustering.rs` 131 cuts the clusters found to `max_clusters`. Those beyond the
  cap wait for further activity of the project, although the comment at 24-27
  says that a project without new events has nothing new to consolidate.
  `LearnedIsDreamt` leaves out what was crowded out this way (`CrowdedOut`).
- `main.rs` 137: the end of the process drops a dream at an await, although the
  actor is written to end between dreams.

## Not modelled

The map covers a small share of the repository's lines because most of them hold
no state that a model checker could tell apart. `engram_server/src/handlers`
(planning, access layer, cognitive and other tools), the services for review,
migration and analysis and `models/` decode requests, query the stores and
format answers by heuristics: text in, text out, under a pinned view. The
extractors parse languages. Retrieval is arithmetic over a view. Embedding and
language models are external. Rule adoption, review discussions and receipts are
single registry transactions with no token held across them. Immune and warm-up
actors derive data outside publication. A model of these would restate the code.

Inside the modelled components: errors' and logs' wording; sizes and checksums
of record files (a damaged record is refused, a damaged head is modelled); other
namespaces than the source namespace; lexical-only builds; the Windows pipe
transport and the byte forwarding of the daemon; `BoundedQueue`;
event-binding edges, the App_Code snapshot replacement and centrality tables of
the graph; review ingestion from Git servers. Of git history: a forced walk that
crashes or is cancelled, the workers of an aborted job beside the next run's, a
branch that is rewritten (commits are only added, so the stop commit is always an
ancestor of the head), a crash during a wipe, and the termination of repeated
refreshes. Of change detection: the last generation is the end of the run, so
`Converges` accepts a head that has reached `MaxGen`.

## Plan

Nothing is left.
