------------------------- MODULE SourcePublication -------------------------
(***************************************************************************)
(* How one project's source becomes searchable: the snapshot catalog       *)
(* (hybrid/snapshots.rs), the physical rows of the two stores (hybrid.rs,  *)
(* hybrid/vector_mutations.rs), the update, repair and recovery flows      *)
(* (handlers/project_tools.rs), the sweep (actors/gc.rs) and the readers.  *)
(*                                                                         *)
(* A flow runs under the project's update lock and a mutation admission.   *)
(* It may be cancelled at any await: its lock and leases go, but a native  *)
(* write or a publication it has started runs on, detached, and keeps new  *)
(* flows out until it ends.  A crash may fall between any two durable      *)
(* writes.  The registry's compare-and-swap is taken at its abstract       *)
(* meaning (VersionedHead): `tokens` are the workers whose captured        *)
(* version is still the current one.                                       *)
(***************************************************************************)
EXTENDS Integers, FiniteSets

CONSTANTS
    Paths,          \* source files
    Workers,        \* tasks that run updates, repairs, recoveries and sweeps
    Readers,        \* requests that search a pinned source view
    NoWorker,       \* the update lock is free
    MaxGeneration,  \* bound on generation numbers
    MaxDepth,       \* MAX_DEPTH of a resolved ancestry
    CacheEntries    \* CACHE_ENTRIES of the catalog

ASSUME PublicationAssumption ==
    /\ IsFiniteSet(Paths) /\ IsFiniteSet(Workers) /\ IsFiniteSet(Readers)
    /\ NoWorker \notin Workers
    /\ MaxGeneration \in Nat \ {0} /\ MaxDepth \in Nat \ {0}
    /\ CacheEntries \in Nat \ {0}

Generations == 0 .. MaxGeneration
Missing == -1        \* no parent, no boundary file, no readable head

VARIABLES
    head,           \* registry: published generation, Missing when damaged
    managed,        \* registry: the layout marker of a published source
    sequence,       \* registry: highest generation given to a recovery
    tokens,         \* workers whose captured registry version is current
    records,        \* catalog: generation -> record file
    legacyThrough,  \* catalog: legacy-through.json
    retiredBefore,  \* catalog: retired-before.json
    cache,          \* catalog memory: generation -> resolved view
    lexical,        \* Tantivy rows: (path, generation) -> attempts
    vector,         \* LanceDB rows: (path, generation) -> attempts
    lock,           \* the holder of the project update lock
    flow,           \* per worker: the running request
    op,             \* per worker: its operation, detached once flow is idle
    reader,         \* per reader: the view it holds
    published       \* history: every generation that was ever the head

registry == <<head, managed, sequence, tokens, published>>
catalog  == <<records, legacyThrough, retiredBefore, cache>>
rows     == <<lexical, vector>>
tasks    == <<lock, flow, op>>
vars     == <<registry, catalog, rows, tasks, reader>>

Largest(S) == CHOOSE x \in S : \A y \in S : y <= x

-----------------------------------------------------------------------------
(* Records and views.                                                      *)

Nothing == [p \in Paths |-> 0]     \* a selection of no revision at all

NoRecord ==
    [state |-> "none", parent |-> Missing, files |-> Nothing,
     changed |-> {}, deleted |-> {}]

NoView == [kind |-> "none", files |-> Nothing, ancestry |-> {}]
LegacyView == [NoView EXCEPT !.kind = "legacy"]

Recorded == {g \in Generations : records[g].state # "none"}

\* scope_has_metadata
HasMetadata ==
    retiredBefore # Missing \/ legacyThrough # Missing \/ Recorded # {}

\* Selection of the record rec of generation g on top of its base.
Extend(g, rec, base) ==
    [kind |-> "files",
     files |-> [p \in Paths |->
                   IF p \in rec.changed THEN g
                   ELSE IF p \in rec.deleted THEN 0
                   ELSE base.files[p]],
     ancestry |-> base.ancestry \cup {g}]

\* The base of a checkpoint: the selection it carries itself.
Root(rec) == [kind |-> "files", files |-> rec.files, ancestry |-> {}]

\* load: over the record files rs, each generation walks from its complete
\* record towards its checkpoint, stopping early at a complete view in c.
Walks(rs, c) ==
    LET Walk[h \in Generations] ==
            LET rec == rs[h]
                base == IF rec.parent = Missing THEN Root(rec)
                        ELSE IF c[rec.parent].kind # "none" THEN c[rec.parent]
                        ELSE Walk[rec.parent]
            IN  IF rec.state = "sealed" /\ base.kind = "files"
                  THEN Extend(h, rec, base) ELSE NoView
    IN Walk

\* ... where each record is one level of depth.
Loaded(c, g) ==
    LET v == Walks(records, c)[g] IN
    IF Cardinality(v.ancestry) <= MaxDepth THEN v ELSE NoView

EmptyCache == [g \in Generations |-> NoView]

\* What a restarted process resolves from the files alone.
Durable(g) == Loaded(EmptyCache, g)

\* The physical revisions a view of generation g selects.
Selected(g, v) ==
    CASE v.kind = "legacy" -> Paths \X {g}
      [] v.kind = "files"  -> {<<p, v.files[p]>> : p \in
                                   {q \in Paths : v.files[q] # 0}}
      [] OTHER             -> {}

-----------------------------------------------------------------------------
(* Leases.                                                                 *)

Lease(g, v) == [generation |-> g, view |-> v]
NoLease == Lease(0, NoView)

\* Every lease alive: readers, sweeps and detached purges.
Leases ==
    ((UNION {flow[w].leases \cup op[w].leases : w \in Workers})
        \cup {reader[r].lease : r \in Readers}) \ {NoLease}

\* Arc::strong_count > 1 of the cached view.
Pinned(g) == Lease(g, cache[g]) \in Leases

\* make_cache_room: the oldest unpinned views go until one more fits.
MakeCacheRoom(c) ==
    LET cached == {g \in Generations : c[g].kind # "none"}
        free   == {g \in cached : ~Pinned(g)}
        excess == Cardinality(cached) - CacheEntries + 1
    IN [g \in Generations |->
           IF g \in free /\ Cardinality({h \in free : h < g}) < excess
             THEN NoView ELSE c[g]]

-----------------------------------------------------------------------------
(* Pinning a view.                                                         *)

\* legacy_permitted: an unpublished or an attested legacy head.
LegacyPermitted(g) == ~managed /\ g = head

\* allow_legacy
AllowLegacy(g) ==
    IF legacyThrough # Missing THEN g <= legacyThrough ELSE ~HasMetadata

\* floor
Floor == IF retiredBefore = Missing THEN 0 ELSE retiredBefore

Joinable(g) == cache[g].kind # "none" /\ Pinned(g)

\* pin_inner's admission of a view that no lease protects.
Admits(g) == g >= Floor /\ head # Missing

\* pin_inner: the view a request for g gets, or NoView; `join` is pin, which
\* may join a leased view, as against pin_fresh.
PinView(g, join) ==
    LET legacy == LegacyPermitted(g) /\ AllowLegacy(g) IN
    CASE join /\ Joinable(g)           -> cache[g]
      [] ~(join /\ Joinable(g)) /\ ~Admits(g) -> NoView
      [] OTHER ->
           IF cache[g].kind = "files" THEN cache[g]
           ELSE IF records[g].state = "none" \/ cache[g].kind = "legacy"
             THEN IF legacy THEN LegacyView ELSE NoView
           ELSE Loaded(MakeCacheRoom(cache), g)

\* ... and the cache it leaves.
PinCache(g, join) ==
    IF cache[g].kind = "none" /\ Admits(g)
      THEN [MakeCacheRoom(cache) EXCEPT ![g] = PinView(g, join)]
      ELSE cache

-----------------------------------------------------------------------------
(* Tasks.                                                                  *)

\* A request as it begins.
Request(pc, kind, base, target, changed, deleted, leases) ==
    [pc |-> pc, kind |-> kind, base |-> base, target |-> target,
     changed |-> changed, deleted |-> deleted, buffered |-> {},
     cancelled |-> FALSE, leases |-> leases]

NoFlow == Request("idle", "update", 0, 0, {}, {}, {})

\* A native write or a publication as it begins, of the newest attempt.
Operation(kind, target, path, leases) ==
    [kind |-> kind, target |-> target, path |-> path, fresh |-> TRUE,
     leases |-> leases]

NoOp == Operation("none", 0, {}, {})

Operations == {w \in Workers : op[w].kind # "none"}

\* Mutant: a detached operation does not keep new flows out.
QuietNever == TRUE

\* The coordinator admits a new flow: no operation is running.
Quiet == Operations = {}

Step(w, pc) == flow' = [flow EXCEPT ![w].pc = pc]

\* The request returns: its lock and its leases go.
End(w) ==
    /\ flow' = [flow EXCEPT ![w] = NoFlow]
    /\ lock' = NoWorker

\* A flow starts a native write or a publication and awaits it.
Launch(w, pc, o) ==
    /\ op[w].kind = "none"
    /\ op' = [op EXCEPT ![w] = o]
    /\ Step(w, pc)

\* The operation ends; if its request still waits, the flow goes on.
Return(w, waiting, pc) ==
    /\ op' = [op EXCEPT ![w] = NoOp]
    /\ flow' = [flow EXCEPT ![w].pc = IF @ = waiting THEN pc ELSE @]

Init ==
    /\ head \in {0, 1}
    /\ managed = FALSE
    /\ sequence = 0
    /\ tokens = {}
    /\ records = [g \in Generations |-> NoRecord]
    /\ legacyThrough = Missing
    /\ retiredBefore = Missing
    /\ cache = EmptyCache
    /\ lexical = [c \in Paths \X Generations |->
                     IF head = 1 /\ c[2] = 1 THEN {"current"} ELSE {}]
    /\ vector = lexical
    /\ lock = NoWorker
    /\ flow = [w \in Workers |-> NoFlow]
    /\ op = [w \in Workers |-> NoOp]
    /\ reader = [r \in Readers |-> [asked |-> Missing, lease |-> NoLease]]
    /\ published = {head}

-----------------------------------------------------------------------------
(* The beginning of a flow: lock, admission, captured head.                *)

\* The lock, the admission and the captured head, all read after the lock.
\* A generation that does not fit u64 is refused (MaxGeneration stands for it).
Begin(w, kind, base, target, changed, deleted) ==
    /\ lock = NoWorker
    /\ flow[w].pc = "idle" /\ op[w].kind = "none"
    /\ Quiet
    /\ target \in Generations
    /\ lock' = w
    /\ flow' = [flow EXCEPT ![w] =
                   Request("begun", kind, base, target, changed, deleted, {})]
    /\ tokens' = tokens \cup {w}
    /\ UNCHANGED <<catalog, rows, op, reader>>

\* update_project_with_scope with a nonempty change set; an unchanged source
\* publishes nothing.
BeginUpdate(w, changed, deleted) ==
    /\ head # Missing
    /\ changed \cap deleted = {} /\ changed \cup deleted # {}
    /\ Begin(w, "update", head, head + 1, changed, deleted)
    /\ UNCHANGED <<head, managed, sequence, published>>

\* index_project and a full repair of a readable head.
BeginFull(w, paths) ==
    /\ head # Missing
    /\ Begin(w, "full", head, head + 1, paths, {})
    /\ UNCHANGED <<head, managed, sequence, published>>

\* source_generation_high_water: catalog memory, catalog files and both stores.
HighWater ==
    Largest({0, Floor, legacyThrough} \cup
        {g \in Generations :
            \/ g \in Recorded \/ cache[g].kind # "none"
            \/ \E p \in Paths :
                  \/ lexical[<<p, g>>] # {} \/ vector[<<p, g>>] # {}
                  \/ \E h \in Generations : <<p, g>> \in Selected(h, cache[h])})

\* Mutant: the registry's own sequence is trusted, not the stores.
RecoveryTargetBySequence == sequence + 1

\* reserve_source_recovery over the observed high water.
RecoveryTarget == Largest({sequence, HighWater}) + 1

\* Full repair of a damaged head: observe, then reserve a fresh generation.
BeginRecovery(w, paths) ==
    /\ head = Missing
    /\ Begin(w, "recovery", HighWater, RecoveryTarget, paths, {})
    /\ sequence' = RecoveryTarget
    /\ UNCHANGED <<head, managed, published>>

-----------------------------------------------------------------------------
(* Staging.                                                                *)

\* ensure_retirement_boundary: does the scope already have authority?
HasAuthority ==
    \/ HasMetadata \/ managed
    \/ \E g \in Generations : cache[g].kind = "files"

\* ensure_retirement_boundary; `full` is an ordinary full rebuild.
EnsureRetirementBoundary(base, full) ==
    /\ retiredBefore = Missing => full \/ ~HasAuthority
    /\ retiredBefore' = IF retiredBefore # Missing THEN retiredBefore
                        ELSE IF HasAuthority THEN base ELSE 0

\* ensure_legacy_boundary, after it; `rebuild` may restore a lost boundary.
EnsureLegacyBoundary(base, rebuild) ==
    LET first == retiredBefore = Missing /\ ~HasAuthority IN
    /\ legacyThrough = Missing => rebuild \/ first
    /\ legacyThrough' = IF legacyThrough # Missing THEN legacyThrough
                        ELSE IF first THEN base ELSE 0

\* A new attempt replaces the record of its generation: rows and running
\* writes of an abandoned attempt at that generation are stale from here on.
NewAttempt(g, rec, kept) ==
    LET aged(r) == [c \in Paths \X Generations |->
                       IF c[2] = g /\ r[c] # {} THEN {"stale"} ELSE r[c]]
    IN
    /\ records' = [records EXCEPT ![g] = rec]
    /\ cache' = [kept EXCEPT ![g] = NoView]
    /\ lexical' = aged(lexical)
    /\ vector' = aged(vector)
    /\ op' = [v \in Workers |-> [op[v] EXCEPT !.fresh = @ /\ op[v].target # g]]

\* Mutant: a long chain is extended instead of starting a new checkpoint.
NeedsCheckpointLegacyOnly(parent) == parent.kind = "legacy"

\* prepare: a legacy base or a full-depth chain starts a new checkpoint.
NeedsCheckpoint(parent) ==
    parent.kind = "legacy" \/ Cardinality(parent.ancestry) >= MaxDepth

\* The files of a legacy generation, as the lexical store knows them.
LegacyFiles(g) == [p \in Paths |-> IF lexical[<<p, g>>] # {} THEN g ELSE 0]

\* prepare_source_snapshot: boundaries, then a pending record.
PrepareUpdate(w) ==
    LET f == flow[w]
        parent == PinView(f.base, TRUE)
        checkpoint == NeedsCheckpoint(parent)
    IN
    /\ f.pc = "begun" /\ f.kind = "update"
    /\ parent.kind # "none"
    /\ EnsureRetirementBoundary(f.base, FALSE)
    /\ EnsureLegacyBoundary(f.base, FALSE)
    /\ ~Joinable(f.target)
    /\ NewAttempt(f.target,
           [state |-> "pending",
            parent |-> IF checkpoint THEN Missing ELSE f.base,
            files |-> CASE ~checkpoint -> Nothing
                        [] checkpoint /\ parent.kind = "legacy" -> LegacyFiles(f.base)
                        [] OTHER -> parent.files,
            changed |-> f.changed, deleted |-> f.deleted],
           PinCache(f.base, TRUE))
    /\ Step(w, "prepared")
    /\ UNCHANGED <<registry, lock, reader>>

FullRecord(paths) ==
    [state |-> "pending", parent |-> Missing, files |-> Nothing,
     changed |-> paths, deleted |-> {}]

\* prepare_full_source_snapshot: no dependence on the old selection.
PrepareFull(w) ==
    LET f == flow[w] IN
    /\ f.pc = "begun" /\ f.kind = "full"
    /\ EnsureRetirementBoundary(f.base, TRUE)
    /\ EnsureLegacyBoundary(f.base, TRUE)
    /\ ~Joinable(f.target)
    /\ NewAttempt(f.target, FullRecord(f.changed), cache)
    /\ Step(w, "prepared")
    /\ UNCHANGED <<registry, lock, reader>>

\* prepare_recovered_source_snapshot: a target nothing ever used, so there is
\* nothing to clear.
PrepareRecovered(w) ==
    LET f == flow[w] IN
    /\ f.pc = "begun" /\ f.kind = "recovery"
    /\ cache[f.target].kind = "none" /\ records[f.target].state = "none"
    /\ EnsureRetirementBoundary(f.base, FALSE)
    /\ EnsureLegacyBoundary(f.base, TRUE)
    /\ NewAttempt(f.target, FullRecord(f.changed), cache)
    /\ Step(w, "writing")
    /\ UNCHANGED <<registry, lock, reader>>

Cleared(r, g) ==
    [c \in Paths \X Generations |-> IF c[2] = g THEN {} ELSE r[c]]

\* clear_staged_source_generation: first the vector rows, as a native write.
ClearVector(w) ==
    /\ flow[w].pc = "prepared"
    /\ Launch(w, "clearing", Operation("clear", flow[w].target, {}, {}))
    /\ UNCHANGED <<registry, catalog, rows, lock, reader>>

FinishClear(w) ==
    /\ op[w].kind = "clear"
    /\ vector' = Cleared(vector, op[w].target)
    /\ Return(w, "clearing", "cleared")
    /\ UNCHANGED <<registry, catalog, lexical, lock, reader>>

\* Mutant: lexical rows of the abandoned attempt are left behind.
ClearLexicalSkipped(w) ==
    /\ flow[w].pc = "cleared"
    /\ Step(w, "writing")
    /\ UNCHANGED <<registry, catalog, rows, lock, op, reader>>

\* ... then the lexical rows.
ClearLexical(w) ==
    /\ flow[w].pc = "cleared"
    /\ lexical' = Cleared(lexical, flow[w].target)
    /\ Step(w, "writing")
    /\ UNCHANGED <<registry, catalog, vector, lock, op, reader>>

\* The lexical rows once the writer of w has committed what it buffers.
Flushed(w, paths) ==
    [c \in Paths \X Generations |->
        IF c[1] \in paths /\ c[2] = flow[w].target
          THEN lexical[c] \cup {"current"} ELSE lexical[c]]

\* index_files for one batch: its rows go to the bulk writer, which may commit
\* (maybe_commit), and then to the vector store as a native write.
WriteFile(w, p) ==
    LET f == flow[w] IN
    /\ f.pc = "writing" /\ p \in f.changed /\ ~f.cancelled
    /\ op[w].kind = "none"
    /\ op' = [op EXCEPT ![w] = Operation("write", f.target, {p}, {})]
    /\ \E commit \in BOOLEAN :
        /\ lexical' = IF commit THEN Flushed(w, f.buffered \cup {p}) ELSE lexical
        /\ flow' = [flow EXCEPT
               ![w].pc = "embedding",
               ![w].buffered = IF commit THEN {} ELSE @ \cup {p}]
    /\ UNCHANGED <<registry, catalog, vector, lock, reader>>

FinishWrite(w) ==
    LET o == op[w] IN
    /\ o.kind = "write"
    /\ vector' = [c \in Paths \X Generations |->
                     IF c[1] \in o.path /\ c[2] = o.target
                       THEN vector[c] \cup {IF o.fresh THEN "current" ELSE "stale"}
                       ELSE vector[c]]
    /\ op' = [op EXCEPT ![w] = NoOp]
    /\ flow' = IF flow[w].pc = "embedding"
                 THEN [flow EXCEPT ![w].pc = "writing", ![w].changed = @ \ o.path]
                 ELSE flow
    /\ UNCHANGED <<registry, catalog, lexical, lock, reader>>

\* The caller's cancellation token fires during ingestion.
CancelToken(w) ==
    /\ flow[w].pc \in {"writing", "embedding"}
    /\ ~flow[w].cancelled
    /\ flow' = [flow EXCEPT ![w].cancelled = TRUE]
    /\ UNCHANGED <<registry, catalog, rows, lock, op, reader>>

\* The end of index_files, which returns normally when it was cancelled: the
\* remaining batches are skipped and the bulk writer finishes.
FinishIndexing(w) ==
    LET f == flow[w] IN
    /\ f.pc = "writing"
    /\ f.changed = {} \/ f.cancelled
    /\ lexical' = Flushed(w, f.buffered)
    /\ flow' = [flow EXCEPT ![w].pc = "indexed", ![w].buffered = {}]
    /\ UNCHANGED <<registry, catalog, vector, lock, op, reader>>

\* Drop of the BulkWriterGuard of an ending request commits, if it can.
DropWriter(w) == lexical' \in {lexical, Flushed(w, flow[w].buffered)}

\* A native write fails; the awaiting request fails with it.
FailOperation(w) ==
    /\ op[w].kind \in {"clear", "write", "purge"}
    /\ op' = [op EXCEPT ![w] = NoOp]
    /\ tokens' = tokens \ {w}
    /\ IF flow[w].pc # "idle" THEN End(w) /\ DropWriter(w)
                              ELSE UNCHANGED <<flow, lock, lexical>>
    /\ UNCHANGED <<head, managed, sequence, published, catalog, vector, reader>>

-----------------------------------------------------------------------------
(* Sealing and publication.                                                *)

\* The candidate's selection, resolved from durable parents only.
Verified(g) ==
    LET rec == records[g] IN
    IF rec.parent = Missing THEN Extend(g, rec, Root(rec))
    ELSE IF Durable(rec.parent).kind = "files"
      THEN Extend(g, rec, Durable(rec.parent)) ELSE NoView

\* The checks of seal on candidate g with cache c: both boundaries are durable
\* and older than g, its chain resolves within the depth limit, and no cached
\* view of the chain differs from its file.
Sealable(g, c) ==
    LET v == Verified(g) IN
    /\ legacyThrough # Missing /\ legacyThrough < g
    /\ retiredBefore # Missing /\ retiredBefore <= g
    /\ records[g].state # "none"
    /\ v.kind = "files" /\ Cardinality(v.ancestry) <= MaxDepth
    /\ \A h \in v.ancestry :
        c[h].kind # "none" =>
            /\ c[h].kind = "files"
            /\ c[h].files = IF h = g THEN v.files ELSE Durable(h).files

\* seal: nothing in memory vouches for the durable chain.
Seal(w) ==
    LET g == flow[w].target
        c == IF cache[g].kind = "none" THEN MakeCacheRoom(cache) ELSE cache
    IN
    /\ flow[w].pc = "indexed" /\ ~flow[w].cancelled
    /\ Sealable(g, c)
    /\ records' = [records EXCEPT ![g].state = "sealed"]
    /\ cache' = [c EXCEPT ![g] = Verified(g)]
    /\ Step(w, "sealed")
    /\ UNCHANGED <<registry, legacyThrough, retiredBefore, rows, lock, op, reader>>

\* begin_operation for the publication, run on a blocking thread.
StartPublish(w) ==
    /\ flow[w].pc = "sealed"
    /\ Launch(w, "publishing", Operation("publish", flow[w].target, {}, {}))
    /\ UNCHANGED <<registry, catalog, rows, lock, reader>>

\* publish_source_head or publish_source_recovery, whether or not the request
\* still waits; only an update goes on to purge.
FinishPublish(w) ==
    LET g == op[w].target
        waits == flow[w].pc = "publishing"
    IN
    /\ op[w].kind = "publish"
    /\ op' = [op EXCEPT ![w] = NoOp]
    /\ IF w \in tokens
         THEN /\ head' = g /\ managed' = TRUE /\ tokens' = {}
              /\ published' = published \cup {g}
         ELSE UNCHANGED <<head, managed, tokens, published>>
    /\ IF waits /\ w \in tokens /\ flow[w].kind = "update"
         THEN Step(w, "published") /\ UNCHANGED lock
       ELSE IF waits THEN End(w)
       ELSE UNCHANGED <<flow, lock>>
    /\ UNCHANGED <<sequence, catalog, rows, reader>>

-----------------------------------------------------------------------------
(* Collection.                                                             *)

\* purge_project_old_gens up to its purge: never waits for the lock, reads the
\* head under it, and pins the view it will retain.
BeginSweep(w) ==
    LET v == PinView(head, FALSE) IN
    /\ lock = NoWorker
    /\ flow[w].pc = "idle" /\ op[w].kind = "none"
    /\ head # Missing /\ managed
    /\ v.kind = "files"
    /\ cache' = PinCache(head, FALSE)
    /\ lock' = w
    /\ flow' = [flow EXCEPT ![w] =
           Request("collecting", "sweep", head, head, {}, {}, {Lease(head, v)})]
    /\ UNCHANGED <<registry, records, legacyThrough, retiredBefore, rows, op,
                   reader>>

\* An update collects inside its admission; a sweep needs one now.
MayCollect(w) ==
    \/ flow[w].pc = "published"
    \/ flow[w].pc = "collecting" /\ Quiet

\* Mutant: leases of superseded views are not honoured.
ProtectedActiveOnly(g, c) == {Lease(g, c[g])}

\* protect_for_gc: the active view and every other leased one.
Protected(g, c) ==
    {Lease(g, c[g])} \cup {Lease(h, c[h]) : h \in
                              {k \in Generations : c[k].kind # "none" /\ Pinned(k)}}

\* prune_metadata: records older than the active one and not its ancestors.
Prunable(g, v) == {h \in Recorded : h < g /\ h \notin v.ancestry}

\* protect_for_gc moves the retirement boundary and drops unleased old views;
\* `pruned` are the records whose files it has removed when it returns or fails.
Retire(w, pruned) ==
    LET g == flow[w].target
        c == PinCache(g, TRUE)
    IN
    /\ MayCollect(w)
    /\ PinView(g, TRUE).kind # "none"
    /\ g >= Floor
    /\ retiredBefore' = g
    /\ cache' = [h \in Generations |->
                    IF h >= g \/ Pinned(h) THEN c[h] ELSE NoView]
    /\ records' = [h \in Generations |->
                      IF h \in pruned THEN NoRecord ELSE records[h]]

Protect(w) ==
    LET g == flow[w].target
        c == PinCache(g, TRUE)
    IN
    /\ Retire(w, Prunable(g, c[g]))
    /\ flow' = [flow EXCEPT ![w].pc = "protected",
                            ![w].leases = @ \cup Protected(g, c)]
    /\ UNCHANGED <<registry, legacyThrough, rows, lock, op, reader>>

\* prune_metadata fails part of the way; the purge is owed to a later sweep.
FailProtect(w) ==
    /\ \E pruned \in SUBSET Prunable(flow[w].target, PinView(flow[w].target, TRUE)) :
           Retire(w, pruned)
    /\ End(w)
    /\ UNCHANGED <<registry, legacyThrough, rows, op, reader>>

\* Rows older than g that no retained view selects are deleted.
Purged(r, g, leases) ==
    LET keep == UNION {Selected(l.generation, l.view) : l \in leases} IN
    [c \in Paths \X Generations |->
        IF c[2] < g /\ c \notin keep THEN {} ELSE r[c]]

\* purge_old_generations: the lexical commit, then the native purge, which
\* keeps the leases if the request is cancelled.
PurgeLexical(w) ==
    LET f == flow[w] IN
    /\ f.pc = "protected"
    /\ lexical' = Purged(lexical, f.target, f.leases)
    /\ Launch(w, "purging", Operation("purge", f.target, {}, f.leases))
    /\ UNCHANGED <<registry, catalog, vector, lock, reader>>

FinishPurge(w) ==
    /\ op[w].kind = "purge"
    /\ vector' = Purged(vector, op[w].target, op[w].leases)
    /\ op' = [op EXCEPT ![w] = NoOp]
    /\ IF flow[w].pc = "purging" THEN End(w) ELSE UNCHANGED <<flow, lock>>
    /\ UNCHANGED <<registry, catalog, lexical, reader>>

-----------------------------------------------------------------------------
(* Readers.                                                                *)

\* A request reads the published generation ...
ReadHead(r) ==
    /\ reader[r].asked = Missing /\ reader[r].lease = NoLease
    /\ head # Missing
    /\ reader' = [reader EXCEPT ![r].asked = head]
    /\ UNCHANGED <<registry, catalog, rows, tasks>>

\* ... and, later, pins it (pin_source_generation); a stale one is refused.
PinSource(r) ==
    LET g == reader[r].asked
        v == PinView(g, FALSE)
    IN
    /\ g # Missing
    /\ cache' = PinCache(g, FALSE)
    /\ reader' = [reader EXCEPT ![r] =
           [asked |-> Missing,
            lease |-> IF v.kind = "none" THEN NoLease ELSE Lease(g, v)]]
    /\ UNCHANGED <<registry, records, legacyThrough, retiredBefore, rows, tasks>>

\* The request ends: its SourceSnapshotGuard is dropped.
Release(r) ==
    /\ reader[r].lease # NoLease
    /\ reader' = [reader EXCEPT ![r].lease = NoLease]
    /\ UNCHANGED <<registry, catalog, rows, tasks>>

-----------------------------------------------------------------------------
(* Cancellation, crashes and the rest of the world.                        *)

\* The request fails or its future is dropped; its operation runs on.
Cancel(w) ==
    /\ flow[w].pc # "idle"
    /\ End(w)
    /\ DropWriter(w)
    /\ tokens' = IF op[w].kind = "publish" THEN tokens ELSE tokens \ {w}
    /\ UNCHANGED <<head, managed, sequence, published, catalog, vector, op, reader>>

\* The registry's version moves: the project was retargeted or rewritten.
Retarget ==
    /\ tokens # {}
    /\ tokens' = {}
    /\ UNCHANGED <<head, managed, sequence, published, catalog, rows, tasks, reader>>

\* The stored head of a published source is damaged from outside.
DamageHead ==
    /\ managed /\ head # Missing
    /\ head' = Missing
    /\ tokens' = {}
    /\ UNCHANGED <<managed, sequence, published, catalog, rows, tasks, reader>>

LoseMemory ==
    /\ tokens' = {}
    /\ cache' = EmptyCache
    /\ lock' = NoWorker
    /\ flow' = [w \in Workers |-> NoFlow]
    /\ op' = [w \in Workers |-> NoOp]
    /\ reader' = [r \in Readers |-> [asked |-> Missing, lease |-> NoLease]]

\* The process dies between two durable writes.
Crash ==
    /\ LoseMemory
    /\ UNCHANGED <<head, managed, sequence, published, records, legacyThrough,
                   retiredBefore, rows>>

\* The process dies inside the first preparation, after one of its boundary
\* files, or both, and before the record.
CrashInFirstPreparation(w) ==
    /\ flow[w].pc = "begun"
    /\ ~HasAuthority
    /\ retiredBefore' = 0
    /\ legacyThrough' \in {Missing, flow[w].base}
    /\ LoseMemory
    /\ UNCHANGED <<head, managed, sequence, published, records, rows>>

-----------------------------------------------------------------------------
FlowStep(w) ==
    \/ PrepareUpdate(w) \/ PrepareFull(w) \/ PrepareRecovered(w)
    \/ ClearVector(w) \/ ClearLexical(w)
    \/ \E p \in Paths : WriteFile(w, p)
    \/ CancelToken(w) \/ FinishIndexing(w)
    \/ Seal(w) \/ StartPublish(w)
    \/ Protect(w) \/ PurgeLexical(w)

OperationStep(w) ==
    \/ FinishClear(w) \/ FinishWrite(w) \/ FinishPublish(w) \/ FinishPurge(w)
    \/ FailOperation(w)

BeginStep(w) ==
    \/ \E c, d \in SUBSET Paths : BeginUpdate(w, c, d)
    \/ \E c \in SUBSET Paths : BeginFull(w, c) \/ BeginRecovery(w, c)
    \/ BeginSweep(w)

ReaderStep(r) == ReadHead(r) \/ PinSource(r) \/ Release(r)

Next ==
    \/ \E w \in Workers :
        \/ BeginStep(w) \/ FlowStep(w) \/ OperationStep(w)
        \/ Cancel(w) \/ FailProtect(w) \/ CrashInFirstPreparation(w)
    \/ \E r \in Readers : ReaderStep(r)
    \/ Retarget \/ DamageHead \/ Crash

Spec == Init /\ [][Next]_vars

-----------------------------------------------------------------------------
(* Properties.                                                             *)

\* Complete and of one attempt in both stores.
Intact(cells) ==
    \A c \in cells : lexical[c] = {"current"} /\ vector[c] = {"current"}

\* Whatever is staged, purged, cancelled or detached meanwhile, a reader finds
\* every row of the view it holds, in both stores (generation 0 is the empty
\* view of an unpublished source).
LeasedRowsIntact ==
    \A r \in Readers :
        LET l == reader[r].lease IN
        l.generation # 0 => Intact(Selected(l.generation, l.view))

\* A published head survives a crash at any point: its chain resolves from the
\* files alone, and its rows are complete and of the published attempt.
PublishedIsRecoverable ==
    managed /\ head # Missing =>
        /\ head >= Floor
        /\ Durable(head).kind = "files"
        /\ Intact(Selected(head, Durable(head)))

\* Collection, staging, purging, crashes and detached writes never take a row
\* from a view a reader holds or from the head a restart recovers.
SourceIsReadable == LeasedRowsIntact /\ PublishedIsRecoverable

\* Whatever was swept, cancelled or lost in a crash before, seal's checks of
\* the durable chain never refuse an attempt that was staged and completed.
StagedCanBeSealed ==
    \A w \in Workers :
        flow[w].pc \in {"writing", "indexed"} =>
            Sealable(flow[w].target, MakeCacheRoom(cache))

\* A generation that was ever published is never staged again, neither by a
\* retry nor by the recovery of a damaged head.
PublishedNeverRestaged ==
    [][\A g \in Generations :
           records'[g].state = "pending" /\ records[g].state # "pending"
               => g \notin published]_vars

\* At most one flow works on the project, and an operation of a cancelled
\* flow never runs beside one that writes.
WritersAreSerialized ==
    /\ \A v, w \in Operations : v = w
    /\ \A v \in Operations, w \in Workers :
           flow[w].pc \notin {"idle", "collecting"} => v = w
=============================================================================
