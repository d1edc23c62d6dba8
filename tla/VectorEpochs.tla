---------------------------- MODULE VectorEpochs ----------------------------
(***************************************************************************)
(* The vector table of a project and the file that names it                *)
(* (engram_index, hybrid/vector_epochs.rs, vector_initialization.rs,       *)
(* vector_reads.rs, vector_history/native.rs).  A durable route record     *)
(* selects the table; a receipt per owned table proves that this program   *)
(* made it; a process caches the route.  A rebuild embeds every stored     *)
(* document into a staging table and publishes a route to it, retiring the *)
(* old table, which collection drops once no reader holds it.  The first   *)
(* writer of an empty project bootstraps the canonical table.              *)
(*                                                                         *)
(* One project.  A crash keeps the files and tables and loses the rest.    *)
(* Rebuild, collection and pruning hold the coordinator's exclusive permit *)
(* (Coordinator), so one of them runs at a time.                           *)
(***************************************************************************)
EXTENDS Naturals, FiniteSets

CONSTANTS
    Docs, Models,
    Readers, Writers,
    NoModel,       \* no embedder: the query cannot use vectors
    NoRoute,       \* no route record
    Unloaded,      \* the process has not read the route
    Settings,      \* what a behaviour may contain, see setting
    MaxRetired,    \* retired tables a route may list (64 in the code)
    MaxCrashes     \* bound: crashes

\* A table this program made: the canonical one of the project or a stage, the
\* token drawn for it and the embedding model whose vectors it holds.  A route
\* record names such tables only.
Owned   == [kind : {"canonical", "stage"}, token : Nat \ {0}, model : Models]
Records == [table : Owned, retired : SUBSET Owned]
Views   == [record : Records \cup {NoRoute}, query : Models \cup {NoModel}]

ASSUME EpochsAssumption ==
    /\ NoModel \notin Models /\ NoModel \notin Writers
    /\ NoRoute \notin Records /\ NoRoute \notin Owned /\ Unloaded \notin Views
    /\ {MaxRetired, MaxCrashes} \subseteq Nat
    /\ \A s \in Settings :
          /\ s.readers \subseteq Readers /\ s.writers \subseteq Writers
          /\ s.docs \subseteq Docs /\ s.models \subseteq Models
          /\ s.work \subseteq {"initialize", "recover", "collect", "prune"}
          /\ s.kinds \subseteq {"vector", "lexical"}

VARIABLES
    setting,    \* who takes part, and the bounds: [readers, writers, docs, models,
                \* work: exclusive work ("initialize", "recover", "collect", "prune"),
                \* kinds: of writers ("vector", "lexical"), old: what an earlier
                \* version left ("none", "lexical", "legacy"), tables: made,
                \* errors: of the file system or of the native store]
    route,      \* file: [table, retired] or NoRoute
    pending,    \* file: the bootstrap intent, a table or NoRoute
    receipts,   \* files: the tables with an ownership receipt
    tables,     \* native store: the tables present
    rows,       \* native store: <<table, doc, model of the vector>>
    docs,       \* lexical index: the documents stored
    made,       \* counter: creation tokens drawn
    cache,      \* Routes.current: [record, query] or Unloaded
    pruning,    \* LeaseState.pruning
    unproven,   \* LeaseState.unproven
    phase,      \* Coordinator: "ready", "exclusive", "uncertain"
    marked,     \* Routes.publication names the project
    reader,     \* per reader: [pc, table, query]
    writer,     \* per writer: [pc, kind, model, doc, table]
    boot,       \* the bootstrap worker, which owns Routes.bootstrap: [pc, for, model, table]
    excl,       \* the holder of the exclusive permit
    crashes, errors   \* counters for the bounds

files    == <<route, pending, receipts>>
store    == <<tables, rows, docs>>
leases   == <<pruning, unproven, reader>>
gate     == <<phase, marked>>
bounds   == <<crashes, errors>>
vars     == <<files, store, made, cache, leases, gate, writer, boot, excl, bounds>>

\* The canonical table an earlier version left, without token or receipt.
Legacy   == [kind |-> "canonical", token |-> 0, model |-> NoModel]

NoReader == [pc |-> "idle", table |-> Legacy, query |-> NoModel]
NoWriter == [pc |-> "idle", kind |-> "vector", model |-> NoModel, doc |-> NoModel, table |-> Legacy]
NoBoot   == [pc |-> "none", for |-> NoModel, model |-> NoModel, table |-> Legacy]
NoExcl   == [pc |-> "none", kind |-> "none", model |-> NoModel, prev |-> NoRoute,
             table |-> Legacy, todo |-> {}, possible |-> FALSE]

TableOf(record) == IF record = NoRoute THEN Legacy ELSE record.table
Retired(record) == IF record = NoRoute THEN {} ELSE record.retired
CanonicalExists == \E t \in tables : t.kind = "canonical"

\* Coordinator's counters: every writer and every detached worker is a mutation.
Mutations  == {w \in Writers : writer[w].pc # "idle"}
Operations == boot.pc \notin {"none", "lexical"} \/ \E w \in Writers : writer[w].pc \in {"native", "detached"}
\* The commit lane, kept by a detached native write.
LaneFree   == \A w \in Writers : writer[w].pc \in {"idle", "admitted"}
MutexFree  == boot.pc = "none"

(***************************************************************************)
(* Pinning and reading.                                                    *)
(***************************************************************************)
\* data_locked: a project without a route whose bootstrap never finished.
Refused(record) == record = NoRoute /\ pending # NoRoute

Seen == IF cache = Unloaded THEN route ELSE cache.record

\* Mutated: the engine's own embedder is attached whatever the table holds.
ViewAny(m) == [record |-> Seen, query |-> m]

\* data_locked: what an engine with model m finds and leaves in the cache.
View(m) ==
    [record |-> Seen,
     query  |-> IF Seen # NoRoute /\ Seen.table.model = m THEN m
                ELSE IF cache = Unloaded THEN NoModel ELSE cache.query]

\* Routes.pin for a search by an engine with model m.
Pin(r, m) ==
    /\ reader[r].pc = "idle" /\ ~Refused(Seen) /\ ~pruning
    /\ cache' = View(m)
    /\ reader' = [reader EXCEPT ![r] =
                    [pc |-> "pinned", table |-> TableOf(Seen), query |-> View(m).query]]
    /\ UNCHANGED <<files, store, made, pruning, unproven, gate, writer, boot, excl, bounds>>

\* The native read starts in a task of its own, which keeps the pin when the
\* request goes away; a query without an embedder reads no vectors.
StartRead(r) ==
    /\ reader[r].pc = "pinned" /\ reader[r].query # NoModel
    /\ reader[r].table \in tables /\ reader[r].table \in receipts
    /\ reader' = [reader EXCEPT ![r].pc = "reading"]
    /\ UNCHANGED <<files, store, made, cache, pruning, unproven, gate, writer, boot, excl, bounds>>

EndRead(r) ==
    /\ reader[r].pc \in {"pinned", "reading", "lingering"}
    /\ reader' = [reader EXCEPT ![r] = NoReader]
    /\ UNCHANGED <<files, store, made, cache, pruning, unproven, gate, writer, boot, excl, bounds>>

\* The read fails: Completion::drop notes that its native work may go on, and
\* then the pin is dropped.
FailRead(r) ==
    /\ reader[r].pc = "reading" /\ errors < setting.errors
    /\ unproven' = TRUE
    /\ reader' = [reader EXCEPT ![r].pc = "lingering"]
    /\ errors' = errors + 1
    /\ UNCHANGED <<files, store, made, cache, pruning, gate, writer, boot, excl, crashes>>

\* The lease of a table is held by pinned readers and by the rebuild's own pin.
Held(t) ==
    \/ \E r \in Readers : reader[r].pc \in {"pinned", "reading"} /\ reader[r].table = t
    \/ excl.pc # "none" /\ excl.prev # NoRoute /\ excl.prev.table = t

(***************************************************************************)
(* Ordinary writers and the bootstrap of the canonical table.              *)
(***************************************************************************)
\* begin_mutation of index_docs or of a bulk writer.
Admit(w, kind, m, d) ==
    /\ writer[w].pc = "idle" /\ phase = "ready" /\ ~Operations /\ d \notin docs
    /\ writer' = [writer EXCEPT ![w] =
                    [pc |-> "admitted", kind |-> kind, model |-> m, doc |-> d, table |-> Legacy]]
    /\ UNCHANGED <<files, store, made, cache, leases, gate, boot, excl, bounds>>

TakeLane(w) ==
    /\ writer[w].pc = "admitted" /\ LaneFree
    /\ writer' = [writer EXCEPT ![w].pc = "lane"]
    /\ UNCHANGED <<files, store, made, cache, leases, gate, boot, excl, bounds>>

\* Mutated: it does not take the mutex.
TakeMutexNot(w) ==
    /\ writer[w].pc = "lane" /\ writer[w].kind = "lexical"
    /\ writer' = [writer EXCEPT ![w].pc = "ready"]
    /\ UNCHANGED <<files, store, made, cache, leases, gate, boot, excl, bounds>>

\* lexical_only: an engine without vectors keeps bootstraps out while it writes.
TakeMutex(w) ==
    /\ writer[w].pc = "lane" /\ writer[w].kind = "lexical" /\ MutexFree
    /\ boot' = [NoBoot EXCEPT !.pc = "lexical", !.for = w]
    /\ writer' = [writer EXCEPT ![w].pc = "ready"]
    /\ UNCHANGED <<files, store, made, cache, leases, gate, excl, bounds>>

\* vector_write_table before the documents are written: the engine's model must
\* be the route's; without a route the store must be untouched.
Preflight(w) ==
    LET n == writer[w] IN
    /\ n.pc = "lane" /\ n.kind = "vector"
    /\ ~Refused(Seen)
    /\ IF Seen # NoRoute
       THEN Seen.table.model = n.model /\ Seen.table \in tables /\ Seen.table \in receipts
       ELSE docs = {} /\ ~CanonicalExists
    /\ cache' = View(n.model)
    /\ writer' = [writer EXCEPT ![w].pc = IF Seen = NoRoute THEN "mutex" ELSE "ready"]
    /\ UNCHANGED <<files, store, made, leases, gate, boot, excl, bounds>>

\* The worker owns the mutex and an operation permit from here to the end.
StartBootstrap(w) ==
    /\ writer[w].pc = "mutex" /\ MutexFree /\ made < setting.tables
    /\ boot' = [NoBoot EXCEPT !.pc = "start", !.for = w, !.model = writer[w].model]
    /\ writer' = [writer EXCEPT ![w].pc = "wait"]
    /\ UNCHANGED <<files, store, made, cache, leases, gate, excl, bounds>>

\* How the worker ends: its writer goes on or gives up, if it is still there.
Report(pc) ==
    IF boot.for \in Writers
    THEN [writer EXCEPT ![boot.for] = IF pc = "idle" THEN NoWriter ELSE [@ EXCEPT !.pc = pc]]
    ELSE writer

\* bootstrap_vector_table: with the mutex, the route and the emptiness are
\* looked at again, and the receipt is written.
Bootstrap ==
    /\ boot.pc = "start"
    /\ LET t == [kind |-> "canonical", token |-> made + 1, model |-> boot.model] IN
          /\ Seen = NoRoute /\ ~Refused(Seen) /\ docs = {} /\ ~CanonicalExists
          /\ made' = made + 1
          /\ receipts' = receipts \cup {t}
          /\ boot' = [boot EXCEPT !.pc = "receipt", !.table = t]
    /\ UNCHANGED <<route, pending, store, cache, leases, gate, writer, excl, bounds>>

\* Another worker got there first, or something appeared meanwhile.
BootstrapNot ==
    /\ boot.pc = "start"
    /\ \/ Seen # NoRoute /\ Seen.table.model = boot.model /\ writer' = Report("ready")
       \/ Refused(Seen) /\ writer' = Report("idle")
       \/ Seen # NoRoute /\ Seen.table.model # boot.model /\ writer' = Report("idle")
       \/ Seen = NoRoute /\ (docs # {} \/ CanonicalExists) /\ writer' = Report("idle")
    /\ boot' = NoBoot
    /\ UNCHANGED <<files, store, made, cache, leases, gate, excl, bounds>>

\* Mutated: the route itself is written first.
BootstrapIntentRouted ==
    /\ boot.pc = "receipt"
    /\ route' = [table |-> boot.table, retired |-> {}]
    /\ pending' = boot.table
    /\ boot' = [boot EXCEPT !.pc = "intent"]
    /\ UNCHANGED <<receipts, store, made, cache, leases, gate, writer, excl, bounds>>

BootstrapIntent ==
    /\ boot.pc = "receipt"
    /\ pending' = boot.table
    /\ boot' = [boot EXCEPT !.pc = "intent"]
    /\ UNCHANGED <<route, receipts, store, made, cache, leases, gate, writer, excl, bounds>>

BootstrapCreate ==
    /\ boot.pc = "intent"
    /\ tables' = tables \cup {boot.table}
    /\ boot' = [boot EXCEPT !.pc = "created"]
    /\ UNCHANGED <<files, rows, docs, made, cache, leases, gate, writer, excl, bounds>>

\* The native creation fails, before or after the table appeared:
\* discard_absent_bootstrap withdraws the intent and the receipt only when the
\* table is known to be absent.
BootstrapFail ==
    /\ boot.pc \in {"intent", "created"} /\ errors < setting.errors
    /\ errors' = errors + 1
    /\ IF CanonicalExists \/ route # NoRoute
       THEN UNCHANGED <<pending, receipts>>
       ELSE pending' = NoRoute /\ receipts' = receipts \ {boot.table}
    /\ writer' = Report("idle")
    /\ boot' = NoBoot
    /\ UNCHANGED <<route, store, made, cache, leases, gate, excl, crashes>>

\* Routes.publish: the record replaces the file and then the cached view.  An
\* error leaves the old file, or the new one without the cached view.
Persisted(record, m) == route' = record /\ cache' = [record |-> record, query |-> m]
NotPersisted(record) == errors < setting.errors /\ errors' = errors + 1 /\ route' \in {route, record} /\ UNCHANGED cache

BootstrapPublish ==
    LET record == [table |-> boot.table, retired |-> {}] IN
    /\ boot.pc = "created" /\ boot.table \in receipts
    /\ \/ /\ Persisted(record, boot.model)
          /\ boot' = [boot EXCEPT !.pc = "published"]
          /\ UNCHANGED <<writer, errors>>
       \/ /\ NotPersisted(record)
          /\ boot' = NoBoot /\ writer' = Report("idle")
    /\ UNCHANGED <<pending, receipts, store, made, leases, gate, excl, crashes>>

BootstrapEnd ==
    /\ boot.pc = "published"
    /\ pending' = NoRoute
    /\ boot' = NoBoot
    /\ writer' = Report("ready")
    /\ UNCHANGED <<route, receipts, store, made, cache, leases, gate, excl, bounds>>

\* The Tantivy commit; a lexical-only writer is done with it.
CommitLexical(w) ==
    /\ writer[w].pc = "ready"
    /\ docs' = docs \cup {writer[w].doc}
    /\ IF writer[w].kind = "lexical"
       THEN boot' = (IF boot.pc = "lexical" THEN NoBoot ELSE boot) /\ writer' = [writer EXCEPT ![w] = NoWriter]
       ELSE writer' = [writer EXCEPT ![w].pc = "stored"] /\ UNCHANGED boot
    /\ UNCHANGED <<files, tables, rows, made, cache, leases, gate, excl, bounds>>

\* vector_write_table again, now for the handle the vectors are written through;
\* the pin it took is gone when it returns.
OpenTable(w) ==
    /\ writer[w].pc = "stored" /\ ~Refused(Seen)
    /\ Seen # NoRoute /\ Seen.table.model = writer[w].model
    /\ Seen.table \in tables /\ Seen.table \in receipts
    /\ cache' = View(writer[w].model)
    /\ writer' = [writer EXCEPT ![w].pc = "open", ![w].table = Seen.table]
    /\ UNCHANGED <<files, store, made, leases, gate, boot, excl, bounds>>

\* The native upsert runs in its own worker with the lane and an operation permit.
StartUpsert(w) ==
    /\ writer[w].pc = "open"
    /\ writer' = [writer EXCEPT ![w].pc = "native"]
    /\ UNCHANGED <<files, store, made, cache, leases, gate, boot, excl, bounds>>

Upsert(w) ==
    /\ writer[w].pc \in {"native", "detached"}
    /\ rows' = rows \cup {<<writer[w].table, writer[w].doc, writer[w].model>>}
    /\ writer' = [writer EXCEPT ![w] = NoWriter]
    /\ UNCHANGED <<files, tables, docs, made, cache, leases, gate, boot, excl, bounds>>

\* A refused, failed or cancelled writer goes away; workers it started go on,
\* and a bootstrap it waits for goes on without the lane.
Leave(w) ==
    /\ writer[w].pc \notin {"idle", "detached"}
    /\ writer' = [writer EXCEPT ![w] =
                    IF @.pc = "native" THEN [@ EXCEPT !.pc = "detached"] ELSE NoWriter]
    /\ boot' = IF boot.for # w THEN boot
               ELSE IF boot.pc = "lexical" THEN NoBoot ELSE [boot EXCEPT !.for = NoModel]
    /\ UNCHANGED <<files, store, made, cache, leases, gate, excl, bounds>>

(***************************************************************************)
(* Exclusive work.                                                         *)
(***************************************************************************)
\* try_recovery
Reserve(kind) == phase = "ready" /\ Mutations = {} /\ ~Operations

\* reserve_recovery: an uncertain root is reopened by the project that left it so.
Resume(kind) ==
    /\ kind \in {"initialize", "recover"} /\ phase = "uncertain" /\ marked
    /\ Mutations = {} /\ ~Operations

\* rebuild_vectors pins the durable route; collection and pruning read it.
Begin(kind, m) ==
    /\ Reserve(kind) \/ Resume(kind)
    /\ kind \in {"initialize", "recover"} => made < setting.tables
    /\ phase' = "exclusive"
    /\ excl' = [NoExcl EXCEPT !.pc = kind, !.kind = kind, !.model = m,
                              !.prev = IF kind \in {"initialize", "recover"} THEN route ELSE NoRoute,
                              !.todo = IF kind = "collect" THEN Retired(route) ELSE {},
                              !.possible = phase = "uncertain"]
    /\ UNCHANGED <<files, store, made, cache, leases, marked, writer, boot, bounds>>

\* RecoveryPermit::drop
Released ==
    /\ phase' = IF excl.possible THEN "uncertain" ELSE "ready"
    /\ excl' = NoExcl
    /\ UNCHANGED marked

\* finish_activation
Activated == phase' = "ready" /\ marked' = FALSE /\ excl' = NoExcl

\* Early returns of rebuild_vectors: too many retired tables, an initialization of
\* a store that exists or is empty, an unfinished stage.
Unfinished ==
    \E t \in tables : t.kind = "stage" /\ t # TableOf(excl.prev) /\ t \notin Retired(excl.prev)
MayBuild ==
    /\ Cardinality(Retired(excl.prev)) < MaxRetired
    /\ excl.kind = "initialize" => ~CanonicalExists /\ excl.prev = NoRoute /\ docs # {}
    /\ ~Unfinished
RefuseBuild ==
    /\ excl.pc \in {"initialize", "recover"} /\ ~MayBuild
    /\ Released
    /\ UNCHANGED <<files, store, made, cache, leases, writer, boot, bounds>>

StageReceipt ==
    /\ excl.pc \in {"initialize", "recover"} /\ MayBuild
    /\ LET t == [kind |-> "stage", token |-> made + 1, model |-> excl.model] IN
          /\ receipts' = receipts \cup {t}
          /\ excl' = [excl EXCEPT !.pc = "receipt", !.table = t]
    /\ made' = made + 1
    /\ UNCHANGED <<route, pending, store, cache, leases, gate, writer, boot, bounds>>

StageCreate ==
    /\ excl.pc = "receipt"
    /\ tables' = tables \cup {excl.table}
    /\ excl' = [excl EXCEPT !.pc = "created"]
    /\ UNCHANGED <<files, rows, docs, made, cache, leases, gate, writer, boot, bounds>>

\* The creation fails; what it made is not the rebuild's to clean up.
StageFail ==
    /\ excl.pc = "receipt" /\ errors < setting.errors
    /\ errors' = errors + 1
    /\ tables' \in {tables, tables \cup {excl.table}}
    /\ Released
    /\ UNCHANGED <<files, rows, docs, made, cache, leases, writer, boot, crashes>>

\* scan_retained_vectors: every stored document is embedded; the counts agree.
Scan ==
    /\ excl.pc = "created"
    /\ rows' = rows \cup {<<excl.table, d, excl.model>> : d \in docs}
    /\ excl' = [excl EXCEPT !.pc = "scanned"]
    /\ UNCHANGED <<files, tables, docs, made, cache, leases, gate, writer, boot, bounds>>

\* Cancelled, or the embedder fails: the stage is dropped.
Cancelled ==
    /\ excl.pc \in {"created", "scanned"}
    /\ excl' = [excl EXCEPT !.pc = "drop"]
    /\ UNCHANGED <<files, store, made, cache, leases, gate, writer, boot, bounds>>

MarkPublication ==
    /\ excl.pc = "scanned"
    /\ marked' = TRUE
    /\ excl' = [excl EXCEPT !.pc = "marked", !.possible = TRUE]
    /\ UNCHANGED <<files, store, made, cache, leases, phase, writer, boot, bounds>>

\* The published record lists the table it replaces; a legacy table is not owned.
NextRoute ==
    [table   |-> excl.table,
     retired |-> Retired(excl.prev) \cup (IF excl.prev = NoRoute THEN {} ELSE {excl.prev.table})]

\* unpublished_after_failure: neither the file nor the cached view names the stage.
Unpublished(record, view) ==
    /\ excl.table # TableOf(record) /\ excl.table \notin Retired(record)
    /\ view = Unloaded \/ (excl.table # TableOf(view.record) /\ excl.table \notin Retired(view.record))

PublishRoute ==
    /\ excl.pc = "marked" /\ excl.table \in receipts /\ Cardinality(NextRoute.retired) <= MaxRetired
    /\ \/ /\ Persisted(NextRoute, excl.model)
          /\ excl' = [excl EXCEPT !.pc = "published"]
          /\ UNCHANGED <<gate, errors>>
       \/ /\ NotPersisted(NextRoute)
          /\ IF Unpublished(route', cache)
             THEN excl' = [excl EXCEPT !.pc = "drop"] /\ UNCHANGED gate
             ELSE Released
    /\ UNCHANGED <<pending, receipts, store, made, leases, writer, boot, crashes>>

FinishActivation ==
    /\ excl.pc = "published"
    /\ Activated
    /\ UNCHANGED <<files, store, made, cache, leases, writer, boot, bounds>>

(***************************************************************************)
(* drop_owned_vector_table, for the stage of a failed rebuild and for a    *)
(* retired table.                                                          *)
(***************************************************************************)
\* Mutated: the leases are not looked at.
HasReadersNone(t) == unproven

\* has_readers
HasReaders(t) == unproven \/ Held(t)

\* Where a table that could not be dropped, or was, leaves the caller.
Kept == IF excl.kind = "collect"
        THEN excl' = [excl EXCEPT !.pc = "collect"] /\ UNCHANGED gate
        ELSE Released

\* The next retired table; a table with readers is passed over, and when the end
\* of a read is not known the collection stops.
CollectNext(t) ==
    /\ excl.pc = "collect" /\ t \in excl.todo
    /\ IF unproven THEN Activated
       ELSE /\ excl' = [excl EXCEPT !.todo = @ \ {t}, !.table = t,
                                    !.pc = IF HasReaders(t) THEN "collect" ELSE "drop"]
            /\ UNCHANGED gate
    /\ UNCHANGED <<files, store, made, cache, leases, writer, boot, bounds>>

\* All done, or cancelled between two tables.
CollectEnd ==
    /\ excl.pc = "collect"
    /\ Activated
    /\ UNCHANGED <<files, store, made, cache, leases, writer, boot, bounds>>

DropCheck ==
    /\ excl.pc = "drop"
    /\ IF excl.table = TableOf(route) \/ HasReaders(excl.table) THEN Kept
       ELSE /\ excl' = [excl EXCEPT !.pc = IF excl.table \in tables THEN "dropping" ELSE "forget"]
            /\ UNCHANGED gate
    /\ UNCHANGED <<files, store, made, cache, leases, writer, boot, bounds>>

DropTable ==
    /\ excl.pc = "dropping"
    /\ excl.table \in receipts
    /\ tables' = tables \ {excl.table}
    /\ rows' = {x \in rows : x[1] # excl.table}
    /\ excl' = [excl EXCEPT !.pc = "forget"]
    /\ UNCHANGED <<files, docs, made, cache, leases, gate, writer, boot, bounds>>

DropFails ==
    /\ excl.pc = "dropping" /\ errors < setting.errors
    /\ errors' = errors + 1
    /\ Kept
    /\ UNCHANGED <<files, store, made, cache, leases, writer, boot, crashes>>

ForgetOwned ==
    /\ excl.pc = "forget"
    /\ receipts' = receipts \ {excl.table}
    /\ IF excl.kind = "collect"
       THEN excl' = [excl EXCEPT !.pc = "remove"] /\ UNCHANGED gate
       ELSE Released
    /\ UNCHANGED <<route, pending, store, made, cache, leases, writer, boot, bounds>>

Removed == [route EXCEPT !.retired = @ \ {excl.table}]

\* remove_retired: the file and the cached view, which keeps its embedder.
RemoveRetired ==
    /\ excl.pc = "remove"
    /\ \/ /\ route' = Removed
          /\ cache' = [record |-> Removed, query |-> IF cache = Unloaded THEN NoModel ELSE cache.query]
          /\ excl' = [excl EXCEPT !.pc = "collect"]
          /\ UNCHANGED <<gate, errors>>
       \/ NotPersisted(Removed) /\ Activated
    /\ UNCHANGED <<pending, receipts, store, made, leases, writer, boot, crashes>>

\* try_prune: the native session is shared, so no table may have a reader.
Quiet == ~unproven /\ route # NoRoute /\ \A t \in tables \cup {Legacy} : ~Held(t)

StartPrune ==
    /\ excl.pc = "prune"
    /\ IF Quiet THEN /\ pruning' = TRUE
                     /\ excl' = [excl EXCEPT !.pc = "pruned"]
                     /\ UNCHANGED gate
                ELSE Released /\ UNCHANGED pruning
    /\ UNCHANGED <<files, store, made, cache, unproven, reader, writer, boot, bounds>>

EndPrune ==
    /\ excl.pc = "pruned"
    /\ pruning' = FALSE
    /\ Released
    /\ UNCHANGED <<files, store, made, cache, unproven, reader, writer, boot, bounds>>

(***************************************************************************)
(* The process dies at any point; Routes.new starts with empty maps.       *)
(***************************************************************************)
Crash ==
    /\ crashes < MaxCrashes
    /\ crashes' = crashes + 1
    /\ cache' = Unloaded /\ pruning' = FALSE /\ unproven' = FALSE
    /\ phase' = "ready" /\ marked' = FALSE
    /\ reader' = [r \in Readers |-> NoReader]
    /\ writer' = [w \in Writers |-> NoWriter]
    /\ boot' = NoBoot /\ excl' = NoExcl
    /\ UNCHANGED <<files, store, made, errors>>

\* What an earlier version may have left: nothing, documents without vectors, or
\* documents and a table without a record.
Init ==
    /\ route = NoRoute /\ pending = NoRoute /\ receipts = {}
    /\ setting \in Settings
    /\ \E old \in setting.old :
          /\ docs = IF old = "none" THEN {} ELSE {CHOOSE d \in setting.docs : TRUE}
          /\ tables = IF old = "legacy" THEN {Legacy} ELSE {}
    /\ rows = {<<t, d, NoModel>> : t \in tables, d \in docs}
    /\ made = 0 /\ cache = Unloaded /\ pruning = FALSE /\ unproven = FALSE
    /\ phase = "ready" /\ marked = FALSE
    /\ reader = [r \in Readers |-> NoReader]
    /\ writer = [w \in Writers |-> NoWriter]
    /\ boot = NoBoot /\ excl = NoExcl
    /\ crashes = 0 /\ errors = 0

Bootstrapping ==
    Bootstrap \/ BootstrapNot \/ BootstrapIntent \/ BootstrapCreate \/ BootstrapFail
    \/ BootstrapPublish \/ BootstrapEnd
Writing(w) ==
    TakeLane(w) \/ TakeMutex(w) \/ Preflight(w) \/ StartBootstrap(w) \/ CommitLexical(w)
    \/ OpenTable(w) \/ StartUpsert(w) \/ Upsert(w) \/ Leave(w)
Rebuilding ==
    RefuseBuild \/ StageReceipt \/ StageCreate \/ StageFail \/ Scan \/ Cancelled
    \/ MarkPublication \/ PublishRoute \/ FinishActivation
Dropping == DropCheck \/ DropTable \/ DropFails \/ ForgetOwned \/ RemoveRetired

Next ==
    \/ \E r \in setting.readers :
          (\E m \in setting.models : Pin(r, m)) \/ StartRead(r) \/ EndRead(r) \/ FailRead(r)
    \/ \E w \in setting.writers, kind \in setting.kinds, m \in setting.models, d \in setting.docs :
          Admit(w, kind, m, d)
    \/ \E w \in setting.writers : Writing(w)
    \/ Bootstrapping
    \/ \E kind \in setting.work, m \in setting.models : Begin(kind, m)
    \/ Rebuilding
    \/ \E t \in excl.todo : CollectNext(t)
    \/ CollectEnd \/ Dropping \/ StartPrune \/ EndPrune
    \/ Crash

Spec == Init /\ [][Next /\ UNCHANGED setting]_<<vars, setting>>

(***************************************************************************)
(* Properties.                                                             *)
(***************************************************************************)
\* The route the process serves is the durable one, and it works.  The file
\* never names a table that is missing or that this program cannot prove it
\* made, after any crash, failed publication or cleanup (such a route refuses
\* every read and write until a full rebuild).  While the root is open to
\* writers, what the process would pin is that table: a publication that may or
\* may not have happened keeps the root closed, or the bootstrap intent does.
\* And a writer's table handle, which has no lease, still names it when the
\* vectors arrive, also after the request went away.
RouteIsServed ==
    /\ route # NoRoute => route.table \in tables /\ route.table \in receipts
    /\ phase = "ready" /\ boot.pc \in {"none", "lexical"}
            /\ cache # Unloaded /\ ~Refused(cache.record)
        => TableOf(cache.record) = TableOf(route)
    /\ \A w \in Writers : writer[w].pc \in {"open", "native", "detached"}
        => route # NoRoute /\ writer[w].table = route.table

\* No table is dropped while a search may read it, the native work of a failed
\* search included, and native history is pruned only while no native read, of
\* this table or of any other, can be running.
ReadsKeepTable ==
    \A r \in Readers :
        /\ reader[r].pc \in {"reading", "lingering"} => reader[r].table \in tables
        /\ reader[r].pc = "pinned" /\ reader[r].query # NoModel => reader[r].table \in tables
        /\ pruning => reader[r].pc = "idle"

\* Vectors of two embedding models never meet: neither in one table nor in a
\* query and the table it searches.
SpacesNeverMix ==
    /\ \A x \in rows : x[3] = x[1].model
    /\ \A r \in Readers : reader[r].query \in {NoModel, reader[r].table.model}

\* Whenever the routed table changes, the new one has a vector for every stored
\* document; a bootstrapped table starts empty, so nothing may be stored then.
CompleteOnActivation ==
    [][TableOf(route') # TableOf(route) =>
          \A d \in docs : \E m \in Models : <<route'.table, d, m>> \in rows]_vars
=============================================================================
