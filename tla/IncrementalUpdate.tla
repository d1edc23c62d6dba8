------------------------- MODULE IncrementalUpdate -------------------------
(***************************************************************************)
(* How an incremental update finds out what changed.  The graph store      *)
(* keeps, beside the declarations (symbols) of a file, a file node with    *)
(* the hash and the modification time of the text that was indexed;        *)
(* services/project_service.rs compares these nodes with the disk and      *)
(* reports changed and deleted files, which handlers/project_tools.rs      *)
(* indexes, writes into the graph, publishes and only then cleans up.      *)
(* The graph has no snapshots: a failed attempt leaves its nodes behind.   *)
(* actors/gc.rs and the collection tool purge the graph below the last     *)
(* full index.                                                             *)
(*                                                                         *)
(* One project.  A text is a model value; all texts have the same size, so *)
(* that a change shows only in the time or in the hash.  What publication  *)
(* does to the index rows is SourcePublication.                            *)
(***************************************************************************)
EXTENDS Integers, FiniteSets

CONSTANTS
    Files, Texts,
    Absent,       \* the text of a file that is not there
    NoNode,       \* the graph has no node for the file
    Scenarios     \* the situations explored, see scenario

AllFlows == {"index", "update", "only", "repair", "graph"}

ASSUME IncrementalAssumption ==
    /\ Absent \notin Texts
    /\ NoNode \notin [gen : Nat, hash : Texts, stamp : Nat, hint : [epoch : Nat, stamp : Nat]]
    /\ \A s \in Scenarios :
          /\ s.files \subseteq Files /\ s.flows \subseteq AllFlows
          /\ s.faults \subseteq {"abort", "late"}
          /\ {s.gen, s.stamp, s.epoch, s.fails} \subseteq Nat

VARIABLES
    scenario,   \* the files and flows there are; the faults: "abort", an aborted
                \* flow's upsert goes on, "late", a crash or an error after the
                \* publication; and the bounds
    disk,       \* per file: [text, stamp], the project's directory
    clock,      \* the newest modification time
    suspect,    \* history: the files whose part of the graph is not evidence of
                \* what was published, see Suspicion
    head,       \* registry: active_generation
    epoch,      \* registry: source identity epoch
    verified,   \* registry: source_identity_verified_v1
    view,       \* per file: its text in the published source view
    node,       \* graph: file nodes, [gen, hash, stamp, hint] or NoNode
    symbols,    \* graph: per file and text, the generation of its declarations, or 0
    baseline,   \* registry: last_full_index_generation, or 0
    flow,       \* the flow that holds the project's update lock
    orphan,     \* the upsert of an aborted flow that still has to run
    gc,         \* the sweep, if it holds the lock: [on, nodes, symbols] to remove
    fails       \* counter for the bound

graph == <<node, symbols>>
tree  == <<disk, clock>>
meta  == <<head, epoch, verified, view, baseline>>
updateVars == <<tree, meta, graph, suspect, flow, orphan, gc, fails>>

Flows == scenario.flows
\* Bounds: generations, modifications of the disk, changes of the project's
\* directory, and failures, cancellations and crashes.
MaxGen   == scenario.gen
MaxStamp == scenario.stamp
MaxEpoch == scenario.epoch
MaxFails == scenario.fails

NoHint == [epoch |-> 0, stamp |-> 0]
NoFile == [text |-> Absent, stamp |-> 0]
\* The locals of a flow: its token; what the scan has read and found; what it
\* indexed.
Idle   == [pc |-> "idle", kind |-> "none", gen |-> 0, epoch |-> 0,
           left |-> {}, seen |-> <<>>, trust |-> FALSE, now |-> 0, patches |-> {},
           changed |-> {}, deleted |-> {}, stamps |-> <<>>, texts |-> <<>>]
NoGc   == [on |-> FALSE, nodes |-> {}, symbols |-> {}]

Present == {f \in Files : disk[f].text # Absent}
Free    == flow = Idle /\ ~gc.on

\* An admitted flow and the token it captured; source_head_is_current.
Admitted(kind) ==
    [Idle EXCEPT !.pc = "start", !.kind = kind, !.gen = head + 1, !.epoch = epoch]

Current == head + 1 = flow.gen /\ epoch = flow.epoch

UpdateInit ==
    /\ scenario \in Scenarios
    /\ disk \in [Files -> {[text |-> t, stamp |-> 1] : t \in Texts} \cup {NoFile}]
    /\ Present \subseteq scenario.files
    /\ clock = 1
    /\ suspect = {}
    /\ head = 0 /\ epoch = 1 /\ verified = FALSE
    /\ view = [f \in Files |-> Absent]
    /\ node = [f \in Files |-> NoNode]
    /\ symbols = [x \in Files \X Texts |-> 0]
    /\ baseline = 0
    /\ flow = Idle /\ orphan = Idle /\ gc = NoGc
    /\ fails = 0

-----------------------------------------------------------------------------
(* The directory, which nobody locks.                                      *)

\* A file is created, edited, touched, or reverted to an earlier text.
Edit(f, t) ==
    /\ f \in scenario.files /\ clock < MaxStamp
    /\ clock' = clock + 1
    /\ disk' = [disk EXCEPT ![f] = [text |-> t, stamp |-> clock + 1]]
    /\ UNCHANGED <<meta, graph, suspect, flow, orphan, gc, fails>>

Remove(f) ==
    /\ f \in Present
    /\ clock < MaxStamp
    /\ clock' = clock + 1
    /\ disk' = [disk EXCEPT ![f] = NoFile]
    /\ UNCHANGED <<meta, graph, suspect, flow, orphan, gc, fails>>

\* The record is pointed at another directory, whose files may have any text
\* and the very modification times of the old ones (mark_identity_unverified).
Retarget ==
    /\ epoch < MaxEpoch
    /\ epoch' = epoch + 1
    /\ verified' = FALSE
    /\ disk' \in [Files -> [text : Texts, stamp : 1 .. clock] \cup {NoFile}]
    /\ \A f \in Files \ scenario.files : disk'[f] = NoFile
    /\ UNCHANGED <<clock, head, view, baseline, graph, suspect, flow, orphan, gc, fails>>

-----------------------------------------------------------------------------
(* Admission.                                                              *)

\* acquire_project_update_lock, capture_source_head.  The first index needs
\* generation zero, everything else a published one.
Begin(kind) ==
    /\ Free
    /\ kind \in Flows
    /\ (kind = "index") <=> (head = 0)
    /\ head < MaxGen
    /\ flow' = Admitted(kind)
    /\ UNCHANGED <<tree, meta, graph, suspect, orphan, gc, fails>>

\* An error, a cancellation or a crash before the publication; what the flow
\* has written to the graph stays.  A crash also ends the process's orphans.
Fail ==
    /\ flow.pc \in {"start", "scan", "attest", "stat", "read", "upsert", "publish"}
    /\ fails < MaxFails
    /\ fails' = fails + 1
    /\ flow' = Idle
    /\ orphan' \in {orphan, Idle}
    /\ UNCHANGED <<tree, meta, graph, suspect, gc>>

\* A step that finds its precondition lost returns an error.
GiveUp ==
    /\ flow' = Idle
    /\ UNCHANGED <<tree, meta, graph, suspect, orphan, gc, fails>>

-----------------------------------------------------------------------------
(* The scan: scan_incremental_changes.                                     *)

\* A hint counts only for the identity epoch it was written in.
StoredStamp(n, e) == IF n.hint.epoch = e THEN n.hint.stamp ELSE n.stamp

\* The stat of the file settles it: it is unchanged, nothing is read.
StatMatches(n, trust, e, d) == trust /\ StoredStamp(n, e) = d.stamp

\* Mutated: the generation of a node is not looked at.
FreshAny(n, active) == n # NoNode

\* The node describes a published file, so that it can be compared at all.
Fresh(n, active) == n # NoNode /\ n.gen # 0 /\ n.gen <= active

\* The file as the scan classifies it: reported, or unchanged.
IsChanged(n, active, trust, e, d) ==
    ~ Fresh(n, active) \/ (~ StatMatches(n, trust, e, d) /\ n.hash # d.text)

\* The files are listed and the nodes and the identity read.
ScanRead ==
    /\ flow.pc = "start" /\ flow.kind = "update"
    /\ IF Current
       THEN /\ flow' = [flow EXCEPT !.pc = "scan", !.left = Present,
                 !.deleted = {f \in Files \ Present : node[f] # NoNode},
                 !.seen = node, !.trust = verified, !.now = epoch]
            /\ UNCHANGED <<tree, meta, graph, suspect, orphan, gc, fails>>
       ELSE GiveUp

\* The observation a verified hash leaves, if the node has not got it yet.
Observation(f) ==
    LET h == [epoch |-> flow.epoch, stamp |-> disk[f].stamp] IN
    IF flow.seen[f].hint = h THEN {} ELSE {[file |-> f, hint |-> h]}

ScanFile(f) ==
    LET n == flow.seen[f]
        lost == disk[f].text = Absent
        new == ~lost /\ IsChanged(n, head, flow.trust, flow.now, disk[f])
        read == ~lost /\ ~new /\ ~StatMatches(n, flow.trust, flow.now, disk[f])
    IN
    /\ flow.pc = "scan" /\ f \in flow.left
    /\ flow' = [flow EXCEPT
         !.left = @ \ {f},
         !.deleted = IF lost THEN @ \cup {f} ELSE @,
         !.changed = IF new THEN @ \cup {f} ELSE @,
         !.patches = IF read THEN @ \cup Observation(f) ELSE @]
    /\ UNCHANGED <<tree, meta, graph, suspect, orphan, gc, fails>>

\* patch_verified_file_stats: only a node that is still the one compared.
Patched(p) ==
    [f \in Files |->
        IF \E x \in p : x.file = f /\ node[f] # NoNode /\ node[f] = flow.seen[f]
        THEN [node[f] EXCEPT !.hint = (CHOOSE x \in p : x.file = f).hint]
        ELSE node[f]]

\* StatRefreshWriter::flush, when a batch is full and at the end of the scan.
Flush ==
    /\ flow.pc = "scan" /\ flow.patches # {}
    /\ IF Current
       THEN /\ node' = Patched(flow.patches)
            /\ flow' = [flow EXCEPT !.patches = {}]
            /\ UNCHANGED <<tree, meta, symbols, suspect, orphan, gc, fails>>
       ELSE GiveUp

\* What the flow will index and what it will drop from the view.
Staged(pc, changed, deleted) ==
    [Idle EXCEPT !.pc = pc, !.kind = flow.kind, !.gen = flow.gen,
                 !.epoch = flow.epoch, !.changed = changed, !.deleted = deleted]

\* Mutated: deletions alone do not make an update.
ScanEndChangedOnly ==
    /\ flow.pc = "scan" /\ flow.left = {} /\ flow.patches = {}
    /\ IF Current
       THEN /\ flow' = Staged(IF flow.changed = {}
                              THEN "attest" ELSE "stat",
                              flow.changed, flow.deleted)
            /\ UNCHANGED <<tree, meta, graph, suspect, orphan, gc, fails>>
       ELSE GiveUp

ScanEnd ==
    /\ flow.pc = "scan" /\ flow.left = {} /\ flow.patches = {}
    /\ IF Current
       THEN /\ flow' = Staged(IF flow.changed \cup flow.deleted = {}
                              THEN "attest" ELSE "stat",
                              flow.changed, flow.deleted)
            /\ UNCHANGED <<tree, meta, graph, suspect, orphan, gc, fails>>
       ELSE GiveUp

\* refresh_unchanged_source, attest_unchanged_source_identity.
Attest ==
    /\ flow.pc = "attest"
    /\ verified' = (verified \/ Current)
    /\ flow' = Idle
    /\ UNCHANGED <<tree, head, epoch, view, baseline, graph, suspect, orphan, gc, fails>>

\* Files outside the selection must belong to the published source.
OutsideIsPublished(paths) ==
    /\ verified
    /\ \A f \in Files \ paths : node[f] # NoNode => node[f].gen <= head

\* exclusive_source_changes: only the selected files are looked at.
Select(paths) ==
    /\ flow.pc = "start" /\ flow.kind = "only"
    /\ IF /\ paths \subseteq Present
          /\ Current
          /\ OutsideIsPublished(paths)
          /\ \A f \in paths : node[f] # NoNode => node[f].gen <= flow.gen
       THEN /\ flow' = Staged("stat", paths, {})
            /\ UNCHANGED <<tree, meta, graph, suspect, orphan, gc, fails>>
       ELSE GiveUp

\* The first index and the repairs index every file; a graph repair deletes
\* the project's graph first, once the scan has succeeded.
SelectAll ==
    /\ flow.pc = "start" /\ flow.kind \in {"index", "repair", "graph"}
    /\ flow' = Staged("stat", Present, {})
    /\ IF flow.kind = "graph"
       THEN /\ node' = [f \in Files |-> NoNode]
            /\ symbols' = [x \in Files \X Texts |-> 0]
            /\ suspect' = Files
       ELSE UNCHANGED <<graph, suspect>>
    /\ UNCHANGED <<tree, meta, orphan, gc, fails>>

-----------------------------------------------------------------------------
(* Indexing, the graph and the publication.                                *)

\* index_files: the time of a file is read before its text.
StatFiles ==
    /\ flow.pc = "stat"
    /\ IF flow.changed \subseteq Present
       THEN /\ flow' = [flow EXCEPT !.pc = "read",
                         !.stamps = [f \in flow.changed |-> disk[f].stamp]]
            /\ UNCHANGED <<tree, meta, graph, suspect, orphan, gc, fails>>
       ELSE GiveUp

ReadFiles ==
    /\ flow.pc = "read"
    /\ IF flow.changed \subseteq Present
       THEN /\ flow' = [flow EXCEPT !.pc = "upsert",
                         !.texts = [f \in flow.changed |-> disk[f].text]]
            /\ UNCHANGED <<tree, meta, graph, suspect, orphan, gc, fails>>
       ELSE GiveUp

\* process_ingest_stats: one transaction writes file nodes and symbols.
Write(w) ==
    /\ node' = [f \in Files |->
         IF f \in w.changed
         THEN [gen |-> w.gen, hash |-> w.texts[f], stamp |-> w.stamps[f],
               hint |-> NoHint]
         ELSE node[f]]
    /\ symbols' = [x \in Files \X Texts |->
         IF x[1] \in w.changed /\ w.texts[x[1]] = x[2] THEN w.gen ELSE symbols[x]]

Upsert ==
    /\ flow.pc = "upsert"
    /\ Write(flow)
    /\ flow' = [flow EXCEPT !.pc = "publish", !.stamps = <<>>]
    /\ UNCHANGED <<tree, meta, suspect, orphan, gc, fails>>

\* The job is aborted while its blocking upsert is submitted or running.
Abort ==
    /\ "abort" \in scenario.faults /\ fails < MaxFails
    /\ flow.pc = "upsert" /\ orphan = Idle
    /\ orphan' = flow /\ flow' = Idle
    /\ fails' = fails + 1
    /\ UNCHANGED <<tree, meta, graph, suspect, gc>>

OrphanUpsert ==
    /\ orphan # Idle
    /\ Write(orphan)
    /\ orphan' = Idle
    /\ suspect' = IF Free /\ orphan.gen = head + 1 THEN suspect
                                                  ELSE suspect \cup orphan.changed
    /\ UNCHANGED <<tree, meta, flow, gc, fails>>

\* The view the flow publishes; an update inherits what it did not touch.
Published ==
    [f \in Files |->
        IF f \in flow.changed THEN flow.texts[f]
        ELSE IF f \in flow.deleted \/ flow.kind \notin {"update", "only"}
        THEN Absent ELSE view[f]]

\* Whether, after the publication, the graph still tells nothing about f: the
\* view has no f but the graph keeps its node, or f was under suspicion and
\* the flow's own node is not there.  Suspicion is raised by a repair that
\* deletes the graph before it has anything to publish, and by the upsert of
\* an aborted flow that lands in another flow or after its generation.
Suspicion(f) ==
    IF Published[f] = Absent THEN node[f] # NoNode
    ELSE /\ f \in suspect
         /\ ~(f \in flow.changed /\ node[f] # NoNode
               /\ node[f].gen = flow.gen /\ node[f].hash = flow.texts[f])

\* A node that was there without a published file is removed.
Cleared == suspect \ {f \in Files : view[f] = Absent /\ node'[f] = NoNode}

Publish ==
    /\ flow.pc = "publish"
    /\ IF Current
       THEN /\ head' = flow.gen
            /\ view' = Published
            /\ verified' = TRUE
            /\ suspect' = {f \in Files : Suspicion(f)}
            /\ flow' = [flow EXCEPT !.pc = IF flow.kind \in {"update", "only"}
                                           THEN "cleanup" ELSE "baseline"]
            /\ UNCHANGED <<tree, epoch, baseline, graph, orphan, gc, fails>>
       ELSE GiveUp

\* purge_stale_nodes_for_paths, after the publication.
Cleanup ==
    LET paths == flow.changed \cup flow.deleted IN
    /\ flow.pc = "cleanup"
    /\ node' = [f \in Files |->
         IF f \in paths /\ node[f] # NoNode /\ node[f].gen # flow.gen
         THEN NoNode ELSE node[f]]
    /\ symbols' = [x \in Files \X Texts |->
         IF x[1] \in paths /\ symbols[x] # flow.gen THEN 0 ELSE symbols[x]]
    /\ suspect' = Cleared
    /\ flow' = Idle
    /\ UNCHANGED <<tree, meta, orphan, gc, fails>>

\* last_full_index_generation, after the publication of a full index.
SetBaseline ==
    /\ flow.pc = "baseline"
    /\ baseline' = flow.gen
    /\ flow' = Idle
    /\ UNCHANGED <<tree, head, epoch, verified, view, graph, suspect, orphan, gc, fails>>

\* A crash or an error between the publication and what follows it.
FailLate ==
    /\ "late" \in scenario.faults /\ fails < MaxFails
    /\ flow.pc \in {"cleanup", "baseline"}
    /\ flow' = Idle
    /\ fails' = fails + 1
    /\ UNCHANGED <<tree, meta, graph, suspect, orphan, gc>>

-----------------------------------------------------------------------------
(* Collection: purge_project_old_gens and handle_incremental_indexing_gc.  *)

\* purge_generations_below for the source namespace.
Stale(gen, cut) == gen < cut

\* The lock is tried, never waited for; the keys to remove are collected.
\* The tool may ask for an earlier cut than the last full index.
Collect(cut) ==
    /\ Free
    /\ head > 0 /\ cut \in 1 .. baseline
    /\ gc' = [on |-> TRUE,
              nodes |-> {f \in Files : node[f] # NoNode /\ Stale(node[f].gen, cut)},
              symbols |-> {x \in Files \X Texts :
                             symbols[x] # 0 /\ Stale(symbols[x], cut)}]
    /\ UNCHANGED <<tree, meta, graph, suspect, flow, orphan, fails>>

\* purge_where removes what it collected, in transactions of its own.
Sweep ==
    /\ gc.on
    /\ node' = [f \in Files |-> IF f \in gc.nodes THEN NoNode ELSE node[f]]
    /\ symbols' = [x \in Files \X Texts |-> IF x \in gc.symbols THEN 0 ELSE symbols[x]]
    /\ gc' = NoGc
    /\ suspect' = Cleared
    /\ UNCHANGED <<tree, meta, flow, orphan, fails>>

FlowStep ==
    \/ ScanRead \/ (\E f \in Files : ScanFile(f)) \/ Flush \/ ScanEnd \/ Attest
    \/ (\E paths \in SUBSET scenario.files \ {{}} : Select(paths)) \/ SelectAll
    \/ StatFiles \/ ReadFiles \/ Upsert \/ Publish \/ Cleanup \/ SetBaseline

UpdateNext ==
    \/ \E f \in Files : Remove(f) \/ \E t \in Texts : Edit(f, t)
    \/ Retarget
    \/ \E kind \in Flows : Begin(kind)
    \/ FlowStep
    \/ Fail \/ Abort \/ OrphanUpsert \/ FailLate
    \/ \E cut \in 1 .. baseline : Collect(cut)
    \/ Sweep

UpdateSpec == UpdateInit /\ [][UpdateNext /\ UNCHANGED scenario]_<<updateVars, scenario>>

\* A started flow runs on.  The watcher and the clients ask for updates again
\* and again, and the first index is asked for; the update lock is a queue
\* (tokio's mutex), so that sweeps, which only try it, cannot starve them.
UpdateFairness ==
    /\ WF_updateVars(FlowStep)
    /\ SF_updateVars(Begin("index")) /\ SF_updateVars(Begin("update"))
    /\ WF_updateVars(Sweep)

UpdateFairSpec == UpdateSpec /\ UpdateFairness

-----------------------------------------------------------------------------
(* Properties.                                                             *)

\* Would a scan of the present disk report the file?
Reported(f) ==
    IF disk[f].text = Absent THEN node[f] # NoNode
    ELSE IsChanged(node[f], head, verified, epoch, disk[f])

\* The graph is evidence of the published source, whatever attempts failed and
\* whatever was reverted, removed, restored or retargeted in between: a file
\* whose disk content differs from the published one is reported by the next
\* scan (scan_incremental_changes), and the declarations of every published
\* text stay there through failed attempts, cleanups and collections
\* (purge_stale_nodes_for_paths, purge_generations_below).
GraphIsEvidence ==
    head > 0 => \A f \in Files \ suspect :
        /\ disk[f].text # view[f] => Reported(f)
        /\ view[f] # Absent => symbols[<<f, view[f]>>] > 0

\* Once the directory stays as it is, the published source becomes equal to it
\* and stays so (or the bound on generations is reached).
Converges ==
    <>[](head = MaxGen \/ \A f \in Files \ suspect : view[f] = disk[f].text)
=============================================================================
