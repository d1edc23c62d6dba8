----------------------------- MODULE GraphStore -----------------------------
(***************************************************************************)
(* The tables of the code graph (engram_graph/src/store.rs) and the flows  *)
(* that write them in several redb transactions.  NODES holds declarations *)
(* and learning endpoints, EDGES the relations, ADJ_OUT and ADJ_IN mirror  *)
(* every edge for traversal in either direction.  An incremental update    *)
(* upserts what it extracted, publishes the generation, removes what the   *)
(* refreshed files no longer declare, moves the callers of a declaration   *)
(* that changed its line to its successor, and resolves symbol references. *)
(* The collection sweep removes what is older than the last full index; a  *)
(* repair of the graph drains the tables one after the other.  These flows *)
(* hold the project's update lock.  The dreamer's learning of a search     *)
(* session (actors/dreamer.rs) is one transaction and holds no lock.       *)
(*                                                                         *)
(* One project, one namespace (memory, KeepLatestOnly).  The declarations  *)
(* of a file are given by its layout; a declaration whose line changes has *)
(* another node id and the same name.  A call is extracted as an edge to a *)
(* symbol, the name it calls.  A batch is any non-empty part of what is    *)
(* left to delete.                                                         *)
(***************************************************************************)
EXTENDS Integers, FiniteSets

CONSTANTS
    Files, Names,
    NoText,       \* the layout of a file that was never indexed
    Decls,        \* declarations: node ids
    Hits,         \* search hits: node ids of learning endpoints
    PathOf,       \* the file of a node
    NameOf,       \* the name of a declaration
    Mixes         \* what a behaviour may contain, see mix

Ids     == Decls \union Hits
Keys    == {<<"calls", s, t>> : s \in Decls, t \in Decls \union Names}
               \union {<<"learned", s, t>> : s \in Hits, t \in Hits}
Source(k) == k[2]
Target(k) == k[3]

\* A text of file f: it declares nodes of f, which call symbols.
TextOf(f, l) == /\ l.decls \subseteq {d \in Decls : PathOf[d] = f}
                /\ l.calls \subseteq l.decls \X Names

\* Node ids of declarations, ids of search hits and symbol names are different
\* kinds of keys.
ASSUME GraphAssumption ==
    /\ Decls \intersect Hits = {} /\ Names \intersect Ids = {}
    /\ NameOf \in [Decls -> Names]
    /\ NoText.decls = {} /\ NoText.calls = {}
    /\ \A m \in Mixes : \A f \in Files : \A l \in m.layouts[f] : TextOf(f, l)

VARIABLES
    mix,       \* [layouts: per file its possible texts [decls, calls]; flows: of
               \* "index", "update", "only", "repair", "gc", "wipe"; and the bounds
               \* gens: generations, learns: search sessions, halts]
    nodes,     \* NODES: id -> generation, or 0
    edges,     \* EDGES: key -> generation, or 0
    out,       \* ADJ_OUT: keys
    inc,       \* ADJ_IN: keys
    live,      \* per file: the layout of the published text
    severed,   \* history: calls whose target a file ceased to declare since their
               \* extraction
    enriched,  \* history: the resolver ran after the last extraction
    head,      \* registry: active_generation
    base,      \* registry: last_full_index_generation
    op,        \* the flow that holds the update lock
    learn,     \* the generation a search session was read at, or 0
    learns, halts   \* counters for the bounds

graphTables == <<nodes, edges, out, inc>>
pub         == <<live, severed, enriched, head, base>>
graphVars   == <<graphTables, pub, op, learn, learns, halts>>

Idle == [pc |-> "idle", kind |-> "none", layout |-> <<>>,
         keys |-> {}, removed |-> {}, succ |-> {}, moved |-> {}]

Paths == DOMAIN op.layout
Here == {i \in Ids : nodes[i] # 0}
Rels == {k \in Keys : edges[k] # 0}

Declared(l) == UNION {l[f].decls : f \in DOMAIN l}
Calls(l)    == UNION {l[f].calls : f \in DOMAIN l}
Named(l, n) == {e \in Declared(l) : NameOf[e] = n}
Homes(l, n) == {PathOf[e] : e \in Named(l, n)}

\* The possible results of extracting these files.
Extractions(paths) ==
    {l \in [paths -> UNION {mix.layouts[f] : f \in paths}] :
        \A f \in paths : l[f] \in mix.layouts[f]}

GraphInit ==
    /\ mix \in Mixes
    /\ nodes = [i \in Ids |-> 0]
    /\ edges = [k \in Keys |-> 0]
    /\ out = {} /\ inc = {}
    /\ live = [f \in Files |-> NoText]
    /\ severed = {} /\ enriched = FALSE
    /\ head = 0 /\ base = 0
    /\ op = Idle
    /\ learn = 0
    /\ learns = 0 /\ halts = 0
-----------------------------------------------------------------------------
(* One transaction: insert or remove edges with both mirrors.              *)

PutEdges(ks, g) ==
    /\ edges' = [k \in Keys |-> IF k \in ks THEN g ELSE edges[k]]
    /\ out' = out \union ks
    /\ inc' = inc \union ks

\* Mutated: the mirror of the incoming side is forgotten.
DropEdgesOneSided(ks) ==
    /\ edges' = [k \in Keys |-> IF k \in ks THEN 0 ELSE edges[k]]
    /\ out' = out \ ks
    /\ inc' = inc

DropEdges(ks) ==
    /\ edges' = [k \in Keys |-> IF k \in ks THEN 0 ELSE edges[k]]
    /\ out' = out \ ks
    /\ inc' = inc \ ks

DropNodes(is) == nodes' = [i \in Ids |-> IF i \in is THEN 0 ELSE nodes[i]]
-----------------------------------------------------------------------------
(* Indexing and updating.                                                  *)

\* The first index and a full repair extract every file, an update the changed
\* ones; an update of given paths only also skips the resolver.
BeginFlow(kind, paths, layout) ==
    /\ op = Idle /\ kind \in mix.flows
    /\ kind \in {"update", "only"} \/ paths = Files
    /\ kind = "index" <=> head = 0
    /\ head < mix.gens
    /\ op' = [Idle EXCEPT !.pc = "upsert", !.kind = kind, !.layout = layout]
    /\ UNCHANGED <<graphTables, pub, learn, learns, halts>>

\* upsert_nodes_and_edges of everything that the flow extracted.
UpsertGraph ==
    /\ op.pc = "upsert"
    /\ nodes' = [i \in Ids |-> IF i \in Declared(op.layout) THEN head + 1 ELSE nodes[i]]
    /\ PutEdges({<<"calls", c[1], c[2]>> : c \in Calls(op.layout)}, head + 1)
    /\ op' = [op EXCEPT !.pc = "publish"]
    /\ UNCHANGED <<pub, learn, learns, halts>>

\* The head moves; an update goes on with the scoped purge, a full index not.
Publish ==
    /\ op.pc = "publish"
    /\ head' = head + 1
    /\ enriched' = FALSE
    /\ LET new == [f \in Files |-> IF f \in Paths THEN op.layout[f] ELSE live[f]]
           lost == {c \in Calls(new) : ~(Homes(live, c[2]) \subseteq Homes(new, c[2]))}
       IN  /\ live' = new
           /\ severed' = {c \in severed \union lost : PathOf[c[1]] \notin Paths}
    /\ op' = [op EXCEPT !.pc = IF op.kind \in {"update", "only"} THEN "collect" ELSE "resolve"]
    /\ UNCHANGED <<graphTables, base, learn, learns, halts>>
-----------------------------------------------------------------------------
(* purge_stale_nodes_for_paths, after the publication of an update.        *)

\* The declarations and endpoints of the refreshed files that the extraction
\* did not renew, and for each the node of the same file and name that it did:
\* one of them, the last in the order of the keys.
Identity(i) == IF i \in Decls THEN <<PathOf[i], NameOf[i]>> ELSE <<PathOf[i], i>>

CollectNodes ==
    /\ op.pc = "collect"
    /\ LET mine  == {i \in Here : PathOf[i] \in Paths}
           stale == {i \in mine : nodes[i] # head}
       IN  \E last \in SUBSET (mine \ stale) :
               /\ \A j \in mine \ stale : \E e \in last : Identity(e) = Identity(j)
               /\ \A d, e \in last : Identity(d) = Identity(e) => d = e
               /\ op' = [op EXCEPT !.pc = "nodes", !.keys = stale, !.removed = stale,
                                   !.succ = {p \in stale \X last :
                                                 Identity(p[1]) = Identity(p[2])}]
    /\ UNCHANGED <<graphTables, pub, learn, learns, halts>>

\* A batch of NODES; the flow goes on when none is left.
DeleteNodes ==
    /\ op.pc \in {"nodes", "gcnodes"}
    /\ \/ /\ op.keys = {}
          /\ op' = [op EXCEPT !.pc = IF op.pc = "nodes" THEN "relate" ELSE "gcrelate"]
          /\ nodes' = nodes
       \/ \E b \in SUBSET op.keys \ {{}} :
              /\ DropNodes(b)
              /\ op' = [op EXCEPT !.keys = @ \ b]
    /\ UNCHANGED <<edges, out, inc, pub, learn, learns, halts>>

\* The mapped endpoint; Names has none of the removed nodes.
Mapped(i) == IF i \notin op.removed THEN {i} ELSE {p[2] : p \in {q \in op.succ : q[1] = i}}

\* Mutated: an edge that touches a removed node is always dropped.
MovedNever(ks) == {}

\* Where the edges of a removed declaration go: both ends must have a successor.
Moved(ks) ==
    UNION {{<<k[1], s, t>> : s \in Mapped(Source(k)), t \in Mapped(Target(k))} : k \in ks}

\* The calls of a refreshed declaration: the new extraction replaces them.
RetiredCalls(refreshed) ==
    {k \in Rels : edges[k] < head /\ k[1] = "calls" /\ Source(k) \in refreshed}

\* The refreshed nodes are those of the first scan: no other writer touches the
\* declarations meanwhile.
CollectEdges ==
    /\ op.pc = "relate"
    /\ LET refreshed == {i \in Here : PathOf[i] \in Paths} \union op.removed
           retired   == RetiredCalls(refreshed)
           touching  == {k \in Rels \ retired : /\ edges[k] < head
                                                /\ {Source(k), Target(k)} \intersect op.removed # {}}
       IN  op' = [op EXCEPT !.pc = "edges", !.keys = retired \union touching,
                            !.moved = Moved(touching)]
    /\ UNCHANGED <<graphTables, pub, learn, learns, halts>>

DeleteEdges ==
    /\ op.pc \in {"edges", "gcedges"}
    /\ \/ /\ op.keys = {}
          /\ op' = IF op.pc = "edges"
                   THEN [op EXCEPT !.pc = "insert", !.keys = op.moved] ELSE Idle
          /\ UNCHANGED <<edges, out, inc>>
       \/ \E b \in SUBSET op.keys \ {{}} :
              /\ DropEdges(b)
              /\ op' = [op EXCEPT !.keys = @ \ b]
    /\ UNCHANGED <<nodes, pub, learn, learns, halts>>

\* The moved edges are inserted last.
InsertMoved ==
    /\ op.pc = "insert"
    /\ \/ /\ op.keys = {}
          /\ op' = IF op.kind = "only" THEN Idle ELSE [op EXCEPT !.pc = "resolve"]
          /\ UNCHANGED <<edges, out, inc>>
       \/ \E b \in SUBSET op.keys \ {{}} :
              /\ PutEdges(b, head)
              /\ op' = [op EXCEPT !.keys = @ \ b]
    /\ UNCHANGED <<nodes, pub, learn, learns, halts>>
-----------------------------------------------------------------------------
(* resolve_symbol_edges: a reference to a name that exactly one declaration *)
(* has becomes an edge to it.                                               *)

\* What the read finds to bind: the exact-name rung of the ladder alone.  The
\* same-file and receiver tie-breaks, the qualified names, the suffix and
\* terminal fallbacks and the api routes are left out.
Bindings ==
    {p \in Rels \X Decls :
        /\ Target(p[1]) \in Names
        /\ {e \in Decls : nodes[e] # 0 /\ NameOf[e] = Target(p[1])} = {p[2]}}

ResolveRead ==
    /\ op.pc = "resolve"
    /\ op' = [op EXCEPT !.pc = "bind", !.keys = Bindings]
    /\ UNCHANGED <<graphTables, pub, learn, learns, halts>>

\* One transaction; the bound edge keeps the generation of the reference.
Bound(ks) == {<<"calls", Source(p[1]), p[2]>> : p \in ks}

ResolveWrite ==
    /\ op.pc = "bind"
    /\ LET old == {p[1] : p \in op.keys}
           new == Bound(op.keys)
           gen(k) == edges[CHOOSE o \in old : <<o, Target(k)>> \in op.keys
                                              /\ Source(o) = Source(k)]
       IN  /\ edges' = [k \in Keys |-> IF k \in new THEN gen(k)
                                       ELSE IF k \in old THEN 0 ELSE edges[k]]
           /\ out' = (out \ old) \union new
           /\ inc' = (inc \ old) \union new
    /\ op' = IF op.kind = "update" THEN Idle ELSE [Idle EXCEPT !.pc = "baseline"]
    /\ enriched' = TRUE
    /\ UNCHANGED <<nodes, live, severed, head, base, learn, learns, halts>>

\* A full index records the baseline of the collection sweep last.
SetBaseline ==
    /\ op.pc = "baseline"
    /\ base' = head
    /\ op' = Idle
    /\ UNCHANGED <<graphTables, live, severed, enriched, head, learn, learns, halts>>
-----------------------------------------------------------------------------
(* purge_generations_below, in the collection sweep.                       *)

Stale(g) == g < base

CollectStaleNodes ==
    /\ op = Idle /\ "gc" \in mix.flows /\ base # 0
    /\ op' = [Idle EXCEPT !.pc = "gcnodes", !.kind = "gc",
                          !.keys = {i \in Here : Stale(nodes[i])}]
    /\ UNCHANGED <<graphTables, pub, learn, learns, halts>>

CollectStaleEdges ==
    /\ op.pc = "gcrelate"
    /\ op' = [op EXCEPT !.pc = "gcedges", !.keys = {k \in Rels : Stale(edges[k])}]
    /\ UNCHANGED <<graphTables, pub, learn, learns, halts>>
-----------------------------------------------------------------------------
(* delete_project_data: each table is drained before the next one.  A batch *)
(* is read and then removed by key, and nobody else removes keys meanwhile, *)
(* so it goes in one step.  A repair of the graph starts with it and indexes *)
(* the project again.                                                       *)

WipeBegin ==
    /\ op = Idle /\ "wipe" \in mix.flows /\ head \in 1 .. mix.gens - 1
    /\ op' = [Idle EXCEPT !.pc = "wnodes", !.kind = "wipe"]
    /\ UNCHANGED <<graphTables, pub, learn, learns, halts>>

DrainNodes ==
    /\ op.pc = "wnodes"
    /\ \/ Here = {} /\ op' = [op EXCEPT !.pc = "wedges"] /\ nodes' = nodes
       \/ \E b \in SUBSET Here \ {{}} : DropNodes(b) /\ op' = op
    /\ UNCHANGED <<edges, out, inc, pub, learn, learns, halts>>

DrainEdges ==
    /\ op.pc = "wedges"
    /\ \/ Rels = {} /\ op' = [op EXCEPT !.pc = "wout"] /\ edges' = edges
       \/ \E b \in SUBSET Rels \ {{}} :
              /\ edges' = [k \in Keys |-> IF k \in b THEN 0 ELSE edges[k]]
              /\ op' = op
    /\ UNCHANGED <<nodes, out, inc, pub, learn, learns, halts>>

DrainOut ==
    /\ op.pc = "wout"
    /\ \/ out = {} /\ op' = [op EXCEPT !.pc = "win"] /\ out' = out
       \/ \E b \in SUBSET out \ {{}} : out' = out \ b /\ op' = op
    /\ UNCHANGED <<nodes, edges, inc, pub, learn, learns, halts>>

DrainIn ==
    /\ op.pc = "win"
    /\ \/ /\ inc = {} /\ inc' = inc
          /\ \E l \in Extractions(Files) :
                 op' = [Idle EXCEPT !.pc = "upsert", !.kind = "wipe", !.layout = l]
       \/ \E b \in SUBSET inc \ {{}} : inc' = inc \ b /\ op' = op
    /\ UNCHANGED <<nodes, edges, out, pub, learn, learns, halts>>
-----------------------------------------------------------------------------
(* record_cooccurrence: the generation is read first, the event written in *)
(* one transaction later.                                                  *)

LearnRead ==
    /\ learn = 0 /\ learns < mix.learns /\ head # 0
    /\ learn' = head
    /\ learns' = learns + 1
    /\ UNCHANGED <<graphTables, pub, op, halts>>

Pairs == {<<"learned", a, b>> : a, b \in Hits} \ {<<"learned", a, a>> : a \in Hits}

\* Both directions of every pair, with their endpoints.
LearnWrite ==
    /\ learn # 0
    /\ nodes' = [i \in Ids |-> IF i \in Hits THEN learn ELSE nodes[i]]
    /\ PutEdges(Pairs, learn)
    /\ learn' = 0
    /\ UNCHANGED <<pub, op, learns, halts>>

\* The process stops: what was committed stays.
Halt ==
    /\ halts < mix.halts
    /\ op # Idle \/ learn # 0
    /\ op' = Idle /\ learn' = 0
    /\ halts' = halts + 1
    /\ UNCHANGED <<graphTables, pub, learns>>

GraphNext ==
    \/ \E kind \in {"index", "update", "only", "repair"}, paths \in SUBSET Files \ {{}} :
           \E l \in Extractions(paths) : BeginFlow(kind, paths, l)
    \/ UpsertGraph \/ Publish
    \/ CollectNodes \/ DeleteNodes \/ CollectEdges \/ DeleteEdges \/ InsertMoved
    \/ ResolveRead \/ ResolveWrite \/ SetBaseline
    \/ CollectStaleNodes \/ CollectStaleEdges
    \/ WipeBegin \/ DrainNodes \/ DrainEdges \/ DrainOut \/ DrainIn
    \/ LearnRead \/ LearnWrite \/ Halt

GraphSpec == GraphInit /\ [][GraphNext /\ UNCHANGED mix]_<<graphVars, mix>>
-----------------------------------------------------------------------------
(* Properties.                                                             *)

\* What may happen beside the drain of a repair.
Unstopped == "wipe" \in mix.flows => mix.halts = 0
Uncrossed == "wipe" \in mix.flows => mix.learns = 0

\* The tables agree with each other and with what is published.  The adjacency
\* tables mirror the edges, so a traversal from either end sees exactly the
\* stored relations (only the drain of a repair, which empties the tables one by
\* one, may be seen in between, where it is neither stopped nor crossed by a
\* search session); and no purge, at any of its batches, removes a declaration of
\* the published text: unchanged files stay behind at older generations than the
\* last update.
TablesAgree ==
    /\ Unstopped /\ Uncrossed /\ op.pc \notin {"wedges", "wout", "win"} =>
           out = Rels /\ inc = Rels
    /\ Unstopped /\ op.kind # "wipe" => Declared(live) \subseteq Here

Bindable(c) == c \notin severed /\ \E e \in Named(live, c[2]) : Named(live, c[2]) = {e}
BoundCalls  == {k \in Rels : k[1] = "calls" /\ Target(k) \in Decls}

\* Nothing stops a flow, and no full repair leaves old declarations behind.
Undisturbed == mix.halts = 0 /\ "repair" \notin mix.flows

\* The calls of the graph are those of the published text.  Once the resolver
\* ran, a call whose target is declared once is bound to that declaration,
\* wherever it moved since the caller was extracted; and no call is bound that
\* the text does not make: the purge neither keeps the calls of a refreshed file
\* nor revives them (purge_stale_nodes_for_paths with resolve_symbol_edges, for
\* updates that nothing interrupts).
CallsBound ==
    Undisturbed /\ op = Idle =>
        /\ enriched => \A c \in Calls(live) : Bindable(c) =>
               \E e \in Named(live, c[2]) : <<"calls", c[1], e>> \in BoundCalls
        /\ \A k \in BoundCalls :
               /\ <<Source(k), NameOf[Target(k)]>> \in Calls(live)
               /\ Target(k) \in Declared(live)
=============================================================================
