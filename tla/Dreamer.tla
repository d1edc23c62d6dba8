------------------------------ MODULE Dreamer ------------------------------
(***************************************************************************)
(* The dreamer (actors/dreamer.rs): one actor consumes the broadcast of    *)
(* application events, learns from search sessions which chunks occur      *)
(* together, and in an idle window dreams over the projects with new       *)
(* activity: every cluster without an insight is summarised, stored in the *)
(* graph (a node, its edges and its fingerprint, three transactions) and   *)
(* indexed as a document.  The tool dream_project with wait runs the same  *)
(* dream beside the actor under a timeout.  Nothing serialises the two.    *)
(*                                                                         *)
(* A cluster is its fingerprint; a session may complete one.  The rules    *)
(* that find design antipatterns give further clusters of the same kind.   *)
(***************************************************************************)
EXTENDS Integers, Sequences, FiniteSets

CONSTANTS
    Dreamt,        \* the projects the dreamer knows
    Clusters,
    ProjectOf,     \* the project of a cluster
    Settings,      \* what a behaviour may contain, see setting
    Capacity,      \* bound: of the broadcast channel
    MaxClusters,   \* max_clusters of a dream
    MaxFaults      \* bound: faults

Dreamers == {"actor", "tool"}

VARIABLES
    setting,   \* [tool, faults, sessions]: whether dream_project is called; the
               \* faults: "timeout" of the tool, "crash", "fail": an operation
               \* returns an error, "exit": the process ends; and the bound on
               \* search sessions, watch updates and calls of the tool
    queue,     \* the actor's side of the broadcast: events it has not received
    dirty,     \* actor: projects with activity since their last dream
    batch,     \* actor: projects that the idle pass has still to dream
    quiet,     \* actor: dream_idle_after_secs passed since the last event
    busy,      \* active_indexing_count is not 0
    stopping,  \* the shutdown token
    up,        \* the process runs
    learned,   \* graph: clusters of co-occurring chunks
    insights,  \* graph: per cluster, insight nodes
    linked,    \* graph: per cluster, insight nodes with their edges
    marked,    \* graph: INSIGHT_FINGERPRINTS
    docs,      \* index: per cluster, insight documents
    dream,     \* per dreamer: [pc, project, left, at]
    sessions, faults   \* counters for the bounds

store == <<learned, insights, linked, marked, docs>>
inbox == <<queue, dirty, batch, quiet>>
env   == <<busy, stopping, up, sessions, faults>>
dreamerVars  == <<inbox, env, store, dream>>

Awake  == [pc |-> "off", project |-> "none", left |-> {}, at |-> "none"]
Of(p)  == {c \in Clusters : ProjectOf[c] = p}

Faults == setting.faults

DreamerInit ==
    /\ setting \in Settings
    /\ queue = <<>> /\ dirty = {} /\ batch = {} /\ quiet = FALSE
    /\ busy = FALSE /\ stopping = FALSE /\ up = TRUE
    /\ learned = {}
    /\ insights = [c \in Clusters |-> 0]
    /\ linked = [c \in Clusters |-> 0]
    /\ marked = {}
    /\ docs = [c \in Clusters |-> 0]
    /\ dream = [d \in Dreamers |-> Awake]
    /\ sessions = 0 /\ faults = 0
-----------------------------------------------------------------------------
(* Events.  The channel keeps the newest ones: a slow receiver is told that *)
(* it lagged and goes on with what is left.                                 *)

AppEvents == [kind : {"session", "watch", "trigger", "reindex"}, cluster : Clusters]

Broadcast(e) ==
    queue' = IF Len(queue) < Capacity THEN Append(queue, e) ELSE Append(Tail(queue), e)

\* search_memory, the watcher, dream_project without wait, a failed vector write.
Send(e) ==
    /\ up /\ sessions < setting.sessions
    /\ sessions' = sessions + 1
    /\ Broadcast(e)
    /\ UNCHANGED <<dirty, batch, quiet, busy, stopping, up, faults, store, dream>>

StartDream(d, p) == dream' = [dream EXCEPT ![d] = [Awake EXCEPT !.pc = "scan", !.project = p]]

ActorFree == up /\ dream["actor"].pc = "off" /\ batch = {}

\* A session is learned and makes its project dirty; a watch update makes it
\* dirty.  A requirement to reindex is only reported: its emitter recorded it.
Dirty(e) ==
    dirty \union IF e.kind \in {"session", "watch"} THEN {ProjectOf[e.cluster]} ELSE {}

Receive ==
    /\ ActorFree /\ queue # <<>>
    /\ queue' = Tail(queue)
    /\ quiet' = FALSE
    /\ LET e == Head(queue)
       IN  /\ learned' = IF e.kind = "session" THEN learned \union {e.cluster} ELSE learned
           /\ dirty' = Dirty(e)
           /\ IF e.kind = "trigger" THEN StartDream("actor", ProjectOf[e.cluster])
                                    ELSE dream' = dream
    /\ UNCHANGED <<batch, env, insights, linked, marked, docs>>

\* Time passes without an event (which matters once a project is dirty);
\* indexing starts and ends.
Quieten ==
    /\ up /\ ~quiet /\ dirty # {}
    /\ quiet' = TRUE
    /\ UNCHANGED <<queue, dirty, batch, env, store, dream>>

SetBusy(b) ==
    /\ up /\ busy # b
    /\ busy' = b
    /\ UNCHANGED <<inbox, stopping, up, sessions, faults, store, dream>>

\* Mutated: the dirty projects are drained before the check of the indexing.
TickDrains ==
    /\ ActorFree /\ quiet /\ dirty # {}
    /\ batch' = IF busy THEN {} ELSE dirty
    /\ dirty' = {}
    /\ UNCHANGED <<queue, quiet, env, store, dream>>

\* The idle pass takes all dirty projects, unless indexing is going on.
Tick ==
    /\ ActorFree /\ quiet /\ dirty # {} /\ ~busy
    /\ batch' = dirty
    /\ dirty' = {}
    /\ UNCHANGED <<queue, quiet, env, store, dream>>

\* The next project of the pass; the token is looked at first.  The idle time
\* is counted anew (the code does it at the end of the pass).
NextProject ==
    /\ up /\ dream["actor"].pc = "off" /\ ~stopping
    /\ \E p \in batch :
           /\ StartDream("actor", p)
           /\ batch' = batch \ {p}
    /\ quiet' = FALSE
    /\ UNCHANGED <<queue, dirty, env, store>>

\* dream_project with wait.
CallTool ==
    /\ setting.tool /\ up /\ dream["tool"].pc = "off"
    /\ sessions < setting.sessions
    /\ sessions' = sessions + 1
    /\ \E p \in Dreamt : StartDream("tool", p)
    /\ UNCHANGED <<inbox, busy, stopping, up, faults, store>>
-----------------------------------------------------------------------------
(* dream_once.                                                             *)

At(d, pc) == up /\ dream[d].pc = pc
Goto(d, pc) == dream' = [dream EXCEPT ![d].pc = pc]

\* find_cooccurrence_clusters: at most MaxClusters of the learned clusters that
\* no insight is linked to.
Scan(d) ==
    /\ At(d, "scan")
    /\ LET found == {c \in learned \intersect Of(dream[d].project) : linked[c] = 0}
       IN  \E s \in SUBSET found :
               /\ Cardinality(s) = IF Cardinality(found) < MaxClusters
                                   THEN Cardinality(found) ELSE MaxClusters
               /\ dream' = [dream EXCEPT ![d].pc = "check", ![d].left = s]
    /\ UNCHANGED <<inbox, env, store>>

Drop(d, c) == dream' = [dream EXCEPT ![d].left = @ \ {c}]
Take(d, c) ==
    dream' = [dream EXCEPT ![d].pc = "summarize", ![d].at = c, ![d].left = @ \ {c}]

\* Mutated: without the search for an unmarked node.
CheckUnhydrated(d, c) ==
    /\ At(d, "check") /\ c \in dream[d].left
    /\ IF c \in marked THEN Drop(d, c) ELSE Take(d, c)
    /\ UNCHANGED <<inbox, env, store>>

\* fingerprint_has_insight: a mark, or an insight node, which is marked then.
Check(d, c) ==
    /\ At(d, "check") /\ c \in dream[d].left
    /\ IF c \in marked \/ insights[c] # 0
       THEN Drop(d, c) /\ marked' = marked \union {c}
       ELSE Take(d, c) /\ marked' = marked
    /\ UNCHANGED <<inbox, env, learned, insights, linked, docs>>

\* The texts are read and summarised; without any the cluster is passed over.
Summarize(d) ==
    /\ At(d, "summarize")
    /\ Goto(d, "node")
    /\ UNCHANGED <<inbox, env, store>>

NoContext(d) ==
    /\ At(d, "summarize") /\ "fail" \in Faults
    /\ Goto(d, "check")
    /\ UNCHANGED <<inbox, env, store>>

\* create_insight: the node, its edges, its fingerprint.
CreateNode(d) ==
    /\ At(d, "node")
    /\ insights' = [insights EXCEPT ![dream[d].at] = @ + 1]
    /\ Goto(d, "edges")
    /\ UNCHANGED <<inbox, env, learned, linked, marked, docs>>

CreateEdges(d) ==
    /\ At(d, "edges")
    /\ linked' = [linked EXCEPT ![dream[d].at] = @ + 1]
    /\ Goto(d, "mark")
    /\ UNCHANGED <<inbox, env, learned, insights, marked, docs>>

SetFingerprint(d) ==
    /\ At(d, "mark")
    /\ marked' = marked \union {dream[d].at}
    /\ Goto(d, "index")
    /\ UNCHANGED <<inbox, env, learned, insights, linked, docs>>

\* The document of the insight.
IndexDoc(d) ==
    /\ At(d, "index")
    /\ docs' = [docs EXCEPT ![dream[d].at] = @ + 1]
    /\ Goto(d, "check")
    /\ UNCHANGED <<inbox, env, learned, insights, linked, marked>>

End(d) ==
    /\ At(d, "check") /\ dream[d].left = {}
    /\ dream' = [dream EXCEPT ![d] = Awake]
    /\ UNCHANGED <<inbox, env, store>>
-----------------------------------------------------------------------------
(* Faults.                                                                 *)

\* Where a dream awaits; the three graph transactions follow each other
\* without an await.
Awaiting(d) == dream[d].pc \in {"scan", "check", "summarize", "index"}

Fault(kind) == kind \in Faults /\ up /\ faults < MaxFaults /\ faults' = faults + 1

Timeout ==
    /\ Fault("timeout")
    /\ Awaiting("tool")
    /\ dream' = [dream EXCEPT !["tool"] = Awake]
    /\ UNCHANGED <<inbox, busy, stopping, up, sessions, store>>

\* An error ends the dream; the caller logs it.
Fails(d) ==
    /\ Fault("fail") /\ dream[d].pc # "off"
    /\ dream' = [dream EXCEPT ![d] = Awake]
    /\ UNCHANGED <<inbox, busy, stopping, up, sessions, store>>

\* The process stops and starts again with empty memory.
Crash ==
    /\ Fault("crash")
    /\ queue' = <<>> /\ dirty' = {} /\ batch' = {} /\ quiet' = FALSE
    /\ dream' = [d \in Dreamers |-> Awake]
    /\ UNCHANGED <<busy, stopping, up, sessions, store>>

\* The shutdown token is cancelled (only the daemon does it) or not; the process
\* does not wait for the actors, and the runtime drops their tasks where they
\* await.
StopToken ==
    /\ "exit" \in Faults /\ up /\ ~stopping
    /\ stopping' = TRUE
    /\ UNCHANGED <<inbox, busy, up, sessions, faults, store, dream>>

Exit ==
    /\ Fault("exit")
    /\ \A d \in Dreamers : dream[d].pc = "off" \/ Awaiting(d)
    /\ up' = FALSE
    /\ dream' = [d \in Dreamers |-> Awake]
    /\ UNCHANGED <<inbox, busy, stopping, sessions, store>>

DreamStep(d) ==
    \/ Scan(d) \/ Summarize(d) \/ CreateNode(d) \/ CreateEdges(d)
    \/ SetFingerprint(d) \/ IndexDoc(d) \/ End(d)
    \/ \E c \in Clusters : Check(d, c)

DreamerNext ==
    \/ \E e \in AppEvents : Send(e)
    \/ Receive \/ Quieten \/ Tick \/ NextProject \/ CallTool
    \/ \E b \in BOOLEAN : SetBusy(b)
    \/ \E d \in Dreamers : DreamStep(d) \/ NoContext(d) \/ Fails(d)
    \/ Timeout \/ Crash \/ StopToken \/ Exit

DreamerSpec == DreamerInit /\ [][DreamerNext /\ UNCHANGED setting]_<<dreamerVars, setting>>

\* The runtime polls its tasks.  Indexing ends again and again, and so does the
\* activity of the clients: the idle window is met at some time when it comes
\* back for ever.
DreamerFairness ==
    /\ WF_dreamerVars(Receive) /\ WF_dreamerVars(NextProject) /\ WF_dreamerVars(Quieten)
    /\ WF_dreamerVars(SetBusy(FALSE))
    /\ SF_dreamerVars(Tick)
    /\ \A d \in Dreamers : WF_dreamerVars(DreamStep(d))

-----------------------------------------------------------------------------
(* Properties.                                                             *)

Resting == \A d \in Dreamers : dream[d].pc = "off"

\* Crashes, errors and timeouts at every transaction leave sound insights.  A
\* fingerprint stands for a stored insight (one that ran ahead would keep its
\* cluster from ever being summarised), and what is linked or indexed has its
\* node; the actor alone never writes a second insight for a cluster; and
\* without a fault whoever finished left insights linked and searchable.
InsightsAreSound ==
    \A c \in Clusters :
        /\ c \in marked => insights[c] # 0
        /\ docs[c] <= linked[c] /\ linked[c] <= insights[c]
        /\ ~setting.tool => insights[c] <= 1
        /\ Resting /\ faults = 0 => docs[c] = insights[c]

\* The idle pass dreams as many other clusters of c's project as it may.
CrowdedOut(c) ==
    LET x == dream["actor"]
    IN  /\ x.pc = "check" /\ x.project = ProjectOf[c] /\ x.project \notin dirty
        /\ Cardinality(x.left) = MaxClusters /\ c \notin x.left

\* As long as nothing fails, what the actor learned is dreamt unless the cap on
\* the clusters of a dream leaves it out, and what a dream took up it finishes:
\* neither a busy indexer, nor the order of the events, nor a dream asked for in
\* between makes the actor lose the mark of an active project.
LearnedIsDreamt ==
    \A c \in Clusters :
        /\ c \in learned /\ ProjectOf[c] \in dirty
              ~> insights[c] # 0 \/ CrowdedOut(c) \/ Faults # {}
        /\ c \in dream["actor"].left ~> insights[c] # 0 \/ Faults # {}
=============================================================================
