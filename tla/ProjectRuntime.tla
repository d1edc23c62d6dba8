--------------------------- MODULE ProjectRuntime ---------------------------
(***************************************************************************)
(* state.rs, project_service.rs: the cache of open project runtimes with   *)
(* its LRU eviction, the runtime lock that makes opening single-flight,    *)
(* the update lock and the map it lives in, with the callers that open     *)
(* runtimes: handlers (ensure_project_runtime), updates that hold the      *)
(* update lock while they do, the actors that open without the runtime     *)
(* lock, index jobs, and the deletion of a project.                        *)
(***************************************************************************)
EXTENDS Integers, Sequences, FiniteSets, SequencesExt

CONSTANTS
    Hosted,       \* project identifiers
    Callers,      \* requests and actors that can run at once
    Jobs,         \* job identifiers (UUIDs, never a project identifier)
    NoOne,        \* no caller, no project
    MaxCached,    \* MAX_CACHED_PROJECTS
    MaxCalls,     \* bound: calls
    MaxJobs       \* bound: index jobs

ASSUME RuntimeAssumption == NoOne \notin Callers

VARIABLES
    registered,   \* projects with a registry record
    directory,    \* projects whose data directory exists
    projects,     \* per project: the cached engine, 0 for none
    lru,          \* the order of last accesses, the latest last
    runtimeLock,  \* per project: the caller that holds its runtime lock
    updateLock,   \* per project: the mutex in project_update_locks, 0 for none
    holder,       \* per mutex: the caller that holds it
    activeJobs,   \* active_jobs: per job, the project it indexes or NoOne
    caller,       \* per caller: [at, kind, project, engine, lock, evict]
    sweep,        \* evict_cache_overshoot: the remaining candidates
    opened,       \* engines opened so far, per project (history)
    unlocked,     \* those opened without the runtime lock (history)
    calls, jobs   \* counters for the bounds

\* What callers do: handlers, updates, actors and deletions.
Kinds == {"ensure", "update", "open", "delete"}

cache   == <<projects, lru>>
locks   == <<runtimeLock, updateLock, holder>>
counts  == <<calls, jobs>>
engines == <<opened, unlocked>>
runtimeVars ==
    <<registered, directory, cache, locks, activeJobs, caller, sweep, engines, counts>>

\* A call as it starts, and where each kind of call does.
Calling(at, kind, p) ==
    [at |-> at, kind |-> kind, project |-> p, engine |-> 0, lock |-> 0, evict |-> NoOne]
NoCall == Calling("idle", "none", NoOne)
First(kind) ==
    CASE kind = "update" -> "find" [] kind = "delete" -> "uncache" [] OTHER -> "lookup"

RuntimeInit ==
    /\ registered = Hosted /\ directory = Hosted
    /\ projects = [p \in Hosted |-> 0]
    /\ lru = <<>>
    /\ runtimeLock = [p \in Hosted |-> NoOne]
    /\ updateLock = [p \in Hosted |-> 0]
    /\ holder = <<>>
    /\ activeJobs = [j \in Jobs |-> NoOne]
    /\ caller = [c \in Callers |-> NoCall]
    /\ sweep = <<>>
    /\ opened = [p \in Hosted |-> 0]
    /\ unlocked = [p \in Hosted |-> {}]
    /\ calls = 0 /\ jobs = 0

Cached == {p \in Hosted : projects[p] # 0}

Touch(p) == lru' = Append(Remove(lru, p), p)
Evicted(p) == projects' = [projects EXCEPT ![p] = 0] /\ lru' = Remove(lru, p)

\* The caches' filter: the projects that are no key of active_jobs.  Its keys
\* are job identifiers.
Evictable == {p \in Cached : p \notin {j \in Jobs : activeJobs[j] # NoOne}}

\* Least recently accessed first; a project without a time counts as new.
ByAge(ps) == SelectSeq(lru, LAMBDA p : p \in ps)

To(c, at) == caller' = [caller EXCEPT ![c].at = at]

-----------------------------------------------------------------------------
(* The update lock.                                                        *)

\* Mutated: the slow path replaces the mutex another caller has created.
CreateMutexAgain(c) ==
    /\ caller[c].at = "create"
    /\ LET p == caller[c].project IN
       /\ updateLock' = [updateLock EXCEPT ![p] = Len(holder) + 1]
       /\ holder' = Append(holder, NoOne)
       /\ caller' = [caller EXCEPT ![c].lock = updateLock'[p], ![c].at = "wait"]
    /\ UNCHANGED <<registered, directory, cache, runtimeLock, activeJobs, sweep, engines, counts>>

\* acquire_project_update_lock: the mutex of the project is found by the fast
\* path ...
FindMutex(c) ==
    /\ caller[c].at = "find"
    /\ LET l == updateLock[caller[c].project] IN
       IF l # 0 THEN caller' = [caller EXCEPT ![c].lock = l, ![c].at = "wait"]
                ELSE To(c, "create")
    /\ UNCHANGED <<registered, directory, cache, locks, activeJobs, sweep, engines, counts>>

\* ... or taken from the entry under the write lock, created if it is vacant.
CreateMutex(c) ==
    /\ caller[c].at = "create"
    /\ LET p == caller[c].project IN
       /\ IF updateLock[p] = 0
          THEN /\ updateLock' = [updateLock EXCEPT ![p] = Len(holder) + 1]
               /\ holder' = Append(holder, NoOne)
          ELSE UNCHANGED <<updateLock, holder>>
       /\ caller' = [caller EXCEPT ![c].lock = updateLock'[p], ![c].at = "wait"]
    /\ UNCHANGED <<registered, directory, cache, runtimeLock, activeJobs, sweep, engines, counts>>

HoldMutex(c) ==
    /\ caller[c].at = "wait"
    /\ holder[caller[c].lock] = NoOne
    /\ holder' = [holder EXCEPT ![caller[c].lock] = c]
    /\ To(c, "lookup")
    /\ UNCHANGED <<registered, directory, cache, runtimeLock, updateLock, activeJobs,
                   sweep, engines, counts>>

-----------------------------------------------------------------------------
(* ensure_project_runtime, and the actors' loaders.                        *)

\* A call starts: an update with its lock, a deletion with the cache.
Call(c, p, k) ==
    /\ caller[c] = NoCall
    /\ calls < MaxCalls
    /\ calls' = calls + 1
    /\ caller' = [caller EXCEPT ![c] = Calling(First(k), k, p)]
    /\ UNCHANGED <<registered, directory, cache, locks, activeJobs, sweep, engines, jobs>>

\* The call is over: it lets go of the locks it holds.
Return(c) ==
    /\ caller' = [caller EXCEPT ![c] = NoCall]
    /\ runtimeLock' = [p \in Hosted |-> IF runtimeLock[p] = c THEN NoOne ELSE runtimeLock[p]]
    /\ holder' = [l \in DOMAIN holder |-> IF holder[l] = c THEN NoOne ELSE holder[l]]
    /\ UNCHANGED updateLock

\* An update goes on with the runtime it got; any other call returns.
Got(c) ==
    IF caller[c].kind = "update"
    THEN /\ To(c, "working")
         /\ runtimeLock' = [p \in Hosted |->
               IF runtimeLock[p] = c THEN NoOne ELSE runtimeLock[p]]
         /\ UNCHANGED <<updateLock, holder>>
    ELSE Return(c)

\* get_project_cached; a miss goes for the runtime lock, an actor's does not.
Lookup(c) ==
    /\ caller[c].at = "lookup"
    /\ LET p == caller[c].project IN
       IF p \in Cached
       THEN Touch(p) /\ Got(c) /\ UNCHANGED projects
       ELSE /\ To(c, IF caller[c].kind = "open" THEN "record" ELSE "runtime")
            /\ UNCHANGED <<cache, locks>>
    /\ UNCHANGED <<registered, directory, activeJobs, sweep, engines, counts>>

\* Mutated: the cache is not looked at again under the runtime lock.
LockRuntimeBlind(c) ==
    /\ caller[c].at = "runtime"
    /\ LET p == caller[c].project IN
       /\ runtimeLock[p] = NoOne
       /\ runtimeLock' = [runtimeLock EXCEPT ![p] = c]
       /\ To(c, "record")
    /\ UNCHANGED <<registered, directory, cache, updateLock, holder, activeJobs, sweep,
                   engines, counts>>

\* The runtime lock, and the second look at the cache.
LockRuntime(c) ==
    /\ caller[c].at = "runtime"
    /\ LET p == caller[c].project IN
       /\ runtimeLock[p] = NoOne
       /\ IF p \in Cached
          THEN Touch(p) /\ Got(c) /\ UNCHANGED projects
          ELSE /\ runtimeLock' = [runtimeLock EXCEPT ![p] = c]
               /\ To(c, "record")
               /\ UNCHANGED <<cache, updateLock, holder>>
    /\ UNCHANGED <<registered, directory, activeJobs, sweep, engines, counts>>

\* ensure_project_record, or the loader's get_project: no record, no runtime.
ReadRecord(c) ==
    /\ caller[c].at = "record"
    /\ IF caller[c].project \in registered
       THEN To(c, "open") /\ UNCHANGED locks
       ELSE Return(c)
    /\ UNCHANGED <<registered, directory, cache, activeJobs, sweep, engines, counts>>

\* The data directories are created, and the engine is opened in them.
OpenEngine(c) ==
    /\ caller[c].at = "open"
    /\ LET p == caller[c].project IN
       /\ directory' = directory \cup {p}
       /\ opened' = [opened EXCEPT ![p] = @ + 1]
       /\ unlocked' = [unlocked EXCEPT ![p] =
              IF caller[c].kind = "open" THEN @ \cup {opened'[p]} ELSE @]
       /\ caller' = [caller EXCEPT ![c].engine = opened'[p], ![c].at = "put"]
    /\ UNCHANGED <<registered, cache, locks, activeJobs, sweep, counts>>

\* put_project_cached: at capacity, the least recently used project that the
\* filter admits is chosen ...
PutChoose(c) ==
    /\ caller[c].at = "put"
    /\ IF Cardinality(Cached) >= MaxCached /\ caller[c].project \notin Cached
            /\ ByAge(Evictable) # <<>>
       THEN caller' = [caller EXCEPT ![c].evict = Head(ByAge(Evictable)), ![c].at = "evict"]
       ELSE To(c, "insert")
    /\ UNCHANGED <<registered, directory, cache, locks, activeJobs, sweep, engines, counts>>

\* ... and removed ...
PutEvict(c) ==
    /\ caller[c].at = "evict"
    /\ Evicted(caller[c].evict)
    /\ To(c, "insert")
    /\ UNCHANGED <<registered, directory, locks, activeJobs, sweep, engines, counts>>

\* ... and the new runtime takes its place.
PutInsert(c) ==
    /\ caller[c].at = "insert"
    /\ Touch(caller[c].project)
    /\ projects' = [projects EXCEPT ![caller[c].project] = caller[c].engine]
    /\ Got(c)
    /\ UNCHANGED <<registered, directory, activeJobs, sweep, engines, counts>>

\* The update is done, or failed.
FinishUpdate(c) ==
    /\ caller[c].at = "working"
    /\ Return(c)
    /\ UNCHANGED <<registered, directory, cache, activeJobs, sweep, engines, counts>>

-----------------------------------------------------------------------------
(* handle_delete_project, after it has aborted the project's jobs.         *)

DeleteCached(c) ==
    /\ caller[c].at = "uncache"
    /\ projects' = [projects EXCEPT ![caller[c].project] = 0]
    /\ To(c, "unlock")
    /\ UNCHANGED <<registered, directory, lru, locks, activeJobs, sweep, engines, counts>>

DeleteLock(c) ==
    /\ caller[c].at = "unlock"
    /\ updateLock' = [updateLock EXCEPT ![caller[c].project] = 0]
    /\ To(c, "unregister")
    /\ UNCHANGED <<registered, directory, cache, runtimeLock, holder, activeJobs, sweep,
                   engines, counts>>

DeleteRecord(c) ==
    /\ caller[c].at = "unregister"
    /\ registered' = registered \ {caller[c].project}
    /\ To(c, "rmdir")
    /\ UNCHANGED <<directory, cache, locks, activeJobs, sweep, engines, counts>>

DeleteDirectory(c) ==
    /\ caller[c].at = "rmdir"
    /\ directory' = directory \ {caller[c].project}
    /\ Return(c)
    /\ UNCHANGED <<registered, cache, activeJobs, sweep, engines, counts>>

-----------------------------------------------------------------------------
(* Index jobs, whose end evicts what the cache holds too much.             *)

StartJob(j, p) ==
    /\ activeJobs[j] = NoOne /\ p \in Cached
    /\ jobs < MaxJobs
    /\ jobs' = jobs + 1
    /\ activeJobs' = [activeJobs EXCEPT ![j] = p]
    /\ UNCHANGED <<registered, directory, cache, locks, caller, sweep, engines, calls>>

\* evict_cache_overshoot lists its candidates; the job leaves active_jobs.
EndJob(j) ==
    /\ activeJobs[j] # NoOne /\ sweep = <<>>
    /\ sweep' = IF Cardinality(Cached) > MaxCached THEN ByAge(Evictable) ELSE <<>>
    /\ activeJobs' = [activeJobs EXCEPT ![j] = NoOne]
    /\ UNCHANGED <<registered, directory, cache, locks, caller, engines, counts>>

\* One candidate after the other, until the cache fits.
Sweep ==
    /\ sweep # <<>>
    /\ IF Cardinality(Cached) > MaxCached
       THEN Evicted(Head(sweep)) /\ sweep' = Tail(sweep)
       ELSE sweep' = <<>> /\ UNCHANGED cache
    /\ UNCHANGED <<registered, directory, locks, activeJobs, caller, engines, counts>>

Advance(c) ==
    \/ FindMutex(c) \/ CreateMutex(c) \/ HoldMutex(c)
    \/ Lookup(c) \/ LockRuntime(c) \/ ReadRecord(c) \/ OpenEngine(c)
    \/ PutChoose(c) \/ PutEvict(c) \/ PutInsert(c) \/ FinishUpdate(c)
    \/ DeleteCached(c) \/ DeleteLock(c) \/ DeleteRecord(c) \/ DeleteDirectory(c)

RuntimeNext ==
    \/ \E c \in Callers : Advance(c) \/ \E p \in Hosted, k \in Kinds : Call(c, p, k)
    \/ \E j \in Jobs : EndJob(j) \/ \E p \in Hosted : StartJob(j, p)
    \/ Sweep

RuntimeSpec == RuntimeInit /\ [][RuntimeNext]_runtimeVars

-----------------------------------------------------------------------------
(* Properties.                                                             *)

\* Opening is single-flight: an engine that ensure_project_runtime has opened
\* never takes the place of another that it opened and that is still cached,
\* however evictions, deletions and the actors' own loaders interleave.
OneEngine ==
    \A c \in Callers :
        LET p == caller[c].project IN
        caller[c].at \in {"put", "evict", "insert"} /\ caller[c].kind # "open"
            => projects[p] = 0 \/ projects[p] \in unlocked[p]

\* "Prevents concurrent calls to update_project_impl for the same project": of
\* two calls that have passed acquire_project_update_lock for a project that
\* nobody deletes, one waits.
Updating(c, p) == caller[c].project = p /\ \E l \in DOMAIN holder : holder[l] = c
Deleting(p) == \E c \in Callers : caller[c].project = p /\ caller[c].kind = "delete"
UpdatesAreSerialized ==
    \A p \in registered : ~Deleting(p) =>
        \A c, d \in Callers : Updating(c, p) /\ Updating(d, p) => c = d
=============================================================================
