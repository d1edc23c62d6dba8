------------------------------- MODULE Daemon -------------------------------
(***************************************************************************)
(* multi_client.rs on Unix: the processes that share one data directory.   *)
(*                                                                         *)
(* Clients are the MCP-facing processes.  With a shared daemon they never  *)
(* open storage: they connect to the socket file and start a detached      *)
(* daemon when nobody listens (run_client).  Without it, dispatch elects   *)
(* an in-process primary and the others become proxies (run_proxy).        *)
(* Hosts are the process slots that can run run_primary_core.  The lock,   *)
(* the metadata file, the socket file and the storage are all a process    *)
(* knows of the others; each is read and written in its own step.          *)
(***************************************************************************)
EXTENDS Integers, FiniteSets

CONSTANTS
    Clients,        \* MCP-facing processes
    Hosts,          \* process slots that can run a primary
    None,           \* no process
    MaxSessions,    \* stands for MAX_CONCURRENT_SESSIONS
    MaxTries,       \* connection attempts before the client's deadline
    IdleTimeout     \* watchdog polls in multi_client_idle_timeout_secs

ASSUME DaemonAssumption ==
    /\ None \notin Clients \cup Hosts
    /\ MaxSessions \in Nat \ {0}
    /\ MaxTries \in Nat \ {0}
    /\ IdleTimeout \in Nat \ {0}

VARIABLES
    shared,     \* Config::multi_client_daemon, set before the process starts
    lock,       \* the host that holds the lock file, or None
    metadata,   \* the host the metadata file describes, or None
    socket,     \* the host whose listener the socket file was bound to
    storage,    \* the host that has the storage layers open, or None
    stage,      \* per host: where run_primary_core stands
    listening,  \* hosts whose listener task still owns its socket
    active,     \* per host: the sessions that hold a SessionLease
    quiet,      \* per host: polls since SessionActivityState::quiet_since
    closing,    \* per host: SessionActivityState::closing
    shutdown,   \* hosts whose cancellation token has fired
    owner,      \* per host: the client whose stdio it serves, or None
    client,     \* per client: where it stands
    peer,       \* per client: the host it is connected to, or None
    spawned,    \* clients that have started a daemon
    tries,      \* per client: attempts since it started
    gap         \* history, per host: polls since a session was last admitted

files    == <<metadata, socket>>
activity == <<active, quiet, closing, shutdown, gap>>
callers  == <<client, peer, spawned, tries>>
vars     == <<lock, files, storage, stage, listening, activity, owner, callers>>

Final == {"ended", "failed"}

Init ==
    /\ shared \in BOOLEAN
    /\ lock = None /\ metadata = None /\ socket = None /\ storage = None
    /\ stage = [h \in Hosts |-> "off"]
    /\ listening = {}
    /\ active = [h \in Hosts |-> {}]
    /\ quiet = [h \in Hosts |-> 0]
    /\ closing = [h \in Hosts |-> FALSE]
    /\ shutdown = {}
    /\ owner = [h \in Hosts |-> None]
    /\ client = [c \in Clients |-> "idle"]
    /\ peer = [c \in Clients |-> None]
    /\ spawned = {}
    /\ tries = [c \in Clients |-> 0]
    /\ gap = [h \in Hosts |-> 0]

-----------------------------------------------------------------------------
(* Clients.                                                                *)

\* A host slot starts a process; own is the client whose stdio it serves.
Start(h, own, at) ==
    /\ stage[h] = "off"
    /\ stage' = [stage EXCEPT ![h] = at]
    /\ owner' = [owner EXCEPT ![h] = own]

\* dispatch with multi_client_daemon: this process only ever is a client.
DispatchClient(c) ==
    /\ shared
    /\ client[c] \in {"idle"} \cup Final
    /\ client' = [client EXCEPT ![c] = "connecting"]
    /\ spawned' = spawned \ {c}
    /\ tries' = [tries EXCEPT ![c] = 0]
    /\ UNCHANGED <<lock, files, storage, stage, listening, activity, owner, peer>>

\* dispatch without it: the winner of the lock serves its own stdio, ...
DispatchPrimary(c, h) ==
    /\ ~shared
    /\ client[c] \in {"idle"} \cup Final
    /\ lock = None
    /\ Start(h, c, "elected")
    /\ lock' = h
    /\ client' = [client EXCEPT ![c] = "hosting"]
    /\ peer' = [peer EXCEPT ![c] = h]
    /\ UNCHANGED <<files, storage, listening, activity, spawned, tries>>

\* ... a loser becomes a proxy.
DispatchProxy(c) ==
    /\ ~shared
    /\ client[c] \in {"idle"} \cup Final
    /\ lock # None
    /\ client' = [client EXCEPT ![c] = "reading"]
    /\ tries' = [tries EXCEPT ![c] = 0]
    /\ UNCHANGED <<lock, files, storage, stage, listening, activity, owner,
                   peer, spawned>>

\* Mutated: the attempts are not counted.
ReadMetadataForever(c) ==
    /\ client[c] = "reading"
    /\ client' = [client EXCEPT
           ![c] = IF metadata # None THEN "connecting" ELSE "reading"]
    /\ UNCHANGED <<lock, files, storage, stage, listening, activity, owner,
                   peer, spawned, tries>>

\* run_proxy reads the metadata file, a bounded number of times.
ReadMetadata(c) ==
    /\ client[c] = "reading"
    /\ IF metadata # None
       THEN /\ client' = [client EXCEPT ![c] = "connecting"]
            /\ UNCHANGED tries
       ELSE /\ client' = [client EXCEPT
                   ![c] = IF tries[c] < MaxTries THEN "reading" ELSE "failed"]
            /\ tries' = [tries EXCEPT ![c] = IF @ < MaxTries THEN @ + 1 ELSE @]
    /\ UNCHANGED <<lock, files, storage, stage, listening, activity, owner,
                   peer, spawned>>

\* connect() reaches the listener the socket file was bound to.
Connect(c) ==
    /\ client[c] = "connecting"
    /\ socket \in listening
    /\ client' = [client EXCEPT ![c] = "connected"]
    /\ peer' = [peer EXCEPT ![c] = socket]
    /\ UNCHANGED <<lock, files, storage, stage, listening, activity, owner,
                   spawned, tries>>

\* connect() finds no file, or a file nobody listens on.  A proxy removes
\* the file either way, a client only when the connection was refused.
ConnectFails(c) ==
    /\ client[c] = "connecting"
    /\ socket \notin listening
    /\ client' = [client EXCEPT ![c] =
           IF shared /\ socket = None THEN "missing" ELSE "refused"]
    /\ UNCHANGED <<lock, files, storage, stage, listening, activity, owner,
                   peer, spawned, tries>>

\* remove_file on the path connect() used, whatever is there by now.
ClearSocket(c) ==
    /\ client[c] = "refused"
    /\ socket' = None
    /\ client' = [client EXCEPT
           ![c] = IF shared THEN "missing" ELSE "failed"]
    /\ UNCHANGED <<lock, metadata, storage, stage, listening, activity, owner,
                   peer, spawned, tries>>

\* The end of a turn of run_client's loop: the deadline, or sleep and retry.
NextTry(c) ==
    IF tries[c] < MaxTries
    THEN /\ client' = [client EXCEPT ![c] = "connecting"]
         /\ tries' = [tries EXCEPT ![c] = @ + 1]
    ELSE /\ client' = [client EXCEPT ![c] = "failed"]
         /\ UNCHANGED tries

\* spawn_daemon_detached, once per client process.
SpawnDaemon(c, h) ==
    /\ client[c] = "missing" /\ c \notin spawned
    /\ Start(h, None, "starting")
    /\ spawned' = spawned \cup {c}
    /\ NextTry(c)
    /\ UNCHANGED <<lock, files, storage, listening, activity, peer>>

\* The spawn fails: SpawnUnavailable.
SpawnFails(c) ==
    /\ client[c] = "missing" /\ c \notin spawned
    /\ client' = [client EXCEPT ![c] = "failed"]
    /\ UNCHANGED <<lock, files, storage, stage, listening, activity, owner,
                   peer, spawned, tries>>

\* A daemon was started already: only wait.
Wait(c) ==
    /\ client[c] = "missing" /\ c \in spawned
    /\ NextTry(c)
    /\ UNCHANGED <<lock, files, storage, stage, listening, activity, owner,
                   peer, spawned>>

-----------------------------------------------------------------------------
(* Sessions: SessionActivity and SessionLease.                             *)

\* Mutated: a closing primary still admits.
AdmitsWhileClosing(h) == Cardinality(active[h]) < MaxSessions

\* SessionActivity::try_acquire.
Admits(h) == ~closing[h] /\ Cardinality(active[h]) < MaxSessions

\* The listener accepts c's connection and reserves its session, or drops it.
\* select! may prefer a ready connection to a fired shutdown token.
Accept(h, c) ==
    /\ h \in listening
    /\ client[c] = "connected" /\ peer[c] = h
    /\ IF Admits(h)
       THEN /\ active' = [active EXCEPT ![h] = @ \cup {c}]
            /\ gap' = [gap EXCEPT ![h] = 0]
            /\ client' = [client EXCEPT ![c] = "served"]
            /\ UNCHANGED peer
       ELSE /\ client' = [client EXCEPT ![c] = "ended"]
            /\ peer' = [peer EXCEPT ![c] = None]
            /\ UNCHANGED <<active, gap>>
    /\ UNCHANGED <<lock, files, storage, stage, listening, quiet, closing,
                   shutdown, owner, spawned, tries>>

\* The quiet time after a lease is dropped: the last one restarts it.
QuietAfterDrop(h, c) == IF active[h] = {c} THEN 0 ELSE quiet[h]

\* SessionLease::drop: the client leaves, or the session is cancelled.
EndSession(h, c) ==
    /\ client[c] = "served" /\ peer[c] = h /\ c \in active[h]
    /\ active' = [active EXCEPT ![h] = @ \ {c}]
    /\ quiet' = [quiet EXCEPT ![h] = QuietAfterDrop(h, c)]
    /\ gap' = [gap EXCEPT ![h] = 0]
    /\ client' = [client EXCEPT ![c] = "ended"]
    /\ peer' = [peer EXCEPT ![c] = None]
    /\ UNCHANGED <<lock, files, storage, stage, listening, closing, shutdown,
                   owner, spawned, tries>>

\* One second passes at host h.
Tick(h) ==
    /\ stage[h] = "serving"
    /\ quiet[h] < IdleTimeout \/ gap[h] < IdleTimeout
    /\ quiet' = [quiet EXCEPT ![h] = IF @ < IdleTimeout THEN @ + 1 ELSE @]
    /\ gap' = [gap EXCEPT ![h] = IF active[h] # {} THEN 0
                                 ELSE IF @ < IdleTimeout THEN @ + 1 ELSE @]
    /\ UNCHANGED <<lock, files, storage, stage, listening, active, closing,
                   shutdown, owner, callers>>

\* SessionActivity::close_if_idle, polled by the watchdog.
CloseIfIdle(h) ==
    /\ stage[h] = "serving"
    /\ ~closing[h] /\ active[h] = {} /\ quiet[h] >= IdleTimeout
    /\ closing' = [closing EXCEPT ![h] = TRUE]
    /\ UNCHANGED <<lock, files, storage, stage, listening, active, quiet,
                   shutdown, gap, owner, callers>>

\* Mutated: the watchdog returns without firing the token.
WatchdogReturns(h) == FALSE

\* The watchdog fires the token after it closed admission.
WatchdogCancels(h) ==
    /\ stage[h] = "serving" /\ h \notin shutdown
    /\ closing[h]
    /\ shutdown' = shutdown \cup {h}
    /\ UNCHANGED <<lock, files, storage, stage, listening, active, quiet,
                   closing, gap, owner, callers>>

\* Ctrl-C: the token fires without closing admission.
Signal(h) ==
    /\ stage[h] = "serving" /\ h \notin shutdown
    /\ shutdown' = shutdown \cup {h}
    /\ UNCHANGED <<lock, files, storage, stage, listening, active, quiet,
                   closing, gap, owner, callers>>

-----------------------------------------------------------------------------
(* The primary: run_daemon and run_primary_core.                           *)

\* Every connection to h breaks: its clients see the end of the stream.
Severed(h) == {c \in Clients : peer[c] = h}
Sever(h) ==
    /\ client' = [c \in Clients |-> IF c \in Severed(h) THEN "ended" ELSE client[c]]
    /\ peer' = [c \in Clients |-> IF c \in Severed(h) THEN None ELSE peer[c]]
    /\ UNCHANGED <<spawned, tries>>

\* h's process ends, by itself or killed: the system releases its lock, its
\* storage and its sockets and leaves its files.
ProcessEnds(h) ==
    /\ lock' = IF lock = h THEN None ELSE lock
    /\ storage' = IF storage = h THEN None ELSE storage
    /\ stage' = [stage EXCEPT ![h] = "off"]
    /\ listening' = listening \ {h}
    /\ active' = [active EXCEPT ![h] = {}]
    /\ quiet' = [quiet EXCEPT ![h] = 0]
    /\ gap' = [gap EXCEPT ![h] = 0]
    /\ closing' = [closing EXCEPT ![h] = FALSE]
    /\ shutdown' = shutdown \ {h}
    /\ owner' = [owner EXCEPT ![h] = None]
    /\ Sever(h)
    /\ UNCHANGED files

\* run_daemon's election: the loser exits quietly.
Elect(h) ==
    /\ stage[h] = "starting"
    /\ IF lock = None
       THEN /\ lock' = h
            /\ stage' = [stage EXCEPT ![h] = "elected"]
            /\ UNCHANGED <<files, storage, listening, activity, owner, callers>>
       ELSE ProcessEnds(h)

\* write_primary_metadata.
WriteMetadata(h) ==
    /\ stage[h] = "elected"
    /\ metadata' = h
    /\ stage' = [stage EXCEPT ![h] = "opening"]
    /\ UNCHANGED <<lock, socket, storage, listening, activity, owner, callers>>

\* AppState::new opens the storage, which admits one process at a time;
\* orphaned jobs are aborted and the background actors start.
OpenStorage(h) ==
    /\ stage[h] = "opening"
    /\ storage = None
    /\ storage' = h
    /\ stage' = [stage EXCEPT ![h] = "checking"]
    /\ UNCHANGED <<lock, files, listening, activity, owner, callers>>

\* remove_stale_socket looks whether the file exists, ...
CheckSocket(h) ==
    /\ stage[h] = "checking"
    /\ stage' = [stage EXCEPT
           ![h] = IF socket = None THEN "binding" ELSE "unlinking"]
    /\ UNCHANGED <<lock, files, storage, listening, activity, owner, callers>>

\* ... and removes it.
UnlinkSocket(h) ==
    /\ stage[h] = "unlinking"
    /\ socket # None
    /\ socket' = None
    /\ stage' = [stage EXCEPT ![h] = "binding"]
    /\ UNCHANGED <<lock, metadata, storage, listening, activity, owner, callers>>

\* UnixListener::bind; the primary's own stdio session already has its lease.
Bind(h) ==
    /\ stage[h] = "binding"
    /\ socket = None
    /\ socket' = h
    /\ listening' = listening \cup {h}
    /\ active' = [active EXCEPT ![h] = {owner[h]} \ {None}]
    /\ client' = [c \in Clients |-> IF c = owner[h] THEN "served" ELSE client[c]]
    /\ stage' = [stage EXCEPT ![h] = "serving"]
    /\ UNCHANGED <<lock, metadata, storage, quiet, closing, shutdown, gap,
                   owner, peer, spawned, tries>>

\* A startup step returns an error: the process ends.  Opening fails while
\* another process has the storage, unlinking when the file is gone, binding
\* when a file is there; the steps before may also fail by themselves.
StartupFails(h) ==
    /\ \/ stage[h] \in {"starting", "elected", "opening"}
       \/ stage[h] = "unlinking" /\ socket = None
       \/ stage[h] = "binding" /\ socket # None
    /\ ProcessEnds(h)

\* The listener task sees the token and drops the listener.
ListenerStops(h) ==
    /\ h \in listening /\ h \in shutdown
    /\ listening' = listening \ {h}
    /\ client' = [c \in Clients |->
           IF peer[c] = h /\ client[c] = "connected" THEN "ended" ELSE client[c]]
    /\ peer' = [c \in Clients |->
           IF peer[c] = h /\ client[c] = "connected" THEN None ELSE peer[c]]
    /\ UNCHANGED <<lock, files, storage, stage, activity, owner, spawned, tries>>

\* Mutated: the lock is dropped before the files are removed.
BeginCleanupUnlocked(h) ==
    /\ stage[h] = "serving" /\ h \in shutdown
    /\ owner[h] \notin active[h]
    /\ h \notin listening
    /\ lock' = None
    /\ stage' = [stage EXCEPT ![h] = "cleanSocket"]
    /\ UNCHANGED <<files, storage, listening, activity, owner, callers>>

\* shutdown.cancelled() returns, once the own stdio session is over, and the
\* listener task is joined.
BeginCleanup(h) ==
    /\ stage[h] = "serving" /\ h \in shutdown
    /\ owner[h] \notin active[h]
    /\ h \notin listening
    /\ stage' = [stage EXCEPT ![h] = "cleanSocket"]
    /\ UNCHANGED <<lock, files, storage, listening, activity, owner, callers>>

RemoveSocket(h) ==
    /\ stage[h] = "cleanSocket"
    /\ socket' = None
    /\ stage' = [stage EXCEPT ![h] = "cleanMetadata"]
    /\ UNCHANGED <<lock, metadata, storage, listening, activity, owner, callers>>

RemoveMetadata(h) ==
    /\ stage[h] = "cleanMetadata"
    /\ metadata' = None
    /\ stage' = [stage EXCEPT ![h] = "unlocking"]
    /\ UNCHANGED <<lock, socket, storage, listening, activity, owner, callers>>

\* The lock handle is dropped last; the storage closes with the process.
ReleaseLock(h) ==
    /\ stage[h] = "unlocking"
    /\ lock' = None
    /\ stage' = [stage EXCEPT ![h] = "exiting"]
    /\ UNCHANGED <<files, storage, listening, activity, owner, callers>>

Exit(h) ==
    /\ stage[h] = "exiting"
    /\ ProcessEnds(h)

\* A host is killed.
Crash(h) ==
    /\ stage[h] # "off"
    /\ ProcessEnds(h)

\* run_primary_core itself.
MainStep(h) ==
    \/ Elect(h) \/ WriteMetadata(h) \/ OpenStorage(h) \/ CheckSocket(h)
    \/ UnlinkSocket(h) \/ Bind(h) \/ StartupFails(h) \/ BeginCleanup(h)
    \/ RemoveSocket(h) \/ RemoveMetadata(h) \/ ReleaseLock(h) \/ Exit(h)

\* run_idle_watchdog.
WatchdogStep(h) == CloseIfIdle(h) \/ WatchdogCancels(h)

AcceptStep(h) == \E c \in Clients : Accept(h, c)

ClientStep(c) ==
    \/ ReadMetadata(c) \/ Connect(c) \/ ConnectFails(c) \/ ClearSocket(c)
    \/ Wait(c) \/ SpawnFails(c)
    \/ \E h \in Hosts : SpawnDaemon(c, h)

Next ==
    \/ \E h \in Hosts :
          \/ MainStep(h) \/ WatchdogStep(h) \/ Tick(h)
          \/ AcceptStep(h) \/ ListenerStops(h) \/ Signal(h) \/ Crash(h)
    \/ \E c \in Clients : ClientStep(c) \/ DispatchClient(c) \/ DispatchProxy(c)
    \/ \E h \in Hosts, c \in Clients : EndSession(h, c) \/ DispatchPrimary(c, h)

\* The runtime polls every task, so each takes its steps; the clock advances;
\* the listener's queue is first come, first served and select! picks
\* among ready branches at random, so neither a connection nor a fired token
\* is passed over for ever.  Nobody promises
\* that a client starts or leaves, that a signal comes or a process dies.
Fairness ==
    /\ \A h \in Hosts :
          /\ WF_vars(MainStep(h)) /\ WF_vars(WatchdogStep(h)) /\ WF_vars(Tick(h))
          /\ WF_vars(ListenerStops(h))
          /\ \A c \in Clients : WF_vars(Accept(h, c))
    /\ \A c \in Clients : WF_vars(ClientStep(c))

Spec == Init /\ [][Next /\ UNCHANGED shared]_<<vars, shared>>
FairSpec == Spec /\ Fairness

-----------------------------------------------------------------------------
(* Properties.                                                             *)

\* Admission and the idle decision exclude each other: once close_if_idle has
\* closed a primary, no session is ever admitted under the shutdown, and it
\* closes only after a full timeout without any session, brief sessions
\* between two polls included.
ClosedMeansIdle ==
    \A h \in Hosts : closing[h] => active[h] = {} /\ gap[h] >= IdleTimeout

\* A primary hands over everything or nothing.  From its metadata write until
\* its own cleanup it holds the lock and the metadata file describes it: no
\* predecessor's late cleanup deletes or replaces it.  And whoever accepts
\* connections still holds lock and storage.
HandoverIsClean ==
    /\ \A h \in Hosts :
          stage[h] \in {"opening", "checking", "unlinking", "binding", "serving",
                        "cleanSocket", "cleanMetadata"}
          => metadata = h /\ lock = h
    /\ \A h \in listening : lock = h /\ storage = h

\* A primary left without sessions gives up the lock, unless a session comes:
\* an idle host never squats the data directory.
IdleHostLeaves ==
    \A h \in Hosts :
        (stage[h] = "serving" /\ active[h] = {}) ~> (active[h] # {} \/ lock # h)

\* A client that starts to connect is served or told that it was not.
ClientsSettle ==
    \A c \in Clients :
        (client[c] \in {"reading", "connecting"})
            ~> (client[c] \in {"served"} \cup Final)
=============================================================================
