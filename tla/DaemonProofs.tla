---------------------------- MODULE DaemonProofs ----------------------------
(***************************************************************************)
(* Handover and idle closing are safe for any number of clients and process *)
(* slots, any session limit and any idle timeout.                          *)
(*                                                                         *)
(* HandoverIsClean is not inductive: the lock must be followed from the    *)
(* election to the release, and the storage beyond it, until the process   *)
(* ends (Owned).  ClosedMeansIdle compares a poll that looks at the quiet   *)
(* time with what the sessions did; the quiet time never runs ahead of the *)
(* session-free time it stands for (Idle).                                 *)
(***************************************************************************)
EXTENDS Daemon, TLAPS

Before    == {"off", "starting", "elected", "opening", "checking", "unlinking",
              "binding"}
Described == {"opening", "checking", "unlinking", "binding", "serving",
              "cleanSocket", "cleanMetadata"}
Locked    == Described \cup {"elected", "unlocking"}
Opened    == {"checking", "unlinking", "binding", "serving", "cleanSocket",
              "cleanMetadata", "unlocking", "exiting"}
Stages    == Before \cup Locked \cup Opened

\* The types the argument needs.
Typed ==
    /\ lock \in Hosts \cup {None}
    /\ stage \in [Hosts -> Stages]
    /\ listening \subseteq Hosts
    /\ active \in [Hosts -> SUBSET Clients]
    /\ quiet \in [Hosts -> Nat]
    /\ gap \in [Hosts -> Nat]
    /\ closing \in [Hosts -> BOOLEAN]
    /\ owner \in [Hosts -> Clients \cup {None}]

\* What a host owns at each stage of run_primary_core.
Owned ==
    \A h \in Hosts :
        /\ stage[h] \in Locked => lock = h
        /\ stage[h] \in Described => metadata = h
        /\ stage[h] \in Opened => storage = h
        /\ h \in listening => stage[h] = "serving"

\* Nothing is counted before the listener is bound; without a session the
\* quiet time is at most the time since the last one.
Idle ==
    \A h \in Hosts :
        /\ stage[h] \in Before => active[h] = {} /\ quiet[h] = 0 /\ ~closing[h]
        /\ active[h] = {} => gap[h] >= quiet[h]
        /\ closing[h] => active[h] = {} /\ gap[h] >= IdleTimeout

IInv == Typed /\ Owned /\ Idle

-----------------------------------------------------------------------------
(* What a step may leave behind.                                           *)

\* A step that touches neither a host's stage nor what it owns.
LEMMA QuietStep ==
    ASSUME IInv,
           UNCHANGED <<lock, metadata, storage, stage, listening, active, quiet,
                       closing, gap, owner>>
    PROVE  IInv'
BY DEF IInv, Typed, Owned, Idle

\* Host h moves to stage s.  It takes and gives up only what is free or its
\* own, and the metadata file only while it holds the lock.
LEMMA StageStep ==
    ASSUME IInv, NEW h \in Hosts, NEW s \in Stages,
           stage' = [stage EXCEPT ![h] = s],
           UNCHANGED <<listening, active, quiet, closing, gap>>,
           owner' \in [Hosts -> Clients \cup {None}],
           lock' \in {lock, h, None}, lock \in {None, h} \/ lock' = lock,
           lock = h \/ metadata' = metadata,
           storage \in {None, h} \/ storage' = storage,
           s \in Locked => lock' = h,
           s \in Described => metadata' = h,
           s \in Opened => storage' = h,
           h \in listening => s = "serving",
           s \in Before => stage[h] \in Before
    PROVE  IInv'
<1>1. Typed'
    BY DEF IInv, Typed
<1>2. stage'[h] = s /\ \A g \in Hosts : g # h => stage'[g] = stage[g]
    BY DEF IInv, Typed
<1>3. Owned'
  <2> SUFFICES ASSUME NEW g \in Hosts
               PROVE  /\ stage'[g] \in Locked => lock' = g
                      /\ stage'[g] \in Described => metadata' = g
                      /\ stage'[g] \in Opened => storage' = g
                      /\ g \in listening' => stage'[g] = "serving"
    BY DEF Owned
  <2>1. CASE g = h
    BY <1>2, <2>1
  <2>2. CASE g # h
    <3>1. /\ stage[g] \in Locked => lock = g
          /\ stage[g] \in Described => metadata = g
          /\ stage[g] \in Opened => storage = g
          /\ g \in listening => stage[g] = "serving"
      BY DEF IInv, Owned
    <3>2. stage[g] \in Described => stage[g] \in Locked
      BY DEF Locked
    <3>3. g # None
      BY DaemonAssumption
    <3> QED
      BY <1>2, <2>2, <3>1, <3>2, <3>3
  <2> QED
    BY <2>1, <2>2
<1>4. Idle'
    BY <1>2 DEF IInv, Idle
<1> QED
    BY <1>1, <1>3, <1>4 DEF IInv

\* What the system takes back from a process that ends is its own.
LEMMA ProcessEndsIInv ==
    ASSUME IInv, NEW h \in Hosts, ProcessEnds(h)
    PROVE  IInv'
<1>1. /\ stage' = [stage EXCEPT ![h] = "off"] /\ listening' = listening \ {h}
      /\ active' = [active EXCEPT ![h] = {}] /\ quiet' = [quiet EXCEPT ![h] = 0]
      /\ gap' = [gap EXCEPT ![h] = 0] /\ closing' = [closing EXCEPT ![h] = FALSE]
      /\ owner' = [owner EXCEPT ![h] = None] /\ UNCHANGED metadata
      /\ lock' = (IF lock = h THEN None ELSE lock)
      /\ storage' = (IF storage = h THEN None ELSE storage)
    BY DEF ProcessEnds, files
<1>2. Typed'
    BY <1>1 DEF IInv, Typed, Stages, Before
<1>3. /\ stage'[h] = "off" /\ \A g \in Hosts : g # h => stage'[g] = stage[g]
      /\ active'[h] = {} /\ quiet'[h] = 0 /\ gap'[h] = 0 /\ closing'[h] = FALSE
      /\ \A g \in Hosts : g # h => /\ active'[g] = active[g] /\ quiet'[g] = quiet[g]
                                  /\ gap'[g] = gap[g] /\ closing'[g] = closing[g]
    BY <1>1 DEF IInv, Typed
<1>4. Owned'
  <2> SUFFICES ASSUME NEW g \in Hosts
               PROVE  /\ stage'[g] \in Locked => lock' = g
                      /\ stage'[g] \in Described => metadata' = g
                      /\ stage'[g] \in Opened => storage' = g
                      /\ g \in listening' => stage'[g] = "serving"
    BY DEF Owned
  <2>1. CASE g = h
    BY <1>1, <1>3, <2>1 DEF Locked, Described, Opened
  <2>2. CASE g # h
    BY <1>1, <1>3, <2>2 DEF IInv, Owned
  <2> QED
    BY <2>1, <2>2
<1>5. Idle'
  <2> SUFFICES ASSUME NEW g \in Hosts
               PROVE  /\ stage'[g] \in Before =>
                             active'[g] = {} /\ quiet'[g] = 0 /\ ~closing'[g]
                      /\ active'[g] = {} => gap'[g] >= quiet'[g]
                      /\ closing'[g] => active'[g] = {} /\ gap'[g] >= IdleTimeout
    BY DEF Idle
  <2>1. CASE g = h
    BY <1>3, <2>1
  <2>2. CASE g # h
    BY <1>3, <2>2 DEF IInv, Idle
  <2> QED
    BY <2>1, <2>2
<1> QED
    BY <1>2, <1>4, <1>5 DEF IInv

\* A step at a host that has served, changing only its sessions and clocks.
LEMMA SessionStep ==
    ASSUME IInv, NEW h \in Hosts, stage[h] \notin Before,
           UNCHANGED <<lock, metadata, storage, stage, owner>>,
           listening' \subseteq listening,
           NEW a \in SUBSET Clients, active' = [active EXCEPT ![h] = a],
           NEW q \in Nat, quiet' = [quiet EXCEPT ![h] = q],
           NEW n \in Nat, gap' = [gap EXCEPT ![h] = n],
           NEW b \in BOOLEAN, closing' = [closing EXCEPT ![h] = b],
           a = {} => n >= q,
           b => a = {} /\ n >= IdleTimeout
    PROVE  IInv'
<1>1. Typed'
    BY DEF IInv, Typed
<1>2. Owned'
    BY DEF IInv, Owned
<1>3. /\ active'[h] = a /\ quiet'[h] = q /\ gap'[h] = n /\ closing'[h] = b
      /\ \A g \in Hosts : g # h => /\ active'[g] = active[g] /\ quiet'[g] = quiet[g]
                                  /\ gap'[g] = gap[g] /\ closing'[g] = closing[g]
    BY DEF IInv, Typed
<1>4. Idle'
  <2> SUFFICES ASSUME NEW g \in Hosts
               PROVE  /\ stage'[g] \in Before =>
                             active'[g] = {} /\ quiet'[g] = 0 /\ ~closing'[g]
                      /\ active'[g] = {} => gap'[g] >= quiet'[g]
                      /\ closing'[g] => active'[g] = {} /\ gap'[g] >= IdleTimeout
    BY DEF Idle
  <2>1. CASE g = h
    BY <1>3, <2>1
  <2>2. CASE g # h
    BY <1>3, <2>2 DEF IInv, Idle
  <2> QED
    BY <2>1, <2>2
<1> QED
    BY <1>1, <1>2, <1>4 DEF IInv

-----------------------------------------------------------------------------
(* The actions.                                                            *)

\* Clients look at files and sockets; only a spawn starts a host.
LEMMA ClientStepIInv ==
    ASSUME IInv, NEW c \in Clients,
           ClientStep(c) \/ DispatchClient(c) \/ DispatchProxy(c)
    PROVE  IInv'
<1>1. ASSUME NEW h \in Hosts, SpawnDaemon(c, h)
      PROVE  IInv'
  <2>1. /\ stage[h] = "off" /\ stage' = [stage EXCEPT ![h] = "starting"]
        /\ owner' = [owner EXCEPT ![h] = None]
        /\ UNCHANGED <<lock, metadata, storage, listening, active, quiet, closing, gap>>
    BY <1>1 DEF SpawnDaemon, Start, files, activity
  <2>2. owner' \in [Hosts -> Clients \cup {None}]
    BY <2>1 DEF IInv, Typed
  <2>3. h \notin listening
    BY <2>1 DEF IInv, Owned
  <2> QED
    BY <2>1, <2>2, <2>3, StageStep DEF Stages, Before, Locked, Described, Opened
<1>2. ASSUME \/ ReadMetadata(c) \/ Connect(c) \/ ConnectFails(c) \/ ClearSocket(c)
             \/ Wait(c) \/ SpawnFails(c) \/ DispatchClient(c) \/ DispatchProxy(c)
      PROVE  UNCHANGED <<lock, metadata, storage, stage, listening, active, quiet,
                         closing, gap, owner>>
    BY <1>2 DEF ReadMetadata, Connect, ConnectFails, ClearSocket, Wait, SpawnFails,
                DispatchClient, DispatchProxy, files, activity
<1> QED
    BY <1>1, <1>2, QuietStep DEF ClientStep

\* dispatch: the winner of a free lock.
LEMMA DispatchPrimaryIInv ==
    ASSUME IInv, NEW c \in Clients, NEW h \in Hosts, DispatchPrimary(c, h)
    PROVE  IInv'
<1>1. /\ stage[h] = "off" /\ stage' = [stage EXCEPT ![h] = "elected"]
      /\ owner' = [owner EXCEPT ![h] = c] /\ lock = None /\ lock' = h
      /\ UNCHANGED <<metadata, storage, listening, active, quiet, closing, gap>>
    BY DEF DispatchPrimary, Start, files, activity
<1>2. owner' \in [Hosts -> Clients \cup {None}]
    BY <1>1 DEF IInv, Typed
<1>3. h \notin listening
    BY <1>1 DEF IInv, Owned
<1> QED
    BY <1>1, <1>2, <1>3, StageStep DEF Stages, Before, Locked, Described, Opened

\* run_daemon's election, and the loser's exit.
LEMMA ElectIInv ==
    ASSUME IInv, NEW h \in Hosts, Elect(h)
    PROVE  IInv'
<1>1. CASE lock = None
  <2>1. /\ stage[h] = "starting" /\ stage' = [stage EXCEPT ![h] = "elected"]
        /\ lock' = h
        /\ UNCHANGED <<metadata, storage, listening, active, quiet, closing, gap, owner>>
    BY <1>1 DEF Elect, files, activity
  <2>2. owner' \in [Hosts -> Clients \cup {None}] /\ h \notin listening
    BY <2>1 DEF IInv, Typed, Owned
  <2> QED
    BY <1>1, <2>1, <2>2, StageStep DEF Stages, Before, Locked, Described, Opened
<1>2. CASE lock # None
    BY <1>2, ProcessEndsIInv DEF Elect
<1> QED
    BY <1>1, <1>2

\* The stages of run_primary_core that read or write one file, or release one.
LEMMA PrimaryStepIInv ==
    ASSUME IInv, NEW h \in Hosts,
           \/ WriteMetadata(h) \/ OpenStorage(h) \/ CheckSocket(h) \/ UnlinkSocket(h)
           \/ BeginCleanup(h) \/ RemoveSocket(h) \/ RemoveMetadata(h)
           \/ ReleaseLock(h)
    PROVE  IInv'
<1>1. /\ owner \in [Hosts -> Clients \cup {None}]
      /\ h \in listening => stage[h] = "serving"
      /\ stage[h] \in Locked => lock = h
      /\ stage[h] \in Described => metadata = h
      /\ stage[h] \in Opened => storage = h
    BY DEF IInv, Typed, Owned
<1> USE DEF Stages, Before, Locked, Described, Opened
<1>2. CASE WriteMetadata(h)
    BY <1>1, <1>2, StageStep DEF WriteMetadata, activity
<1>3. CASE OpenStorage(h)
    BY <1>1, <1>3, StageStep DEF OpenStorage, activity, files
<1>4. CASE CheckSocket(h)
  <2>1. CASE socket = None
    BY <1>1, <1>4, <2>1, StageStep DEF CheckSocket, activity, files
  <2>2. CASE socket # None
    BY <1>1, <1>4, <2>2, StageStep DEF CheckSocket, activity, files
  <2> QED
    BY <2>1, <2>2
<1>5. CASE UnlinkSocket(h)
    BY <1>1, <1>5, StageStep DEF UnlinkSocket, activity
<1>6. CASE BeginCleanup(h)
    BY <1>1, <1>6, StageStep DEF BeginCleanup, activity, files
<1>7. CASE RemoveSocket(h)
    BY <1>1, <1>7, StageStep DEF RemoveSocket, activity
<1>8. CASE RemoveMetadata(h)
    BY <1>1, <1>8, StageStep DEF RemoveMetadata, activity
<1>9. CASE ReleaseLock(h)
    BY <1>1, <1>9, StageStep DEF ReleaseLock, activity, files
<1> QED
    BY <1>2, <1>3, <1>4, <1>5, <1>6, <1>7, <1>8, <1>9

\* The bound listener: its first session is the host's own, its clocks start.
LEMMA BindIInv ==
    ASSUME IInv, NEW h \in Hosts, Bind(h)
    PROVE  IInv'
<1> DEFINE a == {owner[h]} \ {None}
<1>1. /\ stage[h] = "binding" /\ stage' = [stage EXCEPT ![h] = "serving"]
      /\ listening' = listening \cup {h} /\ active' = [active EXCEPT ![h] = a]
      /\ UNCHANGED <<lock, metadata, storage, quiet, closing, gap, owner>>
    BY DEF Bind
<1>2. a \in SUBSET Clients
    BY DEF IInv, Typed
<1> HIDE DEF a
<1>3. Typed'
    BY <1>1, <1>2 DEF IInv, Typed, Stages, Locked, Described
<1>4. /\ stage'[h] = "serving" /\ \A g \in Hosts : g # h => stage'[g] = stage[g]
      /\ \A g \in Hosts : g # h => active'[g] = active[g]
    BY <1>1 DEF IInv, Typed
<1>5. Owned'
    BY <1>1, <1>4 DEF IInv, Owned, Locked, Described, Opened
<1>6. /\ quiet[h] = 0 /\ ~closing[h] /\ gap[h] \in Nat
    BY <1>1 DEF IInv, Idle, Typed, Before
<1>7. Idle'
  <2> SUFFICES ASSUME NEW g \in Hosts
               PROVE  /\ stage'[g] \in Before =>
                             active'[g] = {} /\ quiet'[g] = 0 /\ ~closing'[g]
                      /\ active'[g] = {} => gap'[g] >= quiet'[g]
                      /\ closing'[g] => active'[g] = {} /\ gap'[g] >= IdleTimeout
    BY DEF Idle
  <2>1. CASE g = h
    BY <1>1, <1>4, <1>6, <2>1 DEF Before
  <2>2. CASE g # h
    BY <1>1, <1>4, <2>2 DEF IInv, Idle
  <2> QED
    BY <2>1, <2>2
<1> QED
    BY <1>3, <1>5, <1>7 DEF IInv

\* Admission: a closing host admits nobody.
LEMMA AcceptIInv ==
    ASSUME IInv, NEW h \in Hosts, NEW c \in Clients, Accept(h, c)
    PROVE  IInv'
<1>1. h \in listening /\ stage[h] = "serving" /\ quiet[h] \in Nat
    BY DEF Accept, IInv, Owned, Typed
<1>2. CASE Admits(h)
  <2>1. /\ ~closing[h] /\ active' = [active EXCEPT ![h] = active[h] \cup {c}]
        /\ gap' = [gap EXCEPT ![h] = 0]
        /\ UNCHANGED <<lock, metadata, storage, stage, listening, quiet, closing, owner>>
    BY <1>2 DEF Accept, Admits, files
  <2>2. quiet' = [quiet EXCEPT ![h] = quiet[h]]
        /\ closing' = [closing EXCEPT ![h] = FALSE]
    BY <2>1 DEF IInv, Typed
  <2>3. active[h] \cup {c} \in SUBSET Clients /\ active[h] \cup {c} # {}
    BY DEF IInv, Typed
  <2>4. stage[h] \notin Before
    BY <1>1 DEF Before
  <2> QED
    BY <1>1, <2>1, <2>2, <2>3, <2>4, SessionStep
<1>3. CASE ~Admits(h)
    BY <1>3, QuietStep DEF Accept, files
<1> QED
    BY <1>2, <1>3

\* A lease is dropped: the last one restarts the quiet time.
LEMMA EndSessionIInv ==
    ASSUME IInv, NEW h \in Hosts, NEW c \in Clients, EndSession(h, c)
    PROVE  IInv'
<1> DEFINE a == active[h] \ {c}
           q == QuietAfterDrop(h, c)
<1>1. /\ c \in active[h] /\ active' = [active EXCEPT ![h] = a]
      /\ quiet' = [quiet EXCEPT ![h] = q] /\ gap' = [gap EXCEPT ![h] = 0]
      /\ UNCHANGED <<lock, metadata, storage, stage, listening, closing, owner>>
    BY DEF EndSession, files
<1>2. /\ stage[h] \notin Before /\ ~closing[h] /\ a \in SUBSET Clients
      /\ q \in Nat /\ (a = {} => q = 0)
  <2>1. a = {} => active[h] = {c}
    BY <1>1
  <2> QED
    BY <1>1, <2>1 DEF IInv, Idle, Typed, QuietAfterDrop
<1>3. closing' = [closing EXCEPT ![h] = FALSE]
    BY <1>1, <1>2 DEF IInv, Typed
<1>4. (a = {} => 0 >= q) /\ listening' \subseteq listening
    BY <1>1, <1>2
<1>5. UNCHANGED <<lock, metadata, storage, stage, owner>>
    BY <1>1
<1> HIDE DEF a, q
<1> QED
    BY <1>1, <1>2, <1>3, <1>4, <1>5, SessionStep

\* A second passes: the two clocks advance together while nobody is there.
LEMMA TickIInv ==
    ASSUME IInv, NEW h \in Hosts, Tick(h)
    PROVE  IInv'
<1> DEFINE q == IF quiet[h] < IdleTimeout THEN quiet[h] + 1 ELSE quiet[h]
           n == IF active[h] # {} THEN 0
                ELSE IF gap[h] < IdleTimeout THEN gap[h] + 1 ELSE gap[h]
<1>1. /\ stage[h] = "serving" /\ quiet' = [quiet EXCEPT ![h] = q]
      /\ gap' = [gap EXCEPT ![h] = n]
      /\ UNCHANGED <<lock, metadata, storage, stage, listening, active, closing, owner>>
    BY DEF Tick, files
<1>2. /\ quiet[h] \in Nat /\ gap[h] \in Nat /\ IdleTimeout \in Nat
      /\ active[h] = {} => gap[h] >= quiet[h]
      /\ closing[h] => active[h] = {} /\ gap[h] >= IdleTimeout
      /\ closing[h] \in BOOLEAN /\ active[h] \in SUBSET Clients
    BY DaemonAssumption DEF IInv, Typed, Idle
<1>3. /\ q \in Nat /\ n \in Nat /\ (active[h] = {} => n >= q)
      /\ closing[h] => active[h] = {} /\ n >= IdleTimeout
    BY <1>2
<1>4. active' = [active EXCEPT ![h] = active[h]]
      /\ closing' = [closing EXCEPT ![h] = closing[h]]
    BY <1>1 DEF IInv, Typed
<1> HIDE DEF q, n
<1>5. stage[h] \notin Before
    BY <1>1 DEF Before
<1> QED
    BY <1>1, <1>2, <1>3, <1>4, <1>5, SessionStep

\* close_if_idle: a full quiet time without a session.
LEMMA CloseIfIdleIInv ==
    ASSUME IInv, NEW h \in Hosts, CloseIfIdle(h)
    PROVE  IInv'
<1>1. /\ stage[h] = "serving" /\ active[h] = {} /\ quiet[h] >= IdleTimeout
      /\ closing' = [closing EXCEPT ![h] = TRUE]
      /\ UNCHANGED <<lock, metadata, storage, stage, listening, active, quiet, gap, owner>>
    BY DEF CloseIfIdle, files
<1>2. /\ quiet[h] \in Nat /\ gap[h] \in Nat /\ IdleTimeout \in Nat
      /\ gap[h] >= quiet[h] /\ active[h] \in SUBSET Clients
    BY <1>1, DaemonAssumption DEF IInv, Typed, Idle
<1>3. gap[h] >= IdleTimeout
    BY <1>1, <1>2
<1>4. /\ active' = [active EXCEPT ![h] = active[h]]
      /\ quiet' = [quiet EXCEPT ![h] = quiet[h]] /\ gap' = [gap EXCEPT ![h] = gap[h]]
    BY <1>1 DEF IInv, Typed
<1>5. stage[h] \notin Before
    BY <1>1 DEF Before
<1> QED
    BY <1>1, <1>2, <1>3, <1>4, <1>5, SessionStep

\* The watchdog and Ctrl-C fire the token; the listener drops its socket.
LEMMA ShutdownIInv ==
    ASSUME IInv, NEW h \in Hosts,
           WatchdogCancels(h) \/ Signal(h) \/ ListenerStops(h)
    PROVE  IInv'
<1>1. CASE WatchdogCancels(h) \/ Signal(h)
    BY <1>1, QuietStep DEF WatchdogCancels, Signal, files
<1>2. CASE ListenerStops(h)
    BY <1>2 DEF ListenerStops, IInv, Typed, Owned, Idle, files, activity
<1> QED
    BY <1>1, <1>2

-----------------------------------------------------------------------------
\* Nobody runs and nothing is owned.
LEMMA InitIInv == Init => IInv
BY DEF Init, IInv, Typed, Owned, Idle, Stages, Before, Locked, Described, Opened

\* Every step keeps the invariant.
LEMMA NextIInv ==
    IInv /\ [Next /\ UNCHANGED shared]_<<vars, shared>> => IInv'
<1> SUFFICES ASSUME IInv, [Next]_vars PROVE IInv'
    OBVIOUS
<1>1. CASE UNCHANGED vars
    BY <1>1, QuietStep DEF vars, files, activity
<1>2. ASSUME NEW h \in Hosts, MainStep(h) \/ Crash(h)
      PROVE  IInv'
    BY <1>2, ElectIInv, PrimaryStepIInv, BindIInv, ProcessEndsIInv
       DEF MainStep, StartupFails, Exit, Crash
<1>3. ASSUME NEW h \in Hosts,
             WatchdogStep(h) \/ Tick(h) \/ AcceptStep(h) \/ ListenerStops(h) \/ Signal(h)
      PROVE  IInv'
    BY <1>3, CloseIfIdleIInv, TickIInv, AcceptIInv, ShutdownIInv
       DEF WatchdogStep, AcceptStep
<1>4. CASE Next
    BY <1>2, <1>3, <1>4, ClientStepIInv, DispatchPrimaryIInv, EndSessionIInv DEF Next
<1> QED
    BY <1>1, <1>4

\* The inductive invariant holds in every reachable state.
THEOREM Invariance == Spec => []IInv
BY InitIInv, NextIInv, PTL DEF Spec

\* A primary hands over everything or nothing: from its metadata write to its
\* own cleanup it holds the lock and is the process the metadata describes,
\* and whoever accepts connections holds lock and storage.
THEOREM CleanHandover == Spec => []HandoverIsClean
<1>1. IInv => HandoverIsClean
    BY DEF IInv, Typed, Owned, HandoverIsClean, Locked, Described, Opened
<1> QED
    BY <1>1, Invariance, PTL

\* close_if_idle closes only after a full timeout without a session, and no
\* session is admitted afterwards.
THEOREM IdleWhenClosed == Spec => []ClosedMeansIdle
<1>1. IInv => ClosedMeansIdle
    BY DEF IInv, Idle, ClosedMeansIdle
<1> QED
    BY <1>1, Invariance, PTL
=============================================================================
