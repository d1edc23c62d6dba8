---------------------------- MODULE ActorsProofs ----------------------------
(***************************************************************************)
(* The background actors.                                                  *)
(*                                                                         *)
(* The watcher's ownership of updates, for any number of projects, tasks   *)
(* and requests and any channel capacities.  UpdatesAreOwned is not        *)
(* inductive: that a project has one update at a time rests on the         *)
(* in-flight marker outliving the task (Slots, which also covers the       *)
(* markers that are removed late), and that an update of an unwatched      *)
(* project has been told to stop rests on update_cancels holding the token *)
(* of every update that has not been told yet (Tokens).                    *)
(*                                                                         *)
(* The graph as evidence of what is published, for any files and texts,    *)
(* any flows and faults and any bounds: GraphIsEvidence rests on what each *)
(* stage of an update has compared and written, see UpdateInv.             *)
(*                                                                         *)
(* The soundness of the dreamer's insights, for any clusters, projects,    *)
(* settings and bounds.  InsightsAreSound is not inductive: that the node, *)
(* the edges and the document of an insight follow each other rests on     *)
(* counting what the dreams have in hand (Balanced), and that the actor    *)
(* alone writes no second insight on what it found when it took a cluster  *)
(* up (Alone).                                                             *)
(***************************************************************************)
EXTENDS Watcher, IncrementalUpdate, Dreamer, TLAPS

-----------------------------------------------------------------------------
(* The watcher: the inductive invariant.                                   *)

Events == [project : Projects, enabled : BOOLEAN]
Busy == [state : {"claimed", "running", "ending", "deferred"},
         project : Projects, cancelled : BOOLEAN]

Typed ==
    /\ request \in [Requests -> Events \cup {FreeRequest}]
    /\ events \in Seq(Events) /\ channel \in Seq(Projects)
    /\ watchers \in SUBSET Projects
    /\ pending \in [Projects -> {"none", "ahead", "past"}]
    /\ inFlight \in SUBSET Projects
    /\ cancels \in [Projects -> Tasks \cup {NoTask}]
    /\ task \in [Tasks -> Busy \cup {FreeTask}]

\* A task that is not free, a deferred release included, keeps the marker of
\* its project, and no other task has that project.
Slots ==
    /\ \A t \in Tasks : task[t] # FreeTask => task[t].project \in inFlight
    /\ \A s, t \in Tasks :
          task[s] # FreeTask /\ task[t] # FreeTask
            /\ task[s].project = task[t].project => s = t

\* Only a watched project is armed, and a live update of an unwatched one has
\* been cancelled.
Armed ==
    /\ \A p \in Projects : pending[p] # "none" => p \in watchers
    /\ \A t \in Live : task[t].project \notin watchers => task[t].cancelled

\* The token of a live update is in update_cancels until it is used, and a
\* token there belongs to a task that has not ended.
Tokens ==
    /\ \A t \in Live : task[t].cancelled \/ cancels[task[t].project] = t
    /\ \A p \in Projects, t \in Tasks :
          cancels[p] = t => task[t].state \in {"claimed", "running", "ending"}

IInv == Typed /\ Slots /\ Armed /\ Tokens

-----------------------------------------------------------------------------
(* What the tasks of the model are.                                        *)

\* A live task is a busy one.
LEMMA LiveIsBusy ==
    ASSUME Typed, NEW t \in Live
    PROVE  t \in Tasks /\ task[t] \in Busy /\ task[t] # FreeTask
  BY DEF Live, Typed, FreeTask, Busy

\* A task in a named state is a busy one: a free task has the state "free".
LEMMA NamedIsBusy ==
    ASSUME Typed, NEW t \in Tasks,
           task[t].state \in {"claimed", "running", "ending", "deferred"}
    PROVE  task[t] \in Busy /\ task[t] # FreeTask
  BY DEF Typed, FreeTask, Busy

\* Cancelling a task changes nothing else of it.
LEMMA CancelledIsBusy ==
    ASSUME NEW k \in Busy, NEW c, c = [k EXCEPT !.cancelled = TRUE]
    PROVE  /\ c \in Busy /\ c.cancelled /\ c.project = k.project /\ c.state = k.state
           /\ c # FreeTask
  BY DEF Busy, FreeTask

\* A step that leaves the tasks, their markers and their tokens alone, and
\* arms only watched projects.
LEMMA QuietStep ==
    ASSUME IInv, Typed', UNCHANGED <<inFlight, cancels, task>>,
           watchers \subseteq watchers',
           \A p \in Projects : pending'[p] # "none" => p \in watchers'
    PROVE  IInv'
<1>1. Slots'
    BY DEF IInv, Slots
<1>2. Live' = Live
    BY DEF Live
<1>3. Armed'
    BY <1>2 DEF IInv, Armed
<1>4. Tokens'
    BY <1>2 DEF IInv, Tokens
<1> QED
    BY <1>1, <1>3, <1>4 DEF IInv

\* A task moves on within its marker, and its token may go once it is no
\* longer live.
LEMMA MoveStep ==
    ASSUME IInv, NEW t \in Tasks, task[t] \in Busy,
           NEW next \in {"running", "ending", "deferred"},
           task' = [task EXCEPT ![t].state = next],
           next # "deferred" => cancels' = cancels /\ t \in Live,
           next = "deferred" => \A p \in Projects : cancels'[p] # t,
           cancels' \in [Projects -> Tasks \cup {NoTask}],
           \A p \in Projects : cancels[p] # t => cancels'[p] = cancels[p],
           \A p \in Projects : cancels'[p] \in {cancels[p], NoTask},
           UNCHANGED <<request, events, channel, watchers, pending, inFlight>>
    PROVE  IInv'
<1>1. /\ task'[t] \in Busy /\ task'[t].project = task[t].project
      /\ task'[t].cancelled = task[t].cancelled /\ task'[t].state = next
      /\ \A s \in Tasks : s # t => task'[s] = task[s]
      /\ task[t] # FreeTask /\ task'[t] # FreeTask
    BY DEF IInv, Typed, Busy, FreeTask
<1>2. Typed'
    BY <1>1 DEF IInv, Typed
<1>3. Slots'
  <2>1. \A s \in Tasks : /\ task'[s] # FreeTask <=> task[s] # FreeTask
                         /\ task'[s].project = task[s].project
    BY <1>1
  <2> QED
    BY <2>1 DEF IInv, Slots
<1>4. \A s \in Live' : /\ s \in Live /\ task'[s].project = task[s].project
                       /\ task'[s].cancelled = task[s].cancelled
                       /\ cancels[task[s].project] = s => cancels'[task[s].project] = s
  <2> SUFFICES ASSUME NEW s \in Live'
               PROVE  /\ s \in Live /\ task'[s].project = task[s].project
                      /\ task'[s].cancelled = task[s].cancelled
                      /\ cancels[task[s].project] = s
                            => cancels'[task[s].project] = s
    OBVIOUS
  <2>1. s \in Tasks /\ task'[s].state \in {"claimed", "running"}
    BY DEF Live
  <2>2. CASE s = t
    BY <1>1, <2>1, <2>2 DEF Live
  <2>3. CASE s # t
    <3>1. s \in Live
      BY <1>1, <2>1, <2>3 DEF Live
    <3>2. task[s].project \in Projects
      BY <3>1, LiveIsBusy DEF IInv, Busy
    <3> QED
      BY <1>1, <2>1, <2>3, <3>1, <3>2
  <2> QED
    BY <2>2, <2>3
<1>5. Armed'
    BY <1>4 DEF IInv, Armed
<1>6. ASSUME NEW p \in Projects, NEW s \in Tasks, cancels'[p] = s
      PROVE  task'[s].state \in {"claimed", "running", "ending"}
  <2>1. cancels[p] = s
    BY <1>6, WatcherAssumption
  <2>2. CASE s # t
    BY <1>1, <2>1, <2>2 DEF IInv, Tokens
  <2>3. CASE s = t
    BY <1>1, <1>6, <2>3
  <2> QED
    BY <2>2, <2>3
<1>7. Tokens'
    BY <1>4, <1>6 DEF IInv, Tokens
<1> QED
    BY <1>2, <1>3, <1>5, <1>7 DEF IInv

\* A task that is over leaves with its marker.
LEMMA FreeStep ==
    ASSUME IInv, NEW t \in Tasks, task[t] \in Busy, t \notin Live,
           task' = [task EXCEPT ![t] = FreeTask],
           inFlight' = inFlight \ {task[t].project},
           cancels' \in [Projects -> Tasks \cup {NoTask}],
           \A p \in Projects : cancels'[p] = IF cancels[p] = t THEN NoTask
                                             ELSE cancels[p],
           UNCHANGED <<request, events, channel, watchers, pending>>
    PROVE  IInv'
<1>1. /\ task'[t] = FreeTask /\ \A s \in Tasks : s # t => task'[s] = task[s]
      /\ task[t] # FreeTask /\ task[t].project \in Projects
    BY DEF IInv, Typed, Busy, FreeTask
<1>2. Typed'
    BY <1>1 DEF IInv, Typed
<1>3. Slots'
    BY <1>1 DEF IInv, Slots
<1>4. \A s \in Live' : s \in Live /\ s # t /\ task'[s] = task[s]
    BY <1>1 DEF Live, FreeTask
<1>5. \A s \in Live' : task[s].project \in Projects
    BY <1>4, LiveIsBusy DEF IInv, Busy
<1>6. Armed'
    BY <1>4 DEF IInv, Armed
<1>7. \A p \in Projects, s \in Tasks : cancels'[p] = s => cancels[p] = s /\ s # t
    BY WatcherAssumption
<1>8. Tokens'
    BY <1>1, <1>4, <1>5, <1>7 DEF IInv, Tokens
<1> QED
    BY <1>2, <1>3, <1>6, <1>8 DEF IInv

-----------------------------------------------------------------------------
(* One lemma per action that disturbs the invariant.                       *)

\* Every initial state satisfies the invariant.
LEMMA InitIInv == Init => IInv
<1> SUFFICES ASSUME Init PROVE IInv
    OBVIOUS
<1>1. Typed
    BY DEF Init, Typed
<1>2. \A t \in Tasks : task[t] = FreeTask
    BY DEF Init
<1>3. Live = {}
    BY <1>2 DEF Live, FreeTask
<1> QED
    BY <1>1, <1>2, <1>3, WatcherAssumption DEF Init, IInv, Slots, Armed, Tokens

\* The handlers only commit and announce.
LEMMA RequestIInv ==
    ASSUME IInv, NEW r \in Requests,
           SendWatchUpdate(r)
             \/ \E p \in Projects, enabled \in BOOLEAN : SaveWatch(r, p, enabled)
    PROVE  IInv'
<1>1. UNCHANGED <<channel, inFlight, task, watchers, pending, cancels>>
    BY DEF SendWatchUpdate, SaveWatch, actor
<1>2. request' \in [Requests -> Events \cup {FreeRequest}] /\ events' \in Seq(Events)
  <2>1. CASE SendWatchUpdate(r)
    <3>1. request[r] \in Events
      BY <2>1 DEF SendWatchUpdate, IInv, Typed
    <3>2. Len(events) \in Nat /\ EventCap \in Nat \ {0}
      BY WatcherAssumption DEF IInv, Typed
    <3>3. Len(events) < EventCap \/ events # <<>>
      BY <3>2
    <3>4. (IF Len(events) < EventCap THEN events ELSE Tail(events)) \in Seq(Events)
      BY <3>3 DEF IInv, Typed
    <3> QED
      BY <2>1, <3>1, <3>4 DEF SendWatchUpdate, IInv, Typed
  <2>2. ASSUME NEW p \in Projects, NEW enabled \in BOOLEAN, SaveWatch(r, p, enabled)
        PROVE  request' \in [Requests -> Events \cup {FreeRequest}]
               /\ events' \in Seq(Events)
    BY <2>2 DEF SaveWatch, IInv, Typed, Events
  <2> QED
    BY <2>1, <2>2
<1>3. Typed'
    BY <1>1, <1>2 DEF IInv, Typed
<1> QED
    BY <1>1, <1>3, QuietStep DEF IInv, Armed

\* Unwatching disarms the project and uses its token.
LEMMA DisableIInv ==
    ASSUME IInv, DisableWatch
    PROVE  IInv'
<1> DEFINE p == Head(events).project
<1>1. Head(events) \in Events /\ Tail(events) \in Seq(Events)
    BY DEF IInv, Typed, DisableWatch
<1>2. p \in Projects
    BY <1>1 DEF Events
<1>3. /\ watchers' = watchers \ {p}
      /\ pending' = [pending EXCEPT ![p] = "none"]
      /\ cancels' = [cancels EXCEPT ![p] = NoTask]
      /\ task' = Cancelled(p) /\ events' = Tail(events)
      /\ UNCHANGED <<request, channel, inFlight>>
    BY DEF DisableWatch
<1> HIDE DEF p
<1>4. /\ \A t \in Tasks : t # cancels[p] => task'[t] = task[t]
      /\ \A t \in Tasks : t = cancels[p] =>
            /\ task'[t] \in Busy /\ task'[t].cancelled
            /\ task'[t].project = task[t].project /\ task'[t].state = task[t].state
            /\ task[t] # FreeTask /\ task'[t] # FreeTask
  <2>1. \A t \in Tasks : task'[t] = IF t = cancels[p]
                                   THEN [task[t] EXCEPT !.cancelled = TRUE] ELSE task[t]
    BY <1>3 DEF Cancelled
  <2>2. \A t \in Tasks : t = cancels[p] => task[t] \in Busy /\ task[t] # FreeTask
    BY <1>2, NamedIsBusy DEF IInv, Tokens
  <2>3. ASSUME NEW t \in Tasks, t = cancels[p]
        PROVE  /\ task'[t] \in Busy /\ task'[t].cancelled
               /\ task'[t].project = task[t].project /\ task'[t].state = task[t].state
               /\ task[t] # FreeTask /\ task'[t] # FreeTask
    <3>1. task[t] \in Busy /\ task'[t] = [task[t] EXCEPT !.cancelled = TRUE]
      BY <2>1, <2>2, <2>3
    <3> QED
      BY <2>2, <2>3, <3>1, CancelledIsBusy
  <2> QED
    BY <2>1, <2>3
<1>5. task' \in [Tasks -> Busy \cup {FreeTask}]
  <2>1. \A t \in Tasks : task'[t] \in Busy \cup {FreeTask}
    BY <1>4 DEF IInv, Typed
  <2>2. task' = [t \in Tasks |-> task'[t]]
    BY <1>3 DEF Cancelled
  <2> QED
    BY <2>1, <2>2
<1>6. Typed'
    BY <1>1, <1>2, <1>3, <1>5 DEF IInv, Typed
<1>7. \A t \in Tasks : /\ task'[t].project = task[t].project
                       /\ task'[t].state = task[t].state
                       /\ task'[t] = FreeTask <=> task[t] = FreeTask
                       /\ task[t].cancelled => task'[t].cancelled
    BY <1>4
<1>8. Live' = Live
    BY <1>7 DEF Live
<1>9. Slots'
    BY <1>3, <1>7 DEF IInv, Slots
<1>10. ASSUME NEW t \in Live, task[t].project = p
       PROVE  task'[t].cancelled
    BY <1>4, <1>7, <1>10 DEF IInv, Tokens, Live
<1>11. Armed'
  <2>1. \A q \in Projects : pending'[q] # "none" => q \in watchers'
    BY <1>2, <1>3 DEF IInv, Armed, Typed
  <2>2. ASSUME NEW t \in Live, task'[t].project \notin watchers'
        PROVE  task'[t].cancelled
    BY <1>3, <1>7, <1>10, <2>2 DEF IInv, Armed, Live
  <2> QED
    BY <1>8, <2>1, <2>2 DEF Armed
<1>12. Tokens'
  <2>1. ASSUME NEW t \in Live
        PROVE  task'[t].cancelled \/ cancels'[task'[t].project] = t
    <3>1. t \in Tasks /\ task[t].project \in Projects
      BY LiveIsBusy DEF IInv, Busy
    <3> QED
      BY <1>2, <1>3, <1>7, <1>10, <3>1 DEF IInv, Tokens, Typed
  <2>2. ASSUME NEW q \in Projects, NEW t \in Tasks, cancels'[q] = t
        PROVE  task'[t].state \in {"claimed", "running", "ending"}
    <3>1. cancels[q] = t
      BY <1>2, <1>3, <2>2, WatcherAssumption DEF IInv, Typed
    <3> QED
      BY <1>7, <3>1 DEF IInv, Tokens
  <2> QED
    BY <1>8, <2>1, <2>2 DEF Tokens
<1> QED
    BY <1>6, <1>9, <1>11, <1>12 DEF IInv

\* The ticker arms and renews, or claims a slot nobody has.
LEMMA TriggerIInv ==
    ASSUME IInv, NEW p \in Projects, NEW t \in Tasks, Trigger(p, t)
    PROVE  IInv'
<1> DEFINE new == [state |-> "claimed", project |-> p, cancelled |-> FALSE]
<1>1. /\ task' = [task EXCEPT ![t] = new] /\ task[t] = FreeTask
      /\ cancels' = [cancels EXCEPT ![p] = t] /\ inFlight' = inFlight \cup {p}
      /\ pending' = [pending EXCEPT ![p] = "none"]
      /\ p \notin inFlight /\ pending[p] = "past"
      /\ UNCHANGED <<request, events, channel, watchers>>
    BY DEF Trigger
<1>2. new \in Busy /\ new # FreeTask /\ new.project = p /\ new.state = "claimed"
    BY DEF Busy, FreeTask
<1> HIDE DEF new
<1>3. /\ task'[t] = new /\ \A s \in Tasks : s # t => task'[s] = task[s]
    BY <1>1 DEF IInv, Typed
<1>4. Typed'
    BY <1>1, <1>2 DEF IInv, Typed
<1>5. Slots'
  <2>1. \A s \in Tasks : s # t /\ task[s] # FreeTask => task[s].project # p
    BY <1>1 DEF IInv, Slots
  <2> QED
    BY <1>1, <1>2, <1>3, <2>1 DEF IInv, Slots
<1>6. \A s \in Live' : s = t \/ (s \in Live /\ s # t /\ task'[s] = task[s])
    BY <1>3 DEF Live
<1>7. Armed'
  <2>1. p \in watchers
    BY <1>1 DEF IInv, Armed
  <2>2. \A q \in Projects : pending'[q] # "none" => q \in watchers'
    BY <1>1 DEF IInv, Armed, Typed
  <2> QED
    BY <1>1, <1>2, <1>3, <1>6, <2>1, <2>2 DEF IInv, Armed
<1>8. ASSUME NEW s \in Live'
      PROVE  task'[s].cancelled \/ cancels'[task'[s].project] = s
  <2>1. CASE s = t
    BY <1>1, <1>2, <1>3, <2>1 DEF IInv, Typed
  <2>2. CASE s \in Live /\ s # t /\ task'[s] = task[s]
    <3>1. task[s].project \in Projects /\ task[s] # FreeTask /\ s \in Tasks
      BY <2>2, LiveIsBusy DEF IInv, Busy
    <3>2. task[s].project # p
      BY <1>1, <3>1 DEF IInv, Slots
    <3> QED
      BY <1>1, <2>2, <3>1, <3>2 DEF IInv, Typed, Tokens
  <2> QED
    BY <1>6, <2>1, <2>2
<1>9. ASSUME NEW q \in Projects, NEW s \in Tasks, cancels'[q] = s
      PROVE  task'[s].state \in {"claimed", "running", "ending"}
  <2>1. CASE s = t
    BY <1>2, <1>3, <2>1
  <2>2. CASE s # t
    <3>1. cancels[q] = s
      BY <1>1, <1>9, <2>2 DEF IInv, Typed
    <3> QED
      BY <1>3, <2>2, <3>1 DEF IInv, Tokens
  <2> QED
    BY <2>1, <2>2
<1> QED
    BY <1>4, <1>5, <1>7, <1>8, <1>9 DEF IInv, Tokens

\* The actor's other branches arm watched projects only.
LEMMA ActorIInv ==
    ASSUME IInv,
           \/ EnableWatch \/ ReceiveNotify \/ DrainOverflow \/ Shutdown
           \/ \E p \in Projects : FileChanges(p) \/ DeadlinePasses(p) \/ Reschedule(p)
    PROVE  IInv'
<1> DEFINE Quiet == /\ Typed' /\ UNCHANGED <<inFlight, cancels, task>>
                    /\ watchers \subseteq watchers'
                    /\ \A p \in Projects : pending'[p] # "none" => p \in watchers'
<1> SUFFICES Quiet
    BY QuietStep
<1>1. \A p \in Projects : pending[p] # "none" => p \in watchers
    BY DEF IInv, Armed
<1>2. CASE EnableWatch
  <2>1. Head(events) \in Events /\ Tail(events) \in Seq(Events)
    BY <1>2 DEF EnableWatch, IInv, Typed
  <2>2. Head(events).project \in Projects
    BY <2>1 DEF Events
  <2> QED
    BY <1>1, <1>2, <2>1, <2>2 DEF EnableWatch, IInv, Typed
<1>3. CASE ReceiveNotify
  <2>1. Head(channel) \in Projects /\ Tail(channel) \in Seq(Projects)
    BY <1>3 DEF ReceiveNotify, IInv, Typed
  <2> QED
    BY <1>1, <1>3, <2>1 DEF ReceiveNotify, IInv, Typed
<1>4. CASE DrainOverflow
    BY <1>1, <1>4 DEF DrainOverflow, IInv, Typed
<1>5. CASE Shutdown
    BY <1>1, <1>5 DEF Shutdown, IInv, Typed
<1>6. ASSUME NEW p \in Projects, FileChanges(p)
      PROVE  Quiet
  <2>1. channel' \in Seq(Projects)
    <3>1. channel' = Append(channel, p) \/ channel' = channel
      BY <1>6 DEF FileChanges, Notify
    <3>2. channel \in Seq(Projects) /\ p \in Projects
      BY DEF IInv, Typed
    <3>3. Append(channel, p) \in Seq(Projects)
      BY <3>2
    <3> QED
      BY <3>1, <3>2, <3>3
  <2> QED
    BY <1>1, <1>6, <2>1 DEF FileChanges, actor, IInv, Typed
<1>7. ASSUME NEW p \in Projects, DeadlinePasses(p) \/ Reschedule(p)
      PROVE  Quiet
    BY <1>1, <1>7 DEF DeadlinePasses, Reschedule, IInv, Typed
<1> HIDE DEF Quiet
<1> QED
    BY <1>2, <1>3, <1>4, <1>5, <1>6, <1>7

\* A task's own steps.
LEMMA TaskIInv ==
    ASSUME IInv, NEW t \in Tasks, TaskStep(t)
    PROVE  IInv'
<1>1. CASE StartUpdate(t)
  <2>1. task[t] \in Busy /\ t \in Live
    BY <1>1, NamedIsBusy DEF StartUpdate, IInv, Live
  <2>2. PICK next \in {"running", "ending"} : task' = [task EXCEPT ![t].state = next]
    BY <1>1 DEF StartUpdate
  <2>3. UNCHANGED <<cancels, request, events, channel, watchers, pending, inFlight>>
        /\ cancels \in [Projects -> Tasks \cup {NoTask}]
    BY <1>1 DEF StartUpdate, actor, IInv, Typed
  <2>4. next \in {"running", "ending", "deferred"} /\ next # "deferred"
    BY <2>2
  <2> QED
    BY <2>1, <2>2, <2>3, <2>4, MoveStep
<1>2. CASE FinishUpdate(t)
  <2>1. task[t] \in Busy /\ t \in Live
    BY <1>2, NamedIsBusy DEF FinishUpdate, IInv, Live
  <2>2. task' = [task EXCEPT ![t].state = "ending"]
    BY <1>2 DEF FinishUpdate
  <2>3. UNCHANGED <<cancels, request, events, channel, watchers, pending, inFlight>>
        /\ cancels \in [Projects -> Tasks \cup {NoTask}]
    BY <1>2 DEF FinishUpdate, actor, IInv, Typed
  <2> QED
    BY <2>1, <2>2, <2>3, MoveStep
<1>3. ASSUME Over(t)
      PROVE  /\ cancels' \in [Projects -> Tasks \cup {NoTask}]
             /\ \A p \in Projects : cancels'[p] = IF cancels[p] = t THEN NoTask
                                                  ELSE cancels[p]
             /\ \A p \in Projects : cancels'[p] # t
    BY <1>3, WatcherAssumption DEF Over, IInv, Typed
<1>4. CASE ReleaseSlot(t)
  <2>1. task[t] \in Busy /\ t \notin Live
    BY <1>4, NamedIsBusy DEF ReleaseSlot, IInv, Live
  <2>2. /\ task' = [task EXCEPT ![t] = FreeTask] /\ Over(t)
        /\ inFlight' = inFlight \ {task[t].project}
        /\ UNCHANGED <<request, events, channel, watchers, pending>>
    BY <1>4 DEF ReleaseSlot
  <2> QED
    BY <1>3, <2>1, <2>2, FreeStep
<1>5. CASE DeferRelease(t)
  <2>1. task[t] \in Busy
    BY <1>5, NamedIsBusy DEF DeferRelease, IInv
  <2>2. /\ task' = [task EXCEPT ![t].state = "deferred"] /\ Over(t)
        /\ UNCHANGED <<request, events, channel, watchers, pending, inFlight>>
    BY <1>5 DEF DeferRelease
  <2>3. /\ \A p \in Projects : cancels[p] # t => cancels'[p] = cancels[p]
        /\ \A p \in Projects : cancels'[p] \in {cancels[p], NoTask}
    BY <1>3, <2>2
  <2> QED
    BY <1>3, <2>1, <2>2, <2>3, MoveStep
<1>6. CASE RemoveMarker(t)
  <2>1. task[t] \in Busy /\ t \notin Live
    BY <1>6, NamedIsBusy DEF RemoveMarker, IInv, Live
  <2>2. /\ task' = [task EXCEPT ![t] = FreeTask]
        /\ inFlight' = inFlight \ {task[t].project}
        /\ UNCHANGED <<cancels, request, events, channel, watchers, pending>>
    BY <1>6 DEF RemoveMarker, actor
  <2>3. \A p \in Projects : cancels[p] # t
    BY <1>6 DEF RemoveMarker, IInv, Tokens
  <2>4. cancels' \in [Projects -> Tasks \cup {NoTask}]
    BY <2>2 DEF IInv, Typed
  <2>5. \A p \in Projects : cancels'[p] = IF cancels[p] = t THEN NoTask ELSE cancels[p]
    BY <2>2, <2>3
  <2> QED
    BY <2>1, <2>2, <2>4, <2>5, FreeStep
<1> QED
    BY <1>1, <1>2, <1>4, <1>5, <1>6 DEF TaskStep

-----------------------------------------------------------------------------
\* Every step preserves the invariant.
LEMMA NextIInv == IInv /\ [Next]_vars => IInv'
<1> SUFFICES ASSUME IInv, [Next]_vars PROVE IInv'
    OBVIOUS
<1>1. ASSUME NEW r \in Requests,
             SendWatchUpdate(r)
               \/ \E p \in Projects, enabled \in BOOLEAN : SaveWatch(r, p, enabled)
      PROVE  IInv'
    BY <1>1, RequestIInv
<1>2. ASSUME NEW p \in Projects,
             FileChanges(p) \/ DeadlinePasses(p) \/ TriggerStep(p)
      PROVE  IInv'
    BY <1>2, ActorIInv, TriggerIInv DEF TriggerStep
<1>3. CASE ReceiveEvent
    BY <1>3, ActorIInv, DisableIInv DEF ReceiveEvent
<1>4. CASE ReceiveNotify \/ DrainOverflow \/ Shutdown
    BY <1>4, ActorIInv
<1>5. ASSUME NEW t \in Tasks, TaskStep(t)
      PROVE  IInv'
    BY <1>5, TaskIInv
<1>6. CASE UNCHANGED vars
  <2>1. Typed'
    BY <1>6 DEF vars, actor, IInv, Typed
  <2> QED
    BY <1>6, <2>1, QuietStep DEF vars, actor, IInv, Armed
<1> QED
    BY <1>1, <1>2, <1>3, <1>4, <1>5, <1>6 DEF Next

\* The invariant holds in every reachable state: the in-flight marker of a
\* task outlives it, its token is kept until it is used, and only watched
\* projects are armed.
THEOREM Invariance == Spec => []IInv
  BY InitIInv, NextIInv, PTL DEF Spec

\* A project has at most one update of the watcher at a time, and once
\* DisableWatch has been handled nothing of the project is armed and an
\* update that still runs has been told to stop.
THEOREM OwnedUpdates == Spec => []UpdatesAreOwned
<1>1. IInv => UpdatesAreOwned
  <2> SUFFICES ASSUME IInv PROVE UpdatesAreOwned
    OBVIOUS
  <2>1. \A t \in Live : t \in Tasks /\ task[t] # FreeTask
    BY LiveIsBusy DEF IInv
  <2> QED
    BY <2>1 DEF IInv, Slots, Armed, UpdatesAreOwned
<1> QED
    BY <1>1, Invariance, PTL

-----------------------------------------------------------------------------
(* The update flow: the inductive invariant.                               *)

\* The locals of a flow.
IsFlow(w) ==
    w = [pc |-> w.pc, kind |-> w.kind, gen |-> w.gen, epoch |-> w.epoch, left |-> w.left,
         seen |-> w.seen, trust |-> w.trust, now |-> w.now, patches |-> w.patches,
         changed |-> w.changed, deleted |-> w.deleted, stamps |-> w.stamps, texts |-> w.texts]

\* File nodes; their times and those of hints are past ones.
Hints == [epoch : Nat, stamp : 0 .. clock]
Nodes == [gen : Nat \ {0}, hash : Texts, stamp : 0 .. clock, hint : Hints]

\* What the variables hold.
Shapes ==
    /\ clock \in Nat /\ head \in Nat /\ epoch \in Nat \ {0} /\ verified \in BOOLEAN
    /\ baseline \in Nat /\ baseline <= head
    /\ disk \in [Files -> [text : Texts \cup {Absent}, stamp : 0 .. clock]]
    /\ view \in [Files -> Texts \cup {Absent}]
    /\ node \in [Files -> Nodes \cup {NoNode}]
    /\ symbols \in [Files \X Texts -> Nat]
    /\ suspect \subseteq Files
    /\ gc = [on |-> gc.on, nodes |-> gc.nodes, symbols |-> gc.symbols] /\ gc.on \in BOOLEAN

\* Where the time of the node is that of the file, so is the text.
Sure(f) ==
    disk[f].text # Absent /\ StoredStamp(node[f], epoch) = disk[f].stamp
        => disk[f].text = node[f].hash

\* The graph keeps what is published, out of reach of the collection; a node
\* that a scan compares is of the published text, and its time can be trusted
\* once the identity is verified.
Evident(f) ==
    /\ view[f] # Absent =>
          /\ node[f] # NoNode /\ node[f].gen >= baseline
          /\ symbols[<<f, view[f]>>] >= baseline /\ symbols[<<f, view[f]>>] > 0
    /\ node[f] # NoNode /\ node[f].gen <= head =>
          node[f].hash = view[f] /\ (verified => Sure(f))

Evidence == \A f \in Files \ suspect : Evident(f)

\* The flow that holds the lock.
Early == {"start", "scan", "attest", "stat", "read", "upsert", "publish"}
Late  == {"cleanup", "baseline"}

Turn ==
    /\ IsFlow(flow) /\ flow.pc \in Early \cup Late \cup {"idle"}
    /\ flow.pc = "idle" => flow = Idle
    /\ gc.on => flow = Idle
    /\ flow.pc \in Early => flow.gen = head + 1 /\ flow.epoch \in Nat /\ flow.epoch <= epoch
    /\ flow.pc \in Late => flow.gen = head
    /\ flow.pc = "start" => flow.patches = {}
    /\ flow.changed \subseteq Files

InTime == epoch = flow.epoch

\* A scan: the files it has yet to compare have the nodes it read, and so have
\* those whose observations wait; the others are settled.
Observed(x) ==
    /\ node[x.file] = flow.seen[x.file]
    /\ x.hint.epoch = epoch
    /\ disk[x.file].text # Absent /\ disk[x.file].stamp = x.hint.stamp
          => disk[x.file].text = node[x.file].hash

Kept(f) == node[f] = NoNode \/ node[f].gen <= head

Scanning ==
    flow.pc = "scan" =>
        /\ flow.kind = "update" /\ flow.left \subseteq Files
        /\ \A x \in flow.patches : x.file \in Files \ flow.left /\ x.hint \in Hints
        /\ InTime =>
              /\ flow.now = epoch /\ (flow.trust => verified)
              /\ \A f \in flow.left \ suspect : node[f] = flow.seen[f]
              /\ \A x \in flow.patches : x.file \notin suspect => Observed(x)
              /\ \A f \in Files \ (flow.left \cup flow.changed \cup flow.deleted \cup suspect) :
                    /\ Kept(f)
                    /\ node[f] = NoNode \/ verified \/ Sure(f)
                          \/ \E x \in flow.patches : x.file = f

\* What an update leaves as it is belongs to the published source, and its
\* times can be trusted.
Choosing ==
    /\ flow.pc \in {"attest", "stat", "read", "upsert", "publish"}
    /\ flow.kind \in {"update", "only"}
    /\ InTime
    => \A f \in Files \ (flow.changed \cup flow.deleted \cup suspect) :
          Kept(f) /\ (node[f] = NoNode \/ verified \/ Sure(f))

Attesting == flow.pc = "attest" =>
    flow.kind = "update" /\ flow.changed = {} /\ flow.deleted = {}

\* A file that has the time s still has the text that the flow read.
Match(f, s) ==
    InTime /\ disk[f].text # Absent /\ disk[f].stamp = s => disk[f].text = flow.texts[f]

Own(f) == node[f] # NoNode /\ node[f].gen = flow.gen /\ node[f].hash = flow.texts[f]

Times(w) == w.stamps \in [w.changed -> 0 .. clock]
Indexed(w) == w.texts \in [w.changed -> Texts]

Reading ==
    /\ flow.pc \in {"read", "upsert"} => Times(flow)
    /\ flow.pc \in {"upsert", "publish"} =>
          /\ Indexed(flow)
          /\ orphan # Idle => \A f \in flow.changed \cap orphan.changed : Match(f, orphan.stamps[f])
    /\ flow.pc = "upsert" => \A f \in flow.changed : Match(f, flow.stamps[f])
    /\ flow.pc = "publish" => \A f \in flow.changed :
          /\ f \notin suspect => Own(f)
          /\ Own(f) => /\ symbols[<<f, flow.texts[f]>>] = flow.gen
                       /\ node[f].hint = NoHint
                       /\ Match(f, node[f].stamp)

\* After the publication: what the flow indexed is of its generation, and what
\* it dropped is not published.
Closing ==
    flow.pc \in Late => \A f \in Files \ suspect :
        view[f] # Absent =>
            /\ f \in flow.changed => node[f].gen = head /\ symbols[<<f, view[f]>>] = head
            /\ f \in flow.changed \/ (f \notin flow.deleted /\ flow.pc = "cleanup")

\* The upsert of an aborted flow.
Orphaned ==
    /\ IsFlow(orphan)
    /\ orphan # Idle => /\ orphan.gen \in Nat \ {0} /\ orphan.changed \subseteq Files
                        /\ Times(orphan) /\ Indexed(orphan)

\* A sweep spares what is published.
Sweeping ==
    gc.on => \A f \in Files \ suspect :
        view[f] # Absent => f \notin gc.nodes /\ <<f, view[f]>> \notin gc.symbols

UpdateInv ==
    /\ Shapes /\ Evidence /\ Turn /\ Scanning /\ Choosing /\ Attesting
    /\ Reading /\ Closing /\ Orphaned /\ Sweeping

-----------------------------------------------------------------------------
(* Steps that leave the graph and what is published alone.                 *)

\* What Idle is.
LEMMA IdleFacts ==
    /\ IsFlow(Idle) /\ Idle.pc = "idle" /\ Idle.changed = {} /\ Idle.deleted = {}
    /\ Idle.patches = {} /\ Idle.left = {}
  BY DEF Idle, IsFlow

\* The parts that are not about the flow.
LEMMA Still ==
    ASSUME Shapes, Evidence, Sweeping, UNCHANGED <<tree, meta, graph, suspect, gc>>
    PROVE  Shapes' /\ Evidence' /\ Sweeping'
<1>1. /\ disk' = disk /\ clock' = clock /\ head' = head /\ epoch' = epoch
      /\ verified' = verified /\ view' = view /\ baseline' = baseline
      /\ node' = node /\ symbols' = symbols /\ suspect' = suspect /\ gc' = gc
    BY DEF tree, meta, graph
<1>2. Shapes'
    BY <1>1 DEF Shapes, Nodes, Hints
<1>3. Evidence'
    BY <1>1 DEF Evidence, Evident, Sure, StoredStamp
<1>4. Sweeping'
    BY <1>1 DEF Sweeping
<1> QED
    BY <1>2, <1>3, <1>4

\* Nothing is under way.
LEMMA Rests ==
    ASSUME flow' = Idle
    PROVE  Turn' /\ Scanning' /\ Choosing' /\ Attesting' /\ Reading' /\ Closing'
  BY IdleFacts DEF Turn, Scanning, Choosing, Attesting, Reading, Closing, Early, Late

\* A flow ends before its publication, or its upsert is left to run.
LEMMA GoesIdle ==
    ASSUME UpdateInv, flow' = Idle, UNCHANGED <<tree, meta, graph, suspect, gc>>,
           orphan' \in {orphan, Idle} \/ (orphan' = flow /\ flow.pc = "upsert")
    PROVE  UpdateInv'
<1>1. Shapes' /\ Evidence' /\ Sweeping'
    BY Still DEF UpdateInv
<1>2. Turn' /\ Scanning' /\ Choosing' /\ Attesting' /\ Reading' /\ Closing'
    BY Rests
<1>3. Orphaned'
  <2>1. clock' = clock
    BY DEF tree
  <2>2. CASE orphan' = orphan
    BY <2>1, <2>2 DEF UpdateInv, Orphaned, Times, Indexed
  <2>3. CASE orphan' = Idle
    BY <2>3, IdleFacts DEF Orphaned
  <2>4. CASE orphan' = flow /\ flow.pc = "upsert"
    <3>1. /\ IsFlow(flow) /\ flow.gen = head + 1 /\ flow.changed \subseteq Files
          /\ Times(flow) /\ Indexed(flow) /\ head \in Nat
      BY <2>4 DEF UpdateInv, Turn, Reading, Early, Shapes
    <3> QED
      BY <3>1, <2>1, <2>4 DEF Orphaned, Times, Indexed
  <2> QED
    BY <2>2, <2>3, <2>4
<1> QED
    BY <1>1, <1>2, <1>3 DEF UpdateInv

\* Time passes for the disk: a new text has a new time, which no node, no
\* observation and no flow has seen.
LEMMA DiskMoves ==
    ASSUME UpdateInv, NEW f \in Files, NEW d,
           d \in [text : Texts \cup {Absent}, stamp : 0 .. clock + 1],
           d.text = Absent \/ d.stamp = clock + 1,
           disk' = [disk EXCEPT ![f] = d], clock' = clock + 1,
           UNCHANGED <<meta, graph, suspect, flow, orphan, gc>>
    PROVE  UpdateInv'
<1>1. /\ head' = head /\ epoch' = epoch /\ flow' = flow /\ orphan' = orphan
      /\ verified' = verified /\ view' = view /\ baseline' = baseline
      /\ node' = node /\ symbols' = symbols /\ suspect' = suspect /\ gc' = gc
    BY DEF meta, graph
<1>2. Shapes /\ clock \in Nat
    BY DEF UpdateInv, Shapes
<1>3. 0 .. clock \subseteq 0 .. clock'
    BY <1>2
<1>4. Hints \subseteq Hints' /\ Nodes \subseteq Nodes'
    BY <1>3 DEF Hints, Nodes
<1>5. Shapes'
  <2>1. disk' \in [Files -> [text : Texts \cup {Absent}, stamp : 0 .. clock']]
    BY <1>2, <1>3 DEF Shapes
  <2> QED
    BY <1>1, <1>2, <1>4, <2>1 DEF Shapes
<1>6. ASSUME NEW g \in Files, NEW s \in 0 .. clock, disk'[g].text # Absent, disk'[g].stamp = s
      PROVE  disk'[g] = disk[g]
    BY <1>2, <1>6 DEF Shapes
<1>7. ASSUME NEW g \in Files, node[g] # NoNode, Sure(g) PROVE Sure(g)'
  <2>1. node[g] \in Nodes
    BY <1>2, <1>7 DEF Shapes
  <2>2. StoredStamp(node[g], epoch) \in 0 .. clock
    BY <2>1 DEF StoredStamp, Nodes, Hints
  <2>3. StoredStamp(node[g], epoch)' = StoredStamp(node[g], epoch)
    BY <1>1 DEF StoredStamp
  <2> QED
    BY <1>1, <1>6, <1>7, <2>2, <2>3 DEF Sure
<1>8. Evidence'
    BY <1>1, <1>7 DEF UpdateInv, Evidence, Evident
<1>9. Turn' /\ Closing' /\ Sweeping' /\ Attesting'
    BY <1>1 DEF UpdateInv, Turn, Closing, Sweeping, Attesting
<1>10. Scanning'
  <2> SUFFICES ASSUME flow.pc = "scan" PROVE Scanning'
    BY <1>1 DEF Scanning
  <2>1. Scanning
    BY DEF UpdateInv
  <2>2. ASSUME NEW x \in flow.patches, InTime, x.file \notin suspect PROVE Observed(x)'
    <3>1. Observed(x) /\ x.file \in Files /\ x.hint.stamp \in 0 .. clock
      BY <2>1, <2>2 DEF Scanning, Hints
    <3> QED
      BY <1>1, <1>6, <3>1 DEF Observed
  <2> QED
    BY <1>1, <1>4, <1>7, <2>1, <2>2 DEF Scanning, InTime, Kept
<1>11. Choosing'
    BY <1>1, <1>7 DEF UpdateInv, Choosing, InTime, Kept
<1>12. \A w : Times(w) => Times(w)'
    BY <1>3 DEF Times
<1>13. Orphaned'
    BY <1>1, <1>12 DEF UpdateInv, Orphaned, Indexed, Times
<1>14. Reading'
  <2>1. ASSUME NEW g \in Files, NEW s \in 0 .. clock, Match(g, s) PROVE Match(g, s)'
    BY <1>1, <1>6, <2>1 DEF Match, InTime
  <2>2. Reading /\ Orphaned /\ Turn
    BY DEF UpdateInv
  <2>3. flow.pc \in {"read", "upsert"} => Times(flow)'
    BY <2>2, <1>12 DEF Reading
  <2>4. ASSUME flow.pc \in {"upsert", "publish"}, orphan # Idle,
               NEW g \in flow.changed \cap orphan.changed
        PROVE  Match(g, orphan.stamps[g])'
    <3>1. Match(g, orphan.stamps[g]) /\ orphan.stamps[g] \in 0 .. clock /\ g \in Files
      BY <2>2, <2>4 DEF Reading, Orphaned, Times
    <3> QED
      BY <1>1, <2>1, <3>1 DEF Match
  <2>5. ASSUME flow.pc = "upsert", NEW g \in flow.changed PROVE Match(g, flow.stamps[g])'
    <3>1. Match(g, flow.stamps[g]) /\ flow.stamps[g] \in 0 .. clock /\ g \in Files
      BY <2>2, <2>5 DEF Reading, Times, Turn
    <3> QED
      BY <1>1, <2>1, <3>1 DEF Match
  <2>6. ASSUME flow.pc = "publish", NEW g \in flow.changed, Own(g) PROVE Match(g, node[g].stamp)'
    <3>1. Match(g, node[g].stamp) /\ g \in Files
      BY <2>2, <2>6 DEF Reading, Turn
    <3>2. node[g].stamp \in 0 .. clock
      BY <1>2, <2>6, <3>1 DEF Shapes, Own, Nodes
    <3> QED
      BY <1>1, <2>1, <3>1, <3>2 DEF Match
  <2> QED
    BY <1>1, <2>2, <2>3, <2>4, <2>5, <2>6 DEF Reading, Indexed, Own, Times
<1> QED
    BY <1>5, <1>8, <1>9, <1>10, <1>11, <1>13, <1>14 DEF UpdateInv

\* An edit or a removal.
LEMMA EditKeeps ==
    ASSUME UpdateInv, NEW f \in Files, NEW t \in Texts, Edit(f, t)
    PROVE  UpdateInv'
<1> DEFINE d == [text |-> t, stamp |-> clock + 1]
<1>1. clock \in Nat
    BY DEF UpdateInv, Shapes
<1>2. d \in [text : Texts \cup {Absent}, stamp : 0 .. clock + 1] /\ d.stamp = clock + 1
    BY <1>1
<1>3. disk' = [disk EXCEPT ![f] = d] /\ clock' = clock + 1
    BY DEF Edit
<1>4. UNCHANGED <<meta, graph, suspect, flow, orphan, gc>>
    BY DEF Edit
<1> HIDE DEF d
<1> QED
    BY <1>2, <1>3, <1>4, DiskMoves

\* A removed file has no text.
LEMMA RemoveKeeps ==
    ASSUME UpdateInv, NEW f \in Files, Remove(f)
    PROVE  UpdateInv'
<1>1. clock \in Nat
    BY DEF UpdateInv, Shapes
<1>2. NoFile \in [text : Texts \cup {Absent}, stamp : 0 .. clock + 1] /\ NoFile.text = Absent
    BY <1>1 DEF NoFile
<1>3. disk' = [disk EXCEPT ![f] = NoFile] /\ clock' = clock + 1
    BY DEF Remove
<1>4. UNCHANGED <<meta, graph, suspect, flow, orphan, gc>>
    BY DEF Remove
<1> QED
    BY <1>2, <1>3, <1>4, DiskMoves

\* Another directory: nothing is trusted, and no flow is in time any more.
LEMMA RetargetKeeps ==
    ASSUME UpdateInv, Retarget
    PROVE  UpdateInv'
<1>1. /\ head' = head /\ flow' = flow /\ orphan' = orphan /\ clock' = clock
      /\ epoch' = epoch + 1 /\ verified' = FALSE /\ view' = view /\ baseline' = baseline
      /\ node' = node /\ symbols' = symbols /\ suspect' = suspect /\ gc' = gc
    BY DEF Retarget, graph
<1>2. Shapes /\ Turn /\ clock \in Nat
    BY DEF UpdateInv, Shapes
<1>3. disk' \in [Files -> [text : Texts \cup {Absent}, stamp : 0 .. clock]]
  <2>1. disk' \in [Files -> [text : Texts, stamp : 1 .. clock] \cup {NoFile}]
    BY DEF Retarget
  <2>2. [text : Texts, stamp : 1 .. clock] \subseteq [text : Texts \cup {Absent}, stamp : 0 .. clock]
    BY <1>2
  <2>3. NoFile \in [text : Texts \cup {Absent}, stamp : 0 .. clock]
    BY <1>2 DEF NoFile
  <2> QED
    BY <2>1, <2>2, <2>3
<1>4. Shapes'
  <2>1. Nodes' = Nodes
    BY <1>1 DEF Nodes, Hints
  <2>4. epoch \in Nat \ {0}
    BY <1>2 DEF Shapes
  <2>5. epoch' \in Nat \ {0}
    BY <1>1, <2>4
  <2>2. epoch' \in Nat \ {0} /\ verified' \in BOOLEAN
    BY <1>1, <2>5, Zenon
  <2>3. disk' \in [Files -> [text : Texts \cup {Absent}, stamp : 0 .. clock]]'
    BY <1>1, <1>3
  <2> QED
    BY <1>1, <1>2, <2>1, <2>2, <2>3 DEF Shapes
<1>5. Evidence'
    BY <1>1 DEF UpdateInv, Evidence, Evident
<1>6. epoch \in Nat /\ (flow.pc \in Early => ~InTime')
    BY <1>1, <1>2 DEF Shapes, Turn, InTime
<1>7. Turn'
    BY <1>1, <1>2, <1>6 DEF Turn
<1>8. Closing' /\ Sweeping' /\ Attesting' /\ Orphaned'
    BY <1>1 DEF UpdateInv, Closing, Sweeping, Attesting, Orphaned, Times, Indexed
<1>9. Scanning' /\ Choosing'
    BY <1>1, <1>6 DEF UpdateInv, Scanning, Choosing, Early, Hints
<1>10. Reading'
    BY <1>1, <1>6 DEF UpdateInv, Reading, Match, Early, Times, Indexed, Own
<1> QED
    BY <1>4, <1>5, <1>7, <1>8, <1>9, <1>10 DEF UpdateInv

-----------------------------------------------------------------------------
(* The scan and the choice of what to index.                               *)

\* Only the flow moves.
LEMMA FlowMoves ==
    ASSUME UpdateInv, UNCHANGED <<tree, meta, graph, suspect, gc, orphan>>,
           Turn', Scanning', Choosing', Attesting', Reading', Closing'
    PROVE  UpdateInv'
<1>1. Shapes' /\ Evidence' /\ Sweeping'
    BY Still DEF UpdateInv
<1>2. Orphaned'
    BY DEF UpdateInv, Orphaned, Times, Indexed, tree
<1> QED
    BY <1>1, <1>2 DEF UpdateInv

\* The parts about flows that come to one of the first points.
LEMMA EarlyParts ==
    /\ flow'.pc \in {"start", "scan", "attest", "stat"} => Reading'
    /\ flow'.pc \in Early => Closing'
    /\ flow'.pc # "scan" => Scanning'
    /\ flow'.pc \in {"start", "scan"} => Choosing'
    /\ flow'.pc # "attest" => Attesting'
  BY DEF Reading, Closing, Scanning, Choosing, Attesting, Early, Late

\* A flow is admitted with the token of the present head and epoch.
LEMMA BeginKeeps ==
    ASSUME UpdateInv, NEW kind, Begin(kind)
    PROVE  UpdateInv'
<1>1. /\ flow' = Admitted(kind) /\ ~gc.on
      /\ UNCHANGED <<tree, meta, graph, suspect, gc, orphan>>
    BY DEF Begin, Free
<1>2. /\ IsFlow(flow') /\ flow'.pc = "start" /\ flow'.gen = head + 1 /\ flow'.epoch = epoch
      /\ flow'.patches = {} /\ flow'.changed = {}
    BY <1>1 DEF Admitted, Idle, IsFlow
<1>3. Turn'
    BY <1>1, <1>2 DEF Turn, Early, Late, meta, UpdateInv, Shapes
<1> QED
    BY <1>1, <1>2, <1>3, EarlyParts, FlowMoves DEF Early

\* A flow that lost its precondition returns an error.
LEMMA GiveUpKeeps ==
    ASSUME UpdateInv, GiveUp
    PROVE  UpdateInv'
  BY GoesIdle DEF GiveUp

\* A flow fails, crashes or is aborted; its upsert may be left behind.
LEMMA FailKeeps ==
    ASSUME UpdateInv, Fail \/ FailLate \/ Abort
    PROVE  UpdateInv'
  BY GoesIdle DEF Fail, FailLate, Abort

\* A scan starts from the nodes of the graph: files without a node need nothing.
LEMMA ScanReadKeeps ==
    ASSUME UpdateInv, ScanRead
    PROVE  UpdateInv'
<1>1. CASE ~Current
    BY <1>1, GiveUpKeeps DEF ScanRead
<1>2. CASE Current
  <2>1. /\ flow' = [flow EXCEPT !.pc = "scan", !.left = Present,
                 !.deleted = {f \in Files \ Present : node[f] # NoNode},
                 !.seen = node, !.trust = verified, !.now = epoch]
        /\ flow.pc = "start" /\ flow.kind = "update"
        /\ UNCHANGED <<tree, meta, graph, suspect, gc, orphan>>
    BY <1>2 DEF ScanRead
  <2>2. Turn /\ IsFlow(flow)
    BY DEF UpdateInv, Turn
  <2>3. /\ IsFlow(flow') /\ flow'.pc = "scan" /\ flow'.kind = flow.kind
        /\ flow'.gen = flow.gen /\ flow'.epoch = flow.epoch /\ flow'.left = Present
        /\ flow'.deleted = {f \in Files \ Present : node[f] # NoNode} /\ flow'.seen = node
        /\ flow'.now = epoch /\ flow'.patches = flow.patches /\ flow'.changed = flow.changed
    BY <2>1, <2>2 DEF IsFlow
  <2>4. flow'.trust = verified
    BY <2>1, <2>2 DEF IsFlow
  <2>5. Turn'
    BY <2>1, <2>2, <2>3, IdleFacts DEF Turn, Early, Late, meta
  <2>6. Scanning'
    <3>1. flow'.patches = {}
      BY <2>1, <2>2, <2>3 DEF Turn
    <3>2. node' = node /\ verified' = verified /\ epoch' = epoch /\ head' = head
      BY <2>1 DEF meta, graph
    <3>3. \A f \in Files \ (Present \cup flow'.deleted) : node[f] = NoNode
      BY <2>3
    <3>4. flow'.trust => verified'
      BY <2>4, <3>2
    <3> QED
      BY <2>1, <2>3, <3>1, <3>2, <3>3, <3>4 DEF Scanning, Kept, Present
  <2> QED
    BY <2>1, <2>3, <2>5, <2>6, EarlyParts, FlowMoves DEF Early
<1> QED
    BY <1>1, <1>2

\* A file is compared with the node that was read.
LEMMA ScanFileKeeps ==
    ASSUME UpdateInv, NEW f \in Files, ScanFile(f)
    PROVE  UpdateInv'
<1> DEFINE n == flow.seen[f]
           lost == disk[f].text = Absent
           new == ~lost /\ IsChanged(n, head, flow.trust, flow.now, disk[f])
           read == ~lost /\ ~new /\ ~StatMatches(n, flow.trust, flow.now, disk[f])
           found == IF read THEN Observation(f) ELSE {}
<1>1. /\ flow.pc = "scan" /\ f \in flow.left
      /\ UNCHANGED <<tree, meta, graph, suspect, gc, orphan>>
    BY DEF ScanFile
<1>2. flow' = [flow EXCEPT
         !.left = @ \ {f},
         !.deleted = IF lost THEN @ \cup {f} ELSE @,
         !.changed = IF new THEN @ \cup {f} ELSE @,
         !.patches = IF read THEN @ \cup Observation(f) ELSE @]
    BY DEF ScanFile
<1>3. Turn /\ Scanning /\ Shapes /\ IsFlow(flow)
    BY DEF UpdateInv, Turn
<1>4. /\ IsFlow(flow') /\ flow'.pc = "scan" /\ flow'.left = flow.left \ {f}
      /\ flow'.kind = flow.kind /\ flow'.gen = flow.gen /\ flow'.epoch = flow.epoch
      /\ flow'.seen = flow.seen /\ flow'.now = flow.now
  <2> HIDE DEF lost, new, read
  <2> QED
    BY <1>1, <1>2, <1>3 DEF IsFlow
<1>5. /\ flow'.deleted = IF lost THEN flow.deleted \cup {f} ELSE flow.deleted
      /\ flow'.changed = IF new THEN flow.changed \cup {f} ELSE flow.changed
  <2> HIDE DEF lost, new, read
  <2> QED
    BY <1>2, <1>3 DEF IsFlow
<1>6. flow'.patches = flow.patches \cup found /\ flow'.trust = flow.trust
  <2>1. flow'.patches = (IF read THEN flow.patches \cup Observation(f) ELSE flow.patches)
        /\ flow'.trust = flow.trust
    <3> HIDE DEF lost, new, read
    <3> QED
      BY <1>2, <1>3 DEF IsFlow
  <2> HIDE DEF lost, new, read
  <2> QED
    BY <2>1 DEF found
<1>7. /\ node' = node /\ verified' = verified /\ epoch' = epoch /\ head' = head
      /\ disk' = disk /\ clock' = clock /\ suspect' = suspect /\ gc' = gc
    BY <1>1 DEF meta, graph, tree
<1>8. Turn'
    BY <1>1, <1>3, <1>4, <1>5, <1>7, IdleFacts DEF Turn, Early, Late
<1>9. ASSUME NEW x \in found
      PROVE  /\ read /\ x.file = f /\ x.hint = [epoch |-> flow.epoch, stamp |-> disk[f].stamp]
             /\ x.hint \in Hints
  <2>1. read /\ x.file = f /\ x.hint = [epoch |-> flow.epoch, stamp |-> disk[f].stamp]
    <3> HIDE DEF read
    <3> QED
      BY <1>9 DEF Observation, found
  <2>2. flow.epoch \in Nat /\ disk[f].stamp \in 0 .. clock
    BY <1>1, <1>3 DEF Turn, Early, Shapes
  <2> QED
    BY <2>1, <2>2 DEF Hints
<1>10. ASSUME InTime, f \notin suspect
       PROVE  /\ flow.now = epoch /\ node[f] = n
              /\ read => disk[f].text = node[f].hash
              /\ f \notin flow'.changed \cup flow'.deleted =>
                    Kept(f) /\ (verified \/ Sure(f) \/ \E x \in found : x.file = f)
  <2>1. flow.now = epoch /\ node[f] = n /\ (flow.trust => verified)
    BY <1>1, <1>3, <1>10 DEF Scanning
  <2>2. read => disk[f].text = node[f].hash
    BY <2>1 DEF IsChanged
  <2>3. ASSUME f \notin flow'.changed \cup flow'.deleted
        PROVE  Kept(f) /\ (verified \/ Sure(f) \/ \E x \in found : x.file = f)
    <3>1. ~lost /\ ~new
      <4> HIDE DEF lost, new
      <4> QED
        BY <1>5, <2>3
    <3>2. Kept(f)
      BY <2>1, <3>1 DEF IsChanged, Fresh, Kept
    <3>3. CASE StatMatches(n, flow.trust, flow.now, disk[f])
      BY <2>1, <3>2, <3>3 DEF StatMatches
    <3>4. CASE ~StatMatches(n, flow.trust, flow.now, disk[f])
      <4> DEFINE h == [epoch |-> flow.epoch, stamp |-> disk[f].stamp]
      <4>1. read
        BY <3>1, <3>4
      <4>2. CASE n.hint = h
        <5>1. h.epoch = epoch /\ h.stamp = disk[f].stamp
          BY <1>10 DEF InTime
        <5>2. StoredStamp(n, epoch) = disk[f].stamp
          <6> HIDE DEF h
          <6> QED
            BY <4>2, <5>1 DEF StoredStamp
        <5> QED
          BY <2>2, <3>2, <4>1 DEF Sure
      <4>3. CASE n.hint # h
        <5>1. [file |-> f, hint |-> h] \in found
          BY <4>1, <4>3 DEF Observation
        <5> QED
          BY <3>2, <5>1
      <4> QED
        BY <4>2, <4>3
    <3> QED
      BY <3>3, <3>4
  <2> QED
    BY <2>1, <2>2, <2>3
<1> HIDE DEF lost, new, read, found, n
<1>11. Scanning'
  <2>1. \A x \in flow'.patches : x.file \in Files \ flow'.left /\ x.hint \in Hints'
    BY <1>1, <1>3, <1>4, <1>6, <1>7, <1>9 DEF Scanning, Hints
  <2>2. ASSUME InTime
        PROVE  /\ flow.now = epoch /\ (flow.trust => verified)
               /\ \A g \in flow'.left \ suspect : node[g] = flow.seen[g]
               /\ \A g \in Files \ (flow.left \cup flow.changed \cup flow.deleted \cup suspect) :
                    /\ Kept(g)
                    /\ node[g] = NoNode \/ verified \/ Sure(g)
                          \/ \E x \in flow.patches : x.file = g
    BY <1>1, <1>3, <1>4, <2>2 DEF Scanning
  <2>3. ASSUME InTime, NEW x \in flow'.patches, x.file \notin suspect PROVE Observed(x)'
    <3>1. CASE x \in flow.patches
      <4>1. Observed(x)
        BY <1>1, <1>3, <2>3, <3>1 DEF Scanning
      <4> QED
        BY <1>4, <1>7, <4>1 DEF Observed
    <3>2. CASE x \in found
      <4>1. read /\ x.file = f /\ x.hint = [epoch |-> flow.epoch, stamp |-> disk[f].stamp]
        BY <1>9, <3>2
      <4>2. node[f] = n /\ disk[f].text = node[f].hash
        BY <1>10, <2>3, <4>1
      <4> QED
        BY <1>4, <1>7, <2>3, <4>1, <4>2 DEF Observed, InTime, n
    <3> QED
      BY <1>6, <2>3, <3>1, <3>2
  <2>4. ASSUME InTime,
               NEW g \in Files \ (flow'.left \cup flow'.changed \cup flow'.deleted \cup suspect)
        PROVE  /\ Kept(g)
               /\ node[g] = NoNode \/ verified \/ Sure(g) \/ \E x \in flow'.patches : x.file = g
    <3>1. CASE g = f
      BY <1>6, <1>10, <2>4, <3>1
    <3>2. CASE g # f
      <4>1. g \in Files \ (flow.left \cup flow.changed \cup flow.deleted \cup suspect)
        BY <1>4, <1>5, <2>4, <3>2
      <4> QED
        BY <1>6, <2>2, <2>4, <4>1
    <3> QED
      BY <3>1, <3>2
  <2>5. (InTime' <=> InTime) /\ \A g : (Kept(g)' <=> Kept(g)) /\ (Sure(g)' <=> Sure(g))
    BY <1>4, <1>7 DEF InTime, Kept, Sure, StoredStamp
  <2>6. flow'.kind = "update" /\ flow'.left \subseteq Files
    BY <1>1, <1>3, <1>4 DEF Scanning
  <2> QED
    BY <1>4, <1>6, <1>7, <2>1, <2>2, <2>3, <2>4, <2>5, <2>6 DEF Scanning
<1> QED
    BY <1>1, <1>4, <1>8, <1>11, EarlyParts, FlowMoves DEF Early

\* What a flow that has chosen is.
LEMMA StagedFacts ==
    ASSUME NEW pc, NEW changed, NEW deleted, flow' = Staged(pc, changed, deleted)
    PROVE  /\ IsFlow(flow') /\ flow'.pc = pc /\ flow'.kind = flow.kind
           /\ flow'.gen = flow.gen /\ flow'.epoch = flow.epoch
           /\ flow'.changed = changed /\ flow'.deleted = deleted
  BY DEF Staged, Idle, IsFlow

\* Its place in the order of the flow.
LEMMA StagedTurns ==
    ASSUME UpdateInv, NEW pc \in {"attest", "stat"}, NEW changed \in SUBSET Files, NEW deleted,
           flow' = Staged(pc, changed, deleted), flow.pc \in Early,
           head' = head, epoch' = epoch, gc' = gc
    PROVE  Turn'
  BY StagedFacts, IdleFacts DEF UpdateInv, Turn, Early, Late

\* Every file was compared and every observation written.
LEMMA ScanEndKeeps ==
    ASSUME UpdateInv, ScanEnd
    PROVE  UpdateInv'
<1>1. CASE ~Current
    BY <1>1, GiveUpKeeps DEF ScanEnd
<1>2. CASE Current
  <2> DEFINE pc == IF flow.changed \cup flow.deleted = {} THEN "attest" ELSE "stat"
  <2>1. /\ flow' = Staged(pc, flow.changed, flow.deleted)
        /\ flow.pc = "scan" /\ flow.left = {} /\ flow.patches = {}
        /\ UNCHANGED <<tree, meta, graph, suspect, gc, orphan>>
    BY <1>2 DEF ScanEnd
  <2>2. pc \in {"attest", "stat"} /\ (pc = "attest" => flow.changed = {} /\ flow.deleted = {})
    OBVIOUS
  <2>3. Turn /\ Scanning
    BY DEF UpdateInv
  <2> HIDE DEF pc
  <2>4. /\ flow'.pc = pc /\ flow'.kind = flow.kind /\ flow'.epoch = flow.epoch
        /\ flow'.changed = flow.changed /\ flow'.deleted = flow.deleted
    BY <2>1, StagedFacts
  <2>5. /\ node' = node /\ verified' = verified /\ epoch' = epoch /\ head' = head
        /\ disk' = disk /\ suspect' = suspect /\ gc' = gc
    BY <2>1 DEF meta, graph, tree
  <2>6. Turn'
    BY <2>1, <2>2, <2>3, <2>5, StagedTurns DEF Turn, Early
  <2>7. Choosing'
    BY <2>1, <2>3, <2>4, <2>5 DEF Scanning, Choosing, InTime, Kept, Sure, StoredStamp
  <2>8. Attesting'
    BY <2>1, <2>2, <2>3, <2>4 DEF Scanning, Attesting
  <2> QED
    BY <2>1, <2>2, <2>4, <2>6, <2>7, <2>8, EarlyParts, FlowMoves DEF Early
<1> QED
    BY <1>1, <1>2

\* A selection requires the files outside it to be published.
LEMMA SelectKeeps ==
    ASSUME UpdateInv, NEW paths, Select(paths)
    PROVE  UpdateInv'
<1> DEFINE ok == /\ paths \subseteq Present
                 /\ Current
                 /\ OutsideIsPublished(paths)
                 /\ \A f \in paths : node[f] # NoNode => node[f].gen <= flow.gen
<1>1. CASE ~ok
    BY <1>1, GiveUpKeeps DEF Select
<1>2. CASE ok
  <2>1. /\ flow' = Staged("stat", paths, {}) /\ flow.pc = "start"
        /\ UNCHANGED <<tree, meta, graph, suspect, gc, orphan>>
    BY <1>2 DEF Select
  <2>2. flow'.pc = "stat" /\ flow'.changed = paths /\ flow'.deleted = {}
    BY <2>1, StagedFacts
  <2>3. node' = node /\ verified' = verified /\ head' = head /\ epoch' = epoch /\ gc' = gc
    BY <2>1 DEF meta, graph
  <2>4. Turn'
    BY <1>2, <2>1, <2>3, StagedTurns DEF Early, Present
  <2>5. Choosing'
    BY <1>2, <2>2, <2>3 DEF Choosing, OutsideIsPublished, Kept
  <2> QED
    BY <2>1, <2>2, <2>4, <2>5, EarlyParts, FlowMoves DEF Early
<1> QED
    BY <1>1, <1>2

\* A repair of the graph leaves nothing that could be evidence.
LEMMA SelectAllKeeps ==
    ASSUME UpdateInv, SelectAll
    PROVE  UpdateInv'
<1>1. /\ flow' = Staged("stat", Present, {}) /\ flow.pc = "start"
      /\ flow.kind \in {"index", "repair", "graph"}
      /\ UNCHANGED <<tree, meta, orphan, gc>>
    BY DEF SelectAll
<1>2. flow'.pc = "stat" /\ flow'.kind = flow.kind /\ flow'.changed = Present
    BY <1>1, StagedFacts
<1>3. /\ head' = head /\ epoch' = epoch /\ gc' = gc /\ disk' = disk /\ clock' = clock
      /\ verified' = verified /\ view' = view /\ baseline' = baseline
    BY <1>1 DEF meta, tree
<1>4. Turn'
    BY <1>1, <1>3, StagedTurns DEF Early, Present
<1>5. Choosing' /\ Scanning' /\ Attesting' /\ Reading' /\ Closing'
    BY <1>1, <1>2, EarlyParts DEF Choosing, Early
<1>6. CASE flow.kind # "graph"
    BY <1>1, <1>4, <1>5, <1>6, FlowMoves DEF SelectAll
<1>7. CASE flow.kind = "graph"
  <2>1. /\ node' = [f \in Files |-> NoNode] /\ symbols' = [x \in Files \X Texts |-> 0]
        /\ suspect' = Files
    BY <1>7 DEF SelectAll
  <2>2. Shapes
    BY DEF UpdateInv
  <2>3. Shapes'
    BY <1>3, <2>1, <2>2 DEF Shapes
  <2>4. Evidence' /\ Sweeping'
    BY <2>1 DEF Evidence, Sweeping
  <2>5. Orphaned'
    BY <1>1, <1>3 DEF UpdateInv, Orphaned, Times, Indexed
  <2> QED
    BY <1>4, <1>5, <2>3, <2>4, <2>5 DEF UpdateInv
<1> QED
    BY <1>6, <1>7

\* The times, and then the texts, are read.
LEMMA StatFilesKeeps ==
    ASSUME UpdateInv, StatFiles
    PROVE  UpdateInv'
<1>1. CASE ~(flow.changed \subseteq Present)
    BY <1>1, GiveUpKeeps DEF StatFiles
<1>2. CASE flow.changed \subseteq Present
  <2>1. /\ flow' = [flow EXCEPT !.pc = "read", !.stamps = [f \in flow.changed |-> disk[f].stamp]]
        /\ flow.pc = "stat" /\ UNCHANGED <<tree, meta, graph, suspect, gc, orphan>>
    BY <1>2 DEF StatFiles
  <2>2. Turn /\ Choosing /\ Shapes /\ IsFlow(flow)
    BY DEF UpdateInv, Turn
  <2>3. /\ IsFlow(flow') /\ flow'.pc = "read" /\ flow'.kind = flow.kind /\ flow'.gen = flow.gen
        /\ flow'.epoch = flow.epoch /\ flow'.changed = flow.changed
        /\ flow'.deleted = flow.deleted /\ flow'.stamps = [f \in flow.changed |-> disk[f].stamp]
    BY <2>1, <2>2 DEF IsFlow
  <2>4. /\ node' = node /\ verified' = verified /\ epoch' = epoch /\ head' = head
        /\ disk' = disk /\ suspect' = suspect /\ gc' = gc /\ clock' = clock
    BY <2>1 DEF meta, graph, tree
  <2>5. Turn'
    BY <2>1, <2>2, <2>3, <2>4, IdleFacts DEF Turn, Early, Late
  <2>6. Choosing'
    BY <2>1, <2>2, <2>3, <2>4 DEF Choosing, InTime, Kept, Sure, StoredStamp
  <2>7. Times(flow)'
    BY <2>2, <2>3, <2>4 DEF Times, Turn, Shapes
  <2>8. Reading'
    BY <2>3, <2>7 DEF Reading
  <2> QED
    BY <2>1, <2>3, <2>5, <2>6, <2>8, EarlyParts, FlowMoves DEF Early
<1> QED
    BY <1>1, <1>2

\* The text that is read is the one on the disk, whatever its time.
LEMMA ReadFilesKeeps ==
    ASSUME UpdateInv, ReadFiles
    PROVE  UpdateInv'
<1>1. CASE ~(flow.changed \subseteq Present)
    BY <1>1, GiveUpKeeps DEF ReadFiles
<1>2. CASE flow.changed \subseteq Present
  <2>1. /\ flow' = [flow EXCEPT !.pc = "upsert", !.texts = [f \in flow.changed |-> disk[f].text]]
        /\ flow.pc = "read" /\ UNCHANGED <<tree, meta, graph, suspect, gc, orphan>>
    BY <1>2 DEF ReadFiles
  <2>2. Turn /\ Choosing /\ Shapes /\ IsFlow(flow) /\ Times(flow)
    BY <2>1 DEF UpdateInv, Turn, Reading
  <2>3. /\ IsFlow(flow') /\ flow'.pc = "upsert" /\ flow'.kind = flow.kind /\ flow'.gen = flow.gen
        /\ flow'.epoch = flow.epoch /\ flow'.changed = flow.changed
        /\ flow'.deleted = flow.deleted /\ flow'.stamps = flow.stamps
        /\ flow'.texts = [f \in flow.changed |-> disk[f].text]
    BY <2>1, <2>2 DEF IsFlow
  <2>4. /\ node' = node /\ verified' = verified /\ epoch' = epoch /\ head' = head
        /\ disk' = disk /\ suspect' = suspect /\ gc' = gc /\ clock' = clock
    BY <2>1 DEF meta, graph, tree
  <2>5. Turn'
    BY <2>1, <2>2, <2>3, <2>4, IdleFacts DEF Turn, Early, Late
  <2>6. Choosing'
    BY <2>1, <2>2, <2>3, <2>4 DEF Choosing, InTime, Kept, Sure, StoredStamp
  <2>7. Times(flow)'
    BY <2>2, <2>3, <2>4 DEF Times
  <2>8. Indexed(flow)'
    BY <1>2, <2>2, <2>3 DEF Indexed, Present, Shapes
  <2>9. \A f \in flow'.changed : \A s : Match(f, s)'
    BY <2>3, <2>4 DEF Match
  <2>10. Reading'
    BY <2>3, <2>7, <2>8, <2>9 DEF Reading
  <2> QED
    BY <2>1, <2>3, <2>5, <2>6, <2>10, EarlyParts, FlowMoves DEF Early
<1> QED
    BY <1>1, <1>2

-----------------------------------------------------------------------------
(* Steps that write the graph.                                             *)

\* The observations that are written are those of files whose nodes stayed.
LEMMA FlushKeeps ==
    ASSUME UpdateInv, Flush
    PROVE  UpdateInv'
<1>1. CASE ~Current
    BY <1>1, GiveUpKeeps DEF Flush
<1>2. CASE Current
  <2>1. /\ node' = Patched(flow.patches) /\ flow' = [flow EXCEPT !.patches = {}]
        /\ flow.pc = "scan" /\ UNCHANGED <<tree, meta, symbols, suspect, orphan, gc>>
    BY <1>2 DEF Flush
  <2>2. Shapes /\ Turn /\ Scanning /\ Evidence /\ IsFlow(flow) /\ InTime
    BY <1>2 DEF UpdateInv, Turn, Current, InTime
  <2>3. /\ IsFlow(flow') /\ flow'.pc = "scan" /\ flow'.kind = flow.kind /\ flow'.gen = flow.gen
        /\ flow'.epoch = flow.epoch /\ flow'.changed = flow.changed /\ flow'.left = flow.left
        /\ flow'.deleted = flow.deleted /\ flow'.seen = flow.seen /\ flow'.now = flow.now
        /\ flow'.patches = {}
    BY <2>1, <2>2 DEF IsFlow
  <2>4. flow'.trust = flow.trust
    BY <2>1, <2>2 DEF IsFlow
  <2>5. /\ verified' = verified /\ epoch' = epoch /\ head' = head /\ view' = view
        /\ disk' = disk /\ suspect' = suspect /\ gc' = gc /\ clock' = clock
        /\ baseline' = baseline /\ symbols' = symbols /\ orphan' = orphan
    BY <2>1 DEF meta, tree
  <2> DEFINE Hit(f, x) == /\ x \in flow.patches /\ x.file = f /\ node[f] # NoNode
                          /\ node[f] = flow.seen[f]
  <2>6. ASSUME NEW f \in Files
        PROVE  \/ node'[f] = node[f] /\ ~\E x : Hit(f, x)
               \/ \E x : Hit(f, x) /\ node'[f] = [node[f] EXCEPT !.hint = x.hint]
    <3>1. CASE \E x \in flow.patches : x.file = f /\ node[f] # NoNode /\ node[f] = flow.seen[f]
      <4> DEFINE c == CHOOSE x \in flow.patches : x.file = f
      <4>1. c \in flow.patches /\ c.file = f
        BY <3>1
      <4>2. node'[f] = [node[f] EXCEPT !.hint = c.hint]
        BY <2>1, <3>1 DEF Patched
      <4> HIDE DEF c
      <4> QED
        BY <3>1, <4>1, <4>2
    <3>2. CASE ~\E x \in flow.patches : x.file = f /\ node[f] # NoNode /\ node[f] = flow.seen[f]
      BY <2>1, <3>2 DEF Patched
    <3> QED
      BY <3>1, <3>2
  <2>7. ASSUME NEW f \in Files, NEW x, Hit(f, x), node'[f] = [node[f] EXCEPT !.hint = x.hint]
        PROVE  /\ node'[f] \in Nodes /\ node'[f] # NoNode /\ node'[f].gen = node[f].gen
               /\ node'[f].hash = node[f].hash /\ node'[f].stamp = node[f].stamp
               /\ node'[f].hint = x.hint
    <3>1. node[f] \in Nodes /\ x.hint \in Hints
      BY <2>1, <2>2, <2>7 DEF Shapes, Scanning
    <3>2. /\ node'[f] \in Nodes /\ node'[f].gen = node[f].gen
          /\ node'[f].hash = node[f].hash /\ node'[f].stamp = node[f].stamp
          /\ node'[f].hint = x.hint
      BY <2>7, <3>1 DEF Nodes
    <3>3. node'[f] # NoNode
      BY <3>2, IncrementalAssumption, <2>2 DEF Nodes, Hints, Shapes
    <3> QED
      BY <3>2, <3>3
  <2>8. ASSUME NEW f \in Files \ suspect, NEW x, Hit(f, x),
               node'[f] = [node[f] EXCEPT !.hint = x.hint]
        PROVE  Sure(f)'
    <3>1. Observed(x)
      BY <2>1, <2>2, <2>8 DEF Scanning
    <3>2. node'[f].hint = x.hint /\ node'[f].hash = node[f].hash
      BY <2>7, <2>8
    <3> QED
      BY <2>5, <2>8, <3>1, <3>2 DEF Observed, Sure, StoredStamp
  <2>9. ASSUME NEW f \in Files
        PROVE  /\ node'[f] \in Nodes \cup {NoNode} /\ (node'[f] = NoNode <=> node[f] = NoNode)
               /\ node'[f] # NoNode => /\ node'[f].gen = node[f].gen
                                       /\ node'[f].hash = node[f].hash
    BY <2>2, <2>6, <2>7 DEF Shapes
  <2>10. ASSUME NEW f \in Files \ suspect, Sure(f) PROVE Sure(f)'
    <3>1. CASE node'[f] = node[f]
      BY <2>5, <2>10, <3>1 DEF Sure, StoredStamp
    <3>2. CASE node'[f] # node[f]
      BY <2>6, <2>8, <3>2
    <3> QED
      BY <3>1, <3>2
  <2> HIDE DEF Hit
  <2>11. Shapes'
    <3>1. node' = [f \in Files |-> node'[f]]
      BY <2>1 DEF Patched
    <3>2. Nodes' = Nodes
      BY <2>5 DEF Nodes, Hints
    <3>3. node' \in [Files -> Nodes \cup {NoNode}]
      BY <2>9, <3>1
    <3> QED
      BY <2>2, <2>5, <3>2, <3>3 DEF Shapes
  <2>12. Evidence'
    BY <2>2, <2>5, <2>9, <2>10 DEF Evidence, Evident
  <2>13. Turn'
    BY <2>1, <2>2, <2>3, <2>5, IdleFacts DEF Turn, Early, Late
  <2>14. Scanning'
    <3>1. ASSUME NEW f \in flow.left \ suspect PROVE node'[f] = flow.seen[f]
      <4>1. f \in Files /\ node[f] = flow.seen[f] /\ \A x \in flow.patches : x.file # f
        BY <2>1, <2>2, <3>1 DEF Scanning
      <4> QED
        BY <2>6, <4>1 DEF Hit
    <3>2. ASSUME NEW f \in Files \ (flow.left \cup flow.changed \cup flow.deleted \cup suspect)
          PROVE  Kept(f)' /\ (node'[f] = NoNode \/ verified \/ Sure(f)')
      <4>1. /\ Kept(f)
            /\ node[f] = NoNode \/ verified \/ Sure(f) \/ \E x \in flow.patches : x.file = f
        BY <2>1, <2>2 DEF Scanning
      <4>2. Kept(f)'
        BY <2>5, <2>9, <4>1 DEF Kept
      <4>3. ASSUME node[f] # NoNode, NEW x \in flow.patches, x.file = f PROVE Sure(f)'
        <5>1. Observed(x)
          BY <2>1, <2>2, <4>3 DEF Scanning
        <5>2. Hit(f, x)
          BY <4>3, <5>1 DEF Observed, Hit
        <5> QED
          BY <2>6, <2>8, <5>2
      <4> QED
        BY <2>9, <2>10, <4>1, <4>2, <4>3
    <3>3. flow.now = epoch /\ (flow.trust => verified) /\ flow.left \subseteq Files
          /\ flow.kind = "update"
      BY <2>1, <2>2 DEF Scanning
    <3> QED
      BY <2>3, <2>4, <2>5, <3>1, <3>2, <3>3 DEF Scanning
  <2>15. Orphaned' /\ Sweeping'
    BY <2>5 DEF UpdateInv, Orphaned, Times, Indexed, Sweeping
  <2> QED
    BY <2>3, <2>11, <2>12, <2>13, <2>14, <2>15, EarlyParts DEF UpdateInv, Early
<1> QED
    BY <1>1, <1>2

\* What process_ingest_stats writes for w.
Writes(w) ==
    /\ w.gen \in Nat \ {0} /\ w.changed \subseteq Files /\ Times(w) /\ Indexed(w)
    /\ Write(w)

\* The nodes and declarations of the indexed files are of the generation of w,
\* the others stay.
LEMMA WriteFacts ==
    ASSUME Shapes, NEW w, Writes(w), clock' = clock
    PROVE  /\ node' \in [Files -> Nodes \cup {NoNode}]'
           /\ symbols' \in [Files \X Texts -> Nat]
           /\ \A f \in Files \ w.changed :
                 /\ node'[f] = node[f]
                 /\ \A t \in Texts : symbols'[<<f, t>>] = symbols[<<f, t>>]
           /\ \A f \in w.changed :
                 /\ f \in Files /\ node'[f] # NoNode
                 /\ node'[f].gen = w.gen /\ node'[f].hash = w.texts[f]
                 /\ node'[f].stamp = w.stamps[f] /\ node'[f].hint = NoHint
                 /\ symbols'[<<f, w.texts[f]>>] = w.gen
                 /\ \A t \in Texts : symbols'[<<f, t>>] \in {symbols[<<f, t>>], w.gen}
<1>1. /\ node' = [f \in Files |->
             IF f \in w.changed
             THEN [gen |-> w.gen, hash |-> w.texts[f], stamp |-> w.stamps[f], hint |-> NoHint]
             ELSE node[f]]
      /\ symbols' = [x \in Files \X Texts |->
             IF x[1] \in w.changed /\ w.texts[x[1]] = x[2] THEN w.gen ELSE symbols[x]]
    BY DEF Writes, Write
<1>2. Nodes' = Nodes
    BY DEF Nodes, Hints
<1>3. ASSUME NEW f \in w.changed
      PROVE  /\ f \in Files /\ w.texts[f] \in Texts /\ w.stamps[f] \in 0 .. clock
             /\ [gen |-> w.gen, hash |-> w.texts[f], stamp |-> w.stamps[f], hint |-> NoHint] \in Nodes
             /\ [gen |-> w.gen, hash |-> w.texts[f], stamp |-> w.stamps[f], hint |-> NoHint] # NoNode
  <2>1. f \in Files /\ w.texts[f] \in Texts /\ w.stamps[f] \in 0 .. clock /\ w.gen \in Nat \ {0}
    BY DEF Writes, Times, Indexed
  <2>2. clock \in Nat /\ NoHint \in Hints
    BY DEF Shapes, NoHint, Hints
  <2>3. [gen |-> w.gen, hash |-> w.texts[f], stamp |-> w.stamps[f], hint |-> NoHint] \in Nodes
    BY <2>1, <2>2 DEF Nodes
  <2> QED
    BY <2>1, <2>2, <2>3, IncrementalAssumption DEF Nodes, Hints
<1>4. node' \in [Files -> Nodes \cup {NoNode}]'
    BY <1>1, <1>2, <1>3 DEF Shapes
<1>5. symbols' \in [Files \X Texts -> Nat]
    BY <1>1 DEF Shapes, Writes
<1>6. ASSUME NEW f \in Files, NEW t \in Texts
      PROVE  symbols'[<<f, t>>] = IF f \in w.changed /\ w.texts[f] = t
                                  THEN w.gen ELSE symbols[<<f, t>>]
    BY <1>1
<1>7. ASSUME NEW f \in w.changed
      PROVE  /\ f \in Files /\ node'[f] # NoNode
             /\ node'[f].gen = w.gen /\ node'[f].hash = w.texts[f]
             /\ node'[f].stamp = w.stamps[f] /\ node'[f].hint = NoHint
    BY <1>1, <1>3
<1>8. ASSUME NEW f \in w.changed
      PROVE  /\ symbols'[<<f, w.texts[f]>>] = w.gen
             /\ \A t \in Texts : symbols'[<<f, t>>] \in {symbols[<<f, t>>], w.gen}
    BY <1>3, <1>6
<1>9. \A f \in Files \ w.changed :
         /\ node'[f] = node[f]
         /\ \A t \in Texts : symbols'[<<f, t>>] = symbols[<<f, t>>]
    BY <1>1, <1>6
<1> QED
    BY <1>4, <1>5, <1>7, <1>8, <1>9

\* Written at the generation after the published one, nodes are no evidence
\* yet, and the declarations of the published text stay.
LEMMA WrittenAhead ==
    ASSUME Shapes, Evidence, NEW w, Writes(w), w.gen = head + 1,
           UNCHANGED <<tree, meta, suspect>>
    PROVE  Evidence'
<1>1. /\ verified' = verified /\ epoch' = epoch /\ head' = head /\ view' = view
      /\ disk' = disk /\ suspect' = suspect /\ clock' = clock /\ baseline' = baseline
    BY DEF meta, tree
<1>2. head \in Nat /\ baseline \in Nat /\ baseline <= head
    BY DEF Shapes
<1> SUFFICES ASSUME NEW f \in Files \ suspect PROVE Evident(f)'
    BY <1>1 DEF Evidence
<1>3. Evident(f) /\ (view[f] # Absent => view[f] \in Texts)
    BY DEF Evidence, Shapes
<1>4. CASE f \in w.changed
  <2>1. /\ node'[f] # NoNode /\ node'[f].gen = head + 1
        /\ \A t \in Texts : symbols'[<<f, t>>] \in {symbols[<<f, t>>], head + 1}
    BY <1>1, <1>4, WriteFacts
  <2> QED
    BY <1>1, <1>2, <1>3, <2>1 DEF Evident
<1>5. CASE f \notin w.changed
  <2>1. /\ node'[f] = node[f]
        /\ \A t \in Texts : symbols'[<<f, t>>] = symbols[<<f, t>>]
    BY <1>1, <1>5, WriteFacts
  <2> QED
    BY <1>1, <1>3, <2>1 DEF Evident, Sure, StoredStamp
<1> QED
    BY <1>4, <1>5

\* The flow's own upsert.
LEMMA UpsertKeeps ==
    ASSUME UpdateInv, Upsert
    PROVE  UpdateInv'
<1>1. /\ flow.pc = "upsert" /\ Write(flow)
      /\ flow' = [flow EXCEPT !.pc = "publish", !.stamps = <<>>]
      /\ UNCHANGED <<tree, meta, suspect, orphan, gc>>
    BY DEF Upsert
<1>2. Shapes /\ Turn /\ Choosing /\ Reading /\ Evidence /\ IsFlow(flow)
    BY DEF UpdateInv, Turn
<1>3. /\ IsFlow(flow') /\ flow'.pc = "publish" /\ flow'.kind = flow.kind
      /\ flow'.gen = flow.gen /\ flow'.epoch = flow.epoch /\ flow'.changed = flow.changed
      /\ flow'.deleted = flow.deleted /\ flow'.texts = flow.texts
    BY <1>1, <1>2 DEF IsFlow
<1>4. /\ verified' = verified /\ epoch' = epoch /\ head' = head /\ view' = view
      /\ disk' = disk /\ suspect' = suspect /\ gc' = gc /\ clock' = clock
      /\ baseline' = baseline /\ orphan' = orphan
    BY <1>1 DEF meta, tree
<1>5. Writes(flow) /\ flow.gen = head + 1
    BY <1>1, <1>2 DEF Writes, Turn, Reading, Early, Shapes
<1>6. /\ node' \in [Files -> Nodes \cup {NoNode}]'
      /\ symbols' \in [Files \X Texts -> Nat]
      /\ \A f \in Files \ flow.changed : node'[f] = node[f]
      /\ \A f \in flow.changed :
            /\ f \in Files /\ node'[f] # NoNode
            /\ node'[f].gen = flow.gen /\ node'[f].hash = flow.texts[f]
            /\ node'[f].stamp = flow.stamps[f] /\ node'[f].hint = NoHint
            /\ symbols'[<<f, flow.texts[f]>>] = flow.gen
    BY <1>2, <1>4, <1>5, WriteFacts
<1>7. Shapes'
    BY <1>2, <1>4, <1>6 DEF Shapes
<1>8. Evidence'
    BY <1>1, <1>2, <1>5, WrittenAhead
<1>9. Turn'
    BY <1>1, <1>2, <1>3, <1>4, IdleFacts DEF Turn, Early, Late
<1>10. Choosing'
    BY <1>1, <1>2, <1>3, <1>4, <1>6 DEF Choosing, InTime, Kept, Sure, StoredStamp
<1>12. Reading'
  <2>1. Indexed(flow)'
    BY <1>1, <1>2, <1>3 DEF Reading, Indexed
  <2>2. orphan # Idle =>
           \A f \in flow.changed \cap orphan.changed : Match(f, orphan.stamps[f])'
    BY <1>1, <1>2, <1>3, <1>4 DEF Reading, Match, InTime
  <2>3. ASSUME NEW f \in flow.changed
        PROVE  /\ Own(f)' /\ symbols'[<<f, flow.texts[f]>>] = flow.gen
               /\ node'[f].hint = NoHint /\ Match(f, node[f].stamp)'
    <3>1. Match(f, flow.stamps[f])
      BY <1>1, <1>2 DEF Reading
    <3> QED
      BY <1>3, <1>4, <1>6, <3>1 DEF Own, Match, InTime
  <2> QED
    BY <1>3, <1>4, <2>1, <2>2, <2>3 DEF Reading
<1>13. Orphaned' /\ Sweeping'
    BY <1>4 DEF UpdateInv, Orphaned, Times, Indexed, Sweeping
<1> QED
    BY <1>3, <1>7, <1>8, <1>9, <1>10, <1>12, <1>13, EarlyParts DEF UpdateInv, Early

\* The upsert of an aborted flow: on its own it is ahead of what is published,
\* and otherwise its files are under suspicion.
LEMMA OrphanUpsertKeeps ==
    ASSUME UpdateInv, OrphanUpsert
    PROVE  UpdateInv'
<1>1. /\ orphan # Idle /\ Write(orphan) /\ orphan' = Idle
      /\ UNCHANGED <<tree, meta, flow, gc>>
    BY DEF OrphanUpsert
<1>2. /\ Shapes /\ Turn /\ Scanning /\ Choosing /\ Attesting /\ Reading /\ Closing
      /\ Evidence /\ Orphaned /\ Sweeping
    BY DEF UpdateInv
<1>3. /\ verified' = verified /\ epoch' = epoch /\ head' = head /\ view' = view
      /\ disk' = disk /\ gc' = gc /\ clock' = clock /\ baseline' = baseline /\ flow' = flow
    BY <1>1 DEF meta, tree
<1>4. Writes(orphan)
    BY <1>1, <1>2 DEF Writes, Orphaned
<1>5. /\ node' \in [Files -> Nodes \cup {NoNode}]'
      /\ symbols' \in [Files \X Texts -> Nat]
      /\ \A f \in Files \ orphan.changed :
            /\ node'[f] = node[f]
            /\ \A t \in Texts : symbols'[<<f, t>>] = symbols[<<f, t>>]
      /\ \A f \in orphan.changed :
            /\ f \in Files /\ node'[f] # NoNode
            /\ node'[f].gen = orphan.gen /\ node'[f].hash = orphan.texts[f]
            /\ node'[f].stamp = orphan.stamps[f] /\ node'[f].hint = NoHint
            /\ symbols'[<<f, orphan.texts[f]>>] = orphan.gen
    BY <1>2, <1>3, <1>4, WriteFacts
<1>6. suspect' \in {suspect, suspect \cup orphan.changed} /\ orphan.changed \subseteq Files
    BY <1>5 DEF OrphanUpsert
<1>7. Shapes'
    BY <1>2, <1>3, <1>5, <1>6 DEF Shapes
<1>8. Orphaned'
    BY <1>1, IdleFacts DEF Orphaned
<1>9. Turn' /\ Attesting'
    BY <1>2, <1>3 DEF Turn, Attesting
<1>10. CASE Free /\ orphan.gen = head + 1
  <2>1. suspect' = suspect /\ flow' = Idle /\ ~gc'.on
    BY <1>3, <1>10 DEF OrphanUpsert, Free
  <2>2. Evidence'
    BY <1>1, <1>2, <1>4, <1>10, <2>1, WrittenAhead
  <2>3. Scanning' /\ Choosing' /\ Reading' /\ Closing'
    BY <2>1, Rests
  <2> QED
    BY <1>7, <1>8, <1>9, <2>1, <2>2, <2>3 DEF UpdateInv, Sweeping
<1>11. CASE ~(Free /\ orphan.gen = head + 1)
  <2>1. suspect' = suspect \cup orphan.changed
    BY <1>11 DEF OrphanUpsert
  <2>2. ASSUME NEW f \in Files \ suspect'
        PROVE  /\ f \notin suspect /\ node'[f] = node[f]
               /\ view[f] # Absent => symbols'[<<f, view[f]>>] = symbols[<<f, view[f]>>]
    BY <1>2, <1>5, <2>1 DEF Shapes
  <2>3. ASSUME NEW f \in Files \ suspect' PROVE (Sure(f)' <=> Sure(f)) /\ (Kept(f)' <=> Kept(f))
    BY <1>3, <2>2 DEF Sure, StoredStamp, Kept
  <2>4. Evidence'
    BY <1>2, <1>3, <2>2, <2>3 DEF Evidence, Evident
  <2>5. Scanning'
    <3>1. ASSUME NEW x, x.file \in Files, Observed(x), x.file \notin suspect' PROVE Observed(x)'
      BY <1>3, <2>2, <3>1 DEF Observed
    <3> QED
      BY <1>2, <1>3, <2>1, <2>2, <2>3, <3>1 DEF Scanning, InTime, Hints
  <2>6. Choosing' /\ Closing' /\ Sweeping'
    BY <1>2, <1>3, <2>1, <2>2, <2>3 DEF Choosing, Closing, Sweeping, InTime
  <2>7. Reading'
    <3>1. Times(flow)' <=> Times(flow)
      BY <1>3 DEF Times
    <3>2. Indexed(flow)' <=> Indexed(flow)
      BY <1>3 DEF Indexed
    <3>3. flow.pc = "upsert" => \A f \in flow.changed : Match(f, flow.stamps[f])'
      BY <1>2, <1>3 DEF Reading, Match, InTime
    <3>4. ASSUME flow.pc = "publish", NEW f \in flow.changed
          PROVE  /\ f \notin suspect' => Own(f)'
                 /\ Own(f)' => /\ symbols'[<<f, flow.texts[f]>>] = flow.gen
                               /\ node'[f].hint = NoHint
                               /\ Match(f, node[f].stamp)'
      <4>1. f \in Files /\ flow.texts[f] \in Texts
        BY <1>2, <3>4 DEF Turn, Reading, Indexed
      <4>2. /\ f \notin suspect => Own(f)
            /\ Own(f) => /\ symbols[<<f, flow.texts[f]>>] = flow.gen
                         /\ node[f].hint = NoHint
                         /\ Match(f, node[f].stamp)
        BY <1>2, <3>4 DEF Reading
      <4>3. CASE f \in orphan.changed
        <5>1. Match(f, orphan.stamps[f])
          BY <1>1, <1>2, <3>4, <4>3 DEF Reading
        <5>2. Match(f, node[f].stamp)'
          BY <1>3, <1>5, <4>3, <5>1 DEF Match, InTime
        <5>3. Own(f)' => symbols'[<<f, flow.texts[f]>>] = flow.gen
          BY <1>3, <1>5, <4>3 DEF Own
        <5> QED
          BY <1>5, <2>1, <4>3, <5>2, <5>3
      <4>4. CASE f \notin orphan.changed
        <5>1. node'[f] = node[f] /\ symbols'[<<f, flow.texts[f]>>] = symbols[<<f, flow.texts[f]>>]
          BY <1>5, <4>1, <4>4
        <5> QED
          BY <1>3, <2>1, <4>2, <5>1 DEF Own, Match, InTime
      <4> QED
        BY <4>3, <4>4
    <3> QED
      BY <1>1, <1>2, <1>3, <3>1, <3>2, <3>3, <3>4 DEF Reading
  <2> QED
    BY <1>7, <1>8, <1>9, <2>4, <2>5, <2>6, <2>7 DEF UpdateInv
<1> QED
    BY <1>10, <1>11

\* The publication: what the flow indexed has its own node, what it inherits
\* was settled by the scan.
LEMMA PublishKeeps ==
    ASSUME UpdateInv, Publish
    PROVE  UpdateInv'
<1>1. CASE ~Current
    BY <1>1, GiveUpKeeps DEF Publish
<1>2. CASE Current
  <2>1. /\ flow.pc = "publish" /\ head' = flow.gen /\ view' = Published
        /\ verified' = TRUE /\ suspect' = {f \in Files : Suspicion(f)}
        /\ flow' = [flow EXCEPT !.pc = IF flow.kind \in {"update", "only"}
                                       THEN "cleanup" ELSE "baseline"]
        /\ UNCHANGED <<tree, epoch, baseline, graph, orphan, gc>>
    BY <1>2 DEF Publish
  <2>2. Shapes /\ Turn /\ Choosing /\ Reading /\ Evidence /\ Orphaned /\ IsFlow(flow)
    BY DEF UpdateInv, Turn
  <2>3. /\ IsFlow(flow') /\ flow'.gen = flow.gen /\ flow'.changed = flow.changed
        /\ flow'.deleted = flow.deleted
        /\ flow'.pc = IF flow.kind \in {"update", "only"} THEN "cleanup" ELSE "baseline"
    BY <2>1, <2>2 DEF IsFlow
  <2>4. /\ disk' = disk /\ gc' = gc /\ clock' = clock /\ baseline' = baseline
        /\ epoch' = epoch /\ node' = node /\ symbols' = symbols /\ orphan' = orphan
    BY <2>1 DEF graph, tree
  <2>5. /\ flow.gen = head + 1 /\ head \in Nat /\ InTime /\ ~gc.on
        /\ flow.changed \subseteq Files /\ flow.texts \in [flow.changed -> Texts]
    BY <1>2, <2>1, <2>2, IdleFacts DEF Turn, Early, Current, InTime, Shapes, Reading, Indexed
  <2>6. ASSUME NEW f \in Files
        PROVE  view'[f] = IF f \in flow.changed THEN flow.texts[f]
                          ELSE IF f \in flow.deleted \/ flow.kind \notin {"update", "only"}
                          THEN Absent ELSE view[f]
    BY <2>1 DEF Published
  <2>7. view' \in [Files -> Texts \cup {Absent}]
    <3>1. view' = [f \in Files |-> view'[f]]
      BY <2>1 DEF Published
    <3>2. \A f \in Files : view'[f] \in Texts \cup {Absent}
      BY <2>2, <2>5, <2>6 DEF Shapes
    <3> QED
      BY <3>1, <3>2
  <2>8. Shapes'
    <3>1. Nodes' = Nodes
      BY <2>4 DEF Nodes, Hints
    <3>2. head' \in Nat /\ baseline <= head'
      BY <2>1, <2>2, <2>5 DEF Shapes
    <3>3. verified' \in BOOLEAN
      BY <2>1, Zenon
    <3>4. suspect' \subseteq Files
      BY <2>1
    <3> QED
      BY <2>2, <2>4, <2>7, <3>1, <3>2, <3>3, <3>4 DEF Shapes
  <2>9. ASSUME NEW f \in Files \ suspect', view'[f] = Absent PROVE node[f] = NoNode
    BY <2>1, <2>9 DEF Suspicion
  <2>10. ASSUME NEW f \in flow.changed \ suspect'
         PROVE  /\ Own(f) /\ view'[f] = flow.texts[f] /\ symbols[<<f, view'[f]>>] = head'
                /\ node[f].gen = head' /\ node[f].hash = view'[f] /\ Sure(f)
    <3>1. f \in Files /\ flow.texts[f] \in Texts /\ view'[f] = flow.texts[f]
      BY <2>5, <2>6
    <3>2. view'[f] # Absent
      BY <3>1, IncrementalAssumption
    <3>3. Own(f)
      <4>1. f \notin suspect => Own(f)
        BY <2>1, <2>2 DEF Reading
      <4>2. ~Suspicion(f)
        BY <2>1, <3>1
      <4>3. f \in suspect => Own(f)
        BY <2>1, <3>2, <4>2 DEF Suspicion, Own
      <4> QED
        BY <4>1, <4>3
    <3>4. /\ symbols[<<f, flow.texts[f]>>] = flow.gen /\ node[f].hint = NoHint
          /\ Match(f, node[f].stamp)
      BY <2>1, <2>2, <3>3 DEF Reading
    <3>5. StoredStamp(node[f], epoch) = node[f].stamp
      BY <2>2, <3>4 DEF StoredStamp, NoHint, Shapes
    <3>6. Sure(f)
      BY <2>5, <3>3, <3>4, <3>5 DEF Sure, Match, Own
    <3> QED
      BY <2>1, <3>1, <3>3, <3>4, <3>6 DEF Own
  <2>11. ASSUME NEW f \in Files \ (suspect' \cup flow.changed), view'[f] # Absent
         PROVE  /\ flow.kind \in {"update", "only"} /\ f \notin flow.deleted
                /\ view'[f] = view[f] /\ f \notin suspect
    <3>1. /\ flow.kind \in {"update", "only"} /\ f \notin flow.deleted /\ view'[f] = view[f]
      BY <2>6, <2>11
    <3>2. ~Suspicion(f) /\ Published[f] # Absent
      BY <2>1, <2>11
    <3> QED
      BY <2>11, <3>1, <3>2 DEF Suspicion
  <2>12. Evidence'
    <3> SUFFICES ASSUME NEW f \in Files \ suspect' PROVE Evident(f)'
      BY DEF Evidence
    <3>1. Sure(f)' <=> Sure(f)
      BY <2>4 DEF Sure, StoredStamp
    <3>2. CASE view'[f] = Absent
      BY <2>4, <2>9, <3>2 DEF Evident
    <3>3. CASE f \in flow.changed /\ view'[f] # Absent
      <4>1. /\ node[f] # NoNode /\ symbols[<<f, view'[f]>>] = head'
            /\ node[f].gen = head' /\ node[f].hash = view'[f] /\ Sure(f)
        BY <2>10, <3>3 DEF Own
      <4>2. head' >= baseline /\ head' > 0
        BY <2>1, <2>2, <2>5 DEF Shapes
      <4> QED
        BY <2>4, <3>1, <4>1, <4>2 DEF Evident
    <3>4. CASE f \notin flow.changed /\ view'[f] # Absent
      <4>1. /\ flow.kind \in {"update", "only"} /\ f \notin flow.deleted
            /\ view'[f] = view[f] /\ f \notin suspect
        BY <2>11, <3>4
      <4>2. Evident(f) /\ Kept(f) /\ (node[f] = NoNode \/ verified \/ Sure(f))
        BY <2>1, <2>2, <2>5, <3>4, <4>1 DEF Evidence, Choosing
      <4>3. node[f] # NoNode /\ node[f].gen <= head
        BY <3>4, <4>1, <4>2 DEF Evident, Kept
      <4>4. node[f].hash = view[f] /\ Sure(f)
        BY <4>2, <4>3 DEF Evident
      <4> QED
        BY <2>4, <3>1, <3>4, <4>1, <4>2, <4>4 DEF Evident
    <3> QED
      BY <3>2, <3>3, <3>4
  <2>13. Turn'
    BY <2>1, <2>3, <2>4, <2>5 DEF Turn, Early, Late
  <2>14. Closing'
    <3> SUFFICES ASSUME NEW f \in Files \ suspect', view'[f] # Absent
                 PROVE  /\ f \in flow.changed => node[f].gen = head' /\ symbols[<<f, view'[f]>>] = head'
                        /\ f \in flow.changed \/ (f \notin flow.deleted /\ flow'.pc = "cleanup")
      BY <2>3, <2>4 DEF Closing
    <3>1. CASE f \in flow.changed
      BY <2>10, <3>1
    <3>2. CASE f \notin flow.changed
      BY <2>3, <2>11, <3>2
    <3> QED
      BY <3>1, <3>2
  <2>15. Scanning' /\ Choosing' /\ Attesting' /\ Reading'
    BY <2>3 DEF Scanning, Choosing, Attesting, Reading
  <2>16. Orphaned' /\ Sweeping'
    BY <2>2, <2>4, <2>5 DEF Orphaned, Times, Indexed, Sweeping
  <2> QED
    BY <2>8, <2>12, <2>13, <2>14, <2>15, <2>16 DEF UpdateInv
<1> QED
    BY <1>1, <1>2

\* A step of the flow's end, or of the sweep: nothing of the flow is left.
LEMMA EndsIdle ==
    ASSUME UpdateInv, flow' = Idle, clock' = clock, orphan' = orphan,
           Shapes', Evidence', Sweeping'
    PROVE  UpdateInv'
<1>1. Orphaned'
    BY DEF UpdateInv, Orphaned, Times, Indexed
<1> QED
    BY <1>1, Rests DEF UpdateInv

\* A purge of nodes and declarations that the files not under suspicion do
\* not need; the files that are left with nothing are cleared.
LEMMA PurgeKeeps ==
    ASSUME Shapes, Evidence, suspect' = Cleared, UNCHANGED <<tree, meta>>,
           node' = [f \in Files |-> node'[f]], symbols' = [x \in Files \X Texts |-> symbols'[x]],
           \A f \in Files : node'[f] \in {node[f], NoNode},
           \A x \in Files \X Texts : symbols'[x] \in {symbols[x], 0},
           \A f \in Files \ suspect : view[f] # Absent =>
               node'[f] = node[f] /\ symbols'[<<f, view[f]>>] = symbols[<<f, view[f]>>],
           gc' = [on |-> gc'.on, nodes |-> gc'.nodes, symbols |-> gc'.symbols],
           gc'.on \in BOOLEAN
    PROVE  Shapes' /\ Evidence'
<1>1. /\ verified' = verified /\ epoch' = epoch /\ head' = head /\ view' = view
      /\ disk' = disk /\ clock' = clock /\ baseline' = baseline
    BY DEF meta, tree
<1>2. Shapes'
  <2>1. Nodes' = Nodes
    BY <1>1 DEF Nodes, Hints
  <2>2. node' \in [Files -> Nodes \cup {NoNode}]
    BY DEF Shapes
  <2>3. symbols' \in [Files \X Texts -> Nat]
    BY DEF Shapes
  <2>4. suspect' \subseteq Files
    BY DEF Shapes, Cleared
  <2> QED
    BY <1>1, <2>1, <2>2, <2>3, <2>4 DEF Shapes
<1>3. Evidence'
  <2> SUFFICES ASSUME NEW f \in Files \ suspect' PROVE Evident(f)'
    BY DEF Evidence
  <2>1. CASE view[f] = Absent /\ node'[f] = NoNode
    BY <1>1, <2>1 DEF Evident
  <2>2. CASE ~(view[f] = Absent /\ node'[f] = NoNode)
    <3>1. f \notin suspect
      BY <2>2 DEF Cleared
    <3>2. Evident(f) /\ node'[f] = node[f]
      BY <2>2, <3>1 DEF Evidence
    <3>3. view[f] # Absent => symbols'[<<f, view[f]>>] = symbols[<<f, view[f]>>]
      BY <3>1
    <3>4. Sure(f)' <=> Sure(f)
      BY <1>1, <3>2 DEF Sure, StoredStamp
    <3> QED
      BY <1>1, <3>2, <3>3, <3>4 DEF Evident
  <2> QED
    BY <2>1, <2>2
<1> QED
    BY <1>2, <1>3

\* The scoped purge spares what the flow has indexed.
LEMMA CleanupKeeps ==
    ASSUME UpdateInv, Cleanup
    PROVE  UpdateInv'
<1> DEFINE paths == flow.changed \cup flow.deleted
<1>1. /\ flow.pc = "cleanup" /\ flow' = Idle /\ suspect' = Cleared
      /\ UNCHANGED <<tree, meta, orphan, gc>>
      /\ node' = [f \in Files |->
             IF f \in paths /\ node[f] # NoNode /\ node[f].gen # flow.gen
             THEN NoNode ELSE node[f]]
      /\ symbols' = [x \in Files \X Texts |->
             IF x[1] \in paths /\ symbols[x] # flow.gen THEN 0 ELSE symbols[x]]
    BY DEF Cleanup
<1>2. /\ Shapes /\ Evidence /\ Closing /\ Turn /\ flow.gen = head /\ ~gc.on
    BY <1>1, IdleFacts DEF UpdateInv, Turn, Late
<1>3. ASSUME NEW f \in Files \ suspect, view[f] # Absent
      PROVE  node'[f] = node[f] /\ symbols'[<<f, view[f]>>] = symbols[<<f, view[f]>>]
  <2>1. view[f] \in Texts
    BY <1>2, <1>3 DEF Shapes
  <2>2. f \in paths => node[f].gen = flow.gen /\ symbols[<<f, view[f]>>] = flow.gen
    BY <1>1, <1>2, <1>3 DEF Closing, Late
  <2>3. <<f, view[f]>> \in Files \X Texts /\ <<f, view[f]>>[1] = f
    BY <2>1
  <2> HIDE DEF paths
  <2> QED
    BY <1>1, <2>2, <2>3
<1>4. \A f \in Files : node'[f] \in {node[f], NoNode}
    BY <1>1
<1>5. \A x \in Files \X Texts : symbols'[x] \in {symbols[x], 0}
    BY <1>1
<1>6. node' = [f \in Files |-> node'[f]] /\ symbols' = [x \in Files \X Texts |-> symbols'[x]]
    BY <1>1
<1>7. gc' = [on |-> gc'.on, nodes |-> gc'.nodes, symbols |-> gc'.symbols] /\ gc'.on \in BOOLEAN
    BY <1>1, <1>2 DEF Shapes
<1>8. Shapes' /\ Evidence'
    BY <1>1, <1>2, <1>3, <1>4, <1>5, <1>6, <1>7, PurgeKeeps
<1>9. Sweeping'
    BY <1>1, <1>2 DEF Sweeping
<1> QED
    BY <1>1, <1>8, <1>9, EndsIdle DEF tree

\* The sweep removes what it has collected, none of it published.
LEMMA SweepKeeps ==
    ASSUME UpdateInv, Sweep
    PROVE  UpdateInv'
<1>1. /\ gc.on /\ gc' = NoGc /\ suspect' = Cleared
      /\ UNCHANGED <<tree, meta, flow, orphan>>
      /\ node' = [f \in Files |-> IF f \in gc.nodes THEN NoNode ELSE node[f]]
      /\ symbols' = [x \in Files \X Texts |-> IF x \in gc.symbols THEN 0 ELSE symbols[x]]
    BY DEF Sweep
<1>2. Shapes /\ Evidence /\ Sweeping /\ flow' = Idle
    BY <1>1 DEF UpdateInv, Turn
<1>3. ASSUME NEW f \in Files \ suspect, view[f] # Absent
      PROVE  node'[f] = node[f] /\ symbols'[<<f, view[f]>>] = symbols[<<f, view[f]>>]
    BY <1>1, <1>2, <1>3 DEF Sweeping, Shapes
<1>4. \A f \in Files : node'[f] \in {node[f], NoNode}
    BY <1>1
<1>5. \A x \in Files \X Texts : symbols'[x] \in {symbols[x], 0}
    BY <1>1
<1>6. node' = [f \in Files |-> node'[f]] /\ symbols' = [x \in Files \X Texts |-> symbols'[x]]
    BY <1>1
<1>7. /\ gc' = [on |-> gc'.on, nodes |-> gc'.nodes, symbols |-> gc'.symbols]
      /\ gc'.on = FALSE
    BY <1>1 DEF NoGc
<1>8. gc'.on \in BOOLEAN
    BY <1>7
<1>9. Shapes' /\ Evidence'
    BY <1>1, <1>2, <1>3, <1>4, <1>5, <1>6, <1>7, <1>8, PurgeKeeps
<1>10. Sweeping'
    BY <1>7 DEF Sweeping
<1> QED
    BY <1>1, <1>2, <1>9, <1>10, EndsIdle DEF tree

\* The sweep looks below the last full index, where nothing published is.
LEMMA CollectKeeps ==
    ASSUME UpdateInv, NEW cut \in 1 .. baseline, Collect(cut)
    PROVE  UpdateInv'
<1>1. /\ Free /\ UNCHANGED <<tree, meta, graph, suspect, flow, orphan>>
      /\ gc' = [on |-> TRUE,
                nodes |-> {f \in Files : node[f] # NoNode /\ Stale(node[f].gen, cut)},
                symbols |-> {x \in Files \X Texts : symbols[x] # 0 /\ Stale(symbols[x], cut)}]
    BY DEF Collect
<1>2. Shapes /\ Evidence
    BY DEF UpdateInv
<1>3. /\ verified' = verified /\ epoch' = epoch /\ head' = head /\ view' = view
      /\ disk' = disk /\ clock' = clock /\ baseline' = baseline
      /\ node' = node /\ symbols' = symbols /\ suspect' = suspect /\ flow' = Idle
    BY <1>1 DEF meta, tree, graph, Free
<1>4. /\ gc' = [on |-> gc'.on, nodes |-> gc'.nodes, symbols |-> gc'.symbols]
      /\ gc'.on \in BOOLEAN
      /\ gc'.nodes = {f \in Files : node[f] # NoNode /\ Stale(node[f].gen, cut)}
      /\ gc'.symbols = {x \in Files \X Texts : symbols[x] # 0 /\ Stale(symbols[x], cut)}
    BY <1>1
<1>5. Shapes'
    BY <1>2, <1>3, <1>4 DEF Shapes, Nodes, Hints
<1>6. Evidence'
    BY <1>2, <1>3 DEF Evidence, Evident, Sure, StoredStamp
<1>7. Sweeping'
  <2> SUFFICES ASSUME NEW f \in Files \ suspect, view[f] # Absent
               PROVE  f \notin gc'.nodes /\ <<f, view[f]>> \notin gc'.symbols
    BY <1>3 DEF Sweeping
  <2>1. /\ node[f] \in Nodes /\ node[f].gen >= baseline
        /\ symbols[<<f, view[f]>>] >= baseline /\ symbols[<<f, view[f]>>] \in Nat
    BY <1>2 DEF Evidence, Evident, Shapes
  <2>2. node[f].gen \in Nat /\ baseline \in Nat /\ cut \in Nat /\ cut <= baseline
    BY <1>2, <2>1 DEF Nodes, Shapes
  <2> QED
    BY <1>4, <2>1, <2>2 DEF Stale
<1> QED
    BY <1>1, <1>3, <1>5, <1>6, <1>7, EndsIdle

\* After a full index everything published is of its generation.
LEMMA SetBaselineKeeps ==
    ASSUME UpdateInv, SetBaseline
    PROVE  UpdateInv'
<1>1. /\ flow.pc = "baseline" /\ baseline' = flow.gen /\ flow' = Idle
      /\ UNCHANGED <<tree, head, epoch, verified, view, graph, suspect, orphan, gc>>
    BY DEF SetBaseline
<1>2. Shapes /\ Evidence /\ Closing /\ flow.gen = head /\ head \in Nat
    BY <1>1 DEF UpdateInv, Turn, Late, Shapes
<1>3. /\ verified' = verified /\ epoch' = epoch /\ head' = head /\ view' = view
      /\ disk' = disk /\ clock' = clock /\ node' = node /\ symbols' = symbols
      /\ suspect' = suspect /\ gc' = gc
    BY <1>1 DEF tree, graph
<1>4. Shapes'
    BY <1>1, <1>2, <1>3 DEF Shapes, Nodes, Hints
<1>5. Evidence'
  <2> SUFFICES ASSUME NEW f \in Files \ suspect PROVE Evident(f)'
    BY <1>3 DEF Evidence
  <2>1. Evident(f) /\ (Sure(f)' <=> Sure(f))
    BY <1>2, <1>3 DEF Evidence, Sure, StoredStamp
  <2>2. view[f] # Absent => node[f].gen = head /\ symbols[<<f, view[f]>>] = head
    BY <1>1, <1>2 DEF Closing, Late
  <2> QED
    BY <1>1, <1>2, <1>3, <2>1, <2>2 DEF Evident
<1>6. Sweeping'
    BY <1>3 DEF UpdateInv, Sweeping
<1> QED
    BY <1>1, <1>3, <1>4, <1>5, <1>6, EndsIdle

\* The scan has compared every file, so the identity can be attested.
LEMMA AttestKeeps ==
    ASSUME UpdateInv, Attest
    PROVE  UpdateInv'
<1>1. /\ flow.pc = "attest" /\ verified' = (verified \/ Current) /\ flow' = Idle
      /\ UNCHANGED <<tree, head, epoch, view, baseline, graph, suspect, orphan, gc>>
    BY DEF Attest
<1>2. Shapes /\ Evidence /\ Choosing /\ Attesting
    BY DEF UpdateInv
<1>3. /\ epoch' = epoch /\ head' = head /\ view' = view /\ baseline' = baseline
      /\ disk' = disk /\ clock' = clock /\ node' = node /\ symbols' = symbols
      /\ suspect' = suspect /\ gc' = gc
    BY <1>1 DEF tree, graph
<1>4. Shapes'
  <2>1. verified' \in BOOLEAN
    BY <1>1, Zenon
  <2> QED
    BY <1>2, <1>3, <2>1 DEF Shapes, Nodes, Hints
<1>5. Evidence'
  <2> SUFFICES ASSUME NEW f \in Files \ suspect PROVE Evident(f)'
    BY <1>3 DEF Evidence
  <2>1. Evident(f) /\ (Sure(f)' <=> Sure(f))
    BY <1>2, <1>3 DEF Evidence, Sure, StoredStamp
  <2>2. Current => node[f] = NoNode \/ verified \/ Sure(f)
    BY <1>1, <1>2 DEF Choosing, Attesting, Current, InTime
  <2>3. verified' => verified \/ Current
    BY <1>1, Zenon
  <2> QED
    BY <1>3, <2>1, <2>2, <2>3 DEF Evident
<1>6. Sweeping'
    BY <1>3 DEF UpdateInv, Sweeping
<1> QED
    BY <1>1, <1>3, <1>4, <1>5, <1>6, EndsIdle
-----------------------------------------------------------------------------
(* The theorem.                                                            *)

\* A new project has an empty graph.
LEMMA InitUpdateInv ==
    ASSUME UpdateInit
    PROVE  UpdateInv
<1>1. /\ clock = 1 /\ suspect = {} /\ head = 0 /\ epoch = 1 /\ verified = FALSE
      /\ view = [f \in Files |-> Absent] /\ node = [f \in Files |-> NoNode]
      /\ symbols = [x \in Files \X Texts |-> 0] /\ baseline = 0
      /\ flow = Idle /\ orphan = Idle /\ gc = NoGc
      /\ disk \in [Files -> {[text |-> t, stamp |-> 1] : t \in Texts} \cup {NoFile}]
    BY DEF UpdateInit
<1>2. gc = [on |-> gc.on, nodes |-> gc.nodes, symbols |-> gc.symbols] /\ gc.on = FALSE
    BY <1>1 DEF NoGc
<1>3. disk \in [Files -> [text : Texts \cup {Absent}, stamp : 0 .. clock]]
  <2>1. NoFile \in [text : Texts \cup {Absent}, stamp : 0 .. 1]
    BY DEF NoFile
  <2>2. {[text |-> t, stamp |-> 1] : t \in Texts}
            \subseteq [text : Texts \cup {Absent}, stamp : 0 .. 1]
    OBVIOUS
  <2> QED
    BY <1>1, <2>1, <2>2
<1>4. Shapes
  <2>1. verified \in BOOLEAN /\ gc.on \in BOOLEAN
    BY <1>1, <1>2, Zenon
  <2>2. /\ view \in [Files -> Texts \cup {Absent}] /\ node \in [Files -> Nodes \cup {NoNode}]
        /\ symbols \in [Files \X Texts -> Nat] /\ suspect \subseteq Files
    BY <1>1
  <2>3. /\ clock \in Nat /\ head \in Nat /\ epoch \in Nat \ {0}
        /\ baseline \in Nat /\ baseline <= head
    BY <1>1
  <2> QED
    BY <1>2, <1>3, <2>1, <2>2, <2>3 DEF Shapes
<1>5. Evidence
    BY <1>1 DEF Evidence, Evident
<1>6. Turn /\ Scanning /\ Choosing /\ Attesting /\ Reading /\ Closing
    BY <1>1, IdleFacts DEF Turn, Scanning, Choosing, Attesting, Reading, Closing, Early, Late
<1>7. Orphaned /\ Sweeping
    BY <1>1, <1>2, IdleFacts DEF Orphaned, Sweeping
<1> QED
    BY <1>4, <1>5, <1>6, <1>7 DEF UpdateInv

\* Every step keeps the invariant.
LEMMA NextUpdateInv ==
    ASSUME UpdateInv, [UpdateNext /\ UNCHANGED scenario]_<<updateVars, scenario>>
    PROVE  UpdateInv'
<1>1. CASE UNCHANGED updateVars
    BY <1>1 DEF updateVars, tree, meta, graph, UpdateInv, Shapes, Nodes, Hints, Evidence,
       Evident, Sure, StoredStamp, Turn, Scanning, Observed, Kept, Choosing, Attesting,
       Match, InTime, Own, Times, Indexed, Reading, Closing, Orphaned, Sweeping
<1>2. CASE FlowStep
    BY <1>2, ScanReadKeeps, ScanFileKeeps, FlushKeeps, ScanEndKeeps, AttestKeeps, SelectKeeps,
       SelectAllKeeps, StatFilesKeeps, ReadFilesKeeps, UpsertKeeps, PublishKeeps, CleanupKeeps,
       SetBaselineKeeps DEF FlowStep
<1>3. CASE UpdateNext /\ ~FlowStep
    BY <1>3, EditKeeps, RemoveKeeps, RetargetKeeps, BeginKeeps, FailKeeps, OrphanUpsertKeeps,
       CollectKeeps, SweepKeeps DEF UpdateNext
<1> QED
    BY <1>1, <1>2, <1>3

\* project_service.rs, project_tools.rs, gc.rs: whatever attempts failed, were
\* aborted or crashed, and whatever was edited, reverted or retargeted, a file
\* whose content differs from the published one is reported by the next scan,
\* and the declarations of the published texts stay in the graph.
THEOREM EvidenceStays == UpdateSpec => []GraphIsEvidence
<1>1. UpdateInv => GraphIsEvidence
  <2> SUFFICES ASSUME UpdateInv, NEW f \in Files \ suspect
               PROVE  /\ disk[f].text # view[f] => Reported(f)
                      /\ view[f] # Absent => symbols[<<f, view[f]>>] > 0
    BY DEF GraphIsEvidence
  <2>1. Evident(f)
    BY DEF UpdateInv, Evidence
  <2>2. ASSUME disk[f].text # view[f] PROVE Reported(f)
    <3>1. CASE disk[f].text = Absent
      BY <2>1, <2>2, <3>1 DEF Evident, Reported
    <3>2. CASE disk[f].text # Absent
      <4> SUFFICES ASSUME Fresh(node[f], head)
                   PROVE  /\ ~StatMatches(node[f], verified, epoch, disk[f])
                          /\ node[f].hash # disk[f].text
        BY <3>2 DEF Reported, IsChanged
      <4>1. node[f].hash = view[f] /\ (verified => Sure(f))
        BY <2>1 DEF Evident, Fresh
      <4> QED
        BY <2>2, <3>2, <4>1 DEF StatMatches, Sure
    <3> QED
      BY <3>1, <3>2
  <2> QED
    BY <2>1, <2>2 DEF Evident
<1> QED
    BY <1>1, InitUpdateInv, NextUpdateInv, PTL DEF UpdateSpec

-----------------------------------------------------------------------------
(* The dreamer: the inductive invariant.                                   *)

IsDream(r) == r = [pc |-> r.pc, project |-> r.project, left |-> r.left, at |-> r.at]

Dreaming ==
    /\ insights = [c \in Clusters |-> insights[c]] /\ linked = [c \in Clusters |-> linked[c]]
    /\ docs = [c \in Clusters |-> docs[c]] /\ dream = [d \in Dreamers |-> dream[d]]
    /\ \A c \in Clusters : insights[c] \in Nat /\ linked[c] \in Nat /\ docs[c] \in Nat
    /\ faults \in Nat
    /\ \A d \in Dreamers : IsDream(dream[d])

\* Whether dream x of c has come to one of these points.
In(x, pcs, c) == IF x.pc \in pcs /\ x.at = c THEN 1 ELSE 0
Open(pcs, c) == In(dream["actor"], pcs, c) + In(dream["tool"], pcs, c)

\* The insights that wait for their edges and their document are in hand;
\* what a fault dropped is in nobody's.
Balanced(c) ==
    /\ linked[c] + Open({"edges"}, c) <= insights[c]
    /\ docs[c] + Open({"mark", "index"}, c) <= linked[c]
    /\ faults = 0 => /\ linked[c] + Open({"edges"}, c) = insights[c]
                     /\ docs[c] + Open({"mark", "index"}, c) = linked[c]

\* A mark stands for an insight.
Earned(c) == c \in marked => insights[c] # 0

\* Without the tool the actor summarises only what has no insight.
Alone(c) ==
    ~setting.tool =>
        /\ insights[c] <= 1
        /\ dream["tool"].pc = "off"
        /\ dream["actor"].pc \in {"summarize", "node"} /\ dream["actor"].at = c
              => insights[c] = 0

DreamInv == Dreaming /\ \A c \in Clusters : Balanced(c) /\ Earned(c) /\ Alone(c)

-----------------------------------------------------------------------------
(* The steps of a dream.                                                   *)

\* A dream is set to r: what is in hand changes by what it has in hand.
LEMMA SetDream ==
    ASSUME Dreaming, NEW d \in Dreamers, NEW r, IsDream(r), dream' = [dream EXCEPT ![d] = r]
    PROVE  /\ dream' = [e \in Dreamers |-> dream'[e]]
           /\ \A e \in Dreamers : IsDream(dream'[e])
           /\ dream'[d] = r /\ \A e \in Dreamers \ {d} : dream'[e] = dream[e]
           /\ \A pcs, c : Open(pcs, c)' = Open(pcs, c) - In(dream[d], pcs, c) + In(r, pcs, c)
<1>1. /\ dream' = [e \in Dreamers |-> dream'[e]]
      /\ dream'[d] = r /\ \A e \in Dreamers \ {d} : dream'[e] = dream[e]
    BY DEF Dreaming
<1>2. \A e \in Dreamers : IsDream(dream'[e])
    BY <1>1 DEF Dreaming
<1>3. ASSUME NEW pcs, NEW c
      PROVE  Open(pcs, c)' = Open(pcs, c) - In(dream[d], pcs, c) + In(r, pcs, c)
  <2>1. \A x : In(x, pcs, c) \in {0, 1}
    BY DEF In
  <2>2. Open(pcs, c)' = In(dream'["actor"], pcs, c) + In(dream'["tool"], pcs, c)
    BY DEF Open, In
  <2>3. CASE d = "actor"
    BY <1>1, <2>1, <2>2, <2>3 DEF Open, Dreamers
  <2>4. CASE d = "tool"
    BY <1>1, <2>1, <2>2, <2>4 DEF Open, Dreamers
  <2> QED
    BY <2>3, <2>4 DEF Dreamers
<1> QED
    BY <1>1, <1>2, <1>3

\* Nothing is in hand before the node nor after the document.
Quiet(pc) == pc \notin {"edges", "mark", "index"}

\* Dream d goes on to r with nothing in hand; it takes up only a cluster
\* without an insight, and marks only insights.
Goes(d, r) ==
    /\ dream' = [dream EXCEPT ![d] = r] /\ IsDream(r)
    /\ Quiet(dream[d].pc) /\ Quiet(r.pc)
    /\ d = "tool" /\ dream[d].pc = "off" => setting.tool
    /\ r.pc \in {"summarize", "node"} =>
          insights[r.at] = 0 \/ (dream[d].pc = "summarize" /\ r.at = dream[d].at)
    /\ marked' \subseteq marked \cup {c \in Clusters : insights[c] # 0}
    /\ UNCHANGED <<insights, linked, docs, faults, setting>>

\* Such a step keeps the invariant.
LEMMA GoesOn ==
    ASSUME DreamInv, NEW d \in Dreamers, NEW r, Goes(d, r)
    PROVE  DreamInv'
<1>1. Dreaming /\ IsDream(r) /\ dream' = [dream EXCEPT ![d] = r]
    BY DEF DreamInv, Goes
<1>2. /\ dream' = [e \in Dreamers |-> dream'[e]]
      /\ \A e \in Dreamers : IsDream(dream'[e])
      /\ dream'[d] = r /\ \A e \in Dreamers \ {d} : dream'[e] = dream[e]
      /\ \A pcs, c : Open(pcs, c)' = Open(pcs, c) - In(dream[d], pcs, c) + In(r, pcs, c)
    BY <1>1, SetDream
<1>3. /\ insights' = insights /\ linked' = linked /\ docs' = docs /\ faults' = faults
      /\ setting' = setting
    BY DEF Goes
<1>4. Dreaming'
    BY <1>1, <1>2, <1>3 DEF Dreaming
<1>5. ASSUME NEW c \in Clusters PROVE Balanced(c)' /\ Earned(c)' /\ Alone(c)'
  <2>1. Balanced(c) /\ Earned(c) /\ Alone(c)
    BY DEF DreamInv
  <2>2. /\ In(dream[d], {"edges"}, c) = 0 /\ In(r, {"edges"}, c) = 0
        /\ In(dream[d], {"mark", "index"}, c) = 0 /\ In(r, {"mark", "index"}, c) = 0
    BY DEF Goes, Quiet, In
  <2>3. \A pcs : Open(pcs, c) \in Nat
    BY DEF Open, In
  <2>4. Open({"edges"}, c)' = Open({"edges"}, c)
        /\ Open({"mark", "index"}, c)' = Open({"mark", "index"}, c)
    BY <1>2, <2>2, <2>3
  <2>5. Balanced(c)'
    BY <1>3, <2>1, <2>4 DEF Balanced
  <2>6. Earned(c)'
    BY <1>3, <2>1 DEF Earned, Goes
  <2>7. Alone(c)'
    BY <1>2, <1>3, <2>1 DEF Alone, Goes, Dreamers
  <2> QED
    BY <2>5, <2>6, <2>7
<1> QED
    BY <1>4, <1>5 DEF DreamInv

\* A fault drops dreams where they are.
LEMMA FaultDrops ==
    ASSUME DreamInv, dream' = [d \in Dreamers |-> dream'[d]],
           \A d \in Dreamers : dream'[d] = dream[d] \/ dream'[d] = Awake,
           faults' = faults + 1, UNCHANGED <<insights, linked, docs, marked, setting>>
    PROVE  DreamInv'
<1>1. IsDream(Awake) /\ Awake.pc = "off"
    BY DEF IsDream, Awake
<1>2. Dreaming'
    BY <1>1 DEF DreamInv, Dreaming
<1>3. ASSUME NEW c \in Clusters PROVE Balanced(c)' /\ Earned(c)' /\ Alone(c)'
  <2>1. Balanced(c) /\ Earned(c) /\ Alone(c) /\ faults \in Nat
        /\ insights[c] \in Nat /\ linked[c] \in Nat /\ docs[c] \in Nat
    BY DEF DreamInv, Dreaming
  <2>2. ASSUME NEW pcs, "off" \notin pcs
        PROVE  Open(pcs, c) \in Nat /\ Open(pcs, c)' \in Nat /\ Open(pcs, c)' <= Open(pcs, c)
    <3>1. \A d \in Dreamers : /\ In(dream[d], pcs, c) \in Nat /\ In(dream'[d], pcs, c) \in Nat
                              /\ In(dream'[d], pcs, c) <= In(dream[d], pcs, c)
      BY <1>1, <2>2 DEF In
    <3>2. Open(pcs, c)' = In(dream'["actor"], pcs, c) + In(dream'["tool"], pcs, c)
      BY DEF Open, In
    <3> QED
      BY <3>1, <3>2 DEF Open, Dreamers
  <2>3. /\ Open({"edges"}, c)' <= Open({"edges"}, c)
        /\ Open({"mark", "index"}, c)' <= Open({"mark", "index"}, c)
        /\ Open({"edges"}, c) \in Nat /\ Open({"edges"}, c)' \in Nat
        /\ Open({"mark", "index"}, c) \in Nat /\ Open({"mark", "index"}, c)' \in Nat
    BY <2>2
  <2>4. Balanced(c)'
    BY <2>1, <2>3 DEF Balanced
  <2>5. Earned(c)'
    BY <2>1 DEF Earned
  <2>6. Alone(c)'
    BY <1>1, <2>1 DEF Alone, Dreamers
  <2> QED
    BY <2>4, <2>5, <2>6
<1> QED
    BY <1>2, <1>3 DEF DreamInv

\* A step beside the insights and the dreams.
LEMMA BesideDreams ==
    ASSUME DreamInv, UNCHANGED <<insights, linked, docs, marked, dream, faults, setting>>
    PROVE  DreamInv'
<1>1. Dreaming'
    BY DEF DreamInv, Dreaming
<1>2. ASSUME NEW c \in Clusters PROVE Balanced(c)' /\ Earned(c)' /\ Alone(c)'
    BY DEF DreamInv, Balanced, Earned, Alone, Open, In
<1> QED
    BY <1>1, <1>2 DEF DreamInv

\* A dream is only the named fields that change.
LEMMA GotoMoves ==
    ASSUME Dreaming, NEW d \in Dreamers, NEW pc, Goto(d, pc)
    PROVE  \E r : /\ dream' = [dream EXCEPT ![d] = r] /\ IsDream(r)
                  /\ r.pc = pc /\ r.at = dream[d].at
<1> DEFINE f == dream[d]
           r == [f EXCEPT !.pc = pc]
<1>1. dream' = [dream EXCEPT ![d] = r]
    BY DEF Goto, Dreaming
<1>2. IsDream(f)
    BY DEF Dreaming
<1> HIDE DEF f
<1>3. r = [pc |-> pc, project |-> f.project, left |-> f.left, at |-> f.at]
    BY <1>2 DEF IsDream
<1> HIDE DEF r
<1>4. IsDream(r) /\ r.pc = pc /\ r.at = f.at
    BY <1>3 DEF IsDream
<1> QED
    BY <1>1, <1>4 DEF f

\* The steps that write a node, its edges and its document: what was in hand
\* is written.
LEMMA WriteSteps ==
    ASSUME DreamInv, NEW d \in Dreamers, setting' = setting,
           CreateNode(d) \/ CreateEdges(d) \/ SetFingerprint(d) \/ IndexDoc(d)
    PROVE  DreamInv'
<1>1. Dreaming /\ faults' = faults
    BY DEF DreamInv, CreateNode, CreateEdges, SetFingerprint, IndexDoc, env
<1>2. PICK r : /\ dream' = [dream EXCEPT ![d] = r] /\ IsDream(r) /\ r.at = dream[d].at
               /\ CreateNode(d) => r.pc = "edges"
               /\ CreateEdges(d) => r.pc = "mark"
               /\ SetFingerprint(d) => r.pc = "index"
               /\ IndexDoc(d) => r.pc = "check"
  <2>1. CASE CreateNode(d)
    <3>1. ~CreateEdges(d) /\ ~SetFingerprint(d) /\ ~IndexDoc(d)
      BY <2>1 DEF CreateNode, CreateEdges, SetFingerprint, IndexDoc, At
    <3> QED
      BY <1>1, <2>1, <3>1, GotoMoves DEF CreateNode
  <2>2. CASE CreateEdges(d)
    <3>1. ~CreateNode(d) /\ ~SetFingerprint(d) /\ ~IndexDoc(d)
      BY <2>2 DEF CreateNode, CreateEdges, SetFingerprint, IndexDoc, At
    <3> QED
      BY <1>1, <2>2, <3>1, GotoMoves DEF CreateEdges
  <2>3. CASE SetFingerprint(d)
    <3>1. ~CreateNode(d) /\ ~CreateEdges(d) /\ ~IndexDoc(d)
      BY <2>3 DEF CreateNode, CreateEdges, SetFingerprint, IndexDoc, At
    <3> QED
      BY <1>1, <2>3, <3>1, GotoMoves DEF SetFingerprint
  <2>4. CASE IndexDoc(d)
    <3>1. ~CreateNode(d) /\ ~CreateEdges(d) /\ ~SetFingerprint(d)
      BY <2>4 DEF CreateNode, CreateEdges, SetFingerprint, IndexDoc, At
    <3> QED
      BY <1>1, <2>4, <3>1, GotoMoves DEF IndexDoc
  <2> QED
    BY <2>1, <2>2, <2>3, <2>4
<1>3. /\ dream' = [e \in Dreamers |-> dream'[e]]
      /\ \A e \in Dreamers : IsDream(dream'[e])
      /\ dream'[d] = r /\ \A e \in Dreamers \ {d} : dream'[e] = dream[e]
      /\ \A pcs, c : Open(pcs, c)' = Open(pcs, c) - In(dream[d], pcs, c) + In(r, pcs, c)
    BY <1>1, <1>2, SetDream
<1>4. Dreaming' /\ \A c \in Clusters :
        /\ insights'[c] = insights[c] + (IF CreateNode(d) /\ c = dream[d].at THEN 1 ELSE 0)
        /\ linked'[c] = linked[c] + (IF CreateEdges(d) /\ c = dream[d].at THEN 1 ELSE 0)
        /\ docs'[c] = docs[c] + (IF IndexDoc(d) /\ c = dream[d].at THEN 1 ELSE 0)
  <2>1. CASE CreateNode(d)
    BY <1>1, <1>3, <2>1 DEF Dreaming, CreateNode, CreateEdges, IndexDoc, At
  <2>2. CASE CreateEdges(d)
    BY <1>1, <1>3, <2>2 DEF Dreaming, CreateNode, CreateEdges, IndexDoc, At
  <2>3. CASE SetFingerprint(d)
    BY <1>1, <1>3, <2>3 DEF Dreaming, SetFingerprint, CreateNode, CreateEdges, IndexDoc, At
  <2>4. CASE IndexDoc(d)
    <3>1. ~CreateNode(d) /\ ~CreateEdges(d)
      BY <2>4 DEF CreateNode, CreateEdges, IndexDoc, At
    <3>2. /\ docs' = [docs EXCEPT ![dream[d].at] = @ + 1]
          /\ insights' = insights /\ linked' = linked
      BY <2>4 DEF IndexDoc
    <3>3. Dreaming'
      BY <1>1, <1>3, <3>2 DEF Dreaming
    <3>4. \A c \in Clusters : docs'[c] = docs[c] + (IF c = dream[d].at THEN 1 ELSE 0)
      BY <1>1, <3>2 DEF Dreaming
    <3> QED
      BY <1>1, <2>4, <3>1, <3>2, <3>3, <3>4 DEF Dreaming
  <2> QED
    BY <2>1, <2>2, <2>3, <2>4
<1>5. ASSUME NEW c \in Clusters PROVE Balanced(c)' /\ Earned(c)' /\ Alone(c)'
  <2>1. Balanced(c) /\ Earned(c) /\ Alone(c)
        /\ insights[c] \in Nat /\ linked[c] \in Nat /\ docs[c] \in Nat
    BY DEF DreamInv, Dreaming
  <2>2. \A pcs : Open(pcs, c) \in Nat /\ In(dream[d], pcs, c) <= Open(pcs, c)
    BY DEF Open, In, Dreamers
  <2>3. Balanced(c)'
    <3>1. CASE c # dream[d].at
      BY <1>1, <1>2, <1>3, <1>4, <2>1, <2>2, <3>1 DEF Balanced, In
    <3>2. CASE c = dream[d].at /\ CreateNode(d)
      <4>1. /\ insights'[c] = insights[c] + 1 /\ linked'[c] = linked[c] /\ docs'[c] = docs[c]
        BY <1>4, <2>1, <3>2 DEF CreateNode, CreateEdges, IndexDoc, At
      <4>2. /\ Open({"edges"}, c)' = Open({"edges"}, c) + 1
            /\ Open({"mark", "index"}, c)' = Open({"mark", "index"}, c)
        BY <1>2, <1>3, <2>2, <3>2 DEF In, CreateNode, At
      <4> QED
        BY <1>1, <2>1, <2>2, <4>1, <4>2 DEF Balanced
    <3>3. CASE c = dream[d].at /\ CreateEdges(d)
      <4>1. /\ insights'[c] = insights[c] /\ linked'[c] = linked[c] + 1 /\ docs'[c] = docs[c]
        BY <1>4, <2>1, <3>3 DEF CreateNode, CreateEdges, IndexDoc, At
      <4>2. /\ Open({"edges"}, c)' = Open({"edges"}, c) - 1
            /\ Open({"mark", "index"}, c)' = Open({"mark", "index"}, c) + 1
        BY <1>2, <1>3, <2>2, <3>3 DEF In, CreateEdges, At
      <4> QED
        BY <1>1, <2>1, <2>2, <4>1, <4>2 DEF Balanced
    <3>4. CASE c = dream[d].at /\ SetFingerprint(d)
      <4>1. /\ insights'[c] = insights[c] /\ linked'[c] = linked[c] /\ docs'[c] = docs[c]
        BY <1>4, <2>1, <3>4 DEF SetFingerprint, CreateNode, CreateEdges, IndexDoc, At
      <4>2. /\ Open({"edges"}, c)' = Open({"edges"}, c)
            /\ Open({"mark", "index"}, c)' = Open({"mark", "index"}, c)
        BY <1>2, <1>3, <2>2, <3>4 DEF In, SetFingerprint, At
      <4> QED
        BY <1>1, <2>1, <2>2, <4>1, <4>2 DEF Balanced
    <3>5. CASE c = dream[d].at /\ IndexDoc(d)
      <4>1. /\ insights'[c] = insights[c] /\ linked'[c] = linked[c] /\ docs'[c] = docs[c] + 1
        BY <1>4, <2>1, <3>5 DEF CreateNode, CreateEdges, IndexDoc, At
      <4>2. /\ Open({"edges"}, c)' = Open({"edges"}, c)
            /\ Open({"mark", "index"}, c)' = Open({"mark", "index"}, c) - 1
        BY <1>2, <1>3, <2>2, <3>5 DEF In, IndexDoc, At
      <4> QED
        BY <1>1, <2>1, <2>2, <4>1, <4>2 DEF Balanced
    <3> QED
      BY <3>1, <3>2, <3>3, <3>4, <3>5
  <2>4. Earned(c)'
    <3>1. CASE SetFingerprint(d) /\ c = dream[d].at
      <4>1. In(dream[d], {"mark", "index"}, c) = 1
        BY <3>1 DEF SetFingerprint, At, In
      <4>2. insights[c] # 0
        BY <2>1, <2>2, <4>1 DEF Balanced
      <4> QED
        BY <3>1, <4>2 DEF Earned, SetFingerprint
    <3>2. CASE ~(SetFingerprint(d) /\ c = dream[d].at)
      <4>1. c \in marked' => c \in marked
        BY <3>2 DEF CreateNode, CreateEdges, SetFingerprint, IndexDoc
      <4> QED
        BY <1>4, <2>1, <4>1 DEF Earned
    <3> QED
      BY <3>1, <3>2
  <2>5. Alone(c)'
    <3> SUFFICES ASSUME ~setting.tool PROVE
          /\ insights'[c] <= 1
          /\ dream'["tool"].pc = "off"
          /\ ~(dream'["actor"].pc \in {"summarize", "node"} /\ dream'["actor"].at = c)
      BY DEF Alone
    <3>1. d = "actor" /\ dream["tool"].pc = "off"
      BY <2>1 DEF Alone, Dreamers, CreateNode, CreateEdges, SetFingerprint, IndexDoc, At
    <3>2. insights'[c] <= 1
      <4>1. CASE CreateNode(d) /\ c = dream[d].at
        BY <1>4, <2>1, <3>1, <4>1 DEF Alone, CreateNode, At
      <4>2. CASE ~(CreateNode(d) /\ c = dream[d].at)
        BY <1>4, <2>1, <4>2 DEF Alone
      <4> QED
        BY <4>1, <4>2
    <3> QED
      BY <1>2, <1>3, <3>1, <3>2 DEF Dreamers
  <2> QED
    BY <2>3, <2>4, <2>5
<1> QED
    BY <1>4, <1>5 DEF DreamInv

\* The steps of a dream that only think.
LEMMA ThinkSteps ==
    ASSUME DreamInv, NEW d \in Dreamers, setting' = setting,
           \/ Scan(d) \/ Summarize(d) \/ NoContext(d) \/ End(d)
           \/ \E c \in Clusters : Check(d, c)
    PROVE  DreamInv'
<1> SUFFICES \E r : Goes(d, r)
    BY GoesOn
<1>1. Dreaming /\ IsDream(dream[d])
    BY DEF DreamInv, Dreaming
<1> DEFINE f == dream[d]
<1>2. CASE Scan(d)
  <2>1. PICK s : dream' = [dream EXCEPT ![d].pc = "check", ![d].left = s]
    BY <1>2 DEF Scan
  <2> DEFINE h == [f EXCEPT !.pc = "check"]
             r == [h EXCEPT !.left = s]
  <2>2. dream' = [dream EXCEPT ![d] = r]
    BY <1>1, <2>1 DEF Dreaming
  <2>3. f.pc = "scan" /\ UNCHANGED <<insights, linked, docs, faults, marked, setting>>
    BY <1>2 DEF Scan, At, env, store
  <2>4. IsDream(f)
    BY <1>1
  <2> HIDE DEF f
  <2>5. h = [pc |-> "check", project |-> f.project, left |-> f.left, at |-> f.at]
    BY <2>4 DEF IsDream
  <2> HIDE DEF h
  <2>6. r = [pc |-> "check", project |-> f.project, left |-> s, at |-> f.at]
    BY <2>5
  <2> HIDE DEF r
  <2>7. IsDream(r) /\ r.pc = "check"
    BY <2>6 DEF IsDream
  <2>8. Goes(d, r)
    BY <2>2, <2>3, <2>7 DEF Goes, Quiet, f
  <2> QED
    BY <2>8
<1>3. CASE Summarize(d) \/ NoContext(d)
  <2>1. PICK pc \in {"node", "check"} : Goto(d, pc)
    BY <1>3 DEF Summarize, NoContext
  <2>2. PICK r : dream' = [dream EXCEPT ![d] = r] /\ IsDream(r) /\ r.pc = pc /\ r.at = f.at
    BY <1>1, <2>1, GotoMoves
  <2>3. f.pc = "summarize" /\ UNCHANGED <<insights, linked, docs, faults, marked, setting>>
    BY <1>3 DEF Summarize, NoContext, At, env, store
  <2>4. Goes(d, r)
    BY <2>2, <2>3 DEF Goes, Quiet
  <2> QED
    BY <2>4
<1>4. CASE End(d)
  <2>1. Goes(d, Awake)
    BY <1>4 DEF Goes, Quiet, End, At, IsDream, Awake, env, store
  <2> QED
    BY <2>1
<1>5. ASSUME NEW c \in Clusters, Check(d, c) PROVE \E r : Goes(d, r)
  <2>1. /\ f.pc = "check" /\ UNCHANGED <<insights, linked, docs, faults, setting>>
        /\ IF c \in marked \/ insights[c] # 0
           THEN Drop(d, c) /\ marked' = marked \union {c}
           ELSE Take(d, c) /\ marked' = marked
    BY <1>5 DEF Check, At, env
  <2>2. CASE c \in marked \/ insights[c] # 0
    <3> DEFINE r == [f EXCEPT !.left = @ \ {c}]
    <3>1. dream' = [dream EXCEPT ![d] = r]
      BY <1>1, <2>1, <2>2 DEF Drop, Dreaming
    <3>2. insights[c] # 0 /\ marked' = marked \union {c}
      BY <2>1, <2>2 DEF DreamInv, Earned
    <3>3. IsDream(f)
      BY <1>1
    <3> HIDE DEF f
    <3>4. r = [pc |-> f.pc, project |-> f.project, left |-> f.left \ {c}, at |-> f.at]
      BY <3>3 DEF IsDream
    <3> HIDE DEF r
    <3>5. IsDream(r) /\ r.pc = f.pc
      BY <3>4 DEF IsDream
    <3>6. Goes(d, r)
      BY <2>1, <3>1, <3>2, <3>5 DEF Goes, Quiet, f
    <3> QED
      BY <3>6
  <2>3. CASE ~(c \in marked \/ insights[c] # 0)
    <3> DEFINE g == [f EXCEPT !.pc = "summarize"]
               h == [g EXCEPT !.at = c]
               r == [h EXCEPT !.left = f.left \ {c}]
    <3>1. dream' = [dream EXCEPT ![d] = r]
      <4>1. Take(d, c)
        BY <2>1, <2>3
      <4>2. dream' = [dream EXCEPT ![d].pc = "summarize", ![d].at = c,
                                   ![d].left = dream[d].left \ {c}]
        BY <4>1, Zenon DEF Take
      <4> QED
        BY <4>2, <1>1 DEF Dreaming
    <3>3. IsDream(f)
      BY <1>1
    <3> HIDE DEF f
    <3>4. g = [pc |-> "summarize", project |-> f.project, left |-> f.left, at |-> f.at]
      BY <3>3 DEF IsDream
    <3> HIDE DEF g
    <3>7. h = [pc |-> "summarize", project |-> f.project, left |-> f.left, at |-> c]
      BY <3>4
    <3> HIDE DEF h
    <3>8. r = [pc |-> "summarize", project |-> f.project, left |-> f.left \ {c}, at |-> c]
      BY <3>7
    <3> HIDE DEF r
    <3>5. IsDream(r) /\ r.pc = "summarize" /\ r.at = c
      BY <3>8 DEF IsDream
    <3>6. Goes(d, r)
      BY <2>1, <2>3, <3>1, <3>5 DEF Goes, Quiet, f
    <3> QED
      BY <3>6
  <2> QED
    BY <2>2, <2>3
<1> QED
    BY <1>2, <1>3, <1>4, <1>5

\* A dream begins for the actor, or for the tool where there is one.
LEMMA Begins ==
    ASSUME DreamInv, NEW d \in Dreamers, NEW p, StartDream(d, p), dream[d].pc = "off",
           d = "tool" => setting.tool,
           UNCHANGED <<insights, linked, docs, marked, faults, setting>>
    PROVE  DreamInv'
<1> DEFINE r == [Awake EXCEPT !.pc = "scan", !.project = p]
           h == [Awake EXCEPT !.pc = "scan"]
<1>0. h = [pc |-> "scan", project |-> "none", left |-> {}, at |-> "none"]
    BY DEF Awake
<1>1. r = [pc |-> "scan", project |-> p, left |-> {}, at |-> "none"]
  <2>1. r = [h EXCEPT !.project = p]
    OBVIOUS
  <2> HIDE DEF h, r
  <2> QED
    BY <1>0, <2>1
<1>2. dream' = [dream EXCEPT ![d] = r]
    BY DEF StartDream
<1> HIDE DEF r
<1>3. IsDream(r) /\ r.pc = "scan"
    BY <1>1 DEF IsDream
<1>4. Goes(d, r)
    BY <1>2, <1>3 DEF Goes, Quiet
<1> QED
    BY <1>4, GoesOn

\* No dream, and nothing stored.
LEMMA InitDreamInv == DreamerInit => DreamInv
<1> SUFFICES ASSUME DreamerInit PROVE DreamInv
    OBVIOUS
<1>1. Dreaming
    BY DEF DreamerInit, Dreaming, IsDream, Awake
<1>2. ASSUME NEW c \in Clusters PROVE Balanced(c) /\ Earned(c) /\ Alone(c)
    BY DEF DreamerInit, Awake, Dreamers, Balanced, Earned, Alone, Open, In
<1> QED
    BY <1>1, <1>2 DEF DreamInv

\* Every step keeps the invariant.
LEMMA NextDreamInv ==
    DreamInv /\ [DreamerNext /\ UNCHANGED setting]_<<dreamerVars, setting>> => DreamInv'
<1> SUFFICES ASSUME DreamInv, [DreamerNext /\ UNCHANGED setting]_<<dreamerVars, setting>>
             PROVE  DreamInv'
    OBVIOUS
<1>0. setting' = setting
    OBVIOUS
<1>1. CASE \E e \in AppEvents : Send(e)
    BY <1>0, <1>1, BesideDreams DEF Send, store
<1>2. CASE Receive
  <2>1. UNCHANGED <<insights, linked, docs, marked, faults, setting>>
    BY <1>0, <1>2 DEF Receive, env
  <2>2. CASE dream' = dream
    BY <2>1, <2>2, BesideDreams
  <2>3. CASE dream' # dream
    <3>1. PICK p : StartDream("actor", p)
      BY <1>2, <2>3 DEF Receive
    <3> QED
      BY <1>2, <2>1, <3>1, Begins DEF Receive, ActorFree, Dreamers
  <2> QED
    BY <2>2, <2>3
<1>3. CASE Quieten \/ Tick \/ StopToken \/ \E b \in BOOLEAN : SetBusy(b)
    BY <1>0, <1>3, BesideDreams DEF Quieten, Tick, StopToken, SetBusy, store, env
<1>4. CASE NextProject
  <2>1. PICK p : StartDream("actor", p)
    BY <1>4 DEF NextProject
  <2> QED
    BY <1>0, <1>4, <2>1, Begins DEF NextProject, Dreamers, env, store
<1>5. CASE CallTool
  <2>1. PICK p : StartDream("tool", p)
    BY <1>5 DEF CallTool
  <2> QED
    BY <1>0, <1>5, <2>1, Begins DEF CallTool, Dreamers, store
<1>6. ASSUME NEW d \in Dreamers, DreamStep(d) \/ NoContext(d) \/ Fails(d) PROVE DreamInv'
  <2>1. CASE DreamStep(d) \/ NoContext(d)
    BY <1>0, <2>1, WriteSteps, ThinkSteps DEF DreamStep
  <2>2. CASE Fails(d)
    <3>1. /\ dream' = [e \in Dreamers |-> dream'[e]]
          /\ \A e \in Dreamers : dream'[e] = dream[e] \/ dream'[e] = Awake
      BY <2>2 DEF Fails, DreamInv, Dreaming
    <3> QED
      BY <1>0, <2>2, <3>1, FaultDrops DEF Fails, Fault, store
  <2> QED
    BY <1>6, <2>1, <2>2
<1>7. CASE Timeout \/ Crash \/ Exit
  <2>1. /\ dream' = [e \in Dreamers |-> dream'[e]]
        /\ \A e \in Dreamers : dream'[e] = dream[e] \/ dream'[e] = Awake
    BY <1>7 DEF Timeout, Crash, Exit, DreamInv, Dreaming
  <2> QED
    BY <1>0, <1>7, <2>1, FaultDrops DEF Timeout, Crash, Exit, Fault, store
<1>8. CASE UNCHANGED <<dreamerVars, setting>>
    BY <1>8, BesideDreams DEF dreamerVars, inbox, env, store
<1> QED
    BY <1>1, <1>2, <1>3, <1>4, <1>5, <1>6, <1>7, <1>8 DEF DreamerNext

\* dreamer.rs, engram_graph store.rs: a mark stands for an insight, what is
\* linked or indexed has its node, the actor alone never doubles an insight,
\* and without a fault a finished dream left it linked and searchable.
THEOREM SoundInsights == DreamerSpec => []InsightsAreSound
<1>1. DreamInv => InsightsAreSound
  <2> SUFFICES ASSUME DreamInv, NEW c \in Clusters PROVE
        /\ c \in marked => insights[c] # 0
        /\ docs[c] <= linked[c] /\ linked[c] <= insights[c]
        /\ ~setting.tool => insights[c] <= 1
        /\ Resting /\ faults = 0 => docs[c] = insights[c]
    BY DEF InsightsAreSound
  <2>1. Balanced(c) /\ Earned(c) /\ Alone(c)
        /\ insights[c] \in Nat /\ linked[c] \in Nat /\ docs[c] \in Nat
    BY DEF DreamInv, Dreaming
  <2>2. Open({"edges"}, c) \in Nat /\ Open({"mark", "index"}, c) \in Nat
    BY DEF Open, In
  <2>3. docs[c] <= linked[c] /\ linked[c] <= insights[c]
    BY <2>1, <2>2 DEF Balanced
  <2>4. Resting => Open({"edges"}, c) = 0 /\ Open({"mark", "index"}, c) = 0
    BY DEF Resting, Open, In, Dreamers
  <2> QED
    BY <2>1, <2>3, <2>4 DEF Balanced, Earned, Alone
<1> QED
    BY <1>1, InitDreamInv, NextDreamInv, PTL DEF DreamerSpec
=============================================================================
