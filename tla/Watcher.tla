------------------------------ MODULE Watcher ------------------------------
(***************************************************************************)
(* actors/watcher.rs: the actor that turns file notifications into project *)
(* updates, with the handlers of project_tools.rs that switch watching on  *)
(* and off.                                                                *)
(*                                                                         *)
(* The notify callback runs on its own thread and fills a bounded channel; *)
(* the handlers commit the setting and then send an event on a bounded     *)
(* broadcast channel; the actor receives from both and, on a timer, starts *)
(* updates that run as tasks of their own.  Time is abstracted to whether  *)
(* a debounce deadline has passed.                                         *)
(***************************************************************************)
EXTENDS Integers, Sequences, FiniteSets

CONSTANTS
    Projects,      \* watched or watchable projects
    Requests,      \* watch and unwatch requests that can run at once
    Tasks,         \* update tasks that can be live at once
    NoTask,        \* no update task
    NoProject,     \* a free request or task
    ChannelCap,    \* capacity of the notify channel
    EventCap,      \* capacity of the broadcast channel
    MaxChanges,    \* bound: file changes
    MaxRequests    \* bound: watch and unwatch requests

ASSUME WatcherAssumption ==
    /\ NoTask \notin Tasks /\ NoProject \notin Projects
    /\ ChannelCap \in Nat \ {0} /\ EventCap \in Nat \ {0}
    /\ MaxChanges \in Nat /\ MaxRequests \in Nat

VARIABLES
    saved,      \* registry: projects with an enabled watch
    request,    \* per request: [project, enabled], committed and not yet sent
    events,     \* WatchUpdate events of the broadcast channel
    watchers,   \* projects with an installed watcher
    channel,    \* projects with a notification in the notify channel
    overflow,   \* overflow_dirty
    pending,    \* per project: "none", or its deadline is "ahead" or "past"
    inFlight,   \* in_flight
    cancels,    \* update_cancels: per project, the task its token cancels
    task,       \* per task: [state, project, cancelled]
    down,       \* the actor has exited
    changes, requests,   \* counters for the bounds
    owed        \* history: changed projects no later update has read

actor == <<watchers, pending, cancels, down>>
vars  == <<saved, request, events, channel, overflow, inFlight, task, actor,
           changes, requests, owed>>

FreeRequest == [project |-> NoProject, enabled |-> FALSE]
FreeTask == [state |-> "free", project |-> NoProject, cancelled |-> FALSE]

\* The actor restores the enabled watches; installing one may fail.
Init ==
    /\ saved \in SUBSET Projects
    /\ watchers \in SUBSET saved
    /\ request = [r \in Requests |-> FreeRequest]
    /\ events = <<>> /\ channel = <<>> /\ overflow = {}
    /\ pending = [p \in Projects |-> "none"]
    /\ inFlight = {}
    /\ cancels = [p \in Projects |-> NoTask]
    /\ task = [t \in Tasks |-> FreeTask]
    /\ down = FALSE
    /\ changes = 0 /\ requests = 0
    /\ owed = {}

-----------------------------------------------------------------------------
(* The handlers and the notify callback.                                   *)

\* handle_watch_project, handle_unwatch_project: the setting is committed ...
SaveWatch(r, p, enabled) ==
    /\ request[r] = FreeRequest
    /\ requests < MaxRequests
    /\ saved' = IF enabled THEN saved \cup {p} ELSE saved \ {p}
    /\ request' = [request EXCEPT ![r] = [project |-> p, enabled |-> enabled]]
    /\ requests' = requests + 1
    /\ UNCHANGED <<events, channel, overflow, inFlight, task, actor, changes, owed>>

\* ... and then announced; a full broadcast channel forgets its oldest event.
SendWatchUpdate(r) ==
    /\ request[r] # FreeRequest
    /\ events' = Append(IF Len(events) < EventCap THEN events ELSE Tail(events),
                        request[r])
    /\ request' = [request EXCEPT ![r] = FreeRequest]
    /\ UNCHANGED <<saved, channel, overflow, inFlight, task, actor, changes,
                   requests, owed>>

\* create_watcher's callback: try_send, or mark the project dirty.
Notify(p) ==
    IF Len(channel) < ChannelCap
    THEN channel' = Append(channel, p) /\ UNCHANGED overflow
    ELSE overflow' = overflow \cup {p} /\ UNCHANGED channel

\* An indexable file of p changes while its watcher is installed.
FileChanges(p) ==
    /\ p \in watchers /\ ~down
    /\ changes < MaxChanges
    /\ Notify(p)
    /\ changes' = changes + 1
    /\ owed' = owed \cup {p}
    /\ UNCHANGED <<saved, request, events, inFlight, task, actor, requests>>

-----------------------------------------------------------------------------
(* The actor's loop.                                                       *)

\* WatchUpdate, enabled: the new watcher replaces the old one, unless the
\* path is refused or the watcher cannot be installed.
EnableWatch ==
    /\ ~down /\ events # <<>> /\ Head(events).enabled
    /\ events' = Tail(events)
    /\ \/ watchers' = watchers \cup {Head(events).project}
       \/ UNCHANGED watchers
    /\ UNCHANGED <<saved, request, channel, overflow, pending, inFlight,
                   cancels, task, down, changes, requests, owed>>

\* The running update that holds project p's cancellation token.
Cancelled(p) ==
    [t \in Tasks |-> IF t = cancels[p] THEN [task[t] EXCEPT !.cancelled = TRUE]
                                       ELSE task[t]]

\* WatchUpdate, disabled: queued work goes and the running update is told.
DisableWatch ==
    /\ ~down /\ events # <<>> /\ ~Head(events).enabled
    /\ LET p == Head(events).project IN
       /\ watchers' = watchers \ {p}
       /\ pending' = [pending EXCEPT ![p] = "none"]
       /\ cancels' = [cancels EXCEPT ![p] = NoTask]
       /\ task' = Cancelled(p)
       /\ owed' = owed \ {p}
    /\ events' = Tail(events)
    /\ UNCHANGED <<saved, request, channel, overflow, inFlight, down, changes,
                   requests>>

\* A notification arms its project, or renews the deadline, if the project
\* is still watched.
ReceiveNotify ==
    /\ ~down /\ channel # <<>>
    /\ channel' = Tail(channel)
    /\ pending' = [pending EXCEPT ![Head(channel)] =
           IF Head(channel) \in watchers THEN "ahead" ELSE @]
    /\ UNCHANGED <<saved, request, events, watchers, overflow, inFlight, cancels,
                   task, down, changes, requests, owed>>

\* The ticker arms the projects whose notifications were dropped.
DrainOverflow ==
    /\ ~down /\ overflow # {}
    /\ overflow' = {}
    /\ pending' = [p \in Projects |->
           IF p \in overflow \cap watchers /\ pending[p] = "none"
           THEN "ahead" ELSE pending[p]]
    /\ UNCHANGED <<saved, request, events, watchers, channel, inFlight, cancels,
                   task, down, changes, requests, owed>>

\* watch_debounce_secs pass without a notification.
DeadlinePasses(p) ==
    /\ pending[p] = "ahead"
    /\ pending' = [pending EXCEPT ![p] = "past"]
    /\ UNCHANGED <<saved, request, events, watchers, channel, overflow, inFlight,
                   cancels, task, down, changes, requests, owed>>

\* Mutated: the trigger is dropped when an update is in flight.
RescheduleDropped(p) ==
    /\ ~down /\ pending[p] = "past" /\ p \in inFlight
    /\ pending' = [pending EXCEPT ![p] = "none"]
    /\ UNCHANGED <<saved, request, events, watchers, channel, overflow, inFlight,
                   cancels, task, down, changes, requests, owed>>

\* Mutated: the token is forgotten before the in-flight check.
RescheduleForgets(p) ==
    /\ ~down /\ pending[p] = "past" /\ p \in inFlight
    /\ pending' = [pending EXCEPT ![p] = "ahead"]
    /\ cancels' = [cancels EXCEPT ![p] = NoTask]
    /\ UNCHANGED <<saved, request, events, watchers, channel, overflow, inFlight,
                   task, down, changes, requests, owed>>

\* The ticker finds p due while its last update still runs: try again later.
Reschedule(p) ==
    /\ ~down /\ pending[p] = "past" /\ p \in inFlight
    /\ pending' = [pending EXCEPT ![p] = "ahead"]
    /\ UNCHANGED <<saved, request, events, watchers, channel, overflow, inFlight,
                   cancels, task, down, changes, requests, owed>>

\* The ticker claims the in-flight slot and spawns the update.
Trigger(p, t) ==
    /\ ~down /\ pending[p] = "past" /\ p \notin inFlight
    /\ task[t] = FreeTask
    /\ inFlight' = inFlight \cup {p}
    /\ pending' = [pending EXCEPT ![p] = "none"]
    /\ cancels' = [cancels EXCEPT ![p] = t]
    /\ task' = [task EXCEPT ![t] =
           [state |-> "claimed", project |-> p, cancelled |-> FALSE]]
    /\ UNCHANGED <<saved, request, events, watchers, channel, overflow, down,
                   changes, requests, owed>>

\* The shutdown token: the actor leaves its loop, running updates go on.
Shutdown ==
    /\ ~down
    /\ down' = TRUE
    /\ UNCHANGED <<saved, request, events, channel, overflow, inFlight, task,
                   watchers, pending, cancels, changes, requests, owed>>

-----------------------------------------------------------------------------
(* The update tasks.                                                       *)

\* The task reads active_generation and calls update_project_impl, which
\* reads the files; a failed read is logged and ends the task.
StartUpdate(t) ==
    /\ task[t].state = "claimed"
    /\ \E next \in {"running", "ending"} :
          task' = [task EXCEPT ![t].state = next]
    /\ owed' = owed \ {task[t].project}
    /\ UNCHANGED <<saved, request, events, channel, overflow, inFlight, actor,
                   changes, requests>>

\* update_project_impl returns: published, failed or cancelled.
FinishUpdate(t) ==
    /\ task[t].state = "running"
    /\ task' = [task EXCEPT ![t].state = "ending"]
    /\ UNCHANGED <<saved, request, events, channel, overflow, inFlight, actor,
                   changes, requests, owed>>

\* The task is over; the token in update_cancels no longer cancels anything.
Over(t) ==
    cancels' = [p \in Projects |-> IF cancels[p] = t THEN NoTask ELSE cancels[p]]

\* InFlightGuard::drop with the lock free.
ReleaseSlot(t) ==
    /\ task[t].state = "ending"
    /\ inFlight' = inFlight \ {task[t].project}
    /\ task' = [task EXCEPT ![t] = FreeTask]
    /\ Over(t)
    /\ UNCHANGED <<saved, request, events, watchers, channel, overflow, pending,
                   down, changes, requests, owed>>

\* InFlightGuard::drop with the lock contended: a spawned task will remove it.
DeferRelease(t) ==
    /\ task[t].state = "ending"
    /\ task' = [task EXCEPT ![t].state = "deferred"]
    /\ Over(t)
    /\ UNCHANGED <<saved, request, events, watchers, channel, overflow, pending,
                   inFlight, down, changes, requests, owed>>

RemoveMarker(t) ==
    /\ task[t].state = "deferred"
    /\ inFlight' = inFlight \ {task[t].project}
    /\ task' = [task EXCEPT ![t] = FreeTask]
    /\ UNCHANGED <<saved, request, events, channel, overflow, actor, changes,
                   requests, owed>>

-----------------------------------------------------------------------------
ReceiveEvent == EnableWatch \/ DisableWatch
TriggerStep(p) == Reschedule(p) \/ \E t \in Tasks : Trigger(p, t)
TaskStep(t) ==
    StartUpdate(t) \/ FinishUpdate(t) \/ ReleaseSlot(t) \/ DeferRelease(t)
    \/ RemoveMarker(t)

Next ==
    \/ \E r \in Requests :
          \/ SendWatchUpdate(r)
          \/ \E p \in Projects, enabled \in BOOLEAN : SaveWatch(r, p, enabled)
    \/ \E p \in Projects : FileChanges(p) \/ DeadlinePasses(p) \/ TriggerStep(p)
    \/ ReceiveEvent \/ ReceiveNotify \/ DrainOverflow \/ Shutdown
    \/ \E t \in Tasks : TaskStep(t)

\* select! serves every branch, time passes and update_project_impl returns.
\* No change, request or shutdown is promised.
Fairness ==
    /\ WF_vars(ReceiveEvent) /\ WF_vars(ReceiveNotify)
    /\ WF_vars(DrainOverflow)
    /\ \A p \in Projects :
          WF_vars(DeadlinePasses(p)) /\ WF_vars(TriggerStep(p))
    /\ \A t \in Tasks : WF_vars(TaskStep(t))

Spec == Init /\ [][Next]_vars
FairSpec == Spec /\ Fairness

-----------------------------------------------------------------------------
(* Properties.                                                             *)

Live == {t \in Tasks : task[t].state \in {"claimed", "running"}}

\* A project has at most one update of the watcher at a time, a guard whose
\* marker is removed late included.  And unwatching "removes queued work and
\* requests cooperative cancellation of a running watcher update": a project
\* without a watcher has nothing armed, and an update of it that still runs
\* has been told to stop.
UpdatesAreOwned ==
    /\ \A s, t \in Live : task[s].project = task[t].project => s = t
    /\ \A p \in Projects \ watchers :
          /\ pending[p] = "none"
          /\ \A t \in Live : task[t].project = p => task[t].cancelled

\* Every change of a watched project is followed by an update that starts
\* after it, unless watching is switched off or the actor shuts down: no
\* change is lost to saturation, debouncing or an update in flight.
ChangesAreUpdated ==
    \A p \in Projects : (p \in owed) ~> (p \notin owed \/ down)
=============================================================================
