---------------------------- MODULE Coordinator ----------------------------
(***************************************************************************)
(* hybrid/mutation.rs: the coordinator that keeps vector recovery and      *)
(* index mutations apart, with the guards of hybrid.rs that hold its       *)
(* permits and the publication marker of hybrid/vector_epochs.rs.          *)
(*                                                                         *)
(* A flow is one admitted mutation (an update, a repair, a purge).  Its    *)
(* IndexMutationGuard shares one MutationPermit with the operation guards  *)
(* it hands to detached workers (native writes, publications), so the      *)
(* permit outlives a cancelled request.  Every method takes the state      *)
(* mutex once, so it is one action; an operation guard releases its        *)
(* operation permit and its share of the admission in two.                 *)
(***************************************************************************)
EXTENDS Integers, FiniteSets

CONSTANTS
    Flows,           \* mutation flows of one index root
    Operations,      \* operation guards that can be live at once
    Recoveries,      \* vector recoveries and collections
    Projects,        \* projects that share the index root
    NoFlow,          \* an operation begun without an admission
    NoProject,       \* no vector publication is pending
    MaxCount,        \* stands for usize::MAX
    MaxReservation   \* stands for u64::MAX

ASSUME CoordinatorAssumption ==
    /\ IsFiniteSet(Flows) /\ IsFiniteSet(Operations)
    /\ NoFlow \notin Flows \cup Operations
    /\ NoProject \notin Projects
    /\ MaxCount \in Nat
    /\ MaxReservation \in Nat

VARIABLES
    phase,            \* Phase: "Ready", "Exclusive" or "Uncertain"
    exclusive,        \* the reservation number of Phase::Exclusive
    mutations,        \* State::mutations
    pending,          \* State::pending_operations
    nextReservation,  \* State::next_reservation
    faulted,          \* State::faulted
    publication,      \* Routes::publication: project with a possible route
    request,          \* flows whose request still holds its mutation guard
    operation,        \* per operation guard: [state, flow]
    recovery,         \* per recovery: [live, reservation, possible, project]
    panicked          \* history: a guard was dropped by a panicking thread

state  == <<phase, exclusive, mutations, pending, nextReservation, faulted>>
guards == <<request, operation>>
vars   == <<state, publication, guards, recovery, panicked>>

FreeOperation == [state |-> "free", flow |-> NoFlow]
NoRecovery ==
    [live |-> FALSE, reservation |-> 0, possible |-> FALSE,
     project |-> NoProject]

\* The operation permits in existence.
Running == {o \in Operations : operation[o].state = "running"}

\* The guards that share flow f's mutation permit.
Sharing(f) == {o \in Operations : operation[o].flow = f}

\* The mutation permits in existence: Arc keeps one until its last share goes.
Admitted == {f \in Flows : f \in request \/ Sharing(f) # {}}

\* The recovery permits in existence.
Recovering == {r \in Recoveries : recovery[r].live}

-----------------------------------------------------------------------------
Init ==
    /\ phase = "Ready"
    /\ exclusive = 0
    /\ mutations = 0
    /\ pending = 0
    /\ nextReservation = 0
    /\ faulted = FALSE
    /\ publication = NoProject
    /\ request = {}
    /\ operation = [o \in Operations |-> FreeOperation]
    /\ recovery = [r \in Recoveries |-> NoRecovery]
    /\ panicked = FALSE

-----------------------------------------------------------------------------
(* Admission.                                                              *)

\* checked_state and the guard of try_mutation and try_operation.
MayAdmit == ~faulted /\ phase = "Ready" /\ pending = 0

\* validate_mutation and the guard of operation_within.
MayContinue == ~faulted /\ phase = "Ready" /\ mutations # 0

\* try_mutation, through begin_mutation.
TryMutation(f) ==
    /\ f \notin Admitted
    /\ MayAdmit
    /\ mutations < MaxCount
    /\ mutations' = mutations + 1
    /\ request' = request \cup {f}
    /\ UNCHANGED <<phase, exclusive, pending, nextReservation, faulted,
                   publication, operation, recovery, panicked>>

\* Mutant: an operation is counted once.
ReserveOperationCountedOnce(o, f) ==
    /\ operation[o].state = "free"
    /\ pending < MaxCount
    /\ pending' = pending + 1
    /\ operation' = [operation EXCEPT ![o] = [state |-> "running", flow |-> f]]
    /\ UNCHANGED <<phase, exclusive, mutations, nextReservation, faulted,
                   publication, request, recovery, panicked>>

\* reserve_operation: both counters, in one critical section.
ReserveOperation(o, f) ==
    /\ operation[o].state = "free"
    /\ pending < MaxCount
    /\ mutations < MaxCount
    /\ pending' = pending + 1
    /\ mutations' = mutations + 1
    /\ operation' = [operation EXCEPT ![o] = [state |-> "running", flow |-> f]]
    /\ UNCHANGED <<phase, exclusive, nextReservation, faulted, publication,
                   request, recovery, panicked>>

\* begin_operation on an engine without an admission: try_operation.
TryOperation(o) == MayAdmit /\ ReserveOperation(o, NoFlow)

\* begin_operation inside an admitted flow: operation_within.
OperationWithin(o, f) == f \in request /\ MayContinue /\ ReserveOperation(o, f)

-----------------------------------------------------------------------------
(* Release.                                                                *)

\* Does releasing the share of o (or of the request, o = NoFlow) drop f's
\* mutation permit?
LosesLastShare(f, o) ==
    /\ f \in Flows
    /\ (f \in request => o \notin Operations)
    /\ Sharing(f) \subseteq {o}

\* Drop of MutationPermit when `last` holds; `panicking` is
\* std::thread::panicking() in the guard's own drop.
ReleaseMutation(last, panicking) ==
    /\ faulted' = (\/ faulted \/ panicking
                   \/ last /\ (phase # "Ready" \/ mutations = 0))
    /\ mutations' = IF last /\ mutations # 0 THEN mutations - 1 ELSE mutations
    /\ panicked' = (panicked \/ panicking)

\* The request ends or is cancelled: its IndexMutationGuard is dropped.
DropRequest(f, panicking) ==
    /\ f \in request
    /\ request' = request \ {f}
    /\ ReleaseMutation(LosesLastShare(f, NoFlow), panicking)
    /\ UNCHANGED <<phase, exclusive, pending, nextReservation, publication,
                   operation, recovery>>

\* A detached worker ends: the first field of its IndexOperationGuard goes.
DropOperation(o, panicking) ==
    /\ operation[o].state = "running"
    /\ operation' = [operation EXCEPT ![o].state =
                        IF operation[o].flow = NoFlow THEN "free" ELSE "released"]
    /\ faulted' = (\/ faulted \/ panicking
                   \/ phase # "Ready" \/ pending = 0 \/ mutations = 0)
    /\ pending' = IF pending > 0 THEN pending - 1 ELSE pending
    /\ mutations' = IF mutations > 0 THEN mutations - 1 ELSE mutations
    /\ panicked' = (panicked \/ panicking)
    /\ UNCHANGED <<phase, exclusive, nextReservation, publication, request,
                   recovery>>

\* ... and then its share of the flow's admission.
DropShare(o) ==
    /\ operation[o].state = "released"
    /\ operation' = [operation EXCEPT ![o] = FreeOperation]
    /\ ReleaseMutation(LosesLastShare(operation[o].flow, o), FALSE)
    /\ UNCHANGED <<phase, exclusive, pending, nextReservation, publication,
                   request, recovery>>

-----------------------------------------------------------------------------
(* Exclusive recovery.                                                     *)

\* Mutant: only operations, not idle admitted flows, exclude a recovery.
IdleUnlessOperating == ~faulted /\ pending = 0

Idle == ~faulted /\ mutations = 0 /\ pending = 0

\* reserve_recovery: a fresh reservation number and the exclusive phase.
ReserveRecovery(r, p, resume) ==
    /\ ~recovery[r].live
    /\ Idle
    /\ nextReservation < MaxReservation
    /\ nextReservation' = nextReservation + 1
    /\ phase' = "Exclusive"
    /\ exclusive' = nextReservation + 1
    /\ recovery' = [recovery EXCEPT ![r] =
           [live |-> TRUE, reservation |-> nextReservation + 1,
            possible |-> resume, project |-> p]]
    /\ UNCHANGED <<mutations, pending, faulted, publication, guards, panicked>>

\* try_recovery: vector recovery, initialization or collection.
TryRecovery(r, p) == phase = "Ready" /\ ReserveRecovery(r, p, FALSE)

\* Routes::reserve_recovery: only the project whose publication is uncertain.
MayResume(p) == publication = p

\* try_resume_uncertain.
TryResumeUncertain(r, p) ==
    phase = "Uncertain" /\ MayResume(p) /\ ReserveRecovery(r, p, TRUE)

\* The ownership check of RecoveryPermit's methods.
Owns(r) ==
    /\ phase = "Exclusive"
    /\ exclusive = recovery[r].reservation
    /\ mutations = 0

\* Routes::mark_publication: before a route can become durable.
MarkPublication(r) ==
    /\ recovery[r].live
    /\ publication \in {NoProject, recovery[r].project}
    /\ ~faulted
    /\ IF Owns(r)
         THEN /\ recovery' = [recovery EXCEPT ![r].possible = TRUE]
              /\ publication' = recovery[r].project
              /\ UNCHANGED faulted
         ELSE faulted' = TRUE /\ UNCHANGED <<recovery, publication>>
    /\ UNCHANGED <<phase, exclusive, mutations, pending, nextReservation,
                   guards, panicked>>

\* Routes::finish_activation, and the bare RecoveryPermit::finish_activation of
\* collect_retired_vectors when no publication was marked.
FinishActivation(r) ==
    /\ recovery[r].live
    /\ ~faulted
    /\ recovery' = [recovery EXCEPT ![r] = NoRecovery]
    /\ IF Owns(r)
         THEN /\ phase' = "Ready"
              /\ exclusive' = 0
              /\ publication' = NoProject
              /\ UNCHANGED faulted
         ELSE faulted' = TRUE /\ UNCHANGED <<phase, exclusive, publication>>
    /\ UNCHANGED <<mutations, pending, nextReservation, guards, panicked>>

\* Mutant: an abandoned recovery always reopens the index.
PhaseAfterDropReady(r) == "Ready"

\* Where an abandoned recovery leaves the coordinator.
PhaseAfterDrop(r) == IF recovery[r].possible THEN "Uncertain" ELSE "Ready"

\* Drop of a live RecoveryPermit: the recovery failed or was cancelled.
DropRecovery(r) ==
    /\ recovery[r].live
    /\ recovery' = [recovery EXCEPT ![r] = NoRecovery]
    /\ IF Owns(r)
         THEN phase' = PhaseAfterDrop(r) /\ exclusive' = 0 /\ UNCHANGED faulted
         ELSE faulted' = TRUE /\ UNCHANGED <<phase, exclusive>>
    /\ UNCHANGED <<mutations, pending, nextReservation, publication, guards,
                   panicked>>

\* The process is replaced: nothing of the coordinator is durable.
Restart ==
    /\ phase' = "Ready" /\ exclusive' = 0 /\ mutations' = 0 /\ pending' = 0
    /\ nextReservation' = 0 /\ faulted' = FALSE /\ publication' = NoProject
    /\ request' = {}
    /\ operation' = [o \in Operations |-> FreeOperation]
    /\ recovery' = [r \in Recoveries |-> NoRecovery]
    /\ panicked' = FALSE

Next ==
    \/ \E f \in Flows :
        \/ TryMutation(f)
        \/ \E b \in BOOLEAN : DropRequest(f, b)
        \/ \E o \in Operations : OperationWithin(o, f)
    \/ \E o \in Operations :
        \/ TryOperation(o)
        \/ \E b \in BOOLEAN : DropOperation(o, b)
        \/ DropShare(o)
    \/ \E r \in Recoveries :
        \/ \E p \in Projects : TryRecovery(r, p) \/ TryResumeUncertain(r, p)
        \/ MarkPublication(r)
        \/ FinishActivation(r)
        \/ DropRecovery(r)
    \/ Restart

Spec == Init /\ [][Next]_vars

-----------------------------------------------------------------------------
(* Properties.                                                             *)

\* Types; the counters never pass usize::MAX.
TypeOK ==
    /\ phase \in {"Ready", "Exclusive", "Uncertain"}
    /\ exclusive \in Nat
    /\ mutations \in 0 .. MaxCount
    /\ pending \in 0 .. MaxCount
    /\ nextReservation \in 0 .. MaxReservation
    /\ faulted \in BOOLEAN
    /\ publication \in Projects \cup {NoProject}
    /\ request \subseteq Flows
    /\ operation \in [Operations ->
           [state : {"free", "running", "released"}, flow : Flows \cup {NoFlow}]]
    /\ recovery \in [Recoveries ->
           [live : BOOLEAN, reservation : Nat, possible : BOOLEAN,
            project : Projects \cup {NoProject}]]
    /\ panicked \in BOOLEAN

\* The counters count the permits that exist, through cancellation, detached
\* workers and the two-step release of an operation guard.
CountsPermits ==
    /\ pending = Cardinality(Running)
    /\ mutations = Cardinality(Running) + Cardinality(Admitted)

\* A recovery never runs beside a mutation, a detached operation or another
\* recovery.
RecoveryIsExclusive ==
    \A r \in Recovering :
        /\ Running = {} /\ Admitted = {}
        /\ Recovering = {r}

\* None of the checks in the permits' destructors and in RecoveryPermit's
\* methods can fire on its own, in whatever order requests, detached workers
\* and recoveries drop their permits: the coordinator only faults, and refuses
\* all work until the process is replaced, after a panic.
FaultOnlyAfterPanic == faulted => panicked

\* When a publication was left uncertain, the project that may resume it is
\* known (no one else can reopen the index root); an open root has none.
UncertainIsResumable ==
    /\ phase = "Uncertain" => publication \in Projects
    /\ phase = "Ready" => publication = NoProject

\* Work admitted before a cancellation is not overtaken: no new flow starts
\* while an operation of another is still running.
NoOvertaking ==
    [][Running # {} => Admitted' \subseteq Admitted]_vars
=============================================================================
