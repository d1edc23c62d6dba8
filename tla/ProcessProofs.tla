---------------------------- MODULE ProcessProofs ----------------------------
(***************************************************************************)
(* Proofs about what the requests of one process share, for any number of  *)
(* them: the mutation coordinator, the cache of project runtimes with its  *)
(* locks, and the memory budget.                                           *)
(*                                                                         *)
(* The coordinator.  RecoveryIsExclusive is not inductive: that a recovery *)
(* starts only beside no permit follows from the counters, which therefore *)
(* must count the permits exactly (CountsPermits), and that the counters   *)
(* of a live recovery stay zero follows from the phase (Phases).           *)
(*                                                                         *)
(* The runtimes.  The runtime lock is held from the second look at the     *)
(* cache to the insertion, so nothing but an actor's loader can put an     *)
(* engine there in between.  The update lock is one mutex for as long as   *)
(* nobody deletes the project: a deletion forgets the mutex and only then  *)
(* the record, so RuntimeInv speaks of the projects that are registered    *)
(* and not being deleted.  The order of the cache and the candidates for   *)
(* eviction are left untyped: whatever is evicted, neither property        *)
(* depends on it.                                                          *)
(*                                                                         *)
(* The memory budget.  The usage and the counters are sums over the        *)
(* threads; a step of one thread changes a sum by what that thread         *)
(* contributes before and after.  The limit a thread has read is at most   *)
(* the largest budget so far, which bounds what it is granted, so neither  *)
(* additions nor subtractions leave a word.                                *)
(***************************************************************************)
EXTENDS Coordinator, ProjectRuntime, MemoryBudget, FiniteSetTheorems, TLAPS

-----------------------------------------------------------------------------
(* The coordinator: the inductive invariant.                               *)

\* What the phase says of the permits alive.
Phases ==
    /\ phase = "Exclusive" => Recovering # {}
    /\ phase # "Ready" => mutations = 0
    /\ \A r \in Recovering :
        /\ phase = "Exclusive"
        /\ exclusive = recovery[r].reservation
        /\ recovery[r].project \in Projects
        /\ publication \in {NoProject, recovery[r].project}
        /\ recovery[r].possible <=> publication = recovery[r].project
    /\ \A r, s \in Recovering : r = s

\* A guard has a flow exactly when it shares an admission.
Shares ==
    \A o \in Operations :
        /\ operation[o].state = "free" => operation[o].flow = NoFlow
        /\ operation[o].state = "released" => operation[o].flow \in Flows

IInv ==
    /\ TypeOK
    /\ CountsPermits
    /\ Phases
    /\ Shares
    /\ FaultOnlyAfterPanic
    /\ UncertainIsResumable

-----------------------------------------------------------------------------
\* Cardinalities of the two permit sets, which are finite.
LEMMA PermitsFinite ==
    /\ IsFiniteSet(Running) /\ Cardinality(Running) \in Nat
    /\ IsFiniteSet(Admitted) /\ Cardinality(Admitted) \in Nat
<1>1. Running \subseteq Operations /\ Admitted \subseteq Flows
    BY DEF Running, Admitted
<1> QED
    BY <1>1, FS_Subset, FS_CardinalityType, CoordinatorAssumption

\* The counters are zero exactly when there is no permit to count.
LEMMA CountersZero ==
    ASSUME CountsPermits
    PROVE  /\ mutations = 0 => Running = {} /\ Admitted = {}
           /\ Running # {} => pending > 0 /\ mutations > 0
           /\ Admitted # {} => mutations > 0
<1>1. (Cardinality(Running) = 0 <=> Running = {})
      /\ (Cardinality(Admitted) = 0 <=> Admitted = {})
    BY PermitsFinite, FS_EmptySet
<1> QED
    BY <1>1, PermitsFinite DEF CountsPermits

\* The two record types of TypeOK.
OperationType ==
    [state : {"free", "running", "released"}, flow : Flows \cup {NoFlow}]
RecoveryType ==
    [live : BOOLEAN, reservation : Nat, possible : BOOLEAN,
     project : Projects \cup {NoProject}]

\* The idle guards are guards.
LEMMA IdleGuards == FreeOperation \in OperationType /\ NoRecovery \in RecoveryType
<1>1. FreeOperation \in OperationType
    BY DEF FreeOperation, OperationType
<1>2. NoRecovery \in RecoveryType
    BY Zenon, 0 \in Nat DEF NoRecovery, RecoveryType
<1> QED
    BY <1>1, <1>2

\* The initial state satisfies the invariant; so does the state of Restart.
LEMMA InitIInv == Init => IInv
<1> SUFFICES ASSUME Init PROVE IInv
    OBVIOUS
<1>1. Running = {} /\ Admitted = {} /\ Recovering = {}
    BY CoordinatorAssumption DEF Init, Running, Admitted, Sharing, Recovering,
                                 FreeOperation, NoRecovery
<1>2. TypeOK
  <2>1. /\ phase \in {"Ready", "Exclusive", "Uncertain"}
        /\ exclusive \in Nat
        /\ mutations \in 0 .. MaxCount
        /\ pending \in 0 .. MaxCount
        /\ nextReservation \in 0 .. MaxReservation
        /\ publication \in Projects \cup {NoProject}
        /\ request \subseteq Flows
    BY CoordinatorAssumption DEF Init
  <2>2. operation \in [Operations -> OperationType]
        /\ recovery \in [Recoveries -> RecoveryType]
    BY IdleGuards DEF Init
  <2>3. faulted \in BOOLEAN /\ panicked \in BOOLEAN
    BY DEF Init
  <2> QED
    BY <2>1, <2>2, <2>3 DEF TypeOK, OperationType, RecoveryType
<1>3. CountsPermits
    BY <1>1, FS_EmptySet DEF CountsPermits, Init
<1>4. Phases /\ FaultOnlyAfterPanic /\ UncertainIsResumable
    BY <1>1 DEF Init, Phases, FaultOnlyAfterPanic, UncertainIsResumable
<1>5. Shares
    BY DEF Init, Shares, FreeOperation
<1> QED
    BY <1>2, <1>3, <1>4, <1>5 DEF IInv

-----------------------------------------------------------------------------
(* One lemma per action.                                                   *)

\* While a permit is held the phase is Ready, so no recovery is live.
LEMMA HeldMeansReady ==
    ASSUME IInv, mutations # 0
    PROVE  phase = "Ready" /\ Recovering = {}
BY DEF IInv, Phases

\* try_mutation adds one flow and counts it.
LEMMA TryMutationIInv ==
    ASSUME IInv, NEW f \in Flows, TryMutation(f)
    PROVE  IInv'
<1>1. Running' = Running /\ Recovering' = Recovering
    BY DEF TryMutation, Running, Recovering
<1>2. Admitted' = Admitted \cup {f} /\ f \notin Admitted
    BY DEF TryMutation, Admitted, Sharing
<1>3. TypeOK'
  <2>1. mutations' \in 0 .. MaxCount
    BY CoordinatorAssumption DEF TryMutation, IInv, TypeOK
  <2> QED
    BY <2>1 DEF TryMutation, IInv, TypeOK
<1>4. CountsPermits'
  <2>1. Cardinality(Admitted') = Cardinality(Admitted) + 1
    BY <1>2, PermitsFinite, FS_AddElement
  <2> QED
    BY <1>1, <2>1, PermitsFinite DEF CountsPermits, TryMutation, IInv
<1>5. Phases'
    BY <1>1 DEF TryMutation, MayAdmit, IInv, Phases
<1>6. Shares' /\ FaultOnlyAfterPanic' /\ UncertainIsResumable'
    BY DEF TryMutation, IInv, Shares, FaultOnlyAfterPanic, UncertainIsResumable
<1> QED
    BY <1>3, <1>4, <1>5, <1>6 DEF IInv

\* reserve_operation adds one operation permit and no admission: it is begun
\* inside an admitted flow or outside of all flows.
LEMMA ReserveOperationIInv ==
    ASSUME IInv, NEW o \in Operations, NEW f \in request \cup {NoFlow},
           phase = "Ready", ReserveOperation(o, f)
    PROVE  IInv'
<1>1. Recovering' = Recovering
    BY DEF ReserveOperation, Recovering
<1>2. operation[o].state = "free" /\ operation[o].flow = NoFlow
    BY DEF ReserveOperation, IInv, Shares
<1>3. /\ operation'[o].state = "running" /\ operation'[o].flow = f
      /\ \A x \in Operations : x # o => operation'[x] = operation[x]
    BY DEF ReserveOperation, IInv, TypeOK
<1>4. Running' = Running \cup {o} /\ o \notin Running
    BY <1>2, <1>3 DEF Running
<1>5. Admitted' = Admitted
    BY <1>2, <1>3, CoordinatorAssumption DEF ReserveOperation, Admitted, Sharing
<1>6. TypeOK'
  <2>1. mutations' \in 0 .. MaxCount /\ pending' \in 0 .. MaxCount
    BY CoordinatorAssumption DEF ReserveOperation, IInv, TypeOK
  <2>2. [state |-> "running", flow |-> f] \in OperationType
    BY DEF OperationType, IInv, TypeOK
  <2>3. operation' \in [Operations -> OperationType]
    BY <2>2 DEF ReserveOperation, IInv, TypeOK, OperationType
  <2> QED
    BY <2>1, <2>3 DEF ReserveOperation, IInv, TypeOK, OperationType
<1>7. CountsPermits'
  <2>1. Cardinality(Running') = Cardinality(Running) + 1
    BY <1>4, PermitsFinite, FS_AddElement
  <2> QED
    BY <1>5, <2>1, PermitsFinite DEF CountsPermits, ReserveOperation, IInv
<1>8. Phases'
    BY <1>1 DEF ReserveOperation, IInv, Phases
<1>9. Shares'
    BY <1>3 DEF IInv, Shares
<1>10. FaultOnlyAfterPanic' /\ UncertainIsResumable'
    BY DEF ReserveOperation, IInv, FaultOnlyAfterPanic, UncertainIsResumable
<1> QED
    BY <1>6, <1>7, <1>8, <1>9, <1>10 DEF IInv

\* A released mutation permit was counted, so its destructor finds the phase
\* Ready and the counter above zero; Admitted shrinks exactly when it is the
\* last share.
LEMMA ReleaseMutationIInv ==
    ASSUME IInv, NEW f \in Admitted, NEW last \in BOOLEAN,
           NEW panicking \in BOOLEAN,
           ReleaseMutation(last, panicking),
           Admitted' = (IF last THEN Admitted \ {f} ELSE Admitted),
           Running' = Running,
           UNCHANGED <<phase, exclusive, pending, nextReservation, publication,
                       recovery>>,
           request' \subseteq Flows,
           operation' \in [Operations -> OperationType],
           Shares'
    PROVE  IInv'
<1>1. mutations \in 1 .. MaxCount
    BY CountersZero, CoordinatorAssumption DEF IInv, TypeOK
<1>2. phase = "Ready" /\ Recovering = {} /\ Recovering' = {}
    BY <1>1, HeldMeansReady DEF Recovering
<1>3. mutations' = IF last THEN mutations - 1 ELSE mutations
    BY <1>1 DEF ReleaseMutation
<1>4. faulted' = (faulted \/ panicking) /\ panicked' = (panicked \/ panicking)
  <2>1. ~(last /\ (phase # "Ready" \/ mutations = 0))
    BY <1>1, <1>2
  <2>2. faulted' = (\/ faulted \/ panicking
                    \/ last /\ (phase # "Ready" \/ mutations = 0))
    BY Zenon DEF ReleaseMutation
  <2>3. (\/ faulted \/ panicking
         \/ last /\ (phase # "Ready" \/ mutations = 0)) = (faulted \/ panicking)
    BY <2>1
  <2>4. panicked' = (panicked \/ panicking)
    BY Zenon DEF ReleaseMutation
  <2> QED
    BY <2>2, <2>3, <2>4, Zenon
<1>5. TypeOK'
  <2>1. mutations' \in 0 .. MaxCount
    BY <1>1, <1>3, CoordinatorAssumption
  <2>2. faulted' \in BOOLEAN /\ panicked' \in BOOLEAN
    BY <1>4
  <2> QED
    BY <2>1, <2>2 DEF IInv, TypeOK, OperationType
<1>6. CountsPermits'
  <2>1. Cardinality(Admitted')
            = IF last THEN Cardinality(Admitted) - 1 ELSE Cardinality(Admitted)
    BY PermitsFinite, FS_RemoveElement
  <2> QED
    BY <1>3, <2>1, PermitsFinite DEF CountsPermits, IInv
<1>7. Phases'
    BY <1>2 DEF Phases
<1>8. FaultOnlyAfterPanic'
    BY <1>4 DEF IInv, FaultOnlyAfterPanic
<1>9. UncertainIsResumable'
    BY <1>2 DEF IInv, UncertainIsResumable
<1> QED
    BY <1>5, <1>6, <1>7, <1>8, <1>9 DEF IInv

\* A request's guard is dropped.
LEMMA DropRequestIInv ==
    ASSUME IInv, NEW f \in Flows, NEW panicking \in BOOLEAN,
           DropRequest(f, panicking)
    PROVE  IInv'
<1> DEFINE last == LosesLastShare(f, NoFlow)
<1>1. f \in Admitted /\ last \in BOOLEAN /\ (last <=> Sharing(f) = {})
    BY CoordinatorAssumption DEF DropRequest, Admitted, LosesLastShare, Sharing
<1>2. Running' = Running
    BY DEF DropRequest, Running
<1>3. \A x \in Flows : Sharing(x)' = Sharing(x)
    BY DEF DropRequest, Sharing
<1>4. Admitted' = IF last THEN Admitted \ {f} ELSE Admitted
  <2>1. request' = request \ {f}
    BY DEF DropRequest
  <2> QED
    BY <1>1, <1>3, <2>1 DEF Admitted
<1>5. Shares' /\ request' \subseteq Flows
      /\ operation' \in [Operations -> OperationType]
    BY DEF DropRequest, IInv, Shares, TypeOK, OperationType
<1>6. /\ ReleaseMutation(last, panicking)
      /\ UNCHANGED <<phase, exclusive, pending, nextReservation, publication,
                     recovery>>
    BY DEF DropRequest
<1> HIDE DEF last
<1> QED
    BY <1>1, <1>2, <1>4, <1>5, <1>6, ReleaseMutationIInv

\* A worker's share of the admission is dropped.
LEMMA DropShareIInv ==
    ASSUME IInv, NEW o \in Operations, DropShare(o)
    PROVE  IInv'
<1> DEFINE f == operation[o].flow
           last == LosesLastShare(f, o)
<1>1. f \in Flows /\ f # NoFlow
    BY CoordinatorAssumption DEF DropShare, IInv, Shares
<1>2. /\ f \in Admitted /\ last \in BOOLEAN
      /\ last <=> (f \notin request /\ Sharing(f) \subseteq {o})
    BY <1>1 DEF Admitted, LosesLastShare, Sharing
<1>3. /\ operation' = [operation EXCEPT ![o] = FreeOperation]
      /\ operation'[o].state = "free" /\ operation'[o].flow = NoFlow
      /\ \A x \in Operations : x # o => operation'[x] = operation[x]
      /\ request' = request
    BY DEF DropShare, FreeOperation, IInv, TypeOK
<1>4. Running' = Running
    BY <1>3 DEF DropShare, Running
<1>5. \A x \in Flows : Sharing(x)' = IF x = f THEN Sharing(x) \ {o} ELSE Sharing(x)
    BY <1>1, <1>3, CoordinatorAssumption DEF Sharing
<1>6. Admitted' = IF last THEN Admitted \ {f} ELSE Admitted
    BY <1>1, <1>2, <1>3, <1>5 DEF Admitted
<1>7. Shares' /\ request' \subseteq Flows
      /\ operation' \in [Operations -> OperationType]
  <2>1. operation' \in [Operations -> OperationType]
    BY <1>3, IdleGuards DEF IInv, TypeOK, OperationType
  <2> QED
    BY <1>3, <2>1 DEF IInv, Shares, TypeOK
<1>8. /\ ReleaseMutation(last, FALSE)
      /\ UNCHANGED <<phase, exclusive, pending, nextReservation, publication,
                     recovery>>
    BY DEF DropShare
<1> HIDE DEF last, f
<1> QED
    BY <1>2, <1>4, <1>6, <1>7, <1>8, ReleaseMutationIInv

\* A worker's operation permit is dropped: its admission is still shared.
LEMMA DropOperationIInv ==
    ASSUME IInv, NEW o \in Operations, NEW panicking \in BOOLEAN,
           DropOperation(o, panicking)
    PROVE  IInv'
<1>1. o \in Running
    BY DEF DropOperation, Running
<1>2. pending \in 1 .. MaxCount /\ mutations \in 1 .. MaxCount
    BY <1>1, CountersZero, CoordinatorAssumption DEF IInv, TypeOK
<1>3. phase = "Ready" /\ phase' = phase /\ Recovering = {} /\ Recovering' = {}
    BY <1>2, HeldMeansReady DEF DropOperation, Recovering
<1>4. pending' = pending - 1 /\ mutations' = mutations - 1
    BY <1>2 DEF DropOperation
<1>5. faulted' = (faulted \/ panicking) /\ panicked' = (panicked \/ panicking)
  <2>1. ~(phase # "Ready" \/ pending = 0 \/ mutations = 0)
    BY <1>2, <1>3
  <2>2. faulted' = (\/ faulted \/ panicking
                    \/ phase # "Ready" \/ pending = 0 \/ mutations = 0)
    BY Zenon DEF DropOperation
  <2>3. (\/ faulted \/ panicking
         \/ phase # "Ready" \/ pending = 0 \/ mutations = 0)
            = (faulted \/ panicking)
    BY <2>1
  <2>4. panicked' = (panicked \/ panicking)
    BY Zenon DEF DropOperation
  <2> QED
    BY <2>2, <2>3, <2>4, Zenon
<1>6. /\ operation'[o].state =
             IF operation[o].flow = NoFlow THEN "free" ELSE "released"
      /\ operation'[o].flow = operation[o].flow
      /\ \A x \in Operations : x # o => operation'[x] = operation[x]
      /\ operation' \in [Operations -> OperationType]
    BY DEF DropOperation, IInv, TypeOK, OperationType
<1>7. Running' = Running \ {o}
    BY <1>6 DEF Running
<1>8. Admitted' = Admitted
    BY <1>6 DEF DropOperation, Admitted, Sharing
<1>9. TypeOK'
  <2>1. mutations' \in 0 .. MaxCount /\ pending' \in 0 .. MaxCount
    BY <1>2, <1>4, CoordinatorAssumption
  <2>2. faulted' \in BOOLEAN /\ panicked' \in BOOLEAN
    BY <1>5
  <2> QED
    BY <1>6, <2>1, <2>2 DEF DropOperation, IInv, TypeOK, OperationType
<1>10. CountsPermits'
  <2>1. Cardinality(Running') = Cardinality(Running) - 1
    BY <1>1, <1>7, PermitsFinite, FS_RemoveElement
  <2> QED
    BY <1>4, <1>8, <2>1, PermitsFinite DEF CountsPermits, IInv
<1>11. Phases'
    BY <1>3 DEF Phases
<1>12. Shares'
    BY <1>6 DEF IInv, Shares, TypeOK
<1>13. FaultOnlyAfterPanic'
    BY <1>5 DEF IInv, FaultOnlyAfterPanic
<1>14. UncertainIsResumable'
    BY <1>3 DEF DropOperation, IInv, UncertainIsResumable
<1> QED
    BY <1>9, <1>10, <1>11, <1>12, <1>13, <1>14 DEF IInv

-----------------------------------------------------------------------------
(* The recovery's steps hold no permit and leave the counters alone.       *)

\* Counters and permits stand still together.
LEMMA PermitsUntouched ==
    ASSUME IInv, UNCHANGED <<mutations, pending, guards>>
    PROVE  Running' = Running /\ Admitted' = Admitted
           /\ CountsPermits' /\ Shares'
<1>1. Running' = Running /\ Admitted' = Admitted
    BY DEF guards, Running, Admitted, Sharing
<1> QED
    BY <1>1 DEF IInv, CountsPermits, Shares, guards

\* A live recovery passes the ownership check: its destructor cannot fault.
LEMMA LiveOwns ==
    ASSUME IInv, NEW r \in Recoveries, recovery[r].live
    PROVE  Owns(r) /\ Recovering = {r}
BY DEF IInv, Phases, Recovering, Owns

\* reserve_recovery: nothing is admitted and no recovery is live.
LEMMA ReserveRecoveryIInv ==
    ASSUME IInv, NEW r \in Recoveries, NEW p \in Projects,
           NEW resume \in BOOLEAN,
           ReserveRecovery(r, p, resume),
           publication = (IF resume THEN p ELSE NoProject),
           phase # "Exclusive"
    PROVE  IInv'
<1> DEFINE rec == [live |-> TRUE, reservation |-> nextReservation + 1,
                   possible |-> resume, project |-> p]
<1>1. Recovering = {}
    BY DEF IInv, Phases
<1>2. rec \in RecoveryType
    BY DEF RecoveryType, IInv, TypeOK
<1>3. recovery' \in [Recoveries -> RecoveryType]
    BY <1>2 DEF ReserveRecovery, IInv, TypeOK, RecoveryType
<1>4. /\ recovery'[r] = rec
      /\ \A s \in Recoveries : s # r => recovery'[s] = recovery[s]
    BY DEF ReserveRecovery, IInv, TypeOK
<1>5. Recovering' = {r}
    BY <1>1, <1>4 DEF Recovering
<1>6. CountsPermits' /\ Shares'
    BY PermitsUntouched DEF ReserveRecovery
<1>7. TypeOK'
  <2>1. /\ nextReservation' \in 0 .. MaxReservation /\ exclusive' \in Nat
        /\ phase' \in {"Ready", "Exclusive", "Uncertain"}
    BY CoordinatorAssumption DEF ReserveRecovery, IInv, TypeOK
  <2> QED
    BY <1>3, <2>1 DEF ReserveRecovery, IInv, TypeOK, RecoveryType, guards
<1>8. Phases'
    BY <1>4, <1>5, CoordinatorAssumption DEF ReserveRecovery, Idle, Phases
<1>9. FaultOnlyAfterPanic' /\ UncertainIsResumable'
    BY DEF ReserveRecovery, IInv, FaultOnlyAfterPanic, UncertainIsResumable
<1> QED
    BY <1>6, <1>7, <1>8, <1>9 DEF IInv

\* mark_publication: the owner records that a route may be durable.
LEMMA MarkPublicationIInv ==
    ASSUME IInv, NEW r \in Recoveries, MarkPublication(r)
    PROVE  IInv'
<1>1. Owns(r) /\ Recovering = {r}
    BY LiveOwns DEF MarkPublication
<1>2. /\ recovery' = [recovery EXCEPT ![r].possible = TRUE]
      /\ publication' = recovery[r].project
      /\ faulted' = faulted
    BY <1>1 DEF MarkPublication
<1>3. recovery' \in [Recoveries -> RecoveryType]
    BY <1>2 DEF IInv, TypeOK, RecoveryType
<1>4. /\ recovery'[r].live /\ recovery'[r].possible
      /\ recovery'[r].reservation = recovery[r].reservation
      /\ recovery'[r].project = recovery[r].project
      /\ \A s \in Recoveries : s # r => recovery'[s] = recovery[s]
    BY <1>2 DEF MarkPublication, IInv, TypeOK
<1>5. Recovering' = {r}
    BY <1>1, <1>4 DEF Recovering
<1>6. recovery[r].project \in Projects
    BY <1>1 DEF IInv, Phases
<1>7. CountsPermits' /\ Shares'
    BY PermitsUntouched DEF MarkPublication
<1>8. TypeOK'
    BY <1>2, <1>3, <1>6 DEF MarkPublication, IInv, TypeOK, RecoveryType, guards
<1>9. Phases'
    BY <1>1, <1>2, <1>4, <1>5, <1>6 DEF MarkPublication, IInv, Phases, Owns
<1>10. FaultOnlyAfterPanic' /\ UncertainIsResumable'
    BY <1>1, <1>2 DEF MarkPublication, IInv, FaultOnlyAfterPanic,
                      UncertainIsResumable, Owns
<1> QED
    BY <1>7, <1>8, <1>9, <1>10 DEF IInv

\* A recovery ends, by finish_activation or by its destructor.
LEMMA EndRecoveryIInv ==
    ASSUME IInv, NEW r \in Recoveries, FinishActivation(r) \/ DropRecovery(r)
    PROVE  IInv'
<1>1. Owns(r) /\ Recovering = {r}
    BY LiveOwns DEF FinishActivation, DropRecovery
<1>2. /\ recovery' = [recovery EXCEPT ![r] = NoRecovery]
      /\ exclusive' = 0 /\ faulted' = faulted /\ panicked' = panicked
      /\ UNCHANGED <<mutations, pending, nextReservation, guards>>
    BY <1>1 DEF FinishActivation, DropRecovery
<1>3. \/ phase' = "Ready" /\ publication' = NoProject
      \/ phase' = "Uncertain" /\ publication' \in Projects
  <2>1. CASE FinishActivation(r)
    BY <1>1, <2>1 DEF FinishActivation
  <2>2. CASE DropRecovery(r)
    <3>1. phase' = PhaseAfterDrop(r) /\ publication' = publication
      BY <1>1, <2>2 DEF DropRecovery
    <3>2. /\ recovery[r].possible <=> publication = recovery[r].project
          /\ publication \in {NoProject, recovery[r].project}
          /\ recovery[r].project \in Projects
      BY <1>1 DEF IInv, Phases
    <3> QED
      BY <3>1, <3>2 DEF PhaseAfterDrop
  <2> QED
    BY <2>1, <2>2
<1>4. recovery' \in [Recoveries -> RecoveryType]
    BY <1>2, IdleGuards DEF IInv, TypeOK, RecoveryType
<1>5. ~recovery'[r].live
      /\ \A s \in Recoveries : s # r => recovery'[s] = recovery[s]
    BY <1>2 DEF NoRecovery, IInv, TypeOK
<1>6. Recovering' = {}
    BY <1>1, <1>5 DEF Recovering
<1>7. CountsPermits' /\ Shares'
    BY <1>2, PermitsUntouched
<1>8. TypeOK'
    BY <1>2, <1>3, <1>4 DEF IInv, TypeOK, RecoveryType, guards
<1>9. Phases'
    BY <1>1, <1>2, <1>3, <1>6 DEF Phases, Owns
<1>10. FaultOnlyAfterPanic' /\ UncertainIsResumable'
    BY <1>2, <1>3, CoordinatorAssumption
       DEF IInv, FaultOnlyAfterPanic, UncertainIsResumable
<1> QED
    BY <1>7, <1>8, <1>9, <1>10 DEF IInv

-----------------------------------------------------------------------------
\* A restarted process is in an initial state.
LEMMA RestartIInv == Restart => IInv'
<1>1. Restart => Init'
    BY DEF Restart, Init
<1> QED
    BY <1>1, InitIInv, PTL

\* Every step preserves the invariant.
LEMMA NextIInv == IInv /\ [Next]_vars => IInv'
<1> SUFFICES ASSUME IInv, [Next]_vars PROVE IInv'
    OBVIOUS
<1>1. ASSUME NEW f \in Flows, TryMutation(f) PROVE IInv'
    BY <1>1, TryMutationIInv
<1>2. ASSUME NEW f \in Flows, NEW b \in BOOLEAN, DropRequest(f, b) PROVE IInv'
    BY <1>2, DropRequestIInv
<1>3. ASSUME NEW f \in Flows, NEW o \in Operations, OperationWithin(o, f)
      PROVE  IInv'
    BY <1>3, ReserveOperationIInv DEF OperationWithin, MayContinue
<1>4. ASSUME NEW o \in Operations, TryOperation(o) PROVE IInv'
    BY <1>4, ReserveOperationIInv DEF TryOperation, MayAdmit
<1>5. ASSUME NEW o \in Operations, NEW b \in BOOLEAN, DropOperation(o, b)
      PROVE  IInv'
    BY <1>5, DropOperationIInv
<1>6. ASSUME NEW o \in Operations, DropShare(o) PROVE IInv'
    BY <1>6, DropShareIInv
<1>7. ASSUME NEW r \in Recoveries, NEW p \in Projects, TryRecovery(r, p)
      PROVE  IInv'
  <2>1. publication = NoProject
    BY <1>7 DEF TryRecovery, IInv, UncertainIsResumable
  <2> QED
    BY <1>7, <2>1, ReserveRecoveryIInv DEF TryRecovery
<1>8. ASSUME NEW r \in Recoveries, NEW p \in Projects, TryResumeUncertain(r, p)
      PROVE  IInv'
    BY <1>8, ReserveRecoveryIInv DEF TryResumeUncertain, MayResume
<1>9. ASSUME NEW r \in Recoveries, MarkPublication(r) PROVE IInv'
    BY <1>9, MarkPublicationIInv
<1>10. ASSUME NEW r \in Recoveries, FinishActivation(r) \/ DropRecovery(r)
       PROVE  IInv'
    BY <1>10, EndRecoveryIInv
<1>11. CASE Restart
    BY <1>11, RestartIInv
<1>12. CASE UNCHANGED vars
    BY <1>12 DEF vars, state, guards, IInv, TypeOK, CountsPermits, Phases, Shares,
                 FaultOnlyAfterPanic, UncertainIsResumable, Running, Admitted,
                 Sharing, Recovering
<1> QED
    BY <1>1, <1>2, <1>3, <1>4, <1>5, <1>6, <1>7, <1>8, <1>9, <1>10, <1>11, <1>12
       DEF Next

\* The invariant holds in every reachable state.
THEOREM Invariant == Spec => []IInv
BY InitIInv, NextIInv, PTL DEF Spec

-----------------------------------------------------------------------------
(* The properties of the coordinator.                                      *)

\* The coordinator's state keeps its types and no counter passes usize::MAX,
\* whatever the number of flows and workers.
THEOREM TypeCorrect == Spec => []TypeOK
<1>1. IInv => TypeOK
    BY DEF IInv
<1> QED
    BY <1>1, Invariant, PTL

\* The counters that gate recovery count the permits in existence exactly,
\* through cancellations, detached workers and two-step releases.
THEOREM PermitsCounted == Spec => []CountsPermits
<1>1. IInv => CountsPermits
    BY DEF IInv
<1> QED
    BY <1>1, Invariant, PTL

\* A vector recovery never runs beside a mutation, a detached operation or
\* another recovery.
THEOREM Exclusion == Spec => []RecoveryIsExclusive
<1>1. IInv => RecoveryIsExclusive
  <2> SUFFICES ASSUME IInv, NEW r \in Recovering
               PROVE  Running = {} /\ Admitted = {} /\ Recovering = {r}
    BY DEF RecoveryIsExclusive
  <2>1. mutations = 0 /\ Recovering = {r}
    BY DEF IInv, Phases
  <2> QED
    BY <2>1, CountersZero DEF IInv
<1> QED
    BY <1>1, Invariant, PTL

\* No destructor of a permit can fault the coordinator by itself.
THEOREM NoSpuriousFault == Spec => []FaultOnlyAfterPanic
<1>1. IInv => FaultOnlyAfterPanic
    BY DEF IInv
<1> QED
    BY <1>1, Invariant, PTL

\* An uncertain index root can be resumed by a known project, and an open one
\* has no publication pending.
THEOREM Resumable == Spec => []UncertainIsResumable
<1>1. IInv => UncertainIsResumable
    BY DEF IInv
<1> QED
    BY <1>1, Invariant, PTL

-----------------------------------------------------------------------------
(* The action property.                                                    *)

\* While an operation runs, no step admits a flow: try_mutation is refused,
\* and every other action leaves the admitted flows alone or removes one.
THEOREM NotOvertaken == Spec => NoOvertaking
<1>1. IInv /\ [Next]_vars => [Running # {} => Admitted' \subseteq Admitted]_vars
  <2> SUFFICES ASSUME IInv, Next, Running # {} PROVE Admitted' \subseteq Admitted
    OBVIOUS
  <2>1. pending # 0
    BY CountersZero DEF IInv, TypeOK
  <2>2. ASSUME NEW f \in Flows, TryMutation(f) PROVE FALSE
    BY <2>1, <2>2 DEF TryMutation, MayAdmit
  <2>3. ASSUME NEW f \in Flows, NEW b \in BOOLEAN, DropRequest(f, b)
        PROVE  Admitted' \subseteq Admitted
    BY <2>3 DEF DropRequest, Admitted, Sharing
  <2>4. ASSUME NEW o \in Operations, NEW f \in request, ReserveOperation(o, f)
        PROVE  Admitted' \subseteq Admitted
    BY <2>4 DEF ReserveOperation, Admitted, Sharing, IInv, TypeOK
  <2>5. ASSUME NEW o \in Operations, TryOperation(o) PROVE FALSE
    BY <2>1, <2>5 DEF TryOperation, MayAdmit
  <2>6. ASSUME NEW o \in Operations, NEW b \in BOOLEAN, DropOperation(o, b)
        PROVE  Admitted' \subseteq Admitted
    BY <2>6 DEF DropOperation, Admitted, Sharing, IInv, TypeOK
  <2>7. ASSUME NEW o \in Operations, DropShare(o)
        PROVE  Admitted' \subseteq Admitted
    BY <2>7, CoordinatorAssumption
       DEF DropShare, Admitted, Sharing, FreeOperation, IInv, TypeOK
  <2>8. ASSUME UNCHANGED guards PROVE Admitted' \subseteq Admitted
    BY <2>8 DEF guards, Admitted, Sharing
  <2>9. ASSUME NEW r \in Recoveries,
               \/ \E p \in Projects : TryRecovery(r, p) \/ TryResumeUncertain(r, p)
               \/ MarkPublication(r)
               \/ FinishActivation(r)
               \/ DropRecovery(r)
        PROVE  Admitted' \subseteq Admitted
    BY <2>8, <2>9 DEF TryRecovery, TryResumeUncertain, ReserveRecovery,
                      MarkPublication, FinishActivation, DropRecovery
  <2>10. CASE Restart
    BY <2>10, CoordinatorAssumption DEF Restart, Admitted, Sharing, FreeOperation
  <2> QED
    BY <2>2, <2>3, <2>4, <2>5, <2>6, <2>7, <2>9, <2>10 DEF Next, OperationWithin
<1> QED
    BY <1>1, Invariant, PTL DEF Spec, NoOvertaking

-----------------------------------------------------------------------------
(* The project runtimes: the inductive invariant.                          *)

IsCaller(r) ==
    r = [at |-> r.at, kind |-> r.kind, project |-> r.project, engine |-> r.engine,
         lock |-> r.lock, evict |-> r.evict]

\* Functions and records keep their domains.
ShapeOfCaller ==
    caller = [c \in Callers |-> caller[c]] /\ \A c \in Callers : IsCaller(caller[c])

RuntimeShape ==
    /\ ShapeOfCaller
    /\ projects = [p \in Hosted |-> projects[p]]
    /\ runtimeLock = [p \in Hosted |-> runtimeLock[p]]
    /\ updateLock = [p \in Hosted |-> updateLock[p]]
    /\ opened = [p \in Hosted |-> opened[p]]
    /\ unlocked = [p \in Hosted |-> unlocked[p]]

\* Mutexes are numbered, and held by callers.
Mutexes == 0 .. Len(holder)
Numbered ==
    /\ holder \in Seq(Callers \cup {NoOne})
    /\ \A p \in Hosted : updateLock[p] \in Mutexes

Known(c) ==
    /\ caller[c].lock \in Mutexes
    /\ caller[c].at # "idle" => caller[c].project \in Hosted
    /\ caller[c].at = "wait" => caller[c].lock # 0
    /\ caller[c].at = "idle" => caller[c].lock = 0

\* Between the second look at the cache and the insertion of the engine.
Opening == {"record", "open", "put", "evict", "insert"}

\* A call that opens does it under the runtime lock and finds the cache as it
\* was, or with an engine an actor has opened; an actor's engine is one.
Flight(c) ==
    LET p == caller[c].project IN
    /\ caller[c].at \in Opening /\ caller[c].kind # "open" =>
          /\ runtimeLock[p] = c
          /\ projects[p] = 0 \/ projects[p] \in unlocked[p]
    /\ caller[c].at \in {"put", "evict", "insert"} /\ caller[c].kind = "open" =>
          caller[c].engine \in unlocked[p]

\* A mutex is held by the call that asked for it and has not returned.
Held(c) ==
    \A l \in DOMAIN holder : holder[l] = c =>
        caller[c].lock = l /\ caller[c].at \notin {"idle", "find", "create", "wait"}

\* A deletion forgets the mutex before the record, and returns after it.
Removal == {"uncache", "unlock", "unregister", "rmdir"}
Removing(c) ==
    /\ caller[c].kind = "delete" <=> caller[c].at \in Removal
    /\ caller[c].at = "rmdir" => caller[c].project \notin registered

\* A call for a project that stays has the project's mutex.
OwnMutex(c) ==
    caller[c].lock # 0 /\ caller[c].project \in registered /\ ~Deleting(caller[c].project)
        => caller[c].lock = updateLock[caller[c].project]

Sound(c) == Known(c) /\ Flight(c) /\ Held(c) /\ Removing(c) /\ OwnMutex(c)

RuntimeInv == RuntimeShape /\ Numbered /\ \A c \in Callers : Sound(c)

\* The other callers stay where they are.
Others(c) == \A d \in Callers \ {c} : caller'[d] = caller[d]

-----------------------------------------------------------------------------
(* Shapes.                                                                 *)

\* A caller is replaced.
LEMMA SetCaller ==
    ASSUME ShapeOfCaller, NEW c \in Callers, NEW r, IsCaller(r),
           caller' = [caller EXCEPT ![c] = r]
    PROVE  ShapeOfCaller' /\ caller'[c] = r /\ Others(c)
  <1>1. caller'[c] = r /\ \A d \in Callers \ {c} : caller'[d] = caller[d]
    BY DEF ShapeOfCaller
  <1>2. caller' = [d \in Callers |-> caller'[d]]
    BY DEF ShapeOfCaller
  <1>3. \A d \in Callers : IsCaller(caller'[d])
    BY <1>1 DEF ShapeOfCaller
  <1> QED
    BY <1>1, <1>2, <1>3 DEF ShapeOfCaller, IsCaller, Others

\* A call as it starts.
LEMMA NewCall ==
    ASSUME NEW at, NEW k, NEW p, NEW r, r = Calling(at, k, p)
    PROVE  IsCaller(r) /\ r.at = at /\ r.kind = k /\ r.project = p /\ r.lock = 0
    BY DEF Calling, IsCaller

\* No call.
LEMMA NoCallShape ==
    IsCaller(NoCall) /\ NoCall.at = "idle" /\ NoCall.kind = "none" /\ NoCall.project = NoOne /\ NoCall.lock = 0
    BY NewCall DEF NoCall

\* A call goes on.
LEMMA Moves ==
    ASSUME ShapeOfCaller, NEW c \in Callers, NEW at,
           caller' = [caller EXCEPT ![c].at = at]
    PROVE  /\ ShapeOfCaller' /\ Others(c) /\ caller'[c].at = at
           /\ caller'[c].kind = caller[c].kind /\ caller'[c].project = caller[c].project
           /\ caller'[c].engine = caller[c].engine /\ caller'[c].lock = caller[c].lock
  <1> DEFINE f == caller[c]
             r == [f EXCEPT !.at = at]
  <1>1. IsCaller(f)
    BY DEF ShapeOfCaller
  <1>2. caller' = [caller EXCEPT ![c] = r]
    BY DEF ShapeOfCaller
  <1> HIDE DEF f
  <1>4. r = [at |-> at, kind |-> f.kind, project |-> f.project, engine |-> f.engine,
             lock |-> f.lock, evict |-> f.evict]
    BY <1>1 DEF IsCaller
  <1> HIDE DEF r
  <1>5. /\ IsCaller(r) /\ r.at = at /\ r.kind = f.kind /\ r.project = f.project
        /\ r.engine = f.engine /\ r.lock = f.lock
    BY <1>4 DEF IsCaller
  <1>6. ShapeOfCaller' /\ caller'[c] = r /\ Others(c)
    BY <1>2, <1>5, SetCaller
  <1> QED
    BY <1>5, <1>6 DEF f

\* ... with the mutex it has found.
Takes(c, x, at) == caller' = [caller EXCEPT ![c].lock = x, ![c].at = at]

\* What that changes.
LEMMA MovesWithLock ==
    ASSUME ShapeOfCaller, NEW c \in Callers, NEW at, NEW x, Takes(c, x, at)
    PROVE  /\ ShapeOfCaller' /\ Others(c) /\ caller'[c].at = at
           /\ caller'[c].kind = caller[c].kind /\ caller'[c].project = caller[c].project
           /\ caller'[c].engine = caller[c].engine /\ caller'[c].lock = x
  <1> DEFINE f == caller[c]
             h == [f EXCEPT !.lock = x]
             r == [h EXCEPT !.at = at]
  <1>1. IsCaller(f)
    BY DEF ShapeOfCaller
  <1>2. caller' = [caller EXCEPT ![c] = r]
    BY DEF ShapeOfCaller, Takes
  <1> HIDE DEF f
  <1>3. h = [at |-> f.at, kind |-> f.kind, project |-> f.project, engine |-> f.engine,
             lock |-> x, evict |-> f.evict]
    BY <1>1 DEF IsCaller
  <1> HIDE DEF h
  <1>4. r = [at |-> at, kind |-> f.kind, project |-> f.project, engine |-> f.engine,
             lock |-> x, evict |-> f.evict]
    BY <1>3
  <1> HIDE DEF r
  <1>5. /\ IsCaller(r) /\ r.at = at /\ r.kind = f.kind /\ r.project = f.project
        /\ r.engine = f.engine /\ r.lock = x
    BY <1>4 DEF IsCaller
  <1>6. ShapeOfCaller' /\ caller'[c] = r /\ Others(c)
    BY <1>2, <1>5, SetCaller
  <1> QED
    BY <1>5, <1>6 DEF f

\* ... with the engine it has opened.
LEMMA MovesWithEngine ==
    ASSUME ShapeOfCaller, NEW c \in Callers, NEW at, NEW x,
           caller' = [caller EXCEPT ![c].engine = x, ![c].at = at]
    PROVE  /\ ShapeOfCaller' /\ Others(c) /\ caller'[c].at = at
           /\ caller'[c].kind = caller[c].kind /\ caller'[c].project = caller[c].project
           /\ caller'[c].engine = x /\ caller'[c].lock = caller[c].lock
  <1> DEFINE f == caller[c]
             h == [f EXCEPT !.engine = x]
             r == [h EXCEPT !.at = at]
  <1>1. IsCaller(f)
    BY DEF ShapeOfCaller
  <1>2. caller' = [caller EXCEPT ![c] = r]
    BY DEF ShapeOfCaller
  <1> HIDE DEF f
  <1>3. h = [at |-> f.at, kind |-> f.kind, project |-> f.project, engine |-> x,
             lock |-> f.lock, evict |-> f.evict]
    BY <1>1 DEF IsCaller
  <1> HIDE DEF h
  <1>4. r = [at |-> at, kind |-> f.kind, project |-> f.project, engine |-> x,
             lock |-> f.lock, evict |-> f.evict]
    BY <1>3
  <1> HIDE DEF r
  <1>5. /\ IsCaller(r) /\ r.at = at /\ r.kind = f.kind /\ r.project = f.project
        /\ r.engine = x /\ r.lock = f.lock
    BY <1>4 DEF IsCaller
  <1>6. ShapeOfCaller' /\ caller'[c] = r /\ Others(c)
    BY <1>2, <1>5, SetCaller
  <1> QED
    BY <1>5, <1>6 DEF f

\* ... with the project it will evict.
LEMMA MovesWithVictim ==
    ASSUME ShapeOfCaller, NEW c \in Callers, NEW at, NEW x,
           caller' = [caller EXCEPT ![c].evict = x, ![c].at = at]
    PROVE  /\ ShapeOfCaller' /\ Others(c) /\ caller'[c].at = at
           /\ caller'[c].kind = caller[c].kind /\ caller'[c].project = caller[c].project
           /\ caller'[c].engine = caller[c].engine /\ caller'[c].lock = caller[c].lock
  <1> DEFINE f == caller[c]
             h == [f EXCEPT !.evict = x]
             r == [h EXCEPT !.at = at]
  <1>1. IsCaller(f)
    BY DEF ShapeOfCaller
  <1>2. caller' = [caller EXCEPT ![c] = r]
    BY DEF ShapeOfCaller
  <1> HIDE DEF f
  <1>3. h = [at |-> f.at, kind |-> f.kind, project |-> f.project, engine |-> f.engine,
             lock |-> f.lock, evict |-> x]
    BY <1>1 DEF IsCaller
  <1> HIDE DEF h
  <1>4. r = [at |-> at, kind |-> f.kind, project |-> f.project, engine |-> f.engine,
             lock |-> f.lock, evict |-> x]
    BY <1>3
  <1> HIDE DEF r
  <1>5. /\ IsCaller(r) /\ r.at = at /\ r.kind = f.kind /\ r.project = f.project
        /\ r.engine = f.engine /\ r.lock = f.lock
    BY <1>4 DEF IsCaller
  <1>6. ShapeOfCaller' /\ caller'[c] = r /\ Others(c)
    BY <1>2, <1>5, SetCaller
  <1> QED
    BY <1>5, <1>6 DEF f

-----------------------------------------------------------------------------
(* What a step of one caller leaves to the others.                         *)

\* The engines that are cached: some go, and a call inserts its own.
CacheStep(c) ==
    /\ \A p \in Hosted : unlocked[p] \subseteq unlocked'[p]
    /\ \A p \in Hosted :
         \/ projects'[p] = projects[p] \/ projects'[p] = 0
         \/ caller[c].at = "insert" /\ caller[c].project = p /\ projects'[p] = caller[c].engine

\* The locks: nobody else's is taken away or given.
LockStep(c) ==
    /\ \A p \in Hosted : \A d \in Callers \ {c} : runtimeLock[p] = d => runtimeLock'[p] = d
    /\ Len(holder) <= Len(holder')
    /\ \A l \in DOMAIN holder' : \A d \in Callers \ {c} :
          holder'[l] = d => l \in DOMAIN holder /\ holder[l] = d
    /\ \A p \in Hosted :
         \/ updateLock'[p] = updateLock[p] \/ updateLock[p] = 0
         \/ caller'[c].kind = "delete" /\ caller'[c].project = p

\* Records go, and a deletion ends when its record is gone.
RecordStep(c) ==
    /\ registered' \subseteq registered
    /\ caller[c].kind = "delete" =>
         \/ caller'[c].kind = "delete" /\ caller'[c].project = caller[c].project
         \/ caller[c].project \notin registered'

\* The other callers stay sound.
LEMMA OthersKeep ==
    ASSUME RuntimeInv, Numbered', NEW c \in Callers, Others(c), CacheStep(c), LockStep(c), RecordStep(c),
           NEW d \in Callers, d # c
    PROVE  Sound(d)'
  <1>0. caller'[d] = caller[d] /\ Sound(d) /\ Sound(c)
    BY DEF Others, RuntimeInv
  <1>1. Known(d)'
    <2>1. caller[d].lock \in 0 .. Len(holder)
      BY <1>0 DEF Sound, Known, Mutexes
    <2>2. Len(holder) \in Nat /\ Len(holder') \in Nat
      BY DEF RuntimeInv, Numbered
    <2>3. caller[d].lock \in 0 .. Len(holder')
      BY <2>1, <2>2 DEF LockStep
    <2> QED
      BY <1>0, <2>3 DEF Sound, Known, Mutexes
  <1>2. Flight(d)'
    <2> DEFINE p == caller[d].project
    <2>1. caller[d].at \in Opening \/ caller[d].at \in {"put", "evict", "insert"} => p \in Hosted
      BY <1>0 DEF Sound, Known, Opening
    <2>2. ASSUME caller[d].at \in Opening, caller[d].kind # "open"
          PROVE  runtimeLock'[p] = d /\ (projects'[p] = 0 \/ projects'[p] \in unlocked'[p])
      <3>1. p \in Hosted /\ runtimeLock[p] = d /\ (projects[p] = 0 \/ projects[p] \in unlocked[p])
        BY <1>0, <2>1, <2>2 DEF Sound, Flight
      <3>2. runtimeLock'[p] = d
        BY <3>1 DEF LockStep
      <3>3. CASE projects'[p] = projects[p] \/ projects'[p] = 0
        BY <3>1, <3>2, <3>3 DEF CacheStep
      <3>4. CASE caller[c].at = "insert" /\ caller[c].project = p /\ projects'[p] = caller[c].engine
        <4>1. caller[c].kind = "open"
          BY <1>0, <3>1, <3>4 DEF Sound, Flight, Opening
        <4>2. caller[c].engine \in unlocked[p]
          BY <1>0, <3>4, <4>1 DEF Sound, Flight
        <4> QED
          BY <3>1, <3>2, <3>4, <4>2 DEF CacheStep
      <3> QED
        BY <3>1, <3>3, <3>4 DEF CacheStep
    <2>3. ASSUME caller[d].at \in {"put", "evict", "insert"}, caller[d].kind = "open"
          PROVE  caller[d].engine \in unlocked'[p]
      BY <1>0, <2>1, <2>3 DEF Sound, Flight, CacheStep
    <2> QED
      BY <1>0, <2>2, <2>3 DEF Flight
  <1>3. Held(d)'
    BY <1>0 DEF Sound, Held, LockStep
  <1>4. Removing(d)'
    BY <1>0 DEF Sound, Removing, RecordStep
  <1>5. OwnMutex(d)'
    <2> DEFINE p == caller[d].project
    <2> SUFFICES ASSUME caller[d].lock # 0, p \in registered',
                        \A e \in Callers : ~ (caller'[e].project = p /\ caller'[e].kind = "delete")
                 PROVE  caller[d].lock = updateLock'[p]
      BY <1>0 DEF OwnMutex, Deleting
    <2>1. p \in registered /\ p \in Hosted
      BY <1>0 DEF RecordStep, Sound, Known
    <2>2. ~Deleting(p)
      <3> SUFFICES ASSUME NEW e \in Callers, caller[e].project = p, caller[e].kind = "delete"
                   PROVE  FALSE
        BY DEF Deleting
      <3>1. CASE e = c
        BY <3>1 DEF RecordStep
      <3>2. CASE e # c
        BY <3>2 DEF Others
      <3> QED
        BY <3>1, <3>2
    <2>3. caller[d].lock = updateLock[p]
      BY <1>0, <2>1, <2>2 DEF Sound, OwnMutex
    <2>4. ~ (caller'[c].kind = "delete" /\ caller'[c].project = p)
      OBVIOUS
    <2> QED
      BY <2>1, <2>3, <2>4 DEF LockStep
  <1> QED
    BY <1>1, <1>2, <1>3, <1>4, <1>5 DEF Sound

\* So a step keeps the invariant when its own caller stays sound.
LEMMA StepKeeps ==
    ASSUME RuntimeInv, RuntimeShape', Numbered', NEW c \in Callers, Others(c), CacheStep(c), LockStep(c),
           RecordStep(c), Sound(c)'
    PROVE  RuntimeInv'
  <1>1. \A d \in Callers : Sound(d)'
    BY OthersKeep
  <1> QED
    BY <1>1 DEF RuntimeInv

\* Nobody begins or ends a deletion.
LEMMA SameDeletions ==
    ASSUME NEW c \in Callers, Others(c), caller'[c].kind = caller[c].kind,
           caller'[c].project = caller[c].project, NEW p
    PROVE  Deleting(p)' <=> Deleting(p)
    BY DEF Deleting, Others

\* A call on its way, with its locks and its project.
LEMMA WalkKeeps ==
    ASSUME RuntimeInv, RuntimeShape', NEW c \in Callers, Others(c), CacheStep(c), Flight(c)',
           caller'[c].kind = caller[c].kind, caller'[c].project = caller[c].project,
           caller'[c].lock = caller[c].lock,
           caller[c].at \notin Removal \cup {"idle", "find", "create", "wait"},
           caller'[c].at \notin Removal \cup {"idle", "find", "create", "wait"},
           UNCHANGED <<registered, updateLock, holder>>,
           \A p \in Hosted : \A d \in Callers \ {c} : runtimeLock[p] = d => runtimeLock'[p] = d
    PROVE  RuntimeInv'
  <1>0. Sound(c) /\ Numbered
    BY DEF RuntimeInv
  <1>1. Numbered'
    BY <1>0 DEF Numbered, Mutexes
  <1>2. LockStep(c)
    <2>1. Len(holder) \in Nat
      BY <1>0 DEF Numbered
    <2> QED
      BY <2>1 DEF LockStep
  <1>3. RecordStep(c)
    BY DEF RecordStep
  <1>4. Known(c)'
    BY <1>0 DEF Sound, Known, Mutexes
  <1>5. Held(c)'
    BY <1>0 DEF Sound, Held
  <1>6. Removing(c)'
    BY <1>0 DEF Sound, Removing, Removal
  <1>7. OwnMutex(c)'
    <2>1. Deleting(caller[c].project)' <=> Deleting(caller[c].project)
      BY SameDeletions
    <2> QED
      BY <1>0, <2>1 DEF Sound, OwnMutex, Deleting
  <1> QED
    BY <1>1, <1>2, <1>3, <1>4, <1>5, <1>6, <1>7, StepKeeps DEF Sound

\* A call returns and lets its locks go.
LEMMA ReturnKeeps ==
    ASSUME RuntimeInv, NoOne \notin Callers, NEW c \in Callers, Return(c), CacheStep(c),
           caller[c].at \in Removal => caller[c].at = "rmdir",
           registered' = registered,
           projects' = [p \in Hosted |-> projects'[p]],
           UNCHANGED <<opened, unlocked>>
    PROVE  RuntimeInv'
  <1>0. Sound(c) /\ Numbered /\ RuntimeShape /\ ShapeOfCaller
    BY DEF RuntimeInv, RuntimeShape
  <1>1. ShapeOfCaller' /\ caller'[c] = NoCall /\ Others(c)
    BY <1>0, NoCallShape, SetCaller DEF Return
  <1>2. /\ runtimeLock' = [p \in Hosted |-> IF runtimeLock[p] = c THEN NoOne ELSE runtimeLock[p]]
        /\ holder' = [l \in DOMAIN holder |-> IF holder[l] = c THEN NoOne ELSE holder[l]]
        /\ updateLock' = updateLock
    BY DEF Return
  <1>3. RuntimeShape'
    <2>1. runtimeLock' = [p \in Hosted |-> runtimeLock'[p]]
      BY <1>2
    <2> QED
      BY <1>0, <1>1, <1>2, <2>1 DEF RuntimeShape
  <1>4. holder' \in Seq(Callers \cup {NoOne}) /\ Len(holder') = Len(holder) /\ Len(holder) \in Nat
    <2>1. holder \in Seq(Callers \cup {NoOne})
      BY <1>0 DEF Numbered
    <2> DEFINE n == Len(holder)
    <2>2. n \in Nat /\ DOMAIN holder = 1 .. n /\ \A l \in 1 .. n : holder[l] \in Callers \cup {NoOne}
      BY <2>1
    <2> HIDE DEF n
    <2>3. holder' \in [1 .. n -> Callers \cup {NoOne}]
      BY <1>2, <2>2
    <2>4. holder' \in Seq(Callers \cup {NoOne}) /\ Len(holder') = n
      BY <2>2, <2>3
    <2> QED
      BY <2>2, <2>4 DEF n
  <1>5. Numbered'
    BY <1>0, <1>2, <1>4 DEF Numbered, Mutexes
  <1>6. LockStep(c)
    <2>1. \A l \in DOMAIN holder' : l \in DOMAIN holder /\ holder'[l] \in {holder[l], NoOne}
      BY <1>2
    <2>2. \A l \in DOMAIN holder' : \A d \in Callers \ {c} :
              holder'[l] = d => l \in DOMAIN holder /\ holder[l] = d
      BY <2>1
    <2>3. \A p \in Hosted : \A d \in Callers \ {c} : runtimeLock[p] = d => runtimeLock'[p] = d
      BY <1>2
    <2>4. Len(holder) <= Len(holder')
      BY <1>4
    <2> QED
      BY <1>2, <2>2, <2>3, <2>4 DEF LockStep
  <1>7. RecordStep(c)
    BY <1>0 DEF RecordStep, Sound, Removing
  <1>8. Sound(c)'
    <2>0. /\ caller'[c].at = "idle" /\ caller'[c].kind = "none" /\ caller'[c].project = NoOne
          /\ caller'[c].lock = 0
      BY <1>1, NoCallShape
    <2>1. Known(c)'
      BY <1>4, <2>0 DEF Known, Mutexes
    <2>2. Flight(c)' /\ Removing(c)' /\ OwnMutex(c)'
      BY <2>0 DEF Flight, Opening, Removing, Removal, OwnMutex
    <2>3. Held(c)'
      <3>1. \A l \in DOMAIN holder' : holder'[l] # c
        BY <1>2
      <3> QED
        BY <3>1 DEF Held
    <2> QED
      BY <2>1, <2>2, <2>3 DEF Sound
  <1> QED
    BY <1>1, <1>3, <1>5, <1>6, <1>7, <1>8, StepKeeps

\* The runtime lock is let go.
LEMMA LetGo ==
    ASSUME NoOne \notin Callers, NEW c \in Callers,
           runtimeLock' = [p \in Hosted |-> IF runtimeLock[p] = c THEN NoOne ELSE runtimeLock[p]]
    PROVE  /\ runtimeLock' = [p \in Hosted |-> runtimeLock'[p]]
           /\ \A p \in Hosted : \A d \in Callers \ {c} : runtimeLock[p] = d => runtimeLock'[p] = d
    OBVIOUS

\* A call that got its runtime goes on or returns.
LEMMA GotKeeps ==
    ASSUME RuntimeInv, NoOne \notin Callers, NEW c \in Callers, Got(c), CacheStep(c),
           caller[c].at \in {"lookup", "runtime", "insert"},
           registered' = registered,
           projects' = [p \in Hosted |-> projects'[p]],
           UNCHANGED <<opened, unlocked>>
    PROVE  RuntimeInv'
  <1>0. RuntimeShape /\ ShapeOfCaller
    BY DEF RuntimeInv, RuntimeShape
  <1>1. CASE caller[c].kind = "update"
    <2>1. /\ caller' = [caller EXCEPT ![c].at = "working"]
          /\ runtimeLock' = [p \in Hosted |-> IF runtimeLock[p] = c THEN NoOne ELSE runtimeLock[p]]
          /\ UNCHANGED <<updateLock, holder>>
      BY <1>1 DEF Got, To
    <2>2. /\ ShapeOfCaller' /\ Others(c) /\ caller'[c].at = "working"
          /\ caller'[c].kind = caller[c].kind /\ caller'[c].project = caller[c].project
          /\ caller'[c].lock = caller[c].lock
      BY <1>0, <2>1, Moves
    <2>3. /\ runtimeLock' = [p \in Hosted |-> runtimeLock'[p]]
          /\ \A p \in Hosted : \A d \in Callers \ {c} : runtimeLock[p] = d => runtimeLock'[p] = d
      BY <2>1, LetGo
    <2>4. RuntimeShape'
      BY <1>0, <2>1, <2>2, <2>3 DEF RuntimeShape
    <2>5. Flight(c)'
      BY <2>2 DEF Flight, Opening
    <2> QED
      BY <2>1, <2>2, <2>3, <2>4, <2>5, WalkKeeps DEF Removal
  <1>2. CASE caller[c].kind # "update"
    BY <1>2, ReturnKeeps DEF Got, Removal
  <1> QED
    BY <1>1, <1>2

\* The cache is looked at.
LEMMA LookupSteps ==
    ASSUME RuntimeInv, NoOne \notin Callers, NEW c \in Callers, Lookup(c) \/ LockRuntime(c)
    PROVE  RuntimeInv'
  <1> DEFINE p == caller[c].project
  <1>0. RuntimeShape /\ ShapeOfCaller /\ Sound(c)
    BY DEF RuntimeInv, RuntimeShape
  <1>1. /\ UNCHANGED <<registered, opened, unlocked, projects>>
        /\ caller[c].at \in {"lookup", "runtime"}
    BY DEF Lookup, LockRuntime, engines, cache
  <1>2. CacheStep(c)
    BY <1>1 DEF CacheStep
  <1>3. p \in Hosted
    BY <1>0, <1>1 DEF Sound, Known
  <1>4. CASE p \in Cached
    <2>1. Got(c)
      BY <1>4 DEF Lookup, LockRuntime
    <2>2. projects' = [q \in Hosted |-> projects'[q]]
      BY <1>0, <1>1 DEF RuntimeShape
    <2> QED
      BY <1>1, <1>2, <2>1, <2>2, GotKeeps
  <1>5. CASE Lookup(c) /\ p \notin Cached
    <2> DEFINE at == IF caller[c].kind = "open" THEN "record" ELSE "runtime"
    <2>1. /\ caller' = [caller EXCEPT ![c].at = at]
          /\ UNCHANGED <<runtimeLock, updateLock, holder>>
      BY <1>5 DEF Lookup, To, locks
    <2>2. at \in {"record", "runtime"} /\ (at = "record" => caller[c].kind = "open")
      OBVIOUS
    <2> HIDE DEF at
    <2>3. /\ ShapeOfCaller' /\ Others(c) /\ caller'[c].at = at
          /\ caller'[c].kind = caller[c].kind /\ caller'[c].project = caller[c].project
          /\ caller'[c].lock = caller[c].lock
      BY <1>0, <2>1, Moves
    <2>4. RuntimeShape'
      BY <1>0, <1>1, <2>1, <2>3 DEF RuntimeShape
    <2>5. Flight(c)'
      BY <2>2, <2>3 DEF Flight, Opening
    <2> QED
      BY <1>1, <1>2, <2>1, <2>2, <2>3, <2>4, <2>5, WalkKeeps DEF Removal
  <1>6. CASE LockRuntime(c) /\ p \notin Cached
    <2>1. /\ caller' = [caller EXCEPT ![c].at = "record"]
          /\ runtimeLock[p] = NoOne /\ runtimeLock' = [runtimeLock EXCEPT ![p] = c]
          /\ UNCHANGED <<updateLock, holder>>
      BY <1>6 DEF LockRuntime, To
    <2>2. /\ ShapeOfCaller' /\ Others(c) /\ caller'[c].at = "record"
          /\ caller'[c].kind = caller[c].kind /\ caller'[c].project = p
          /\ caller'[c].lock = caller[c].lock
      BY <1>0, <2>1, Moves
    <2>3. /\ runtimeLock' = [q \in Hosted |-> runtimeLock'[q]] /\ runtimeLock'[p] = c
          /\ \A q \in Hosted \ {p} : runtimeLock'[q] = runtimeLock[q]
      BY <1>0, <1>3, <2>1 DEF RuntimeShape
    <2>4. \A q \in Hosted : \A d \in Callers \ {c} : runtimeLock[q] = d => runtimeLock'[q] = d
      BY <2>1, <2>3
    <2>5. RuntimeShape'
      BY <1>0, <1>1, <2>1, <2>2, <2>3 DEF RuntimeShape
    <2>6. projects[p] = 0
      BY <1>3, <1>6 DEF Cached
    <2>7. Flight(c)'
      BY <1>1, <2>2, <2>3, <2>6 DEF Flight, Opening
    <2> QED
      BY <1>1, <1>2, <2>1, <2>2, <2>4, <2>5, <2>7, WalkKeeps DEF Removal
  <1> QED
    BY <1>4, <1>5, <1>6

\* The record is read, the engine opened, and a victim chosen and evicted.
LEMMA OpenSteps ==
    ASSUME RuntimeInv, NoOne \notin Callers, NEW c \in Callers,
           ReadRecord(c) \/ OpenEngine(c) \/ PutChoose(c) \/ PutEvict(c)
    PROVE  RuntimeInv'
  <1> DEFINE p == caller[c].project
  <1>0. RuntimeShape /\ ShapeOfCaller /\ Sound(c)
    BY DEF RuntimeInv, RuntimeShape
  <1>1. registered' = registered /\ caller[c].at \in {"record", "open", "put", "evict"}
    BY DEF ReadRecord, OpenEngine, PutChoose, PutEvict
  <1>2. p \in Hosted
    BY <1>0, <1>1 DEF Sound, Known
  <1>3. CASE ReadRecord(c) /\ p \notin registered
    <2>1. Return(c) /\ UNCHANGED <<projects, opened, unlocked>>
      BY <1>3 DEF ReadRecord, cache, engines
    <2>2. CacheStep(c) /\ projects' = [q \in Hosted |-> projects'[q]]
      BY <1>0, <2>1 DEF CacheStep, RuntimeShape
    <2> QED
      BY <1>1, <2>1, <2>2, ReturnKeeps DEF Removal
  <1>4. CASE ReadRecord(c) /\ p \in registered
    <2>1. /\ caller' = [caller EXCEPT ![c].at = "open"]
          /\ UNCHANGED <<projects, opened, unlocked, runtimeLock, updateLock, holder>>
          /\ caller[c].at = "record"
      BY <1>4 DEF ReadRecord, To, cache, engines, locks
    <2>2. /\ ShapeOfCaller' /\ Others(c) /\ caller'[c].at = "open"
          /\ caller'[c].kind = caller[c].kind /\ caller'[c].project = caller[c].project
          /\ caller'[c].lock = caller[c].lock
      BY <1>0, <2>1, Moves
    <2>3. RuntimeShape' /\ CacheStep(c)
      BY <1>0, <2>1, <2>2 DEF RuntimeShape, CacheStep
    <2>4. Flight(c)'
      BY <1>0, <2>1, <2>2 DEF Sound, Flight, Opening
    <2> QED
      BY <1>1, <2>1, <2>2, <2>3, <2>4, WalkKeeps DEF Removal
  <1>5. CASE OpenEngine(c)
    <2> DEFINE e == opened'[p]
    <2>1. /\ caller' = [caller EXCEPT ![c].engine = e, ![c].at = "put"]
          /\ opened' = [opened EXCEPT ![p] = @ + 1]
          /\ unlocked' = [unlocked EXCEPT ![p] = IF caller[c].kind = "open" THEN @ \cup {e} ELSE @]
          /\ UNCHANGED <<projects, runtimeLock, updateLock, holder>>
          /\ caller[c].at = "open"
      BY <1>5 DEF OpenEngine, cache, locks
    <2> HIDE DEF e
    <2>2. /\ ShapeOfCaller' /\ Others(c) /\ caller'[c].at = "put"
          /\ caller'[c].kind = caller[c].kind /\ caller'[c].project = caller[c].project
          /\ caller'[c].lock = caller[c].lock /\ caller'[c].engine = e
      <3>1. PICK x : x = e
        OBVIOUS
      <3>2. caller' = [caller EXCEPT ![c].engine = x, ![c].at = "put"]
        BY <2>1, <3>1
      <3>3. /\ ShapeOfCaller' /\ Others(c) /\ caller'[c].at = "put"
            /\ caller'[c].kind = caller[c].kind /\ caller'[c].project = caller[c].project
            /\ caller'[c].engine = x /\ caller'[c].lock = caller[c].lock
        BY <1>0, <3>2, MovesWithEngine
      <3> QED
        BY <3>1, <3>3
    <2>3. /\ opened' = [q \in Hosted |-> opened'[q]]
          /\ unlocked' = [q \in Hosted |-> unlocked'[q]]
          /\ \A q \in Hosted : unlocked[q] \subseteq unlocked'[q]
          /\ caller[c].kind = "open" => e \in unlocked'[p]
      BY <1>0, <1>2, <2>1 DEF RuntimeShape
    <2>4. RuntimeShape' /\ CacheStep(c)
      BY <1>0, <2>1, <2>2, <2>3 DEF RuntimeShape, CacheStep
    <2>5. Flight(c)'
      BY <1>0, <1>2, <2>1, <2>2, <2>3 DEF Sound, Flight, Opening
    <2> QED
      BY <1>1, <2>1, <2>2, <2>4, <2>5, WalkKeeps DEF Removal
  <1>6. CASE PutChoose(c)
    <2>1. /\ \/ \E x : caller' = [caller EXCEPT ![c].evict = x, ![c].at = "evict"]
             \/ caller' = [caller EXCEPT ![c].at = "insert"]
          /\ UNCHANGED <<projects, opened, unlocked, runtimeLock, updateLock, holder>>
          /\ caller[c].at = "put"
      BY <1>6 DEF PutChoose, To, cache, engines, locks
    <2>2. /\ ShapeOfCaller' /\ Others(c) /\ caller'[c].at \in {"evict", "insert"}
          /\ caller'[c].kind = caller[c].kind /\ caller'[c].project = caller[c].project
          /\ caller'[c].lock = caller[c].lock /\ caller'[c].engine = caller[c].engine
      <3>1. CASE \E x : caller' = [caller EXCEPT ![c].evict = x, ![c].at = "evict"]
        <4>1. PICK x : caller' = [caller EXCEPT ![c].evict = x, ![c].at = "evict"]
          BY <3>1
        <4> QED
          BY <1>0, <4>1, MovesWithVictim
      <3>2. CASE caller' = [caller EXCEPT ![c].at = "insert"]
        BY <1>0, <3>2, Moves
      <3> QED
        BY <2>1, <3>1, <3>2
    <2>3. RuntimeShape' /\ CacheStep(c)
      BY <1>0, <2>1, <2>2 DEF RuntimeShape, CacheStep
    <2>4. Flight(c)'
      BY <1>0, <2>1, <2>2 DEF Sound, Flight, Opening
    <2> QED
      BY <1>1, <2>1, <2>2, <2>3, <2>4, WalkKeeps DEF Removal
  <1>7. CASE PutEvict(c)
    <2>1. /\ caller' = [caller EXCEPT ![c].at = "insert"]
          /\ projects' = [projects EXCEPT ![caller[c].evict] = 0]
          /\ UNCHANGED <<opened, unlocked, runtimeLock, updateLock, holder>>
          /\ caller[c].at = "evict"
      BY <1>7 DEF PutEvict, Evicted, To, engines, locks
    <2>2. /\ ShapeOfCaller' /\ Others(c) /\ caller'[c].at = "insert"
          /\ caller'[c].kind = caller[c].kind /\ caller'[c].project = caller[c].project
          /\ caller'[c].lock = caller[c].lock /\ caller'[c].engine = caller[c].engine
      BY <1>0, <2>1, Moves
    <2>3. /\ projects' = [q \in Hosted |-> projects'[q]]
          /\ \A q \in Hosted : projects'[q] = projects[q] \/ projects'[q] = 0
      BY <1>0, <2>1 DEF RuntimeShape
    <2>4. RuntimeShape' /\ CacheStep(c)
      BY <1>0, <2>1, <2>2, <2>3 DEF RuntimeShape, CacheStep
    <2>5. Flight(c)'
      BY <1>0, <1>2, <2>1, <2>2, <2>3 DEF Sound, Flight, Opening
    <2> QED
      BY <1>1, <2>1, <2>2, <2>4, <2>5, WalkKeeps DEF Removal
  <1> QED
    BY <1>3, <1>4, <1>5, <1>6, <1>7

\* The engine is inserted, or an update ends.
LEMMA InsertSteps ==
    ASSUME RuntimeInv, NoOne \notin Callers, NEW c \in Callers, PutInsert(c) \/ FinishUpdate(c)
    PROVE  RuntimeInv'
  <1>0. RuntimeShape /\ Sound(c)
    BY DEF RuntimeInv
  <1>1. CASE PutInsert(c)
    <2> DEFINE p == caller[c].project
    <2>1. /\ projects' = [projects EXCEPT ![p] = caller[c].engine] /\ Got(c)
          /\ UNCHANGED <<registered, opened, unlocked>> /\ caller[c].at = "insert"
      BY <1>1 DEF PutInsert, engines
    <2>2. p \in Hosted
      BY <1>0, <2>1 DEF Sound, Known
    <2>3. /\ projects' = [q \in Hosted |-> projects'[q]] /\ projects'[p] = caller[c].engine
          /\ \A q \in Hosted \ {p} : projects'[q] = projects[q]
      BY <1>0, <2>1, <2>2 DEF RuntimeShape
    <2>4. CacheStep(c)
      BY <2>1, <2>3 DEF CacheStep
    <2> QED
      BY <2>1, <2>3, <2>4, GotKeeps
  <1>2. CASE FinishUpdate(c)
    <2>1. Return(c) /\ UNCHANGED <<registered, projects, opened, unlocked>> /\ caller[c].at = "working"
      BY <1>2 DEF FinishUpdate, cache, engines
    <2>2. CacheStep(c) /\ projects' = [q \in Hosted |-> projects'[q]]
      BY <1>0, <2>1 DEF CacheStep, RuntimeShape
    <2> QED
      BY <2>1, <2>2, ReturnKeeps DEF Removal
  <1> QED
    BY <1>1, <1>2

-----------------------------------------------------------------------------
(* The update lock.                                                        *)

\* A call that has found its project's mutex waits for it.
LEMMA FoundKeeps ==
    ASSUME RuntimeInv, RuntimeShape', Numbered', NEW c \in Callers, Others(c), LockStep(c),
           caller[c].at \in {"find", "create"}, caller'[c].at = "wait",
           caller'[c].kind = caller[c].kind, caller'[c].project = caller[c].project,
           caller'[c].lock = updateLock'[caller[c].project], caller'[c].lock # 0,
           UNCHANGED <<registered, projects, unlocked>>,
           \A l \in DOMAIN holder' : holder'[l] = c => l \in DOMAIN holder /\ holder[l] = c
    PROVE  RuntimeInv'
  <1>0. Sound(c)
    BY DEF RuntimeInv
  <1>1. caller[c].project \in Hosted
    BY <1>0 DEF Sound, Known
  <1>2. CacheStep(c) /\ RecordStep(c)
    BY DEF CacheStep, RecordStep
  <1>3. Known(c)'
    BY <1>1 DEF Known, Numbered
  <1>4. Flight(c)' /\ Removing(c)'
    BY <1>0 DEF Flight, Opening, Sound, Removing, Removal
  <1>5. Held(c)'
    BY <1>0 DEF Sound, Held
  <1>6. OwnMutex(c)'
    BY DEF OwnMutex
  <1> QED
    BY <1>2, <1>3, <1>4, <1>5, <1>6, StepKeeps DEF Sound

\* The mutex is looked for, and created when there is none.
LEMMA MutexSteps ==
    ASSUME RuntimeInv, NoOne \notin Callers, NEW c \in Callers, FindMutex(c) \/ CreateMutex(c)
    PROVE  RuntimeInv'
  <1> DEFINE p == caller[c].project
             n == Len(holder)
  <1>0. RuntimeShape /\ ShapeOfCaller /\ Sound(c) /\ Numbered
    BY DEF RuntimeInv, RuntimeShape
  <1>1. /\ UNCHANGED <<registered, projects, opened, unlocked, runtimeLock>>
        /\ caller[c].at \in {"find", "create"}
    BY DEF FindMutex, CreateMutex, cache, engines, locks
  <1>2. p \in Hosted /\ updateLock[p] \in 0 .. n /\ n \in Nat
    BY <1>0, <1>1 DEF Sound, Known, Numbered, Mutexes
  <1>3. CASE FindMutex(c) /\ updateLock[p] # 0
    <2> DEFINE x == updateLock[p]
    <2>1. /\ caller' = [caller EXCEPT ![c].lock = x, ![c].at = "wait"]
          /\ UNCHANGED <<updateLock, holder>>
      BY <1>3 DEF FindMutex, locks
    <2>2. /\ ShapeOfCaller' /\ Others(c) /\ caller'[c].at = "wait"
          /\ caller'[c].kind = caller[c].kind /\ caller'[c].project = caller[c].project
          /\ caller'[c].lock = x
      <3>1. Takes(c, x, "wait")
        BY <2>1 DEF Takes
      <3> QED
        BY <1>0, <3>1, MovesWithLock
    <2>3. RuntimeShape'
      BY <1>0, <1>1, <2>1, <2>2 DEF RuntimeShape
    <2>4. Numbered' /\ LockStep(c)
      BY <1>0, <1>1, <1>2, <2>1 DEF Numbered, Mutexes, LockStep
    <2> QED
      BY <1>1, <1>3, <2>1, <2>2, <2>3, <2>4, FoundKeeps
  <1>4. CASE FindMutex(c) /\ updateLock[p] = 0
    <2>1. /\ caller' = [caller EXCEPT ![c].at = "create"]
          /\ UNCHANGED <<updateLock, holder>> /\ caller[c].at = "find"
      BY <1>4 DEF FindMutex, To, locks
    <2>2. /\ ShapeOfCaller' /\ Others(c) /\ caller'[c].at = "create"
          /\ caller'[c].kind = caller[c].kind /\ caller'[c].project = caller[c].project
          /\ caller'[c].lock = caller[c].lock
      BY <1>0, <2>1, Moves
    <2>3. RuntimeShape' /\ CacheStep(c) /\ RecordStep(c)
      BY <1>0, <1>1, <2>1, <2>2 DEF RuntimeShape, CacheStep, RecordStep
    <2>4. Numbered' /\ LockStep(c)
      BY <1>0, <1>1, <1>2, <2>1 DEF Numbered, Mutexes, LockStep
    <2>5. Known(c)' /\ Flight(c)' /\ Removing(c)' /\ Held(c)'
      BY <1>0, <1>1, <2>1, <2>2
      DEF Sound, Known, Mutexes, Flight, Opening, Removing, Removal, Held
    <2>6. OwnMutex(c)'
      <3>1. Deleting(p)' <=> Deleting(p)
        BY <2>2, SameDeletions
      <3> QED
        BY <1>0, <1>1, <2>1, <2>2, <3>1 DEF Sound, OwnMutex, Deleting
    <2> QED
      BY <2>2, <2>3, <2>4, <2>5, <2>6, StepKeeps DEF Sound
  <1>5. CASE CreateMutex(c)
    <2> DEFINE x == updateLock'[p]
    <2>1. /\ caller' = [caller EXCEPT ![c].lock = x, ![c].at = "wait"]
          /\ \/ /\ updateLock[p] = 0 /\ updateLock' = [updateLock EXCEPT ![p] = n + 1]
                /\ holder' = Append(holder, NoOne)
             \/ updateLock[p] # 0 /\ UNCHANGED <<updateLock, holder>>
      BY <1>5 DEF CreateMutex
    <2>2. /\ ShapeOfCaller' /\ Others(c) /\ caller'[c].at = "wait"
          /\ caller'[c].kind = caller[c].kind /\ caller'[c].project = caller[c].project
          /\ caller'[c].lock = x
      <3>1. Takes(c, x, "wait")
        BY <2>1 DEF Takes
      <3> QED
        BY <1>0, <3>1, MovesWithLock
    <2>3. CASE updateLock[p] # 0
      <3>1. UNCHANGED <<updateLock, holder>>
        BY <2>1, <2>3
      <3>2. RuntimeShape'
        BY <1>0, <1>1, <2>2, <3>1 DEF RuntimeShape
      <3>3. Numbered' /\ LockStep(c)
        BY <1>0, <1>1, <1>2, <3>1 DEF Numbered, Mutexes, LockStep
      <3> QED
        BY <1>1, <2>2, <2>3, <3>1, <3>2, <3>3, FoundKeeps
    <2>4. CASE updateLock[p] = 0
      <3>1. updateLock' = [updateLock EXCEPT ![p] = n + 1] /\ holder' = Append(holder, NoOne)
        BY <2>1, <2>4
      <3>2. /\ updateLock' = [q \in Hosted |-> updateLock'[q]] /\ updateLock'[p] = n + 1
            /\ \A q \in Hosted \ {p} : updateLock'[q] = updateLock[q]
        BY <1>0, <1>2, <3>1 DEF RuntimeShape
      <3>3. /\ holder' \in Seq(Callers \cup {NoOne}) /\ Len(holder') = n + 1
            /\ \A l \in 1 .. n : holder'[l] = holder[l]
            /\ holder'[n + 1] = NoOne
        BY <1>0, <3>1 DEF Numbered
      <3>4. DOMAIN holder = 1 .. n /\ DOMAIN holder' = 1 .. n + 1
        BY <1>0, <3>3 DEF Numbered
      <3>5. \A l \in DOMAIN holder' : \A d \in Callers :
                holder'[l] = d => l \in DOMAIN holder /\ holder[l] = d
        <4> SUFFICES ASSUME NEW l \in 1 .. n + 1, NEW d \in Callers, holder'[l] = d
                     PROVE  l \in 1 .. n /\ holder[l] = d
          BY <3>4
        <4>1. l # n + 1
          BY <3>3
        <4>2. l \in 1 .. n
          BY <1>2, <4>1
        <4> QED
          BY <3>3, <4>2
      <3>6. RuntimeShape'
        BY <1>0, <1>1, <2>2, <3>2 DEF RuntimeShape
      <3>7. Numbered'
        <4>1. \A q \in Hosted : updateLock'[q] \in 0 .. n + 1
          <5> SUFFICES ASSUME NEW q \in Hosted
                       PROVE  updateLock'[q] \in 0 .. n + 1
            OBVIOUS
          <5>1. CASE q = p
            BY <1>2, <3>2, <5>1
          <5>2. CASE q # p
            <6>1. updateLock'[q] = updateLock[q] /\ updateLock[q] \in 0 .. n
              BY <1>0, <3>2, <5>2 DEF Numbered, Mutexes
            <6> QED
              BY <1>2, <6>1
          <5> QED
            BY <5>1, <5>2
        <4> QED
          BY <3>3, <4>1 DEF Numbered, Mutexes
      <3>8. LockStep(c)
        <4>1. n <= Len(holder')
          BY <1>2, <3>3
        <4>2. \A q \in Hosted : updateLock'[q] = updateLock[q] \/ updateLock[q] = 0
          BY <2>4, <3>2
        <4> QED
          BY <1>1, <3>5, <4>1, <4>2 DEF LockStep
      <3>9. x # 0
        BY <1>2, <3>2
      <3> QED
        BY <1>1, <2>2, <3>5, <3>6, <3>7, <3>8, <3>9, FoundKeeps
    <2> QED
      BY <2>3, <2>4
  <1> QED
    BY <1>3, <1>4, <1>5

\* The mutex is taken.
LEMMA HoldMutexStep ==
    ASSUME RuntimeInv, NEW c \in Callers, HoldMutex(c)
    PROVE  RuntimeInv'
  <1> DEFINE x == caller[c].lock
             n == Len(holder)
  <1>0. RuntimeShape /\ ShapeOfCaller /\ Sound(c) /\ Numbered
    BY DEF RuntimeInv, RuntimeShape
  <1>1. /\ UNCHANGED <<registered, projects, opened, unlocked, runtimeLock, updateLock>>
        /\ caller[c].at = "wait"
        /\ holder' = [holder EXCEPT ![x] = c]
        /\ caller' = [caller EXCEPT ![c].at = "lookup"]
    BY DEF HoldMutex, To, cache, engines
  <1>2. /\ n \in Nat /\ DOMAIN holder = 1 .. n /\ holder \in Seq(Callers \cup {NoOne})
        /\ x \in 1 .. n
    BY <1>0, <1>1 DEF Sound, Known, Numbered, Mutexes
  <1>3. /\ ShapeOfCaller' /\ Others(c) /\ caller'[c].at = "lookup"
        /\ caller'[c].kind = caller[c].kind /\ caller'[c].project = caller[c].project
        /\ caller'[c].lock = caller[c].lock
    BY <1>0, <1>1, Moves
  <1>4. /\ holder' \in Seq(Callers \cup {NoOne}) /\ Len(holder') = n /\ DOMAIN holder' = 1 .. n
        /\ holder'[x] = c /\ \A l \in (1 .. n) \ {x} : holder'[l] = holder[l]
    BY <1>1, <1>2
  <1>5. RuntimeShape' /\ CacheStep(c) /\ RecordStep(c)
    BY <1>0, <1>1, <1>3 DEF RuntimeShape, CacheStep, RecordStep
  <1>6. Numbered'
    BY <1>0, <1>1, <1>4 DEF Numbered, Mutexes
  <1>7. LockStep(c)
    <2>1. \A l \in DOMAIN holder' : \A d \in Callers \ {c} :
              holder'[l] = d => l \in DOMAIN holder /\ holder[l] = d
      BY <1>2, <1>4
    <2>2. n <= Len(holder')
      BY <1>2, <1>4
    <2> QED
      BY <1>1, <2>1, <2>2 DEF LockStep
  <1>8. Known(c)' /\ Flight(c)' /\ Removing(c)'
    BY <1>0, <1>1, <1>3, <1>4 DEF Sound, Known, Mutexes, Flight, Opening, Removing, Removal
  <1>9. Held(c)'
    <2>1. \A l \in DOMAIN holder : holder[l] # c
      BY <1>0, <1>1 DEF Sound, Held
    <2>2. \A l \in DOMAIN holder' : holder'[l] = c => l = x
      BY <1>2, <1>4, <2>1
    <2> QED
      BY <1>3, <2>2 DEF Held
  <1>10. OwnMutex(c)'
    <2>1. Deleting(caller[c].project)' <=> Deleting(caller[c].project)
      BY <1>3, SameDeletions
    <2> QED
      BY <1>0, <1>1, <1>3, <2>1 DEF Sound, OwnMutex, Deleting
  <1> QED
    BY <1>3, <1>5, <1>6, <1>7, <1>8, <1>9, <1>10, StepKeeps DEF Sound

-----------------------------------------------------------------------------
(* Calls start, and projects are deleted.                                  *)

\* A call starts.
LEMMA CallStep ==
    ASSUME RuntimeInv, NEW c \in Callers, NEW p \in Hosted, NEW k \in Kinds, Call(c, p, k)
    PROVE  RuntimeInv'
  <1> DEFINE at == First(k)
             r == Calling(at, k, p)
  <1>0. RuntimeShape /\ ShapeOfCaller /\ Sound(c) /\ Numbered
    BY DEF RuntimeInv, RuntimeShape
  <1>1. /\ UNCHANGED <<registered, projects, opened, unlocked, runtimeLock, updateLock, holder>>
        /\ caller[c] = NoCall
        /\ caller' = [caller EXCEPT ![c] = r]
    BY DEF Call, cache, engines, locks
  <1>2. at \in {"find", "uncache", "lookup"} /\ (k = "delete" <=> at = "uncache")
    BY DEF First, Kinds
  <1> HIDE DEF at
  <1>3. IsCaller(r) /\ r.at = at /\ r.kind = k /\ r.project = p /\ r.lock = 0
    BY NewCall
  <1> HIDE DEF r
  <1>4. caller' = [caller EXCEPT ![c] = r]
    BY <1>1
  <1>5. ShapeOfCaller' /\ caller'[c] = r /\ Others(c)
    BY <1>0, <1>3, <1>4, SetCaller
  <1>6. caller[c].at = "idle" /\ caller[c].kind = "none"
    BY <1>1, NoCallShape
  <1>7. RuntimeShape' /\ CacheStep(c) /\ RecordStep(c)
    BY <1>0, <1>1, <1>5, <1>6 DEF RuntimeShape, CacheStep, RecordStep
  <1>8. Numbered' /\ LockStep(c)
    BY <1>0, <1>1 DEF Numbered, Mutexes, LockStep
  <1>9. Known(c)'
    BY <1>0, <1>1, <1>2, <1>3, <1>5 DEF Known, Mutexes, Numbered
  <1>10. Flight(c)' /\ Removing(c)' /\ OwnMutex(c)'
    BY <1>2, <1>3, <1>5 DEF Flight, Opening, Removing, Removal, OwnMutex
  <1>11. Held(c)'
    BY <1>0, <1>1, <1>6 DEF Sound, Held
  <1> QED
    BY <1>5, <1>7, <1>8, <1>9, <1>10, <1>11, StepKeeps DEF Sound

\* A deletion goes on: nothing is required of the mutex while it lasts.
LEMMA DeletionKeeps ==
    ASSUME RuntimeInv, RuntimeShape', Numbered', NEW c \in Callers, Others(c), CacheStep(c),
           caller[c].at \in Removal, caller'[c].at \in Removal,
           caller'[c].kind = caller[c].kind, caller'[c].project = caller[c].project,
           caller'[c].lock = caller[c].lock,
           caller'[c].at = "rmdir" => caller[c].project \notin registered',
           registered' \subseteq registered,
           UNCHANGED <<runtimeLock, holder>>,
           \A q \in Hosted : updateLock'[q] = updateLock[q] \/ q = caller[c].project
    PROVE  RuntimeInv'
  <1>0. Sound(c) /\ Numbered
    BY DEF RuntimeInv
  <1>1. caller[c].kind = "delete"
    BY <1>0 DEF Sound, Removing
  <1>2. LockStep(c) /\ RecordStep(c)
    BY <1>0, <1>1 DEF LockStep, RecordStep, Numbered
  <1>3. Known(c)' /\ Flight(c)' /\ Held(c)'
    BY <1>0 DEF Sound, Known, Mutexes, Flight, Opening, Held, Removal
  <1>4. Removing(c)'
    BY <1>1 DEF Removing
  <1>5. OwnMutex(c)'
    <2>1. \E e \in Callers : caller'[e].project = caller'[c].project /\ caller'[e].kind = "delete"
      BY <1>1
    <2> QED
      BY <2>1 DEF OwnMutex, Deleting
  <1> QED
    BY <1>2, <1>3, <1>4, <1>5, StepKeeps DEF Sound

\* The steps of a deletion.
LEMMA DeleteSteps ==
    ASSUME RuntimeInv, NoOne \notin Callers, NEW c \in Callers,
           DeleteCached(c) \/ DeleteLock(c) \/ DeleteRecord(c) \/ DeleteDirectory(c)
    PROVE  RuntimeInv'
  <1> DEFINE p == caller[c].project
  <1>0. RuntimeShape /\ ShapeOfCaller /\ Sound(c) /\ Numbered
    BY DEF RuntimeInv, RuntimeShape
  <1>1. CASE DeleteCached(c)
    <2>1. /\ caller' = [caller EXCEPT ![c].at = "unlock"]
          /\ projects' = [projects EXCEPT ![p] = 0]
          /\ UNCHANGED <<registered, opened, unlocked, runtimeLock, updateLock, holder>>
          /\ caller[c].at = "uncache"
      BY <1>1 DEF DeleteCached, To, engines, locks
    <2>2. /\ ShapeOfCaller' /\ Others(c) /\ caller'[c].at = "unlock"
          /\ caller'[c].kind = caller[c].kind /\ caller'[c].project = caller[c].project
          /\ caller'[c].lock = caller[c].lock
      BY <1>0, <2>1, Moves
    <2>3. /\ projects' = [q \in Hosted |-> projects'[q]]
          /\ \A q \in Hosted : projects'[q] = projects[q] \/ projects'[q] = 0
      BY <1>0, <2>1 DEF RuntimeShape
    <2>4. RuntimeShape' /\ CacheStep(c) /\ Numbered'
      BY <1>0, <2>1, <2>2, <2>3 DEF RuntimeShape, CacheStep, Numbered, Mutexes
    <2> QED
      BY <2>1, <2>2, <2>4, DeletionKeeps DEF Removal
  <1>2. CASE DeleteLock(c)
    <2>1. /\ caller' = [caller EXCEPT ![c].at = "unregister"]
          /\ updateLock' = [updateLock EXCEPT ![p] = 0]
          /\ UNCHANGED <<registered, projects, opened, unlocked, runtimeLock, holder>>
          /\ caller[c].at = "unlock"
      BY <1>2 DEF DeleteLock, To, engines, cache
    <2>2. /\ ShapeOfCaller' /\ Others(c) /\ caller'[c].at = "unregister"
          /\ caller'[c].kind = caller[c].kind /\ caller'[c].project = caller[c].project
          /\ caller'[c].lock = caller[c].lock
      BY <1>0, <2>1, Moves
    <2>3. /\ updateLock' = [q \in Hosted |-> updateLock'[q]]
          /\ \A q \in Hosted : updateLock'[q] = updateLock[q] \/ (q = p /\ updateLock'[q] = 0)
      BY <1>0, <2>1 DEF RuntimeShape
    <2>4. RuntimeShape' /\ CacheStep(c)
      BY <1>0, <2>1, <2>2, <2>3 DEF RuntimeShape, CacheStep
    <2>5. Numbered'
      <3>1. Len(holder) \in Nat /\ 0 \in 0 .. Len(holder)
        BY <1>0 DEF Numbered
      <3> QED
        BY <1>0, <2>1, <2>3, <3>1 DEF Numbered, Mutexes
    <2> QED
      BY <2>1, <2>2, <2>3, <2>4, <2>5, DeletionKeeps DEF Removal
  <1>3. CASE DeleteRecord(c)
    <2>1. /\ caller' = [caller EXCEPT ![c].at = "rmdir"]
          /\ registered' = registered \ {p}
          /\ UNCHANGED <<projects, opened, unlocked, runtimeLock, updateLock, holder>>
          /\ caller[c].at = "unregister"
      BY <1>3 DEF DeleteRecord, To, engines, cache, locks
    <2>2. /\ ShapeOfCaller' /\ Others(c) /\ caller'[c].at = "rmdir"
          /\ caller'[c].kind = caller[c].kind /\ caller'[c].project = caller[c].project
          /\ caller'[c].lock = caller[c].lock
      BY <1>0, <2>1, Moves
    <2>3. RuntimeShape' /\ CacheStep(c) /\ Numbered'
      BY <1>0, <2>1, <2>2 DEF RuntimeShape, CacheStep, Numbered, Mutexes
    <2> QED
      BY <2>1, <2>2, <2>3, DeletionKeeps DEF Removal
  <1>4. CASE DeleteDirectory(c)
    <2>1. Return(c) /\ UNCHANGED <<registered, projects, opened, unlocked>> /\ caller[c].at = "rmdir"
      BY <1>4 DEF DeleteDirectory, cache, engines
    <2>2. CacheStep(c) /\ projects' = [q \in Hosted |-> projects'[q]]
      BY <1>0, <2>1 DEF CacheStep, RuntimeShape
    <2> QED
      BY <2>1, <2>2, ReturnKeeps
  <1> QED
    BY <1>1, <1>2, <1>3, <1>4

\* Jobs start and end, and the cache is swept: no call moves.
LEMMA JobSteps ==
    ASSUME RuntimeInv,
           \/ \E j \in Jobs : EndJob(j) \/ \E p \in Hosted : StartJob(j, p)
           \/ Sweep
    PROVE  RuntimeInv'
  <1>0. RuntimeShape /\ Numbered /\ \A c \in Callers : Sound(c)
    BY DEF RuntimeInv
  <1>1. /\ UNCHANGED <<registered, opened, unlocked, runtimeLock, updateLock, holder, caller>>
        /\ UNCHANGED projects \/ \E q : projects' = [projects EXCEPT ![q] = 0]
    <2>1. CASE Sweep
      BY <2>1 DEF Sweep, Evicted, cache, engines, locks
    <2>2. CASE \E j \in Jobs : EndJob(j) \/ \E p \in Hosted : StartJob(j, p)
      BY <2>2 DEF EndJob, StartJob, cache, engines, locks
    <2> QED
      BY <2>1, <2>2
  <1>2. /\ projects' = [p \in Hosted |-> projects'[p]]
        /\ \A p \in Hosted : projects'[p] = projects[p] \/ projects'[p] = 0
    BY <1>0, <1>1 DEF RuntimeShape
  <1>3. RuntimeShape' /\ Numbered'
    BY <1>0, <1>1, <1>2 DEF RuntimeShape, ShapeOfCaller, Numbered, Mutexes
  <1>4. ASSUME NEW c \in Callers
        PROVE  Sound(c)'
    <2>1. Known(c)' /\ Held(c)' /\ Removing(c)'
      BY <1>0, <1>1 DEF Sound, Known, Mutexes, Held, Removing
    <2>2. Flight(c)'
      <3>1. caller[c].at \in Opening => caller[c].project \in Hosted
        BY <1>0 DEF Sound, Known, Opening
      <3> QED
        BY <1>0, <1>1, <1>2, <3>1 DEF Sound, Flight
    <2>3. OwnMutex(c)'
      BY <1>0, <1>1 DEF Sound, OwnMutex, Deleting
    <2> QED
      BY <2>1, <2>2, <2>3 DEF Sound
  <1> QED
    BY <1>3, <1>4 DEF RuntimeInv

-----------------------------------------------------------------------------
(* The invariant, and what follows from it.                                *)

\* Nothing is open, and nobody calls.
LEMMA RuntimeInitInv ==
    ASSUME NoOne \notin Callers, RuntimeInit
    PROVE  RuntimeInv
  <1>1. RuntimeShape
    BY NoCallShape DEF RuntimeInit, RuntimeShape, ShapeOfCaller
  <1>2. holder = << >> /\ Len(holder) = 0 /\ holder \in Seq(Callers \cup {NoOne}) /\ DOMAIN holder = {}
    BY DEF RuntimeInit
  <1>3. Numbered
    BY <1>2 DEF RuntimeInit, Numbered, Mutexes
  <1>4. ASSUME NEW c \in Callers
        PROVE  Sound(c)
    <2>1. /\ caller[c].at = "idle" /\ caller[c].kind = "none" /\ caller[c].project = NoOne
          /\ caller[c].lock = 0
      BY NoCallShape DEF RuntimeInit
    <2> QED
      BY <1>2, <2>1 DEF Sound, Known, Mutexes, Flight, Opening, Held, Removing, Removal, OwnMutex
  <1> QED
    BY <1>1, <1>3, <1>4 DEF RuntimeInv

\* Every step keeps the invariant.
LEMMA RuntimeNextInv ==
    ASSUME NoOne \notin Callers, RuntimeInv, [RuntimeNext]_runtimeVars
    PROVE  RuntimeInv'
  <1>1. CASE UNCHANGED runtimeVars
    <2>1. UNCHANGED <<registered, projects, runtimeLock, updateLock, holder, caller, opened, unlocked>>
      BY <1>1 DEF runtimeVars, cache, locks, engines
    <2>2. RuntimeShape' /\ Numbered'
      BY <2>1 DEF RuntimeInv, RuntimeShape, ShapeOfCaller, Numbered, Mutexes
    <2>3. ASSUME NEW c \in Callers
          PROVE  Sound(c)'
      <3>1. Sound(c)
        BY DEF RuntimeInv
      <3>2. Known(c)' /\ Flight(c)' /\ Held(c)' /\ Removing(c)'
        BY <2>1, <3>1 DEF Sound, Known, Mutexes, Flight, Held, Removing
      <3>3. OwnMutex(c)'
        BY <2>1, <3>1 DEF Sound, OwnMutex, Deleting
      <3> QED
        BY <3>2, <3>3 DEF Sound
    <2> QED
      BY <2>2, <2>3 DEF RuntimeInv
  <1>2. ASSUME NEW c \in Callers, Advance(c)
        PROVE  RuntimeInv'
    BY <1>2, MutexSteps, HoldMutexStep, LookupSteps, OpenSteps, InsertSteps, DeleteSteps DEF Advance
  <1>3. ASSUME NEW c \in Callers, NEW p \in Hosted, NEW k \in Kinds, Call(c, p, k)
        PROVE  RuntimeInv'
    BY <1>3, CallStep
  <1> QED
    BY <1>1, <1>2, <1>3, JobSteps DEF RuntimeNext

\* Locks, mutexes and the cache belong to the calls as RuntimeInv says, in every
\* behaviour of the callers, the jobs and the sweeps.
THEOREM RuntimeInvariance == RuntimeSpec => []RuntimeInv
  <1>1. RuntimeInit => RuntimeInv
    BY RuntimeInitInv, RuntimeAssumption
  <1>2. RuntimeInv /\ [RuntimeNext]_runtimeVars => RuntimeInv'
    BY RuntimeNextInv, RuntimeAssumption
  <1> QED
    BY <1>1, <1>2, PTL DEF RuntimeSpec

\* An engine that ensure_project_runtime opened never replaces another one
\* that it opened: the runtime lock covers the second look at the cache, the
\* opening and the insertion.
THEOREM SingleFlight == RuntimeSpec => []OneEngine
  <1>1. RuntimeInv => OneEngine
    BY DEF RuntimeInv, Sound, Flight, Opening, OneEngine
  <1> QED
    BY <1>1, RuntimeInvariance, PTL

\* Two calls never hold update mutexes of one project that is registered and
\* that nobody deletes.
THEOREM SerializedUpdates == RuntimeSpec => []UpdatesAreSerialized
  <1>1. RuntimeInv => UpdatesAreSerialized
    <2> SUFFICES ASSUME RuntimeInv, NEW p \in registered, ~Deleting(p), NEW c \in Callers,
                        NEW d \in Callers, Updating(c, p), Updating(d, p)
                 PROVE  c = d
      BY DEF UpdatesAreSerialized
    <2>1. ASSUME NEW e \in Callers, Updating(e, p)
          PROVE  updateLock[p] \in DOMAIN holder /\ holder[updateLock[p]] = e
      <3>1. PICK l \in DOMAIN holder : holder[l] = e
        BY <2>1 DEF Updating
      <3>2. caller[e].project = p /\ caller[e].lock = l
        BY <2>1, <3>1 DEF Updating, RuntimeInv, Sound, Held
      <3>3. l # 0
        <4>1. DOMAIN holder = 1 .. Len(holder)
          BY DEF RuntimeInv, Numbered
        <4> QED
          BY <3>1, <4>1
      <3>4. l = updateLock[p]
        BY <3>2, <3>3 DEF RuntimeInv, Sound, OwnMutex
      <3> QED
        BY <3>1, <3>4
    <2> QED
      BY <2>1
  <1> QED
    BY <1>1, RuntimeInvariance, PTL

-----------------------------------------------------------------------------
(* The memory budget: the inductive invariant.                             *)

\* Where a thread has bytes of the usage, and of its subsystem's counter.
GrantedAt == {"count", "flag", "held"}
CountedAt == {"flag", "held", "uncount"}

ThreadType ==
    [at : {"idle", "reserve", "refuse", "unflag"} \cup GrantedAt \cup CountedAt,
     bytes : 0 .. Word - 1, subsystem : Subsystems, limit : 0 .. Word - 1, seen : Int]

MemoryTypeOK ==
    /\ budget \in Budgets /\ ceiling \in Budgets
    /\ used \in Nat
    /\ counter \in [Subsystems -> Nat]
    /\ thread \in [Threads -> ThreadType]

\* No caller has read a budget above the largest one, and none was granted
\* more than it had read.
WithinLimit(r, c) ==
    /\ r.limit <= c
    /\ r.at \in GrantedAt \cup CountedAt => r.bytes <= r.limit

MemoryInv ==
    /\ MemoryTypeOK
    /\ budget <= ceiling
    /\ \A t \in Threads : WithinLimit(thread[t], ceiling)
    /\ NeverOvercommitted

-----------------------------------------------------------------------------
(* Counting bytes.                                                         *)

\* The bytes of a set of threads, one by one.
EachByte(th, S) == {x \in S \X (1 .. Word) : x[2] <= th[x[1]].bytes}

\* They are finitely many.
LEMMA FiniteBytes ==
    ASSUME NEW th, NEW S \in SUBSET Threads
    PROVE  IsFiniteSet(EachByte(th, S)) /\ BytesOf(th, S) \in Nat
<1>1. IsFiniteSet(S)
    BY FS_Subset, MemoryAssumption
<1>2. IsFiniteSet(1 .. Word)
    BY FS_Interval, MemoryAssumption
<1>3. IsFiniteSet(S \X (1 .. Word))
    BY <1>1, <1>2, FS_Product
<1>4. EachByte(th, S) \in SUBSET (S \X (1 .. Word))
    BY DEF EachByte
<1>5. IsFiniteSet(EachByte(th, S))
    BY <1>3, <1>4, FS_Subset
<1>6. BytesOf(th, S) = Cardinality(EachByte(th, S))
    BY DEF BytesOf, EachByte
<1> QED
    BY <1>5, <1>6, FS_CardinalityType

\* One thread more, its bytes more.
LEMMA AddThread ==
    ASSUME NEW th \in [Threads -> ThreadType], NEW S \in SUBSET Threads,
           NEW t \in Threads, t \notin S
    PROVE  BytesOf(th, S \cup {t}) = BytesOf(th, S) + th[t].bytes
<1>1. PICK n \in Nat : n = th[t].bytes /\ n <= Word
    BY MemoryAssumption DEF ThreadType
<1> DEFINE B == {t} \X (1 .. n)
<1>2. IsFiniteSet(1 .. n) /\ Cardinality(1 .. n) = n
  <2>1. IsFiniteSet(1 .. n) /\ Cardinality(1 .. n) = IF 1 > n THEN 0 ELSE n - 1 + 1
    BY FS_Interval
  <2> QED
    BY <2>1
<1>3. IsFiniteSet(B) /\ Cardinality(B) = n
  <2>1. IsFiniteSet({t}) /\ Cardinality({t}) = 1
    BY FS_Singleton
  <2>2. IsFiniteSet(B) /\ Cardinality(B) = 1 * n
    BY <2>1, <1>2, FS_Product
  <2> QED
    BY <2>2, <1>1
<1>4. EachByte(th, S \cup {t}) = EachByte(th, S) \cup B
  <2>1. ASSUME NEW x PROVE x \in EachByte(th, S \cup {t}) <=> x \in EachByte(th, S) \cup B
    BY <1>1, MemoryAssumption DEF EachByte
  <2> QED
    BY <2>1
<1>5. EachByte(th, S) \cap B = {}
    BY DEF EachByte
<1>6. IsFiniteSet(EachByte(th, S)) /\ BytesOf(th, S) \in Nat
    BY FiniteBytes
<1>7. Cardinality(EachByte(th, S) \cup B)
      = Cardinality(EachByte(th, S)) + Cardinality(B) - Cardinality(EachByte(th, S) \cap B)
    BY <1>3, <1>6, FS_Union
<1>8. Cardinality(EachByte(th, S) \cap B) = 0
    BY <1>5, FS_EmptySet
<1>9. BytesOf(th, S) = Cardinality(EachByte(th, S))
      /\ BytesOf(th, S \cup {t}) = Cardinality(EachByte(th, S \cup {t}))
    BY DEF BytesOf, EachByte
<1> HIDE DEF B
<1>10. BytesOf(th, S \cup {t}) = BytesOf(th, S) + Cardinality(B) - 0
    BY <1>4, <1>7, <1>8, <1>9
<1> QED
    BY <1>1, <1>3, <1>6, <1>10

\* Threads that keep their bytes count the same.
LEMMA SameBytes ==
    ASSUME NEW th, NEW uh, NEW S, \A t \in S : th[t].bytes = uh[t].bytes
    PROVE  BytesOf(th, S) = BytesOf(uh, S)
<1>1. EachByte(th, S) = EachByte(uh, S)
    BY DEF EachByte
<1> QED
    BY <1>1 DEF BytesOf, EachByte

\* What thread t contributes to the count of S.
Share(th, S, t) == IF t \in S THEN th[t].bytes ELSE 0

\* The count without thread t.
LEMMA WithoutThread ==
    ASSUME NEW th \in [Threads -> ThreadType], NEW S \in SUBSET Threads, NEW t \in Threads
    PROVE  BytesOf(th, S) = BytesOf(th, S \ {t}) + Share(th, S, t)
<1>1. BytesOf(th, S \ {t}) \in Nat
    BY FiniteBytes
<1>2. CASE t \in S
  <2>1. S = (S \ {t}) \cup {t}
    BY <1>2
  <2>2. BytesOf(th, (S \ {t}) \cup {t}) = BytesOf(th, S \ {t}) + th[t].bytes
    BY AddThread
  <2> QED
    BY <2>1, <2>2, <1>2 DEF Share
<1>3. CASE t \notin S
  <2>1. S = S \ {t}
    BY <1>3
  <2> QED
    BY <2>1, <1>1, <1>3 DEF Share
<1> QED
    BY <1>2, <1>3

\* Only thread t changes, and whether it belongs to the set: the count of the
\* set changes by what t contributes.
OnlyThread(th, uh, S, T, t) ==
    S \ {t} = T \ {t} /\ \A u \in Threads \ {t} : uh[u] = th[u]
Shifted(th, uh, S, T, t) ==
    /\ BytesOf(uh, T) = BytesOf(th, S) - Share(th, S, t) + Share(uh, T, t)
    /\ BytesOf(th, S) >= Share(th, S, t)

\* The count of a set when one thread changes.
LEMMA ShiftBytes ==
    ASSUME NEW th \in [Threads -> ThreadType], NEW uh \in [Threads -> ThreadType],
           NEW S \in SUBSET Threads, NEW T \in SUBSET Threads,
           NEW t \in Threads, OnlyThread(th, uh, S, T, t)
    PROVE  Shifted(th, uh, S, T, t)
<1>1. BytesOf(th, S) = BytesOf(th, S \ {t}) + Share(th, S, t)
    BY WithoutThread
<1>2. BytesOf(uh, T) = BytesOf(uh, T \ {t}) + Share(uh, T, t)
    BY WithoutThread
<1>3. BytesOf(uh, T \ {t}) = BytesOf(th, S \ {t})
  <2>1. \A u \in S \ {t} : uh[u].bytes = th[u].bytes
    BY DEF OnlyThread
  <2>2. BytesOf(uh, S \ {t}) = BytesOf(th, S \ {t})
    BY <2>1, SameBytes
  <2> QED
    BY <2>2 DEF OnlyThread
<1>4. BytesOf(th, S \ {t}) \in Nat
    BY FiniteBytes
<1>5. Share(th, S, t) \in Nat /\ Share(uh, T, t) \in Nat
    BY MemoryAssumption DEF Share, ThreadType
<1> QED
    BY <1>1, <1>2, <1>3, <1>4, <1>5 DEF Shifted

\* A set of threads that hold at most c bytes each holds at most c times the
\* number of threads.
LEMMA BytesBound ==
    ASSUME NEW th \in [Threads -> ThreadType], NEW S \in SUBSET Threads,
           NEW c \in Nat, \A t \in S : th[t].bytes <= c
    PROVE  BytesOf(th, S) <= c * Cardinality(Threads)
<1>1. IsFiniteSet(1 .. c) /\ Cardinality(1 .. c) = c
    BY FS_Interval
<1>2. IsFiniteSet(Threads \X (1 .. c)) /\ Cardinality(Threads \X (1 .. c)) = Cardinality(Threads) * c
    BY <1>1, FS_Product, MemoryAssumption
<1>3. EachByte(th, S) \in SUBSET (Threads \X (1 .. c))
  <2>1. ASSUME NEW x \in EachByte(th, S) PROVE x \in Threads \X (1 .. c)
    <3>1. x[1] \in S /\ x[2] \in 1 .. Word /\ x[2] <= th[x[1]].bytes /\ x = <<x[1], x[2]>>
      BY DEF EachByte
    <3>2. th[x[1]].bytes <= c /\ th[x[1]].bytes \in Nat
      BY <3>1, MemoryAssumption DEF ThreadType
    <3>3. x[2] \in 1 .. c
      BY <3>1, <3>2, MemoryAssumption
    <3> QED
      BY <3>1, <3>3
  <2> QED
    BY <2>1
<1>4. Cardinality(EachByte(th, S)) <= Cardinality(Threads \X (1 .. c))
    BY <1>2, <1>3, FS_Subset
<1>5. BytesOf(th, S) = Cardinality(EachByte(th, S))
    BY DEF BytesOf, EachByte
<1>6. Cardinality(Threads) \in Nat
    BY FS_CardinalityType, MemoryAssumption
<1>7. Cardinality(Threads) * c = c * Cardinality(Threads)
    BY <1>6
<1> QED
    BY <1>2, <1>4, <1>5, <1>7

-----------------------------------------------------------------------------
(* The steps of the memory budget.                                         *)

\* What a reservation adds to the usage, and to the counter of subsystem s.
ToUsed(r) == IF r.at \in GrantedAt THEN r.bytes ELSE 0
ToCounter(r, s) == IF r.subsystem = s /\ r.at \in CountedAt THEN r.bytes ELSE 0

\* Thread t now is r: the sums change by its contributions alone.
Accounts(t, r) ==
    /\ Bytes(Granted)' = Bytes(Granted) - ToUsed(thread[t]) + ToUsed(r)
    /\ Bytes(Granted) >= ToUsed(thread[t])
    /\ \A s \in Subsystems :
          /\ Bytes(Counted(s))' = Bytes(Counted(s)) - ToCounter(thread[t], s) + ToCounter(r, s)
          /\ Bytes(Counted(s)) >= ToCounter(thread[t], s)

\* A reservation is replaced.
LEMMA ThreadMoves ==
    ASSUME thread \in [Threads -> ThreadType], NEW t \in Threads, NEW r \in ThreadType,
           thread' = [thread EXCEPT ![t] = r]
    PROVE  /\ thread' \in [Threads -> ThreadType]
           /\ thread'[t] = r /\ \A u \in Threads \ {t} : thread'[u] = thread[u]
           /\ Accounts(t, r)
<1>1. /\ thread' \in [Threads -> ThreadType]
      /\ thread'[t] = r /\ \A u \in Threads \ {t} : thread'[u] = thread[u]
    OBVIOUS
<1>2. Granted \in SUBSET Threads /\ Granted' \in SUBSET Threads
      /\ Granted \ {t} = Granted' \ {t}
    BY <1>1 DEF Granted
<1>3. /\ Bytes(Granted)' = Bytes(Granted) - ToUsed(thread[t]) + ToUsed(r)
      /\ Bytes(Granted) >= ToUsed(thread[t])
  <2>1. PICK th \in [Threads -> ThreadType], uh \in [Threads -> ThreadType],
             S \in SUBSET Threads, T \in SUBSET Threads :
             th = thread /\ uh = thread' /\ S = Granted /\ T = Granted'
    BY <1>1, <1>2
  <2>2. OnlyThread(th, uh, S, T, t)
    BY <1>1, <1>2, <2>1 DEF OnlyThread
  <2>3. Shifted(th, uh, S, T, t)
    BY <2>2, ShiftBytes
  <2>4. Share(th, S, t) = ToUsed(thread[t]) /\ Share(uh, T, t) = ToUsed(r)
    BY <1>1, <2>1 DEF Share, ToUsed, Granted, GrantedAt
  <2> QED
    BY <2>1, <2>3, <2>4 DEF Bytes, Shifted
<1>4. ASSUME NEW s \in Subsystems
      PROVE  /\ Bytes(Counted(s))' = Bytes(Counted(s)) - ToCounter(thread[t], s) + ToCounter(r, s)
             /\ Bytes(Counted(s)) >= ToCounter(thread[t], s)
  <2>1. Counted(s) \in SUBSET Threads /\ Counted(s)' \in SUBSET Threads
        /\ Counted(s) \ {t} = Counted(s)' \ {t}
    BY <1>1 DEF Counted
  <2>2. PICK th \in [Threads -> ThreadType], uh \in [Threads -> ThreadType],
             S \in SUBSET Threads, T \in SUBSET Threads :
             th = thread /\ uh = thread' /\ S = Counted(s) /\ T = Counted(s)'
    BY <1>1, <2>1
  <2>3. OnlyThread(th, uh, S, T, t)
    BY <1>1, <2>1, <2>2 DEF OnlyThread
  <2>4. Shifted(th, uh, S, T, t)
    BY <2>3, ShiftBytes
  <2>5. Share(th, S, t) = ToCounter(thread[t], s) /\ Share(uh, T, t) = ToCounter(r, s)
    BY <1>1, <2>2 DEF Share, ToCounter, Counted, CountedAt
  <2> QED
    BY <2>2, <2>4, <2>5 DEF Bytes, Shifted
<1> QED
    BY <1>1, <1>3, <1>4 DEF Accounts

\* No sum of counted reservations reaches the size of a word.
LEMMA CountersFit ==
    ASSUME NEW th \in [Threads -> ThreadType], NEW S \in SUBSET Threads, NEW c \in Budgets,
           \A t \in S : th[t].bytes <= c
    PROVE  BytesOf(th, S) \in 0 .. Word - 1
<1>1. c \in Nat /\ c * Cardinality(Threads) < Word
    BY MemoryAssumption
<1>2. BytesOf(th, S) <= c * Cardinality(Threads)
    BY <1>1, BytesBound
<1>3. Cardinality(Threads) \in Nat /\ Word \in Nat
    BY FS_CardinalityType, MemoryAssumption
<1>4. c * Cardinality(Threads) \in Nat
    BY <1>1, <1>3
<1>5. BytesOf(th, S) \in Nat
    BY FiniteBytes
<1> QED
    BY <1>1, <1>2, <1>3, <1>4, <1>5

\* Thread t goes on to be r, within the limits: what the sums are after it.
Goes(t, r) ==
    /\ thread' \in [Threads -> ThreadType]
    /\ \A u \in Threads : WithinLimit(thread'[u], ceiling)
    /\ Bytes(Granted)' = used - ToUsed(thread[t]) + ToUsed(r)
    /\ used >= ToUsed(thread[t])
    /\ \A s \in Subsystems :
          /\ Bytes(Counted(s))' = counter[s] - ToCounter(thread[t], s) + ToCounter(r, s)
          /\ Bytes(Counted(s))' \in 0 .. Word - 1

\* A reservation goes on.
LEMMA Going ==
    ASSUME MemoryInv, NEW t \in Threads, NEW r \in ThreadType,
           thread' = [thread EXCEPT ![t] = r], WithinLimit(r, ceiling)
    PROVE  Goes(t, r)
<1>1. /\ thread' \in [Threads -> ThreadType]
      /\ thread'[t] = r /\ \A u \in Threads \ {t} : thread'[u] = thread[u]
      /\ Accounts(t, r)
    BY ThreadMoves DEF MemoryInv, MemoryTypeOK
<1>2. \A u \in Threads : WithinLimit(thread'[u], ceiling)
    BY <1>1 DEF MemoryInv
<1>3. used = Bytes(Granted) /\ \A s \in Subsystems : counter[s] = Bytes(Counted(s))
    BY DEF MemoryInv, NeverOvercommitted, UsedIsGranted
<1>4. ASSUME NEW s \in Subsystems PROVE Bytes(Counted(s))' \in 0 .. Word - 1
  <2>1. PICK uh \in [Threads -> ThreadType], T \in SUBSET Threads :
            uh = thread' /\ T = Counted(s)'
    BY <1>1 DEF Counted
  <2>2. ASSUME NEW u \in T PROVE uh[u].bytes <= ceiling
    <3>1. uh[u] \in ThreadType /\ uh[u].at \in CountedAt /\ WithinLimit(uh[u], ceiling)
      BY <1>2, <2>1 DEF Counted, CountedAt
    <3>2. uh[u].bytes \in Int /\ uh[u].limit \in Int /\ ceiling \in Int
      BY <3>1, MemoryAssumption DEF ThreadType, MemoryInv, MemoryTypeOK
    <3> QED
      BY <3>1, <3>2 DEF WithinLimit
  <2>3. ceiling \in Budgets
    BY DEF MemoryInv, MemoryTypeOK
  <2>4. BytesOf(uh, T) \in 0 .. Word - 1
    BY <2>2, <2>3, CountersFit
  <2> QED
    BY <2>1, <2>4 DEF Bytes
<1> QED
    BY <1>1, <1>2, <1>3, <1>4 DEF Goes, Accounts

\* The usage and the counters follow: the invariant holds after the step.
LEMMA Followed ==
    ASSUME MemoryInv, NEW t \in Threads, NEW r \in ThreadType, Goes(t, r),
           budget' = budget, ceiling' = ceiling,
           used' = used - ToUsed(thread[t]) + ToUsed(r), used' \in Nat, used' <= ceiling,
           counter' = [s \in Subsystems |->
                          counter[s] - ToCounter(thread[t], s) + ToCounter(r, s)]
    PROVE  MemoryInv'
<1>1. \A s \in Subsystems : counter'[s] = Bytes(Counted(s))' /\ counter'[s] \in Nat
    BY DEF Goes
<1>2. counter' \in [Subsystems -> Nat]
    BY <1>1
<1>3. MemoryTypeOK'
    BY <1>2 DEF MemoryInv, MemoryTypeOK, Goes
<1>4. NeverOvercommitted'
    BY <1>1 DEF Goes, NeverOvercommitted, UsedIsGranted
<1>5. (budget <= ceiling)' /\ (\A u \in Threads : WithinLimit(thread[u], ceiling))'
    BY DEF MemoryInv, Goes
<1> QED
    BY <1>3, <1>4, <1>5 DEF MemoryInv

\* A reservation that contributes as before moves nothing.
LEMMA Uncounted ==
    ASSUME MemoryInv, NEW t \in Threads, NEW r \in ThreadType, WithinLimit(r, ceiling),
           ToUsed(r) = ToUsed(thread[t]),
           \A s \in Subsystems : ToCounter(r, s) = ToCounter(thread[t], s),
           thread' = [thread EXCEPT ![t] = r],
           UNCHANGED <<budget, ceiling, used, counter>>
    PROVE  MemoryInv'
<1>1. Goes(t, r)
    BY Going
<1>2. used \in Nat /\ used <= ceiling /\ ceiling \in Nat
    BY MemoryAssumption DEF MemoryInv, MemoryTypeOK, NeverOvercommitted
<1>3. thread[t] \in ThreadType
    BY DEF MemoryInv, MemoryTypeOK
<1>4. ToUsed(r) \in Nat
    BY MemoryAssumption DEF ToUsed, ThreadType
<1>5. used' = used - ToUsed(thread[t]) + ToUsed(r)
    BY <1>2, <1>4
<1>6. \A s \in Subsystems : counter[s] \in Nat /\ ToCounter(r, s) \in Nat
    BY MemoryAssumption DEF ToCounter, ThreadType, MemoryInv, MemoryTypeOK
<1>7. counter' = [s \in Subsystems |-> counter[s] - ToCounter(thread[t], s) + ToCounter(r, s)]
    BY <1>6 DEF MemoryInv, MemoryTypeOK
<1> QED
    BY <1>1, <1>2, <1>5, <1>7, Followed

\* What the invariant says of one thread.
LEMMA ThreadFacts ==
    ASSUME MemoryInv, NEW t \in Threads
    PROVE  /\ thread[t] \in ThreadType /\ WithinLimit(thread[t], ceiling)
           /\ thread[t].bytes \in Nat /\ thread[t].limit \in Nat
           /\ used \in Nat /\ used <= ceiling /\ ceiling \in Nat /\ ceiling <= Word - 2
           /\ budget \in Nat /\ budget <= ceiling /\ Word \in Nat
           /\ thread[t].limit <= ceiling
           /\ thread = [u \in Threads |-> thread[u]]
<1>1. thread \in [Threads -> ThreadType] /\ budget \in Budgets /\ ceiling \in Budgets /\ used \in Nat
    BY DEF MemoryInv, MemoryTypeOK
<1>2. thread[t] \in ThreadType /\ thread = [u \in Threads |-> thread[u]]
    BY <1>1
<1>3. thread[t].bytes \in Nat /\ thread[t].limit \in Nat
    BY <1>2, MemoryAssumption DEF ThreadType
<1>4. ceiling \in Nat /\ ceiling <= Word - 2 /\ budget \in Nat /\ Word \in Nat
    BY <1>1, MemoryAssumption
<1>5. used <= ceiling /\ budget <= ceiling /\ WithinLimit(thread[t], ceiling)
    BY DEF MemoryInv, NeverOvercommitted
<1> QED
    BY <1>1, <1>2, <1>3, <1>4, <1>5 DEF WithinLimit

\* The idle reservation.
LEMMA NoReservationType ==
    /\ NoReservation \in ThreadType /\ NoReservation.at = "idle" /\ NoReservation.limit = 0
    /\ ToUsed(NoReservation) = 0 /\ \A s : ToCounter(NoReservation, s) = 0
<1>1. (CHOOSE s \in Subsystems : TRUE) \in Subsystems
    BY MemoryAssumption
<1>2. 0 \in 0 .. Word - 1 /\ 0 \in Int
    BY MemoryAssumption
<1>3. NoReservation \in ThreadType
    BY <1>1, <1>2 DEF NoReservation, ThreadType
<1>4. NoReservation.at = "idle" /\ NoReservation.limit = 0
    BY DEF NoReservation
<1>5. ToUsed(NoReservation) = 0 /\ \A s : ToCounter(NoReservation, s) = 0
    BY <1>4 DEF ToUsed, ToCounter, GrantedAt, CountedAt
<1> QED
    BY <1>3, <1>4, <1>5

\* A caller reads the budget.
LEMMA LoadStep ==
    ASSUME MemoryInv, NEW t \in Threads, NEW s \in Subsystems, NEW n \in Sizes,
           LoadBudget(t, s, n)
    PROVE  MemoryInv'
<1>1. PICK r : r = [at |-> "reserve", bytes |-> n, subsystem |-> s, limit |-> budget, seen |-> 0]
    OBVIOUS
<1>2. budget \in 0 .. Word - 1 /\ n \in 0 .. Word - 1
    BY ThreadFacts, MemoryAssumption
<1>3. r \in ThreadType /\ r.at = "reserve" /\ r.limit = budget
    BY <1>1, <1>2 DEF ThreadType
<1>4. thread[t].at = "idle"
    BY DEF LoadBudget, At
<1>5. WithinLimit(r, ceiling)
    BY <1>3, ThreadFacts DEF WithinLimit, GrantedAt, CountedAt
<1>6. ToUsed(r) = ToUsed(thread[t]) /\ \A q \in Subsystems : ToCounter(r, q) = ToCounter(thread[t], q)
    BY <1>3, <1>4 DEF ToUsed, ToCounter, GrantedAt, CountedAt
<1>7. thread' = [thread EXCEPT ![t] = r] /\ UNCHANGED <<budget, ceiling, used, counter>>
    BY <1>1 DEF LoadBudget
<1> QED
    BY <1>3, <1>5, <1>6, <1>7, Uncounted

\* A reservation with another stage, and another value seen.
At2(r, a, v) == [r EXCEPT !.at = a, !.seen = v]

\* It keeps the rest.
LEMMA NextStage ==
    ASSUME NEW r \in ThreadType, NEW v \in Int,
           NEW a \in {"idle", "reserve", "refuse", "unflag"} \cup GrantedAt \cup CountedAt
    PROVE  /\ At2(r, a, v) \in ThreadType /\ At2(r, a, v).at = a
           /\ At2(r, a, v).bytes = r.bytes /\ At2(r, a, v).subsystem = r.subsystem
           /\ At2(r, a, v).limit = r.limit
    BY DEF At2, ThreadType

\* The compare-and-swap loop ends.
LEMMA ReserveStep ==
    ASSUME MemoryInv, NEW t \in Threads, Reserve(t) PROVE MemoryInv'
<1>1. thread[t].at = "reserve" /\ UNCHANGED <<budget, pressure, counter, ceiling>>
    BY DEF Reserve, At
<1>2. ToUsed(thread[t]) = 0 /\ \A s \in Subsystems : ToCounter(thread[t], s) = 0
    BY <1>1 DEF ToUsed, ToCounter, GrantedAt, CountedAt
<1>3. CASE ~Fits(t)
  <2>1. thread' = [thread EXCEPT ![t].at = "refuse"] /\ used' = used
    BY <1>3 DEF Reserve
  <2>2. thread[t].seen \in Int
    BY ThreadFacts DEF ThreadType
  <2>3. PICK r : r = At2(thread[t], "refuse", thread[t].seen)
    OBVIOUS
  <2>4. thread' = [thread EXCEPT ![t] = r]
    BY <2>1, <2>3, ThreadFacts DEF At2, ThreadType
  <2>5. r \in ThreadType /\ r.at = "refuse" /\ r.limit = thread[t].limit
    BY <2>2, <2>3, NextStage, ThreadFacts
  <2>6. ToUsed(r) = 0 /\ \A s \in Subsystems : ToCounter(r, s) = 0
    BY <2>5 DEF ToUsed, ToCounter, GrantedAt, CountedAt
  <2>7. WithinLimit(r, ceiling)
    BY <2>5, ThreadFacts DEF WithinLimit, GrantedAt, CountedAt
  <2>8. /\ ToUsed(r) = ToUsed(thread[t])
        /\ \A s \in Subsystems : ToCounter(r, s) = ToCounter(thread[t], s)
        /\ UNCHANGED <<budget, ceiling, used, counter>>
    BY <1>1, <1>2, <2>1, <2>6
  <2> QED
    BY <2>4, <2>5, <2>7, <2>8, Uncounted
<1>4. CASE Fits(t)
  <2>1. PICK v : v = used + thread[t].bytes
    OBVIOUS
  <2>2. SaturatingAdd(used, thread[t].bytes) <= thread[t].limit
    BY <1>4 DEF Fits
  <2>3. v \in Nat /\ v <= thread[t].limit /\ SaturatingAdd(used, thread[t].bytes) = v
    BY <2>1, <2>2, ThreadFacts DEF SaturatingAdd
  <2>4. used' = v /\ thread' = [thread EXCEPT ![t].at = "count", ![t].seen = v]
    BY <1>4, <2>3 DEF Reserve
  <2>5. PICK r : r = At2(thread[t], "count", v)
    OBVIOUS
  <2>6. thread' = [thread EXCEPT ![t] = r]
    BY <2>4, <2>5, ThreadFacts DEF At2, ThreadType
  <2>7. r \in ThreadType /\ r.at = "count" /\ r.limit = thread[t].limit /\ r.bytes = thread[t].bytes
    BY <2>3, <2>5, NextStage, ThreadFacts DEF GrantedAt
  <2>8. ToUsed(r) = thread[t].bytes /\ \A s \in Subsystems : ToCounter(r, s) = 0
    BY <2>7 DEF ToUsed, ToCounter, GrantedAt, CountedAt
  <2>9. thread[t].bytes <= thread[t].limit
    BY <2>1, <2>3, ThreadFacts
  <2>10. WithinLimit(r, ceiling)
    BY <2>7, <2>9, ThreadFacts DEF WithinLimit, GrantedAt, CountedAt
  <2>11. Goes(t, r)
    BY <2>6, <2>7, <2>10, Going
  <2>12. used' = used - ToUsed(thread[t]) + ToUsed(r) /\ used' \in Nat /\ used' <= ceiling
    BY <1>2, <2>1, <2>3, <2>4, <2>8, ThreadFacts
  <2>13. \A s \in Subsystems : counter[s] \in Nat
    BY DEF MemoryInv, MemoryTypeOK
  <2>14. counter' = [s \in Subsystems |-> counter[s] - ToCounter(thread[t], s) + ToCounter(r, s)]
    BY <1>1, <1>2, <2>8, <2>13 DEF MemoryInv, MemoryTypeOK
  <2> QED
    BY <1>1, <2>7, <2>11, <2>12, <2>14, Followed
<1> QED
    BY <1>3, <1>4

\* A rejected caller goes, and a release ends: the pressure flag alone moves.
LEMMA EndSteps ==
    ASSUME MemoryInv, NEW t \in Threads, Refuse(t) \/ Unflag(t) PROVE MemoryInv'
<1>1. thread[t].at \in {"refuse", "unflag"} /\ thread' = [thread EXCEPT ![t] = NoReservation]
      /\ UNCHANGED <<budget, ceiling, used, counter>>
    BY DEF Refuse, Unflag, At
<1>2. ToUsed(thread[t]) = 0 /\ \A s \in Subsystems : ToCounter(thread[t], s) = 0
    BY <1>1 DEF ToUsed, ToCounter, GrantedAt, CountedAt
<1>3. NoReservation \in ThreadType /\ WithinLimit(NoReservation, ceiling)
    BY NoReservationType, ThreadFacts DEF WithinLimit, GrantedAt, CountedAt
<1>4. /\ ToUsed(NoReservation) = ToUsed(thread[t])
      /\ \A s \in Subsystems : ToCounter(NoReservation, s) = ToCounter(thread[t], s)
    BY <1>2, NoReservationType
<1> QED
    BY <1>1, <1>3, <1>4, Uncounted

\* A granted reservation goes on to stage a as r, its bytes as they are.
HeldOn(t, a, r) ==
    /\ r \in ThreadType /\ r.at = a /\ r.bytes = thread[t].bytes
    /\ r.subsystem = thread[t].subsystem /\ WithinLimit(r, ceiling) /\ Goes(t, r)

\* A granted reservation goes on.
LEMMA HeldMoves ==
    ASSUME MemoryInv, NEW t \in Threads, thread[t].at \in GrantedAt \cup CountedAt,
           NEW a \in {"flag", "held", "uncount", "unflag"}, NEW v \in Int,
           NEW r, r = At2(thread[t], a, v), thread' = [thread EXCEPT ![t] = r]
    PROVE  HeldOn(t, a, r)
<1>1. /\ r \in ThreadType /\ r.at = a /\ r.bytes = thread[t].bytes
      /\ r.subsystem = thread[t].subsystem /\ r.limit = thread[t].limit
  <2>1. a \in {"idle", "reserve", "refuse", "unflag"} \cup GrantedAt \cup CountedAt
    BY DEF GrantedAt, CountedAt
  <2>2. thread[t] \in ThreadType
    BY ThreadFacts
  <2>3. /\ At2(thread[t], a, v) \in ThreadType /\ At2(thread[t], a, v).at = a
        /\ At2(thread[t], a, v).bytes = thread[t].bytes
        /\ At2(thread[t], a, v).subsystem = thread[t].subsystem
        /\ At2(thread[t], a, v).limit = thread[t].limit
    BY <2>1, <2>2, NextStage
  <2> QED
    BY <2>3
<1>2. WithinLimit(r, ceiling)
    BY <1>1, ThreadFacts DEF WithinLimit
<1>3. Goes(t, r)
    BY <1>1, <1>2, Going
<1> QED
    BY <1>1, <1>2, <1>3 DEF HeldOn

\* The pressure flag of a granted reservation.
LEMMA FlagStep ==
    ASSUME MemoryInv, NEW t \in Threads, Flag(t) PROVE MemoryInv'
<1>1. thread[t].at = "flag" /\ thread' = [thread EXCEPT ![t].at = "held"]
      /\ UNCHANGED <<budget, ceiling, used, counter>>
    BY DEF Flag, At
<1>2. PICK r : r = At2(thread[t], "held", thread[t].seen)
    OBVIOUS
<1>3. thread' = [thread EXCEPT ![t] = r] /\ thread[t].seen \in Int
    BY <1>1, <1>2, ThreadFacts DEF At2, ThreadType
<1>4. /\ r \in ThreadType /\ r.at = "held" /\ r.bytes = thread[t].bytes
      /\ r.subsystem = thread[t].subsystem /\ WithinLimit(r, ceiling)
  <2>1. thread[t].at \in GrantedAt \cup CountedAt
    BY <1>1 DEF GrantedAt, CountedAt
  <2>2. HeldOn(t, "held", r)
    BY <1>2, <1>3, <2>1, HeldMoves
  <2> QED
    BY <2>2 DEF HeldOn
<1>5. /\ ToUsed(r) = ToUsed(thread[t])
      /\ \A s \in Subsystems : ToCounter(r, s) = ToCounter(thread[t], s)
    BY <1>1, <1>4 DEF ToUsed, ToCounter, GrantedAt, CountedAt
<1> QED
    BY <1>1, <1>3, <1>4, <1>5, Uncounted

\* The counter of a subsystem takes the bytes in, or gives them back.
LEMMA CountSteps ==
    ASSUME MemoryInv, NEW t \in Threads, Count(t) \/ Uncount(t) PROVE MemoryInv'
<1>1. PICK k \in Subsystems, n \in Nat : k = thread[t].subsystem /\ n = thread[t].bytes
    BY ThreadFacts DEF ThreadType
<1>2. PICK a \in {"flag", "unflag"} : a = IF Count(t) THEN "flag" ELSE "unflag"
    OBVIOUS
<1>3. PICK d \in Int : d = IF Count(t) THEN n ELSE -n
    BY <1>1
<1>4. /\ thread[t].at = IF Count(t) THEN "count" ELSE "uncount"
      /\ thread' = [thread EXCEPT ![t].at = a]
      /\ counter' = [counter EXCEPT ![k] = (@ + d) % Word]
      /\ UNCHANGED <<budget, used, ceiling>>
  <2>1. CASE Count(t)
    BY <1>1, <1>2, <1>3, <2>1 DEF Count, At, WrappingAdd
  <2>2. CASE ~Count(t)
    <3>1. Uncount(t)
      BY <2>2
    <3>2. counter[k] \in Nat
      BY <1>1 DEF MemoryInv, MemoryTypeOK
    <3>3. counter[k] - n = counter[k] + d
      BY <1>1, <1>3, <2>2, <3>2
    <3> QED
      BY <1>1, <1>2, <2>2, <3>1, <3>3 DEF Uncount, At, WrappingSub
  <2> QED
    BY <2>1, <2>2
<1>5. PICK r : r = At2(thread[t], a, thread[t].seen)
    OBVIOUS
<1>6. thread' = [thread EXCEPT ![t] = r] /\ thread[t].seen \in Int
    BY <1>4, <1>5, ThreadFacts DEF At2, ThreadType
<1>7. thread[t].at \in GrantedAt \cup CountedAt
    BY <1>4 DEF GrantedAt, CountedAt
<1>8. /\ r \in ThreadType /\ r.at = a /\ r.bytes = n /\ r.subsystem = k /\ Goes(t, r)
  <2>1. HeldOn(t, a, r)
    BY <1>2, <1>5, <1>6, <1>7, HeldMoves
  <2> QED
    BY <1>1, <2>1 DEF HeldOn
<1>9. ToUsed(r) = ToUsed(thread[t]) /\ ToUsed(r) \in Nat
  <2>1. CASE Count(t)
    BY <1>1, <1>2, <1>4, <1>8, <2>1 DEF ToUsed, GrantedAt
  <2>2. CASE ~Count(t)
    BY <1>1, <1>2, <1>4, <1>8, <2>2 DEF ToUsed, GrantedAt
  <2> QED
    BY <2>1, <2>2
<1>10. used' = used - ToUsed(thread[t]) + ToUsed(r) /\ used' \in Nat /\ used' <= ceiling
    BY <1>4, <1>9, ThreadFacts
<1>11. ASSUME NEW s \in Subsystems
       PROVE  counter'[s] = counter[s] - ToCounter(thread[t], s) + ToCounter(r, s)
  <2>1. counter[s] \in Nat
    BY DEF MemoryInv, MemoryTypeOK
  <2>2. CASE s # k
    <3>1. counter'[s] = counter[s]
      BY <1>4, <2>2 DEF MemoryInv, MemoryTypeOK
    <3>2. ToCounter(thread[t], s) = 0 /\ ToCounter(r, s) = 0
      BY <1>1, <1>8, <2>2 DEF ToCounter
    <3> QED
      BY <2>1, <3>1, <3>2
  <2>3. CASE s = k
    <3>1. ToCounter(r, s) - ToCounter(thread[t], s) = d
          /\ ToCounter(r, s) \in Nat /\ ToCounter(thread[t], s) \in Nat
      <4>1. CASE Count(t)
        BY <1>1, <1>2, <1>3, <1>4, <1>8, <2>3, <4>1 DEF ToCounter, CountedAt
      <4>2. CASE ~Count(t)
        BY <1>1, <1>2, <1>3, <1>4, <1>8, <2>3, <4>2 DEF ToCounter, CountedAt
      <4> QED
        BY <4>1, <4>2
    <3>2. counter[s] - ToCounter(thread[t], s) + ToCounter(r, s) \in 0 .. Word - 1
      BY <1>8 DEF Goes
    <3>3. counter[s] + d = counter[s] - ToCounter(thread[t], s) + ToCounter(r, s)
      BY <2>1, <3>1
    <3>4. counter'[s] = (counter[s] + d) % Word
      BY <1>4, <2>3 DEF MemoryInv, MemoryTypeOK
    <3>5. (counter[s] + d) % Word = counter[s] + d
      BY <3>2, <3>3, ThreadFacts
    <3> QED
      BY <3>3, <3>4, <3>5
  <2> QED
    BY <2>2, <2>3
<1>12. counter' = [s \in Subsystems |-> counter[s] - ToCounter(thread[t], s) + ToCounter(r, s)]
  <2>1. counter' = [s \in Subsystems |-> counter'[s]]
    BY <1>4 DEF MemoryInv, MemoryTypeOK
  <2> QED
    BY <1>11, <2>1
<1> QED
    BY <1>4, <1>8, <1>10, <1>12, Followed

\* A reservation is given back.
LEMMA ReleaseStep ==
    ASSUME MemoryInv, NEW t \in Threads, Release(t) PROVE MemoryInv'
<1>1. PICK n \in Nat : n = thread[t].bytes
    BY ThreadFacts
<1>2. PICK v \in Int : v = SaturatingSub(used, n)
    BY ThreadFacts DEF SaturatingSub
<1>3. thread[t].at = "held" /\ used' = (used - n) % Word
      /\ thread' = [thread EXCEPT ![t].at = "uncount", ![t].seen = v]
      /\ UNCHANGED <<budget, counter, ceiling>>
    BY <1>1, <1>2 DEF Release, At, WrappingSub
<1>4. PICK r : r = At2(thread[t], "uncount", v)
    OBVIOUS
<1>5. thread' = [thread EXCEPT ![t] = r]
    BY <1>3, <1>4, ThreadFacts DEF At2, ThreadType
<1>6. /\ r \in ThreadType /\ r.at = "uncount" /\ r.bytes = n
      /\ r.subsystem = thread[t].subsystem /\ Goes(t, r)
  <2>1. thread[t].at \in GrantedAt \cup CountedAt
    BY <1>3 DEF GrantedAt, CountedAt
  <2>2. HeldOn(t, "uncount", r)
    BY <1>4, <1>5, <2>1, HeldMoves
  <2> QED
    BY <1>1, <2>2 DEF HeldOn
<1>7. ToUsed(thread[t]) = n /\ ToUsed(r) = 0
    BY <1>1, <1>3, <1>6 DEF ToUsed, GrantedAt
<1>8. used >= n
    BY <1>6, <1>7 DEF Goes
<1>9. used - n \in 0 .. Word - 1
    BY <1>8, ThreadFacts
<1>10. (used - n) % Word = used - n
    BY <1>9, ThreadFacts
<1>11. used' = used - ToUsed(thread[t]) + ToUsed(r) /\ used' \in Nat /\ used' <= ceiling
    BY <1>3, <1>7, <1>8, <1>9, <1>10, ThreadFacts
<1>12. ASSUME NEW s \in Subsystems
       PROVE  counter[s] = counter[s] - ToCounter(thread[t], s) + ToCounter(r, s)
  <2>1. counter[s] \in Nat
    BY DEF MemoryInv, MemoryTypeOK
  <2>2. ToCounter(thread[t], s) = ToCounter(r, s) /\ ToCounter(r, s) \in Nat
    BY <1>1, <1>3, <1>6 DEF ToCounter, CountedAt
  <2> QED
    BY <2>1, <2>2
<1>13. counter' = [s \in Subsystems |-> counter[s] - ToCounter(thread[t], s) + ToCounter(r, s)]
    BY <1>3, <1>12 DEF MemoryInv, MemoryTypeOK
<1> QED
    BY <1>3, <1>6, <1>11, <1>13, Followed

\* The budget is set.
LEMMA SetBudgetStep ==
    ASSUME MemoryInv, NEW b \in Budgets, SetBudget(b) PROVE MemoryInv'
<1>1. budget' = b /\ ceiling' = (IF b > ceiling THEN b ELSE ceiling)
      /\ UNCHANGED <<used, counter, thread>>
    BY DEF SetBudget
<1>2. ceiling \in Nat /\ b \in Nat /\ ceiling \in Budgets
    BY MemoryAssumption DEF MemoryInv, MemoryTypeOK
<1>3. ceiling' \in Budgets /\ ceiling' \in Nat /\ budget' <= ceiling' /\ ceiling <= ceiling'
    BY <1>1, <1>2
<1>4. MemoryTypeOK'
    BY <1>1, <1>3 DEF MemoryInv, MemoryTypeOK
<1>5. ASSUME NEW t \in Threads PROVE WithinLimit(thread'[t], ceiling')
  <2>1. thread'[t].limit \in Nat /\ WithinLimit(thread'[t], ceiling)
    BY <1>1, ThreadFacts
  <2> QED
    BY <1>2, <1>3, <2>1 DEF WithinLimit
<1>6. UsedIsGranted'
    BY <1>1 DEF MemoryInv, NeverOvercommitted, UsedIsGranted, Bytes, Granted, Counted
<1>7. used' <= ceiling'
    BY <1>1, <1>2, <1>3 DEF MemoryInv, MemoryTypeOK, NeverOvercommitted
<1> QED
    BY <1>3, <1>4, <1>5, <1>6, <1>7 DEF MemoryInv, NeverOvercommitted

\* Nothing is reserved at first.
LEMMA MemoryInitInv == MemoryInit => MemoryInv
<1> SUFFICES ASSUME MemoryInit PROVE MemoryInv
    OBVIOUS
<1>1. MemoryTypeOK
    BY NoReservationType DEF MemoryInit, MemoryTypeOK
<1>2. ceiling = budget /\ budget \in Nat /\ used = 0
    BY MemoryAssumption DEF MemoryInit
<1>3. \A t \in Threads : WithinLimit(thread[t], ceiling)
    BY <1>2, NoReservationType DEF MemoryInit, WithinLimit, GrantedAt, CountedAt
<1>4. Granted = {} /\ \A s \in Subsystems : Counted(s) = {}
    BY NoReservationType DEF MemoryInit, Granted, Counted
<1>5. BytesOf(thread, {}) = 0
  <2>1. EachByte(thread, {}) = {}
    BY DEF EachByte
  <2> QED
    BY <2>1, FS_EmptySet DEF EachByte, BytesOf
<1>6. UsedIsGranted
    BY <1>2, <1>4, <1>5 DEF UsedIsGranted, Bytes, MemoryInit
<1> QED
    BY <1>1, <1>2, <1>3, <1>6 DEF MemoryInv, NeverOvercommitted

\* Every step keeps the invariant.
LEMMA MemoryNextInv == MemoryInv /\ [MemoryNext]_memoryVars => MemoryInv'
<1> SUFFICES ASSUME MemoryInv, [MemoryNext]_memoryVars PROVE MemoryInv'
    OBVIOUS
<1>1. CASE \E t \in Threads : ThreadStep(t)
  <2>1. PICK t \in Threads : ThreadStep(t)
    BY <1>1
  <2>2. CASE \E s \in Subsystems, n \in Sizes : LoadBudget(t, s, n)
    BY <2>2, LoadStep
  <2>3. CASE Reserve(t)
    BY <2>3, ReserveStep
  <2>4. CASE Refuse(t) \/ Unflag(t)
    BY <2>4, EndSteps
  <2>5. CASE Count(t) \/ Uncount(t)
    BY <2>5, CountSteps
  <2>6. CASE Flag(t)
    BY <2>6, FlagStep
  <2>7. CASE Release(t)
    BY <2>7, ReleaseStep
  <2> QED
    BY <2>1, <2>2, <2>3, <2>4, <2>5, <2>6, <2>7 DEF ThreadStep
<1>2. CASE \E b \in Budgets : SetBudget(b)
    BY <1>2, SetBudgetStep
<1>3. CASE UNCHANGED memoryVars
  <2>1. MemoryTypeOK' /\ (budget <= ceiling)'
    BY <1>3 DEF memoryVars, MemoryInv, MemoryTypeOK
  <2>2. \A t \in Threads : WithinLimit(thread'[t], ceiling')
    BY <1>3 DEF memoryVars, MemoryInv
  <2>3. NeverOvercommitted'
    BY <1>3 DEF memoryVars, MemoryInv, NeverOvercommitted, UsedIsGranted, Bytes, Granted, Counted
  <2> QED
    BY <2>1, <2>2, <2>3 DEF MemoryInv
<1> QED
    BY <1>1, <1>2, <1>3 DEF MemoryNext

\* memory.rs, MEM1: try_allocate and release keep an exact account of what
\* concurrent callers hold, and never let it pass the largest budget, whatever
\* the callers, their sizes and the changes of the budget.
THEOREM MemoryIsAccounted == MemorySpec => []NeverOvercommitted
<1>1. MemoryInv => NeverOvercommitted
    BY DEF MemoryInv
<1> QED
    BY <1>1, MemoryInitInv, MemoryNextInv, PTL DEF MemorySpec
=============================================================================
