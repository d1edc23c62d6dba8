---------------------- MODULE SourcePublicationProofs ----------------------
(***************************************************************************)
(* Proofs that writers are serialized, that a published generation is      *)
(* never staged again, that no reader and no restart misses a row, and     *)
(* that a staged attempt can always be sealed, for any number of paths,    *)
(* workers, readers and generations, any depth limit and any cache size.   *)
(*                                                                         *)
(* IInv carries the first two: the target of a flow is newer than every    *)
(* published generation when the flow begins, and stays so because no      *)
(* operation but its own can publish before it ends.  After the head was   *)
(* damaged only the stores tell what was published: the record of the      *)
(* newest published generation is never pruned, so that the high water of  *)
(* a recovery is above it.                                                 *)
(*                                                                         *)
(* RowInv carries the others.  It relates records, views and rows: a view  *)
(* in memory is what the record files resolve to, as long as they still    *)
(* do; every published generation the boundary has not retired is          *)
(* Complete, which says that its chain resolves within the depth limit and *)
(* that every revision it selects is in both stores, of one attempt; and   *)
(* Layers says that a newer generation selects, of the revisions no newer  *)
(* than a served one, only those the served one selects too.  That is why  *)
(* a purge that spares the rows of the active view spares those of every   *)
(* later one.  What load's recursion computes is proved from the existence *)
(* of its recursive function (WalkExists), which holds because parents go  *)
(* down.                                                                   *)
(***************************************************************************)
EXTENDS SourcePublication, FiniteSetTheorems, WellFoundedInduction, TLAPS

-----------------------------------------------------------------------------
(* The inductive invariant.                                                *)

\* Functions and records keep their domains.
IsFlow(f) ==
    f = [pc |-> f.pc, kind |-> f.kind, base |-> f.base, target |-> f.target,
         changed |-> f.changed, deleted |-> f.deleted, buffered |-> f.buffered,
         cancelled |-> f.cancelled, leases |-> f.leases]

IsOp(o) ==
    o = [kind |-> o.kind, target |-> o.target, path |-> o.path, fresh |-> o.fresh,
         leases |-> o.leases]

IsRecord(r) ==
    r = [state |-> r.state, parent |-> r.parent, files |-> r.files,
         changed |-> r.changed, deleted |-> r.deleted]

ShapeOfFlow == flow = [w \in Workers |-> flow[w]] /\ \A w \in Workers : IsFlow(flow[w])
ShapeOfOp   == op = [w \in Workers |-> op[w]] /\ \A w \in Workers : IsOp(op[w])
ShapeOfRecords ==
    records = [g \in Generations |-> records[g]] /\ \A g \in Generations : IsRecord(records[g])

Shape == ShapeOfFlow /\ ShapeOfOp /\ ShapeOfRecords

\* Every generation the registry, the boundaries and the tasks name is one.
Typed ==
    /\ head \in Generations \cup {Missing}
    /\ managed \in BOOLEAN
    /\ sequence \in Int
    /\ legacyThrough \in Generations \cup {Missing}
    /\ retiredBefore \in Generations \cup {Missing}
    /\ published \subseteq Generations
    /\ \A w \in Workers :
         /\ flow[w].base \in Generations /\ flow[w].target \in Generations
         /\ op[w].target \in Generations

\* A request that runs holds the update lock.
Locked == \A w \in Workers : flow[w].pc # "idle" => lock = w

\* One operation runs, and it belongs to the flow that writes, if one does.
Single ==
    \A v \in Workers : op[v].kind # "none" =>
        \A w \in Workers :
            /\ op[w].kind # "none" => v = w
            /\ flow[w].pc \notin {"idle", "collecting"} => v = w

Staged == {"prepared", "clearing", "cleared", "writing", "embedding", "indexed", "sealed",
           "publishing"}

\* A flow stages a generation newer than every published one, under a record
\* that stays; what it publishes it has recorded, and it waits for it.
Fresh ==
    \A w \in Workers :
        /\ flow[w].pc \in Staged \cup {"begun"} => \A p \in published : p < flow[w].target
        /\ flow[w].pc \in Staged => records[flow[w].target].state # "none"
        /\ op[w].kind = "publish" =>
              /\ \A p \in published : p < op[w].target
              /\ records[op[w].target].state # "none"
              /\ \/ flow[w].pc = "idle"
                 \/ flow[w].pc = "publishing" /\ flow[w].target = op[w].target

\* A flow collects for a generation that was published.
Collecting ==
    \A w \in Workers :
        flow[w].pc \in {"published", "collecting"} => flow[w].target \in published

\* The head is the newest published generation; of a published source, the
\* record of that generation is kept, even when the head is damaged.
Newest ==
    /\ head # Missing => head \in published /\ \A p \in published : p <= head
    /\ head = Missing => managed
    /\ managed => \E m \in published :
          /\ \A p \in published : p <= m
          /\ records[m].state # "none"

IInv == Shape /\ Typed /\ Locked /\ Single /\ Fresh /\ Collecting /\ Newest

-----------------------------------------------------------------------------
(* The newest of a set of generations.                                     *)

\* A bounded set of integers that is not empty has a largest element.
LEMMA LargestIsLargest ==
    ASSUME NEW S, S \subseteq Int, S # {}, NEW bound \in Int, \A x \in S : x <= bound
    PROVE  Largest(S) \in S /\ \A y \in S : y <= Largest(S)
  <1> DEFINE R == OpToRel(<, Nat)
             T == {bound - x : x \in S}
  <1>1. IsWellFoundedOn(R, Nat)
    BY NatLessThanWellFounded
  <1>0. \A x \in S : bound - x \in Nat
    OBVIOUS
  <1>2. T \subseteq Nat /\ T # {}
    BY <1>0
  <1>3. \A a, b \in Nat : a < b => <<a, b>> \in R
    BY DEF OpToRel
  <1> HIDE DEF R
  <1>4. \E x \in T : \A y \in T : ~ (<<y, x>> \in R)
    BY <1>1, <1>2, WFMin
  <1>5. PICK x \in S : \A y \in T : ~ (<<y, bound - x>> \in R)
    BY <1>4
  <1>6. \A y \in S : y <= x
    <2> SUFFICES ASSUME NEW y \in S, x < y
                 PROVE  FALSE
      OBVIOUS
    <2>1. bound - y \in T /\ bound - x \in T /\ bound - y < bound - x
      OBVIOUS
    <2> QED
      BY <2>1, <1>2, <1>3, <1>5
  <1> QED
    BY <1>5, <1>6 DEF Largest

-----------------------------------------------------------------------------
(* Shapes.                                                                 *)

\* A record is sealed.
LEMMA EditRecord ==
    ASSUME NEW r, IsRecord(r)
    PROVE  IsRecord([r EXCEPT !.state = "sealed"]) /\ [r EXCEPT !.state = "sealed"].state = "sealed"
  <1> DEFINE h == [r EXCEPT !.state = "sealed"]
  <1>1. h = [state |-> "sealed", parent |-> r.parent, files |-> r.files,
             changed |-> r.changed, deleted |-> r.deleted]
    BY DEF IsRecord
  <1> HIDE DEF h
  <1>2. IsRecord(h) /\ h.state = "sealed"
    BY <1>1 DEF IsRecord
  <1> QED
    BY <1>2 DEF h

\* A flow is replaced.
LEMMA SetFlow ==
    ASSUME ShapeOfFlow, NEW w \in Workers, NEW r, IsFlow(r), flow' = [flow EXCEPT ![w] = r]
    PROVE  /\ ShapeOfFlow'
           /\ flow'[w] = r
           /\ \A v \in Workers \ {w} : flow'[v] = flow[v]
  <1>1. flow'[w] = r /\ \A v \in Workers \ {w} : flow'[v] = flow[v]
    BY DEF ShapeOfFlow
  <1>2. flow' = [v \in Workers |-> flow'[v]]
    BY DEF ShapeOfFlow
  <1>3. \A v \in Workers : IsFlow(flow'[v])
    BY <1>1 DEF ShapeOfFlow
  <1> QED
    BY <1>1, <1>2, <1>3 DEF ShapeOfFlow, IsFlow


\* An operation is replaced.
LEMMA SetOp ==
    ASSUME ShapeOfOp, NEW w \in Workers, NEW r, IsOp(r), op' = [op EXCEPT ![w] = r]
    PROVE  /\ ShapeOfOp'
           /\ op'[w] = r
           /\ \A v \in Workers \ {w} : op'[v] = op[v]
  <1>1. op'[w] = r /\ \A v \in Workers \ {w} : op'[v] = op[v]
    BY DEF ShapeOfOp
  <1>2. op' = [v \in Workers |-> op'[v]]
    BY DEF ShapeOfOp
  <1>3. \A v \in Workers : IsOp(op'[v])
    BY <1>1 DEF ShapeOfOp
  <1> QED
    BY <1>1, <1>2, <1>3 DEF ShapeOfOp, IsOp


\* A record is replaced.
LEMMA SetRecord ==
    ASSUME ShapeOfRecords, NEW g \in Generations, NEW r, IsRecord(r),
           records' = [records EXCEPT ![g] = r]
    PROVE  /\ ShapeOfRecords'
           /\ records'[g] = r
           /\ \A h \in Generations \ {g} : records'[h] = records[h]
  <1>1. records'[g] = r /\ \A h \in Generations \ {g} : records'[h] = records[h]
    BY DEF ShapeOfRecords
  <1>2. records' = [h \in Generations |-> records'[h]]
    BY DEF ShapeOfRecords
  <1>3. \A h \in Generations : IsRecord(records'[h])
    BY <1>1 DEF ShapeOfRecords
  <1> QED
    BY <1>1, <1>2, <1>3 DEF ShapeOfRecords, IsRecord

\* A flow goes on: its place changes and, with it, what it has left to write,
\* what its writer buffers, or its leases.
LEMMA MoveFlow ==
    ASSUME ShapeOfFlow, NEW w \in Workers, NEW pc, NEW x,
           \/ flow' = [flow EXCEPT ![w].pc = pc]
           \/ flow' = [flow EXCEPT ![w].pc = pc, ![w].changed = x]
           \/ flow' = [flow EXCEPT ![w].pc = pc, ![w].buffered = x]
           \/ flow' = [flow EXCEPT ![w].pc = pc, ![w].leases = x]
    PROVE  /\ ShapeOfFlow'
           /\ flow'[w].pc = pc
           /\ flow'[w].target = flow[w].target /\ flow'[w].base = flow[w].base
           /\ \A v \in Workers \ {w} : flow'[v] = flow[v]
  <1> DEFINE f == flow[w]
             h == [f EXCEPT !.pc = pc]
             c == [h EXCEPT !.changed = x]
             b == [h EXCEPT !.buffered = x]
             l == [h EXCEPT !.leases = x]
  <1>1. IsFlow(f)
    BY DEF ShapeOfFlow
  <1>2. \/ flow' = [flow EXCEPT ![w] = h]
        \/ flow' = [flow EXCEPT ![w] = c]
        \/ flow' = [flow EXCEPT ![w] = b]
        \/ flow' = [flow EXCEPT ![w] = l]
    BY DEF ShapeOfFlow
  <1> HIDE DEF f
  <1>3. h = [pc |-> pc, kind |-> f.kind, base |-> f.base, target |-> f.target,
             changed |-> f.changed, deleted |-> f.deleted, buffered |-> f.buffered,
             cancelled |-> f.cancelled, leases |-> f.leases]
    BY <1>1 DEF IsFlow
  <1> HIDE DEF h
  <1>4. c = [pc |-> pc, kind |-> f.kind, base |-> f.base, target |-> f.target, changed |-> x,
             deleted |-> f.deleted, buffered |-> f.buffered, cancelled |-> f.cancelled,
             leases |-> f.leases]
    BY <1>3
  <1>5. b = [pc |-> pc, kind |-> f.kind, base |-> f.base, target |-> f.target,
             changed |-> f.changed, deleted |-> f.deleted, buffered |-> x,
             cancelled |-> f.cancelled, leases |-> f.leases]
    BY <1>3
  <1>6. l = [pc |-> pc, kind |-> f.kind, base |-> f.base, target |-> f.target,
             changed |-> f.changed, deleted |-> f.deleted, buffered |-> f.buffered,
             cancelled |-> f.cancelled, leases |-> x]
    BY <1>3
  <1> HIDE DEF c, b, l
  <1>7. PICK r \in {h, c, b, l} : flow' = [flow EXCEPT ![w] = r]
    BY <1>2
  <1>8. /\ IsFlow(h) /\ h.pc = pc /\ h.target = f.target /\ h.base = f.base
        /\ IsFlow(c) /\ c.pc = pc /\ c.target = f.target /\ c.base = f.base
        /\ IsFlow(b) /\ b.pc = pc /\ b.target = f.target /\ b.base = f.base
        /\ IsFlow(l) /\ l.pc = pc /\ l.target = f.target /\ l.base = f.base
    <2>1. IsFlow(h) /\ h.pc = pc /\ h.target = f.target /\ h.base = f.base
      BY <1>3 DEF IsFlow
    <2>2. IsFlow(c) /\ c.pc = pc /\ c.target = f.target /\ c.base = f.base
      BY <1>4 DEF IsFlow
    <2>3. IsFlow(b) /\ b.pc = pc /\ b.target = f.target /\ b.base = f.base
      BY <1>5 DEF IsFlow
    <2>4. IsFlow(l) /\ l.pc = pc /\ l.target = f.target /\ l.base = f.base
      BY <1>6 DEF IsFlow
    <2> QED
      BY <2>1, <2>2, <2>3, <2>4
  <1>9. IsFlow(r) /\ r.pc = pc /\ r.target = f.target /\ r.base = f.base
    BY <1>7, <1>8
  <1>10. /\ ShapeOfFlow' /\ flow'[w] = r
         /\ \A v \in Workers \ {w} : flow'[v] = flow[v]
    BY <1>7, <1>9, SetFlow
  <1> QED
    BY <1>9, <1>10 DEF f

\* The flow's cancellation token is cancelled.
LEMMA MarkCancelled ==
    ASSUME ShapeOfFlow, NEW w \in Workers, NEW x, flow' = [flow EXCEPT ![w].cancelled = x]
    PROVE  /\ ShapeOfFlow'
           /\ flow'[w].pc = flow[w].pc
           /\ flow'[w].target = flow[w].target /\ flow'[w].base = flow[w].base
           /\ \A v \in Workers \ {w} : flow'[v] = flow[v]
  <1> DEFINE f == flow[w]
             r == [f EXCEPT !.cancelled = x]
  <1>1. IsFlow(f)
    BY DEF ShapeOfFlow
  <1>2. flow' = [flow EXCEPT ![w] = r]
    OBVIOUS
  <1> HIDE DEF f
  <1>3. r = [pc |-> f.pc, kind |-> f.kind, base |-> f.base, target |-> f.target,
             changed |-> f.changed, deleted |-> f.deleted, buffered |-> f.buffered,
             cancelled |-> x, leases |-> f.leases]
    BY <1>1 DEF IsFlow
  <1> HIDE DEF r
  <1>4. IsFlow(r) /\ r.pc = f.pc /\ r.target = f.target /\ r.base = f.base
    BY <1>3 DEF IsFlow
  <1>5. /\ ShapeOfFlow' /\ flow'[w] = r
        /\ \A v \in Workers \ {w} : flow'[v] = flow[v]
    BY <1>2, <1>4, SetFlow
  <1> QED
    BY <1>4, <1>5 DEF f


\* A new request,
LEMMA NewRequest ==
    ASSUME NEW pc, NEW k, NEW b, NEW t, NEW c, NEW d, NEW l, NEW r,
           r = Request(pc, k, b, t, c, d, l)
    PROVE  IsFlow(r) /\ r.pc = pc /\ r.target = t /\ r.base = b
    BY DEF Request, IsFlow

\* ... an operation,
LEMMA NewOperation ==
    ASSUME NEW k, NEW t, NEW x, NEW l, NEW r, r = Operation(k, t, x, l)
    PROVE  IsOp(r) /\ r.kind = k /\ r.target = t
    BY DEF Operation, IsOp

\* ... and a record.
LEMMA NewRecord ==
    ASSUME NEW k, NEW h, NEW f, NEW c, NEW d, NEW r,
           r = [state |-> k, parent |-> h, files |-> f, changed |-> c, deleted |-> d]
    PROVE  IsRecord(r) /\ r.state = k
    BY DEF IsRecord

\* No flow, no operation and no record.
LEMMA EmptyShapes ==
    /\ IsFlow(NoFlow) /\ NoFlow.pc = "idle" /\ NoFlow.target = 0 /\ NoFlow.base = 0
    /\ IsOp(NoOp) /\ NoOp.kind = "none" /\ NoOp.target = 0
    /\ IsRecord(NoRecord) /\ NoRecord.state = "none"
    BY NewRequest, NewOperation, NewRecord DEF NoFlow, NoOp, NoRecord

\* The request ends.
LEMMA EndFlow ==
    ASSUME ShapeOfFlow, NEW w \in Workers, End(w)
    PROVE  /\ ShapeOfFlow'
           /\ flow'[w] = NoFlow
           /\ \A v \in Workers \ {w} : flow'[v] = flow[v]
    BY EmptyShapes, SetFlow DEF End


\* The operation ends.
LEMMA EndOp ==
    ASSUME ShapeOfOp, NEW w \in Workers, op' = [op EXCEPT ![w] = NoOp]
    PROVE  /\ ShapeOfOp'
           /\ op'[w] = NoOp
           /\ \A v \in Workers \ {w} : op'[v] = op[v]
    BY EmptyShapes, SetOp

\* A new attempt makes the operations on its generation stale.
LEMMA AgeOps ==
    ASSUME ShapeOfOp, NEW g,
           op' = [v \in Workers |-> [op[v] EXCEPT !.fresh = @ /\ op[v].target # g]]
    PROVE  ShapeOfOp' /\ \A v \in Workers : op'[v].kind = op[v].kind /\ op'[v].target = op[v].target
  <1> SUFFICES ASSUME NEW v \in Workers
               PROVE  IsOp(op'[v]) /\ op'[v].kind = op[v].kind /\ op'[v].target = op[v].target
    <2>1. op' = [v \in Workers |-> op'[v]]
      OBVIOUS
    <2> QED
      BY <2>1 DEF ShapeOfOp, IsOp
  <1> DEFINE o == op[v]
             x == o.fresh /\ o.target # g
             r == [o EXCEPT !.fresh = x]
  <1>1. IsOp(o)
    BY DEF ShapeOfOp
  <1>2. op'[v] = r
    OBVIOUS
  <1> HIDE DEF o, x
  <1>3. r = [kind |-> o.kind, target |-> o.target, path |-> o.path, fresh |-> x,
             leases |-> o.leases]
    BY <1>1 DEF IsOp
  <1> HIDE DEF r
  <1>4. IsOp(r) /\ r.kind = o.kind /\ r.target = o.target
    BY <1>3 DEF IsOp
  <1> QED
    BY <1>2, <1>4 DEF o


\* The types of a step of w that keeps its generation.
LEMMA StepTyped ==
    ASSUME Typed, NEW w \in Workers,
           UNCHANGED <<head, managed, sequence, published>>,
           legacyThrough' \in Generations \cup {Missing},
           retiredBefore' \in Generations \cup {Missing},
           \A v \in Workers \ {w} :
               flow'[v] = flow[v] /\ op'[v].target = op[v].target,
           flow'[w].base \in Generations, flow'[w].target \in Generations,
           op'[w].target \in Generations
    PROVE  Typed'
    BY DEF Typed

-----------------------------------------------------------------------------
(* What steps do to the other conjuncts.                                   *)

Core == Locked /\ Single /\ Fresh /\ Collecting /\ Newest

\* A worker's task, as far as the invariant looks at it, is unchanged.
Same(v) ==
    /\ flow'[v].pc = flow[v].pc /\ flow'[v].target = flow[v].target
    /\ op'[v].kind = op[v].kind /\ op'[v].target = op[v].target

\* No generation is published, and no record is removed that is as new as the
\* newest published generation.
Kept ==
    /\ UNCHANGED <<head, managed, published>>
    /\ \A g \in Generations :
          records[g].state # "none" /\ (\A p \in published : p <= g)
              => records'[g].state # "none"

\* What was recorded stays recorded, so the newest published one is.
LEMMA KeptNewest ==
    ASSUME Newest, Typed, Kept
    PROVE  Newest'
    BY DEF Newest, Typed, Kept

\* The records of the generations that are being staged stay.
LEMMA KeptFresh ==
    ASSUME Fresh, Typed, Kept, NEW w \in Workers
    PROVE  /\ flow[w].pc \in Staged => records'[flow[w].target].state # "none"
           /\ op[w].kind = "publish" => records'[op[w].target].state # "none"
  <1>1. \A g \in Generations : (\A p \in published : p < g) => \A p \in published : p <= g
    BY DEF Typed, Generations
  <1> QED
    BY <1>1 DEF Fresh, Typed, Kept

\* A step of the flow of w or of its operation, under the lock as it is.
LEMMA FlowStepKeeps ==
    ASSUME Core, Typed, Kept, NEW w \in Workers,
           \A v \in Workers \ {w} : Same(v),
           lock' = lock,
           flow'[w].target = flow[w].target,
           flow'[w].pc # "idle" => flow[w].pc # "idle",
           op'[w].kind # "none" => op[w].kind # "none" \/ flow[w].pc \notin {"idle", "collecting"},
           flow'[w].pc \notin {"idle", "collecting"} =>
               flow[w].pc \notin {"idle", "collecting"} \/ Quiet,
           flow'[w].pc \in Staged \cup {"begun"} => flow[w].pc \in Staged \cup {"begun"},
           flow'[w].pc \in Staged =>
               flow[w].pc \in Staged \/ records'[flow[w].target].state # "none",
           op'[w].kind = "publish" =>
               \/ op[w].kind = "publish" /\ op'[w].target = op[w].target
               \/ flow[w].pc \in Staged /\ op'[w].target = flow[w].target,
           op'[w].kind = "publish" =>
               \/ flow'[w].pc = "idle"
               \/ flow'[w].pc = "publishing" /\ flow'[w].target = op'[w].target,
           flow'[w].pc \in {"published", "collecting"} => flow[w].pc \in {"published", "collecting"}
    PROVE  Core'
  <1>1. Locked'
    BY DEF Core, Locked, Same
  <1>2. Single'
    <2> SUFFICES ASSUME NEW u \in Workers, op'[u].kind # "none", NEW v \in Workers
                 PROVE  /\ op'[v].kind # "none" => u = v
                        /\ flow'[v].pc \notin {"idle", "collecting"} => u = v
      BY DEF Single
    <2>0. \A x, y \in Workers : op[x].kind # "none" =>
              /\ op[y].kind # "none" => x = y
              /\ flow[y].pc \notin {"idle", "collecting"} => x = y
      BY DEF Core, Single
    <2>00. Quiet => \A x \in Workers : op[x].kind = "none"
      BY DEF Quiet, Operations
    <2>1. \A x \in Workers : op'[x].kind # "none" =>
              op[x].kind # "none" \/ (x = w /\ flow[x].pc \notin {"idle", "collecting"})
      BY DEF Same
    <2>2. op'[v].kind # "none" => u = v
      BY <2>0, <2>1
    <2>3. flow[v].pc \notin {"idle", "collecting"} => u = v
      <3>1. CASE op[u].kind # "none"
        BY <2>0, <3>1
      <3>2. CASE op[u].kind = "none"
        <4>1. u = w /\ flow[w].pc \notin {"idle", "collecting"}
          BY <2>1, <3>2
        <4> QED
          BY <4>1 DEF Core, Locked
      <3> QED
        BY <3>1, <3>2
    <2>4. CASE v # w
      BY <2>2, <2>3, <2>4 DEF Same
    <2>5. CASE v = w
      <3> SUFFICES ASSUME flow'[w].pc \notin {"idle", "collecting"}, u # w
                   PROVE  FALSE
        BY <2>2, <2>5
      <3>1. op[u].kind # "none"
        BY DEF Same
      <3>2. flow[w].pc \notin {"idle", "collecting"}
        BY <3>1, <2>00
      <3> QED
        BY <3>1, <3>2, <2>0
    <2> QED
      BY <2>4, <2>5
  <1>3. Fresh'
    <2> SUFFICES ASSUME NEW v \in Workers
                 PROVE  /\ flow'[v].pc \in Staged \cup {"begun"} =>
                              \A p \in published : p < flow'[v].target
                        /\ flow'[v].pc \in Staged => records'[flow'[v].target].state # "none"
                        /\ op'[v].kind = "publish" =>
                              /\ \A p \in published : p < op'[v].target
                              /\ records'[op'[v].target].state # "none"
                              /\ \/ flow'[v].pc = "idle"
                                 \/ flow'[v].pc = "publishing" /\ flow'[v].target = op'[v].target
      BY DEF Fresh, Kept
    <2>f. /\ flow[v].pc \in Staged \cup {"begun"} => \A p \in published : p < flow[v].target
          /\ flow[v].pc \in Staged => records'[flow[v].target].state # "none"
          /\ op[v].kind = "publish" =>
                /\ \A p \in published : p < op[v].target
                /\ records'[op[v].target].state # "none"
                /\ \/ flow[v].pc = "idle"
                   \/ flow[v].pc = "publishing" /\ flow[v].target = op[v].target
      BY KeptFresh DEF Core, Fresh
    <2>1. CASE v # w
      BY <2>1, <2>f DEF Same
    <2>2. CASE v = w
      BY <2>2, <2>f
    <2> QED
      BY <2>1, <2>2
  <1>4. Collecting'
    BY DEF Core, Collecting, Same, Kept
  <1>5. Newest'
    BY KeptNewest DEF Core
  <1> QED
    BY <1>1, <1>2, <1>3, <1>4, <1>5 DEF Core

\* The request of w ends, its operation may with it.
LEMMA EndKeeps ==
    ASSUME Core, Typed, Kept, NEW w \in Workers,
           \A v \in Workers \ {w} : Same(v),
           flow[w].pc # "idle",
           flow'[w].pc = "idle", lock' = NoWorker,
           op'[w].kind = "none" \/ (op'[w].kind = op[w].kind /\ op'[w].target = op[w].target)
    PROVE  Core'
  <1>0. \A v \in Workers \ {w} : flow[v].pc = "idle"
    BY DEF Core, Locked
  <1>i. \A v \in Workers : flow'[v].pc = "idle"
    BY <1>0 DEF Same
  <1>1. Locked'
    BY <1>i DEF Locked
  <1>2. Single'
    BY <1>i DEF Core, Single, Same
  <1>3. Fresh'
    <2>1. \A v \in Workers : op'[v].kind = "publish" =>
              op[v].kind = "publish" /\ op'[v].target = op[v].target
      BY DEF Same
    <2>2. \A v \in Workers : op[v].kind = "publish" =>
              /\ \A p \in published : p < op[v].target
              /\ records'[op[v].target].state # "none"
      BY KeptFresh DEF Core, Fresh
    <2> QED
      BY <1>i, <2>1, <2>2 DEF Fresh, Kept, Staged
  <1>4. Collecting'
    BY <1>i DEF Collecting
  <1>5. Newest'
    BY KeptNewest DEF Core
  <1> QED
    BY <1>1, <1>2, <1>3, <1>4, <1>5 DEF Core

\* Places of a flow while it writes.
LEMMA WritingSteps ==
    ASSUME IInv, NEW w \in Workers, ClearLexical(w) \/ CancelToken(w) \/ FinishIndexing(w)
    PROVE  IInv'
  <1>0. Shape /\ Typed /\ Core /\ ShapeOfFlow
    BY DEF IInv, Core, Shape
  <1>1. /\ UNCHANGED <<head, managed, sequence, published, records, legacyThrough,
                       retiredBefore, lock, op>>
    BY DEF ClearLexical, CancelToken, FinishIndexing, registry, catalog
  <1>2. /\ ShapeOfFlow'
        /\ flow'[w].target = flow[w].target /\ flow'[w].base = flow[w].base
        /\ \A v \in Workers \ {w} : flow'[v] = flow[v]
        /\ flow[w].pc \in {"cleared", "writing", "embedding"}
        /\ flow'[w].pc \in {"writing", "embedding", "indexed"}
    <2>1. CASE ClearLexical(w)
      BY <2>1, <1>0, MoveFlow DEF ClearLexical, Step
    <2>2. CASE CancelToken(w)
      <3>1. flow' = [flow EXCEPT ![w].cancelled = TRUE] /\ flow[w].pc \in {"writing", "embedding"}
        BY <2>2 DEF CancelToken
      <3> QED
        BY <1>0, <3>1, MarkCancelled
    <2>3. CASE FinishIndexing(w)
      <3>1. /\ flow' = [flow EXCEPT ![w].pc = "indexed", ![w].buffered = {}]
            /\ flow[w].pc = "writing"
        BY <2>3 DEF FinishIndexing
      <3> QED
        BY <1>0, <3>1, MoveFlow
    <2> QED
      BY <2>1, <2>2, <2>3
  <1>3. Typed'
    BY <1>0, <1>1, <1>2, StepTyped DEF Typed
  <1>4. Kept
    BY <1>1 DEF Kept
  <1>5. \A v \in Workers \ {w} : Same(v)
    BY <1>1, <1>2 DEF Same
  <1>6. op[w].kind # "publish"
    BY <1>0, <1>2 DEF Core, Fresh
  <1>7. Core'
    BY <1>0, <1>1, <1>2, <1>4, <1>5, <1>6, FlowStepKeeps DEF Staged
  <1>8. Shape'
    BY <1>0, <1>1, <1>2 DEF Shape, ShapeOfOp, ShapeOfRecords
  <1> QED
    BY <1>3, <1>7, <1>8 DEF IInv, Core

\* A flow starts an operation for its generation.
LEMMA LaunchSteps ==
    ASSUME IInv, NEW w \in Workers,
           \/ ClearVector(w) \/ StartPublish(w) \/ PurgeLexical(w)
           \/ \E p \in Paths : WriteFile(w, p)
    PROVE  IInv'
  <1>0. Shape /\ Typed /\ Core /\ ShapeOfFlow /\ ShapeOfOp
    BY DEF IInv, Core, Shape
  <1>1. /\ UNCHANGED <<head, managed, sequence, published, records, legacyThrough,
                       retiredBefore, lock>>
    BY DEF ClearVector, StartPublish, PurgeLexical, WriteFile, registry, catalog
  <1>2. /\ ShapeOfOp' /\ op'[w].target = flow[w].target
        /\ \A v \in Workers \ {w} : op'[v] = op[v]
        /\ ShapeOfFlow'
        /\ flow'[w].target = flow[w].target /\ flow'[w].base = flow[w].base
        /\ \A v \in Workers \ {w} : flow'[v] = flow[v]
        /\ \/ flow[w].pc = "protected" /\ flow'[w].pc = "purging" /\ op'[w].kind = "purge"
           \/ /\ flow[w].pc \in Staged /\ flow'[w].pc \in Staged
              /\ op'[w].kind = "publish" => flow'[w].pc = "publishing"
    <2>1. CASE ClearVector(w)
      <3> DEFINE o == Operation("clear", flow[w].target, {}, {})
      <3>1. op' = [op EXCEPT ![w] = o]
        BY <2>1 DEF ClearVector, Launch
      <3>o. IsOp(o) /\ o.kind = "clear" /\ o.target = flow[w].target
        BY NewOperation
      <3> HIDE DEF o
      <3>2. flow' = [flow EXCEPT ![w].pc = "clearing"] /\ flow[w].pc = "prepared"
        BY <2>1 DEF ClearVector, Launch, Step
      <3>3. /\ ShapeOfOp' /\ op'[w].target = flow[w].target /\ op'[w].kind = "clear"
            /\ \A v \in Workers \ {w} : op'[v] = op[v]
        BY <1>0, <3>1, <3>o, SetOp
      <3>4. /\ ShapeOfFlow' /\ flow'[w].pc \in Staged
            /\ flow'[w].target = flow[w].target /\ flow'[w].base = flow[w].base
            /\ \A v \in Workers \ {w} : flow'[v] = flow[v]
        BY <1>0, <3>2, MoveFlow DEF Staged
      <3> QED
        BY <3>2, <3>3, <3>4 DEF Staged
    <2>2. CASE StartPublish(w)
      <3> DEFINE o == Operation("publish", flow[w].target, {}, {})
      <3>1. op' = [op EXCEPT ![w] = o]
        BY <2>2 DEF StartPublish, Launch
      <3>o. IsOp(o) /\ o.kind = "publish" /\ o.target = flow[w].target
        BY NewOperation
      <3> HIDE DEF o
      <3>2. flow' = [flow EXCEPT ![w].pc = "publishing"] /\ flow[w].pc = "sealed"
        BY <2>2 DEF StartPublish, Launch, Step
      <3>3. /\ ShapeOfOp' /\ op'[w].target = flow[w].target /\ op'[w].kind = "publish"
            /\ \A v \in Workers \ {w} : op'[v] = op[v]
        BY <1>0, <3>1, <3>o, SetOp
      <3>4. /\ ShapeOfFlow' /\ flow'[w].pc = "publishing"
            /\ flow'[w].target = flow[w].target /\ flow'[w].base = flow[w].base
            /\ \A v \in Workers \ {w} : flow'[v] = flow[v]
        BY <1>0, <3>2, MoveFlow DEF Staged
      <3> QED
        BY <3>2, <3>3, <3>4 DEF Staged
    <2>3. CASE PurgeLexical(w)
      <3> DEFINE o == Operation("purge", flow[w].target, {}, flow[w].leases)
      <3>1. op' = [op EXCEPT ![w] = o]
        BY <2>3 DEF PurgeLexical, Launch
      <3>o. IsOp(o) /\ o.kind = "purge" /\ o.target = flow[w].target
        BY NewOperation
      <3> HIDE DEF o
      <3>2. flow' = [flow EXCEPT ![w].pc = "purging"] /\ flow[w].pc = "protected"
        BY <2>3 DEF PurgeLexical, Launch, Step
      <3>3. /\ ShapeOfOp' /\ op'[w].target = flow[w].target /\ op'[w].kind = "purge"
            /\ \A v \in Workers \ {w} : op'[v] = op[v]
        BY <1>0, <3>1, <3>o, SetOp
      <3>4. /\ ShapeOfFlow' /\ flow'[w].pc = "purging"
            /\ flow'[w].target = flow[w].target /\ flow'[w].base = flow[w].base
            /\ \A v \in Workers \ {w} : flow'[v] = flow[v]
        BY <1>0, <3>2, MoveFlow
      <3> QED
        BY <3>2, <3>3, <3>4
    <2>4. CASE \E p \in Paths : WriteFile(w, p)
      <3>0. PICK p \in Paths : WriteFile(w, p)
        BY <2>4
      <3> DEFINE o == Operation("write", flow[w].target, {p}, {})
      <3>1. op' = [op EXCEPT ![w] = o]
        BY <3>0 DEF WriteFile
      <3>o. IsOp(o) /\ o.kind = "write" /\ o.target = flow[w].target
        BY NewOperation
      <3> HIDE DEF o
      <3>2. PICK commit \in BOOLEAN :
               flow' = [flow EXCEPT ![w].pc = "embedding",
                           ![w].buffered = IF commit THEN {} ELSE @ \cup {p}]
        BY <3>0 DEF WriteFile
      <3>3. PICK b : flow' = [flow EXCEPT ![w].pc = "embedding", ![w].buffered = b]
        <4>1. CASE commit
          BY <3>2, <4>1
        <4>2. CASE ~ commit
          BY <3>2, <4>2
        <4> QED
          BY <4>1, <4>2
      <3>4. flow[w].pc = "writing"
        BY <3>0 DEF WriteFile
      <3>5. /\ ShapeOfFlow' /\ flow'[w].pc = "embedding"
            /\ flow'[w].target = flow[w].target /\ flow'[w].base = flow[w].base
            /\ \A v \in Workers \ {w} : flow'[v] = flow[v]
        BY <1>0, <3>3, MoveFlow
      <3>6. /\ ShapeOfOp' /\ op'[w].target = flow[w].target /\ op'[w].kind = "write"
            /\ \A v \in Workers \ {w} : op'[v] = op[v]
        BY <1>0, <3>1, <3>o, SetOp
      <3> QED
        BY <3>4, <3>5, <3>6 DEF Staged
    <2> QED
      BY <2>1, <2>2, <2>3, <2>4
  <1>6. Typed'
    BY <1>0, <1>1, <1>2, StepTyped DEF Typed
  <1>7. Kept
    BY <1>1 DEF Kept
  <1>8. \A v \in Workers \ {w} : Same(v)
    BY <1>2 DEF Same
  <1>9. flow[w].pc \notin {"idle", "collecting"} /\ flow'[w].pc \notin {"published", "collecting", "begun"}
    BY <1>2 DEF Staged
  <1>10. Core'
    BY <1>0, <1>1, <1>2, <1>7, <1>8, <1>9, FlowStepKeeps DEF Staged
  <1>11. Shape'
    BY <1>0, <1>1, <1>2 DEF Shape, ShapeOfRecords
  <1> QED
    BY <1>6, <1>10, <1>11 DEF IInv, Core

\* The request of w ends, its operation may with it.
LEMMA EndStep ==
    ASSUME IInv, NEW w \in Workers, flow[w].pc # "idle", End(w), Kept, sequence' = sequence,
           ShapeOfRecords', legacyThrough' \in Generations \cup {Missing},
           retiredBefore' \in Generations \cup {Missing},
           op' = op \/ op' = [op EXCEPT ![w] = NoOp]
    PROVE  IInv'
  <1>0. Shape /\ Typed /\ Core /\ ShapeOfFlow /\ ShapeOfOp
    BY DEF IInv, Core, Shape
  <1>1. ShapeOfFlow' /\ flow'[w] = NoFlow /\ \A v \in Workers \ {w} : flow'[v] = flow[v]
    BY <1>0, EndFlow
  <1>2. ShapeOfOp' /\ (\A v \in Workers \ {w} : op'[v] = op[v]) /\ op'[w] \in {op[w], NoOp}
    <2>1. CASE op' = op
      BY <2>1, <1>0 DEF ShapeOfOp
    <2>2. CASE op' = [op EXCEPT ![w] = NoOp]
      BY <2>2, <1>0, EndOp
    <2> QED
      BY <2>1, <2>2
  <1>3. 0 \in Generations
    BY PublicationAssumption DEF Generations
  <1>4. /\ flow'[w].pc = "idle" /\ flow'[w].target = 0 /\ flow'[w].base = 0
        /\ NoOp.kind = "none" /\ NoOp.target = 0
    BY <1>1, EmptyShapes
  <1>5. op'[w].kind = "none" \/ (op'[w].kind = op[w].kind /\ op'[w].target = op[w].target)
    BY <1>2, <1>4
  <1>6. op'[w].target \in Generations
    BY <1>0, <1>2, <1>3, <1>4 DEF Typed
  <1>7. Typed'
    BY <1>0, <1>1, <1>2, <1>3, <1>4, <1>6, StepTyped DEF Kept
  <1>8. \A v \in Workers \ {w} : Same(v)
    BY <1>1, <1>2 DEF Same
  <1>9. lock' = NoWorker
    BY DEF End
  <1>10. Core'
    BY <1>0, <1>4, <1>5, <1>8, <1>9, EndKeeps
  <1> QED
    BY <1>1, <1>2, <1>7, <1>10 DEF IInv, Core, Shape

\* The operation of w ends and its flow, if it waited, goes on writing.
LEMMA OpStep ==
    ASSUME IInv, NEW w \in Workers, op' = [op EXCEPT ![w] = NoOp], lock' = lock,
           UNCHANGED <<head, managed, sequence, published, records, legacyThrough, retiredBefore>>,
           ShapeOfFlow', \A v \in Workers \ {w} : flow'[v] = flow[v],
           flow'[w].target = flow[w].target, flow'[w].base = flow[w].base,
           \/ flow'[w].pc = flow[w].pc
           \/ flow[w].pc \in Staged /\ flow'[w].pc \in Staged
    PROVE  IInv'
  <1>0. Shape /\ Typed /\ Core /\ ShapeOfOp
    BY DEF IInv, Core, Shape
  <1>1. ShapeOfOp' /\ op'[w] = NoOp /\ \A v \in Workers \ {w} : op'[v] = op[v]
    BY <1>0, EndOp
  <1>2. 0 \in Generations
    BY PublicationAssumption DEF Generations
  <1>3. op'[w].kind = "none" /\ op'[w].target = 0
    BY <1>1, EmptyShapes
  <1>4. Typed'
    BY <1>0, <1>1, <1>2, <1>3, StepTyped DEF Typed
  <1>5. Kept
    BY DEF Kept
  <1>6. \A v \in Workers \ {w} : Same(v)
    BY <1>1 DEF Same
  <1>7. Core'
    BY <1>0, <1>3, <1>5, <1>6, FlowStepKeeps DEF Staged
  <1>8. Shape'
    BY <1>0, <1>1 DEF Shape, ShapeOfRecords
  <1> QED
    BY <1>4, <1>7, <1>8 DEF IInv, Core

\* A native write ends, well or not.
LEMMA NativeSteps ==
    ASSUME IInv, NEW w \in Workers,
           FinishClear(w) \/ FinishWrite(w) \/ FinishPurge(w) \/ FailOperation(w)
    PROVE  IInv'
  <1>0. Shape /\ Typed /\ ShapeOfFlow
    BY DEF IInv, Shape
  <1>1. /\ UNCHANGED <<head, managed, sequence, published, records, legacyThrough, retiredBefore>>
        /\ op' = [op EXCEPT ![w] = NoOp]
    BY DEF FinishClear, FinishWrite, FinishPurge, FailOperation, Return, registry, catalog
  <1>2. /\ Kept /\ ShapeOfRecords' /\ legacyThrough' \in Generations \cup {Missing}
        /\ retiredBefore' \in Generations \cup {Missing}
    BY <1>0, <1>1 DEF Kept, Shape, ShapeOfRecords, Typed
  <1>3. CASE flow[w].pc # "idle" /\ End(w)
    BY <1>1, <1>2, <1>3, EndStep
  <1>4. CASE UNCHANGED <<flow, lock>>
    <2>1. ShapeOfFlow'
      BY <1>0, <1>4 DEF ShapeOfFlow
    <2> QED
      BY <1>1, <1>4, <2>1, OpStep
  <1>5. CASE FinishClear(w)
    <2> DEFINE pc == IF flow[w].pc = "clearing" THEN "cleared" ELSE flow[w].pc
    <2>1. flow' = [flow EXCEPT ![w].pc = pc] /\ lock' = lock
      BY <1>5 DEF FinishClear, Return
    <2>2. pc = flow[w].pc \/ (flow[w].pc \in Staged /\ pc \in Staged)
      BY DEF Staged
    <2> HIDE DEF pc
    <2>3. /\ ShapeOfFlow' /\ flow'[w].pc = pc
          /\ flow'[w].target = flow[w].target /\ flow'[w].base = flow[w].base
          /\ \A v \in Workers \ {w} : flow'[v] = flow[v]
      BY <1>0, <2>1, MoveFlow
    <2> QED
      BY <1>1, <2>1, <2>2, <2>3, OpStep
  <1>6. CASE FinishWrite(w) /\ flow[w].pc = "embedding"
    <2> DEFINE x == flow[w].changed \ op[w].path
    <2>1. flow' = [flow EXCEPT ![w].pc = "writing", ![w].changed = x] /\ lock' = lock
      BY <1>6 DEF FinishWrite
    <2> HIDE DEF x
    <2>2. /\ ShapeOfFlow' /\ flow'[w].pc = "writing"
          /\ flow'[w].target = flow[w].target /\ flow'[w].base = flow[w].base
          /\ \A v \in Workers \ {w} : flow'[v] = flow[v]
      BY <1>0, <2>1, MoveFlow
    <2>3. flow[w].pc \in Staged /\ flow'[w].pc \in Staged
      BY <1>6, <2>2 DEF Staged
    <2> QED
      BY <1>1, <2>1, <2>2, <2>3, OpStep
  <1>7. FinishWrite(w) /\ flow[w].pc # "embedding" => UNCHANGED <<flow, lock>>
    BY DEF FinishWrite
  <1>8. FinishPurge(w) \/ FailOperation(w) =>
           (flow[w].pc # "idle" /\ End(w)) \/ UNCHANGED <<flow, lock>>
    BY DEF FinishPurge, FailOperation
  <1> QED
    BY <1>3, <1>4, <1>5, <1>6, <1>7, <1>8

\* The request fails or is dropped.
LEMMA CancelStep ==
    ASSUME IInv, NEW w \in Workers, Cancel(w)
    PROVE  IInv'
  <1>1. /\ UNCHANGED <<head, managed, sequence, published, records, legacyThrough, retiredBefore, op>>
        /\ flow[w].pc # "idle" /\ End(w)
    BY DEF Cancel, catalog
  <1>2. /\ Kept /\ ShapeOfRecords' /\ legacyThrough' \in Generations \cup {Missing}
        /\ retiredBefore' \in Generations \cup {Missing}
    BY <1>1 DEF IInv, Kept, Shape, ShapeOfRecords, Typed
  <1> QED
    BY <1>1, <1>2, EndStep

\* A step that touches neither tasks nor records; the head may be damaged.
LEMMA QuietSteps ==
    ASSUME IInv, UNCHANGED <<managed, sequence, published, records, legacyThrough, retiredBefore,
                             lock, flow, op>>,
           head' = head \/ (managed /\ head' = Missing)
    PROVE  IInv'
  <1>1. Shape'
    BY DEF IInv, Shape, ShapeOfFlow, ShapeOfOp, ShapeOfRecords
  <1>2. Typed'
    BY DEF IInv, Typed
  <1>3. Locked' /\ Single' /\ Fresh' /\ Collecting'
    BY DEF IInv, Locked, Single, Fresh, Collecting
  <1>4. Newest'
    BY DEF IInv, Newest
  <1> QED
    BY <1>1, <1>2, <1>3, <1>4 DEF IInv

\* The process dies.
LEMMA CrashSteps ==
    ASSUME IInv, Crash \/ \E w \in Workers : CrashInFirstPreparation(w)
    PROVE  IInv'
  <1>0. 0 \in Generations
    BY PublicationAssumption DEF Generations
  <1>1. /\ UNCHANGED <<head, managed, sequence, published, records>>
        /\ LoseMemory
        /\ legacyThrough' \in Generations \cup {Missing}
        /\ retiredBefore' \in Generations \cup {Missing}
    <2>1. CASE Crash
      BY <2>1 DEF Crash, IInv, Typed
    <2>2. CASE \E w \in Workers : CrashInFirstPreparation(w)
      BY <1>0, <2>2 DEF CrashInFirstPreparation, IInv, Typed
    <2> QED
      BY <2>1, <2>2
  <1>2. flow' = [w \in Workers |-> NoFlow] /\ op' = [w \in Workers |-> NoOp]
    BY <1>1 DEF LoseMemory
  <1>3. \A w \in Workers :
            /\ flow'[w] = NoFlow /\ op'[w] = NoOp
            /\ flow'[w].pc = "idle" /\ flow'[w].target = 0 /\ flow'[w].base = 0
            /\ op'[w].kind = "none" /\ op'[w].target = 0
    BY <1>2, EmptyShapes
  <1>4. Shape'
    <2>1. ShapeOfFlow'
      BY <1>2, <1>3, EmptyShapes DEF ShapeOfFlow
    <2>2. ShapeOfOp'
      BY <1>2, <1>3, EmptyShapes DEF ShapeOfOp
    <2>3. ShapeOfRecords'
      BY <1>1 DEF IInv, Shape, ShapeOfRecords
    <2> QED
      BY <2>1, <2>2, <2>3 DEF Shape
  <1>5. Typed'
    BY <1>0, <1>1, <1>3 DEF IInv, Typed
  <1>6. Locked' /\ Single' /\ Collecting'
    BY <1>3 DEF Locked, Single, Collecting
  <1>7. Fresh'
    BY <1>3 DEF Fresh, Staged
  <1>8. Newest'
    BY <1>1 DEF IInv, Newest
  <1> QED
    BY <1>4, <1>5, <1>6, <1>7, <1>8 DEF IInv

\* The initial states.
LEMMA InitIInv ==
    ASSUME Init
    PROVE  IInv
  <1>0. 0 \in Generations /\ 1 \in Generations
    BY PublicationAssumption DEF Generations
  <1>1. \A w \in Workers :
            /\ flow[w] = NoFlow /\ op[w] = NoOp
            /\ flow[w].pc = "idle" /\ flow[w].target = 0 /\ flow[w].base = 0
            /\ op[w].kind = "none" /\ op[w].target = 0
    BY EmptyShapes DEF Init
  <1>2. Shape
    <2>1. ShapeOfFlow
      BY <1>1, EmptyShapes DEF ShapeOfFlow, Init
    <2>2. ShapeOfOp
      BY <1>1, EmptyShapes DEF ShapeOfOp, Init
    <2>3. ShapeOfRecords
      BY EmptyShapes DEF Init, ShapeOfRecords
    <2> QED
      BY <2>1, <2>2, <2>3 DEF Shape
  <1>3. Typed
    <2>1. head \in Generations /\ published \subseteq Generations
      BY <1>0 DEF Init
    <2>2. /\ managed = FALSE /\ sequence = 0
          /\ legacyThrough = Missing /\ retiredBefore = Missing
      BY DEF Init
    <2>3. managed \in BOOLEAN
      BY <2>2
    <2> QED
      BY <1>0, <1>1, <2>1, <2>2, <2>3 DEF Typed
  <1>4. Locked /\ Single /\ Collecting
    BY <1>1 DEF Locked, Single, Collecting
  <1>5. Fresh
    BY <1>1 DEF Fresh, Staged
  <1>6. Newest
    BY DEF Init, Newest, Missing
  <1> QED
    BY <1>2, <1>3, <1>4, <1>5, <1>6 DEF IInv

\* Both boundary files name generations.
LEMMA Boundaries ==
    ASSUME Typed, NEW base \in Generations, NEW full, NEW rebuild,
           EnsureRetirementBoundary(base, full), EnsureLegacyBoundary(base, rebuild)
    PROVE  /\ legacyThrough' \in Generations \cup {Missing}
           /\ retiredBefore' \in Generations \cup {Missing}
  <1>1. 0 \in Generations
    BY PublicationAssumption DEF Generations
  <1> QED
    BY <1>1 DEF Typed, EnsureRetirementBoundary, EnsureLegacyBoundary

\* A generation is staged: its record is new, and pending.
LEMMA PrepareSteps ==
    ASSUME IInv, NEW w \in Workers,
           PrepareUpdate(w) \/ PrepareFull(w) \/ PrepareRecovered(w)
    PROVE  IInv'
  <1> DEFINE g == flow[w].target
  <1>0. Shape /\ Typed /\ Core /\ ShapeOfFlow /\ ShapeOfOp /\ ShapeOfRecords
    BY DEF IInv, Core, Shape
  <1>1. g \in Generations /\ flow[w].base \in Generations
    BY <1>0 DEF Typed
  <1>2. /\ UNCHANGED <<head, managed, sequence, published, lock>>
        /\ flow[w].pc = "begun"
    BY DEF PrepareUpdate, PrepareFull, PrepareRecovered, registry
  <1>3. /\ legacyThrough' \in Generations \cup {Missing}
        /\ retiredBefore' \in Generations \cup {Missing}
    <2>1. PICK full, rebuild :
             /\ EnsureRetirementBoundary(flow[w].base, full)
             /\ EnsureLegacyBoundary(flow[w].base, rebuild)
      BY DEF PrepareUpdate, PrepareFull, PrepareRecovered
    <2> QED
      BY <1>0, <1>1, <2>1, Boundaries
  <1>4. PICK r, kept : NewAttempt(g, r, kept) /\ IsRecord(r) /\ r.state = "pending"
    <2>1. CASE PrepareUpdate(w)
      <3>1. \E h, f, kept : NewAttempt(g, [state |-> "pending", parent |-> h, files |-> f,
                                changed |-> flow[w].changed, deleted |-> flow[w].deleted], kept)
        BY <2>1 DEF PrepareUpdate
      <3>2. PICK h, f, kept : NewAttempt(g, [state |-> "pending", parent |-> h, files |-> f,
                                changed |-> flow[w].changed, deleted |-> flow[w].deleted], kept)
        BY <3>1
      <3> DEFINE r == [state |-> "pending", parent |-> h, files |-> f,
                       changed |-> flow[w].changed, deleted |-> flow[w].deleted]
      <3>3. IsRecord(r) /\ r.state = "pending"
        BY NewRecord
      <3>4. NewAttempt(g, r, kept)
        BY <3>2
      <3> HIDE DEF r
      <3> QED
        BY <3>3, <3>4
    <2>2. CASE PrepareFull(w) \/ PrepareRecovered(w)
      <3> DEFINE r == FullRecord(flow[w].changed)
      <3>1. NewAttempt(g, r, cache)
        BY <2>2 DEF PrepareFull, PrepareRecovered
      <3>2. IsRecord(r) /\ r.state = "pending"
        BY NewRecord DEF FullRecord
      <3> HIDE DEF r
      <3> QED
        BY <3>1, <3>2
    <2> QED
      BY <2>1, <2>2
  <1>5. /\ records' = [records EXCEPT ![g] = r]
        /\ op' = [v \in Workers |-> [op[v] EXCEPT !.fresh = @ /\ op[v].target # g]]
    BY <1>4 DEF NewAttempt
  <1>6. /\ ShapeOfRecords' /\ records'[g] = r
        /\ \A h \in Generations \ {g} : records'[h] = records[h]
    BY <1>0, <1>1, <1>4, <1>5, SetRecord
  <1>7. ShapeOfOp' /\ \A v \in Workers : op'[v].kind = op[v].kind /\ op'[v].target = op[v].target
    BY <1>0, <1>5, AgeOps
  <1>8. /\ ShapeOfFlow' /\ flow'[w].pc \in {"prepared", "writing"}
        /\ flow'[w].target = flow[w].target /\ flow'[w].base = flow[w].base
        /\ \A v \in Workers \ {w} : flow'[v] = flow[v]
    <2>1. PICK pc \in {"prepared", "writing"} : flow' = [flow EXCEPT ![w].pc = pc]
      BY DEF PrepareUpdate, PrepareFull, PrepareRecovered, Step
    <2> QED
      BY <1>0, <2>1, MoveFlow
  <1>9. Kept
    BY <1>2, <1>4, <1>6 DEF Kept
  <1>10. \A v \in Workers \ {w} : Same(v)
    BY <1>7, <1>8 DEF Same
  <1>11. Typed'
    <2>1. op'[w].target \in Generations
      BY <1>0, <1>7 DEF Typed
    <2> QED
      BY <1>0, <1>1, <1>2, <1>3, <1>7, <1>8, <2>1, StepTyped
  <1>12. Core'
    <2>1. records'[flow[w].target].state # "none"
      BY <1>4, <1>6
    <2>2. op'[w].kind = op[w].kind /\ op'[w].target = op[w].target /\ op[w].kind # "publish"
      BY <1>0, <1>2, <1>7 DEF Core, Fresh
    <2> QED
      BY <1>0, <1>2, <1>8, <1>9, <1>10, <2>1, <2>2, FlowStepKeeps DEF Staged
  <1> QED
    BY <1>6, <1>7, <1>8, <1>11, <1>12 DEF IInv, Core, Shape

\* The candidate is sealed.
LEMMA SealStep ==
    ASSUME IInv, NEW w \in Workers, Seal(w)
    PROVE  IInv'
  <1> DEFINE g == flow[w].target
             r == [records[g] EXCEPT !.state = "sealed"]
  <1>0. Shape /\ Typed /\ Core /\ ShapeOfFlow /\ ShapeOfOp /\ ShapeOfRecords
    BY DEF IInv, Core, Shape
  <1>1. /\ UNCHANGED <<head, managed, sequence, published, legacyThrough, retiredBefore, lock, op>>
        /\ flow[w].pc = "indexed" /\ flow' = [flow EXCEPT ![w].pc = "sealed"]
        /\ records' = [records EXCEPT ![g] = r]
    BY DEF Seal, registry, Step
  <1>2. g \in Generations
    BY <1>0 DEF Typed
  <1>3. IsRecord(r) /\ r.state = "sealed"
    <2>1. IsRecord(records[g])
      BY <1>0, <1>2 DEF ShapeOfRecords
    <2> QED
      BY <2>1, EditRecord
  <1> HIDE DEF r
  <1>4. /\ ShapeOfRecords' /\ records'[g] = r
        /\ \A h \in Generations \ {g} : records'[h] = records[h]
    BY <1>0, <1>1, <1>2, <1>3, SetRecord
  <1>5. /\ ShapeOfFlow' /\ flow'[w].pc = "sealed"
        /\ flow'[w].target = flow[w].target /\ flow'[w].base = flow[w].base
        /\ \A v \in Workers \ {w} : flow'[v] = flow[v]
    BY <1>0, <1>1, MoveFlow
  <1>6. Kept
    BY <1>1, <1>3, <1>4 DEF Kept
  <1>7. \A v \in Workers \ {w} : Same(v)
    BY <1>1, <1>5 DEF Same
  <1>8. Typed'
    BY <1>0, <1>1, <1>5, StepTyped DEF Typed
  <1>9. Core'
    <2>1. op[w].kind # "publish"
      BY <1>0, <1>1 DEF Core, Fresh
    <2> QED
      BY <1>0, <1>1, <1>5, <1>6, <1>7, <2>1, FlowStepKeeps DEF Staged
  <1>10. ShapeOfOp'
    BY <1>0, <1>1 DEF ShapeOfOp
  <1> QED
    BY <1>4, <1>5, <1>8, <1>9, <1>10 DEF IInv, Core, Shape

\* A generation is published; the request may wait for it or not.
LEMMA PublishStep ==
    ASSUME IInv, NEW w \in Workers, FinishPublish(w)
    PROVE  IInv'
  <1> DEFINE g == op[w].target
  <1>0. Shape /\ Typed /\ Core /\ ShapeOfFlow /\ ShapeOfOp /\ ShapeOfRecords
    BY DEF IInv, Core, Shape
  <1>1. /\ UNCHANGED <<sequence, records, legacyThrough, retiredBefore>>
        /\ op' = [op EXCEPT ![w] = NoOp]
        /\ op[w].kind = "publish"
    BY DEF FinishPublish, catalog
  <1>2. \/ flow[w].pc = "publishing" /\ End(w)
        \/ flow[w].pc = "publishing" /\ w \in tokens /\ flow' = [flow EXCEPT ![w].pc = "published"]
             /\ lock' = lock
        \/ flow[w].pc # "publishing" /\ UNCHANGED <<flow, lock>>
    BY DEF FinishPublish, Step
  <1>3. CASE w \notin tokens
    <2>1. Kept /\ UNCHANGED <<head, managed, published>>
      BY <1>1, <1>3 DEF FinishPublish, Kept
    <2>2. CASE flow[w].pc = "publishing" /\ End(w)
      BY <1>0, <1>1, <2>1, <2>2, EndStep DEF ShapeOfRecords, Typed
    <2>3. CASE UNCHANGED <<flow, lock>>
      <3>1. ShapeOfFlow'
        BY <1>0, <2>3 DEF ShapeOfFlow
      <3> QED
        BY <1>1, <2>1, <2>3, <3>1, OpStep
    <2> QED
      BY <1>2, <1>3, <2>2, <2>3
  <1>4. CASE w \in tokens
    <2>1. head' = g /\ managed' = TRUE /\ published' = published \cup {g}
      BY <1>4 DEF FinishPublish
    <2>2. /\ g \in Generations /\ published \subseteq Generations
          /\ \A p \in published : p < g
          /\ records[g].state # "none"
          /\ flow[w].pc = "publishing" => flow[w].target = g
          /\ flow[w].pc \in {"idle", "publishing"}
      BY <1>0, <1>1 DEF Typed, Core, Fresh
    <2>3. \A v \in Workers \ {w} : op[v].kind = "none" /\ flow[v].pc \in {"idle", "collecting"}
      BY <1>0, <1>1 DEF Core, Single
    <2>4. ShapeOfOp' /\ op'[w] = NoOp /\ \A v \in Workers \ {w} : op'[v] = op[v]
      BY <1>0, <1>1, EndOp
    <2>5. \A v \in Workers : op'[v].kind = "none"
      BY <2>3, <2>4, EmptyShapes
    <2>6. 0 \in Generations
      BY PublicationAssumption DEF Generations
    <2>7. /\ ShapeOfFlow' /\ flow'[w].target \in Generations /\ flow'[w].base \in Generations
          /\ flow'[w].pc \in {"idle", "published"}
          /\ flow'[w].pc = "published" => flow'[w].target = g /\ lock' = w
          /\ \A v \in Workers \ {w} : flow'[v] = flow[v]
      <3>1. CASE flow[w].pc = "publishing" /\ End(w)
        <4>1. ShapeOfFlow' /\ flow'[w] = NoFlow /\ \A v \in Workers \ {w} : flow'[v] = flow[v]
          BY <1>0, <3>1, EndFlow
        <4> QED
          BY <2>6, <4>1, EmptyShapes
      <3>2. CASE flow[w].pc = "publishing" /\ flow' = [flow EXCEPT ![w].pc = "published"] /\ lock' = lock
        <4>1. /\ ShapeOfFlow' /\ flow'[w].pc = "published"
              /\ flow'[w].target = flow[w].target /\ flow'[w].base = flow[w].base
              /\ \A v \in Workers \ {w} : flow'[v] = flow[v]
          BY <1>0, <3>2, MoveFlow
        <4>2. lock = w /\ flow[w].base \in Generations
          BY <1>0, <3>2 DEF Core, Locked, Typed
        <4> QED
          BY <2>2, <3>2, <4>1, <4>2
      <3>3. CASE flow[w].pc # "publishing" /\ UNCHANGED <<flow, lock>>
        BY <1>0, <2>2, <3>3 DEF ShapeOfFlow, Typed
      <3> QED
        BY <1>2, <3>1, <3>2, <3>3
    <2>8. Typed'
      <3>1. op'[w].target \in Generations
        BY <2>4, <2>6, EmptyShapes
      <3>2. managed' \in BOOLEAN
        BY <2>1
      <3> QED
        BY <1>0, <1>1, <2>1, <2>2, <2>4, <2>7, <3>1, <3>2 DEF Typed
    <2>9. Locked'
      <3>1. CASE End(w) /\ flow[w].pc = "publishing"
        <4>1. \A v \in Workers \ {w} : flow[v].pc = "idle"
          BY <1>0, <3>1 DEF Core, Locked
        <4>2. flow'[w].pc = "idle"
          BY <1>0, <3>1, EndFlow, EmptyShapes
        <4> QED
          BY <2>7, <4>1, <4>2 DEF Locked
      <3>2. CASE lock' = lock
        BY <1>0, <2>7, <3>2 DEF Core, Locked
      <3> QED
        BY <1>2, <3>1, <3>2
    <2>10. Single'
      BY <2>5 DEF Single
    <2>11. Fresh'
      <3>1. \A v \in Workers : flow'[v].pc \in {"idle", "collecting", "published"}
        BY <2>3, <2>7
      <3> QED
        BY <2>5, <3>1 DEF Fresh, Staged
    <2>12. Collecting'
      BY <1>0, <2>1, <2>7 DEF Core, Collecting
    <2>13. Newest'
      <3>1. \A p \in published' : p <= g
        BY <2>1, <2>2 DEF Generations
      <3>2. g # Missing
        BY <2>2 DEF Generations, Missing
      <3>3. records'[g].state # "none"
        BY <1>1, <2>2
      <3> QED
        BY <2>1, <3>1, <3>2, <3>3 DEF Newest
    <2>14. Shape'
      BY <1>0, <1>1, <2>4, <2>7 DEF Shape, ShapeOfRecords
    <2> QED
      BY <2>8, <2>9, <2>10, <2>11, <2>12, <2>13, <2>14 DEF IInv
  <1> QED
    BY <1>3, <1>4

\* Retirement removes only records older than a published generation.
LEMMA RetireKeeps ==
    ASSUME IInv, NEW w \in Workers, NEW pruned, Retire(w, pruned),
           \A h \in pruned : h < flow[w].target, UNCHANGED <<head, managed, published>>
    PROVE  /\ Kept /\ ShapeOfRecords'
           /\ retiredBefore' \in Generations \cup {Missing}
           /\ flow[w].pc \in {"published", "collecting"}
           /\ flow[w].pc = "collecting" => Quiet
           /\ \A h \in Generations : records'[h] \in {records[h], NoRecord}
  <1> DEFINE g == flow[w].target
  <1>1. flow[w].pc \in {"published", "collecting"} /\ (flow[w].pc = "collecting" => Quiet)
    BY DEF Retire, MayCollect
  <1>2. /\ retiredBefore' = g
        /\ records' = [h \in Generations |-> IF h \in pruned THEN NoRecord ELSE records[h]]
    BY DEF Retire
  <1>3. g \in published /\ published \subseteq Generations
    BY <1>1 DEF IInv, Collecting, Typed
  <1>4. \A h \in Generations : records'[h] \in {records[h], NoRecord}
    BY <1>2
  <1>5. ShapeOfRecords'
    <2>1. records' = [h \in Generations |-> records'[h]]
      BY <1>2
    <2>2. \A h \in Generations : IsRecord(records'[h])
      BY <1>4, EmptyShapes DEF IInv, Shape, ShapeOfRecords
    <2> QED
      BY <2>1, <2>2 DEF ShapeOfRecords, IsRecord
  <1>6. Kept
    <2> SUFFICES ASSUME NEW h \in Generations, records[h].state # "none",
                        \A p \in published : p <= h
                 PROVE  records'[h].state # "none"
      BY DEF Kept
    <2>1. g <= h
      BY <1>3
    <2>2. h \notin pruned
      <3>1. \A x \in Generations : x \in Int
        BY PublicationAssumption DEF Generations
      <3>2. g \in Int /\ h \in Int
        BY <1>3, <3>1
      <3>3. ~ (h < g)
        BY <2>1, <3>2
      <3> QED
        BY <3>3
    <2> QED
      BY <1>2, <2>2
  <1> QED
    BY <1>1, <1>2, <1>3, <1>4, <1>5, <1>6

\* Collection: the metadata of superseded generations goes.
LEMMA RetireSteps ==
    ASSUME IInv, NEW w \in Workers, Protect(w) \/ FailProtect(w)
    PROVE  IInv'
  <1>0. Shape /\ Typed /\ Core /\ ShapeOfFlow /\ ShapeOfOp
    BY DEF IInv, Core, Shape
  <1>1. UNCHANGED <<head, managed, sequence, published, legacyThrough, op>>
    BY DEF Protect, FailProtect, registry
  <1>2. PICK pruned : Retire(w, pruned) /\ \A h \in pruned : h < flow[w].target
    <2>1. CASE Protect(w)
      <3>1. PICK v : Retire(w, Prunable(flow[w].target, v))
        BY <2>1 DEF Protect
      <3>2. \A h \in Prunable(flow[w].target, v) : h < flow[w].target
        BY DEF Prunable
      <3> QED
        BY <3>1, <3>2
    <2>2. CASE FailProtect(w)
      <3>1. PICK v : \E pruned \in SUBSET Prunable(flow[w].target, v) : Retire(w, pruned)
        BY <2>2 DEF FailProtect
      <3>2. \A h \in Prunable(flow[w].target, v) : h < flow[w].target
        BY DEF Prunable
      <3> QED
        BY <3>1, <3>2
    <2> QED
      BY <2>1, <2>2
  <1>3. /\ Kept /\ ShapeOfRecords'
        /\ retiredBefore' \in Generations \cup {Missing}
        /\ flow[w].pc \in {"published", "collecting"}
        /\ flow[w].pc = "collecting" => Quiet
    BY <1>1, <1>2, RetireKeeps
  <1>4. legacyThrough' \in Generations \cup {Missing}
    BY <1>0, <1>1 DEF Typed
  <1>5. CASE FailProtect(w)
    <2>1. End(w) /\ flow[w].pc # "idle"
      BY <1>3, <1>5 DEF FailProtect
    <2> QED
      BY <1>1, <1>3, <1>4, <2>1, EndStep
  <1>6. CASE Protect(w)
    <2>1. PICK x : flow' = [flow EXCEPT ![w].pc = "protected", ![w].leases = x]
      BY <1>6 DEF Protect
    <2>2. lock' = lock
      BY <1>6 DEF Protect
    <2>3. /\ ShapeOfFlow' /\ flow'[w].pc = "protected"
          /\ flow'[w].target = flow[w].target /\ flow'[w].base = flow[w].base
          /\ \A v \in Workers \ {w} : flow'[v] = flow[v]
      BY <1>0, <2>1, MoveFlow
    <2>4. \A v \in Workers \ {w} : Same(v)
      BY <1>1, <2>3 DEF Same
    <2>5. Typed'
      BY <1>0, <1>1, <1>3, <1>4, <2>3, StepTyped DEF Typed
    <2>6. op[w].kind # "publish"
      BY <1>0, <1>3 DEF Core, Fresh
    <2>7. Core'
      BY <1>0, <1>1, <1>3, <2>2, <2>3, <2>4, <2>6, FlowStepKeeps DEF Staged
    <2>8. ShapeOfOp'
      BY <1>0, <1>1 DEF ShapeOfOp
    <2> QED
      BY <1>3, <2>3, <2>5, <2>7, <2>8 DEF IInv, Core, Shape
  <1> QED
    BY <1>5, <1>6

\* A request begins when the lock is free, for a generation newer than every
\* published one when it is to write.
LEMMA BeginKeeps ==
    ASSUME IInv, NEW w \in Workers, NEW r, IsFlow(r), flow' = [flow EXCEPT ![w] = r],
           r.base \in Generations, r.target \in Generations,
           lock = NoWorker, lock' = w, op[w].kind = "none",
           UNCHANGED <<head, managed, published, records, legacyThrough, retiredBefore, op>>,
           sequence' \in Int,
           \/ r.pc = "begun" /\ Quiet /\ \A p \in published : p < r.target
           \/ r.pc = "collecting" /\ r.target \in published
    PROVE  IInv'
  <1>0. Shape /\ Typed /\ Core /\ ShapeOfFlow /\ ShapeOfOp /\ ShapeOfRecords
    BY DEF IInv, Core, Shape
  <1>1. ShapeOfFlow' /\ flow'[w] = r /\ \A v \in Workers \ {w} : flow'[v] = flow[v]
    BY <1>0, SetFlow
  <1>2. \A v \in Workers : flow[v].pc = "idle"
    BY <1>0, PublicationAssumption DEF Core, Locked
  <1>3. Typed'
    BY <1>0, <1>1 DEF Typed
  <1>4. Locked'
    BY <1>1, <1>2 DEF Locked
  <1>5. Single'
    <2>1. Quiet => \A v \in Workers : op[v].kind = "none"
      BY DEF Quiet, Operations
    <2>2. CASE r.pc = "begun" /\ Quiet
      BY <2>1, <2>2 DEF Single
    <2>3. CASE r.pc = "collecting"
      BY <1>0, <1>1, <1>2, <2>3 DEF Core, Single
    <2> QED
      BY <2>2, <2>3
  <1>6. Fresh'
    BY <1>0, <1>1, <1>2 DEF Core, Fresh, Staged
  <1>7. Collecting'
    BY <1>1, <1>2 DEF Collecting
  <1>8. Newest'
    BY <1>0 DEF Core, Newest
  <1>9. Shape'
    BY <1>0, <1>1 DEF Shape, ShapeOfOp, ShapeOfRecords
  <1> QED
    BY <1>3, <1>4, <1>5, <1>6, <1>7, <1>8, <1>9 DEF IInv

\* A flow is begun for a generation newer than every published one.
LEMMA BeginFlow ==
    ASSUME IInv, NEW w \in Workers, NEW k, NEW b \in Generations, NEW t, NEW c, NEW d,
           Begin(w, k, b, t, c, d), \A p \in published : p < t,
           UNCHANGED <<head, managed, published>>, sequence' \in Int
    PROVE  IInv'
  <1> DEFINE r == Request("begun", k, b, t, c, d, {})
  <1>1. IsFlow(r) /\ r.pc = "begun" /\ r.target = t /\ r.base = b
    BY NewRequest
  <1> HIDE DEF r
  <1>2. /\ flow' = [flow EXCEPT ![w] = r] /\ lock = NoWorker /\ lock' = w /\ Quiet
        /\ op[w].kind = "none" /\ t \in Generations
        /\ UNCHANGED <<records, legacyThrough, retiredBefore, op>>
    BY DEF Begin, catalog, r
  <1> QED
    BY <1>1, <1>2, BeginKeeps

\* The high water of a recovery is a generation, and no published one is newer.
LEMMA HighWaterBound ==
    ASSUME IInv, head = Missing
    PROVE  HighWater \in Generations /\ \A p \in published : p <= HighWater
  <1> DEFINE Seen == {g \in Generations :
                        \/ g \in Recorded \/ cache[g].kind # "none"
                        \/ \E p \in Paths :
                              \/ lexical[<<p, g>>] # {} \/ vector[<<p, g>>] # {}
                              \/ \E h \in Generations : <<p, g>> \in Selected(h, cache[h])}
             S == {0, Floor, legacyThrough} \cup Seen
  <1>0. Typed /\ Newest
    BY DEF IInv
  <1>1. HighWater = Largest(S)
    BY DEF HighWater
  <1>2. PICK m \in published : (\A p \in published : p <= m) /\ records[m].state # "none"
    BY <1>0 DEF Newest
  <1>3. m \in Seen /\ published \subseteq Generations
    BY <1>0, <1>2 DEF Typed, Recorded
  <1>4. Seen \subseteq Generations
    OBVIOUS
  <1> HIDE DEF Seen
  <1>5. MaxGeneration \in Nat /\ 0 \in Generations /\ \A x \in Generations : x \in Int /\ x <= MaxGeneration
    BY PublicationAssumption DEF Generations
  <1>6. Floor \in Generations
    BY <1>0, <1>5 DEF Floor, Typed
  <1>7. legacyThrough \in Generations \cup {Missing}
    BY <1>0 DEF Typed
  <1>8. S \subseteq Int /\ S # {} /\ \A x \in S : x <= MaxGeneration
    BY <1>4, <1>5, <1>6, <1>7 DEF Missing
  <1>9. HighWater \in S /\ \A y \in S : y <= HighWater
    BY <1>1, <1>5, <1>8, LargestIsLargest
  <1>10. HighWater # Missing
    BY <1>9 DEF Missing
  <1>11. HighWater \in Generations
    BY <1>4, <1>5, <1>6, <1>7, <1>9, <1>10
  <1>12. \A p \in published : p <= HighWater
    <2> SUFFICES ASSUME NEW p \in published
                 PROVE  p <= HighWater
      OBVIOUS
    <2>1. p <= m /\ m <= HighWater
      BY <1>2, <1>3, <1>9
    <2>2. p \in Int /\ m \in Int /\ HighWater \in Int
      BY <1>3, <1>5, <1>11
    <2> QED
      BY <2>1, <2>2
  <1> QED
    BY <1>11, <1>12

\* A recovery reserves a generation above everything that was observed.
LEMMA RecoveryIsFresh ==
    ASSUME IInv, head = Missing
    PROVE  /\ HighWater \in Generations /\ RecoveryTarget \in Int
           /\ \A p \in published : p < RecoveryTarget
  <1> DEFINE S == {sequence, HighWater}
             x == Largest(S)
             b == IF sequence <= HighWater THEN HighWater ELSE sequence
  <1>1. HighWater \in Generations /\ \A p \in published : p <= HighWater
    BY HighWaterBound
  <1>2. sequence \in Int /\ published \subseteq Generations
    BY DEF IInv, Typed
  <1>3. HighWater \in Int /\ \A p \in Generations : p \in Int
    BY <1>1 DEF Generations
  <1>4. S \subseteq Int /\ S # {} /\ b \in Int /\ \A y \in S : y <= b
    BY <1>2, <1>3
  <1> HIDE DEF b
  <1>5. x \in S /\ \A y \in S : y <= x
    BY <1>4, LargestIsLargest
  <1>6. RecoveryTarget = x + 1
    BY DEF RecoveryTarget
  <1> HIDE DEF x
  <1>7. x \in Int /\ HighWater <= x
    BY <1>4, <1>5
  <1> QED
    BY <1>1, <1>2, <1>3, <1>6, <1>7

\* An update, a repair, a recovery or a sweep begins.
LEMMA BeginSteps ==
    ASSUME IInv, NEW w \in Workers, BeginStep(w)
    PROVE  IInv'
  <1>0. Typed /\ Newest
    BY DEF IInv
  <1>1. head # Missing => /\ head \in Generations /\ head \in published
                          /\ \A p \in published : p < head + 1
    <2>1. head # Missing => head \in published /\ (\A p \in published : p <= head)
            /\ head \in Generations /\ published \subseteq Generations
      BY <1>0 DEF Newest, Typed
    <2> QED
      BY <2>1 DEF Generations
  <1>2. ASSUME NEW c, NEW d, BeginUpdate(w, c, d)
        PROVE  IInv'
    <2>1. /\ Begin(w, "update", head, head + 1, c, d) /\ head # Missing
          /\ UNCHANGED <<head, managed, sequence, published>>
      BY <1>2 DEF BeginUpdate
    <2>2. sequence' \in Int
      BY <1>0, <2>1 DEF Typed
    <2> QED
      BY <1>1, <2>1, <2>2, BeginFlow
  <1>3. ASSUME NEW c, BeginFull(w, c)
        PROVE  IInv'
    <2>1. /\ Begin(w, "full", head, head + 1, c, {}) /\ head # Missing
          /\ UNCHANGED <<head, managed, sequence, published>>
      BY <1>3 DEF BeginFull
    <2>2. sequence' \in Int
      BY <1>0, <2>1 DEF Typed
    <2> QED
      BY <1>1, <2>1, <2>2, BeginFlow
  <1>4. ASSUME NEW c, BeginRecovery(w, c)
        PROVE  IInv'
    <2>1. /\ Begin(w, "recovery", HighWater, RecoveryTarget, c, {}) /\ head = Missing
          /\ sequence' = RecoveryTarget /\ UNCHANGED <<head, managed, published>>
      BY <1>4 DEF BeginRecovery
    <2>2. /\ HighWater \in Generations /\ RecoveryTarget \in Int
          /\ \A p \in published : p < RecoveryTarget
      BY <2>1, RecoveryIsFresh
    <2> DEFINE b == HighWater
               t == RecoveryTarget
    <2>3. /\ Begin(w, "recovery", b, t, c, {}) /\ sequence' = t
          /\ b \in Generations /\ t \in Int /\ \A p \in published : p < t
      BY <2>1, <2>2
    <2> HIDE DEF b, t
    <2> QED
      BY <2>1, <2>3, BeginFlow
  <1>5. CASE BeginSweep(w)
    <2> DEFINE l == {Lease(head, PinView(head, FALSE))}
               r == Request("collecting", "sweep", head, head, {}, {}, l)
    <2>1. /\ flow' = [flow EXCEPT ![w] = r] /\ head # Missing
          /\ lock = NoWorker /\ lock' = w /\ op[w].kind = "none"
          /\ UNCHANGED <<head, managed, sequence, published, records, legacyThrough,
                         retiredBefore, op>>
      BY <1>5 DEF BeginSweep, registry
    <2> HIDE DEF l
    <2>2. IsFlow(r) /\ r.pc = "collecting" /\ r.target = head /\ r.base = head
      BY NewRequest
    <2> HIDE DEF r
    <2>3. sequence' \in Int
      BY <1>0, <2>1 DEF Typed
    <2> QED
      BY <1>1, <2>1, <2>2, <2>3, BeginKeeps
  <1> QED
    BY <1>2, <1>3, <1>4, <1>5 DEF BeginStep

\* Every step.
LEMMA NextIInv ==
    ASSUME IInv, [Next]_vars
    PROVE  IInv'
  <1>1. ASSUME NEW w \in Workers, FlowStep(w)
        PROVE  IInv'
    BY <1>1, PrepareSteps, WritingSteps, LaunchSteps, SealStep, RetireSteps DEF FlowStep
  <1>2. ASSUME NEW w \in Workers, OperationStep(w)
        PROVE  IInv'
    BY <1>2, NativeSteps, PublishStep DEF OperationStep
  <1>3. ASSUME NEW w \in Workers, BeginStep(w) \/ Cancel(w) \/ FailProtect(w)
        PROVE  IInv'
    BY <1>3, BeginSteps, CancelStep, RetireSteps
  <1>4. ASSUME NEW r \in Readers, ReaderStep(r)
        PROVE  IInv'
    <2>1. UNCHANGED <<head, managed, sequence, published, records, legacyThrough, retiredBefore,
                      lock, flow, op>>
      BY <1>4 DEF ReaderStep, ReadHead, PinSource, Release, registry, catalog, tasks
    <2> QED
      BY <2>1, QuietSteps
  <1>5. CASE Retarget \/ DamageHead
    <2>1. /\ UNCHANGED <<managed, sequence, published, records, legacyThrough, retiredBefore,
                         lock, flow, op>>
          /\ head' = head \/ (managed /\ head' = Missing)
      BY <1>5 DEF Retarget, DamageHead, catalog, tasks
    <2> QED
      BY <2>1, QuietSteps
  <1>6. CASE Crash \/ \E w \in Workers : CrashInFirstPreparation(w)
    BY <1>6, CrashSteps
  <1>7. CASE UNCHANGED vars
    <2>1. UNCHANGED <<head, managed, sequence, published, records, legacyThrough, retiredBefore,
                      lock, flow, op>>
      BY <1>7 DEF vars, registry, catalog, tasks
    <2> QED
      BY <2>1, QuietSteps
  <1> QED
    BY <1>1, <1>2, <1>3, <1>4, <1>5, <1>6, <1>7 DEF Next

\* A step that stages a generation stages one that was never published.
LEMMA StagesFresh ==
    ASSUME IInv, [Next]_vars, NEW g \in Generations,
           records'[g].state = "pending", records[g].state # "pending"
    PROVE  g \notin published
  <1>0. Typed /\ Fresh /\ Shape
    BY DEF IInv
  <1>1. ASSUME NEW w \in Workers, PrepareUpdate(w) \/ PrepareFull(w) \/ PrepareRecovered(w)
        PROVE  g \notin published
    <2>1. PICK r : records' = [records EXCEPT ![flow[w].target] = r]
      BY <1>1 DEF PrepareUpdate, PrepareFull, PrepareRecovered, NewAttempt
    <2>2. records'[g] = records[g] \/ g = flow[w].target
      BY <1>0, <2>1 DEF Shape, ShapeOfRecords
    <2>3. flow[w].pc = "begun"
      BY <1>1 DEF PrepareUpdate, PrepareFull, PrepareRecovered
    <2>4. \A p \in published : p < g
      BY <1>0, <2>2, <2>3 DEF Fresh
    <2>5. g \in Int
      BY PublicationAssumption DEF Generations
    <2>6. ~ (g < g)
      BY <2>5
    <2> QED
      BY <2>4, <2>6
  <1>2. ASSUME NEW w \in Workers, Seal(w)
        PROVE  g \notin published
    <2> DEFINE t == flow[w].target
               r == [records[t] EXCEPT !.state = "sealed"]
    <2>1. records' = [records EXCEPT ![t] = r]
      BY <1>2 DEF Seal
    <2>2. t \in Generations
      BY <1>0 DEF Typed
    <2>3. IsRecord(r) /\ r.state = "sealed"
      <3>1. IsRecord(records[t])
        BY <1>0, <2>2 DEF Shape, ShapeOfRecords
      <3> QED
        BY <3>1, EditRecord
    <2> HIDE DEF r
    <2>4. records'[t] = r /\ \A h \in Generations \ {t} : records'[h] = records[h]
      BY <1>0, <2>1, <2>2, <2>3, SetRecord DEF Shape
    <2> QED
      BY <2>3, <2>4
  <1>3. ASSUME NEW w \in Workers, Protect(w) \/ FailProtect(w)
        PROVE  g \notin published
    <2>1. records'[g] \in {records[g], NoRecord}
      BY <1>3 DEF Protect, FailProtect, Retire
    <2> QED
      BY <2>1, EmptyShapes
  <1>4. CASE UNCHANGED records
    BY <1>4
  <1>5. ASSUME NEW w \in Workers, FlowStep(w)
        PROVE  g \notin published
    <2>1. \/ PrepareUpdate(w) \/ PrepareFull(w) \/ PrepareRecovered(w) \/ Seal(w) \/ Protect(w)
          \/ UNCHANGED records
      BY <1>5 DEF FlowStep, ClearVector, ClearLexical, WriteFile, CancelToken, FinishIndexing,
         StartPublish, PurgeLexical, catalog
    <2> QED
      BY <2>1, <1>1, <1>2, <1>3, <1>4
  <1>6. ASSUME NEW w \in Workers, OperationStep(w) \/ BeginStep(w) \/ Cancel(w)
        PROVE  UNCHANGED records
    <2>1. OperationStep(w) => UNCHANGED records
      BY DEF OperationStep, FinishClear, FinishWrite, FinishPublish, FinishPurge, FailOperation,
         catalog
    <2>2. BeginStep(w) => UNCHANGED records
      BY DEF BeginStep, BeginUpdate, BeginFull, BeginRecovery, BeginSweep, Begin, catalog
    <2>3. Cancel(w) => UNCHANGED records
      BY DEF Cancel, catalog
    <2> QED
      BY <1>6, <2>1, <2>2, <2>3
  <1>7. ASSUME NEW r \in Readers, ReaderStep(r)
        PROVE  UNCHANGED records
    BY <1>7 DEF ReaderStep, ReadHead, PinSource, Release, catalog
  <1>8. Retarget \/ DamageHead \/ Crash \/ (\E w \in Workers : CrashInFirstPreparation(w))
            \/ UNCHANGED vars => UNCHANGED records
    BY DEF Retarget, DamageHead, Crash, CrashInFirstPreparation, vars, catalog
  <1> QED
    BY <1>3, <1>4, <1>5, <1>6, <1>7, <1>8 DEF Next

-----------------------------------------------------------------------------
(* The rows behind every view: the rest of the inductive invariant.        *)

\* What the record files rs alone resolve for g, sealed or not.
Chain(rs, g) == Walks(rs, EmptyCache)[g]

BaseOf(rs, g) ==
    IF rs[g].parent = Missing THEN Root(rs[g]) ELSE Chain(rs, rs[g].parent)

Candidate(rs, g) == Extend(g, rs[g], BaseOf(rs, g))

\* Every chain goes down one generation at a time, over published ones.
Linked ==
    \A h \in Generations :
        records[h].parent # Missing =>
            records[h].parent \in published /\ records[h].parent = h - 1

\* A view of h is what its files resolve to, when they still do; only a
\* published generation without a record has a legacy view, and a view that
\* pins may still admit has a record.
Fits(v, h) ==
    /\ v = NoView \/ v = LegacyView \/ v.kind = "files"
    /\ v.kind = "legacy" => h \in published /\ records[h].state = "none"
    /\ v.kind = "files" /\ h >= Floor => records[h].state # "none"
    /\ v.kind = "files" /\ Chain(records, h).kind = "files" => v = Chain(records, h)

Cached ==
    /\ cache = [h \in Generations |-> cache[h]]
    /\ \A h \in Generations : Fits(cache[h], h)

\* The rows of file p at generation x, complete and of one attempt.
Whole(p, x) == lexical[<<p, x>>] = {"current"} /\ vector[<<p, x>>] = {"current"}

\* Everything a candidate takes from its base is published and in both stores.
Sound(g) ==
    LET v == Candidate(records, g) IN
    /\ BaseOf(records, g).kind = "files"
    /\ Cardinality(v.ancestry) <= MaxDepth
    /\ \A p \in Paths :
          \/ p \in records[g].changed
          \/ v.files[p] = 0
          \/ v.files[p] \in published /\ Whole(p, v.files[p])

\* Where a candidate selects a revision no newer than a published generation
\* that is still served, that generation selects the same one.
Layers(h) ==
    \A k \in published :
        k >= Floor /\ records[k].state # "none" /\ k < h =>
            \A p \in Paths :
                LET x == Candidate(records, h).files[p] IN
                x = 0 \/ x > k \/ x = Candidate(records, k).files[p]

Complete(g) ==
    /\ records[g].state = "sealed"
    /\ Sound(g)
    /\ Layers(g)
    /\ \A p \in Paths : p \in records[g].changed => Whole(p, g)

\* Every published generation that the boundary has not retired is complete,
\* and the newest is not retired.
Served ==
    /\ \A g \in published : g >= Floor /\ records[g].state # "none" => Complete(g)
    /\ \E m \in published : Floor <= m

\* Until something is published the legacy head is the only generation.
Unmanaged ==
    ~ managed =>
        /\ published = {head} /\ records[head].state = "none"
        /\ head # 0 => \A p \in Paths : Whole(p, head)

\* A flow that has begun.
Begun(w) ==
    LET f == flow[w] IN
    f.pc = "begun" =>
        \/ /\ f.kind \in {"update", "full"}
           /\ f.base \in published /\ f.target = f.base + 1
           /\ \A p \in published : p <= f.base
        \/ /\ f.kind = "recovery" /\ managed
           /\ \A p \in Paths :
                 lexical[<<p, f.target>>] = {} /\ vector[<<p, f.target>>] = {}

\* What is in the stores of a file at the staged generation, while f writes.
Written(f, p) ==
    LET c == <<p, f.target>> IN
    /\ lexical[c] \subseteq {"current"} /\ vector[c] \subseteq {"current"}
    /\ p \in records[f.target].changed /\ p \notin f.changed =>
          "current" \in vector[c] /\ (p \in f.buffered \/ "current" \in lexical[c])

\* A flow that stages.
Staging(w) ==
    LET f == flow[w] IN
    /\ f.pc \in Staged =>
          /\ Sound(f.target) /\ Layers(f.target)
          /\ legacyThrough # Missing /\ retiredBefore # Missing
    /\ f.pc \in Staged \ {"sealed", "publishing"} => cache[f.target].kind = "none"
    /\ f.pc \in {"prepared", "clearing", "cleared"} => f.changed = records[f.target].changed
    /\ f.pc = "cleared" => \A p \in Paths : vector[<<p, f.target>>] = {}
    /\ f.pc \in {"writing", "embedding", "indexed"} => \A p \in Paths : Written(f, p)
    /\ f.pc = "indexed" => f.buffered = {} /\ (f.changed = {} \/ f.cancelled)
    /\ f.pc \in {"sealed", "publishing"} => Complete(f.target)

Keep(leases) == UNION {Selected(l.generation, l.view) : l \in leases}

\* A purge up to g that retains `leases` takes no row of a view that is served.
PurgeSafe(g, leases) ==
    /\ g \in published /\ records[g].state # "none" /\ Floor = g
    /\ Selected(g, Candidate(records, g)) \subseteq Keep(leases)
    /\ \A r \in Readers :
          LET l == reader[r].lease IN
          l.generation # 0 =>
              \A c \in Selected(l.generation, l.view) : c[2] >= g \/ c \in Keep(leases)

Waits == {<<"clear", "clearing">>, <<"write", "embedding">>, <<"publish", "publishing">>,
          <<"purge", "purging">>}

\* An operation, and the flow that waits for it or has left it behind.
Running(w) ==
    LET f == flow[w]
        o == op[w]
    IN
    /\ o.kind # "none" => f.pc = "idle" \/ (f.target = o.target /\ <<o.kind, f.pc>> \in Waits)
    /\ o.kind \in {"clear", "write"} => \A p \in published : p < o.target
    /\ o.kind = "write" /\ f.pc = "embedding" =>
          /\ o.fresh = TRUE
          /\ \A p \in o.path : p \in f.buffered \/ "current" \in lexical[<<p, o.target>>]
    /\ o.kind = "publish" => Complete(o.target)
    /\ o.kind = "purge" => PurgeSafe(o.target, o.leases)

\* A flow that collects.
Purging(w) ==
    LET f == flow[w] IN
    /\ f.pc \in {"published", "collecting"} => records[f.target].state # "none"
    /\ f.pc = "protected" => PurgeSafe(f.target, f.leases)

\* A reader asks for published generations; its view is cached, selects
\* published revisions and finds their rows.
Reading(r) ==
    LET l == reader[r].lease IN
    /\ reader[r] = [asked |-> reader[r].asked, lease |-> l]
    /\ reader[r].asked \in published \cup {Missing}
    /\ \/ l = NoLease
       \/ /\ l = Lease(l.generation, l.view)
          /\ l.view.kind # "none" /\ l.generation \in Generations
          /\ cache[l.generation] = l.view
    /\ l.generation # 0 =>
          \A c \in Selected(l.generation, l.view) :
              c \in Paths \X published /\ Whole(c[1], c[2])

ReaderShape == reader = [r \in Readers |-> reader[r]]

LegacyBound == legacyThrough \in published \cup {0, Missing}

RowInv ==
    /\ Linked /\ Cached /\ Served /\ Unmanaged /\ LegacyBound /\ ReaderShape
    /\ \A w \in Workers : Begun(w) /\ Staging(w) /\ Running(w) /\ Purging(w)
    /\ \A r \in Readers : Reading(r)

-----------------------------------------------------------------------------
(* What the record files resolve to.                                       *)

\* A parent is the generation before.
Backward(rs) ==
    \A h \in Generations :
        rs[h].parent # Missing => rs[h].parent \in Generations /\ rs[h].parent = h - 1

\* One step of load's walk, where f knows the parents.
WalkStep(rs, c, f, h) ==
    LET rec == rs[h]
        base == IF rec.parent = Missing THEN Root(rec)
                ELSE IF c[rec.parent].kind # "none" THEN c[rec.parent]
                ELSE f[rec.parent]
    IN  IF rec.state = "sealed" /\ base.kind = "files"
          THEN Extend(h, rec, base) ELSE NoView

\* A set of natural numbers that is not empty has a least element.
LEMMA LeastNat ==
    ASSUME NEW S, S \subseteq Nat, S # {}
    PROVE  \E x \in S : \A y \in S : x <= y
  <1> DEFINE R == OpToRel(<, Nat)
  <1>1. IsWellFoundedOn(R, Nat)
    BY NatLessThanWellFounded
  <1>2. \A a, b \in Nat : a < b => <<a, b>> \in R
    BY DEF OpToRel
  <1> HIDE DEF R
  <1>3. PICK x \in S : \A y \in S : ~ (<<y, x>> \in R)
    BY <1>1, WFMin
  <1>4. \A y \in S : ~ (y < x)
    BY <1>2, <1>3
  <1> QED
    BY <1>4

\* The walk from h looks at nothing but its parent.
LEMMA WalkLocal ==
    ASSUME NEW rs, NEW c, NEW f, NEW e, NEW h,
           rs[h].parent # Missing => f[rs[h].parent] = e[rs[h].parent]
    PROVE  WalkStep(rs, c, f, h) = WalkStep(rs, c, e, h)
    BY DEF WalkStep

\* load's recursion ends: the walk satisfies its own equation.
LEMMA WalkExists ==
    ASSUME NEW rs, NEW c, Backward(rs)
    PROVE  Walks(rs, c) = [h \in Generations |-> WalkStep(rs, c, Walks(rs, c), h)]
  <1> DEFINE Upto(n, f) == /\ f = [h \in Generations |-> f[h]]
                           /\ \A h \in Generations : h <= n => f[h] = WalkStep(rs, c, f, h)
             Bad == {n \in Nat : ~ \E f : Upto(n, f)}
  <1>0. \A h \in Generations : h \in Nat /\ h <= MaxGeneration
    BY PublicationAssumption DEF Generations
  <1>1. Bad = {}
    <2> SUFFICES ASSUME Bad # {}
                 PROVE  FALSE
      OBVIOUS
    <2>1. PICK n \in Bad : \A m \in Bad : n <= m
      BY LeastNat
    <2>2. \E f : /\ f = [h \in Generations |-> f[h]]
                 /\ \A h \in Generations : h < n => f[h] = WalkStep(rs, c, f, h)
      <3>1. CASE n = 0
        <4>1. EmptyCache = [h \in Generations |-> EmptyCache[h]]
          BY DEF EmptyCache
        <4> QED
          BY <1>0, <3>1, <4>1
      <3>2. CASE n # 0
        <4>1. n - 1 \in Nat /\ n - 1 \notin Bad
          BY <2>1, <3>2
        <4>2. PICK f : Upto(n - 1, f)
          BY <4>1
        <4>3. \A h \in Generations : h < n => h <= n - 1
          BY <1>0
        <4> QED
          BY <4>2, <4>3
      <3> QED
        BY <3>1, <3>2
    <2>3. PICK f : /\ f = [h \in Generations |-> f[h]]
                   /\ \A h \in Generations : h < n => f[h] = WalkStep(rs, c, f, h)
      BY <2>2
    <2> DEFINE e == [h \in Generations |-> IF h = n THEN WalkStep(rs, c, f, n) ELSE f[h]]
    <2>4. \A h \in Generations : h # n => e[h] = f[h]
      OBVIOUS
    <2>5. n \in Generations => e[n] = WalkStep(rs, c, f, n)
      OBVIOUS
    <2>6. e = [h \in Generations |-> e[h]]
      OBVIOUS
    <2> HIDE DEF e
    <2>7. ASSUME NEW h \in Generations, h <= n
          PROVE  e[h] = WalkStep(rs, c, e, h)
      <3>1. rs[h].parent # Missing => rs[h].parent \in Generations /\ rs[h].parent # n
        BY <1>0, <2>7 DEF Backward
      <3>2. rs[h].parent # Missing => f[rs[h].parent] = e[rs[h].parent]
        BY <2>4, <3>1
      <3>3. WalkStep(rs, c, f, h) = WalkStep(rs, c, e, h)
        BY <3>2, WalkLocal
      <3>4. CASE h = n
        BY <2>5, <3>3, <3>4
      <3>5. CASE h # n
        <4>1. h < n
          BY <1>0, <2>7, <3>5
        <4> QED
          BY <2>3, <2>4, <3>3, <3>5, <4>1
      <3> QED
        BY <3>4, <3>5
    <2>8. Upto(n, e)
      BY <2>6, <2>7
    <2> QED
      BY <2>8
  <1>2. PICK f : Upto(MaxGeneration, f)
    BY <1>1, PublicationAssumption
  <1>3. f = [h \in Generations |-> WalkStep(rs, c, f, h)]
    BY <1>0, <1>2
  <1>4. Walks(rs, c) = CHOOSE e : e = [h \in Generations |-> WalkStep(rs, c, e, h)]
    BY DEF Walks, WalkStep
  <1> QED
    BY <1>3, <1>4

\* The kinds of the views there are.
LEMMA ViewKinds ==
    /\ NoView.kind = "none" /\ LegacyView.kind = "legacy"
    /\ NoView.ancestry = {} /\ LegacyView.ancestry = {}
    /\ \A h \in Generations : EmptyCache[h] = NoView
    BY DEF NoView, LegacyView, EmptyCache

\* A view that a record extends.
LEMMA ExtendIs ==
    ASSUME NEW g, NEW rec, NEW base
    PROVE  /\ Extend(g, rec, base).kind = "files"
           /\ Extend(g, rec, base).ancestry = base.ancestry \cup {g}
           /\ \A p \in Paths :
                 Extend(g, rec, base).files[p] =
                     IF p \in rec.changed THEN g
                     ELSE IF p \in rec.deleted THEN 0 ELSE base.files[p]
    BY DEF Extend

\* A checkpoint's base selects what the record carries.
LEMMA RootIs ==
    ASSUME NEW rec
    PROVE  Root(rec).kind = "files" /\ Root(rec).files = rec.files /\ Root(rec).ancestry = {}
    BY DEF Root

\* A generation resolves to its candidate when it is sealed and its base does.
LEMMA ChainIs ==
    ASSUME NEW rs, Backward(rs), NEW g \in Generations
    PROVE  Chain(rs, g) = IF rs[g].state = "sealed" /\ BaseOf(rs, g).kind = "files"
                            THEN Candidate(rs, g) ELSE NoView
  <1> DEFINE W == Walks(rs, EmptyCache)
  <1>1. W = [h \in Generations |-> WalkStep(rs, EmptyCache, W, h)]
    BY WalkExists
  <1> HIDE DEF W
  <1>2. W[g] = WalkStep(rs, EmptyCache, W, g)
    BY <1>1
  <1>3. rs[g].parent # Missing => EmptyCache[rs[g].parent].kind = "none"
    BY ViewKinds DEF Backward
  <1>4. BaseOf(rs, g) = IF rs[g].parent = Missing THEN Root(rs[g]) ELSE W[rs[g].parent]
    BY DEF BaseOf, Chain, W
  <1>5. Chain(rs, g) = W[g]
    BY DEF Chain, W
  <1> QED
    BY <1>2, <1>3, <1>4, <1>5 DEF WalkStep, Candidate

\* What a generation that resolves rests on.
LEMMA ChainOf ==
    ASSUME NEW rs, Backward(rs), NEW g \in Generations
    PROVE  /\ Chain(rs, g) = NoView \/ Chain(rs, g).kind = "files"
           /\ Chain(rs, g).kind = "files" =>
                 /\ rs[g].state = "sealed" /\ BaseOf(rs, g).kind = "files"
                 /\ Chain(rs, g) = Candidate(rs, g)
                 /\ rs[g].parent # Missing => Chain(rs, rs[g].parent).kind = "files"
           /\ rs[g].state = "sealed" /\ BaseOf(rs, g).kind = "files" =>
                 Chain(rs, g) = Candidate(rs, g)
           /\ Candidate(rs, g).kind = "files"
           /\ Candidate(rs, g).ancestry = BaseOf(rs, g).ancestry \cup {g}
           /\ \A p \in Paths :
                 Candidate(rs, g).files[p] =
                     IF p \in rs[g].changed THEN g
                     ELSE IF p \in rs[g].deleted THEN 0 ELSE BaseOf(rs, g).files[p]
  <1>1. /\ Candidate(rs, g).kind = "files"
        /\ Candidate(rs, g).ancestry = BaseOf(rs, g).ancestry \cup {g}
        /\ \A p \in Paths :
              Candidate(rs, g).files[p] =
                  IF p \in rs[g].changed THEN g
                  ELSE IF p \in rs[g].deleted THEN 0 ELSE BaseOf(rs, g).files[p]
    BY ExtendIs DEF Candidate
  <1>2. rs[g].parent # Missing => BaseOf(rs, g) = Chain(rs, rs[g].parent)
    BY DEF BaseOf
  <1> QED
    BY <1>1, <1>2, ChainIs, ViewKinds

\* The records of a chain are a chain each.
LEMMA AncestryIs ==
    ASSUME NEW rs, Backward(rs)
    PROVE  \A g \in Generations : Chain(rs, g).kind = "files" =>
              /\ g \in Chain(rs, g).ancestry
              /\ Chain(rs, g).ancestry \subseteq 0 .. g
              /\ \A h \in Chain(rs, g).ancestry :
                    /\ Chain(rs, h).kind = "files"
                    /\ Chain(rs, h).ancestry \subseteq Chain(rs, g).ancestry
                    /\ rs[h].parent # Missing => rs[h].parent \in Chain(rs, g).ancestry
  <1> DEFINE Good(g) ==
              /\ g \in Chain(rs, g).ancestry
              /\ Chain(rs, g).ancestry \subseteq 0 .. g
              /\ \A h \in Chain(rs, g).ancestry :
                    /\ Chain(rs, h).kind = "files"
                    /\ Chain(rs, h).ancestry \subseteq Chain(rs, g).ancestry
                    /\ rs[h].parent # Missing => rs[h].parent \in Chain(rs, g).ancestry
             Bad == {g \in Generations : Chain(rs, g).kind = "files" /\ ~ Good(g)}
  <1>0. \A h \in Generations : h \in Nat
    BY PublicationAssumption DEF Generations
  <1> SUFFICES ASSUME Bad # {}
               PROVE  FALSE
    OBVIOUS
  <1>1. PICK g \in Bad : \A m \in Bad : g <= m
    BY <1>0, LeastNat
  <1>2. /\ Chain(rs, g).kind = "files" /\ Chain(rs, g).ancestry = BaseOf(rs, g).ancestry \cup {g}
        /\ rs[g].parent # Missing => Chain(rs, rs[g].parent).kind = "files"
    BY ChainOf
  <1>3. CASE rs[g].parent = Missing
    <2>1. Chain(rs, g).ancestry = {g}
      BY <1>2, <1>3, RootIs DEF BaseOf
    <2>2. Good(g)
      BY <1>0, <1>2, <1>3, <2>1
    <2> QED
      BY <2>2
  <1>4. CASE rs[g].parent # Missing
    <2> DEFINE k == rs[g].parent
    <2>0. g \in Generations
      OBVIOUS
    <2>1. k \in Generations /\ k = g - 1 /\ Chain(rs, k).kind = "files"
      BY <1>2, <1>4 DEF Backward
    <2>2. Chain(rs, g).ancestry = Chain(rs, k).ancestry \cup {g}
      BY <1>2, <1>4 DEF BaseOf
    <2>3. Good(k)
      <3>1. ~ (g <= k)
        BY <1>0, <2>1
      <3>2. k \notin Bad
        BY <1>1, <3>1
      <3> QED
        BY <2>1, <3>2
    <2> HIDE DEF Bad
    <2>4. Chain(rs, g).ancestry \subseteq 0 .. g
      <3>1. 0 .. k \subseteq 0 .. g /\ g \in 0 .. g
        BY <1>0, <2>0, <2>1
      <3> QED
        BY <2>2, <2>3, <3>1
    <2>5. \A h \in Chain(rs, g).ancestry :
              /\ Chain(rs, h).kind = "files"
              /\ Chain(rs, h).ancestry \subseteq Chain(rs, g).ancestry
              /\ rs[h].parent # Missing => rs[h].parent \in Chain(rs, g).ancestry
      <3> SUFFICES ASSUME NEW h \in Chain(rs, g).ancestry
                   PROVE  /\ Chain(rs, h).kind = "files"
                          /\ Chain(rs, h).ancestry \subseteq Chain(rs, g).ancestry
                          /\ rs[h].parent # Missing => rs[h].parent \in Chain(rs, g).ancestry
        OBVIOUS
      <3>1. CASE h = g
        BY <1>2, <2>2, <2>3, <3>1
      <3>2. CASE h \in Chain(rs, k).ancestry
        BY <2>2, <2>3, <3>2
      <3> QED
        BY <2>2, <3>1, <3>2
    <2>6. Good(g)
      BY <2>2, <2>4, <2>5
    <2> QED
      BY <2>6 DEF Bad
  <1> QED
    BY <1>3, <1>4

\* Records that are kept, with those they rest on, resolve as before.
LEMMA KeptChains ==
    ASSUME NEW rs, NEW ns, Backward(rs), Backward(ns), NEW A, A \subseteq Generations,
           \A h \in A : ns[h] = rs[h] /\ (rs[h].parent # Missing => rs[h].parent \in A)
    PROVE  \A h \in A : /\ Chain(ns, h) = Chain(rs, h) /\ BaseOf(ns, h) = BaseOf(rs, h)
                        /\ Candidate(ns, h) = Candidate(rs, h)
  <1>0. \A h \in Generations : h \in Nat
    BY PublicationAssumption DEF Generations
  <1>1. ASSUME NEW h \in A, rs[h].parent # Missing => Chain(ns, rs[h].parent) = Chain(rs, rs[h].parent)
        PROVE  /\ Chain(ns, h) = Chain(rs, h) /\ BaseOf(ns, h) = BaseOf(rs, h)
               /\ Candidate(ns, h) = Candidate(rs, h)
    <2>1. ns[h] = rs[h] /\ h \in Generations
      OBVIOUS
    <2>2. BaseOf(ns, h) = BaseOf(rs, h)
      BY <1>1, <2>1 DEF BaseOf
    <2>3. Candidate(ns, h) = Candidate(rs, h)
      BY <2>1, <2>2 DEF Candidate
    <2> QED
      BY <2>1, <2>2, <2>3, ChainIs
  <1> DEFINE Bad == {h \in A : Chain(ns, h) # Chain(rs, h)}
  <1>2. Bad = {}
    <2> SUFFICES ASSUME Bad # {}
                 PROVE  FALSE
      OBVIOUS
    <2>1. PICK h \in Bad : \A m \in Bad : h <= m
      BY <1>0, LeastNat
    <2>2. rs[h].parent # Missing => rs[h].parent \in A /\ ~ (h <= rs[h].parent)
      BY <1>0 DEF Backward
    <2>3. rs[h].parent # Missing => Chain(ns, rs[h].parent) = Chain(rs, rs[h].parent)
      BY <2>1, <2>2
    <2> QED
      BY <1>1, <2>3
  <1> QED
    BY <1>1, <1>2

\* What still resolves when records were removed resolves as before.
LEMMA PrunedChains ==
    ASSUME NEW rs, NEW ns, Backward(rs), Backward(ns),
           \A h \in Generations : ns[h] \in {rs[h], NoRecord}
    PROVE  \A h \in Generations : Chain(ns, h).kind = "files" => Chain(ns, h) = Chain(rs, h)
  <1> DEFINE Bad == {h \in Generations : Chain(ns, h).kind = "files" /\ Chain(ns, h) # Chain(rs, h)}
  <1>0. \A h \in Generations : h \in Nat
    BY PublicationAssumption DEF Generations
  <1> SUFFICES ASSUME Bad # {}
               PROVE  FALSE
    OBVIOUS
  <1>1. PICK h \in Bad : \A m \in Bad : h <= m
    BY <1>0, LeastNat
  <1>2. ns[h].state = "sealed" /\ (ns[h].parent # Missing => Chain(ns, ns[h].parent).kind = "files")
    BY ChainOf
  <1>3. ns[h] = rs[h]
    BY <1>2, EmptyShapes
  <1>4. ns[h].parent # Missing => ns[h].parent \in Generations /\ ~ (h <= ns[h].parent)
    BY <1>0 DEF Backward
  <1>5. ns[h].parent # Missing => Chain(ns, ns[h].parent) = Chain(rs, ns[h].parent)
    BY <1>1, <1>2, <1>4
  <1>6. BaseOf(ns, h) = BaseOf(rs, h)
    BY <1>3, <1>5 DEF BaseOf
  <1>7. Candidate(ns, h) = Candidate(rs, h)
    BY <1>3, <1>6 DEF Candidate
  <1> QED
    BY <1>3, <1>6, <1>7, ChainIs

\* A view loaded over a cache that agrees with the files agrees with them.
LEMMA LoadedOver ==
    ASSUME NEW rs, NEW c, Backward(rs),
           \A h \in Generations :
               c[h].kind = "files" /\ Chain(rs, h).kind = "files" => c[h] = Chain(rs, h)
    PROVE  \A h \in Generations :
              /\ Walks(rs, c)[h] = NoView \/ (Walks(rs, c)[h].kind = "files" /\ rs[h].state = "sealed")
              /\ Walks(rs, c)[h].kind = "files" /\ Chain(rs, h).kind = "files" =>
                    Walks(rs, c)[h] = Chain(rs, h)
  <1> DEFINE W == Walks(rs, c)
             Base(h) == IF rs[h].parent = Missing THEN Root(rs[h])
                        ELSE IF c[rs[h].parent].kind # "none" THEN c[rs[h].parent]
                        ELSE W[rs[h].parent]
             Bad == {h \in Generations :
                        W[h].kind = "files" /\ Chain(rs, h).kind = "files" /\ W[h] # Chain(rs, h)}
  <1>0. \A h \in Generations : h \in Nat
    BY PublicationAssumption DEF Generations
  <1>w. W = [h \in Generations |-> WalkStep(rs, c, W, h)]
    BY WalkExists
  <1> HIDE DEF W
  <1>1. \A h \in Generations :
           W[h] = IF rs[h].state = "sealed" /\ Base(h).kind = "files"
                    THEN Extend(h, rs[h], Base(h)) ELSE NoView
    BY <1>w DEF WalkStep
  <1>2. \A h \in Generations : W[h] = NoView \/ (W[h].kind = "files" /\ rs[h].state = "sealed")
    BY <1>1, ExtendIs
  <1>3. Bad = {}
    <2> SUFFICES ASSUME Bad # {}
                 PROVE  FALSE
      OBVIOUS
    <2>1. PICK h \in Bad : \A m \in Bad : h <= m
      BY <1>0, LeastNat
    <2>2. W[h].kind = "files" /\ Chain(rs, h).kind = "files" /\ W[h] # Chain(rs, h)
      OBVIOUS
    <2>3. /\ Chain(rs, h) = Extend(h, rs[h], BaseOf(rs, h))
          /\ rs[h].parent # Missing => Chain(rs, rs[h].parent).kind = "files"
      BY <2>2, ChainOf DEF Candidate
    <2>4. W[h] = Extend(h, rs[h], Base(h)) /\ Base(h).kind = "files"
      BY <1>1, <2>2, ViewKinds
    <2>5. CASE rs[h].parent = Missing
      BY <2>2, <2>3, <2>4, <2>5 DEF BaseOf
    <2>6. CASE rs[h].parent # Missing
      <3> DEFINE k == rs[h].parent
      <3>1. k \in Generations /\ ~ (h <= k) /\ Chain(rs, k).kind = "files"
        BY <1>0, <2>3, <2>6 DEF Backward
      <3>2. c[k].kind # "none" => c[k] = Chain(rs, k)
        BY <2>4, <2>6, <3>1
      <3>3. c[k].kind = "none" => W[k] = Chain(rs, k)
        BY <2>1, <2>4, <2>6, <3>1
      <3>4. Base(h) = Chain(rs, k) /\ BaseOf(rs, h) = Chain(rs, k)
        BY <2>6, <3>2, <3>3 DEF BaseOf
      <3> QED
        BY <2>2, <2>3, <2>4, <3>4
    <2> QED
      BY <2>5, <2>6
  <1> QED
    BY <1>2, <1>3 DEF W

-----------------------------------------------------------------------------
(* The cache, and what a pin returns.                                      *)

\* Chains go backward.
LEMMA LinkedBackward ==
    ASSUME Linked, Typed
    PROVE  Backward(records)
    BY DEF Linked, Typed, Backward

\* Generations are natural numbers, and the boundary is one.
LEMMA GenerationsAre ==
    ASSUME Typed
    PROVE  /\ \A h \in Generations : h \in Nat /\ h # Missing
           /\ Floor \in Generations /\ Floor \in Nat
           /\ published \subseteq Generations /\ 0 \in Generations
  <1>1. (\A h \in Generations : h \in Nat /\ h # Missing) /\ 0 \in Generations
    BY PublicationAssumption DEF Generations, Missing
  <1> QED
    BY <1>1 DEF Typed, Floor

\* make_cache_room drops views, none that is leased.
LEMMA RoomIs ==
    ASSUME NEW c
    PROVE  /\ MakeCacheRoom(c) = [h \in Generations |-> MakeCacheRoom(c)[h]]
           /\ \A h \in Generations :
                 /\ MakeCacheRoom(c)[h] \in {NoView, c[h]}
                 /\ Pinned(h) => MakeCacheRoom(c)[h] = c[h]
    BY DEF MakeCacheRoom

\* pin_inner, case by case.
LEMMA PinCases ==
    ASSUME NEW g, NEW join \in BOOLEAN
    PROVE  /\ join /\ Joinable(g) => PinView(g, join) = cache[g]
           /\ ~ (join /\ Joinable(g)) /\ ~ Admits(g) => PinView(g, join) = NoView
           /\ ~ (join /\ Joinable(g)) /\ Admits(g) /\ cache[g].kind = "files"
                 => PinView(g, join) = cache[g]
           /\ ~ (join /\ Joinable(g)) /\ Admits(g) /\ cache[g].kind # "files"
              /\ (records[g].state = "none" \/ cache[g].kind = "legacy")
                 => PinView(g, join) =
                       IF LegacyPermitted(g) /\ AllowLegacy(g) THEN LegacyView ELSE NoView
           /\ ~ (join /\ Joinable(g)) /\ Admits(g) /\ cache[g].kind # "files"
              /\ ~ (records[g].state = "none" \/ cache[g].kind = "legacy")
                 => PinView(g, join) = Loaded(MakeCacheRoom(cache), g)
    BY DEF PinView

\* A view that load returns fits its generation.
LEMMA LoadedFits ==
    ASSUME Typed, Linked, Cached, NEW g \in Generations, records[g].state # "none"
    PROVE  /\ Fits(Loaded(MakeCacheRoom(cache), g), g)
           /\ Loaded(MakeCacheRoom(cache), g).kind # "legacy"
  <1> DEFINE c == MakeCacheRoom(cache)
             v == Walks(records, c)[g]
  <1>1. Backward(records)
    BY LinkedBackward
  <1>2. \A h \in Generations : c[h] \in {NoView, cache[h]}
    BY RoomIs
  <1> HIDE DEF c
  <1>3. \A h \in Generations :
            c[h].kind = "files" /\ Chain(records, h).kind = "files" => c[h] = Chain(records, h)
    BY <1>2, ViewKinds DEF Cached, Fits
  <1>4. /\ v = NoView \/ v.kind = "files"
        /\ v.kind = "files" /\ Chain(records, g).kind = "files" => v = Chain(records, g)
    BY <1>1, <1>3, LoadedOver
  <1>5. Loaded(c, g) \in {v, NoView}
    BY DEF Loaded
  <1> HIDE DEF v
  <1>6. Fits(Loaded(c, g), g) /\ Loaded(c, g).kind # "legacy"
    BY <1>4, <1>5, ViewKinds DEF Fits
  <1> QED
    BY <1>6 DEF c

\* What a pin of a published generation returns.
LEMMA PinIs ==
    ASSUME Typed, Linked, Cached, Unmanaged, Newest, NEW g \in published, NEW join \in BOOLEAN
    PROVE  /\ Fits(PinView(g, join), g)
           /\ PinView(g, join).kind # "none" /\ ~ (join /\ Joinable(g)) => g >= Floor
           /\ PinView(g, join).kind = "legacy" => ~ managed \/ (join /\ Joinable(g))
  <1> DEFINE v == PinView(g, join)
  <1>0. g \in Generations
    BY DEF Typed
  <1>1. Fits(cache[g], g) /\ Fits(NoView, g)
    BY <1>0, ViewKinds DEF Cached, Fits
  <1>2. CASE join /\ Joinable(g)
    BY <1>1, <1>2, PinCases
  <1>3. CASE ~ (join /\ Joinable(g)) /\ ~ Admits(g)
    BY <1>1, <1>3, PinCases, ViewKinds
  <1>4. CASE ~ (join /\ Joinable(g)) /\ Admits(g) /\ cache[g].kind = "files"
    BY <1>1, <1>4, PinCases DEF Admits
  <1>5. CASE /\ ~ (join /\ Joinable(g)) /\ Admits(g) /\ cache[g].kind # "files"
             /\ (records[g].state = "none" \/ cache[g].kind = "legacy")
    <2>1. v = NoView \/ (v = LegacyView /\ ~ managed /\ g = head)
      BY <1>5, PinCases DEF LegacyPermitted
    <2> HIDE DEF v
    <2>2. CASE v = NoView
      BY <1>1, <2>2, ViewKinds DEF v
    <2>3. CASE v = LegacyView /\ ~ managed /\ g = head
      <3>1. records[g].state = "none"
        BY <2>3 DEF Unmanaged
      <3>2. Fits(v, g)
        BY <2>3, <3>1, ViewKinds DEF Fits
      <3> QED
        BY <1>5, <2>3, <3>2 DEF v, Admits
    <2> QED
      BY <2>1, <2>2, <2>3
  <1>6. CASE /\ ~ (join /\ Joinable(g)) /\ Admits(g) /\ cache[g].kind # "files"
             /\ ~ (records[g].state = "none" \/ cache[g].kind = "legacy")
    <2>1. v = Loaded(MakeCacheRoom(cache), g)
      BY <1>6, PinCases
    <2>2. Fits(v, g) /\ v.kind # "legacy"
      BY <1>0, <1>6, <2>1, LoadedFits
    <2> QED
      BY <1>6, <2>2 DEF Admits
  <1> QED
    BY <1>2, <1>3, <1>4, <1>5, <1>6

\* A published generation that is still served resolves to its candidate.
LEMMA ServedIs ==
    ASSUME Typed, Linked, Served, NEW g \in published, g >= Floor, records[g].state # "none"
    PROVE  /\ Complete(g)
           /\ Chain(records, g) = Candidate(records, g)
           /\ Chain(records, g).kind = "files"
  <1>1. Complete(g)
    BY DEF Served
  <1>2. records[g].state = "sealed" /\ BaseOf(records, g).kind = "files"
    BY <1>1 DEF Complete, Sound
  <1>3. g \in Generations /\ Backward(records)
    BY LinkedBackward DEF Typed
  <1> QED
    BY <1>1, <1>2, <1>3, ChainOf

\* A view of files that is pinned is the one its generation resolves to.
LEMMA PinnedFiles ==
    ASSUME Typed, Linked, Cached, Unmanaged, Newest, Served,
           NEW g \in published, NEW join \in BOOLEAN, g >= Floor, PinView(g, join).kind = "files"
    PROVE  /\ records[g].state # "none" /\ Complete(g)
           /\ PinView(g, join) = Candidate(records, g)
  <1>1. Fits(PinView(g, join), g)
    BY PinIs
  <1>2. records[g].state # "none"
    BY <1>1 DEF Fits
  <1> QED
    BY <1>1, <1>2, ServedIs DEF Fits

\* The cache a pin leaves: nothing but g is new in it, nothing leased is gone.
Repinned(c, g) ==
    /\ c = [h \in Generations |-> c[h]]
    /\ \A h \in Generations :
          /\ Fits(c[h], h)
          /\ c[h] \in {NoView, cache[h]} \/ h = g
          /\ Pinned(h) /\ cache[h].kind # "none" => c[h] = cache[h]

\* What a pin leaves in the cache.
LEMMA PinCacheIs ==
    ASSUME Typed, Linked, Cached, Unmanaged, Newest, NEW g \in published, NEW join \in BOOLEAN
    PROVE  /\ Repinned(PinCache(g, join), g)
           /\ PinView(g, join).kind # "none" => PinCache(g, join)[g] = PinView(g, join)
  <1> SUFFICES ASSUME NEW c, c = PinCache(g, join)
               PROVE  /\ Repinned(c, g)
                      /\ PinView(g, join).kind # "none" => c[g] = PinView(g, join)
    OBVIOUS
  <1> DEFINE v == PinView(g, join)
             m == MakeCacheRoom(cache)
  <1>0. g \in Generations
    BY DEF Typed
  <1>1. Fits(v, g) /\ \A h \in Generations : Fits(cache[h], h) /\ Fits(NoView, h)
    BY PinIs, ViewKinds DEF Cached, Fits
  <1>2. CASE cache[g].kind = "none" /\ Admits(g)
    <2>1. c = [m EXCEPT ![g] = v]
      BY <1>2 DEF PinCache
    <2>2. /\ m = [h \in Generations |-> m[h]]
          /\ \A h \in Generations : m[h] \in {NoView, cache[h]} /\ (Pinned(h) => m[h] = cache[h])
      BY RoomIs
    <2> HIDE DEF v, m
    <2>3. c = [h \in Generations |-> c[h]] /\ c[g] = v /\ \A h \in Generations \ {g} : c[h] = m[h]
      BY <1>0, <2>1, <2>2
    <2> QED
      BY <1>1, <1>2, <2>2, <2>3 DEF v, Repinned
  <1>3. CASE ~ (cache[g].kind = "none" /\ Admits(g))
    <2>1. c = cache
      BY <1>3 DEF PinCache
    <2>2. v.kind # "none" => cache[g] = v
      <3>1. CASE join /\ Joinable(g)
        BY <3>1, PinCases
      <3>2. CASE ~ (join /\ Joinable(g)) /\ ~ Admits(g)
        BY <3>2, PinCases, ViewKinds
      <3>3. CASE ~ (join /\ Joinable(g)) /\ Admits(g)
        <4>1. cache[g] = LegacyView \/ cache[g].kind = "files"
          BY <1>0, <1>1, <1>3, <3>3, ViewKinds DEF Fits
        <4>2. CASE cache[g].kind = "files"
          BY <3>3, <4>2, PinCases
        <4>3. CASE cache[g] = LegacyView
          BY <3>3, <4>3, PinCases, ViewKinds
        <4> QED
          BY <4>1, <4>2, <4>3
      <3> QED
        BY <3>1, <3>2, <3>3
    <2>3. cache = [h \in Generations |-> cache[h]]
      BY DEF Cached
    <2> QED
      BY <1>1, <2>1, <2>2, <2>3 DEF Repinned
  <1> QED
    BY <1>2, <1>3


\* pin_fresh, and pin, which may join a leased view.
FreshView(g)  == PinView(g, FALSE)
FreshCache(g) == PinCache(g, FALSE)
JoinView(g)   == PinView(g, TRUE)
JoinCache(g)  == PinCache(g, TRUE)

\* pin_fresh of a published generation.
LEMMA PinFreshIs ==
    ASSUME Typed, Linked, Cached, Unmanaged, Newest, Served, NEW g \in published
    PROVE  /\ Repinned(FreshCache(g), g) /\ Fits(FreshView(g), g)
           /\ FreshView(g).kind # "none" => FreshCache(g)[g] = FreshView(g) /\ g >= Floor
           /\ FreshView(g).kind = "legacy" => ~ managed
           /\ FreshView(g).kind = "files" =>
                 records[g].state # "none" /\ Complete(g) /\ FreshView(g) = Candidate(records, g)
  <1>1. PICK join \in BOOLEAN :
           ~ join /\ FreshCache(g) = PinCache(g, join) /\ FreshView(g) = PinView(g, join)
    <2> WITNESS FALSE \in BOOLEAN
    <2> QED
      BY DEF FreshCache, FreshView
  <1>2. /\ Repinned(FreshCache(g), g)
        /\ FreshView(g).kind # "none" => FreshCache(g)[g] = FreshView(g)
    BY <1>1, PinCacheIs
  <1>3. /\ Fits(FreshView(g), g) /\ (FreshView(g).kind # "none" => g >= Floor)
        /\ (FreshView(g).kind = "legacy" => ~ managed)
    BY <1>1, PinIs
  <1>4. FreshView(g).kind = "files" =>
            records[g].state # "none" /\ Complete(g) /\ FreshView(g) = Candidate(records, g)
    BY <1>1, <1>3, PinnedFiles
  <1> QED
    BY <1>2, <1>3, <1>4

\* pin of a published generation.
LEMMA PinJoinIs ==
    ASSUME Typed, Linked, Cached, Unmanaged, Newest, Served, NEW g \in published
    PROVE  /\ Repinned(JoinCache(g), g) /\ Fits(JoinView(g), g)
           /\ JoinView(g).kind # "none" => JoinCache(g)[g] = JoinView(g)
           /\ JoinView(g).kind = "legacy" => ~ managed \/ Joinable(g)
           /\ JoinView(g).kind # "none" => g >= Floor \/ Joinable(g)
           /\ JoinView(g).kind = "files" /\ g >= Floor =>
                 records[g].state # "none" /\ Complete(g) /\ JoinView(g) = Candidate(records, g)
  <1>1. PICK join \in BOOLEAN :
           join /\ JoinCache(g) = PinCache(g, join) /\ JoinView(g) = PinView(g, join)
    <2> WITNESS TRUE \in BOOLEAN
    <2> QED
      BY DEF JoinCache, JoinView
  <1>2. /\ Repinned(JoinCache(g), g)
        /\ JoinView(g).kind # "none" => JoinCache(g)[g] = JoinView(g)
    BY <1>1, PinCacheIs
  <1>3. /\ Fits(JoinView(g), g) /\ (JoinView(g).kind # "none" => g >= Floor \/ Joinable(g))
        /\ (JoinView(g).kind = "legacy" => ~ managed \/ Joinable(g))
    BY <1>1, PinIs
  <1>4. JoinView(g).kind = "files" /\ g >= Floor =>
            records[g].state # "none" /\ Complete(g) /\ JoinView(g) = Candidate(records, g)
    BY <1>1, PinnedFiles
  <1> QED
    BY <1>2, <1>3, <1>4
-----------------------------------------------------------------------------
(* What a step keeps.                                                      *)

WholeNext(p, x) == lexical'[<<p, x>>] = {"current"} /\ vector'[<<p, x>>] = {"current"}

\* The candidate of h is what it was.
Stable(h) ==
    /\ records'[h] = records[h]
    /\ BaseOf(records', h) = BaseOf(records, h)
    /\ Candidate(records', h) = Candidate(records, h)

\* The published rows that the candidate of h selects stay.
RowsKept(h) ==
    \A p \in Paths :
        LET x == Candidate(records, h).files[p] IN
        x # 0 /\ x \in published /\ Whole(p, x) => WholeNext(p, x)

\* A view still fits its generation.
LEMMA FitsStep ==
    ASSUME NEW v, NEW h \in Generations, Fits(v, h), Typed, Typed',
           Floor <= Floor', published \subseteq published',
           records[h].state = "none" /\ h \in published => records'[h].state = "none",
           records[h].state # "none" /\ h >= Floor' => records'[h].state # "none",
           Chain(records', h).kind = "files" => Chain(records', h) = Chain(records, h)
    PROVE  Fits(v, h)'
  <1>1. h \in Nat /\ Floor \in Nat /\ Floor' \in Nat
    <2>1. Floor' \in Nat
      BY PublicationAssumption DEF Typed, Floor, Generations
    <2> QED
      BY <2>1, GenerationsAre
  <1>2. h >= Floor' => h >= Floor
    BY <1>1
  <1> QED
    BY <1>2 DEF Fits

\* Sound, layered and complete candidates stay so.
LEMMA SoundStep ==
    ASSUME NEW h, Sound(h), Stable(h), published \subseteq published', RowsKept(h)
    PROVE  Sound(h)'
  <1> DEFINE v == Candidate(records, h)
  <1>1. /\ BaseOf(records, h).kind = "files" /\ Cardinality(v.ancestry) <= MaxDepth
        /\ \A p \in Paths : \/ p \in records[h].changed \/ v.files[p] = 0
                            \/ v.files[p] \in published /\ Whole(p, v.files[p])
    BY DEF Sound
  <1>2. /\ records'[h] = records[h] /\ BaseOf(records', h) = BaseOf(records, h)
        /\ Candidate(records', h) = v
    BY DEF Stable
  <1>3. \A p \in Paths :
           v.files[p] # 0 /\ v.files[p] \in published /\ Whole(p, v.files[p]) => WholeNext(p, v.files[p])
    BY DEF RowsKept
  <1> HIDE DEF v
  <1> QED
    BY <1>1, <1>2, <1>3 DEF Sound, Whole, WholeNext

\* ... and keeps its place among the served generations,
LEMMA LayersStep ==
    ASSUME NEW h, Layers(h), Stable(h), Typed, Typed', Floor <= Floor',
           \A k \in published' :
               k >= Floor' /\ k < h /\ records'[k].state # "none" =>
                   k \in published /\ Stable(k)
    PROVE  Layers(h)'
  <1>1. \A k \in published' : k \in Nat /\ Floor \in Nat /\ Floor' \in Nat
    <2>1. Floor' \in Nat /\ published' \subseteq Nat
      BY PublicationAssumption DEF Typed, Floor, Generations
    <2> QED
      BY <2>1, GenerationsAre
  <1> SUFFICES ASSUME NEW k \in published', k >= Floor', records'[k].state # "none", k < h,
                      NEW p \in Paths
               PROVE  LET x == Candidate(records', h).files[p] IN
                      x = 0 \/ x > k \/ x = Candidate(records', k).files[p]
    BY DEF Layers
  <1>2. k \in published /\ Stable(k) /\ k >= Floor
    BY <1>1
  <1>3. records[k].state # "none"
    BY <1>2 DEF Stable
  <1>4. LET x == Candidate(records, h).files[p] IN
        x = 0 \/ x > k \/ x = Candidate(records, k).files[p]
    BY <1>2, <1>3 DEF Layers
  <1> QED
    BY <1>2, <1>4 DEF Stable

\* ... so that a complete generation stays complete.
LEMMA CompleteStep ==
    ASSUME NEW h \in Generations, Complete(h), Stable(h), Typed, Typed',
           Floor <= Floor', published \subseteq published', RowsKept(h),
           \A p \in Paths : p \in records[h].changed /\ Whole(p, h) => WholeNext(p, h),
           \A k \in published' :
               k >= Floor' /\ k < h /\ records'[k].state # "none" =>
                   k \in published /\ Stable(k)
    PROVE  Complete(h)'
  <1>1. Sound(h)' /\ Layers(h)'
    BY SoundStep, LayersStep DEF Complete
  <1>2. records'[h] = records[h] /\ records[h].state = "sealed"
    BY DEF Complete, Stable
  <1>3. \A p \in Paths : p \in records[h].changed => WholeNext(p, h)
    BY DEF Complete
  <1> QED
    BY <1>1, <1>2, <1>3 DEF Complete, Whole, WholeNext

\* A reader's view is pinned in the cache.
LEMMA ReaderPins ==
    ASSUME NEW r \in Readers, Reading(r), reader[r].lease # NoLease
    PROVE  /\ Pinned(reader[r].lease.generation)
           /\ cache[reader[r].lease.generation].kind # "none"
  <1> DEFINE l == reader[r].lease
  <1>1. l = Lease(l.generation, l.view) /\ l.view.kind # "none" /\ cache[l.generation] = l.view
    BY DEF Reading
  <1>2. l \in Leases
    BY DEF Leases
  <1> QED
    BY <1>1, <1>2 DEF Pinned

\* A reader that takes no part keeps its view, as long as its rows stay.
LEMMA ReadingStep ==
    ASSUME NEW r \in Readers, Reading(r), reader'[r] = reader[r],
           published \subseteq published',
           \A h \in Generations : Pinned(h) /\ cache[h].kind # "none" => cache'[h] = cache[h],
           reader[r].lease.generation # 0 =>
               \A c \in Selected(reader[r].lease.generation, reader[r].lease.view) :
                   Whole(c[1], c[2]) => WholeNext(c[1], c[2])
    PROVE  Reading(r)'
  <1> DEFINE l == reader[r].lease
  <1>1. /\ reader[r] = [asked |-> reader[r].asked, lease |-> l]
        /\ reader[r].asked \in published \cup {Missing}
        /\ \/ l = NoLease
           \/ /\ l = Lease(l.generation, l.view)
              /\ l.view.kind # "none" /\ l.generation \in Generations
              /\ cache[l.generation] = l.view
        /\ l.generation # 0 =>
              \A c \in Selected(l.generation, l.view) :
                  c \in Paths \X published /\ Whole(c[1], c[2])
    BY DEF Reading
  <1>2. l # NoLease => cache'[l.generation] = l.view
    BY <1>1, ReaderPins
  <1>3. l.generation # 0 =>
            \A c \in Selected(l.generation, l.view) :
                c \in Paths \X published' /\ WholeNext(c[1], c[2])
    BY <1>1
  <1> QED
    BY <1>1, <1>2, <1>3 DEF Reading, Whole, WholeNext

\* The fields of a flow after a step of it.
Moved(f, e, pc, changed, buffered, cancelled, leases) ==
    /\ e.pc = pc /\ e.kind = f.kind /\ e.base = f.base /\ e.target = f.target
    /\ e.changed = changed /\ e.buffered = buffered /\ e.cancelled = cancelled
    /\ e.leases = leases

\* What a step of a flow leaves in its fields.
LEMMA MoveFields ==
    ASSUME ShapeOfFlow, NEW w \in Workers, NEW pc, NEW x
    PROVE  LET f == flow[w]
               e == flow'[w]
           IN
           /\ flow' = [flow EXCEPT ![w].pc = pc]
                 => Moved(f, e, pc, f.changed, f.buffered, f.cancelled, f.leases)
           /\ flow' = [flow EXCEPT ![w].pc = pc, ![w].changed = x]
                 => Moved(f, e, pc, x, f.buffered, f.cancelled, f.leases)
           /\ flow' = [flow EXCEPT ![w].pc = pc, ![w].buffered = x]
                 => Moved(f, e, pc, f.changed, x, f.cancelled, f.leases)
           /\ flow' = [flow EXCEPT ![w].pc = pc, ![w].leases = x]
                 => Moved(f, e, pc, f.changed, f.buffered, f.cancelled, x)
           /\ flow' = [flow EXCEPT ![w].cancelled = x]
                 => Moved(f, e, f.pc, f.changed, f.buffered, x, f.leases)
  <1> DEFINE f == flow[w]
             h == [f EXCEPT !.pc = pc]
             c == [h EXCEPT !.changed = x]
             b == [h EXCEPT !.buffered = x]
             l == [h EXCEPT !.leases = x]
             d == [f EXCEPT !.cancelled = x]
  <1>1. IsFlow(f)
    BY DEF ShapeOfFlow
  <1>2. /\ flow' = [flow EXCEPT ![w].pc = pc] => flow'[w] = h
        /\ flow' = [flow EXCEPT ![w].pc = pc, ![w].changed = x] => flow'[w] = c
        /\ flow' = [flow EXCEPT ![w].pc = pc, ![w].buffered = x] => flow'[w] = b
        /\ flow' = [flow EXCEPT ![w].pc = pc, ![w].leases = x] => flow'[w] = l
        /\ flow' = [flow EXCEPT ![w].cancelled = x] => flow'[w] = d
    BY DEF ShapeOfFlow
  <1> HIDE DEF f
  <1>3. h = [pc |-> pc, kind |-> f.kind, base |-> f.base, target |-> f.target,
             changed |-> f.changed, deleted |-> f.deleted, buffered |-> f.buffered,
             cancelled |-> f.cancelled, leases |-> f.leases]
    BY <1>1 DEF IsFlow
  <1>4. d = [pc |-> f.pc, kind |-> f.kind, base |-> f.base, target |-> f.target,
             changed |-> f.changed, deleted |-> f.deleted, buffered |-> f.buffered,
             cancelled |-> x, leases |-> f.leases]
    BY <1>1 DEF IsFlow
  <1> HIDE DEF h, d
  <1>5. /\ c = [pc |-> pc, kind |-> f.kind, base |-> f.base, target |-> f.target, changed |-> x,
                deleted |-> f.deleted, buffered |-> f.buffered, cancelled |-> f.cancelled,
                leases |-> f.leases]
        /\ b = [pc |-> pc, kind |-> f.kind, base |-> f.base, target |-> f.target,
                changed |-> f.changed, deleted |-> f.deleted, buffered |-> x,
                cancelled |-> f.cancelled, leases |-> f.leases]
        /\ l = [pc |-> pc, kind |-> f.kind, base |-> f.base, target |-> f.target,
                changed |-> f.changed, deleted |-> f.deleted, buffered |-> f.buffered,
                cancelled |-> f.cancelled, leases |-> x]
    BY <1>3
  <1> HIDE DEF c, b, l
  <1>6. /\ Moved(f, h, pc, f.changed, f.buffered, f.cancelled, f.leases)
        /\ Moved(f, d, f.pc, f.changed, f.buffered, x, f.leases)
    BY <1>3, <1>4 DEF Moved
  <1>7. Moved(f, c, pc, x, f.buffered, f.cancelled, f.leases)
    BY <1>5 DEF Moved
  <1>8. Moved(f, b, pc, f.changed, x, f.cancelled, f.leases)
    BY <1>5 DEF Moved
  <1>9. Moved(f, l, pc, f.changed, f.buffered, f.cancelled, x)
    BY <1>5 DEF Moved
  <1>10. flow[w] = f
    BY DEF f
  <1> QED
    BY <1>2, <1>6, <1>7, <1>8, <1>9, <1>10

\* The fields of a new request and of a new operation.
LEMMA RequestFields ==
    ASSUME NEW pc, NEW k, NEW b, NEW t, NEW c, NEW d, NEW l, NEW r,
           r = Request(pc, k, b, t, c, d, l)
    PROVE  /\ r.pc = pc /\ r.kind = k /\ r.base = b /\ r.target = t
           /\ r.changed = c /\ r.buffered = {} /\ r.leases = l
    BY DEF Request

\* The fields of an operation as it begins.
LEMMA OperationFields ==
    ASSUME NEW k, NEW t, NEW x, NEW l, NEW r, r = Operation(k, t, x, l)
    PROVE  r.kind = k /\ r.target = t /\ r.path = x /\ r.fresh = TRUE /\ r.leases = l
    BY DEF Operation

\* A task that is not there has nothing to keep.
LEMMA NoTask ==
    ASSUME NEW w \in Workers, flow'[w] = NoFlow, op'[w] = NoOp
    PROVE  Begun(w)' /\ Staging(w)' /\ Running(w)' /\ Purging(w)'
  <1>1. flow'[w].pc = "idle" /\ op'[w].kind = "none"
    BY EmptyShapes
  <1> QED
    BY <1>1 DEF Begun, Staging, Running, Purging, Staged

\* Nothing the stores hold has changed.
LEMMA SameStores ==
    ASSUME UNCHANGED <<records, published, retiredBefore, lexical, vector>>
    PROVE  \A h : /\ Sound(h) => Sound(h)'
                  /\ Layers(h) => Layers(h)'
                  /\ Complete(h) => Complete(h)'
  <1> SUFFICES ASSUME NEW h
               PROVE  /\ Sound(h) => Sound(h)'
                      /\ Layers(h) => Layers(h)'
                      /\ Complete(h) => Complete(h)'
    OBVIOUS
  <1>1. Floor' = Floor
    BY DEF Floor
  <1>2. Sound(h) => Sound(h)'
    BY DEF Sound, Whole
  <1>3. Layers(h) => Layers(h)'
    BY <1>1 DEF Layers
  <1>4. \A p \in Paths : Whole(p, h) => Whole(p, h)'
    BY DEF Whole
  <1> QED
    BY <1>2, <1>3, <1>4 DEF Complete

\* A purge stays safe while readers keep their views.
LEMMA SamePurge ==
    ASSUME UNCHANGED <<records, published, retiredBefore, reader>>
    PROVE  \A g, leases : PurgeSafe(g, leases) => PurgeSafe(g, leases)'
  <1>1. Floor' = Floor
    BY DEF Floor
  <1> QED
    BY <1>1 DEF PurgeSafe

\* A task that takes no part in a step that leaves the stores alone.
LEMMA TaskKept ==
    ASSUME NEW v \in Workers, Begun(v), Staging(v), Running(v), Purging(v),
           flow'[v] = flow[v], op'[v] = op[v],
           UNCHANGED <<records, published, managed, retiredBefore, legacyThrough, lexical, vector>>,
           flow[v].pc \in Staged \ {"sealed", "publishing"} =>
               cache'[flow[v].target].kind = "none",
           \A g, leases : PurgeSafe(g, leases) => PurgeSafe(g, leases)'
    PROVE  Begun(v)' /\ Staging(v)' /\ Running(v)' /\ Purging(v)'
  <1>0. \A h : /\ Sound(h) => Sound(h)'
               /\ Layers(h) => Layers(h)'
               /\ Complete(h) => Complete(h)'
    BY SameStores
  <1>1. Begun(v)'
    BY DEF Begun
  <1>2. Staging(v)'
    <2>1. \A p \in Paths : Written(flow[v], p) => Written(flow[v], p)'
      BY DEF Written
    <2> QED
      BY <1>0, <2>1 DEF Staging
  <1>3. Running(v)'
    BY <1>0 DEF Running
  <1>4. Purging(v)'
    BY DEF Purging
  <1> QED
    BY <1>1, <1>2, <1>3, <1>4

\* The parts of the invariant that no task and no reader takes part in.
LEMMA StoresKept ==
    ASSUME IInv, RowInv,
           UNCHANGED <<records, published, managed, retiredBefore, legacyThrough, lexical, vector>>,
           ~ managed => head' = head
    PROVE  /\ Linked' /\ Served' /\ Unmanaged' /\ LegacyBound'
           /\ \A v, h : Fits(v, h) => Fits(v, h)'
  <1>0. \A h : Complete(h) => Complete(h)'
    BY SameStores
  <1>1. Floor' = Floor
    BY DEF Floor
  <1>2. Linked' /\ LegacyBound'
    BY DEF RowInv, Linked, LegacyBound
  <1>3. Served'
    BY <1>0, <1>1 DEF RowInv, Served
  <1>4. Unmanaged'
    BY DEF RowInv, Unmanaged, Whole
  <1>5. \A v, h : Fits(v, h) => Fits(v, h)'
    BY <1>1 DEF Fits
  <1> QED
    BY <1>2, <1>3, <1>4, <1>5

\* A step of one task that leaves stores, cache and readers alone.
LEMMA TaskStep ==
    ASSUME IInv, RowInv, NEW w \in Workers,
           UNCHANGED <<records, published, managed, retiredBefore, legacyThrough, lexical, vector,
                       cache, reader>>,
           head' = head,
           \A v \in Workers \ {w} : flow'[v] = flow[v] /\ op'[v] = op[v],
           Begun(w)' /\ Staging(w)' /\ Running(w)' /\ Purging(w)'
    PROVE  RowInv'
  <1>1. Linked' /\ Served' /\ Unmanaged' /\ LegacyBound' /\ \A v, h : Fits(v, h) => Fits(v, h)'
    BY StoresKept
  <1>2. Cached' /\ ReaderShape'
    BY <1>1 DEF RowInv, Cached, ReaderShape
  <1>3. \A r \in Readers : Reading(r)'
    BY DEF RowInv, Reading, Whole
  <1>4. \A v \in Workers \ {w} : Begun(v)' /\ Staging(v)' /\ Running(v)' /\ Purging(v)'
    BY SamePurge, TaskKept DEF RowInv, Staging
  <1> QED
    BY <1>1, <1>2, <1>3, <1>4 DEF RowInv

\* A step that leaves stores, cache, readers and tasks alone.
LEMMA IdleStep ==
    ASSUME IInv, RowInv,
           UNCHANGED <<records, published, managed, retiredBefore, legacyThrough, lexical, vector,
                       cache, reader, flow, op>>,
           ~ managed => head' = head
    PROVE  RowInv'
  <1>1. Linked' /\ Served' /\ Unmanaged' /\ LegacyBound' /\ \A v, h : Fits(v, h) => Fits(v, h)'
    BY StoresKept
  <1>2. Cached' /\ ReaderShape'
    BY <1>1 DEF RowInv, Cached, ReaderShape
  <1>3. \A r \in Readers : Reading(r)'
    BY DEF RowInv, Reading, Whole
  <1>4. \A v \in Workers : Begun(v)' /\ Staging(v)' /\ Running(v)' /\ Purging(v)'
    BY SamePurge, TaskKept DEF RowInv, Staging
  <1> QED
    BY <1>1, <1>2, <1>3, <1>4 DEF RowInv

-----------------------------------------------------------------------------
(* Steps that leave the stores alone.                                      *)

\* The cancellation token, the launch of a clear and of a publication.
LEMMA TaskRows ==
    ASSUME IInv, RowInv, NEW w \in Workers, CancelToken(w) \/ ClearVector(w) \/ StartPublish(w)
    PROVE  RowInv'
  <1> DEFINE f == flow[w]
  <1>0. ShapeOfFlow /\ ShapeOfOp /\ Fresh /\ Begun(w) /\ Staging(w) /\ Running(w) /\ Purging(w)
    BY DEF IInv, Shape, RowInv
  <1>1. /\ UNCHANGED <<records, published, managed, retiredBefore, legacyThrough, lexical, vector,
                       cache, reader>>
        /\ head' = head
    BY DEF CancelToken, ClearVector, StartPublish, registry, catalog, rows
  <1>2. \A h : (Sound(h) => Sound(h)') /\ (Layers(h) => Layers(h)') /\ (Complete(h) => Complete(h)')
    BY <1>1, SameStores
  <1>3. CASE CancelToken(w)
    <2>1. /\ flow' = [flow EXCEPT ![w].cancelled = TRUE] /\ op' = op
          /\ f.pc \in {"writing", "embedding"}
      BY <1>3 DEF CancelToken
    <2>2. Moved(f, flow'[w], f.pc, f.changed, f.buffered, TRUE, f.leases)
      BY <1>0, <2>1, MoveFields
    <2>3. \A v \in Workers \ {w} : flow'[v] = flow[v] /\ op'[v] = op[v]
      BY <1>0, <2>1, MarkCancelled
    <2> HIDE DEF f
    <2>4. Begun(w)' /\ Purging(w)'
      BY <2>1, <2>2 DEF Begun, Purging, Moved
    <2>5. Staging(w)'
      <3>1. \A p \in Paths : Written(flow[w], p) => Written(flow[w], p)'
        BY <1>1, <2>2 DEF Written, Moved, f
      <3> QED
        BY <1>0, <1>1, <1>2, <2>1, <2>2, <3>1 DEF Staging, Staged, Moved, f
    <2>6. Running(w)'
      <3>1. op[w].kind \notin {"purge", "publish"}
        BY <1>0, <2>1 DEF Running, Waits, f
      <3> QED
        BY <1>0, <1>1, <2>1, <2>2, <3>1 DEF Running, Moved, f
    <2> QED
      BY <1>1, <2>3, <2>4, <2>5, <2>6, TaskStep
  <1>4. CASE ClearVector(w)
    <2> DEFINE o == Operation("clear", f.target, {}, {})
    <2>1. /\ flow' = [flow EXCEPT ![w].pc = "clearing"] /\ op' = [op EXCEPT ![w] = o]
          /\ f.pc = "prepared"
      BY <1>4 DEF ClearVector, Launch, Step
    <2>o. IsOp(o) /\ o.kind = "clear" /\ o.target = f.target
      BY NewOperation
    <2> HIDE DEF o
    <2>2. Moved(f, flow'[w], "clearing", f.changed, f.buffered, f.cancelled, f.leases)
      BY <1>0, <2>1, MoveFields
    <2>3. op'[w] = o /\ \A v \in Workers \ {w} : flow'[v] = flow[v] /\ op'[v] = op[v]
      BY <1>0, <2>1, <2>o, MoveFlow, SetOp
    <2> HIDE DEF f
    <2>4. Begun(w)' /\ Purging(w)'
      BY <2>1, <2>2 DEF Begun, Purging, Moved
    <2>5. Staging(w)'
      BY <1>0, <1>1, <1>2, <2>1, <2>2 DEF Staging, Staged, Moved, f
    <2>6. \A p \in published : p < f.target
      BY <1>0, <2>1 DEF Fresh, Staged, f
    <2>7. Running(w)'
      BY <1>1, <2>2, <2>3, <2>o, <2>6 DEF Running, Waits, Moved
    <2> QED
      BY <1>1, <2>3, <2>4, <2>5, <2>7, TaskStep
  <1>5. CASE StartPublish(w)
    <2> DEFINE o == Operation("publish", f.target, {}, {})
    <2>1. /\ flow' = [flow EXCEPT ![w].pc = "publishing"] /\ op' = [op EXCEPT ![w] = o]
          /\ f.pc = "sealed"
      BY <1>5 DEF StartPublish, Launch, Step
    <2>o. IsOp(o) /\ o.kind = "publish" /\ o.target = f.target
      BY NewOperation
    <2> HIDE DEF o
    <2>2. Moved(f, flow'[w], "publishing", f.changed, f.buffered, f.cancelled, f.leases)
      BY <1>0, <2>1, MoveFields
    <2>3. op'[w] = o /\ \A v \in Workers \ {w} : flow'[v] = flow[v] /\ op'[v] = op[v]
      BY <1>0, <2>1, <2>o, MoveFlow, SetOp
    <2> HIDE DEF f
    <2>4. Begun(w)' /\ Purging(w)'
      BY <2>1, <2>2 DEF Begun, Purging, Moved
    <2>c. Complete(f.target) /\ Complete(f.target)'
      BY <1>0, <1>2, <2>1, <2>2 DEF Staging, Staged, Moved, f
    <2>5. Staging(w)'
      BY <1>0, <1>1, <1>2, <2>1, <2>2, <2>c DEF Staging, Staged, Moved, f
    <2>7. Running(w)'
      BY <1>0, <1>1, <1>2, <2>1, <2>2, <2>3, <2>o, <2>c DEF Running, Waits, Moved, f
    <2> QED
      BY <1>1, <2>3, <2>4, <2>5, <2>7, TaskStep
  <1> QED
    BY <1>3, <1>4, <1>5

\* Above the high water the stores are empty.
LEMMA HighWaterRows ==
    ASSUME IInv, NEW g \in Generations, g > HighWater, NEW q \in Paths
    PROVE  lexical[<<q, g>>] = {} /\ vector[<<q, g>>] = {}
  <1> DEFINE Seen == {k \in Generations :
                        \/ k \in Recorded \/ cache[k].kind # "none"
                        \/ \E p \in Paths :
                              \/ lexical[<<p, k>>] # {} \/ vector[<<p, k>>] # {}
                              \/ \E h \in Generations : <<p, k>> \in Selected(h, cache[h])}
             S == {0, Floor, legacyThrough} \cup Seen
  <1>0. Typed
    BY DEF IInv
  <1>1. HighWater = Largest(S)
    BY DEF HighWater
  <1>2. g \notin Seen => lexical[<<q, g>>] = {} /\ vector[<<q, g>>] = {}
    OBVIOUS
  <1>4. Seen \subseteq Generations
    OBVIOUS
  <1> HIDE DEF Seen
  <1>5. MaxGeneration \in Nat /\ 0 \in Generations /\ \A x \in Generations : x \in Int /\ x <= MaxGeneration
    BY PublicationAssumption DEF Generations
  <1>6. Floor \in Generations
    BY <1>0, <1>5 DEF Floor, Typed
  <1>7. legacyThrough \in Generations \cup {Missing}
    BY <1>0 DEF Typed
  <1>8. S \subseteq Int /\ S # {} /\ \A x \in S : x <= MaxGeneration
    BY <1>4, <1>5, <1>6, <1>7 DEF Missing
  <1>9. HighWater \in S /\ \A y \in S : y <= HighWater
    BY <1>1, <1>5, <1>8, LargestIsLargest
  <1>10. HighWater \in Int /\ g \in Int
    BY <1>5, <1>8, <1>9
  <1>11. g \notin S
    BY <1>9, <1>10
  <1> QED
    BY <1>2, <1>11

\* A request begins.
LEMMA BeginRows ==
    ASSUME IInv, RowInv, NEW w \in Workers, NEW k, NEW b, NEW t, NEW c, NEW d,
           Begin(w, k, b, t, c, d), UNCHANGED <<head, managed, published>>,
           \/ /\ k \in {"update", "full"}
              /\ b \in published /\ t = b + 1 /\ \A p \in published : p <= b
           \/ /\ k = "recovery" /\ managed
              /\ \A p \in Paths : lexical[<<p, t>>] = {} /\ vector[<<p, t>>] = {}
    PROVE  RowInv'
  <1> DEFINE r == Request("begun", k, b, t, c, d, {})
  <1>1. IsFlow(r) /\ r.pc = "begun" /\ r.target = t /\ r.base = b /\ r.kind = k
    BY NewRequest, RequestFields
  <1> HIDE DEF r
  <1>2. /\ flow' = [flow EXCEPT ![w] = r] /\ op' = op /\ op[w].kind = "none"
        /\ UNCHANGED <<records, legacyThrough, retiredBefore, lexical, vector, cache, reader>>
    BY DEF Begin, catalog, rows, r
  <1>3. flow'[w] = r /\ \A v \in Workers \ {w} : flow'[v] = flow[v] /\ op'[v] = op[v]
    BY <1>1, <1>2, SetFlow DEF IInv, Shape
  <1>4. Begun(w)'
    BY <1>1, <1>2, <1>3 DEF Begun
  <1>5. Staging(w)' /\ Purging(w)' /\ Running(w)'
    BY <1>1, <1>2, <1>3 DEF Staging, Staged, Purging, Running
  <1> QED
    BY <1>2, <1>3, <1>4, <1>5, TaskStep

\* Updates, full repairs and recoveries begin.
LEMMA BeginWriteRows ==
    ASSUME IInv, RowInv, NEW w \in Workers, NEW c, NEW d,
           BeginUpdate(w, c, d) \/ BeginFull(w, c) \/ BeginRecovery(w, c)
    PROVE  RowInv'
  <1>1. CASE BeginUpdate(w, c, d) \/ BeginFull(w, c)
    <2>1. PICK k, e : k \in {"update", "full"} /\ Begin(w, k, head, head + 1, c, e)
      BY <1>1 DEF BeginUpdate, BeginFull
    <2>2. head # Missing /\ UNCHANGED <<head, managed, published>>
      BY <1>1 DEF BeginUpdate, BeginFull
    <2>3. head \in published /\ \A p \in published : p <= head
      BY <2>2 DEF IInv, Newest
    <2> QED
      BY <2>1, <2>2, <2>3, BeginRows
  <1>2. CASE BeginRecovery(w, c)
    <2> DEFINE b == HighWater
               t == RecoveryTarget
    <2>1. Begin(w, "recovery", b, t, c, {}) /\ head = Missing /\ UNCHANGED <<head, managed, published>>
      BY <1>2 DEF BeginRecovery
    <2>2. managed
      BY <2>1 DEF IInv, Newest
    <2>3. t \in Generations
      BY <2>1 DEF Begin
    <2>4. t > b
      <3> DEFINE S == {sequence, b}
                 x == Largest(S)
                 m == IF sequence <= b THEN b ELSE sequence
      <3>1. b \in Int /\ sequence \in Int
        BY <2>1, RecoveryIsFresh DEF IInv, Typed, Generations
      <3> HIDE DEF b
      <3>2. S \subseteq Int /\ S # {} /\ m \in Int /\ \A y \in S : y <= m
        BY <3>1
      <3> HIDE DEF m
      <3>3. x \in S /\ \A y \in S : y <= x
        BY <3>2, LargestIsLargest
      <3>4. t = x + 1
        BY DEF RecoveryTarget, b
      <3> HIDE DEF x, t
      <3> QED
        BY <3>1, <3>2, <3>3, <3>4
    <2>5. \A p \in Paths : lexical[<<p, t>>] = {} /\ vector[<<p, t>>] = {}
      BY <2>3, <2>4, HighWaterRows
    <2> HIDE DEF b, t
    <2> QED
      BY <2>1, <2>2, <2>5, BeginRows
  <1> QED
    BY <1>1, <1>2

-----------------------------------------------------------------------------
(* Steps that pin a view.                                                  *)

\* The cells a view selects.
LEMMA SelectedCells ==
    ASSUME NEW g, NEW v
    PROVE  /\ v.kind = "files" => Selected(g, v) = {<<p, v.files[p]>> : p \in {q \in Paths : v.files[q] # 0}}
           /\ v.kind = "legacy" => Selected(g, v) = Paths \X {g}
           /\ v.kind = "none" => Selected(g, v) = {}
    BY DEF Selected

\* The cells that a published, complete generation selects.
LEMMA CompleteCells ==
    ASSUME Typed, Linked, NEW g \in published, Complete(g),
           NEW c \in Selected(g, Candidate(records, g))
    PROVE  c \in Paths \X published /\ Whole(c[1], c[2])
  <1> DEFINE v == Candidate(records, g)
  <1>0. g \in Generations /\ Backward(records)
    BY LinkedBackward DEF Typed
  <1>1. v.kind = "files" /\ \A p \in Paths : p \in records[g].changed => v.files[p] = g
    BY <1>0, ChainOf
  <1>2. \A p \in Paths : \/ p \in records[g].changed /\ Whole(p, g)
                         \/ v.files[p] = 0
                         \/ v.files[p] \in published /\ Whole(p, v.files[p])
    BY DEF Complete, Sound
  <1>v. c \in Selected(g, v)
    OBVIOUS
  <1> HIDE DEF v
  <1>3. PICK p \in Paths : v.files[p] # 0 /\ c = <<p, v.files[p]>>
    BY <1>1, <1>v, SelectedCells
  <1> QED
    BY <1>1, <1>2, <1>3

\* A purge up to k spares what a served generation selects.
LEMMA SparedCells ==
    ASSUME Typed, Linked, NEW g \in published, Complete(g), NEW k \in published, k = Floor, k <= g,
           records[k].state # "none", NEW c \in Selected(g, Candidate(records, g))
    PROVE  c[2] >= k \/ c \in Selected(k, Candidate(records, k))
  <1> DEFINE v == Candidate(records, g)
             u == Candidate(records, k)
  <1>0. g \in Generations /\ k \in Generations /\ Backward(records) /\ g \in Nat /\ k \in Nat
    BY LinkedBackward, GenerationsAre DEF Typed
  <1>1. v.kind = "files" /\ u.kind = "files"
    BY <1>0, ChainOf
  <1>2. c \in Paths \X published
    BY CompleteCells
  <1>3. c[2] \in Nat
    BY <1>2, GenerationsAre
  <1>4. k >= Floor /\ Layers(g)
    BY <1>0 DEF Complete
  <1>5. k < g => \A p \in Paths : v.files[p] = 0 \/ v.files[p] > k \/ v.files[p] = u.files[p]
    BY <1>4 DEF Layers
  <1>6. k < g \/ u = v
    BY <1>0
  <1>v. c \in Selected(g, v)
    OBVIOUS
  <1> HIDE DEF u, v
  <1>7. PICK p \in Paths : v.files[p] # 0 /\ c = <<p, v.files[p]>>
    BY <1>1, <1>v, SelectedCells
  <1>8. u.files[p] = v.files[p] => c \in Selected(k, u)
    BY <1>1, <1>7, SelectedCells
  <1>9. v.files[p] > k => c[2] >= k
    BY <1>0, <1>3, <1>7
  <1> QED
    BY <1>5, <1>6, <1>7, <1>8, <1>9 DEF u

\* A view pinned now is spared by a purge that was protected before.
SparedLease(l) ==
    l.generation # 0 =>
        \A k \in published : k = Floor /\ records[k].state # "none" =>
            \A c \in Selected(l.generation, l.view) :
                c[2] >= k \/ c \in Selected(k, Candidate(records, k))

\* A purge stays safe when readers let go or take leases it spares.
LEMMA PurgeKept ==
    ASSUME UNCHANGED <<records, published, retiredBefore>>,
           \A r \in Readers :
               reader'[r].lease = reader[r].lease \/ SparedLease(reader'[r].lease)
    PROVE  \A g, leases : PurgeSafe(g, leases) => PurgeSafe(g, leases)'
  <1> SUFFICES ASSUME NEW g, NEW leases, PurgeSafe(g, leases)
               PROVE  PurgeSafe(g, leases)'
    OBVIOUS
  <1>1. Floor' = Floor
    BY DEF Floor
  <1>2. /\ g \in published /\ records[g].state # "none" /\ Floor = g
        /\ Selected(g, Candidate(records, g)) \subseteq Keep(leases)
    BY DEF PurgeSafe
  <1>3. ASSUME NEW r \in Readers, reader'[r].lease.generation # 0,
               NEW c \in Selected(reader'[r].lease.generation, reader'[r].lease.view)
        PROVE  c[2] >= g \/ c \in Keep(leases)
    <2>1. CASE reader'[r].lease = reader[r].lease
      BY <1>3, <2>1 DEF PurgeSafe
    <2>2. CASE SparedLease(reader'[r].lease)
      BY <1>2, <1>3, <2>2 DEF SparedLease
    <2> QED
      BY <2>1, <2>2
  <1> QED
    BY <1>1, <1>2, <1>3 DEF PurgeSafe

\* The parts of the invariant that a step keeps which only changes the cache,
\* a task or a reader.
LEMMA CacheKept ==
    ASSUME IInv, RowInv,
           UNCHANGED <<records, published, managed, retiredBefore, legacyThrough, lexical, vector>>,
           head' = head,
           cache' = [h \in Generations |-> cache'[h]],
           \A h \in Generations :
               /\ Fits(cache'[h], h)
               /\ cache'[h] \in {NoView, cache[h]} \/ h \in published,
           \A g, leases : PurgeSafe(g, leases) => PurgeSafe(g, leases)'
    PROVE  /\ Linked' /\ Served' /\ Unmanaged' /\ LegacyBound' /\ Cached'
           /\ \A v \in Workers : flow'[v] = flow[v] /\ op'[v] = op[v] =>
                 Begun(v)' /\ Staging(v)' /\ Running(v)' /\ Purging(v)'
  <1>1. Linked' /\ Served' /\ Unmanaged' /\ LegacyBound' /\ \A v, h : Fits(v, h) => Fits(v, h)'
    BY StoresKept
  <1>2. Cached'
    <2>1. ASSUME NEW h \in Generations
          PROVE  Fits(cache[h], h)'
      <3>1. PICK v : v = cache'[h] /\ Fits(v, h)
        BY <2>1
      <3>2. Fits(v, h)'
        BY <1>1, <3>1
      <3> QED
        BY <3>1, <3>2
    <2> QED
      BY <2>1 DEF Cached
  <1>3. ASSUME NEW v \in Workers, flow'[v] = flow[v], op'[v] = op[v]
        PROVE  Begun(v)' /\ Staging(v)' /\ Running(v)' /\ Purging(v)'
    <2>1. Begun(v) /\ Staging(v) /\ Running(v) /\ Purging(v) /\ Fresh /\ Typed
      BY DEF RowInv, IInv
    <2>2. ASSUME flow[v].pc \in Staged \ {"sealed", "publishing"}
          PROVE  cache'[flow[v].target].kind = "none"
      <3> DEFINE t == flow[v].target
      <3>1. t \in Generations /\ t \in Nat /\ \A p \in published : p < t
        BY <2>1, <2>2, GenerationsAre DEF Typed, Fresh
      <3>2. t \notin published
        <4>1. ~ (t < t)
          BY <3>1
        <4> QED
          BY <3>1, <4>1
      <3>3. cache[t].kind = "none"
        BY <2>1, <2>2 DEF Staging
      <3> QED
        BY <3>1, <3>2, <3>3, ViewKinds
    <2> QED
      BY <1>3, <2>1, <2>2, TaskKept
  <1> QED
    BY <1>1, <1>2, <1>3

\* The sweep begins.
LEMMA SweepRows ==
    ASSUME IInv, RowInv, NEW w \in Workers, BeginSweep(w)
    PROVE  RowInv'
  <1> DEFINE l == {Lease(head, PinView(head, FALSE))}
             r == Request("collecting", "sweep", head, head, {}, {}, l)
  <1>0. /\ Typed /\ Newest /\ Shape /\ Linked /\ Cached /\ Unmanaged /\ Served /\ ReaderShape
        /\ \A x \in Readers : Reading(x)
    BY DEF IInv, RowInv
  <1>1. /\ flow' = [flow EXCEPT ![w] = r] /\ op' = op /\ op[w].kind = "none"
        /\ head # Missing /\ managed /\ cache' = PinCache(head, FALSE)
        /\ UNCHANGED <<head, records, published, managed, retiredBefore, legacyThrough, lexical, vector,
                       reader>>
    BY DEF BeginSweep, registry, rows
  <1> HIDE DEF l
  <1>2. IsFlow(r) /\ r.pc = "collecting" /\ r.target = head
    BY NewRequest
  <1> HIDE DEF r
  <1>3. flow'[w] = r /\ \A v \in Workers \ {w} : flow'[v] = flow[v] /\ op'[v] = op[v]
    BY <1>0, <1>1, <1>2, SetFlow DEF Shape
  <1>4. head \in published
    BY <1>0, <1>1 DEF Newest
  <1>5. /\ cache' = [h \in Generations |-> cache'[h]]
        /\ \A h \in Generations :
              /\ Fits(cache'[h], h)
              /\ cache'[h] \in {NoView, cache[h]} \/ h = head
              /\ Pinned(h) /\ cache[h].kind # "none" => cache'[h] = cache[h]
    <2>1. PICK g \in published : g = head
      BY <1>4
    <2>2. cache' = FreshCache(g)
      BY <1>1, <2>1 DEF FreshCache
    <2>3. Repinned(FreshCache(g), g)
      BY <1>0, PinFreshIs
    <2> QED
      BY <2>1, <2>2, <2>3 DEF Repinned
  <1>6. \A g, leases : PurgeSafe(g, leases) => PurgeSafe(g, leases)'
    BY <1>1, SamePurge
  <1>7. /\ Linked' /\ Served' /\ Unmanaged' /\ LegacyBound' /\ Cached'
        /\ \A v \in Workers : flow'[v] = flow[v] /\ op'[v] = op[v] =>
              Begun(v)' /\ Staging(v)' /\ Running(v)' /\ Purging(v)'
    BY <1>1, <1>4, <1>5, <1>6, CacheKept
  <1>8. \A x \in Readers : Reading(x)'
    <2>1. \A p, x : Whole(p, x) => WholeNext(p, x)
      BY <1>1 DEF Whole, WholeNext
    <2> QED
      BY <1>0, <1>1, <1>5, <2>1, ReadingStep
  <1>9. records[head].state # "none"
    <2>1. PICK m \in published : (\A p \in published : p <= m) /\ records[m].state # "none"
      BY <1>0, <1>1 DEF Newest
    <2>2. head <= m /\ m <= head
      BY <1>0, <1>1, <1>4, <2>1 DEF Newest
    <2>3. head \in Nat /\ m \in Nat
      BY <1>0, <1>4, GenerationsAre
    <2>4. head = m
      BY <2>2, <2>3
    <2> QED
      BY <2>1, <2>4
  <1>10. Begun(w)' /\ Staging(w)' /\ Running(w)' /\ Purging(w)'
    BY <1>1, <1>2, <1>3, <1>9 DEF Begun, Staging, Staged, Running, Purging
  <1>11. ReaderShape'
    BY <1>0, <1>1 DEF ReaderShape
  <1> QED
    BY <1>3, <1>7, <1>8, <1>10, <1>11 DEF RowInv

\* A reader's step: what it changes is its own view, and the cache.
LEMMA ReaderKeeps ==
    ASSUME IInv, RowInv, NEW r \in Readers, NEW x,
           reader' = [reader EXCEPT ![r] = x],
           x.lease = reader[r].lease \/ SparedLease(x.lease),
           UNCHANGED <<head, records, published, managed, retiredBefore, legacyThrough, lexical, vector,
                       flow, op>>,
           cache' = [h \in Generations |-> cache'[h]],
           \A h \in Generations :
               /\ Fits(cache'[h], h)
               /\ cache'[h] \in {NoView, cache[h]} \/ h \in published
               /\ Pinned(h) /\ cache[h].kind # "none" => cache'[h] = cache[h],
           Reading(r)'
    PROVE  RowInv'
  <1>0. ReaderShape /\ \A y \in Readers : Reading(y)
    BY DEF RowInv
  <1>1. /\ ReaderShape' /\ reader'[r] = x
        /\ \A y \in Readers \ {r} : reader'[y] = reader[y]
    BY <1>0 DEF ReaderShape
  <1>2. \A y \in Readers : reader'[y].lease = reader[y].lease \/ SparedLease(reader'[y].lease)
    BY <1>1
  <1>3. \A g, leases : PurgeSafe(g, leases) => PurgeSafe(g, leases)'
    BY <1>2, PurgeKept
  <1>4. /\ Linked' /\ Served' /\ Unmanaged' /\ LegacyBound' /\ Cached'
        /\ \A v \in Workers : flow'[v] = flow[v] /\ op'[v] = op[v] =>
              Begun(v)' /\ Staging(v)' /\ Running(v)' /\ Purging(v)'
    BY <1>3, CacheKept
  <1>5. \A y \in Readers : Reading(y)'
    <2>1. \A p, z : Whole(p, z) => WholeNext(p, z)
      BY DEF Whole, WholeNext
    <2>2. ASSUME NEW y \in Readers \ {r}
          PROVE  Reading(y)'
      BY <1>0, <1>1, <2>1, <2>2, ReadingStep
    <2> QED
      BY <2>2
  <1> QED
    BY <1>1, <1>4, <1>5 DEF RowInv

\* A request reads the published generation, pins it, or ends.
LEMMA ReaderRows ==
    ASSUME IInv, RowInv, NEW r \in Readers, ReaderStep(r)
    PROVE  RowInv'
  <1> DEFINE d == reader[r]
  <1>0. /\ Typed /\ Newest /\ Linked /\ Cached /\ Unmanaged /\ Served /\ ReaderShape /\ Reading(r)
    BY DEF IInv, RowInv
  <1>1. UNCHANGED <<head, records, published, managed, retiredBefore, legacyThrough, lexical, vector,
                    flow, op>>
    BY DEF ReaderStep, ReadHead, PinSource, Release, registry, catalog, rows, tasks
  <1>2. d = [asked |-> d.asked, lease |-> d.lease]
    BY <1>0 DEF Reading
  <1>3. CASE ReadHead(r) \/ Release(r)
    <2>1. cache' = cache
      BY <1>3 DEF ReadHead, Release, catalog
    <2>2. /\ cache' = [h \in Generations |-> cache'[h]]
          /\ \A h \in Generations :
                /\ Fits(cache'[h], h)
                /\ cache'[h] \in {NoView, cache[h]} \/ h \in published
                /\ Pinned(h) /\ cache[h].kind # "none" => cache'[h] = cache[h]
      BY <1>0, <2>1 DEF Cached
    <2>3. CASE ReadHead(r)
      <3> DEFINE x == [d EXCEPT !.asked = head]
      <3>1. reader' = [reader EXCEPT ![r] = x] /\ head # Missing
        BY <2>3 DEF ReadHead
      <3>2. head \in published
        BY <1>0, <3>1 DEF Newest
      <3> HIDE DEF d
      <3>3. x = [asked |-> head, lease |-> d.lease]
        BY <1>2
      <3> HIDE DEF x
      <3>4. x.asked = head /\ x.lease = reader[r].lease
        BY <3>3 DEF d
      <3>5. reader'[r] = x
        BY <1>0, <3>1 DEF ReaderShape
      <3>6. reader'[r] = [asked |-> reader'[r].asked, lease |-> reader'[r].lease]
        BY <3>3, <3>5
      <3>7. Reading(r)'
        BY <1>0, <1>1, <2>1, <3>2, <3>4, <3>5, <3>6 DEF Reading, Whole
      <3> QED
        BY <1>1, <2>2, <3>1, <3>4, <3>7, ReaderKeeps
    <2>4. CASE Release(r)
      <3> DEFINE x == [d EXCEPT !.lease = NoLease]
      <3>1. reader' = [reader EXCEPT ![r] = x]
        BY <2>4 DEF Release
      <3> HIDE DEF d
      <3>3. x = [asked |-> d.asked, lease |-> NoLease]
        BY <1>2
      <3> HIDE DEF x
      <3>4. x.asked = reader[r].asked /\ x.lease = NoLease /\ NoLease.generation = 0
        BY <3>3 DEF d, NoLease, Lease
      <3>5. reader'[r] = x
        BY <1>0, <3>1 DEF ReaderShape
      <3>6. reader'[r] = [asked |-> reader'[r].asked, lease |-> reader'[r].lease]
        BY <3>3, <3>5
      <3>7. Reading(r)'
        BY <1>0, <1>1, <3>4, <3>5, <3>6 DEF Reading
      <3>8. SparedLease(x.lease)
        BY <3>4 DEF SparedLease
      <3> QED
        BY <1>1, <2>2, <3>1, <3>7, <3>8, ReaderKeeps
    <2> QED
      BY <1>3, <2>3, <2>4
  <1>4. CASE PinSource(r)
    <2>0. reader[r].asked # Missing /\ reader[r].asked \in published
      BY <1>0, <1>4 DEF PinSource, Reading
    <2>1. PICK g \in published : g = reader[r].asked
      BY <2>0
    <2> DEFINE c == FreshCache(g)
               v == FreshView(g)
               l == IF v.kind = "none" THEN NoLease ELSE Lease(g, v)
               x == [asked |-> Missing, lease |-> l]
    <2>2. cache' = c /\ reader' = [reader EXCEPT ![r] = x]
      BY <1>4, <2>1 DEF PinSource, FreshCache, FreshView
    <2>3. /\ c = [h \in Generations |-> c[h]]
          /\ \A h \in Generations :
                /\ Fits(c[h], h)
                /\ c[h] \in {NoView, cache[h]} \/ h = g
                /\ Pinned(h) /\ cache[h].kind # "none" => c[h] = cache[h]
          /\ Fits(v, g)
          /\ v.kind # "none" => c[g] = v /\ g >= Floor
          /\ v.kind = "legacy" => ~ managed
          /\ v.kind = "files" =>
                records[g].state # "none" /\ Complete(g) /\ v = Candidate(records, g)
      BY <1>0, PinFreshIs DEF Repinned
    <2> HIDE DEF c, v
    <2>4. /\ v.kind = "none" => l = NoLease
          /\ v.kind # "none" => l = Lease(g, v) /\ l.generation = g /\ l.view = v
          /\ NoLease.generation = 0
      BY DEF Lease, NoLease
    <2>5. x.lease = l /\ x.asked = Missing /\ x = [asked |-> x.asked, lease |-> x.lease]
      OBVIOUS
    <2> HIDE DEF x, l
    <2>6. reader'[r] = x
      BY <1>0, <2>2 DEF ReaderShape
    <2>7. v.kind = "none" \/ v.kind = "legacy" \/ v.kind = "files"
      BY <2>3, ViewKinds DEF Fits
    <2>8. l.generation # 0 =>
              \A e \in Selected(l.generation, l.view) :
                  e \in Paths \X published /\ Whole(e[1], e[2])
      <3>1. CASE v.kind = "none"
        BY <2>4, <3>1
      <3>2. CASE v.kind = "legacy"
        <4>1. published = {head} /\ g = head /\ (head # 0 => \A p \in Paths : Whole(p, head))
          BY <1>0, <2>3, <3>2 DEF Unmanaged
        <4>2. l.generation = g /\ Selected(l.generation, l.view) = Paths \X {g}
          BY <2>4, <3>2, SelectedCells
        <4> QED
          BY <4>1, <4>2
      <3>3. CASE v.kind = "files"
        <4>1. Selected(l.generation, l.view) = Selected(g, Candidate(records, g)) /\ Complete(g)
          BY <2>3, <2>4, <3>3
        <4> QED
          BY <1>0, <4>1, CompleteCells
      <3> QED
        BY <2>7, <3>1, <3>2, <3>3
    <2>9. SparedLease(l)
      <3>1. CASE v.kind = "none"
        BY <2>4, <3>1 DEF SparedLease
      <3>2. CASE v.kind = "legacy"
        <4>1. published = {head} /\ records[head].state = "none"
          BY <1>0, <2>3, <3>2 DEF Unmanaged
        <4> QED
          BY <4>1 DEF SparedLease
      <3>3. CASE v.kind = "files"
        <4>1. /\ Selected(l.generation, l.view) = Selected(g, Candidate(records, g)) /\ Complete(g)
              /\ Floor <= g
          <5>1. g >= Floor /\ g \in Nat /\ Floor \in Nat
            BY <1>0, <2>3, <3>3, GenerationsAre
          <5> QED
            BY <2>3, <2>4, <3>3, <5>1
        <4> QED
          BY <1>0, <4>1, SparedCells DEF SparedLease
      <3> QED
        BY <2>7, <3>1, <3>2, <3>3
    <2>10. Reading(r)'
      <3>1. \A p, y : Whole(p, y) => Whole(p, y)'
        BY <1>1 DEF Whole
      <3>2. l.generation # 0 =>
              \A e \in Selected(l.generation, l.view) :
                  e \in Paths \X published /\ Whole(e[1], e[2])'
        BY <2>8, <3>1
      <3>3. l = NoLease \/ (/\ l = Lease(l.generation, l.view)
                            /\ l.view.kind # "none" /\ l.generation \in Generations
                            /\ cache'[l.generation] = l.view)
        BY <1>0, <2>2, <2>3, <2>4 DEF Typed
      <3> QED
        BY <1>1, <2>5, <2>6, <3>2, <3>3 DEF Reading, Whole
    <2> QED
      BY <1>1, <2>2, <2>3, <2>5, <2>9, <2>10, ReaderKeeps
  <1> QED
    BY <1>3, <1>4 DEF ReaderStep

\* The process dies.
LEMMA CrashRows ==
    ASSUME IInv, RowInv, Crash \/ \E w \in Workers : CrashInFirstPreparation(w)
    PROVE  RowInv'
  <1>0. /\ Typed /\ Linked /\ Served /\ Unmanaged /\ LegacyBound
        /\ \A w \in Workers : Begun(w)
    BY DEF IInv, RowInv
  <1>1. UNCHANGED <<head, managed, published, records, lexical, vector>> /\ LoseMemory
    BY DEF Crash, CrashInFirstPreparation, rows
  <1>2. Floor' = Floor /\ LegacyBound'
    <2>1. CASE Crash
      BY <1>0, <2>1 DEF Crash, Floor, LegacyBound
    <2>2. ASSUME NEW w \in Workers, CrashInFirstPreparation(w)
          PROVE  Floor' = Floor /\ LegacyBound'
      <3>1. /\ flow[w].pc = "begun" /\ retiredBefore' = 0 /\ ~ HasAuthority
            /\ legacyThrough' \in {Missing, flow[w].base}
        BY <2>2 DEF CrashInFirstPreparation
      <3>2. retiredBefore = Missing /\ ~ managed
        BY <3>1 DEF HasAuthority, HasMetadata
      <3>3. Floor = 0 /\ Floor' = 0
        BY <3>1, <3>2 DEF Floor, Missing
      <3>4. flow[w].base \in published
        BY <1>0, <3>1, <3>2 DEF Begun
      <3> QED
        BY <1>1, <3>1, <3>3, <3>4 DEF LegacyBound
    <2> QED
      BY <2>1, <2>2
  <1>3. /\ cache' = EmptyCache /\ flow' = [w \in Workers |-> NoFlow]
        /\ op' = [w \in Workers |-> NoOp]
        /\ reader' = [r \in Readers |-> [asked |-> Missing, lease |-> NoLease]]
    BY <1>1 DEF LoseMemory
  <1>4. \A h : Complete(h) => Complete(h)'
    <2> SUFFICES ASSUME NEW h, Complete(h)
                 PROVE  Complete(h)'
      OBVIOUS
    <2>1. Sound(h)' /\ \A p \in Paths : Whole(p, h) => Whole(p, h)'
      BY <1>1 DEF Complete, Sound, Whole
    <2>2. Layers(h)'
      BY <1>1, <1>2 DEF Complete, Layers
    <2> QED
      BY <1>1, <2>1, <2>2 DEF Complete
  <1>5. Linked' /\ Unmanaged'
    BY <1>0, <1>1 DEF Linked, Unmanaged, Whole
  <1>6. Served'
    BY <1>0, <1>1, <1>2, <1>4 DEF Served
  <1>7. Cached'
    <2>1. cache' = [h \in Generations |-> cache'[h]] /\ \A h \in Generations : cache'[h] = NoView
      BY <1>3, ViewKinds DEF EmptyCache
    <2> QED
      BY <2>1, ViewKinds DEF Cached, Fits
  <1>8. \A w \in Workers : Begun(w)' /\ Staging(w)' /\ Running(w)' /\ Purging(w)'
    BY <1>3, NoTask
  <1>9. ReaderShape' /\ \A r \in Readers : Reading(r)'
    <2>1. ReaderShape'
      BY <1>3 DEF ReaderShape
    <2> SUFFICES ASSUME NEW r \in Readers
                 PROVE  Reading(r)'
      BY <2>1
    <2> DEFINE x == [asked |-> Missing, lease |-> NoLease]
    <2>2. reader'[r] = x
      BY <1>3
    <2>3. /\ x.asked = Missing /\ x.lease = NoLease /\ NoLease.generation = 0
          /\ x = [asked |-> x.asked, lease |-> x.lease]
      BY DEF NoLease, Lease
    <2> HIDE DEF x
    <2> QED
      BY <2>2, <2>3 DEF Reading
  <1> QED
    BY <1>2, <1>5, <1>6, <1>7, <1>8, <1>9 DEF RowInv


-----------------------------------------------------------------------------
(* Steps that write rows.                                                  *)

\* Beside a task that writes or has left an operation behind, the others are
\* idle or wait to collect.
LEMMA Alone ==
    ASSUME IInv, NEW w \in Workers, NEW v \in Workers \ {w},
           op[w].kind # "none" \/ flow[w].pc \notin {"idle", "collecting"}
    PROVE  op[v].kind = "none" /\ flow[v].pc \in {"idle", "collecting"}
  <1>1. Locked /\ Single
    BY DEF IInv
  <1>2. CASE op[w].kind # "none"
    BY <1>1, <1>2 DEF Single
  <1>3. CASE flow[w].pc \notin {"idle", "collecting"}
    BY <1>1, <1>3 DEF Single, Locked
  <1> QED
    BY <1>2, <1>3

\* A task that neither writes nor runs an operation is not disturbed.
LEMMA Bystander ==
    ASSUME NEW v \in Workers, flow'[v] = flow[v], op'[v].kind = "none",
           flow[v].pc \in {"idle", "collecting"}, Purging(v),
           \/ flow[v].pc = "idle"
           \/ records[flow[v].target].state # "none" => records'[flow[v].target].state # "none"
    PROVE  Begun(v)' /\ Staging(v)' /\ Running(v)' /\ Purging(v)'
    BY DEF Begun, Staging, Running, Purging, Staged

\* A step that changes no record, no boundary, no view and no reader, and no
\* row that is served or read.
LEMMA RowStep ==
    ASSUME IInv, IInv', RowInv,
           UNCHANGED <<records, published, managed, retiredBefore, legacyThrough, cache, reader>>,
           head' = head,
           \A g \in published : g >= Floor /\ records[g].state # "none" =>
               RowsKept(g) /\ \A p \in Paths : Whole(p, g) => WholeNext(p, g),
           ~ managed => \A p \in Paths : Whole(p, head) => WholeNext(p, head),
           \A r \in Readers : reader[r].lease.generation # 0 =>
               \A c \in Selected(reader[r].lease.generation, reader[r].lease.view) :
                   Whole(c[1], c[2]) => WholeNext(c[1], c[2]),
           \A v \in Workers : Begun(v)' /\ Staging(v)' /\ Running(v)' /\ Purging(v)'
    PROVE  RowInv'
  <1>0. Typed /\ Typed' /\ Linked /\ Cached /\ Served /\ Unmanaged /\ LegacyBound /\ ReaderShape
    BY DEF IInv, RowInv
  <1>1. Floor' = Floor /\ Floor <= Floor'
    BY <1>0, GenerationsAre DEF Floor
  <1>2. \A h : Stable(h)
    BY DEF Stable
  <1>3. Linked' /\ LegacyBound' /\ ReaderShape'
    BY <1>0 DEF Linked, LegacyBound, ReaderShape
  <1>4. Cached'
    BY <1>0, <1>1 DEF Cached, Fits
  <1>5. Unmanaged'
    BY <1>0 DEF Unmanaged, Whole, WholeNext
  <1>6. ASSUME NEW g \in published, g >= Floor, records[g].state # "none"
        PROVE  Complete(g)'
    <2>1. Complete(g) /\ g \in Generations
      BY <1>0, <1>6 DEF Served, Typed
    <2> QED
      BY <1>0, <1>1, <1>2, <1>6, <2>1, CompleteStep
  <1>7. Served'
    BY <1>0, <1>1, <1>6 DEF Served
  <1>8. \A r \in Readers : Reading(r)'
    <2> SUFFICES ASSUME NEW r \in Readers
                 PROVE  Reading(r)'
      OBVIOUS
    <2>1. Reading(r)
      BY DEF RowInv
    <2> QED
      BY <2>1, ReadingStep
  <1> QED
    BY <1>3, <1>4, <1>5, <1>7, <1>8 DEF RowInv

\* A step that only writes at generations that are not published, or writes
\* again what is there.
LEMMA WriteStep ==
    ASSUME IInv, IInv', RowInv,
           UNCHANGED <<records, published, managed, retiredBefore, legacyThrough, cache, reader>>,
           head' = head,
           \A p \in Paths, x \in published : Whole(p, x) => WholeNext(p, x),
           \A v \in Workers : Begun(v)' /\ Staging(v)' /\ Running(v)' /\ Purging(v)'
    PROVE  RowInv'
  <1>1. \A g \in published :
           RowsKept(g) /\ \A p \in Paths : Whole(p, g) => WholeNext(p, g)
    BY DEF RowsKept
  <1>2. ~ managed => \A p \in Paths : Whole(p, head) => WholeNext(p, head)
    BY DEF RowInv, Unmanaged
  <1>3. \A r \in Readers : reader[r].lease.generation # 0 =>
               \A c \in Selected(reader[r].lease.generation, reader[r].lease.view) :
                   Whole(c[1], c[2]) => WholeNext(c[1], c[2])
    BY DEF RowInv, Reading
  <1> QED
    BY <1>1, <1>2, <1>3, RowStep

\* What a candidate takes from published generations stays.
LEMMA WriteSound ==
    ASSUME IInv, IInv',
           UNCHANGED <<records, published, retiredBefore>>,
           \A p \in Paths, x \in published : Whole(p, x) => WholeNext(p, x)
    PROVE  \A h : (Sound(h) => Sound(h)') /\ (Layers(h) => Layers(h)')
  <1>0. Typed /\ Typed'
    BY DEF IInv
  <1>1. Floor' = Floor /\ Floor <= Floor'
    BY <1>0, GenerationsAre DEF Floor
  <1>2. \A h : Stable(h) /\ RowsKept(h)
    BY DEF Stable, RowsKept
  <1> QED
    BY <1>0, <1>1, <1>2, SoundStep, LayersStep

\* A generation newer than the published ones is not published.
LEMMA Unpublished ==
    ASSUME Typed, NEW t \in Generations, \A p \in published : p < t
    PROVE  t \notin published /\ (t # 0 \/ published = {})
  <1>1. t \in Nat /\ ~ (t < t) /\ \A p \in published : p \in Nat
    BY GenerationsAre
  <1>2. t \notin published
    BY <1>1
  <1>3. t # 0 \/ published = {}
    BY <1>1
  <1> QED
    BY <1>2, <1>3

\* Rows change at one generation that is not published.
LEMMA ElsewhereWhole ==
    ASSUME Typed, NEW t, \A p \in published : p < t, t \in Generations,
           \A p \in Paths, x \in Generations : x # t =>
               lexical'[<<p, x>>] = lexical[<<p, x>>] /\ vector'[<<p, x>>] = vector[<<p, x>>]
    PROVE  \A p \in Paths, x \in published : Whole(p, x) => WholeNext(p, x)
  <1>1. \A x \in published : x # t /\ x \in Generations
    BY Unpublished DEF Typed
  <1> QED
    BY <1>1 DEF Whole, WholeNext

\* The lexical clear before writing.
LEMMA ClearLexicalRows ==
    ASSUME IInv, IInv', RowInv, NEW w \in Workers, ClearLexical(w)
    PROVE  RowInv'
  <1> DEFINE f == flow[w]
             t == flow[w].target
  <1>0. /\ Typed /\ ShapeOfFlow /\ Fresh /\ Staging(w) /\ Running(w) /\ \A v \in Workers : Purging(v)
    BY DEF IInv, Shape, RowInv
  <1>1. /\ f.pc = "cleared" /\ lexical' = Cleared(lexical, t) /\ vector' = vector
        /\ flow' = [flow EXCEPT ![w].pc = "writing"] /\ op' = op
        /\ UNCHANGED <<records, published, managed, retiredBefore, legacyThrough, cache, reader>>
        /\ head' = head
    BY DEF ClearLexical, Step, registry, catalog
  <1>2. t \in Generations /\ \A p \in published : p < t
    BY <1>0, <1>1 DEF Typed, Fresh, Staged
  <1>3. /\ Moved(f, flow'[w], "writing", f.changed, f.buffered, f.cancelled, f.leases)
        /\ \A v \in Workers \ {w} : flow'[v] = flow[v]
    BY <1>0, <1>1, MoveFields, MoveFlow
  <1>4. \A p \in Paths, x \in Generations :
           lexical'[<<p, x>>] = IF x = t THEN {} ELSE lexical[<<p, x>>]
    BY <1>1 DEF Cleared
  <1>5. \A p \in Paths, x \in published : Whole(p, x) => WholeNext(p, x)
    BY <1>0, <1>1, <1>2, <1>4, ElsewhereWhole
  <1>6. \A h : (Sound(h) => Sound(h)') /\ (Layers(h) => Layers(h)')
    BY <1>1, <1>5, WriteSound
  <1>7. op[w].kind = "none"
    BY <1>0, <1>1 DEF Running, Waits
  <1>8. /\ f.changed = records[t].changed /\ Sound(t) /\ Layers(t) /\ cache[t].kind = "none"
        /\ legacyThrough # Missing /\ retiredBefore # Missing
        /\ \A p \in Paths : vector[<<p, t>>] = {}
    BY <1>0, <1>1 DEF Staging, Staged
  <1>9. Staging(w)'
    <2>1. \A p \in Paths : Written(flow[w], p)'
      BY <1>1, <1>2, <1>3, <1>4, <1>8 DEF Written, Moved
    <2> QED
      BY <1>1, <1>3, <1>6, <1>8, <2>1 DEF Staging, Staged, Moved
  <1>10. Begun(w)' /\ Purging(w)' /\ Running(w)'
    BY <1>1, <1>3, <1>7 DEF Begun, Purging, Running, Moved
  <1>11. \A v \in Workers \ {w} : Begun(v)' /\ Staging(v)' /\ Running(v)' /\ Purging(v)'
    BY <1>0, <1>1, <1>3, Alone, Bystander
  <1> QED
    BY <1>1, <1>5, <1>9, <1>10, <1>11, WriteStep

\* The native clear ends.
LEMMA FinishClearRows ==
    ASSUME IInv, IInv', RowInv, NEW w \in Workers, FinishClear(w)
    PROVE  RowInv'
  <1> DEFINE f == flow[w]
             t == op[w].target
             pc == IF flow[w].pc = "clearing" THEN "cleared" ELSE flow[w].pc
  <1>0. /\ Typed /\ ShapeOfFlow /\ ShapeOfOp /\ Staging(w) /\ Running(w)
        /\ \A v \in Workers : Purging(v)
    BY DEF IInv, Shape, RowInv
  <1>1. /\ op[w].kind = "clear" /\ vector' = Cleared(vector, t) /\ lexical' = lexical
        /\ flow' = [flow EXCEPT ![w].pc = pc] /\ op' = [op EXCEPT ![w] = NoOp]
        /\ UNCHANGED <<records, published, managed, retiredBefore, legacyThrough, cache, reader>>
        /\ head' = head
    BY DEF FinishClear, Return, registry, catalog
  <1>2. t \in Generations /\ \A p \in published : p < t
    BY <1>0, <1>1 DEF Typed, Running
  <1>3. /\ Moved(f, flow'[w], pc, f.changed, f.buffered, f.cancelled, f.leases)
        /\ \A v \in Workers \ {w} : flow'[v] = flow[v] /\ op'[v] = op[v]
        /\ op'[w].kind = "none"
    BY <1>0, <1>1, MoveFields, MoveFlow, EndOp, EmptyShapes
  <1>4. \A p \in Paths, x \in Generations :
           vector'[<<p, x>>] = IF x = t THEN {} ELSE vector[<<p, x>>]
    BY <1>1 DEF Cleared
  <1>5. \A p \in Paths, x \in published : Whole(p, x) => WholeNext(p, x)
    BY <1>0, <1>1, <1>2, <1>4, ElsewhereWhole
  <1>6. \A h : (Sound(h) => Sound(h)') /\ (Layers(h) => Layers(h)')
    BY <1>1, <1>5, WriteSound
  <1>7. (f.pc = "idle" /\ pc = "idle") \/ (f.pc = "clearing" /\ pc = "cleared" /\ f.target = t)
    BY <1>0, <1>1 DEF Running, Waits
  <1>8. Begun(w)' /\ Purging(w)' /\ Running(w)' /\ Staging(w)'
    <2>1. CASE f.pc = "idle" /\ pc = "idle"
      BY <1>3, <2>1 DEF Begun, Purging, Running, Staging, Staged, Moved
    <2>2. CASE f.pc = "clearing" /\ pc = "cleared" /\ f.target = t
      <3>1. /\ f.changed = records[t].changed /\ Sound(t) /\ Layers(t) /\ cache[t].kind = "none"
            /\ legacyThrough # Missing /\ retiredBefore # Missing
        BY <1>0, <2>2 DEF Staging, Staged
      <3> HIDE DEF pc
      <3>2. \A p \in Paths : vector'[<<p, t>>] = {}
        BY <1>2, <1>4
      <3>3. Staging(w)'
        BY <1>1, <1>3, <1>6, <2>2, <3>1, <3>2 DEF Staging, Staged, Moved
      <3> QED
        BY <1>3, <2>2, <3>3 DEF Begun, Purging, Running, Moved
    <2> QED
      BY <1>7, <2>1, <2>2
  <1>9. \A v \in Workers \ {w} : Begun(v)' /\ Staging(v)' /\ Running(v)' /\ Purging(v)'
    BY <1>0, <1>1, <1>3, Alone, Bystander
  <1> QED
    BY <1>1, <1>5, <1>8, <1>9, WriteStep

\* One batch goes to the bulk writer and is handed to the vector store.
LEMMA WriteFileRows ==
    ASSUME IInv, IInv', RowInv, NEW w \in Workers, NEW q \in Paths, WriteFile(w, q)
    PROVE  RowInv'
  <1> DEFINE f == flow[w]
             t == flow[w].target
             P == flow[w].buffered \cup {q}
             o == Operation("write", t, {q}, {})
             b == flow'[w].buffered
  <1>0. /\ Typed /\ ShapeOfFlow /\ ShapeOfOp /\ Fresh /\ Staging(w)
        /\ \A v \in Workers : Purging(v)
    BY DEF IInv, Shape, RowInv
  <1>1. /\ f.pc = "writing" /\ vector' = vector /\ op' = [op EXCEPT ![w] = o]
        /\ UNCHANGED <<records, published, managed, retiredBefore, legacyThrough, cache, reader>>
        /\ head' = head
    BY DEF WriteFile, registry, catalog
  <1>c. \/ lexical' = Flushed(w, P) /\ flow' = [flow EXCEPT ![w].pc = "embedding", ![w].buffered = {}]
        \/ lexical' = lexical /\ flow' = [flow EXCEPT ![w].pc = "embedding", ![w].buffered = P]
    BY DEF WriteFile
  <1>o. IsOp(o) /\ o.kind = "write" /\ o.target = t /\ o.path = {q} /\ o.fresh = TRUE
    BY DEF Operation, IsOp
  <1> HIDE DEF o, P
  <1>2. t \in Generations /\ \A p \in published : p < t
    BY <1>0, <1>1 DEF Typed, Fresh, Staged
  <1>3. /\ Moved(f, flow'[w], "embedding", f.changed, b, f.cancelled, f.leases)
        /\ \A v \in Workers \ {w} : flow'[v] = flow[v] /\ op'[v] = op[v]
        /\ op'[w] = o
        /\ (lexical' = Flushed(w, P) /\ b = {}) \/ (lexical' = lexical /\ b = P)
    <2>1. op'[w] = o /\ \A v \in Workers \ {w} : op'[v] = op[v]
      BY <1>0, <1>1, <1>o, SetOp
    <2>2. CASE /\ lexical' = Flushed(w, P)
               /\ flow' = [flow EXCEPT ![w].pc = "embedding", ![w].buffered = {}]
      <3>1. Moved(f, flow'[w], "embedding", f.changed, {}, f.cancelled, f.leases)
        BY <1>0, <2>2, MoveFields
      <3>2. \A v \in Workers \ {w} : flow'[v] = flow[v]
        BY <1>0, <2>2, MoveFlow
      <3> QED
        BY <2>1, <2>2, <3>1, <3>2 DEF Moved
    <2>3. CASE /\ lexical' = lexical
               /\ flow' = [flow EXCEPT ![w].pc = "embedding", ![w].buffered = P]
      <3>1. Moved(f, flow'[w], "embedding", f.changed, P, f.cancelled, f.leases)
        BY <1>0, <2>3, MoveFields
      <3>2. \A v \in Workers \ {w} : flow'[v] = flow[v]
        BY <1>0, <2>3, MoveFlow
      <3> QED
        BY <2>1, <2>3, <3>1, <3>2 DEF Moved
    <2> QED
      BY <1>c, <2>2, <2>3
  <1>4. /\ \A p \in Paths, x \in Generations : x # t => lexical'[<<p, x>>] = lexical[<<p, x>>]
        /\ \A p \in Paths :
              /\ lexical'[<<p, t>>] \subseteq lexical[<<p, t>>] \cup {"current"}
              /\ "current" \in lexical[<<p, t>>] => "current" \in lexical'[<<p, t>>]
              /\ p \in P => p \in b \/ "current" \in lexical'[<<p, t>>]
    <2>1. CASE lexical' = Flushed(w, P) /\ b = {}
      BY <1>2, <2>1 DEF Flushed
    <2>2. CASE lexical' = lexical /\ b = P
      BY <2>2
    <2> QED
      BY <1>3, <2>1, <2>2
  <1>5. \A p \in Paths, x \in published : Whole(p, x) => WholeNext(p, x)
    BY <1>0, <1>1, <1>2, <1>4, ElsewhereWhole
  <1>6. \A h : (Sound(h) => Sound(h)') /\ (Layers(h) => Layers(h)')
    BY <1>1, <1>5, WriteSound
  <1>8. /\ Sound(t) /\ Layers(t) /\ cache[t].kind = "none"
        /\ legacyThrough # Missing /\ retiredBefore # Missing
        /\ \A p \in Paths : Written(f, p)
    BY <1>0, <1>1 DEF Staging, Staged
  <1>p. q \in P /\ f.buffered \subseteq P
    BY DEF P
  <1>9. Staging(w)'
    <2>1. ASSUME NEW p \in Paths
          PROVE  Written(flow[w], p)'
      <3>1. /\ lexical[<<p, t>>] \subseteq {"current"} /\ vector[<<p, t>>] \subseteq {"current"}
            /\ p \in records[t].changed /\ p \notin f.changed =>
                  "current" \in vector[<<p, t>>] /\ (p \in P \/ "current" \in lexical[<<p, t>>])
        BY <1>8, <1>p DEF Written
      <3>2. /\ lexical'[<<p, t>>] \subseteq {"current"}
            /\ p \in P \/ "current" \in lexical[<<p, t>>] => p \in b \/ "current" \in lexical'[<<p, t>>]
        BY <1>4, <3>1
      <3>3. flow'[w].target = t /\ flow'[w].changed = f.changed
        BY <1>3 DEF Moved
      <3> QED
        BY <1>1, <3>1, <3>2, <3>3 DEF Written
    <2> QED
      BY <1>1, <1>3, <1>6, <1>8, <2>1 DEF Staging, Staged, Moved
  <1>10. Running(w)'
    <2>1. \A p \in {q} : p \in b \/ "current" \in lexical'[<<p, t>>]
      BY <1>4, <1>p
    <2> QED
      BY <1>1, <1>2, <1>3, <1>o, <2>1 DEF Running, Waits, Moved
  <1>11. Begun(w)' /\ Purging(w)'
    BY <1>3 DEF Begun, Purging, Moved
  <1>12. \A v \in Workers \ {w} : Begun(v)' /\ Staging(v)' /\ Running(v)' /\ Purging(v)'
    BY <1>0, <1>1, <1>3, Alone, Bystander
  <1> QED
    BY <1>1, <1>5, <1>9, <1>10, <1>11, <1>12, WriteStep

\* The vector store has the batch.
LEMMA FinishWriteRows ==
    ASSUME IInv, IInv', RowInv, NEW w \in Workers, FinishWrite(w)
    PROVE  RowInv'
  <1> DEFINE f == flow[w]
             t == op[w].target
             P == op[w].path
             x == {IF op[w].fresh THEN "current" ELSE "stale"}
  <1>0. /\ Typed /\ ShapeOfFlow /\ ShapeOfOp /\ Staging(w) /\ Running(w)
        /\ \A v \in Workers : Purging(v)
    BY DEF IInv, Shape, RowInv
  <1>1. /\ op[w].kind = "write" /\ lexical' = lexical /\ op' = [op EXCEPT ![w] = NoOp]
        /\ UNCHANGED <<records, published, managed, retiredBefore, legacyThrough, cache, reader>>
        /\ head' = head
    BY DEF FinishWrite, registry, catalog
  <1>2. t \in Generations /\ \A p \in published : p < t
    BY <1>0, <1>1 DEF Typed, Running
  <1>3. /\ \A v \in Workers \ {w} : op'[v] = op[v]
        /\ op'[w].kind = "none"
    BY <1>0, <1>1, EndOp, EmptyShapes
  <1>4. \A p \in Paths, y \in Generations :
           vector'[<<p, y>>] = IF p \in P /\ y = t THEN vector[<<p, y>>] \cup x ELSE vector[<<p, y>>]
    BY DEF FinishWrite
  <1>x. op[w].fresh = TRUE => x = {"current"}
    OBVIOUS
  <1> HIDE DEF x
  <1>5. \A p \in Paths, y \in published : Whole(p, y) => WholeNext(p, y)
    <2>1. \A p \in Paths, y \in Generations : y # t =>
             lexical'[<<p, y>>] = lexical[<<p, y>>] /\ vector'[<<p, y>>] = vector[<<p, y>>]
      BY <1>1, <1>4
    <2> QED
      BY <1>0, <1>2, <2>1, ElsewhereWhole
  <1>6. \A h : (Sound(h) => Sound(h)') /\ (Layers(h) => Layers(h)')
    BY <1>1, <1>5, WriteSound
  <1>7. f.pc = "idle" \/ (f.pc = "embedding" /\ f.target = t)
    BY <1>0, <1>1 DEF Running, Waits
  <1>8. (\A v \in Workers \ {w} : flow'[v] = flow[v]) /\ Begun(w)' /\ Purging(w)' /\ Running(w)' /\ Staging(w)'
    <2>1. CASE f.pc = "idle"
      <3>1. flow' = flow
        BY <2>1 DEF FinishWrite
      <3> QED
        BY <1>3, <2>1, <3>1 DEF Begun, Purging, Running, Staging, Staged
    <2>2. CASE f.pc = "embedding" /\ f.target = t
      <3> DEFINE c == f.changed \ P
      <3>0. c = f.changed \ P
        OBVIOUS
      <3>1. flow' = [flow EXCEPT ![w].pc = "writing", ![w].changed = c]
        BY <2>2 DEF FinishWrite
      <3> HIDE DEF c
      <3>2. /\ Moved(f, flow'[w], "writing", c, f.buffered, f.cancelled, f.leases)
            /\ \A v \in Workers \ {w} : flow'[v] = flow[v]
        BY <1>0, <3>1, MoveFields, MoveFlow
      <3>3. /\ Sound(t) /\ Layers(t) /\ cache[t].kind = "none"
            /\ legacyThrough # Missing /\ retiredBefore # Missing
            /\ \A p \in Paths : Written(f, p)
        BY <1>0, <2>2 DEF Staging, Staged
      <3>4. x = {"current"} /\ \A p \in P : p \in f.buffered \/ "current" \in lexical[<<p, t>>]
        BY <1>0, <1>1, <1>x, <2>2 DEF Running
      <3>5. ASSUME NEW p \in Paths
            PROVE  Written(flow[w], p)'
        <4>1. /\ lexical[<<p, t>>] \subseteq {"current"} /\ vector[<<p, t>>] \subseteq {"current"}
              /\ p \in records[t].changed /\ p \notin f.changed =>
                    "current" \in vector[<<p, t>>] /\ (p \in f.buffered \/ "current" \in lexical[<<p, t>>])
          BY <2>2, <3>3 DEF Written
        <4>2. vector'[<<p, t>>] = IF p \in P THEN vector[<<p, t>>] \cup {"current"} ELSE vector[<<p, t>>]
          BY <1>2, <1>4, <3>4
        <4>3. /\ vector'[<<p, t>>] \subseteq {"current"}
              /\ p \in records[t].changed /\ p \notin c =>
                    "current" \in vector'[<<p, t>>] /\ (p \in f.buffered \/ "current" \in lexical[<<p, t>>])
          BY <3>0, <3>4, <4>1, <4>2
        <4>4. flow'[w].target = t /\ flow'[w].changed = c /\ flow'[w].buffered = f.buffered
          BY <2>2, <3>2 DEF Moved
        <4> QED
          BY <1>1, <4>1, <4>3, <4>4 DEF Written
      <3>6. Staging(w)'
        BY <1>1, <1>6, <2>2, <3>2, <3>3, <3>5 DEF Staging, Staged, Moved
      <3> QED
        BY <1>3, <3>2, <3>6 DEF Begun, Purging, Running, Moved
    <2> QED
      BY <1>7, <2>1, <2>2
  <1>9. \A v \in Workers \ {w} : Begun(v)' /\ Staging(v)' /\ Running(v)' /\ Purging(v)'
    BY <1>0, <1>1, <1>3, <1>8, Alone, Bystander
  <1> QED
    BY <1>1, <1>5, <1>8, <1>9, WriteStep

\* The bulk writer finishes.
LEMMA FinishIndexingRows ==
    ASSUME IInv, IInv', RowInv, NEW w \in Workers, FinishIndexing(w)
    PROVE  RowInv'
  <1> DEFINE f == flow[w]
             t == flow[w].target
  <1>0. /\ Typed /\ ShapeOfFlow /\ Fresh /\ Staging(w) /\ Running(w)
        /\ \A v \in Workers : Purging(v)
    BY DEF IInv, Shape, RowInv
  <1>1. /\ f.pc = "writing" /\ vector' = vector /\ op' = op /\ lexical' = Flushed(w, f.buffered)
        /\ flow' = [flow EXCEPT ![w].pc = "indexed", ![w].buffered = {}]
        /\ f.changed = {} \/ f.cancelled
        /\ UNCHANGED <<records, published, managed, retiredBefore, legacyThrough, cache, reader>>
        /\ head' = head
    BY DEF FinishIndexing, registry, catalog
  <1>2. t \in Generations /\ \A p \in published : p < t
    BY <1>0, <1>1 DEF Typed, Fresh, Staged
  <1>3. /\ Moved(f, flow'[w], "indexed", f.changed, {}, f.cancelled, f.leases)
        /\ \A v \in Workers \ {w} : flow'[v] = flow[v]
    BY <1>0, <1>1, MoveFields, MoveFlow
  <1>4. \A p \in Paths, x \in Generations :
           lexical'[<<p, x>>] = IF p \in f.buffered /\ x = t
                                  THEN lexical[<<p, x>>] \cup {"current"} ELSE lexical[<<p, x>>]
    BY <1>1 DEF Flushed
  <1>5. \A p \in Paths, x \in published : Whole(p, x) => WholeNext(p, x)
    <2>1. \A p \in Paths, y \in Generations : y # t =>
             lexical'[<<p, y>>] = lexical[<<p, y>>] /\ vector'[<<p, y>>] = vector[<<p, y>>]
      BY <1>1, <1>4
    <2> QED
      BY <1>0, <1>2, <2>1, ElsewhereWhole
  <1>6. \A h : (Sound(h) => Sound(h)') /\ (Layers(h) => Layers(h)')
    BY <1>1, <1>5, WriteSound
  <1>7. op[w].kind = "none"
    BY <1>0, <1>1 DEF Running, Waits
  <1>8. /\ Sound(t) /\ Layers(t) /\ cache[t].kind = "none"
        /\ legacyThrough # Missing /\ retiredBefore # Missing
        /\ \A p \in Paths : Written(f, p)
    BY <1>0, <1>1 DEF Staging, Staged
  <1>9. Staging(w)'
    <2>1. ASSUME NEW p \in Paths
          PROVE  Written(flow[w], p)'
      <3>1. /\ lexical[<<p, t>>] \subseteq {"current"} /\ vector[<<p, t>>] \subseteq {"current"}
            /\ p \in records[t].changed /\ p \notin f.changed =>
                  "current" \in vector[<<p, t>>] /\ (p \in f.buffered \/ "current" \in lexical[<<p, t>>])
        BY <1>8 DEF Written
      <3>2. lexical'[<<p, t>>] = IF p \in f.buffered
                                  THEN lexical[<<p, t>>] \cup {"current"} ELSE lexical[<<p, t>>]
        BY <1>2, <1>4
      <3>3. /\ lexical'[<<p, t>>] \subseteq {"current"}
            /\ p \in f.buffered \/ "current" \in lexical[<<p, t>>] => "current" \in lexical'[<<p, t>>]
        BY <3>1, <3>2
      <3>4. flow'[w].target = t /\ flow'[w].changed = f.changed
        BY <1>3 DEF Moved
      <3> QED
        BY <1>1, <3>1, <3>3, <3>4 DEF Written
    <2> QED
      BY <1>1, <1>3, <1>6, <1>8, <2>1 DEF Staging, Staged, Moved
  <1>10. Begun(w)' /\ Purging(w)' /\ Running(w)'
    BY <1>1, <1>3, <1>7 DEF Begun, Purging, Running, Moved
  <1>11. \A v \in Workers \ {w} : Begun(v)' /\ Staging(v)' /\ Running(v)' /\ Purging(v)'
    BY <1>0, <1>1, <1>3, Alone, Bystander
  <1> QED
    BY <1>1, <1>5, <1>9, <1>10, <1>11, WriteStep

\* A request ends; what it had started, and what others had, runs on.
LEMMA Orphan ==
    ASSUME NEW v \in Workers, flow'[v].pc = "idle", op'[v] = op[v] \/ op'[v] = NoOp, Running(v),
           published' = published,
           \A h \in Generations : Complete(h) => Complete(h)',
           \A g, leases : PurgeSafe(g, leases) => PurgeSafe(g, leases)',
           op[v].target \in Generations
    PROVE  Begun(v)' /\ Staging(v)' /\ Running(v)' /\ Purging(v)'
  <1>1. Begun(v)' /\ Staging(v)' /\ Purging(v)'
    BY DEF Begun, Staging, Staged, Purging
  <1>2. CASE op'[v] = NoOp
    BY <1>1, <1>2, EmptyShapes DEF Running
  <1>3. CASE op'[v] = op[v]
    <2>1. op[v].kind \in {"clear", "write"} => \A p \in published : p < op[v].target
      BY DEF Running
    <2>2. op[v].kind = "publish" => Complete(op[v].target)'
      BY <1>3 DEF Running
    <2>3. op[v].kind = "purge" => PurgeSafe(op[v].target, op[v].leases)'
      BY <1>3 DEF Running
    <2> QED
      BY <1>1, <1>3, <2>1, <2>2, <2>3 DEF Running
  <1> QED
    BY <1>2, <1>3

\* A request that fails or is dropped; its bulk writer may commit.
LEMMA DropRows ==
    ASSUME IInv, IInv', RowInv, NEW w \in Workers, Cancel(w) \/ FailOperation(w)
    PROVE  RowInv'
  <1>0. /\ Typed /\ Typed' /\ ShapeOfFlow /\ ShapeOfOp /\ Locked
        /\ \A v \in Workers : Begun(v) /\ Staging(v) /\ Running(v) /\ Purging(v)
    BY DEF IInv, Shape, RowInv
  <1>1. /\ UNCHANGED <<records, published, managed, retiredBefore, legacyThrough, cache, reader, vector>>
        /\ head' = head
    BY DEF Cancel, FailOperation, catalog
  <1>2. /\ \/ flow[w].pc # "idle" /\ flow' = [flow EXCEPT ![w] = NoFlow]
           \/ flow' = flow /\ flow[w].pc = "idle" /\ op[w].kind # "none"
        /\ op' = op \/ op' = [op EXCEPT ![w] = NoOp]
        /\ lexical' \in {lexical, Flushed(w, flow[w].buffered)}
    <2>1. CASE Cancel(w)
      BY <2>1 DEF Cancel, DropWriter, End
    <2>2. CASE FailOperation(w)
      BY <2>2 DEF FailOperation, DropWriter, End
    <2> QED
      BY <2>1, <2>2
  <1>3. \A p \in Paths, x \in Generations : Whole(p, x) => WholeNext(p, x)
    <2>1. CASE lexical' = lexical
      BY <1>1, <2>1 DEF Whole, WholeNext
    <2>2. CASE lexical' = Flushed(w, flow[w].buffered)
      <3>1. \A p \in Paths, x \in Generations :
               lexical'[<<p, x>>] \in {lexical[<<p, x>>], lexical[<<p, x>>] \cup {"current"}}
        BY <2>2 DEF Flushed
      <3> QED
        BY <1>1, <3>1 DEF Whole, WholeNext
    <2> QED
      BY <1>2, <2>1, <2>2
  <1>4. \A p \in Paths, x \in published : Whole(p, x) => WholeNext(p, x)
    BY <1>0, <1>3 DEF Typed
  <1>5. \A h \in Generations : Complete(h) => Complete(h)'
    <2>1. \A h : (Sound(h) => Sound(h)') /\ (Layers(h) => Layers(h)')
      BY <1>1, <1>4, WriteSound
    <2>2. \A h \in Generations, p \in Paths : Whole(p, h) => Whole(p, h)'
      BY <1>3 DEF Whole, WholeNext
    <2> QED
      BY <1>1, <2>1, <2>2 DEF Complete
  <1>6. \A g, leases : PurgeSafe(g, leases) => PurgeSafe(g, leases)'
    BY <1>1, SamePurge
  <1>7. /\ flow'[w].pc = "idle" /\ op'[w] \in {op[w], NoOp}
        /\ \A v \in Workers \ {w} : flow'[v] = flow[v] /\ op'[v] = op[v]
    BY <1>0, <1>2, EmptyShapes, EndOp, SetFlow
  <1>8. Begun(w)' /\ Staging(w)' /\ Running(w)' /\ Purging(w)'
    BY <1>0, <1>1, <1>5, <1>6, <1>7, Orphan DEF Typed
  <1>9. ASSUME NEW v \in Workers \ {w}
        PROVE  Begun(v)' /\ Staging(v)' /\ Running(v)' /\ Purging(v)'
    <2>1. CASE flow[v].pc = "idle"
      BY <1>0, <1>1, <1>5, <1>6, <1>7, <2>1, Orphan DEF Typed
    <2>2. CASE flow[v].pc # "idle"
      <3>1. op[w].kind # "none"
        BY <1>0, <1>2, <2>2 DEF Locked
      <3> QED
        BY <1>0, <1>1, <1>7, <3>1, Alone, Bystander
    <2> QED
      BY <2>1, <2>2
  <1> QED
    BY <1>1, <1>4, <1>8, <1>9, WriteStep

\* A purge that is safe takes no row that is served or read.
LEMMA PurgeSpares ==
    ASSUME IInv, RowInv, NEW t, NEW L, PurgeSafe(t, L),
           lexical' = lexical \/ lexical' = Purged(lexical, t, L),
           vector' = vector \/ vector' = Purged(vector, t, L)
    PROVE  /\ \A g \in published : g >= Floor /\ records[g].state # "none" =>
                 RowsKept(g) /\ \A p \in Paths : Whole(p, g) => WholeNext(p, g)
           /\ ~ managed => \A p \in Paths : Whole(p, head) => WholeNext(p, head)
           /\ \A r \in Readers : reader[r].lease.generation # 0 =>
                 \A c \in Selected(reader[r].lease.generation, reader[r].lease.view) :
                     Whole(c[1], c[2]) => WholeNext(c[1], c[2])
  <1>0. Typed /\ Linked /\ Served /\ Unmanaged /\ \A r \in Readers : Reading(r)
    BY DEF IInv, RowInv
  <1>1. /\ t \in published /\ records[t].state # "none" /\ Floor = t
        /\ Selected(t, Candidate(records, t)) \subseteq Keep(L)
    BY DEF PurgeSafe
  <1>2. t \in Nat /\ t \in Generations /\ \A x \in published : x \in Nat /\ x \in Generations
    BY <1>0, <1>1, GenerationsAre
  <1>3. \A p \in Paths, x \in published : x >= t \/ <<p, x>> \in Keep(L) =>
            (Whole(p, x) => WholeNext(p, x))
    <2> SUFFICES ASSUME NEW p \in Paths, NEW x \in published, x >= t \/ <<p, x>> \in Keep(L)
                 PROVE  Whole(p, x) => WholeNext(p, x)
      OBVIOUS
    <2>1. /\ Purged(lexical, t, L)[<<p, x>>] = lexical[<<p, x>>]
          /\ Purged(vector, t, L)[<<p, x>>] = vector[<<p, x>>]
      BY <1>2 DEF Purged, Keep
    <2> QED
      BY <2>1 DEF Whole, WholeNext
  <1>4. ASSUME NEW g \in published, g >= Floor, records[g].state # "none"
        PROVE  RowsKept(g) /\ \A p \in Paths : Whole(p, g) => WholeNext(p, g)
    <2> DEFINE v == Candidate(records, g)
    <2>1. g >= t /\ t <= g
      BY <1>1, <1>2, <1>4
    <2>2. Complete(g) /\ v.kind = "files"
      BY <1>0, <1>2, <1>4, LinkedBackward, ChainOf DEF Served
    <2>3. \A c \in Selected(g, v) : c[2] >= t \/ c \in Keep(L)
      BY <1>0, <1>1, <2>1, <2>2, SparedCells
    <2> HIDE DEF v
    <2>4. ASSUME NEW p \in Paths, v.files[p] # 0, v.files[p] \in published, Whole(p, v.files[p])
          PROVE  WholeNext(p, v.files[p])
      <3>1. <<p, v.files[p]>> \in Selected(g, v)
        BY <2>2, <2>4, SelectedCells
      <3>2. v.files[p] >= t \/ <<p, v.files[p]>> \in Keep(L)
        BY <2>3, <3>1
      <3> QED
        BY <1>3, <2>4, <3>2
    <2>5. RowsKept(g)
      BY <2>4 DEF RowsKept, v
    <2> QED
      BY <1>3, <2>1, <2>5
  <1>5. managed
    BY <1>0, <1>1 DEF Unmanaged
  <1>6. ASSUME NEW r \in Readers, reader[r].lease.generation # 0,
               NEW c \in Selected(reader[r].lease.generation, reader[r].lease.view)
        PROVE  Whole(c[1], c[2]) => WholeNext(c[1], c[2])
    <2>1. c \in Paths \X published
      BY <1>0, <1>6 DEF Reading
    <2>2. c[2] >= t \/ c \in Keep(L)
      BY <1>6 DEF PurgeSafe
    <2>3. c = <<c[1], c[2]>> /\ c[1] \in Paths /\ c[2] \in published
      BY <2>1
    <2> QED
      BY <1>3, <2>2, <2>3
  <1> QED
    BY <1>4, <1>5, <1>6

\* The lexical rows are purged, and the native purge starts.
LEMMA PurgeLexicalRows ==
    ASSUME IInv, IInv', RowInv, NEW w \in Workers, PurgeLexical(w)
    PROVE  RowInv'
  <1> DEFINE f == flow[w]
             t == flow[w].target
             L == flow[w].leases
             o == Operation("purge", t, {}, L)
  <1>0. /\ Typed /\ ShapeOfFlow /\ ShapeOfOp /\ \A v \in Workers : Purging(v)
    BY DEF IInv, Shape, RowInv
  <1>1. /\ f.pc = "protected" /\ lexical' = Purged(lexical, t, L) /\ vector' = vector
        /\ flow' = [flow EXCEPT ![w].pc = "purging"] /\ op' = [op EXCEPT ![w] = o]
        /\ UNCHANGED <<records, published, managed, retiredBefore, legacyThrough, cache, reader>>
        /\ head' = head
    BY DEF PurgeLexical, Launch, Step, registry, catalog
  <1>o. IsOp(o) /\ o.kind = "purge" /\ o.target = t /\ o.leases = L
    BY DEF Operation, IsOp
  <1> HIDE DEF o
  <1>2. PurgeSafe(t, L) /\ PurgeSafe(t, L)'
    BY <1>0, <1>1, SamePurge DEF Purging
  <1>3. /\ Moved(f, flow'[w], "purging", f.changed, f.buffered, f.cancelled, f.leases)
        /\ \A v \in Workers \ {w} : flow'[v] = flow[v] /\ op'[v] = op[v]
        /\ op'[w] = o
    BY <1>0, <1>1, <1>o, MoveFields, MoveFlow, SetOp
  <1>4. \A v \in Workers \ {w} : Begun(v)' /\ Staging(v)' /\ Running(v)' /\ Purging(v)'
    BY <1>0, <1>1, <1>3, Alone, Bystander
  <1>5. Begun(w)' /\ Staging(w)' /\ Purging(w)'
    BY <1>3 DEF Begun, Staging, Staged, Purging, Moved
  <1>6. Running(w)'
    BY <1>2, <1>3, <1>o DEF Running, Waits, Moved
  <1> QED
    BY <1>1, <1>2, <1>4, <1>5, <1>6, PurgeSpares, RowStep

\* The native purge ends.
LEMMA FinishPurgeRows ==
    ASSUME IInv, IInv', RowInv, NEW w \in Workers, FinishPurge(w)
    PROVE  RowInv'
  <1> DEFINE t == op[w].target
             L == op[w].leases
  <1>0. /\ Typed /\ ShapeOfFlow /\ ShapeOfOp /\ Running(w) /\ \A v \in Workers : Purging(v)
    BY DEF IInv, Shape, RowInv
  <1>1. /\ op[w].kind = "purge" /\ lexical' = lexical /\ vector' = Purged(vector, t, L)
        /\ op' = [op EXCEPT ![w] = NoOp]
        /\ UNCHANGED <<records, published, managed, retiredBefore, legacyThrough, cache, reader>>
        /\ head' = head
    BY DEF FinishPurge, registry, catalog
  <1>2. PurgeSafe(t, L)
    BY <1>0, <1>1 DEF Running
  <1>3. flow[w].pc = "idle" \/ flow[w].pc = "purging"
    BY <1>0, <1>1 DEF Running, Waits
  <1>4. /\ flow'[w].pc = "idle" /\ op'[w] = NoOp
        /\ \A v \in Workers \ {w} : flow'[v] = flow[v] /\ op'[v] = op[v]
    <2>1. op'[w] = NoOp /\ \A v \in Workers \ {w} : op'[v] = op[v]
      BY <1>0, <1>1, EndOp
    <2>2. CASE flow[w].pc = "idle"
      <3>1. flow' = flow
        BY <2>2 DEF FinishPurge
      <3> QED
        BY <2>1, <2>2, <3>1
    <2>3. CASE flow[w].pc = "purging"
      <3>1. End(w)
        BY <2>3 DEF FinishPurge
      <3> QED
        BY <1>0, <2>1, <3>1, EndFlow, EmptyShapes
    <2> QED
      BY <1>3, <2>2, <2>3
  <1>5. Begun(w)' /\ Staging(w)' /\ Running(w)' /\ Purging(w)'
    BY <1>4, EmptyShapes DEF Begun, Staging, Staged, Running, Purging
  <1>6. \A v \in Workers \ {w} : Begun(v)' /\ Staging(v)' /\ Running(v)' /\ Purging(v)'
    BY <1>0, <1>1, <1>4, Alone, Bystander
  <1> QED
    BY <1>1, <1>2, <1>5, <1>6, PurgeSpares, RowStep

-----------------------------------------------------------------------------
(* Steps that write the record of an unpublished generation.               *)

\* One record changes, and rows of its generation only; nothing rests on it.
Attempted(t) ==
    /\ t \in Generations /\ \A p \in published : p < t
    /\ UNCHANGED <<published, managed>>
    /\ \A h \in Generations \ {t} : records'[h] = records[h]
    /\ \A p \in Paths, x \in Generations : x # t =>
          lexical'[<<p, x>>] = lexical[<<p, x>>] /\ vector'[<<p, x>>] = vector[<<p, x>>]
    /\ Floor <= Floor' /\ \E m \in published : Floor' <= m

\* A new attempt leaves every published generation as it was.
LEMMA AttemptKeeps ==
    ASSUME IInv, IInv', RowInv, Linked', NEW t, Attempted(t)
    PROVE  /\ t \notin published
           /\ \A p \in Paths, x \in published : Whole(p, x) => WholeNext(p, x)
           /\ \A h \in Generations \ {t} : Stable(h) /\ Chain(records', h) = Chain(records, h)
           /\ \A h \in published : Stable(h)
           /\ Served'
  <1>0. Typed /\ Typed' /\ Linked /\ Served
    BY DEF IInv, RowInv
  <1>1. t \notin published
    BY <1>0, Unpublished DEF Attempted
  <1>2. \A p \in Paths, x \in published : Whole(p, x) => WholeNext(p, x)
    BY <1>0, ElsewhereWhole DEF Attempted
  <1> DEFINE A == Generations \ {t}
  <1>3. Backward(records)
    BY <1>0, LinkedBackward
  <1>4. Backward(records')
    BY <1>0 DEF Linked, Typed, Backward
  <1>5. \A h \in A : records'[h] = records[h] /\ (records[h].parent # Missing => records[h].parent \in A)
    BY <1>0, <1>1 DEF Attempted, Linked, Typed
  <1>6. A \subseteq Generations
    OBVIOUS
  <1> HIDE DEF A
  <1>7. \A h \in A : /\ Chain(records', h) = Chain(records, h) /\ BaseOf(records', h) = BaseOf(records, h)
                     /\ Candidate(records', h) = Candidate(records, h)
    BY <1>3, <1>4, <1>5, <1>6, KeptChains
  <1>8. \A h \in A : Stable(h) /\ Chain(records', h) = Chain(records, h)
    BY <1>5, <1>7 DEF Stable
  <1>9. published \subseteq A /\ published' = published
    BY <1>0, <1>1 DEF Typed, A, Attempted
  <1>10. \A h \in published : Stable(h)
    BY <1>8, <1>9
  <1>11. Served'
    <2>1. ASSUME NEW g \in published, g >= Floor', records'[g].state # "none"
          PROVE  Complete(g)'
      <3>1. g \in Nat /\ Floor \in Nat /\ Floor' \in Nat /\ g \in Generations
        <4>1. Floor' \in Nat
          BY <1>0, PublicationAssumption DEF Typed, Floor, Generations
        <4> QED
          BY <1>0, <4>1, GenerationsAre
      <3>2. g >= Floor
        <4>1. Floor <= Floor'
          BY DEF Attempted
        <4> QED
          BY <2>1, <3>1, <4>1
      <3>3. records[g].state # "none"
        BY <1>10, <2>1 DEF Stable
      <3>4. Complete(g)
        BY <1>0, <3>2, <3>3 DEF Served
      <3>5. RowsKept(g) /\ \A p \in Paths : p \in records[g].changed /\ Whole(p, g) => WholeNext(p, g)
        BY <1>2 DEF RowsKept
      <3>6. Floor <= Floor'
        BY DEF Attempted
      <3> QED
        BY <1>0, <1>9, <1>10, <3>1, <3>4, <3>5, <3>6, CompleteStep
    <2>2. \E m \in published : Floor' <= m
      BY DEF Attempted
    <2> QED
      BY <1>9, <2>1, <2>2 DEF Served
  <1> QED
    BY <1>1, <1>2, <1>8, <1>10, <1>11 DEF A

\* A step that starts a new attempt keeps the invariant.
LEMMA AttemptStep ==
    ASSUME IInv, IInv', RowInv, NEW w \in Workers, NEW t, Attempted(t), Linked', LegacyBound',
           flow[w].pc \notin {"idle", "collecting"},
           head' = head, reader' = reader,
           records[t].state # "none" => records'[t].state # "none",
           cache' = [h \in Generations |-> cache'[h]],
           \A h \in Generations \ {t} : Fits(cache'[h], h),
           Fits(cache[t], t)',
           \A h \in Generations : Pinned(h) /\ cache[h].kind # "none" => cache'[h] = cache[h],
           \A v \in Workers \ {w} : flow'[v] = flow[v] /\ op'[v].kind = op[v].kind,
           Begun(w)' /\ Staging(w)' /\ Running(w)' /\ Purging(w)'
    PROVE  RowInv'
  <1>0. /\ Typed /\ Typed' /\ Linked /\ Served /\ Unmanaged /\ ReaderShape
        /\ \A v \in Workers : Purging(v)
        /\ \A r \in Readers : Reading(r)
    BY DEF IInv, RowInv
  <1>1. /\ t \notin published /\ Served'
        /\ \A p \in Paths, x \in published : Whole(p, x) => WholeNext(p, x)
        /\ \A h \in Generations \ {t} : Stable(h) /\ Chain(records', h) = Chain(records, h)
        /\ \A h \in published : Stable(h)
    BY AttemptKeeps
  <1>2. /\ t \in Generations /\ published' = published /\ managed' = managed /\ Floor <= Floor'
        /\ published \subseteq published'
    BY DEF Attempted
  <1>3. ReaderShape'
    BY <1>0 DEF ReaderShape
  <1>4. Cached'
    <2>1. ASSUME NEW h \in Generations
          PROVE  Fits(cache[h], h)'
      <3>1. CASE h = t
        BY <3>1
      <3>2. CASE h # t
        <4>1. PICK v : v = cache'[h] /\ Fits(v, h)
          BY <3>2
        <4>2. records'[h] = records[h] /\ Chain(records', h) = Chain(records, h)
          BY <1>1, <3>2 DEF Stable
        <4>3. Fits(v, h)'
          BY <1>0, <1>2, <4>1, <4>2, FitsStep
        <4> QED
          BY <4>1, <4>3
      <3> QED
        BY <3>1, <3>2
    <2> QED
      BY <2>1 DEF Cached
  <1>5. Unmanaged'
    <2> SUFFICES ASSUME ~ managed
                 PROVE  /\ published' = {head'} /\ records'[head'].state = "none"
                        /\ head' # 0 => \A p \in Paths : WholeNext(p, head')
      BY <1>2 DEF Unmanaged, Whole, WholeNext
    <2>1. /\ published = {head} /\ records[head].state = "none"
          /\ head # 0 => \A p \in Paths : Whole(p, head)
      BY <1>0 DEF Unmanaged
    <2>2. Stable(head) /\ head \in published
      BY <1>1, <2>1
    <2> QED
      BY <1>1, <1>2, <2>1, <2>2 DEF Stable
  <1>6. \A r \in Readers : Reading(r)'
    <2> SUFFICES ASSUME NEW r \in Readers
                 PROVE  Reading(r)'
      OBVIOUS
    <2>1. reader[r].lease.generation # 0 =>
              \A c \in Selected(reader[r].lease.generation, reader[r].lease.view) :
                  Whole(c[1], c[2]) => WholeNext(c[1], c[2])
      BY <1>0, <1>1 DEF Reading
    <2> QED
      BY <1>0, <1>2, <2>1, ReadingStep
  <1>7. ASSUME NEW v \in Workers \ {w}
        PROVE  Begun(v)' /\ Staging(v)' /\ Running(v)' /\ Purging(v)'
    <2>1. op[v].kind = "none" /\ flow[v].pc \in {"idle", "collecting"}
      BY Alone
    <2>2. flow[v].target \in Generations
      BY <1>0 DEF Typed
    <2>3. records[flow[v].target].state # "none" => records'[flow[v].target].state # "none"
      BY <2>2 DEF Attempted
    <2> QED
      BY <1>0, <2>1, <2>3, Bystander
  <1> QED
    BY <1>1, <1>3, <1>4, <1>5, <1>6, <1>7 DEF RowInv

\* What the files alone resolve is the chain, unless it is too deep.
LEMMA DurableIs ==
    ASSUME NEW h
    PROVE  /\ Durable(h) = Chain(records, h) \/ Durable(h) = NoView
           /\ Cardinality(Chain(records, h).ancestry) <= MaxDepth => Durable(h) = Chain(records, h)
    BY DEF Durable, Loaded, Chain

\* What seal verifies is the candidate.
LEMMA VerifiedIs ==
    ASSUME NEW g, Verified(g).kind = "files"
    PROVE  Verified(g) = Candidate(records, g)
  <1>1. CASE records[g].parent = Missing
    BY <1>1 DEF Verified, Candidate, BaseOf
  <1>2. CASE records[g].parent # Missing
    <2> DEFINE k == records[g].parent
    <2>1. Durable(k).kind = "files" /\ Verified(g) = Extend(g, records[g], Durable(k))
      BY <1>2, ViewKinds DEF Verified
    <2>2. Durable(k) = Chain(records, k)
      BY <2>1, DurableIs, ViewKinds
    <2> QED
      BY <1>2, <2>1, <2>2 DEF Candidate, BaseOf
  <1> QED
    BY <1>1, <1>2

\* A candidate that stays the same, sealed or not.
LEMMA SealedSound ==
    ASSUME NEW t, Sound(t), Layers(t), UNCHANGED <<published, lexical, vector>>, Floor' = Floor,
           BaseOf(records', t) = BaseOf(records, t), Candidate(records', t) = Candidate(records, t),
           records'[t].changed = records[t].changed, \A k \in published : Stable(k)
    PROVE  Sound(t)' /\ Layers(t)'
  <1>1. Sound(t)'
    BY DEF Sound, Whole
  <1>2. Layers(t)'
    BY DEF Layers, Stable
  <1> QED
    BY <1>1, <1>2

\* seal.
LEMMA SealRows ==
    ASSUME IInv, IInv', RowInv, NEW w \in Workers, Seal(w)
    PROVE  RowInv'
  <1> DEFINE f == flow[w]
             t == flow[w].target
             m == MakeCacheRoom(cache)
             v == Candidate(records, t)
  <1>0. /\ Typed /\ Typed' /\ Linked /\ Cached /\ Served /\ Unmanaged /\ LegacyBound
        /\ Shape /\ Fresh /\ Staging(w) /\ Running(w)
    BY DEF IInv, RowInv
  <1>1. /\ f.pc = "indexed" /\ ~ f.cancelled
        /\ UNCHANGED <<head, managed, published, legacyThrough, retiredBefore, lexical, vector, op, reader>>
        /\ flow' = [flow EXCEPT ![w].pc = "sealed"]
        /\ records' = [records EXCEPT ![t] = [records[t] EXCEPT !.state = "sealed"]]
    BY DEF Seal, Step, registry, rows
  <1>2. /\ t \in Generations /\ (\A p \in published : p < t) /\ records[t].state # "none"
    BY <1>0, <1>1 DEF Typed, Fresh, Staged
  <1>3. /\ Sound(t) /\ Layers(t) /\ cache[t].kind = "none"
        /\ legacyThrough # Missing /\ retiredBefore # Missing
        /\ f.buffered = {} /\ f.changed = {}
        /\ \A p \in Paths : Written(f, p)
    BY <1>0, <1>1 DEF Staging, Staged
  <1>4. Verified(t).kind = "files" /\ cache' = [m EXCEPT ![t] = Verified(t)]
    BY <1>3 DEF Seal, Sealable
  <1>5. cache' = [m EXCEPT ![t] = v]
    BY <1>4, VerifiedIs
  <1>6. /\ m = [h \in Generations |-> m[h]]
        /\ \A h \in Generations : m[h] \in {NoView, cache[h]} /\ (Pinned(h) => m[h] = cache[h])
    BY RoomIs
  <1> HIDE DEF v, m
  <1>7. /\ cache' = [h \in Generations |-> cache'[h]] /\ cache'[t] = v
        /\ \A h \in Generations \ {t} : cache'[h] = m[h]
    BY <1>2, <1>5, <1>6
  <1>8. /\ records'[t].state = "sealed" /\ records'[t].parent = records[t].parent
        /\ records'[t].files = records[t].files
        /\ records'[t].changed = records[t].changed /\ records'[t].deleted = records[t].deleted
        /\ \A h \in Generations \ {t} : records'[h] = records[h]
    <2> DEFINE a == records[t]
               b == [a EXCEPT !.state = "sealed"]
    <2>1. IsRecord(a) /\ records = [h \in Generations |-> records[h]]
      BY <1>0, <1>2 DEF Shape, ShapeOfRecords
    <2>2. records' = [records EXCEPT ![t] = b]
      BY <1>1
    <2> HIDE DEF a
    <2>3. b = [state |-> "sealed", parent |-> a.parent, files |-> a.files, changed |-> a.changed,
               deleted |-> a.deleted]
      BY <2>1 DEF IsRecord
    <2> HIDE DEF b
    <2>4. /\ b.state = "sealed" /\ b.parent = a.parent /\ b.files = a.files
          /\ b.changed = a.changed /\ b.deleted = a.deleted
      BY <2>3
    <2>5. records'[t] = b /\ \A h \in Generations \ {t} : records'[h] = records[h]
      BY <1>2, <2>1, <2>2
    <2> QED
      BY <2>4, <2>5 DEF a
  <1>9. Floor' = Floor /\ Floor <= Floor' /\ \E x \in published : Floor' <= x
    <2>1. Floor' = Floor /\ Floor <= Floor
      BY <1>0, <1>1, GenerationsAre DEF Floor
    <2> QED
      BY <1>0, <2>1 DEF Served
  <1>10. Attempted(t)
    BY <1>1, <1>2, <1>8, <1>9 DEF Attempted
  <1>11. Linked' /\ LegacyBound'
    <2>1. \A h \in Generations : records'[h].parent = records[h].parent
      BY <1>8
    <2> QED
      BY <1>0, <1>1, <2>1 DEF Linked, LegacyBound
  <1>12. /\ t \notin published
         /\ \A h \in Generations \ {t} : Stable(h) /\ Chain(records', h) = Chain(records, h)
         /\ \A h \in published : Stable(h)
    BY <1>10, <1>11, AttemptKeeps
  <1>13. BaseOf(records', t) = BaseOf(records, t)
    <2>1. CASE records[t].parent = Missing
      BY <1>8, <2>1 DEF BaseOf, Root
    <2>2. CASE records[t].parent # Missing
      <3>1. records[t].parent \in Generations \ {t}
        BY <1>0, <1>2, <1>12, <2>2 DEF Linked, Typed
      <3> QED
        BY <1>8, <1>12, <2>2, <3>1 DEF BaseOf
    <2> QED
      BY <2>1, <2>2
  <1>14. Candidate(records', t) = v
    BY <1>8, <1>13 DEF Candidate, Extend, v
  <1>15. Sound(t)' /\ Layers(t)'
    <2>1. PICK x : x = t
      OBVIOUS
    <2>2. /\ BaseOf(records', x) = BaseOf(records, x) /\ Candidate(records', x) = Candidate(records, x)
          /\ records'[x].changed = records[x].changed /\ Sound(x) /\ Layers(x)
      BY <1>3, <1>8, <1>13, <1>14, <2>1 DEF v
    <2>3. Sound(x)' /\ Layers(x)'
      BY <1>1, <1>9, <1>12, <2>2, SealedSound
    <2>4. flow'[w].target = x
      BY <1>0, <1>1, <2>1, MoveFlow DEF Shape
    <2> QED
      BY <2>3, <2>4
  <1>16. /\ Moved(f, flow'[w], "sealed", f.changed, f.buffered, f.cancelled, f.leases)
         /\ \A x \in Workers \ {w} : flow'[x] = flow[x]
    BY <1>0, <1>1, MoveFields, MoveFlow DEF Shape
  <1>17. flow'[w].target = t
    BY <1>16 DEF Moved
  <1>18. Complete(t)'
    <2>1. \A p \in Paths : p \in records[t].changed => Whole(p, t)
      BY <1>3 DEF Written, Whole
    <2> QED
      BY <1>1, <1>8, <1>15, <1>17, <2>1 DEF Complete, Whole
  <1>19. Begun(w)' /\ Staging(w)' /\ Running(w)' /\ Purging(w)'
    <2>1. op[w].kind = "none"
      BY <1>0, <1>1 DEF Running, Waits
    <2>2. Staging(w)'
      BY <1>1, <1>3, <1>15, <1>16, <1>18 DEF Staging, Staged, Moved
    <2> QED
      BY <1>1, <1>16, <2>1, <2>2 DEF Begun, Running, Purging, Moved
  <1>20. Fits(cache[t], t)'
    <2>1. Backward(records')
      BY <1>0, <1>11 DEF Linked, Typed, Backward
    <2>2. Chain(records', t) = v /\ v.kind = "files"
      <3>1. BaseOf(records, t).kind = "files"
        BY <1>3 DEF Sound
      <3> QED
        BY <1>2, <1>8, <1>13, <1>14, <2>1, <3>1, ChainOf
    <2> QED
      BY <1>7, <1>8, <1>17, <2>2 DEF Fits
  <1>21. \A h \in Generations \ {t} : Fits(cache'[h], h)
    BY <1>0, <1>6, <1>7, ViewKinds DEF Cached, Fits
  <1>22. \A h \in Generations : Pinned(h) /\ cache[h].kind # "none" => cache'[h] = cache[h]
    BY <1>3, <1>6, <1>7
  <1> QED
    BY <1>1, <1>7, <1>8, <1>10, <1>11, <1>16, <1>17, <1>19, <1>20, <1>21, <1>22, AttemptStep

\* A new attempt: its record, and no view of it; rows elsewhere stay.
LEMMA NewAttemptIs ==
    ASSUME Shape, NEW t \in Generations, NEW rec, IsRecord(rec), NEW kept, NewAttempt(t, rec, kept),
           kept = [h \in Generations |-> kept[h]]
    PROVE  /\ records'[t] = rec /\ \A h \in Generations \ {t} : records'[h] = records[h]
           /\ cache' = [h \in Generations |-> cache'[h]] /\ cache'[t] = NoView
           /\ \A h \in Generations \ {t} : cache'[h] = kept[h]
           /\ \A p \in Paths, x \in Generations : x # t =>
                 lexical'[<<p, x>>] = lexical[<<p, x>>] /\ vector'[<<p, x>>] = vector[<<p, x>>]
           /\ \A p \in Paths :
                 /\ lexical[<<p, t>>] = {} => lexical'[<<p, t>>] = {}
                 /\ vector[<<p, t>>] = {} => vector'[<<p, t>>] = {}
           /\ \A v \in Workers : op'[v].kind = op[v].kind
  <1>1. records'[t] = rec /\ \A h \in Generations \ {t} : records'[h] = records[h]
    BY SetRecord DEF Shape, NewAttempt
  <1>2. cache' = [kept EXCEPT ![t] = NoView]
    BY DEF NewAttempt
  <1>3. /\ cache' = [h \in Generations |-> cache'[h]] /\ cache'[t] = NoView
        /\ \A h \in Generations \ {t} : cache'[h] = kept[h]
    BY <1>2
  <1>4. /\ lexical' = [c \in Paths \X Generations |->
                          IF c[2] = t /\ lexical[c] # {} THEN {"stale"} ELSE lexical[c]]
        /\ vector' = [c \in Paths \X Generations |->
                          IF c[2] = t /\ vector[c] # {} THEN {"stale"} ELSE vector[c]]
    BY DEF NewAttempt
  <1>5. \A p \in Paths, x \in Generations :
           /\ lexical'[<<p, x>>] = IF x = t /\ lexical[<<p, x>>] # {} THEN {"stale"} ELSE lexical[<<p, x>>]
           /\ vector'[<<p, x>>] = IF x = t /\ vector[<<p, x>>] # {} THEN {"stale"} ELSE vector[<<p, x>>]
    BY <1>4
  <1>6. \A v \in Workers : op'[v].kind = op[v].kind
    BY AgeOps DEF Shape, NewAttempt
  <1> QED
    BY <1>1, <1>3, <1>5, <1>6

\* The boundaries after they are ensured.
Bounded ==
    /\ retiredBefore' # Missing /\ legacyThrough' # Missing
    /\ retiredBefore # Missing => retiredBefore' = retiredBefore
    /\ retiredBefore = Missing => retiredBefore' \in published \cup {0}
    /\ legacyThrough' \in published \cup {0, legacyThrough}

\* The boundaries a preparation leaves retire nothing that is served.
LEMMA BoundaryStep ==
    ASSUME Typed, Typed', Served, LegacyBound, Bounded, published' = published
    PROVE  Floor <= Floor' /\ (\E m \in published : Floor' <= m) /\ LegacyBound'
  <1>1. LegacyBound'
    BY DEF LegacyBound, Bounded
  <1>2. PICK m \in published : Floor <= m
    BY DEF Served
  <1>3. m \in Nat /\ Floor \in Nat /\ \A p \in published : p \in Nat
    BY GenerationsAre
  <1>4. CASE retiredBefore # Missing
    <2>1. Floor' = Floor
      BY <1>4 DEF Floor, Bounded
    <2> QED
      BY <1>1, <1>2, <1>3, <2>1
  <1>5. CASE retiredBefore = Missing
    <2>1. Floor = 0 /\ Floor' = retiredBefore'
      BY <1>5 DEF Floor, Bounded
    <2>2. CASE retiredBefore' = 0
      BY <1>1, <1>2, <1>3, <2>1, <2>2
    <2>3. CASE retiredBefore' \in published
      BY <1>1, <1>3, <2>1, <2>3
    <2> QED
      BY <1>5, <2>2, <2>3 DEF Bounded
  <1> QED
    BY <1>4, <1>5

\* A preparation writes one attempt.
Prepared(w, t, rec, kept) ==
    /\ flow[w].pc = "begun" /\ t = flow[w].target
    /\ IsRecord(rec) /\ rec.state = "pending" /\ rec.changed = flow[w].changed
    /\ rec.parent # Missing => rec.parent \in published /\ rec.parent = t - 1
    /\ NewAttempt(t, rec, kept)
    /\ UNCHANGED <<head, managed, published, reader>>
    /\ Bounded
    /\ kept = [h \in Generations |-> kept[h]]
    /\ \A h \in Generations :
          /\ Fits(kept[h], h)
          /\ Pinned(h) /\ cache[h].kind # "none" => kept[h] = cache[h]
    /\ ~ Joinable(t)

\* Every preparation is a new attempt at its target.
LEMMA PrepareKeeps ==
    ASSUME IInv, IInv', RowInv, NEW w \in Workers, NEW t, NEW rec, NEW kept, Prepared(w, t, rec, kept)
    PROVE  /\ Attempted(t) /\ Linked' /\ LegacyBound' /\ records'[t] = rec /\ t \in Generations
           /\ \A p \in published : p < t
  <1>0. Typed /\ Typed' /\ Shape /\ Fresh /\ Linked /\ Served /\ LegacyBound
    BY DEF IInv, RowInv
  <1>1. t \in Generations /\ \A p \in published : p < t
    BY <1>0 DEF Prepared, Typed, Fresh, Staged
  <1>2. /\ records'[t] = rec /\ \A h \in Generations \ {t} : records'[h] = records[h]
        /\ \A p \in Paths, x \in Generations : x # t =>
              lexical'[<<p, x>>] = lexical[<<p, x>>] /\ vector'[<<p, x>>] = vector[<<p, x>>]
    BY <1>0, <1>1, NewAttemptIs DEF Prepared
  <1>3. Floor <= Floor' /\ (\E m \in published : Floor' <= m) /\ LegacyBound'
    BY <1>0, BoundaryStep DEF Prepared
  <1>4. Attempted(t)
    BY <1>1, <1>2, <1>3 DEF Attempted, Prepared
  <1>5. Linked'
    <2> SUFFICES ASSUME NEW h \in Generations, records'[h].parent # Missing
                 PROVE  records'[h].parent \in published /\ records'[h].parent = h - 1
      BY DEF Linked, Prepared
    <2>1. CASE h = t
      BY <1>2, <2>1 DEF Prepared
    <2>2. CASE h # t
      BY <1>0, <1>2, <2>2 DEF Linked
    <2> QED
      BY <2>1, <2>2
  <1> QED
    BY <1>1, <1>2, <1>3, <1>4, <1>5

\* A preparation of a sound candidate keeps the invariant.
LEMMA PrepareStep ==
    ASSUME IInv, IInv', RowInv, NEW w \in Workers, NEW t, NEW rec, NEW kept, Prepared(w, t, rec, kept),
           NEW x \in {"prepared", "writing"}, flow' = [flow EXCEPT ![w].pc = x],
           x = "writing" => \A p \in Paths : lexical[<<p, t>>] = {} /\ vector[<<p, t>>] = {},
           Sound(t)', Layers(t)'
    PROVE  RowInv'
  <1> DEFINE f == flow[w]
  <1>0. Typed /\ Shape /\ Running(w)
    BY DEF IInv, RowInv
  <1>1. Attempted(t) /\ Linked' /\ LegacyBound' /\ records'[t] = rec /\ t \in Generations
    BY PrepareKeeps
  <1>2. /\ cache' = [h \in Generations |-> cache'[h]] /\ cache'[t] = NoView
        /\ \A h \in Generations \ {t} : cache'[h] = kept[h]
        /\ \A p \in Paths :
              /\ lexical[<<p, t>>] = {} => lexical'[<<p, t>>] = {}
              /\ vector[<<p, t>>] = {} => vector'[<<p, t>>] = {}
        /\ \A v \in Workers : op'[v].kind = op[v].kind
    BY <1>0, <1>1, NewAttemptIs DEF Prepared
  <1>3. /\ Moved(f, flow'[w], x, f.changed, f.buffered, f.cancelled, f.leases)
        /\ \A v \in Workers \ {w} : flow'[v] = flow[v]
    BY <1>0, MoveFields, MoveFlow DEF Shape
  <1>4. /\ flow'[w].target = t /\ flow'[w].pc = x /\ flow'[w].changed = rec.changed
        /\ f.pc = "begun" /\ rec.state = "pending"
    BY <1>3 DEF Moved, Prepared
  <1>5. Fits(cache[t], t)'
    BY <1>2, ViewKinds DEF Fits
  <1>6. \A h \in Generations \ {t} : Fits(cache'[h], h)
    BY <1>2 DEF Prepared
  <1>7. \A h \in Generations : Pinned(h) /\ cache[h].kind # "none" => cache'[h] = cache[h]
    BY <1>1, <1>2 DEF Prepared, Joinable
  <1>8. op'[w].kind = "none"
    BY <1>0, <1>2, <1>4 DEF Running, Waits
  <1>9. Begun(w)' /\ Running(w)' /\ Purging(w)'
    BY <1>4, <1>8 DEF Begun, Running, Purging
  <1>10. Staging(w)'
    <2>1. retiredBefore' # Missing /\ legacyThrough' # Missing
      BY DEF Prepared, Bounded
    <2>2. cache'[t].kind = "none"
      BY <1>2, ViewKinds
    <2>3. x = "writing" => \A p \in Paths : Written(flow[w], p)'
      BY <1>1, <1>2, <1>4 DEF Written
    <2> QED
      BY <1>1, <1>4, <2>1, <2>2, <2>3 DEF Staging, Staged
  <1>11. head' = head /\ reader' = reader
    BY DEF Prepared
  <1>12. records'[t].state # "none"
    BY <1>1, <1>4
  <1> QED
    BY <1>1, <1>2, <1>3, <1>4, <1>5, <1>6, <1>7, <1>9, <1>10, <1>11, <1>12, AttemptStep

\* A chain of one record is not too deep.
LEMMA OneDeep ==
    ASSUME NEW t
    PROVE  Cardinality({t}) <= MaxDepth
    BY FS_Singleton, PublicationAssumption

\* A full rebuild takes nothing from its base.
LEMMA FullIsSound ==
    ASSUME NEW t \in Generations, NEW paths, records'[t] = FullRecord(paths),
           \A p \in published' : p < t
    PROVE  Sound(t)' /\ Layers(t)'
  <1> DEFINE rec == FullRecord(paths)
             v == Candidate(records', t)
  <1>0. /\ rec.parent = Missing /\ rec.files = Nothing /\ rec.changed = paths /\ rec.deleted = {}
    BY DEF FullRecord
  <1> HIDE DEF rec
  <1>r. records'[t] = rec
    BY DEF rec
  <1>1. BaseOf(records', t) = Root(rec)
    BY <1>0, <1>r DEF BaseOf
  <1>2. /\ Root(rec).kind = "files" /\ Root(rec).files = Nothing /\ Root(rec).ancestry = {}
    BY <1>0, RootIs
  <1>3. v = Extend(t, rec, Root(rec))
    BY <1>1, <1>r DEF Candidate
  <1>4. /\ v.ancestry = {t}
        /\ \A p \in Paths : v.files[p] = IF p \in rec.changed THEN t ELSE 0
    BY <1>0, <1>2, <1>3, ExtendIs DEF Nothing
  <1>5. Cardinality({t}) <= MaxDepth
    BY OneDeep
  <1> HIDE DEF v
  <1>6. Sound(t)'
    BY <1>1, <1>2, <1>4, <1>5, <1>r DEF Sound, v
  <1>7. Layers(t)'
    <2>1. \A k : k < t => t > k
      OBVIOUS
    <2> QED
      BY <1>4, <2>1 DEF Layers, v
  <1> QED
    BY <1>6, <1>7

\* prepare_full_source_snapshot and prepare_recovered_source_snapshot.
LEMMA PrepareFullRows ==
    ASSUME IInv, IInv', RowInv, NEW w \in Workers, PrepareFull(w) \/ PrepareRecovered(w)
    PROVE  RowInv'
  <1> DEFINE t == flow[w].target
             rec == FullRecord(flow[w].changed)
             x == IF flow[w].kind = "full" THEN "prepared" ELSE "writing"
  <1>0. Typed /\ Cached /\ Begun(w) /\ LegacyBound
    BY DEF IInv, RowInv
  <1>1. /\ flow[w].pc = "begun" /\ NewAttempt(t, rec, cache) /\ ~ Joinable(t)
        /\ UNCHANGED <<head, managed, published, reader>>
        /\ flow' = [flow EXCEPT ![w].pc = x]
    <2>1. CASE PrepareFull(w)
      BY <2>1 DEF PrepareFull, Step, registry
    <2>2. CASE PrepareRecovered(w)
      BY <2>2 DEF PrepareRecovered, Step, registry, Joinable
    <2> QED
      BY <2>1, <2>2
  <1>2. Bounded
    <2>1. CASE PrepareFull(w)
      <3>1. flow[w].base \in published /\ flow[w].base # Missing
        BY <1>0, <2>1, GenerationsAre DEF PrepareFull, Begun
      <3> QED
        BY <2>1, <3>1 DEF PrepareFull, EnsureRetirementBoundary, EnsureLegacyBoundary, Bounded, Missing
    <2>2. CASE PrepareRecovered(w)
      <3>1. managed
        BY <1>0, <2>2 DEF PrepareRecovered, Begun
      <3> QED
        BY <2>2, <3>1 DEF PrepareRecovered, EnsureRetirementBoundary, EnsureLegacyBoundary, Bounded,
                          HasAuthority, Missing
    <2> QED
      BY <2>1, <2>2
  <1>3. IsRecord(rec) /\ rec.state = "pending" /\ rec.changed = flow[w].changed /\ rec.parent = Missing
    BY DEF FullRecord, IsRecord
  <1>4. x = "writing" => \A p \in Paths : lexical[<<p, t>>] = {} /\ vector[<<p, t>>] = {}
    BY <1>0 DEF PrepareFull, PrepareRecovered, Begun
  <1>5. x \in {"prepared", "writing"}
    OBVIOUS
  <1>6. PICK u, r : u = t /\ r = rec
    OBVIOUS
  <1>r. r = FullRecord(flow[w].changed)
    BY <1>6
  <1> HIDE DEF rec, x
  <1>7. Prepared(w, u, r, cache)
    BY <1>0, <1>1, <1>2, <1>3, <1>6 DEF Prepared, Cached
  <1>8. /\ records'[u] = r /\ u \in Generations /\ \A p \in published' : p < u
    BY <1>1, <1>7, PrepareKeeps
  <1>9. Sound(u)' /\ Layers(u)'
    BY <1>8, <1>r, FullIsSound
  <1>10. x = "writing" => \A p \in Paths : lexical[<<p, u>>] = {} /\ vector[<<p, u>>] = {}
    BY <1>4, <1>6
  <1> QED
    BY <1>1, <1>5, <1>7, <1>9, <1>10, PrepareStep

\* A candidate over the selection of a complete base.
LEMMA StagedOver ==
    ASSUME IInv, IInv', RowInv, NEW t, NEW b \in published, Attempted(t), Linked', Complete(b), b < t,
           \A k \in published : k <= b, Floor' = Floor,
           BaseOf(records', t).kind = "files",
           Cardinality(Candidate(records', t).ancestry) <= MaxDepth,
           \A p \in Paths : BaseOf(records', t).files[p] = Candidate(records, b).files[p]
    PROVE  Sound(t)' /\ Layers(t)'
  <1> DEFINE v == Candidate(records', t)
             u == Candidate(records, b)
  <1>0. Typed /\ Typed' /\ Linked
    BY DEF IInv, RowInv
  <1>1. /\ t \in Generations /\ b \in Generations /\ t \in Nat /\ b \in Nat
        /\ published' = published /\ \A k \in published : k \in Nat /\ k < t
    BY <1>0, GenerationsAre DEF Attempted
  <1>2. /\ \A p \in Paths, x \in published : Whole(p, x) => WholeNext(p, x)
        /\ \A h \in published : Stable(h)
    BY AttemptKeeps
  <1>3. Backward(records) /\ Backward(records')
    BY <1>0, LinkedBackward DEF Linked, Typed, Backward
  <1>4. \A p \in Paths : v.files[p] = IF p \in records'[t].changed THEN t
                                      ELSE IF p \in records'[t].deleted THEN 0 ELSE u.files[p]
    BY <1>1, <1>3, ChainOf
  <1>5. \A p \in Paths : u.files[p] = 0 \/ (u.files[p] \in published /\ Whole(p, u.files[p]))
    <2>1. \A p \in Paths : p \in records[b].changed => u.files[p] = b
      BY <1>1, <1>3, ChainOf
    <2>2. \A p \in Paths : \/ p \in records[b].changed /\ Whole(p, b)
                           \/ u.files[p] = 0
                           \/ u.files[p] \in published /\ Whole(p, u.files[p])
      BY DEF Complete, Sound
    <2> QED
      BY <2>1, <2>2
  <1>l. \A k \in published : k >= Floor /\ records[k].state # "none" /\ k < b =>
            \A p \in Paths :
                u.files[p] = 0 \/ u.files[p] > k \/ u.files[p] = Candidate(records, k).files[p]
    BY DEF Complete, Layers
  <1>c. Cardinality(v.ancestry) <= MaxDepth
    OBVIOUS
  <1> HIDE DEF u, v
  <1>6. Sound(t)'
    <2>1. \A p \in Paths : \/ p \in records'[t].changed \/ v.files[p] = 0
                           \/ v.files[p] \in published /\ WholeNext(p, v.files[p])
      BY <1>2, <1>4, <1>5
    <2> QED
      BY <1>1, <1>c, <2>1 DEF Sound, Whole, WholeNext, v
  <1>7. Layers(t)'
    <2> SUFFICES ASSUME NEW k \in published, k >= Floor, records'[k].state # "none", k < t,
                        NEW p \in Paths
                 PROVE  \/ v.files[p] = 0 \/ v.files[p] > k
                        \/ v.files[p] = Candidate(records', k).files[p]
      BY <1>1 DEF Layers, v
    <2>1. /\ records[k].state # "none" /\ Candidate(records', k) = Candidate(records, k)
      BY <1>2 DEF Stable
    <2>2. CASE p \in records'[t].changed
      BY <1>1, <1>4, <2>2
    <2>3. CASE p \notin records'[t].changed /\ p \in records'[t].deleted
      BY <1>4, <2>3
    <2>4. CASE p \notin records'[t].changed /\ p \notin records'[t].deleted
      <3>1. v.files[p] = u.files[p]
        BY <1>4, <2>4
      <3>2. k <= b
        OBVIOUS
      <3>3. k < b \/ k = b
        BY <1>1, <3>2
      <3>4. CASE k = b
        BY <2>1, <3>1, <3>4 DEF u
      <3>5. CASE k < b
        BY <1>l, <2>1, <3>1, <3>5
      <3> QED
        BY <3>3, <3>4, <3>5
    <2> QED
      BY <2>2, <2>3, <2>4
  <1> QED
    BY <1>6, <1>7

\* The depth of a chain that is extended.
LEMMA DeeperBy ==
    ASSUME NEW S, NEW t, IsFiniteSet(S), ~ (Cardinality(S) >= MaxDepth)
    PROVE  Cardinality(S \cup {t}) <= MaxDepth
  <1>1. Cardinality(S) \in Nat
    BY FS_CardinalityType
  <1>2. IsFiniteSet(S \cup {t}) /\ (Cardinality(S \cup {t}) = Cardinality(S) \/ Cardinality(S \cup {t}) = Cardinality(S) + 1)
    BY FS_AddElement
  <1> QED
    BY <1>1, <1>2, PublicationAssumption

\* A resolved chain is finite.
LEMMA ChainFinite ==
    ASSUME Typed, Linked, NEW g \in Generations, Chain(records, g).kind = "files"
    PROVE  IsFiniteSet(Chain(records, g).ancestry)
  <1>1. Chain(records, g).ancestry \subseteq 0 .. g
    BY LinkedBackward, AncestryIs
  <1>2. g \in Nat
    BY GenerationsAre
  <1>3. IsFiniteSet(0 .. g)
    BY <1>2, FS_Interval
  <1> QED
    BY <1>1, <1>3, FS_Subset

\* prepare_source_snapshot of an update.
LEMMA PrepareUpdateRows ==
    ASSUME IInv, IInv', RowInv, NEW w \in Workers, PrepareUpdate(w)
    PROVE  RowInv'
  <1>0. /\ Typed /\ Typed' /\ Newest /\ Linked /\ Cached /\ Served /\ Unmanaged /\ LegacyBound /\ Begun(w)
    BY DEF IInv, RowInv
  <1>1. PICK t, b : t = flow[w].target /\ b = flow[w].base
    OBVIOUS
  <1> DEFINE v == JoinView(b)
             checkpoint == NeedsCheckpoint(v)
             files == CASE ~checkpoint -> Nothing
                        [] checkpoint /\ v.kind = "legacy" -> LegacyFiles(b)
                        [] OTHER -> v.files
             parent == IF checkpoint THEN Missing ELSE b
  <1>2. PICK rec : rec = [state |-> "pending", parent |-> parent, files |-> files,
                          changed |-> flow[w].changed, deleted |-> flow[w].deleted]
    OBVIOUS
  <1>3. /\ flow[w].pc = "begun" /\ flow[w].kind = "update" /\ v.kind # "none" /\ ~ Joinable(t)
        /\ UNCHANGED <<head, managed, published, reader>>
        /\ flow' = [flow EXCEPT ![w].pc = "prepared"]
        /\ NewAttempt(t, rec, JoinCache(b))
    BY <1>1, <1>2 DEF PrepareUpdate, Step, registry, JoinView, JoinCache
  <1>4. /\ EnsureRetirementBoundary(b, FALSE) /\ EnsureLegacyBoundary(b, FALSE)
    BY <1>1 DEF PrepareUpdate
  <1>5. /\ b \in published /\ t = b + 1 /\ \A p \in published : p <= b
    BY <1>0, <1>1, <1>3 DEF Begun
  <1>6. b \in Nat /\ b \in Generations /\ b # Missing /\ b < t /\ b = t - 1 /\ Floor \in Nat
    BY <1>0, <1>5, GenerationsAre
  <1>7. b >= Floor
    <2>1. PICK m \in published : Floor <= m
      BY <1>0 DEF Served
    <2>2. m <= b /\ m \in Nat
      BY <1>0, <1>5, GenerationsAre
    <2> QED
      BY <1>6, <2>1, <2>2
  <1>8. Bounded /\ Floor' = Floor
    <2>1. Bounded
      BY <1>4, <1>5, <1>6 DEF EnsureRetirementBoundary, EnsureLegacyBoundary, Bounded, Missing
    <2>2. retiredBefore' = IF retiredBefore # Missing THEN retiredBefore ELSE 0
      BY <1>4 DEF EnsureRetirementBoundary
    <2>3. Floor' = Floor
      BY <2>2 DEF Floor, Missing
    <2> QED
      BY <2>1, <2>3
  <1>9. /\ Repinned(JoinCache(b), b) /\ Fits(v, b)
        /\ v.kind = "files" => records[b].state # "none" /\ Complete(b) /\ v = Candidate(records, b)
    BY <1>0, <1>5, <1>7, PinJoinIs
  <1>10. v.kind = "legacy" \/ v.kind = "files"
    BY <1>3, <1>9, ViewKinds DEF Fits
  <1> HIDE DEF v
  <1>11. /\ IsRecord(rec) /\ rec.state = "pending" /\ rec.changed = flow[w].changed
         /\ rec.deleted = flow[w].deleted /\ rec.parent = parent /\ rec.files = files
    BY <1>2 DEF IsRecord
  <1>12. parent # Missing => parent \in published /\ parent = t - 1
    BY <1>5, <1>6
  <1> HIDE DEF files, parent, checkpoint
  <1>13. Prepared(w, t, rec, JoinCache(b))
    BY <1>1, <1>3, <1>8, <1>9, <1>11, <1>12 DEF Prepared, Repinned
  <1>14. Attempted(t) /\ Linked' /\ records'[t] = rec /\ t \in Generations
    BY <1>13, PrepareKeeps
  <1>15. /\ \A h \in Generations \ {t} : Chain(records', h) = Chain(records, h)
         /\ \A p \in Paths, x \in published : Whole(p, x) => WholeNext(p, x)
         /\ \A h \in published : Stable(h)
    BY <1>14, AttemptKeeps
  <1>16. Backward(records')
    BY <1>0, <1>14 DEF Linked, Typed, Backward
  <1>17. Cardinality({t}) <= MaxDepth
    BY OneDeep
  <1>18. Sound(t)' /\ Layers(t)'
    <2>1. CASE v.kind = "files"
      <3>1. Complete(b) /\ v = Candidate(records, b) /\ records[b].state # "none"
        BY <1>9, <2>1
      <3>2. v = Chain(records, b) /\ v.kind = "files"
        BY <1>0, <1>5, <1>7, <3>1, ServedIs
      <3>3. CASE checkpoint
        <4>1. rec.parent = Missing /\ rec.files = v.files
          BY <1>11, <2>1, <3>3 DEF parent, files
        <4>2. BaseOf(records', t) = Root(rec)
          BY <1>14, <4>1 DEF BaseOf
        <4>3. BaseOf(records', t).kind = "files" /\ BaseOf(records', t).files = v.files
              /\ BaseOf(records', t).ancestry = {}
          BY <4>1, <4>2, RootIs
        <4>4. Candidate(records', t).ancestry = {t}
          BY <1>14, <1>16, <4>3, ChainOf
        <4> QED
          BY <1>5, <1>6, <1>8, <1>14, <1>17, <3>1, <4>3, <4>4, StagedOver
      <3>4. CASE ~ checkpoint
        <4>1. rec.parent = b /\ ~ (Cardinality(v.ancestry) >= MaxDepth)
          BY <1>11, <3>4 DEF parent, checkpoint, NeedsCheckpoint
        <4>2. b \in Generations \ {t}
          BY <1>6
        <4>3. BaseOf(records', t) = v
          BY <1>6, <1>14, <1>15, <3>2, <4>1, <4>2 DEF BaseOf
        <4>4. Candidate(records', t).ancestry = v.ancestry \cup {t}
          BY <1>14, <1>16, <4>3, ChainOf
        <4>5. IsFiniteSet(v.ancestry)
          BY <1>0, <1>6, <3>2, ChainFinite
        <4>6. Cardinality(Candidate(records', t).ancestry) <= MaxDepth
          BY <4>1, <4>4, <4>5, DeeperBy
        <4>7. BaseOf(records', t).kind = "files"
              /\ \A p \in Paths : BaseOf(records', t).files[p] = Candidate(records, b).files[p]
          BY <3>1, <3>2, <4>3
        <4> QED
          BY <1>5, <1>6, <1>8, <1>14, <3>1, <4>6, <4>7, StagedOver
      <3> QED
        BY <3>3, <3>4
    <2>2. CASE v.kind = "legacy"
      <3>1. records[b].state = "none"
        BY <1>9, <2>2 DEF Fits
      <3>2. ~ managed
        <4> SUFFICES ASSUME managed
                     PROVE  FALSE
          OBVIOUS
        <4>1. PICK m \in published : (\A p \in published : p <= m) /\ records[m].state # "none"
          BY <1>0 DEF Newest
        <4>2. b <= m /\ m <= b /\ m \in Nat
          BY <1>0, <1>5, <4>1, GenerationsAre
        <4>3. b = m
          BY <1>6, <4>2
        <4> QED
          BY <3>1, <4>1, <4>3
      <3>3. /\ published = {b} /\ (b # 0 => \A p \in Paths : Whole(p, b))
        BY <1>0, <1>5, <3>2 DEF Unmanaged
      <3>4. checkpoint /\ rec.parent = Missing /\ rec.files = LegacyFiles(b)
        BY <1>11, <2>2 DEF checkpoint, NeedsCheckpoint, parent, files
      <3>5. \A p \in Paths : LegacyFiles(b)[p] \in {b, 0}
        BY DEF LegacyFiles
      <3>6. /\ BaseOf(records', t).kind = "files" /\ BaseOf(records', t).files = LegacyFiles(b)
            /\ BaseOf(records', t).ancestry = {}
        BY <1>14, <3>4, RootIs DEF BaseOf
      <3> DEFINE c == Candidate(records', t)
      <3>7. /\ c.ancestry = {t}
            /\ \A p \in Paths : c.files[p] = IF p \in rec.changed THEN t
                                             ELSE IF p \in rec.deleted THEN 0 ELSE LegacyFiles(b)[p]
        BY <1>14, <1>16, <3>6, ChainOf
      <3> HIDE DEF c
      <3>8. \A p \in Paths : \/ p \in rec.changed \/ c.files[p] = 0
                             \/ c.files[p] \in published /\ WholeNext(p, c.files[p])
        BY <1>15, <3>3, <3>5, <3>7
      <3>9. Sound(t)'
        BY <1>3, <1>14, <1>17, <3>6, <3>7, <3>8 DEF Sound, Whole, WholeNext, c
      <3>10. \A k \in published : records'[k].state = "none"
        BY <1>15, <3>1, <3>3 DEF Stable
      <3>11. Layers(t)'
        BY <1>3, <3>10 DEF Layers
      <3> QED
        BY <3>9, <3>11
    <2> QED
      BY <1>10, <2>1, <2>2
  <1> QED
    BY <1>3, <1>13, <1>18, PrepareStep

-----------------------------------------------------------------------------
(* Publication.                                                            *)

\* Publication, whether or not the request still waits.
LEMMA PublishRows ==
    ASSUME IInv, IInv', RowInv, NEW w \in Workers, FinishPublish(w)
    PROVE  RowInv'
  <1>0. /\ Typed /\ Typed' /\ ShapeOfFlow /\ ShapeOfOp /\ Fresh /\ Running(w)
        /\ Linked /\ Cached /\ Served /\ LegacyBound /\ ReaderShape
        /\ (\A v \in Workers : Purging(v)) /\ (\A r \in Readers : Reading(r))
    BY DEF IInv, Shape, RowInv
  <1>1. PICK g : g = op[w].target
    OBVIOUS
  <1>2. /\ op[w].kind = "publish" /\ op' = [op EXCEPT ![w] = NoOp]
        /\ UNCHANGED <<records, legacyThrough, retiredBefore, cache, lexical, vector, reader>>
    BY DEF FinishPublish, catalog, rows
  <1>3. /\ Complete(g) /\ (\A p \in published : p < g) /\ records[g].state # "none" /\ g \in Generations
        /\ flow[w].pc = "idle" \/ (flow[w].pc = "publishing" /\ flow[w].target = g)
    BY <1>0, <1>1, <1>2 DEF Running, Fresh, Typed
  <1>4. /\ op'[w].kind = "none"
        /\ \A v \in Workers \ {w} : op'[v] = op[v]
    BY <1>0, <1>2, EndOp, EmptyShapes
  <1>5. /\ \A v \in Workers \ {w} : flow'[v] = flow[v]
        /\ flow'[w].pc = "idle" \/ (flow'[w].pc = "published" /\ flow'[w].target = g)
    <2>1. CASE flow' = [flow EXCEPT ![w].pc = "published"] /\ flow[w].pc = "publishing"
      <3>1. /\ flow'[w].pc = "published" /\ flow'[w].target = flow[w].target
            /\ \A v \in Workers \ {w} : flow'[v] = flow[v]
        BY <1>0, <2>1, MoveFlow
      <3> QED
        BY <1>3, <2>1, <3>1
    <2>2. CASE End(w)
      BY <1>0, <2>2, EndFlow, EmptyShapes
    <2>3. CASE flow' = flow /\ flow[w].pc # "publishing"
      BY <1>3, <2>3
    <2> QED
      BY <2>1, <2>2, <2>3 DEF FinishPublish, Step
  <1>6. Begun(w)' /\ Staging(w)' /\ Running(w)' /\ Purging(w)'
    BY <1>2, <1>3, <1>4, <1>5 DEF Begun, Staging, Staged, Running, Purging
  <1>7. \A v \in Workers \ {w} : Begun(v)' /\ Staging(v)' /\ Running(v)' /\ Purging(v)'
    BY <1>0, <1>2, <1>4, <1>5, Alone, Bystander
  <1>8. CASE w \notin tokens
    <2>1. UNCHANGED <<head, managed, published>>
      BY <1>8 DEF FinishPublish
    <2> QED
      BY <1>2, <1>4, <1>5, <1>6, <2>1, TaskStep
  <1>9. CASE w \in tokens
    <2>1. managed' = TRUE /\ published' = published \cup {g}
      BY <1>1, <1>9 DEF FinishPublish
    <2>2. Floor' = Floor /\ Floor <= Floor' /\ \A h : Stable(h)
      BY <1>0, <1>2, GenerationsAre DEF Floor, Stable
    <2>3. /\ \A p, x : Whole(p, x) => WholeNext(p, x)
          /\ \A h : RowsKept(h)
      BY <1>2 DEF Whole, WholeNext, RowsKept
    <2>4. Linked' /\ LegacyBound' /\ ReaderShape' /\ Cached' /\ Unmanaged'
      BY <1>0, <1>2, <2>1, <2>2 DEF Linked, LegacyBound, ReaderShape, Cached, Fits, Unmanaged
    <2>5. ASSUME NEW h \in published', h >= Floor', records'[h].state # "none"
          PROVE  Complete(h)'
      <3>1. Complete(h) /\ h \in Generations /\ h <= g
        <4>1. CASE h = g
          BY <1>0, <1>3, <4>1, GenerationsAre
        <4>2. CASE h \in published
          <5>1. Complete(h)
            BY <1>0, <1>2, <2>2, <2>5, <4>2 DEF Served
          <5>2. h < g /\ h \in Nat /\ g \in Nat /\ h \in Generations
            BY <1>0, <1>3, <4>2, GenerationsAre
          <5> QED
            BY <5>1, <5>2
        <4> QED
          BY <2>1, <2>5, <4>1, <4>2
      <3>2. h \in Nat /\ g \in Nat
        BY <1>0, <1>3, <3>1, GenerationsAre
      <3>3. ASSUME NEW k \in published', k < h
            PROVE  k \in published
        <4>1. k # g
          <5>1. ~ (g < h)
            BY <3>1, <3>2
          <5> QED
            BY <3>3, <5>1
        <4> QED
          BY <2>1, <4>1
      <3>4. published \subseteq published'
        BY <2>1
      <3> QED
        BY <1>0, <2>2, <2>3, <3>1, <3>3, <3>4, CompleteStep
    <2>6. Served'
      BY <1>0, <2>1, <2>2, <2>5 DEF Served
    <2>7. \A r \in Readers : Reading(r)'
      BY <1>0, <1>2, <2>1, <2>3, ReadingStep
    <2> QED
      BY <1>6, <1>7, <2>4, <2>6, <2>7 DEF RowInv
  <1> QED
    BY <1>8, <1>9

-----------------------------------------------------------------------------
(* Retirement.                                                             *)

\* protect_for_gc, whichever of the records that it may prune are gone.
Retired(g) ==
    /\ g \in published /\ records[g].state # "none" /\ g >= Floor /\ Floor' = g
    /\ UNCHANGED <<published, managed, head, lexical, vector, reader, legacyThrough>>
    /\ \A h \in Generations :
          \/ records'[h] = records[h]
          \/ records'[h] = NoRecord /\ h < g /\ h \notin Candidate(records, g).ancestry
    /\ cache' = [h \in Generations |-> cache'[h]]
    /\ \A h \in Generations :
          cache'[h] = IF h >= g \/ Pinned(h) THEN JoinCache(g)[h] ELSE NoView

\* What is as new as g, and what g rests on, resolves as before; the rest
\* resolves as before or not at all.
LEMMA RetiredChains ==
    ASSUME IInv, IInv', RowInv, NEW g, Retired(g)
    PROVE  /\ \A h \in Generations : h >= g => Stable(h)
           /\ \A h \in Generations :
                 Chain(records', h).kind = "files" => Chain(records', h) = Chain(records, h)
           /\ Linked' /\ managed
  <1> DEFINE N == Candidate(records, g).ancestry
             A == {h \in Generations : h >= g} \cup N
  <1>0. Typed /\ Linked /\ Served /\ Unmanaged
    BY DEF IInv, RowInv
  <1>1. g \in published /\ g \in Generations /\ records[g].state # "none" /\ g >= Floor
    BY <1>0 DEF Retired, Typed
  <1>2. Chain(records, g) = Candidate(records, g) /\ Chain(records, g).kind = "files"
    BY <1>0, <1>1, ServedIs
  <1>3. Backward(records)
    BY <1>0, LinkedBackward
  <1>4. /\ g \in N /\ N \subseteq 0 .. g
        /\ \A h \in N : records[h].parent # Missing => records[h].parent \in N
    BY <1>1, <1>2, <1>3, AncestryIs
  <1>5. \A h \in Generations : h \in Nat
    BY <1>0, GenerationsAre
  <1>6. 0 .. g \subseteq Generations
    BY <1>1, <1>5, PublicationAssumption DEF Generations
  <1>7. \A h \in Generations :
           records'[h] = records[h] \/ (records'[h] = NoRecord /\ h < g /\ h \notin N)
    BY DEF Retired
  <1> HIDE DEF N
  <1>8. NoRecord.parent = Missing
    BY DEF NoRecord
  <1>9. \A h \in Generations : records'[h].parent # Missing =>
            records'[h].parent = records[h].parent
    BY <1>7, <1>8
  <1>10. Linked' /\ Backward(records')
    <2>1. Linked'
      BY <1>0, <1>9 DEF Linked, Retired
    <2>2. Backward(records')
      BY <1>3, <1>9 DEF Backward
    <2> QED
      BY <2>1, <2>2
  <1>11. \A h \in A : records'[h] = records[h]
    <2> SUFFICES ASSUME NEW h \in A
                 PROVE  records'[h] = records[h]
      OBVIOUS
    <2>1. h \in Generations
      BY <1>4, <1>6
    <2>2. CASE h \in N
      BY <1>7, <2>1, <2>2
    <2>3. CASE h >= g
      <3>1. ~ (h < g)
        BY <1>1, <1>5, <2>1, <2>3
      <3> QED
        BY <1>7, <2>1, <3>1
    <2> QED
      BY <2>2, <2>3
  <1>12. \A h \in A : records[h].parent # Missing => records[h].parent \in A
    <2> SUFFICES ASSUME NEW h \in A, records[h].parent # Missing
                 PROVE  records[h].parent \in A
      OBVIOUS
    <2>1. h \in Generations
      BY <1>4, <1>6
    <2>2. CASE h \in N
      BY <1>4, <2>2
    <2>3. CASE h >= g /\ h # g
      <3>1. records[h].parent \in Generations /\ records[h].parent = h - 1
        BY <1>3, <2>1 DEF Backward
      <3>2. h - 1 >= g
        BY <1>1, <1>5, <2>1, <2>3
      <3> QED
        BY <3>1, <3>2
    <2> QED
      BY <1>4, <2>2, <2>3
  <1>13. A \subseteq Generations
    BY <1>4, <1>6
  <1> HIDE DEF A
  <1>14. \A h \in A : BaseOf(records', h) = BaseOf(records, h) /\ Candidate(records', h) = Candidate(records, h)
    BY <1>3, <1>10, <1>11, <1>12, <1>13, KeptChains
  <1>15. \A h \in A : Stable(h)
    BY <1>11, <1>14 DEF Stable
  <1>16. \A h \in Generations : records'[h] \in {records[h], NoRecord}
    BY <1>7
  <1>17. \A h \in Generations :
            Chain(records', h).kind = "files" => Chain(records', h) = Chain(records, h)
    BY <1>3, <1>10, <1>16, PrunedChains
  <1>18. managed
    BY <1>0, <1>1 DEF Unmanaged
  <1> QED
    BY <1>10, <1>15, <1>17, <1>18 DEF A

\* A retirement keeps the invariant when the tasks do.
LEMMA RetiredKeeps ==
    ASSUME IInv, IInv', RowInv, NEW g, Retired(g),
           \A v \in Workers : Begun(v)' /\ Staging(v)' /\ Running(v)' /\ Purging(v)'
    PROVE  RowInv'
  <1>0. /\ Typed /\ Typed' /\ Newest /\ Linked /\ Cached /\ Served /\ Unmanaged /\ LegacyBound /\ ReaderShape
        /\ \A r \in Readers : Reading(r)
    BY DEF IInv, RowInv
  <1>1. /\ \A h \in Generations : h >= g => Stable(h)
        /\ \A h \in Generations :
              Chain(records', h).kind = "files" => Chain(records', h) = Chain(records, h)
        /\ Linked' /\ managed
    BY RetiredChains
  <1>2. /\ g \in published /\ g >= Floor /\ Floor' = g /\ published' = published /\ managed' = managed
        /\ lexical' = lexical /\ vector' = vector /\ reader' = reader /\ legacyThrough' = legacyThrough
    BY DEF Retired
  <1>3. g \in Nat /\ Floor \in Nat /\ Floor <= Floor' /\ \A h \in Generations : h \in Nat
    <2>1. g \in Nat /\ Floor \in Nat /\ \A h \in Generations : h \in Nat
      BY <1>0, <1>2, GenerationsAre
    <2> QED
      BY <1>2, <2>1
  <1>4. Repinned(JoinCache(g), g)
    BY <1>0, <1>2, PinJoinIs
  <1>5. Cached'
    <2>1. ASSUME NEW h \in Generations
          PROVE  Fits(cache[h], h)'
      <3>1. PICK v : v = cache'[h]
        OBVIOUS
      <3>2. Fits(v, h)
        <4>1. cache'[h] = JoinCache(g)[h] \/ cache'[h] = NoView
          BY DEF Retired
        <4>2. Fits(JoinCache(g)[h], h) /\ Fits(NoView, h)
          BY <1>4, ViewKinds DEF Repinned, Fits
        <4> QED
          BY <3>1, <4>1, <4>2
      <3>3. records[h].state = "none" => records'[h].state = "none"
        BY EmptyShapes DEF Retired
      <3>4. h >= Floor' => records'[h] = records[h]
        BY <1>1, <1>2 DEF Stable
      <3>5. Fits(v, h)'
        BY <1>0, <1>1, <1>2, <1>3, <3>2, <3>3, <3>4, FitsStep
      <3> QED
        BY <3>1, <3>5
    <2>2. cache' = [h \in Generations |-> cache'[h]]
      BY DEF Retired
    <2> QED
      BY <2>1, <2>2 DEF Cached
  <1>6. /\ \A p, x : Whole(p, x) => WholeNext(p, x)
        /\ \A h : RowsKept(h)
    BY <1>2 DEF Whole, WholeNext, RowsKept
  <1>7. Served'
    <2>1. ASSUME NEW h \in published, h >= Floor', records'[h].state # "none"
          PROVE  Complete(h)'
      <3>1. h \in Generations /\ h >= g /\ h >= Floor
        <4>1. h \in Generations /\ h \in Nat
          BY <1>0, GenerationsAre
        <4> QED
          BY <1>2, <1>3, <2>1, <4>1
      <3>2. Stable(h)
        BY <1>1, <3>1
      <3>3. Complete(h)
        BY <1>0, <2>1, <3>1, <3>2 DEF Served, Stable
      <3>4. \A k \in published' : k >= Floor' => k \in published /\ Stable(k)
        BY <1>0, <1>1, <1>2 DEF Typed
      <3>5. published \subseteq published'
        BY <1>2
      <3> QED
        BY <1>0, <1>3, <1>6, <3>1, <3>2, <3>3, <3>4, <3>5, CompleteStep
    <2>2. Floor' <= g
      BY <1>2, <1>3
    <2> QED
      BY <1>2, <2>1, <2>2 DEF Served
  <1>8. Unmanaged' /\ LegacyBound' /\ ReaderShape'
    BY <1>0, <1>1, <1>2 DEF Unmanaged, LegacyBound, ReaderShape
  <1>9. \A r \in Readers : Reading(r)'
    <2>1. \A h \in Generations : Pinned(h) /\ cache[h].kind # "none" => cache'[h] = cache[h]
      BY <1>4 DEF Retired, Repinned
    <2> QED
      BY <1>0, <1>2, <1>6, <2>1, ReadingStep
  <1> QED
    BY <1>1, <1>5, <1>7, <1>8, <1>9 DEF RowInv

\* protect_for_gc as a retirement.
LEMMA RetireIs ==
    ASSUME IInv, RowInv, NEW w \in Workers, NEW pruned, Retire(w, pruned),
           pruned \subseteq Prunable(flow[w].target, JoinView(flow[w].target)),
           UNCHANGED <<published, managed, head, lexical, vector, reader, legacyThrough>>
    PROVE  /\ Retired(flow[w].target) /\ flow[w].pc \in {"published", "collecting"}
           /\ flow[w].pc = "collecting" => Quiet
           /\ JoinView(flow[w].target) = Candidate(records, flow[w].target)
           /\ JoinCache(flow[w].target)[flow[w].target] = Candidate(records, flow[w].target)
  <1>1. PICK g : g = flow[w].target
    OBVIOUS
  <1>0. Typed /\ Newest /\ Linked /\ Cached /\ Served /\ Unmanaged /\ Collecting /\ Purging(w)
    BY DEF IInv, RowInv
  <1>2. flow[w].pc \in {"published", "collecting"} /\ (flow[w].pc = "collecting" => Quiet)
    BY DEF Retire, MayCollect
  <1>3. g \in published /\ records[g].state # "none" /\ g # Missing
    BY <1>0, <1>1, <1>2, GenerationsAre DEF Collecting, Purging
  <1>4. /\ JoinView(g).kind # "none" /\ g >= Floor /\ retiredBefore' = g
        /\ cache' = [h \in Generations |->
                        IF h >= g \/ Pinned(h) THEN JoinCache(g)[h] ELSE NoView]
        /\ records' = [h \in Generations |-> IF h \in pruned THEN NoRecord ELSE records[h]]
    BY <1>1 DEF Retire, JoinView, JoinCache
  <1>5. /\ Fits(JoinView(g), g) /\ JoinCache(g)[g] = JoinView(g)
        /\ JoinView(g).kind = "files" => JoinView(g) = Candidate(records, g)
    BY <1>0, <1>3, <1>4, PinJoinIs
  <1>6. JoinView(g).kind = "files"
    BY <1>3, <1>4, <1>5, ViewKinds DEF Fits
  <1>7. Floor' = g
    BY <1>3, <1>4 DEF Floor
  <1>8. \A h \in pruned : h < g /\ h \notin Candidate(records, g).ancestry
    BY <1>1, <1>5, <1>6 DEF Prunable
  <1>9. Retired(g)
    BY <1>3, <1>4, <1>7, <1>8 DEF Retired
  <1> QED
    BY <1>1, <1>2, <1>5, <1>6, <1>9

\* Collection: the boundary moves, views and records go.
LEMMA RetireRows ==
    ASSUME IInv, IInv', RowInv, NEW w \in Workers, Protect(w) \/ FailProtect(w)
    PROVE  RowInv'
  <1>0. /\ Typed /\ ShapeOfFlow /\ Locked /\ Running(w) /\ Cached /\ Linked /\ Unmanaged /\ Newest /\ Served
        /\ (\A v \in Workers : Purging(v)) /\ (\A r \in Readers : Reading(r))
    BY DEF IInv, Shape, RowInv
  <1>1. PICK g : g = flow[w].target
    OBVIOUS
  <1>2. UNCHANGED <<published, managed, head, lexical, vector, reader, legacyThrough, op>>
    BY DEF Protect, FailProtect, registry, rows
  <1>3. /\ Retired(g) /\ flow[w].pc \in {"published", "collecting"} /\ (flow[w].pc = "collecting" => Quiet)
        /\ JoinView(g) = Candidate(records, g) /\ JoinCache(g)[g] = Candidate(records, g)
    <2>1. CASE FailProtect(w)
      <3>1. PICK pruned \in SUBSET Prunable(g, JoinView(g)) : Retire(w, pruned)
        BY <1>1, <2>1 DEF FailProtect, JoinView
      <3> QED
        BY <1>1, <1>2, <3>1, RetireIs
    <2>2. CASE Protect(w)
      <3>1. Retire(w, Prunable(g, JoinCache(g)[g]))
        BY <1>1, <2>2 DEF Protect, JoinCache
      <3>2. g \in published /\ JoinView(g).kind # "none"
        BY <1>1, <3>1 DEF IInv, Collecting, Retire, MayCollect, JoinView
      <3>3. JoinCache(g)[g] = JoinView(g)
        BY <1>0, <3>2, PinJoinIs
      <3>4. PICK pruned : pruned = Prunable(g, JoinView(g)) /\ Retire(w, pruned)
        BY <3>1, <3>3
      <3> QED
        BY <1>1, <1>2, <3>4, RetireIs
    <2> QED
      BY <2>1, <2>2
  <1>4. \A v \in Workers \ {w} : flow[v].pc = "idle" /\ op[v].kind = "none"
    <2>1. \A v \in Workers \ {w} : flow[v].pc = "idle"
      BY <1>0, <1>3 DEF Locked
    <2>2. CASE flow[w].pc = "published"
      BY <2>1, <2>2, Alone
    <2>3. CASE flow[w].pc = "collecting"
      BY <1>3, <2>1, <2>3 DEF Quiet, Operations
    <2> QED
      BY <1>3, <2>2, <2>3
  <1>5. op[w].kind = "none"
    BY <1>0, <1>3 DEF Running, Waits
  <1>6. CASE FailProtect(w)
    <2>1. End(w)
      BY <1>6 DEF FailProtect
    <2>2. flow'[w].pc = "idle" /\ \A v \in Workers \ {w} : flow'[v] = flow[v]
      BY <1>0, <2>1, EndFlow, EmptyShapes
    <2>3. \A v \in Workers : Begun(v)' /\ Staging(v)' /\ Running(v)' /\ Purging(v)'
      BY <1>2, <1>4, <1>5, <2>2 DEF Begun, Staging, Staged, Running, Purging
    <2> QED
      BY <1>3, <2>3, RetiredKeeps
  <1>7. CASE Protect(w)
    <2>1. PICK L : L = flow[w].leases \cup Protected(g, JoinCache(g))
      OBVIOUS
    <2>2. flow' = [flow EXCEPT ![w].pc = "protected", ![w].leases = L]
      BY <1>1, <1>7, <2>1 DEF Protect, JoinCache
    <2>3. /\ flow'[w].pc = "protected" /\ flow'[w].target = g /\ flow'[w].leases = L
          /\ \A v \in Workers \ {w} : flow'[v] = flow[v]
      <3> DEFINE f == flow[w]
      <3>1. Moved(f, flow'[w], "protected", f.changed, f.buffered, f.cancelled, L)
        BY <1>0, <2>2, MoveFields
      <3>2. \A v \in Workers \ {w} : flow'[v] = flow[v]
        BY <1>0, <2>2, MoveFlow
      <3> QED
        BY <1>1, <3>1, <3>2 DEF Moved
    <2>4. g \in Generations /\ g \in published /\ records[g].state # "none" /\ Floor' = g
      BY <1>0, <1>3 DEF Retired, Typed
    <2>5. Stable(g)
      <3>1. g >= g
        BY <1>0, <2>4, GenerationsAre
      <3> QED
        BY <1>3, <2>4, <3>1, RetiredChains
    <2>6. \A l \in L : Selected(l.generation, l.view) \subseteq Keep(L)
      BY DEF Keep
    <2>7. Selected(g, Candidate(records, g)) \subseteq Keep(L)
      <3> DEFINE l == Lease(g, JoinCache(g)[g])
      <3>1. l \in L
        BY <2>1 DEF Protected
      <3>2. l.generation = g /\ l.view = Candidate(records, g)
        BY <1>3 DEF Lease
      <3> QED
        BY <2>6, <3>1, <3>2
    <2>8. ASSUME NEW r \in Readers, reader[r].lease.generation # 0
          PROVE  Selected(reader[r].lease.generation, reader[r].lease.view) \subseteq Keep(L)
      <3> DEFINE l == reader[r].lease
                 h == l.generation
      <3>1. l # NoLease
        BY <2>8 DEF NoLease, Lease
      <3>2. l = Lease(h, l.view) /\ h \in Generations /\ cache[h] = l.view
        BY <1>0, <3>1 DEF Reading
      <3>3. Pinned(h) /\ cache[h].kind # "none"
        BY <1>0, <3>1, ReaderPins
      <3>4. Repinned(JoinCache(g), g)
        BY <1>0, <2>4, PinJoinIs
      <3>5. JoinCache(g)[h] = cache[h]
        BY <3>2, <3>3, <3>4 DEF Repinned
      <3>6. l \in Protected(g, JoinCache(g))
        BY <3>2, <3>3, <3>5 DEF Protected
      <3> QED
        BY <2>1, <2>6, <3>6
    <2>9. PurgeSafe(g, L)'
      BY <1>2, <2>4, <2>5, <2>7, <2>8 DEF PurgeSafe, Stable
    <2>10. Begun(w)' /\ Staging(w)' /\ Running(w)' /\ Purging(w)'
      BY <1>2, <1>5, <2>3, <2>9 DEF Begun, Staging, Staged, Running, Purging
    <2>11. \A v \in Workers \ {w} : Begun(v)' /\ Staging(v)' /\ Running(v)' /\ Purging(v)'
      BY <1>2, <1>4, <2>3 DEF Begun, Staging, Staged, Running, Purging
    <2> QED
      BY <1>3, <2>10, <2>11, RetiredKeeps
  <1> QED
    BY <1>6, <1>7

-----------------------------------------------------------------------------
(* The invariant of the rows.                                              *)

\* A fresh or legacy project: no record, no view, nothing running.
LEMMA InitRowInv ==
    ASSUME Init
    PROVE  RowInv
  <1>0. IInv
    BY InitIInv
  <1>1. /\ 0 \in Generations /\ 1 \in Generations /\ published = {head} /\ head \in {0, 1}
        /\ retiredBefore = Missing /\ legacyThrough = Missing /\ managed = FALSE
        /\ Floor = 0 /\ cache = EmptyCache
    BY PublicationAssumption DEF Init, Generations, Floor
  <1>2. \A h \in Generations : records[h].state = "none" /\ records[h].parent = Missing
    BY DEF Init, NoRecord
  <1>3. Linked
    BY <1>2 DEF Linked
  <1>4. Cached
    <2>1. cache = [h \in Generations |-> cache[h]] /\ \A h \in Generations : cache[h] = NoView
      BY <1>1 DEF EmptyCache
    <2>2. \A h \in Generations : Fits(NoView, h)
      BY ViewKinds DEF Fits
    <2> QED
      BY <2>1, <2>2 DEF Cached
  <1>5. Served
    BY <1>1, <1>2 DEF Served
  <1>6. Unmanaged
    <2>1. records[head].state = "none"
      BY <1>1, <1>2
    <2>2. ASSUME head # 0, NEW p \in Paths
          PROVE  Whole(p, head)
      <3>1. head = 1 /\ <<p, 1>> \in Paths \X Generations
        BY <1>1, <2>2
      <3>2. lexical[<<p, 1>>] = {"current"} /\ vector = lexical
        BY <3>1 DEF Init
      <3> QED
        BY <3>1, <3>2 DEF Whole
    <2> QED
      BY <1>1, <2>1, <2>2 DEF Unmanaged
  <1>7. LegacyBound /\ ReaderShape
    BY <1>1 DEF LegacyBound, ReaderShape, Init
  <1>8. ASSUME NEW w \in Workers
        PROVE  Begun(w) /\ Staging(w) /\ Running(w) /\ Purging(w)
    <2>1. flow[w].pc = "idle" /\ op[w].kind = "none"
      BY EmptyShapes DEF Init
    <2> QED
      BY <2>1 DEF Begun, Staging, Running, Purging, Staged
  <1>9. ASSUME NEW r \in Readers
        PROVE  Reading(r)
    <2>1. reader[r] = [asked |-> Missing, lease |-> NoLease]
      BY DEF Init
    <2>2. NoLease.generation = 0
      BY DEF NoLease, Lease
    <2> QED
      BY <2>1, <2>2 DEF Reading
  <1> QED
    BY <1>3, <1>4, <1>5, <1>6, <1>7, <1>8, <1>9 DEF RowInv

\* Every step.
LEMMA NextRowInv ==
    ASSUME IInv, RowInv, [Next]_vars
    PROVE  RowInv'
  <1>0. IInv'
    BY NextIInv
  <1>1. ASSUME NEW w \in Workers, FlowStep(w)
        PROVE  RowInv'
    BY <1>0, <1>1, PrepareUpdateRows, PrepareFullRows, TaskRows, ClearLexicalRows, WriteFileRows,
       FinishIndexingRows, SealRows, RetireRows, PurgeLexicalRows DEF FlowStep
  <1>2. ASSUME NEW w \in Workers, OperationStep(w)
        PROVE  RowInv'
    BY <1>0, <1>2, FinishClearRows, FinishWriteRows, PublishRows, FinishPurgeRows, DropRows
       DEF OperationStep
  <1>3. ASSUME NEW w \in Workers, BeginStep(w)
        PROVE  RowInv'
    BY <1>3, BeginWriteRows, SweepRows DEF BeginStep
  <1>4. ASSUME NEW w \in Workers, Cancel(w) \/ FailProtect(w)
        PROVE  RowInv'
    BY <1>0, <1>4, DropRows, RetireRows
  <1>5. CASE Retarget \/ DamageHead \/ UNCHANGED vars
    <2>1. /\ UNCHANGED <<records, published, managed, retiredBefore, legacyThrough, lexical, vector,
                         cache, reader, flow, op>>
          /\ ~ managed => head' = head
      BY <1>5 DEF Retarget, DamageHead, vars, registry, catalog, rows, tasks
    <2> QED
      BY <2>1, IdleStep
  <1> QED
    BY <1>1, <1>2, <1>3, <1>4, <1>5, ReaderRows, CrashRows DEF Next

\* The newest published generation resolves from the files alone.
LEMMA HeadIsDurable ==
    ASSUME IInv, RowInv, managed, head # Missing
    PROVE  /\ head \in published /\ head >= Floor /\ Complete(head)
           /\ Durable(head) = Candidate(records, head)
           /\ Candidate(records, head).kind = "files"
  <1>1. head \in published /\ \A p \in published : p <= head
    BY DEF IInv, Newest
  <1>2. Typed /\ Linked /\ Served
    BY DEF IInv, RowInv
  <1>3. PICK m \in published : Floor <= m
    BY <1>2 DEF Served
  <1>4. /\ Floor \in Nat /\ m \in Nat /\ head \in Nat
    BY <1>1, <1>2, GenerationsAre
  <1>5. m <= head
    BY <1>1
  <1>6. head >= Floor
    BY <1>3, <1>4, <1>5
  <1>7. PICK n \in published : (\A p \in published : p <= n) /\ records[n].state # "none"
    BY DEF IInv, Newest
  <1>8. n <= head /\ head <= n /\ n \in Nat
    BY <1>1, <1>2, <1>7, GenerationsAre
  <1>9. n = head
    BY <1>4, <1>8
  <1>10. records[head].state # "none"
    BY <1>7, <1>9
  <1>11. /\ Complete(head) /\ Chain(records, head) = Candidate(records, head)
         /\ Chain(records, head).kind = "files"
    BY <1>1, <1>2, <1>6, <1>10, ServedIs
  <1>12. Cardinality(Candidate(records, head).ancestry) <= MaxDepth
    BY <1>11 DEF Complete, Sound
  <1>13. Durable(head) = Chain(records, head)
    BY <1>11, <1>12, DurableIs
  <1> QED
    BY <1>1, <1>6, <1>11, <1>13

\* Where the rows are whole, a reader finds them.
LEMMA WholeIsIntact ==
    ASSUME NEW S, NEW P, \A c \in S : c \in Paths \X P /\ Whole(c[1], c[2])
    PROVE  Intact(S)
  <1>1. ASSUME NEW c \in S
        PROVE  lexical[c] = {"current"} /\ vector[c] = {"current"}
    <2>1. c \in Paths \X P /\ Whole(c[1], c[2])
      BY <1>1
    <2>2. c = <<c[1], c[2]>>
      BY <2>1
    <2>3. lexical[<<c[1], c[2]>>] = {"current"} /\ vector[<<c[1], c[2]>>] = {"current"}
      BY <2>1 DEF Whole
    <2> QED
      BY <2>2, <2>3
  <1> QED
    BY <1>1 DEF Intact

\* No reader misses a row, and a restart recovers the head with its rows.
LEMMA RowsAreReadable ==
    ASSUME IInv, RowInv
    PROVE  SourceIsReadable
  <1>1. ASSUME NEW r \in Readers, reader[r].lease.generation # 0
        PROVE  Intact(Selected(reader[r].lease.generation, reader[r].lease.view))
    <2>1. \A c \in Selected(reader[r].lease.generation, reader[r].lease.view) :
              c \in Paths \X published /\ Whole(c[1], c[2])
      BY <1>1 DEF RowInv, Reading
    <2> QED
      BY <2>1, WholeIsIntact
  <1>2. ASSUME managed, head # Missing
        PROVE  /\ head >= Floor /\ Durable(head).kind = "files"
               /\ Intact(Selected(head, Durable(head)))
    <2>1. /\ head \in published /\ head >= Floor /\ Complete(head)
          /\ Durable(head) = Candidate(records, head)
          /\ Candidate(records, head).kind = "files"
      BY <1>2, HeadIsDurable
    <2>2. Typed /\ Linked
      BY DEF IInv, RowInv
    <2>3. \A c \in Selected(head, Candidate(records, head)) :
              c \in Paths \X published /\ Whole(c[1], c[2])
      BY <2>1, <2>2, CompleteCells
    <2>4. Intact(Selected(head, Candidate(records, head)))
      BY <2>3, WholeIsIntact
    <2> QED
      BY <2>1, <2>4
  <1> QED
    BY <1>1, <1>2 DEF SourceIsReadable, LeasedRowsIntact, PublishedIsRecoverable

\* The chain below a sound candidate resolves, every part of it, from the files
\* alone, and no view in memory disagrees with it.
LEMMA BaseIsDurable ==
    ASSUME IInv, RowInv, NEW t \in Generations, Sound(t), records[t].parent # Missing
    PROVE  \A h \in Chain(records, records[t].parent).ancestry :
              /\ h \in Generations /\ h # t
              /\ Chain(records, h).kind = "files" /\ Durable(h) = Chain(records, h)
              /\ cache[h].kind # "none" => cache[h] = Chain(records, h)
  <1>1. Typed /\ Linked /\ Cached /\ Backward(records)
    BY LinkedBackward DEF IInv, RowInv
  <1>2. PICK b : b = records[t].parent
    OBVIOUS
  <1>3. b \in Generations /\ b = t - 1
    BY <1>1, <1>2 DEF Backward
  <1>4. /\ Chain(records, b).kind = "files" /\ BaseOf(records, t) = Chain(records, b)
        /\ Cardinality(Candidate(records, t).ancestry) <= MaxDepth
    BY <1>2 DEF Sound, BaseOf
  <1>5. Candidate(records, t).ancestry = Chain(records, b).ancestry \cup {t}
    BY <1>1, <1>4, ChainOf
  <1>6. PICK A : A = Chain(records, b).ancestry
    OBVIOUS
  <1>7. IsFiniteSet(A)
    BY <1>1, <1>3, <1>4, <1>6, ChainFinite
  <1>8. IsFiniteSet(A \cup {t}) /\ Cardinality(A \cup {t}) <= MaxDepth
    BY <1>4, <1>5, <1>6, <1>7, FS_AddElement
  <1>9. A \subseteq 0 .. b
    BY <1>1, <1>3, <1>4, <1>6, AncestryIs
  <1>10. ASSUME NEW h \in A
         PROVE  /\ h \in Generations /\ h # t
                /\ Chain(records, h).kind = "files" /\ Durable(h) = Chain(records, h)
                /\ cache[h].kind # "none" => cache[h] = Chain(records, h)
    <2>1. b \in Nat /\ t \in Nat /\ b <= MaxGeneration /\ MaxGeneration \in Nat
      BY <1>3, PublicationAssumption DEF Generations
    <2>2. h \in 0 .. b
      BY <1>9
    <2>3. h \in Generations /\ h # t
      BY <1>3, <2>1, <2>2 DEF Generations
    <2>4. Chain(records, h).kind = "files" /\ Chain(records, h).ancestry \subseteq A
      BY <1>1, <1>3, <1>4, <1>6, AncestryIs
    <2>5. /\ Cardinality(Chain(records, h).ancestry) \in Nat /\ Cardinality(A \cup {t}) \in Nat
          /\ Cardinality(Chain(records, h).ancestry) <= Cardinality(A \cup {t})
      <3>1. Chain(records, h).ancestry \subseteq A \cup {t}
        BY <2>4
      <3>2. /\ IsFiniteSet(Chain(records, h).ancestry)
            /\ Cardinality(Chain(records, h).ancestry) <= Cardinality(A \cup {t})
        BY <1>8, <3>1, FS_Subset
      <3> QED
        BY <1>8, <3>2, FS_CardinalityType
    <2>6. MaxDepth \in Nat
      BY PublicationAssumption
    <2>7. Cardinality(Chain(records, h).ancestry) <= MaxDepth
      BY <1>8, <2>5, <2>6
    <2>8. Durable(h) = Chain(records, h)
      BY <2>7, DurableIs
    <2>9. records[h].state = "sealed"
      BY <1>1, <2>3, <2>4, ChainOf
    <2>10. Fits(cache[h], h)
      BY <1>1, <2>3 DEF Cached
    <2>11. cache[h].kind # "none" => cache[h] = Chain(records, h)
      BY <2>4, <2>9, <2>10, ViewKinds DEF Fits
    <2> QED
      BY <2>3, <2>4, <2>8, <2>11
  <1> QED
    BY <1>2, <1>6, <1>10

\* What seal resolves for a sound candidate, from durable parents only.
LEMMA SoundIsVerified ==
    ASSUME IInv, RowInv, NEW t \in Generations, Sound(t)
    PROVE  /\ Verified(t) = Candidate(records, t)
           /\ Verified(t).kind = "files" /\ Cardinality(Verified(t).ancestry) <= MaxDepth
           /\ \A h \in Verified(t).ancestry :
                 /\ h \in Generations
                 /\ h # t => /\ Durable(h).kind = "files"
                             /\ cache[h].kind # "none" => cache[h] = Durable(h)
  <1>1. Typed /\ Linked /\ Backward(records)
    BY LinkedBackward DEF IInv, RowInv
  <1>2. /\ Candidate(records, t).kind = "files"
        /\ Candidate(records, t).ancestry = BaseOf(records, t).ancestry \cup {t}
    BY <1>1, ChainOf
  <1>3. Cardinality(Candidate(records, t).ancestry) <= MaxDepth /\ BaseOf(records, t).kind = "files"
    BY DEF Sound
  <1>4. CASE records[t].parent = Missing
    <2>1. Verified(t) = Candidate(records, t) /\ BaseOf(records, t).ancestry = {}
      BY <1>4, RootIs DEF Verified, Candidate, BaseOf
    <2> QED
      BY <1>2, <1>3, <2>1
  <1>5. CASE records[t].parent # Missing
    <2>1. BaseOf(records, t) = Chain(records, records[t].parent)
      BY <1>5 DEF BaseOf
    <2>2. records[t].parent \in Generations
      BY <1>1, <1>5 DEF Backward
    <2>3. records[t].parent \in Chain(records, records[t].parent).ancestry
      BY <1>1, <1>3, <2>1, <2>2, AncestryIs
    <2>4. \A h \in Chain(records, records[t].parent).ancestry :
              /\ h \in Generations /\ h # t
              /\ Chain(records, h).kind = "files" /\ Durable(h) = Chain(records, h)
              /\ cache[h].kind # "none" => cache[h] = Chain(records, h)
      BY <1>5, BaseIsDurable
    <2>5. Durable(records[t].parent) = BaseOf(records, t)
      BY <2>1, <2>3, <2>4
    <2>6. Verified(t) = Candidate(records, t)
      BY <1>3, <1>5, <2>5 DEF Verified, Candidate
    <2> QED
      BY <1>2, <1>3, <2>1, <2>4, <2>6
  <1> QED
    BY <1>4, <1>5

\* seal's checks hold of an attempt that is staged.
LEMMA StagedIsSealable ==
    ASSUME IInv, RowInv
    PROVE  StagedCanBeSealed
  <1> SUFFICES ASSUME NEW w \in Workers, flow[w].pc \in {"writing", "indexed"}
               PROVE  Sealable(flow[w].target, MakeCacheRoom(cache))
    BY DEF StagedCanBeSealed
  <1>1. PICK t : t = flow[w].target
    OBVIOUS
  <1>2. Typed /\ Served /\ LegacyBound /\ t \in Generations
    BY <1>1 DEF IInv, RowInv, Typed
  <1>3. /\ Sound(t) /\ legacyThrough # Missing /\ retiredBefore # Missing
        /\ cache[t].kind = "none"
    BY <1>1 DEF RowInv, Staging, Staged
  <1>4. (\A p \in published : p < t) /\ records[t].state # "none"
    BY <1>1 DEF IInv, Fresh, Staged
  <1>5. PICK m \in published : Floor <= m
    BY <1>2 DEF Served
  <1>6. t \in Nat /\ m \in Nat /\ Floor \in Nat /\ \A p \in published : p \in Nat
    BY <1>2, GenerationsAre
  <1>7. m < t
    BY <1>4
  <1>8. retiredBefore <= t
    BY <1>3, <1>5, <1>6, <1>7 DEF Floor
  <1>9. legacyThrough < t
    <2>1. legacyThrough \in published \/ legacyThrough = 0
      BY <1>2, <1>3 DEF LegacyBound
    <2>2. 0 < t
      BY <1>6, <1>7
    <2> QED
      BY <1>4, <2>1, <2>2
  <1>10. /\ Verified(t).kind = "files" /\ Cardinality(Verified(t).ancestry) <= MaxDepth
         /\ \A h \in Verified(t).ancestry :
               /\ h \in Generations
               /\ h # t => /\ Durable(h).kind = "files"
                           /\ cache[h].kind # "none" => cache[h] = Durable(h)
    BY <1>2, <1>3, SoundIsVerified
  <1>11. ASSUME NEW h \in Verified(t).ancestry, MakeCacheRoom(cache)[h].kind # "none"
         PROVE  /\ MakeCacheRoom(cache)[h].kind = "files"
                /\ MakeCacheRoom(cache)[h].files =
                      IF h = t THEN Verified(t).files ELSE Durable(h).files
    <2>1. h \in Generations
      BY <1>10
    <2>2. MakeCacheRoom(cache)[h] \in {NoView, cache[h]}
      BY <2>1, RoomIs
    <2>3. MakeCacheRoom(cache)[h] = cache[h] /\ cache[h].kind # "none"
      BY <1>11, <2>2, ViewKinds
    <2>4. h # t
      BY <1>3, <2>3
    <2> QED
      BY <1>10, <2>3, <2>4
  <1>12. Sealable(t, MakeCacheRoom(cache))
    BY <1>3, <1>4, <1>8, <1>9, <1>10, <1>11 DEF Sealable
  <1> QED
    BY <1>1, <1>12

-----------------------------------------------------------------------------
(* Theorems.                                                               *)

\* Every behaviour of the publication keeps the inductive invariant.
THEOREM Invariance == Spec => []IInv
  BY InitIInv, NextIInv, PTL DEF Spec

\* However requests are cancelled, and whatever they leave running, at most one
\* operation runs, and never beside the flow of another worker that writes
\* (handlers/project_tools.rs under the update lock and the coordinator).
THEOREM Serialized == Spec => []WritersAreSerialized
  <1>1. IInv => WritersAreSerialized
    BY DEF IInv, Single, WritersAreSerialized, Operations
  <1> QED
    BY <1>1, Invariance, PTL

\* No update, repair or recovery stages a generation that was ever published,
\* whatever was cancelled, collected, damaged or lost in a crash before
\* (reserve_source_recovery over source_generation_high_water).
THEOREM NeverRestaged == Spec => PublishedNeverRestaged
  <1>1. IInv /\ [Next]_vars =>
           [\A g \in Generations :
               records'[g].state = "pending" /\ records[g].state # "pending"
                   => g \notin published]_vars
    BY StagesFresh
  <1> QED
    BY <1>1, Invariance, PTL DEF Spec, PublishedNeverRestaged

\* Every behaviour keeps the invariant of the rows and views as well.
THEOREM RowInvariance == Spec => [](IInv /\ RowInv)
  <1>1. Init => IInv /\ RowInv
    BY InitIInv, InitRowInv
  <1>2. (IInv /\ RowInv) /\ [Next]_vars => (IInv /\ RowInv)'
    BY NextIInv, NextRowInv
  <1> QED
    BY <1>1, <1>2, PTL DEF Spec

\* Whatever is staged, purged, cancelled, detached, damaged or lost in a crash,
\* a reader finds every row of the view it holds, and a published head resolves
\* from its files alone with every row of the published attempt in both stores
\* (pin_inner, protect_for_gc and purge_old_generations together).
THEOREM Readable == Spec => []SourceIsReadable
  <1>1. IInv /\ RowInv => SourceIsReadable
    BY RowsAreReadable
  <1> QED
    BY <1>1, RowInvariance, PTL

\* seal never refuses an attempt that was staged and completed, for any length
\* of chain, any depth limit and any size of the cache (seal in snapshots.rs).
THEOREM CanBeSealed == Spec => []StagedCanBeSealed
  <1>1. IInv /\ RowInv => StagedCanBeSealed
    BY StagedIsSealable
  <1> QED
    BY <1>1, RowInvariance, PTL
=============================================================================
