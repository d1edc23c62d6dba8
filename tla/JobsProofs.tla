----------------------------- MODULE JobsProofs -----------------------------
(***************************************************************************)
(* Proofs about the progress that outlives a process: the records of jobs, *)
(* the watermarks of the history walks and the cursor of the history       *)
(* refresh.                                                                *)
(*                                                                         *)
(* The records are true for any number of jobs of any kinds, with any      *)
(* number of cancel requests, deletions and restarts.                      *)
(*                                                                         *)
(* That a running record has someone who will settle it is not inductive:  *)
(* a task may be aborted, and then the guard has to be armed, or the final *)
(* record already submitted, or a request on its way to a tombstone.  IInv *)
(* says which of them it is at every point of the task (HasSettler), that  *)
(* the steps after the final record find it written, and that nothing of a *)
(* job exists before its handler has spawned it (Unspawned).               *)
(*                                                                         *)
(* The watermarks are sound because a run under way has, at every point,   *)
(* counted and filed the stretch of the trunk that its own marks enclose,  *)
(* up to what is skipped (Have); WalkInv says where that stretch is        *)
(* (Ordered), what is left beside it (Above, Below) and how the registry's *)
(* marks lie in it (Known).  Merges do not disturb it: a trunk commit is   *)
(* an ancestor of every newer commit of the branch.                        *)
(***************************************************************************)
EXTENDS Jobs, GitHistory, HistoryRefresh, FiniteSetTheorems, WellFoundedInduction, TLAPS

-----------------------------------------------------------------------------
(* The inductive invariant.                                                *)

\* Functions and records keep their domains.
Each(f) == f = [j \in Jobs |-> f[j]]
IsCancel(r) == r = [at |-> r.at, cp |-> r.cp, ok |-> r.ok]

Shape ==
    /\ Each(record) /\ Each(published) /\ Each(spawner) /\ Each(task) /\ Each(blocking)
    /\ Each(seen) /\ Each(cleanup) /\ Each(cancel)
    /\ \A j \in Jobs : IsCancel(cancel[j])
    /\ delete = [at |-> delete.at, jobs |-> delete.jobs]

\* Where a handler has not spawned the task yet, and where a task still has
\* its final record before it.
Before == {"idle", "claimed", "recorded", "registered", "refused"}
Live == {"unpolled", "armed", "indexing", "progress", "closing", "publishing",
         "published", "failing"}

\* A request or a deletion that has aborted the task will write the record.
Settling(j) ==
    \/ cancel[j].at \in {"mark", "put", "tombstone"}
    \/ delete.at \in {"unlist", "destroy"} /\ j \in delete.jobs

\* Who will settle the record of j.
HasSettler(j) ==
    \/ spawner[j] \in {"recorded", "registered"}
    \/ task[j] \in Live /\ (j \notin aborting \/ Armed(j))
    \/ blocking[j] \in Terminal
    \/ cleanup[j] = "record"
    \/ Settling(j)

Unspawned(j) ==
    /\ spawner[j] \in Before =>
          task[j] = "none" /\ blocking[j] = "none" /\ cleanup[j] = "none"
    /\ spawner[j] \in {"idle", "claimed", "refused"} =>
          record[j] = "none" /\ cancel[j].at = "idle"
    /\ spawner[j] # "returned" => j \notin handles /\ j \notin aborting

Settled(j) ==
    Guarded(j) =>
        /\ (record[j] = "running" => HasSettler(j))
        /\ (task[j] = "final" => blocking[j] \in Terminal \/ record[j] # "running")
        /\ (task[j] \in {"unlisted", "finished"} => record[j] # "running")
        /\ (cleanup[j] # "none" => task[j] = "dropped")
        /\ (cleanup[j] \in {"handle", "token"} => record[j] # "running")

Truthful(j) ==
    Kind[j] = "index" /\ "done" \in {record[j], seen[j], blocking[j]} => published[j]

Sound(j) == Unspawned(j) /\ Settled(j) /\ Truthful(j)

IInv == Shape /\ \A j \in Jobs : Sound(j)

-----------------------------------------------------------------------------
(* Frames.                                                                 *)

\* Job j is as it was; its publication may have become the head.
Same(j) ==
    /\ record'[j] = record[j] /\ spawner'[j] = spawner[j] /\ task'[j] = task[j]
    /\ blocking'[j] = blocking[j] /\ seen'[j] = seen[j] /\ cleanup'[j] = cleanup[j]
    /\ cancel'[j].at = cancel[j].at
    /\ published[j] => published'[j]
    /\ j \in aborting' <=> j \in aborting
    /\ j \in handles' => j \in handles

Others(k) == \A j \in Jobs \ {k} : Same(j)

\* A job that is as it was stays sound.
LEMMA SameSound ==
    ASSUME NEW j \in Jobs, Sound(j), Same(j), delete' = delete, setting' = setting
    PROVE  Sound(j)'
<1>1. Unspawned(j)'
    BY DEF Sound, Unspawned, Same
<1>2. Kind' = Kind /\ StoreFails' = StoreFails
    BY DEF Kind, StoreFails
<1>3. Settled(j)'
    BY <1>2 DEF Sound, Settled, Same, Guarded, HasSettler, Armed, Settling
<1>4. Truthful(j)'
    BY <1>2 DEF Sound, Truthful, Same
<1> QED
    BY <1>1, <1>3, <1>4 DEF Sound

\* A step of one job.
LEMMA OneJob ==
    ASSUME IInv, NEW k \in Jobs, Shape', Others(k), Sound(k)',
           delete' = delete, setting' = setting
    PROVE  IInv'
<1>1. ASSUME NEW j \in Jobs, j # k PROVE Sound(j)'
    BY <1>1, SameSound DEF IInv, Others
<1> QED
    BY <1>1 DEF IInv

-----------------------------------------------------------------------------
(* The spawning handler.                                                   *)

\* The steps of the handler.
LEMMA SpawnSteps ==
    ASSUME IInv, NEW k \in Jobs, SpawnStep(k), setting' = setting
    PROVE  IInv'
<1> USE DEF IInv, store, maps, work, bounds
<1>1. Sound(k) /\ Kind' = Kind /\ StoreFails' = StoreFails
    BY DEF Kind, StoreFails
<1>2. CASE Claim(k)
  <2>1. /\ Shape' /\ Others(k) /\ delete' = delete
        /\ spawner[k] = "idle" /\ spawner'[k] \in {"claimed", "refused"}
        /\ record'[k] = record[k] /\ task'[k] = task[k] /\ blocking'[k] = blocking[k]
        /\ seen'[k] = seen[k] /\ cleanup'[k] = cleanup[k] /\ published' = published
        /\ handles' = handles /\ aborting' = aborting /\ cancel' = cancel
    BY <1>2 DEF Claim, Shape, Each, Others, Same
  <2>2. Sound(k)'
    BY <1>1, <2>1 DEF Sound, Unspawned, Settled, Truthful, Before, Guarded
  <2> QED
    BY <2>1, <2>2, OneJob
<1>3. CASE PutRunning(k)
  <2>1. /\ Shape' /\ Others(k) /\ delete' = delete
        /\ spawner[k] = "claimed" /\ spawner'[k] = "recorded"
        /\ record'[k] = "running" /\ task'[k] = task[k] /\ blocking'[k] = blocking[k]
        /\ seen'[k] = seen[k] /\ cleanup'[k] = cleanup[k] /\ published' = published
        /\ handles' = handles /\ aborting' = aborting /\ cancel' = cancel
    BY <1>3 DEF PutRunning, Shape, Each, Others, Same
  <2>2. Sound(k)'
    BY <1>1, <2>1 DEF Sound, Unspawned, Settled, Truthful, Before, Guarded, HasSettler
  <2> QED
    BY <2>1, <2>2, OneJob
<1>4. CASE PutRunningFails(k)
  <2>1. /\ Shape' /\ Others(k) /\ delete' = delete
        /\ spawner[k] = "claimed" /\ spawner'[k] \in {"recorded", "refused"}
        /\ record'[k] = record[k] /\ task'[k] = task[k] /\ blocking'[k] = blocking[k]
        /\ seen'[k] = seen[k] /\ cleanup'[k] = cleanup[k] /\ published' = published
        /\ handles' = handles /\ aborting' = aborting /\ cancel' = cancel
    BY <1>4 DEF PutRunningFails, Shape, Each, Others, Same
  <2>2. Sound(k)'
    BY <1>1, <2>1 DEF Sound, Unspawned, Settled, Truthful, Before, Guarded
  <2> QED
    BY <2>1, <2>2, OneJob
<1>5. CASE InsertToken(k)
  <2>1. /\ Shape' /\ Others(k) /\ delete' = delete
        /\ spawner[k] = "recorded" /\ spawner'[k] = "registered"
        /\ record'[k] = record[k] /\ task'[k] = task[k] /\ blocking'[k] = blocking[k]
        /\ seen'[k] = seen[k] /\ cleanup'[k] = cleanup[k] /\ published' = published
        /\ handles' = handles /\ aborting' = aborting /\ cancel' = cancel
    BY <1>5 DEF InsertToken, Shape, Each, Others, Same
  <2>2. Sound(k)'
    BY <1>1, <2>1 DEF Sound, Unspawned, Settled, Truthful, Before, Guarded, HasSettler
  <2> QED
    BY <2>1, <2>2, OneJob
<1>6. CASE Spawn(k)
  <2>1. /\ Shape' /\ Others(k) /\ delete' = delete
        /\ spawner[k] = "registered" /\ spawner'[k] = "spawned"
        /\ record'[k] = record[k] /\ task'[k] = "unpolled" /\ blocking'[k] = blocking[k]
        /\ seen'[k] = seen[k] /\ cleanup'[k] = cleanup[k] /\ published' = published
        /\ handles' = handles /\ aborting' = aborting /\ cancel' = cancel
    BY <1>6 DEF Spawn, Shape, Each, Others, Same
  <2>2. Sound(k)'
    BY <1>1, <2>1 DEF Sound, Unspawned, Settled, Truthful, Before, Guarded, HasSettler, Live
  <2> QED
    BY <2>1, <2>2, OneJob
<1>7. CASE InsertHandle(k)
  <2>1. /\ Shape' /\ Others(k) /\ delete' = delete
        /\ spawner[k] = "spawned" /\ spawner'[k] = "returned"
        /\ record'[k] = record[k] /\ task'[k] = task[k] /\ blocking'[k] = blocking[k]
        /\ seen'[k] = seen[k] /\ cleanup'[k] = cleanup[k] /\ published' = published
        /\ aborting' = aborting /\ cancel'[k].at = cancel[k].at
    BY <1>7 DEF InsertHandle, Shape, Each, Others, Same
  <2>2. Sound(k)'
    BY <1>1, <2>1 DEF Sound, Unspawned, Settled, Truthful, Before, Guarded, HasSettler, Armed,
                      Settling
  <2> QED
    BY <2>1, <2>2, OneJob
<1> QED
    BY <1>2, <1>3, <1>4, <1>5, <1>6, <1>7 DEF SpawnStep

-----------------------------------------------------------------------------
(* The task.                                                               *)

\* A live task goes on to to and submits b: to the rest of its way, or to its
\* final record.
Goes(k, to, b) ==
    /\ task[k] \in Live /\ blocking[k] = "none" /\ k \notin aborting
    /\ task' = [task EXCEPT ![k] = to] /\ blocking' = [blocking EXCEPT ![k] = b]
    /\ \/ to \in Live /\ b # "done"
       \/ to = "final" /\ b \in Terminal
    /\ Kind[k] = "index" /\ b = "done" => published[k]
    /\ seen' \in {seen, [seen EXCEPT ![k] = record[k]]}
    /\ UNCHANGED <<record, published, spawner, cleanup, cancel, delete, handles, aborting>>

\* Such a step keeps the invariant.
LEMMA GoesOn ==
    ASSUME IInv, NEW k \in Jobs, NEW to, NEW b, Goes(k, to, b), setting' = setting
    PROVE  IInv'
<1>1. Sound(k) /\ Kind' = Kind /\ StoreFails' = StoreFails
    BY DEF IInv, Kind, StoreFails
<1>2. /\ Shape' /\ Others(k) /\ delete' = delete
      /\ spawner'[k] = spawner[k] /\ record'[k] = record[k]
      /\ task'[k] = to /\ blocking'[k] = b /\ cleanup'[k] = cleanup[k]
      /\ seen'[k] \in {seen[k], record[k]} /\ published' = published
      /\ handles' = handles /\ aborting' = aborting /\ cancel' = cancel
    BY DEF IInv, Goes, Shape, Each, Others, Same
<1>3. spawner[k] \notin Before
    BY <1>1 DEF Goes, Sound, Unspawned, Live
<1>4. Unspawned(k)'
    BY <1>1, <1>2, <1>3 DEF Sound, Unspawned, Before
<1>5. Settled(k)'
  <2> SUFFICES ASSUME Guarded(k)' PROVE
        /\ (record'[k] = "running" => HasSettler(k)')
        /\ (task'[k] = "final" => blocking'[k] \in Terminal \/ record'[k] # "running")
        /\ (task'[k] \in {"unlisted", "finished"} => record'[k] # "running")
        /\ (cleanup'[k] # "none" => task'[k] = "dropped")
        /\ (cleanup'[k] \in {"handle", "token"} => record'[k] # "running")
    BY DEF Settled
  <2>1. Guarded(k)
    BY <1>1 DEF Guarded
  <2>2. cleanup[k] = "none"
    BY <1>1, <2>1 DEF Sound, Settled, Goes, Live
  <2>3. to \in Live \/ (to = "final" /\ b \in Terminal)
    BY DEF Goes
  <2>4. HasSettler(k)'
    BY <1>2, <2>3 DEF HasSettler, Goes
  <2> QED
    BY <1>2, <2>2, <2>3, <2>4 DEF Live
<1>6. Truthful(k)'
    BY <1>1, <1>2 DEF Sound, Truthful, Goes
<1> QED
    BY <1>2, <1>4, <1>5, <1>6, OneJob DEF Sound

\* The statuses of the final record.
LEMMA StatusTerminal ==
    ASSUME NEW k, NEW r PROVE Status(k, r) \in Terminal
    BY DEF Status, Terminal

\* The work of a job is over.
LEMMA ConcludeStep ==
    ASSUME IInv, NEW k \in Jobs, NEW r, Conclude(k, r), setting' = setting,
           task[k] \in Live, blocking[k] = "none", k \notin aborting
    PROVE  IInv'
<1>1. Each(blocking)
    BY DEF IInv, Shape
<1>2. CASE Kind[k] = "index"
  <2>1. Goes(k, "closing", "none")
    BY <1>1, <1>2 DEF Conclude, Goes, Move, store, maps, Each, Live
  <2> QED
    BY <2>1, GoesOn
<1>3. CASE Kind[k] = "update" /\ Status(k, r) # "done"
  <2>1. Goes(k, "failing", "cpFailed")
    BY <1>3 DEF Conclude, Goes, Move, Submit, store, maps, Live
  <2> QED
    BY <2>1, GoesOn
<1>4. CASE Kind[k] # "index" /\ ~(Kind[k] = "update" /\ Status(k, r) # "done")
  <2>1. Move(k, "final") /\ Submit(k, Status(k, r))
    BY <1>4 DEF Conclude
  <2>2. Goes(k, "final", Status(k, r))
    BY <1>4, <2>1, StatusTerminal DEF Conclude, Goes, Move, Submit, store, maps
  <2> QED
    BY <2>2, GoesOn
<1> QED
    BY <1>2, <1>3, <1>4

\* The steps of the task before its final record.
LEMMA WorkSteps ==
    ASSUME IInv, NEW k \in Jobs, setting' = setting,
           \/ Poll(k) \/ BeginIndexing(k) \/ ProgressRead(k) \/ Fail(k) \/ Unchanged(k)
           \/ Indexed(k) \/ CloseIndex(k) \/ Publish(k) \/ PublishSkipped(k)
           \/ AfterPublish(k) \/ AfterFailing(k)
    PROVE  IInv'
<1>1. Each(blocking) /\ Each(task)
    BY DEF IInv, Shape
<1>2. CASE Poll(k)
  <2>1. Goes(k, "armed", "none")
    BY <1>1, <1>2 DEF Poll, At, Goes, Move, store, maps, Each, Live
  <2> QED
    BY <2>1, GoesOn
<1>3. CASE BeginIndexing(k)
  <2>1. PICK b \in {"none", "cpScanning"} : blocking' = [blocking EXCEPT ![k] = b]
    BY <1>1, <1>3 DEF BeginIndexing, At, Submit, Each
  <2>2. Goes(k, "indexing", b)
    BY <1>3, <2>1 DEF BeginIndexing, At, Goes, Move, store, maps, Live
  <2> QED
    BY <2>2, GoesOn
<1>4. CASE ProgressRead(k)
  <2>1. Goes(k, "progress", "none")
    BY <1>1, <1>4 DEF ProgressRead, At, Goes, Move, store, maps, Each, Live
  <2> QED
    BY <2>1, GoesOn
<1>5. CASE Fail(k) \/ Unchanged(k)
  <2>1. task[k] \in Live /\ blocking[k] = "none" /\ k \notin aborting
        /\ (Conclude(k, "err") \/ Conclude(k, "ok"))
    BY <1>5 DEF Fail, Unchanged, At, Live
  <2> QED
    BY <2>1, ConcludeStep
<1>6. CASE Indexed(k)
  <2>1. task[k] \in Live /\ blocking[k] = "none" /\ k \notin aborting
    BY <1>6 DEF Indexed, At, Live
  <2>2. CASE Kind[k] = "update"
    <3>1. Goes(k, "publishing", "cpVector")
      BY <1>6, <2>1, <2>2 DEF Indexed, Goes, Move, Submit, store, maps, Live
    <3> QED
      BY <3>1, GoesOn
  <2>3. CASE Kind[k] # "update"
    BY <1>6, <2>1, <2>3, ConcludeStep DEF Indexed
  <2> QED
    BY <2>2, <2>3
<1>7. CASE CloseIndex(k)
  <2>1. \/ Submit(k, "cpFailed") /\ Move(k, "failing")
        \/ Submit(k, "cpVector") /\ Move(k, "publishing")
        \/ Submit(k, "failed") /\ Move(k, "final")
    BY <1>7 DEF CloseIndex
  <2>2. Goes(k, "failing", "cpFailed") \/ Goes(k, "publishing", "cpVector")
        \/ Goes(k, "final", "failed")
    BY <1>7, <2>1 DEF CloseIndex, At, Goes, Move, Submit, store, maps, Live, Terminal
  <2> QED
    BY <2>2, GoesOn
<1>8. CASE Publish(k)
  <2>1. Goes(k, "published", "publish")
    BY <1>8 DEF Publish, At, Goes, Move, Submit, store, maps, Live
  <2> QED
    BY <2>1, GoesOn
<1>9. CASE PublishSkipped(k)
  <2>1. task[k] \in Live /\ blocking[k] = "none" /\ k \notin aborting
    BY <1>9 DEF PublishSkipped, At, Live
  <2>2. CASE Kind[k] = "update"
    BY <1>9, <2>1, <2>2, ConcludeStep DEF PublishSkipped
  <2>3. CASE Kind[k] # "update"
    <3>1. Goes(k, "final", "failed")
      BY <1>9, <2>1, <2>3 DEF PublishSkipped, Goes, Move, Submit, store, maps, Terminal
    <3> QED
      BY <3>1, GoesOn
  <2> QED
    BY <2>2, <2>3
<1>10. CASE AfterPublish(k)
  <2>1. task[k] \in Live /\ blocking[k] = "none" /\ k \notin aborting
    BY <1>10 DEF AfterPublish, At, Live
  <2>2. PICK r \in {"ok", "err"} : r = IF published[k] THEN "ok" ELSE "err"
    OBVIOUS
  <2>3. CASE Kind[k] = "update"
    <3>1. Conclude(k, r)
      BY <1>10, <2>2, <2>3 DEF AfterPublish
    <3> QED
      BY <2>1, <3>1, ConcludeStep
  <2>4. CASE Kind[k] # "update"
    <3>1. PICK b \in {"done", "failed"} : b = IF r = "ok" THEN "done" ELSE "failed"
      OBVIOUS
    <3>2. Submit(k, b) /\ Move(k, "final") /\ UNCHANGED <<store, count, maps, spawner, result,
              seen, cleanup, cancel, outcome, delete, bounds>>
      BY <1>10, <2>2, <2>4, <3>1 DEF AfterPublish
    <3>3. b = "done" => published[k]
      BY <2>2, <3>1
    <3>4. Goes(k, "final", b)
      BY <2>1, <3>1, <3>2, <3>3 DEF Goes, Move, Submit, store, maps, Terminal
    <3> QED
      BY <3>4, GoesOn
  <2> QED
    BY <2>3, <2>4
<1>11. CASE AfterFailing(k)
  <2>1. PICK b : b = IF Kind[k] = "index" THEN "cancelled" ELSE Status(k, result[k])
    OBVIOUS
  <2>2. b \in Terminal /\ (Kind[k] = "index" => b # "done")
    BY <2>1, StatusTerminal DEF Terminal
  <2>3. Submit(k, b) /\ Move(k, "final")
    BY <1>11, <2>1 DEF AfterFailing
  <2>4. Goes(k, "final", b)
    BY <1>11, <2>2, <2>3 DEF AfterFailing, At, Goes, Move, Submit, store, maps, Live
  <2> QED
    BY <2>4, GoesOn
<1> QED
    BY <1>2, <1>3, <1>4, <1>5, <1>6, <1>7, <1>8, <1>9, <1>10, <1>11

\* The progress callback writes the record it has read; the task goes on, and
\* is dropped with its guard if it was aborted meanwhile.
LEMMA ProgressWriteStep ==
    ASSUME IInv, NEW k \in Jobs, ProgressWrite(k), setting' = setting PROVE IInv'
<1>1. Sound(k) /\ Kind' = Kind /\ StoreFails' = StoreFails
    BY DEF IInv, Kind, StoreFails
<1>2. PICK f : record' = f /\ f \in {[record EXCEPT ![k] = seen[k]], record}
    BY DEF ProgressWrite
<1>3. /\ Shape' /\ Others(k) /\ delete' = delete
      /\ task[k] = "progress" /\ task'[k] = "indexing" /\ record'[k] \in {seen[k], record[k]}
      /\ spawner'[k] = spawner[k] /\ blocking'[k] = blocking[k] /\ cleanup'[k] = cleanup[k]
      /\ seen'[k] = "none" /\ published' = published
      /\ handles' = handles /\ aborting' = aborting /\ cancel' = cancel
    BY <1>2 DEF IInv, ProgressWrite, Move, Shape, Each, Others, Same, maps, bounds
<1>4. Unspawned(k)'
    BY <1>1, <1>3 DEF Sound, Unspawned, Before
<1>5. Settled(k)'
    BY <1>1, <1>3 DEF Sound, Settled, Guarded, HasSettler, Armed, Live
<1>6. Truthful(k)'
    BY <1>1, <1>3 DEF Sound, Truthful
<1> QED
    BY <1>3, <1>4, <1>5, <1>6, OneJob DEF Sound

\* The final record is written: the task leaves the maps.
LEMMA EndSteps ==
    ASSUME IInv, NEW k \in Jobs, RemoveHandle(k) \/ RemoveToken(k), setting' = setting
    PROVE  IInv'
<1>1. Sound(k) /\ Kind' = Kind /\ StoreFails' = StoreFails
    BY DEF IInv, Kind, StoreFails
<1>2. /\ Shape' /\ Others(k) /\ delete' = delete
      /\ task[k] \in {"final", "unlisted"} /\ task'[k] \in {"unlisted", "finished"}
      /\ blocking[k] = "none" /\ record'[k] = record[k]
      /\ spawner'[k] = spawner[k] /\ blocking'[k] = blocking[k] /\ cleanup'[k] = cleanup[k]
      /\ seen'[k] = seen[k] /\ published' = published
      /\ (k \in handles' => k \in handles) /\ aborting' = aborting /\ cancel' = cancel
    BY DEF IInv, RemoveHandle, RemoveToken, At, Move, Shape, Each, Others, Same, store, bounds
<1>3. Unspawned(k)'
    BY <1>1, <1>2 DEF Sound, Unspawned, Before
<1>4. Guarded(k) => record[k] # "running"
    BY <1>1, <1>2 DEF Sound, Settled, Terminal
<1>5. Settled(k)'
    BY <1>1, <1>2, <1>4 DEF Sound, Settled, Guarded
<1>6. Truthful(k)'
    BY <1>1, <1>2 DEF Sound, Truthful
<1> QED
    BY <1>2, <1>3, <1>5, <1>6, OneJob DEF Sound

\* A blocking closure runs.
LEMMA BlockingStep ==
    ASSUME IInv, NEW k \in Jobs, RunBlocking(k), setting' = setting PROVE IInv'
<1>1. Sound(k) /\ Kind' = Kind /\ StoreFails' = StoreFails
    BY DEF IInv, Kind, StoreFails
<1>2. /\ record' \in {[record EXCEPT ![k] = blocking[k]], record}
      /\ published' \in {[published EXCEPT ![k] = TRUE], published}
      /\ (blocking[k] \in Terminal /\ ~StoreFails
            => record' = [record EXCEPT ![k] = blocking[k]])
      /\ (blocking[k] \notin Terminal => record' = record)
  <2>1. CASE blocking[k] \in Terminal
    <3>1. PICK ok \in Written :
             record' = IF ok THEN [record EXCEPT ![k] = blocking[k]] ELSE record
      BY <2>1 DEF RunBlocking, Terminal
    <3>2. published' = published
      BY <2>1 DEF RunBlocking, Terminal
    <3> QED
      BY <2>1, <3>1, <3>2 DEF Written
  <2>2. CASE blocking[k] \notin Terminal /\ blocking[k] = "publish"
    BY <2>2 DEF RunBlocking
  <2>3. CASE blocking[k] \notin Terminal /\ blocking[k] # "publish"
    BY <2>3 DEF RunBlocking
  <2> QED
    BY <2>1, <2>2, <2>3
<1>3. /\ Shape' /\ Others(k) /\ delete' = delete
      /\ blocking[k] # "none" /\ blocking'[k] = "none"
      /\ record'[k] \in {blocking[k], record[k]}
      /\ (blocking[k] \in Terminal /\ ~StoreFails => record'[k] = blocking[k])
      /\ (blocking[k] \notin Terminal => record'[k] = record[k])
      /\ (published[k] => published'[k])
      /\ spawner'[k] = spawner[k] /\ task'[k] = task[k] /\ cleanup'[k] = cleanup[k]
      /\ seen'[k] = seen[k] /\ handles' = handles /\ aborting' = aborting /\ cancel' = cancel
    BY <1>2 DEF IInv, RunBlocking, Submit, Shape, Each, Others, Same, maps, bounds
<1>4. spawner[k] \notin Before /\ Unspawned(k)'
    BY <1>1, <1>3 DEF Sound, Unspawned, Before
<1>5. Settled(k)'
    BY <1>1, <1>3 DEF Sound, Settled, Guarded, HasSettler, Armed, Settling, Terminal
<1>6. Truthful(k)'
    BY <1>1, <1>3 DEF Sound, Truthful
<1> QED
    BY <1>3, <1>4, <1>5, <1>6, OneJob DEF Sound

-----------------------------------------------------------------------------
(* Abort, cleanup and cancellation.                                        *)

\* An aborted task is dropped; an armed guard spawns the cleanup.
LEMMA DropStep ==
    ASSUME IInv, NEW k \in Jobs, Drop(k), setting' = setting PROVE IInv'
<1>1. Sound(k) /\ Kind' = Kind /\ StoreFails' = StoreFails
    BY DEF IInv, Kind, StoreFails
<1>2. /\ Shape' /\ Others(k) /\ delete' = delete
      /\ k \in aborting /\ task[k] \notin Over /\ task'[k] = "dropped"
      /\ cleanup'[k] = (IF Armed(k) THEN "record" ELSE cleanup[k])
      /\ spawner'[k] = spawner[k] /\ blocking'[k] = blocking[k] /\ record'[k] = record[k]
      /\ seen'[k] = seen[k] /\ published' = published /\ cancel' = cancel
      /\ handles' = handles /\ aborting' = aborting
    BY DEF IInv, Drop, Move, Shape, Each, Others, Same, store, maps, bounds, Over
<1>3. spawner[k] \notin Before /\ Unspawned(k)'
    BY <1>1, <1>2 DEF Sound, Unspawned, Before, Over
<1>4. Guarded(k) => cleanup[k] = "none"
    BY <1>1, <1>2 DEF Sound, Settled, Over
<1>5. Settled(k)'
    BY <1>1, <1>2, <1>3, <1>4 DEF Sound, Settled, Guarded, HasSettler, Settling, Before
<1>6. Truthful(k)'
    BY <1>1, <1>2 DEF Sound, Truthful
<1> QED
    BY <1>2, <1>3, <1>5, <1>6, OneJob DEF Sound

\* The cleanup writes its tombstone before it empties the maps.
LEMMA CleanupSteps ==
    ASSUME IInv, NEW k \in Jobs, CleanupStep(k), setting' = setting PROVE IInv'
<1>1. Sound(k) /\ Kind' = Kind /\ StoreFails' = StoreFails
    BY DEF IInv, Kind, StoreFails
<1>2. PICK f : /\ record' = f
               /\ CleanupRecord(k) => /\ f \in {[record EXCEPT ![k] = "failed"], record}
                                       /\ ~StoreFails => f = [record EXCEPT ![k] = "failed"]
               /\ CleanupHandle(k) \/ CleanupToken(k) => f = record
    BY DEF CleanupRecord, CleanupHandle, CleanupToken, Written, store
<1>3. CleanupRecord(k) \/ CleanupHandle(k) \/ CleanupToken(k)
    BY DEF CleanupStep
<1>4. /\ Shape' /\ Others(k) /\ delete' = delete
      /\ cleanup[k] # "none" /\ cleanup'[k] \in {"handle", "token", "none"}
      /\ record'[k] \in {"failed", record[k]}
      /\ (cleanup[k] = "record" /\ ~StoreFails => record'[k] = "failed")
      /\ (cleanup[k] # "record" => cleanup[k] \in {"handle", "token"} /\ record'[k] = record[k])
      /\ spawner'[k] = spawner[k] /\ task'[k] = task[k] /\ blocking'[k] = blocking[k]
      /\ seen'[k] = seen[k] /\ published' = published /\ cancel' = cancel
      /\ (k \in handles' => k \in handles) /\ aborting' = aborting
    BY <1>2, <1>3 DEF IInv, CleanupRecord, CleanupHandle, CleanupToken, Shape, Each, Others, Same,
                      store, maps, work, bounds
<1>5. Unspawned(k)'
    BY <1>1, <1>4 DEF Sound, Unspawned, Before
<1>6. Settled(k)'
    BY <1>1, <1>4 DEF Sound, Settled, Guarded
<1>7. Truthful(k)'
    BY <1>1, <1>4 DEF Sound, Truthful
<1> QED
    BY <1>4, <1>5, <1>6, <1>7, OneJob DEF Sound

\* A cancel request goes on to r without the record; it aborts the task only
\* on its way to a tombstone.
Promised == {"mark", "put", "tombstone"}
Request(k, r) ==
    /\ cancel' = [cancel EXCEPT ![k] = r] /\ IsCancel(r)
    /\ cancel[k].at # "idle" \/ spawner[k] \in {"recorded", "registered", "spawned", "returned"}
    /\ cancel[k].at \in Promised => r.at \in Promised
    /\ handles' \subseteq handles
    /\ aborting' = aborting \/ (aborting' = aborting \cup (handles \cap {k}) /\ r.at = "mark")
       \/ (aborting' = aborting \cup (handles \cap {k}) /\ k \notin handles)
    /\ UNCHANGED <<record, published, spawner, task, blocking, seen, cleanup, delete>>

\* Such a step keeps the invariant.
LEMMA RequestMoves ==
    ASSUME IInv, NEW k \in Jobs, NEW r, Request(k, r), setting' = setting
    PROVE  IInv'
<1>1. Sound(k) /\ Kind' = Kind /\ StoreFails' = StoreFails
    BY DEF IInv, Kind, StoreFails
<1>2. cancel' = [cancel EXCEPT ![k] = r] /\ cancel'[k] = r /\ IsCancel(r)
    BY DEF IInv, Shape, Each, Request
<1>3. /\ Others(k) /\ delete' = delete
      /\ spawner' = spawner /\ task' = task /\ blocking' = blocking /\ record' = record
      /\ seen' = seen /\ published' = published /\ cleanup' = cleanup
    BY DEF IInv, Shape, Each, Request, Others, Same
<1>4. Each(cancel') /\ \A j \in Jobs : IsCancel(cancel'[j])
    BY <1>2 DEF IInv, Shape, Each
<1>5. Shape'
    BY <1>3, <1>4 DEF IInv, Shape, Each, IsCancel
<1>6. /\ k \in handles' => k \in handles
      /\ k \in aborting' <=> k \in aborting \/ (k \in aborting' /\ k \in handles /\ r.at = "mark")
    BY DEF Request
<1>7. Unspawned(k)'
    BY <1>1, <1>2, <1>3, <1>6 DEF Sound, Unspawned, Request
<1>8. Settled(k)'
  <2>1. Settling(k) => Settling(k)'
    BY <1>2, <1>3 DEF Settling, Request, Promised
  <2>2. k \in aborting' => k \in aborting \/ Settling(k)'
    BY <1>2, <1>6 DEF Settling
  <2>3. HasSettler(k) => HasSettler(k)'
    BY <1>1, <1>3, <2>1, <2>2 DEF HasSettler, Armed
  <2> QED
    BY <1>1, <1>3, <2>3 DEF Sound, Settled, Guarded
<1>9. Truthful(k)'
    BY <1>1, <1>3 DEF Sound, Truthful
<1> QED
    BY <1>3, <1>5, <1>7, <1>8, <1>9, OneJob DEF Sound

\* What an update of one field of a cancel request leaves.
LEMMA CancelFields ==
    ASSUME NEW c, IsCancel(c), NEW x
    PROVE  /\ [c EXCEPT !.at = x] = [at |-> x, cp |-> c.cp, ok |-> c.ok]
           /\ [c EXCEPT !.cp = x] = [at |-> c.at, cp |-> x, ok |-> c.ok]
           /\ [c EXCEPT !.ok = x] = [at |-> c.at, cp |-> c.cp, ok |-> x]
<1>1. PICK d : d = c
    OBVIOUS
<1>2. PICK a, p, o : d = [at |-> a, cp |-> p, ok |-> o]
    BY <1>1 DEF IsCancel
<1>3. /\ [d EXCEPT !.at = x] = [at |-> x, cp |-> p, ok |-> o]
      /\ [d EXCEPT !.cp = x] = [at |-> a, cp |-> x, ok |-> o]
      /\ [d EXCEPT !.ok = x] = [at |-> a, cp |-> p, ok |-> x]
    BY <1>2
<1> QED
    BY <1>1, <1>2, <1>3

\* The only field that changes.
LEMMA AtMoves ==
    ASSUME Shape, NEW k \in Jobs, NEW to, CancelAt(k, to)
    PROVE  \E r : cancel' = [cancel EXCEPT ![k] = r] /\ IsCancel(r) /\ r.at = to
<1> DEFINE f == cancel[k]
           r == [f EXCEPT !.at = to]
<1>1. IsCancel(f)
    BY DEF Shape
<1>2. cancel' = [cancel EXCEPT ![k] = r]
    BY DEF Shape, CancelAt
<1> HIDE DEF f
<1>3. r = [at |-> to, cp |-> f.cp, ok |-> f.ok]
    BY <1>1, CancelFields
<1> HIDE DEF r
<1>4. IsCancel(r) /\ r.at = to
    BY <1>3 DEF IsCancel
<1> QED
    BY <1>2, <1>4

\* The steps of a cancel request that leave the record alone.
LEMMA RequestSteps ==
    ASSUME IInv, NEW k \in Jobs, setting' = setting,
           \/ CancelToken(k) \/ CancelHandle(k) \/ CancelProbe(k) \/ MarkRead(k)
           \/ MarkPut(k) \/ StaleRead(k)
    PROVE  IInv'
<1> SUFFICES \E r : Request(k, r)
    BY RequestMoves
<1>0. Shape /\ IsCancel(cancel[k])
    BY DEF IInv, Shape
<1>1. CASE CancelToken(k)
  <2>1. PICK to : CancelAt(k, to)
    BY <1>1 DEF CancelToken
  <2>2. PICK r : cancel' = [cancel EXCEPT ![k] = r] /\ IsCancel(r)
    BY <1>0, <2>1, AtMoves
  <2>3. Request(k, r)
    BY <1>1, <2>2 DEF Request, CancelToken, Promised, store, work
  <2> QED
    BY <2>3
<1>2. CASE CancelHandle(k)
  <2>1. PICK r : cancel' = [cancel EXCEPT ![k] = r] /\ IsCancel(r) /\ r.at = "mark"
    BY <1>0, <1>2, AtMoves DEF CancelHandle
  <2>2. Request(k, r)
    BY <1>2, <2>1 DEF Request, CancelHandle, AbortHandle, Promised, store, work, bounds
  <2> QED
    BY <2>2
<1>3. CASE CancelProbe(k)
  <2>1. CASE k \in handles
    <3>1. CancelAt(k, "mark")
      BY <1>3, <2>1 DEF CancelProbe
    <3>2. PICK r : cancel' = [cancel EXCEPT ![k] = r] /\ IsCancel(r) /\ r.at = "mark"
      BY <1>0, <3>1, AtMoves
    <3>3. Request(k, r)
      BY <1>3, <3>2 DEF Request, CancelProbe, AbortHandle, Promised, store, work, bounds
    <3> QED
      BY <3>3
  <2>2. CASE k \notin handles
    <3>1. CancelAt(k, "markAbsent")
      BY <1>3, <2>2 DEF CancelProbe
    <3>2. PICK r : cancel' = [cancel EXCEPT ![k] = r] /\ IsCancel(r)
      BY <1>0, <3>1, AtMoves
    <3>3. Request(k, r)
      BY <1>3, <2>2, <3>2 DEF Request, CancelProbe, AbortHandle, Promised, store, work, bounds
    <3> QED
      BY <3>3
  <2> QED
    BY <2>1, <2>2
<1>4. CASE MarkRead(k)
  <2> DEFINE f == cancel[k]
             h == [f EXCEPT !.cp = checkpoint[k]]
             r == [h EXCEPT !.at = IF f.at = "mark" THEN "put" ELSE "putAbsent"]
  <2>1. cancel' = [cancel EXCEPT ![k] = r]
    BY <1>0, <1>4 DEF MarkRead, Shape
  <2>2. cancel[k].at \in {"mark", "markAbsent"} /\ handles' = handles /\ aborting' = aborting
        /\ UNCHANGED <<record, published, spawner, task, blocking, seen, cleanup, delete>>
    BY <1>4 DEF MarkRead, store, maps, work
  <2> HIDE DEF f
  <2>3. h = [at |-> f.at, cp |-> checkpoint[k], ok |-> f.ok] /\ IsCancel(h)
    BY <1>0, CancelFields DEF IsCancel, f
  <2> HIDE DEF h
  <2>4. IsCancel(r) /\ r.at = IF f.at = "mark" THEN "put" ELSE "putAbsent"
    BY <2>3, CancelFields DEF IsCancel
  <2> HIDE DEF r
  <2>5. Request(k, r)
    BY <2>1, <2>2, <2>4 DEF Request, Promised, f
  <2> QED
    BY <2>5
<1>5. CASE MarkPut(k)
  <2>1. PICK b : cancel' = [cancel EXCEPT ![k].ok = b,
                          ![k].at = IF @ = "put" THEN "tombstone" ELSE "stale"]
    BY <1>5 DEF MarkPut
  <2> DEFINE f == cancel[k]
             h == [f EXCEPT !.ok = b]
             r == [h EXCEPT !.at = IF f.at = "put" THEN "tombstone" ELSE "stale"]
  <2>2. cancel' = [cancel EXCEPT ![k] = r]
    BY <1>0, <2>1 DEF Shape
  <2>3. cancel[k].at \in {"put", "putAbsent"} /\ handles' = handles /\ aborting' = aborting
        /\ UNCHANGED <<record, published, spawner, task, blocking, seen, cleanup, delete>>
    BY <1>5 DEF MarkPut, maps, work
  <2> HIDE DEF f
  <2>4. h = [at |-> f.at, cp |-> f.cp, ok |-> b] /\ IsCancel(h)
    BY <1>0, CancelFields DEF IsCancel, f
  <2> HIDE DEF h
  <2>5. IsCancel(r) /\ r.at = IF f.at = "put" THEN "tombstone" ELSE "stale"
    BY <2>4, CancelFields DEF IsCancel
  <2> HIDE DEF r
  <2>6. Request(k, r)
    BY <2>2, <2>3, <2>5 DEF Request, Promised, f
  <2> QED
    BY <2>6
<1>6. CASE StaleRead(k)
  <2>1. PICK r : cancel' = [cancel EXCEPT ![k] = r] /\ IsCancel(r)
    <3>1. CASE record[k] = "running"
      BY <1>0, <1>6, <3>1, AtMoves DEF StaleRead
    <3>2. CASE record[k] # "running"
      <4>1. cancel' = [cancel EXCEPT ![k] = NoCancel] /\ IsCancel(NoCancel)
        BY <1>6, <3>2 DEF StaleRead, NoCancel, IsCancel
      <4> QED
        BY <4>1
    <3> QED
      BY <3>1, <3>2
  <2>2. Request(k, r)
    BY <1>6, <2>1 DEF Request, StaleRead, Promised, store, maps, work, bounds
  <2> QED
    BY <2>2
<1> QED
    BY <1>1, <1>2, <1>3, <1>4, <1>5, <1>6

\* A cancel request ends with the record it promised.
LEMMA TombstoneSteps ==
    ASSUME IInv, NEW k \in Jobs, Tombstone(k) \/ StalePut(k), setting' = setting PROVE IInv'
<1>1. Sound(k) /\ Kind' = Kind /\ StoreFails' = StoreFails
    BY DEF IInv, Kind, StoreFails
<1>2. PICK f : /\ record' = f /\ f \in {[record EXCEPT ![k] = "cancelled"], record}
               /\ ~StoreFails => f = [record EXCEPT ![k] = "cancelled"]
    BY DEF Tombstone, StalePut, Written
<1>3. /\ Shape' /\ Others(k) /\ delete' = delete
      /\ cancel[k].at \in {"tombstone", "stalePut"} /\ cancel'[k].at = "idle"
      /\ record'[k] \in {"cancelled", record[k]}
      /\ (~StoreFails => record'[k] = "cancelled")
      /\ spawner' = spawner /\ task' = task /\ blocking' = blocking /\ cleanup' = cleanup
      /\ seen' = seen /\ published' = published /\ handles' = handles /\ aborting' = aborting
  <2>1. cancel' = [cancel EXCEPT ![k] = NoCancel]
    BY DEF Tombstone, StalePut
  <2>2. /\ cancel[k].at \in {"tombstone", "stalePut"} /\ delete' = delete
        /\ spawner' = spawner /\ task' = task /\ blocking' = blocking /\ cleanup' = cleanup
        /\ seen' = seen /\ published' = published /\ handles' = handles /\ aborting' = aborting
    BY DEF Tombstone, StalePut, maps, work
  <2>3. /\ cancel'[k].at = "idle" /\ Each(cancel') /\ \A j \in Jobs : IsCancel(cancel'[j])
        /\ \A j \in Jobs \ {k} : cancel'[j] = cancel[j]
    BY <2>1 DEF IInv, Shape, Each, IsCancel, NoCancel
  <2>4. /\ Each(record') /\ record'[k] \in {"cancelled", record[k]}
        /\ (~StoreFails => record'[k] = "cancelled")
        /\ \A j \in Jobs \ {k} : record'[j] = record[j]
    BY <1>2 DEF IInv, Shape, Each
  <2>5. Shape'
    BY <2>2, <2>3, <2>4 DEF IInv, Shape, Each, IsCancel
  <2>6. Others(k)
    BY <2>2, <2>3, <2>4 DEF Others, Same
  <2> QED
    BY <2>2, <2>3, <2>4, <2>5, <2>6
<1>4. Unspawned(k)'
    BY <1>1, <1>3 DEF Sound, Unspawned, Before
<1>5. Settled(k)'
    BY <1>1, <1>3 DEF Sound, Settled, Guarded
<1>6. Truthful(k)'
    BY <1>1, <1>3 DEF Sound, Truthful
<1> QED
    BY <1>3, <1>4, <1>5, <1>6, OneJob DEF Sound

-----------------------------------------------------------------------------
(* The deletion of the project, and a restart.                             *)

\* The deletion aborts the tasks it found running, and destroys their records
\* afterwards.
LEMMA DeleteSteps ==
    ASSUME IInv, DeleteList \/ DeleteStep, setting' = setting PROVE IInv'
<1>1. Kind' = Kind /\ StoreFails' = StoreFails
    BY DEF Kind, StoreFails
<1> DEFINE Rest == /\ spawner' = spawner /\ task' = task /\ blocking' = blocking
                   /\ seen' = seen /\ published' = published /\ cleanup' = cleanup
                   /\ cancel' = cancel
           Removed == record' = record \/ record' = [j \in Jobs |-> "none"]
           Aborts == /\ handles' \subseteq handles /\ aborting \subseteq aborting'
                     /\ \A j \in Jobs :
                           /\ (j \in aborting' /\ j \notin aborting
                                  => j \in handles /\ Settling(j)')
                           /\ (Settling(j) => Settling(j)' \/ record'[j] = "none")
<1>2. Rest /\ Removed /\ Aborts /\ delete' = [at |-> delete'.at, jobs |-> delete'.jobs]
  <2>1. CASE DeleteList
    BY <2>1 DEF IInv, DeleteList, Shape, Settling, store, maps, work
  <2>2. CASE DeleteSignal
    BY <2>2 DEF IInv, DeleteSignal, Shape, Settling, store, work, bounds
  <2>3. CASE DeleteAbort
    BY <2>3 DEF IInv, DeleteAbort, AbortHandle, Shape, Settling, store, work, bounds
  <2>4. CASE DeleteTokens
    BY <2>4 DEF IInv, DeleteTokens, Shape, Settling, store, work, bounds
  <2>5. CASE DeleteDestroy
    BY <2>5 DEF IInv, DeleteDestroy, Shape, Settling, maps, work, bounds
  <2> QED
    BY <2>1, <2>2, <2>3, <2>4, <2>5 DEF DeleteStep
<1>3. Shape'
    BY <1>2 DEF IInv, Shape, Each
<1>4. ASSUME NEW j \in Jobs PROVE Sound(j)'
  <2>1. Sound(j) /\ record'[j] \in {record[j], "none"}
    BY <1>2 DEF IInv
  <2>5. /\ j \in handles' => j \in handles
        /\ j \in aborting' => j \in aborting \/ (j \in handles /\ Settling(j)')
        /\ Settling(j) => Settling(j)' \/ record'[j] = "none"
    BY <1>2
  <2>2. Unspawned(j)'
    BY <1>2, <2>1, <2>5 DEF Sound, Unspawned
  <2>3. Settled(j)'
    <3>1. HasSettler(j) => HasSettler(j)' \/ record'[j] = "none"
      BY <1>1, <1>2, <2>5 DEF HasSettler, Armed
    <3> QED
      BY <1>1, <1>2, <2>1, <3>1 DEF Sound, Settled, Guarded
  <2>4. Truthful(j)'
    BY <1>1, <1>2, <2>1 DEF Sound, Truthful
  <2> QED
    BY <2>2, <2>3, <2>4 DEF Sound
<1> QED
    BY <1>3, <1>4 DEF IInv

\* After a restart no record says that a job runs.
LEMMA RestartStep ==
    ASSUME IInv, Restart, setting' = setting PROVE IInv'
<1>1. Kind' = Kind /\ published' = published
    BY DEF Kind, Restart
<1>2. Shape'
    BY DEF IInv, Restart, Shape, Each, IsCancel, NoCancel, NoDelete
<1>3. ASSUME NEW j \in Jobs PROVE Sound(j)'
  <2>1. /\ record'[j] = Aborted(record[j]) /\ handles' = {} /\ aborting' = {}
        /\ spawner'[j] = (IF spawner[j] = "idle" THEN "idle" ELSE "returned")
        /\ task'[j] = "none" /\ blocking'[j] = "none" /\ seen'[j] = "none"
        /\ cleanup'[j] = "none" /\ cancel'[j].at = "idle"
    BY DEF Restart, NoCancel
  <2>2. Sound(j)
    BY DEF IInv
  <2>3. Unspawned(j)'
    BY <2>1, <2>2 DEF Sound, Unspawned, Aborted
  <2>4. Settled(j)'
    BY <2>1 DEF Settled, Aborted
  <2>5. Truthful(j)'
    BY <1>1, <2>1, <2>2 DEF Sound, Truthful, Aborted
  <2> QED
    BY <2>3, <2>4, <2>5 DEF Sound
<1> QED
    BY <1>2, <1>3 DEF IInv

-----------------------------------------------------------------------------
(* The theorem.                                                            *)

\* No job has begun.
LEMMA InitIInv == Init => IInv
<1> SUFFICES ASSUME Init PROVE IInv
    OBVIOUS
<1>1. Shape
    BY DEF Init, Shape, Each, IsCancel, NoCancel, NoDelete
<1>2. ASSUME NEW j \in Jobs PROVE Sound(j)
    BY DEF Init, NoCancel, Sound, Unspawned, Settled, Truthful
<1> QED
    BY <1>1, <1>2 DEF IInv

\* Every step keeps the invariant.
LEMMA NextIInv == IInv /\ [Next /\ UNCHANGED setting]_<<vars, setting>> => IInv'
<1> SUFFICES ASSUME IInv, [Next /\ UNCHANGED setting]_<<vars, setting>> PROVE IInv'
    OBVIOUS
<1>1. setting' = setting
    OBVIOUS
<1>2. ASSUME NEW k \in Jobs,
             SpawnStep(k) \/ TaskStep(k) \/ RunBlocking(k) \/ Drop(k) \/ CleanupStep(k)
                \/ CancelToken(k) \/ CancelStep(k)
      PROVE  IInv'
  <2>1. CASE SpawnStep(k)
    BY <1>1, <2>1, SpawnSteps
  <2>2. CASE TaskStep(k)
    BY <1>1, <2>2, WorkSteps, ProgressWriteStep, EndSteps DEF TaskStep
  <2>3. CASE RunBlocking(k)
    BY <1>1, <2>3, BlockingStep
  <2>4. CASE Drop(k)
    BY <1>1, <2>4, DropStep
  <2>5. CASE CleanupStep(k)
    BY <1>1, <2>5, CleanupSteps
  <2>6. CASE CancelToken(k) \/ CancelStep(k)
    BY <1>1, <2>6, RequestSteps, TombstoneSteps DEF CancelStep
  <2> QED
    BY <1>2, <2>1, <2>2, <2>3, <2>4, <2>5, <2>6
<1>3. CASE DeleteList \/ DeleteStep
    BY <1>1, <1>3, DeleteSteps
<1>4. CASE Restart
    BY <1>1, <1>4, RestartStep
<1>5. CASE UNCHANGED <<vars, setting>>
  <2>1. Shape' /\ delete' = delete /\ \A j \in Jobs : Same(j)
    BY <1>5 DEF IInv, vars, store, maps, work, bounds, Shape, Each, IsCancel, Same
  <2> QED
    BY <1>1, <2>1, SameSound DEF IInv
<1> QED
    BY <1>2, <1>3, <1>4, <1>5 DEF Next

\* project_tools.rs, job_service.rs: whatever is cancelled, aborted, deleted or
\* lost in a crash, a running record of an index or update job has someone who
\* will settle it, and a done one of an index job a published generation.
THEOREM Truth == Spec => []RecordsAreTrue
<1>1. IInv => RecordsAreTrue
  <2> SUFFICES ASSUME IInv, NEW j \in Jobs PROVE
        /\ record[j] = "running" /\ Guarded(j)
              => \/ ~Quiet(j)
                 \/ delete.at \in {"signal", "abort", "unlist", "destroy"} /\ j \in delete.jobs
        /\ record[j] = "done" /\ Kind[j] = "index" => published[j]
    BY DEF RecordsAreTrue
  <2>1. Sound(j)
    BY DEF IInv
  <2>2. ASSUME record[j] = "running", Guarded(j), Quiet(j)
        PROVE  delete.at \in {"unlist", "destroy"} /\ j \in delete.jobs
    <3>1. HasSettler(j)
      BY <2>1, <2>2 DEF Sound, Settled
    <3>2. /\ spawner[j] \notin {"recorded", "registered"} /\ task[j] \notin Live
          /\ blocking[j] \notin Terminal /\ cleanup[j] # "record"
          /\ cancel[j].at = "idle"
      BY <2>2 DEF Quiet, Over, Live, Terminal, NoCancel
    <3> QED
      BY <3>1, <3>2 DEF HasSettler, Settling
  <2>3. record[j] = "done" /\ Kind[j] = "index" => published[j]
    BY <2>1 DEF Sound, Truthful
  <2> QED
    BY <2>2, <2>3
<1> QED
    BY <1>1, InitIInv, NextIInv, PTL DEF Spec

-----------------------------------------------------------------------------
(* The refresh of the history documents: a batch stopped at any step       *)
(* leaves the cursor before everything that is still superseded, and no    *)
(* commit without a document.                                              *)

\* Every set of naturals has a least element.
LEMMA LeastNatural ==
    ASSUME NEW S, S \subseteq Nat, S # {}
    PROVE  \E x \in S : \A y \in S : x <= y
  <1> DEFINE Less == {p \in Nat \X Nat : p[1] < p[2]}
  <1>1. IsWellFoundedOn(Less, Nat) BY NatLessThanWellFounded DEF OpToRel
  <1> HIDE DEF Less
  <1>2. PICK x \in S : \A y \in S : ~(<<y, x>> \in Less) BY <1>1, WFMin
  <1>3. \A y \in S : ~(y < x) BY <1>2 DEF Less
  <1> QED BY <1>3

\* So Min is what it says.
LEMMA MinIsLeast ==
    ASSUME NEW S, S \subseteq Nat, S # {}
    PROVE  Min(S) \in S /\ \A y \in S : Min(S) <= y
  BY LeastNatural DEF Min

\* The first commits come before the others.
LEMMA FirstAreBefore ==
    ASSUME NEW S, S \subseteq Oids, NEW k \in Nat, NEW t \in First(S, k), NEW d \in S, d \notin First(S, k)
    PROVE  t < d
  <1> DEFINE under(c) == {x \in S : x < c}
  <1>1. t \in S /\ t \in Nat /\ d \in Nat /\ t # d BY RefreshAssumption DEF First, Oids
  <1>2. SUFFICES ASSUME d < t PROVE FALSE BY <1>1
  <1>3. IsFiniteSet(S)
    <2>1. 1 \in Int /\ NumOids \in Int BY RefreshAssumption
    <2>2. IsFiniteSet(Oids) BY <2>1, FS_Interval DEF Oids
    <2> QED BY <2>2, FS_Subset
  <1>4. S \subseteq Nat BY RefreshAssumption DEF Oids
  <1>5. under(d) \subseteq under(t)
    <2>1. \A x \in S : x \in Nat BY <1>4
    <2>2. \A x \in S : x < d => x < t BY <1>1, <1>2, <2>1
    <2> QED BY <2>2
  <1>6. IsFiniteSet(under(t)) /\ IsFiniteSet(under(d)) BY <1>3, FS_Subset
  <1>7. Cardinality(under(d)) <= Cardinality(under(t)) BY <1>5, <1>6, FS_Subset
  <1>8. Cardinality(under(t)) < k /\ ~(Cardinality(under(d)) < k) BY DEF First
  <1>9. Cardinality(under(t)) \in Nat /\ Cardinality(under(d)) \in Nat BY <1>6, FS_CardinalityType
  <1> QED BY <1>7, <1>8, <1>9

\* A batch of a non-empty rest is not empty.
LEMMA FirstAreSome ==
    ASSUME NEW S, S \subseteq Oids, S # {}, NEW k \in Nat \ {0}
    PROVE  First(S, k) # {}
  <1>1. S \subseteq Nat BY RefreshAssumption DEF Oids
  <1>2. PICK m \in S : \A y \in S : m <= y BY <1>1, LeastNatural
  <1>5. \A x \in S : x \in Nat /\ m \in Nat /\ m <= x BY <1>1, <1>2
  <1>6. \A x \in S : ~(x < m) BY <1>5
  <1>3. {x \in S : x < m} = {} BY <1>6
  <1>4. Cardinality({x \in S : x < m}) = 0 BY <1>3, FS_EmptySet
  <1> QED BY <1>2, <1>4 DEF First

RefreshTypes ==
    /\ rows \in [Oids -> SUBSET {"old", "new"}]
    /\ cursor \in Nat /\ at \in Nat
    /\ pc \in {"idle", "check", "write", "delete", "cursor", "end"}
    /\ todo \subseteq Oids /\ pending \subseteq Oids /\ unwritten \subseteq pending
    /\ pc = "idle" => at = 0 /\ todo = {} /\ pending = {} /\ unwritten = {}

Superseded == {c \in Oids : "old" \in rows[c]}
Running == pc \in {"check", "write", "delete", "cursor"}

\* What the cursor has passed, and what this refresh has checked.
Passed ==
    /\ \A c \in Superseded : cursor < c
    /\ Running => \A c \in Superseded : c <= at => c \in pending
    /\ pc = "cursor" => \A c \in Superseded : at < c

\* What lies ahead: superseded text outside the batch comes after all of it.
Ahead ==
    /\ Running => \A t \in todo : /\ at < t
                                  /\ \A d \in Superseded \ todo : at < d => t < d
    /\ pc = "check" => todo # {}

\* What may be deleted has been replaced.
Replaced ==
    /\ pc \in {"write", "delete"} => \A c \in pending \ unwritten : "new" \in rows[c]
    /\ pc \in {"delete", "cursor"} => unwritten = {}

RefreshInv == RefreshTypes /\ Passed /\ Ahead /\ Replaced

\* Each step keeps the invariant and what is stored of every commit.
Refreshed == RefreshInv' /\ \A c \in Oids : rows[c] # {} => rows'[c] # {}

\* A step that only adds new text supersedes nothing.
LEMMA AddingRows ==
    ASSUME RefreshTypes, NEW S, rows' = [c \in Oids |-> IF c \in S THEN rows[c] \cup {"new"} ELSE rows[c]]
    PROVE  /\ rows' \in [Oids -> SUBSET {"old", "new"}] /\ Superseded' = Superseded
           /\ \A c \in Oids : rows[c] \subseteq rows'[c] /\ (c \in S => "new" \in rows'[c])
  BY DEF RefreshTypes, Superseded

\* A refresh takes its snapshot: all superseded text is past the cursor.
LEMMA BeginRefreshed ==
    ASSUME RefreshInv, NEW cap \in Limits, NEW force \in BOOLEAN, BeginRefresh(cap, force)
    PROVE  Refreshed
  <1> DEFINE left == {c \in Stored : force \/ c > cursor}
  <1>1. /\ pc = "idle" /\ todo' = First(left, cap) /\ pc' = IF left = {} THEN "end" ELSE "check"
        /\ UNCHANGED <<rows, cursor, pending, unwritten, at>>
    BY DEF BeginRefresh
  <1>2. at = 0 /\ pending = {} /\ unwritten = {} BY <1>1 DEF RefreshInv, RefreshTypes
  <1>3. left \subseteq Oids /\ cap \in Nat \ {0} BY RefreshAssumption DEF Stored
  <1>4. \A c \in Superseded : c \in left /\ 0 < c
    BY RefreshAssumption DEF RefreshInv, RefreshTypes, Passed, Superseded, Stored, Oids
  <1> HIDE DEF left
  <1>5. todo' \subseteq left BY <1>1 DEF First
  <1>6. Superseded' = Superseded BY <1>1 DEF Superseded
  <1>7. RefreshTypes' BY <1>1, <1>2, <1>3, <1>5 DEF RefreshInv, RefreshTypes
  <1>8. Passed'
    <2>1. \A c \in Superseded : ~(c <= 0) BY <1>4, RefreshAssumption DEF Superseded, Oids
    <2> QED BY <1>1, <1>2, <1>6, <2>1 DEF RefreshInv, Passed, Running
  <1>9. Ahead'
    <2>1. \A t \in todo' : 0 < t BY <1>3, <1>5, RefreshAssumption DEF Oids
    <2>2. ASSUME NEW t \in todo', NEW d \in Superseded \ todo' PROVE t < d
      BY <1>1, <1>3, <1>4, FirstAreBefore
    <2>3. pc' = "check" => todo' # {} BY <1>1, <1>3, FirstAreSome
    <2> QED BY <1>1, <1>2, <1>6, <2>1, <2>2, <2>3 DEF Ahead
  <1>10. Replaced' BY <1>1 DEF Replaced
  <1> QED BY <1>1, <1>7, <1>8, <1>9, <1>10 DEF Refreshed, RefreshInv

\* The next commit is checked.
LEMMA CheckRefreshed ==
    ASSUME RefreshInv, Check
    PROVE  Refreshed
  <1> DEFINE c == Min(todo)
             changed == pending \cup (IF "old" \in rows[c] THEN {c} ELSE {})
             flush == Cardinality(changed) >= FlushAt \/ todo = {c}
  <1>1. /\ pc = "check" /\ todo' = todo \ {c} /\ at' = c /\ pending' = changed
        /\ unwritten' = IF flush THEN changed ELSE {}
        /\ pc' = IF ~flush THEN "check" ELSE IF changed = {} THEN "cursor" ELSE "write"
        /\ UNCHANGED <<rows, cursor, more>>
    BY DEF Check
  <1>2. todo \subseteq Oids /\ todo # {} /\ todo \subseteq Nat
    BY <1>1, RefreshAssumption DEF RefreshInv, RefreshTypes, Ahead, Oids
  <1>3. c \in todo /\ \A t \in todo : c <= t BY <1>2, MinIsLeast
  <1>4. todo # {c} => todo \ {c} # {} BY <1>3
  <1> HIDE DEF c
  <1>5. Superseded' = Superseded BY <1>1 DEF Superseded
  <1>6. c \in Superseded => c \in changed BY DEF Superseded
  <1>7. pending \subseteq changed /\ changed \subseteq Oids BY <1>2, <1>3 DEF RefreshInv, RefreshTypes
  <1> HIDE DEF changed
  <1>8. RefreshTypes' BY <1>1, <1>2, <1>3, <1>7 DEF RefreshInv, RefreshTypes
  <1>9. at < c /\ at \in Nat /\ c \in Nat BY <1>1, <1>2, <1>3 DEF RefreshInv, RefreshTypes, Ahead, Running
  <1>10. \A d \in Superseded : d <= c => d \in changed
    <2>1. SUFFICES ASSUME NEW d \in Superseded, d <= c, d # c PROVE d \in changed BY <1>6
    <2>2. d \in Nat BY RefreshAssumption DEF Superseded, Oids
    <2>3. d \notin todo BY <1>2, <1>3, <1>9, <2>1, <2>2
    <2>4. ~(at < d) BY <1>1, <1>3, <1>9, <2>1, <2>2, <2>3 DEF RefreshInv, Ahead, Running
    <2>5. d \in pending BY <1>1, <1>9, <2>2, <2>4 DEF RefreshInv, Passed, Running
    <2> QED BY <1>7, <2>5
  <1>11. \A d \in Superseded : d \in Nat BY RefreshAssumption DEF Superseded, Oids
  <1>12. Passed' BY <1>1, <1>5, <1>9, <1>10, <1>11 DEF RefreshInv, Passed, Running
  <1>13. Ahead'
    <2>1. \A t \in todo' : c < t /\ t \in todo BY <1>1, <1>2, <1>3, <1>9
    <2>2. ASSUME NEW t \in todo', NEW d \in Superseded \ todo', c < d PROVE t < d
      <3>1. d \notin todo /\ at < d BY <1>1, <1>9, <1>11, <2>2
      <3> QED BY <1>1, <2>1, <3>1 DEF RefreshInv, Ahead, Running
    <2>3. pc' = "check" => todo' # {} BY <1>1, <1>4
    <2> QED BY <1>1, <1>5, <2>1, <2>2, <2>3 DEF Ahead
  <1>14. Replaced' BY <1>1 DEF Replaced
  <1> QED BY <1>1, <1>8, <1>12, <1>13, <1>14 DEF Refreshed, RefreshInv

\* A chunk of the replacement is written.
LEMMA WriteRefreshed ==
    ASSUME RefreshInv, Write
    PROVE  Refreshed
  <1> DEFINE chunk == First(unwritten, ChunkOf)
  <1>1. /\ pc = "write"
        /\ rows' = [c \in Oids |-> IF c \in chunk THEN rows[c] \cup {"new"} ELSE rows[c]]
        /\ unwritten' = unwritten \ chunk
        /\ pc' = IF unwritten' = {} THEN "delete" ELSE "write"
        /\ UNCHANGED <<cursor, todo, more, pending, at>>
    BY DEF Write
  <1> HIDE DEF chunk
  <1>2. /\ rows' \in [Oids -> SUBSET {"old", "new"}] /\ Superseded' = Superseded
        /\ \A c \in Oids : rows[c] \subseteq rows'[c] /\ (c \in chunk => "new" \in rows'[c])
    BY <1>1, AddingRows DEF RefreshInv
  <1>3. RefreshTypes' BY <1>1, <1>2 DEF RefreshInv, RefreshTypes
  <1>4. Passed' /\ Ahead' BY <1>1, <1>2 DEF RefreshInv, Passed, Ahead, Running
  <1>5. Replaced' BY <1>1, <1>2 DEF RefreshInv, RefreshTypes, Replaced
  <1>6. \A c \in Oids : rows[c] # {} => rows'[c] # {} BY <1>2
  <1> QED BY <1>3, <1>4, <1>5, <1>6 DEF Refreshed, RefreshInv

\* The superseded text of the batch goes: all of it has been replaced.
LEMMA DeleteRefreshed ==
    ASSUME RefreshInv, Delete
    PROVE  Refreshed
  <1>1. /\ pc = "delete" /\ pc' = "cursor"
        /\ rows' = [c \in Oids |-> IF c \in pending THEN rows[c] \ {"old"} ELSE rows[c]]
        /\ UNCHANGED <<cursor, todo, more, pending, unwritten, at>>
    BY DEF Delete, batch
  <1>2. Superseded' = Superseded \ pending BY <1>1 DEF Superseded
  <1>3. \A c \in pending : "new" \in rows[c] BY <1>1 DEF RefreshInv, Replaced
  <1>4. RefreshTypes' BY <1>1 DEF RefreshInv, RefreshTypes
  <1>5. \A c \in Superseded : c \in Nat /\ at \in Nat
    BY RefreshAssumption DEF Superseded, Oids, RefreshInv, RefreshTypes
  <1>6. Passed' BY <1>1, <1>2, <1>5 DEF RefreshInv, Passed, Running
  <1>7. Ahead' BY <1>1, <1>2 DEF RefreshInv, Ahead, Running
  <1>8. Replaced' BY <1>1 DEF RefreshInv, Replaced
  <1>9. \A c \in Oids : rows[c] # {} => rows'[c] # {} BY <1>1, <1>3
  <1> QED BY <1>4, <1>6, <1>7, <1>8, <1>9 DEF Refreshed, RefreshInv

\* The cursor moves to what was checked.
LEMMA CursorRefreshed ==
    ASSUME RefreshInv, SaveCursor
    PROVE  Refreshed
  <1>1. /\ pc = "cursor" /\ cursor' = at /\ pending' = {}
        /\ pc' = IF todo = {} THEN "end" ELSE "check"
        /\ UNCHANGED <<rows, todo, more, unwritten, at>>
    BY DEF SaveCursor
  <1>2. Superseded' = Superseded BY <1>1 DEF Superseded
  <1>3. RefreshTypes' BY <1>1 DEF RefreshInv, RefreshTypes, Replaced
  <1>4. \A c \in Superseded : c \in Nat /\ at \in Nat /\ at < c
    BY <1>1, RefreshAssumption DEF Superseded, Oids, RefreshInv, RefreshTypes, Passed
  <1>5. Passed' BY <1>1, <1>2, <1>4 DEF RefreshInv, Passed, Running
  <1>6. Ahead' BY <1>1, <1>2 DEF RefreshInv, Ahead, Running
  <1>7. Replaced' BY <1>1 DEF RefreshInv, Replaced
  <1> QED BY <1>1, <1>3, <1>5, <1>6, <1>7 DEF Refreshed, RefreshInv

\* A refresh ends, at any of its steps, keeping what it has written.
LEMMA EndRefreshed ==
    ASSUME RefreshInv, NEW S, rows' = [c \in Oids |-> IF c \in S THEN rows[c] \cup {"new"} ELSE rows[c]],
           Idle, cursor' \in {0, cursor}
    PROVE  Refreshed
  <1>1. /\ rows' \in [Oids -> SUBSET {"old", "new"}] /\ Superseded' = Superseded
        /\ \A c \in Oids : rows[c] \subseteq rows'[c]
    BY AddingRows DEF RefreshInv
  <1>2. RefreshTypes' BY <1>1 DEF RefreshInv, RefreshTypes, Idle
  <1>3. \A c \in Superseded : cursor < c /\ 0 < c
    BY RefreshAssumption DEF RefreshInv, Passed, Superseded, Oids
  <1>4. Passed' /\ Ahead' /\ Replaced' BY <1>1, <1>3 DEF Idle, Passed, Ahead, Replaced, Running
  <1> QED BY <1>1, <1>2, <1>4 DEF Refreshed, RefreshInv

\* Every step keeps the invariant and the evidence.
LEMMA StepRefreshed == RefreshInv /\ [RefreshNext]_refreshVars => Refreshed
  <1>1. SUFFICES ASSUME RefreshInv, [RefreshNext]_refreshVars PROVE Refreshed OBVIOUS
  <1>2. rows = [c \in Oids |-> rows[c]] BY <1>1 DEF RefreshInv, RefreshTypes
  <1>3. CASE Finish
    <2> DEFINE none == {}
    <2>1. rows' = [c \in Oids |-> IF c \in none THEN rows[c] \cup {"new"} ELSE rows[c]]
      BY <1>2, <1>3 DEF Finish
    <2> HIDE DEF none
    <2>2. Idle /\ cursor' \in {0, cursor} BY <1>3 DEF Finish
    <2> QED BY <1>1, <2>1, <2>2, EndRefreshed
  <1>4. CASE Stop
    <2>1. PICK part : rows' = [c \in Oids |-> IF c \in part THEN rows[c] \cup {"new"} ELSE rows[c]]
      BY <1>4 DEF Stop
    <2>2. Idle /\ cursor' \in {0, cursor} BY <1>4 DEF Stop
    <2> QED BY <1>1, <2>1, <2>2, EndRefreshed
  <1>5. ASSUME NEW x \in Oids, Ingest(x) PROVE Refreshed
    <2>1. rows' = [c \in Oids |-> IF c \in {x} THEN rows[c] \cup {"new"} ELSE rows[c]]
      BY <1>1, <1>5 DEF Ingest, RefreshInv, RefreshTypes
    <2>2. /\ rows' \in [Oids -> SUBSET {"old", "new"}] /\ Superseded' = Superseded
          /\ \A c \in Oids : rows[c] \subseteq rows'[c]
      BY <1>1, <2>1, AddingRows DEF RefreshInv
    <2>3. pc = "idle" /\ UNCHANGED <<cursor, pc, todo, pending, unwritten, at>> BY <1>5 DEF Ingest, batch
    <2>4. RefreshInv'
      BY <1>1, <2>2, <2>3 DEF RefreshInv, RefreshTypes, Passed, Ahead, Replaced, Running
    <2> QED BY <2>2, <2>4 DEF Refreshed
  <1>6. CASE UNCHANGED refreshVars
    <2>1. UNCHANGED <<rows, cursor, pc, todo, pending, unwritten, at>> BY <1>6 DEF refreshVars
    <2>2. Superseded' = Superseded BY <2>1 DEF Superseded
    <2>3. RefreshInv'
      BY <1>1, <2>1, <2>2 DEF RefreshInv, RefreshTypes, Passed, Ahead, Replaced, Running
    <2> QED BY <2>1, <2>3 DEF Refreshed
  <1> QED BY <1>1, <1>3, <1>4, <1>5, <1>6, BeginRefreshed, CheckRefreshed, WriteRefreshed,
             DeleteRefreshed, CursorRefreshed DEF RefreshNext, RefreshStep

\* The first state: nothing is passed.
LEMMA InitRefreshed == RefreshInit => RefreshInv
  <1>1. SUFFICES ASSUME RefreshInit PROVE RefreshInv OBVIOUS
  <1>2. \A c \in Oids : 0 < c BY RefreshAssumption DEF Oids
  <1>3. RefreshTypes BY <1>1 DEF RefreshInit, RefreshTypes
  <1>4. Passed /\ Ahead /\ Replaced
    BY <1>1, <1>2 DEF RefreshInit, Passed, Ahead, Replaced, Running, Superseded
  <1> QED BY <1>3, <1>4 DEF RefreshInv

\* However often a refresh is cut short, repeated or forced, with whatever
\* limits and batches, for any number of commits: the cursor passes no commit
\* with superseded text, and no step takes the last document of a commit.
THEOREM RefreshKeepsEvidence == RefreshSpec => RefreshIsSafe
  <1>1. RefreshInv /\ [RefreshNext]_refreshVars => RefreshInv' BY StepRefreshed DEF Refreshed
  <1>2. RefreshInv /\ [RefreshNext]_refreshVars => [KeepsEvidence]_refreshVars
    <2>1. SUFFICES ASSUME RefreshInv, [RefreshNext]_refreshVars PROVE KeepsEvidence OBVIOUS
    <2>2. Refreshed BY <2>1, StepRefreshed
    <2>3. \A c \in Superseded' : cursor' < c /\ cursor' \in Nat /\ c \in Nat
      BY <2>2, RefreshAssumption DEF Refreshed, RefreshInv, RefreshTypes, Passed, Superseded, Oids
    <2>4. \A c \in Oids : c <= cursor' => "old" \notin rows'[c]
      BY <2>3, RefreshAssumption DEF Superseded, Oids
    <2> QED BY <2>2, <2>4 DEF Refreshed, KeepsEvidence
  <1> QED BY <1>1, <1>2, InitRefreshed, PTL DEF RefreshSpec, RefreshIsSafe

-----------------------------------------------------------------------------
(* The history walks.                                                      *)

\* What the theorem is about: runs that may be cancelled but are not aborted,
\* and that may fail or crash, first walks only or, if none is forced, any.
\* With failures of first walks alone every commit is counted once.
Exact == Faults \in {"never", "scratch"} /\ Cancels = "never"
Undisturbed ==
    /\ Cancels # "abort" /\ Faults # "any"
    /\ Exact \/ situation.forces = {FALSE}

Marked == Commits \cup {None}
RunRecord ==
    [pc : {"idle", "clear", "walk", "process", "send", "join", "last", "oldest", "complete"},
     mode : {"forward", "both", "backfill"}, force : BOOLEAN,
     stop : Marked, start : Marked, was : BOOLEAN,
     cancelled : BOOLEAN, detached : {FALSE},
     leg : {"forward", "backfill", "closing"}, walk : SUBSET Commits,
     cap : Nat, count : Nat, ran : BOOLEAN, got : Nat,
     newest : Marked, first : Marked, deepest : Marked, root : BOOLEAN,
     acc : [Commits -> Nat], since : Nat, buf : SUBSET Commits, failed : BOOLEAN,
     exhausted : BOOLEAN,
     chan : Seq(SUBSET Commits), rx : {"none", "waiting", "open", "done", "failed"},
     wrote : SUBSET Commits]

\* The commits whose documents are not missed.
Kept == IF Cancels = "never" THEN docs ELSE Commits

\* The watermarks a run would store now, the commits between them that are
\* not left to walk, and those it knows to lie above the lower one.
Bottom(x) == Or(x.deepest, Anchor(x))
Top(x) == Or(x.newest, x.stop)
Between(a, b) == {c \in Commits : a # None /\ a <= c /\ c <= b}
Span(x) == Between(Bottom(x), Top(x)) \ x.walk
Reached(x, i) ==
    \/ x.was
    \/ Bottom(x) # None /\ Bottom(x) <= i
    \/ x.first # None /\ x.first <= i

\* The commits of the trunk that a run has processed or found indexed, for
\* commits s skipped.
WalkedPast(s, x, i) ==
    \/ x.first # None /\ x.first <= i
    \/ i \notin s /\ i \notin x.walk /\ Reached(x, i)
Have(h, s, x) == {i \in Trunk[h] : i <= Top(x) /\ WalkedPast(s, x, i)}

Walking(x) == x.pc \in {"process", "send"} /\ x.leg # "closing"
Saving(x) == x.pc \in {"oldest", "complete"}

\* Where the run is.
Staged(x) ==
    /\ x.pc \in {"clear", "walk"} =>
          /\ x.leg = "forward" /\ x.walk = {} /\ x.buf = {} /\ x.acc = NoWeights
          /\ x.newest = None /\ x.deepest = None /\ ~x.failed
          /\ x.chan = <<>> /\ x.wrote = {} /\ x.rx = "none" /\ ~x.root /\ ~x.ran
    /\ x.pc = "clear" => x.stop = None
    /\ x.rx = "none" => x.pc \in {"clear", "walk"}
    /\ x.pc = "process" => x.leg # "closing" /\ ~x.failed
    /\ x.pc = "send" => ~x.failed
    /\ x.pc \in {"join", "last", "oldest", "complete"} =>
          x.buf = {} /\ (x.failed \/ x.leg = "closing")
    /\ x.pc \in {"last", "oldest", "complete"} => ~x.failed /\ x.rx = "done"
    /\ x.rx = "done" => /\ x.pc \in {"join", "last", "oldest", "complete"} \/ x.cancelled
                        /\ x.chan = <<>> /\ x.wrote = {}
    /\ x.leg = "closing" => x.walk = {} /\ x.acc = NoWeights

\* The marks of a run, on the branch of h.
OnBranch(h, k) == k # None => k \in Ancestors[h]
Ordered(e, h, x) ==
    /\ x.stop = None => x.start = None /\ ~x.was
    /\ x.was => x.deepest = None
    /\ e /\ x.stop # None => x.start # None /\ x.start <= x.stop
    /\ x.force => e /\ x.stop = None
    /\ x.mode = "backfill" => x.stop # None
    /\ OnBranch(h, Top(x)) /\ OnBranch(h, x.start) /\ OnBranch(h, x.first) /\ OnBranch(h, x.deepest)
    /\ (x.newest = None) = (x.first = None)
    /\ x.newest # None => x.stop < x.first /\ x.first <= x.newest
    /\ x.deepest # None => /\ x.leg # "forward" /\ Top(x) # None
                           /\ Anchor(x) # None => x.deepest < Anchor(x)
    /\ x.leg # "forward" => Top(x) # None \/ x.cancelled
    /\ e /\ x.leg # "forward" => Top(x) # None /\ Bottom(x) # None
    /\ e => ~x.cancelled
    /\ x.failed \/ x.rx = "failed" => ~x.force /\ (e => x.stop = None)

\* What is left to walk: the commits above what the run has, or a piece of
\* those below it; with no commit of the trunk left out between.
Above(h, s, x) ==
    /\ \A c \in x.walk : Top(x) < c /\ c \in Ancestors[h]
    /\ \A c, d \in x.walk : \A i \in Trunk[h] : c < i /\ i < d => i \in x.walk
    /\ Top(x) # None =>
          \A c \in x.walk : \A i \in Trunk[h] :
             Top(x) < i /\ i < c => i \in x.walk \/ (x.newest = None /\ i \in s)
    /\ Top(x) = None => x.walk # {} \/ x.cancelled
    /\ x.root => x.first # None
    /\ ~x.ran

Below(h, x) ==
    /\ x.was \/ Top(x) = None => x.walk = {}
    /\ \A c \in x.walk : c \in Ancestors[h] /\ (Anchor(x) # None => c < Anchor(x))
    /\ x.deepest # None => \A c \in x.walk : x.deepest < c
    /\ x.deepest = None =>
          \A c \in x.walk : \A i \in Trunk[h] :
             c < i /\ i <= Top(x) /\ (Anchor(x) # None => i < Anchor(x)) => i \in x.walk

\* Who has seen the root, or the end of the backfill.
Rooted(h, x) ==
    ~x.cancelled /\ (x.root \/ (x.ran /\ x.got < x.cap - x.count)) =>
        \A i \in Trunk[h] : i <= Top(x) => Reached(x, i) \/ (x.deepest = None /\ i \in x.walk)
Decided(h, x) ==
    IF x.exhausted THEN Top(x) # None /\ \A i \in Trunk[h] : i <= Top(x) => Reached(x, i)
    ELSE ~x.was

\* The couplings and the documents of what the run has.
Weighted(e, h, s, w, x) ==
    \A c \in Commits :
        /\ c \in Have(h, s, x) => w[c] + x.acc[c] > 0
        /\ e => w[c] + x.acc[c] <= IF c \in Span(x) THEN 1 ELSE 0
Queued(q) == UNION {q[i] : i \in DOMAIN q}
Filed(d, h, s, x) == Have(h, s, x) \subseteq d \cup x.wrote \cup x.buf \cup Queued(x.chan)

\* The watermarks in the registry while a run is under way.
Known(m, x) ==
    /\ ~x.force /\ ~Saving(x) => x.stop = m.last /\ x.start = m.oldest /\ x.was = m.complete
    /\ Saving(x) => m.last = Top(x)
    /\ x.pc = "oldest" /\ ~x.force => m.oldest = x.start
    /\ x.pc = "complete" => m.oldest = Bottom(x)
    /\ Saving(x) /\ ~x.force => m.complete = x.was

RunInv(e, h, s, m, w, d, rep, x) ==
    /\ Staged(x) /\ Ordered(e, h, x) /\ Known(m, x)
    /\ x.leg = "forward" /\ Walking(x) => Above(h, s, x)
    /\ x.leg = "backfill" /\ Walking(x) => Below(h, x)
    /\ Walking(x) => Rooted(h, x)
    /\ x.leg = "closing" => Decided(h, x)
    /\ (x.stop = None \/ rep = "none") /\ ~x.failed /\ x.pc # "clear" => Weighted(e, h, s, w, x)
    /\ ~x.failed /\ x.rx # "failed" => Filed(d, h, s, x)

\* The watermarks at rest.
Recorded(h, s, m) ==
    {i \in Trunk[h] \ s : i <= m.last /\ (m.complete \/ (m.oldest # None /\ m.oldest <= i))}
Registered(e, h, s, m, d) ==
    /\ m.last = None => m.oldest = None /\ ~m.complete
    /\ OnBranch(h, m.last) /\ OnBranch(h, m.oldest)
    /\ e /\ m.last # None => m.oldest # None /\ m.oldest <= m.last
    /\ Recorded(h, s, m) \subseteq d
Tallied(e, h, s, m, w) ==
    m.last # None =>
       \A c \in Commits :
          /\ c \in Recorded(h, s, m) => w[c] > 0
          /\ e => w[c] <= IF c \in Between(m.oldest, m.last) THEN 1 ELSE 0

WalkTypes ==
    /\ Undisturbed /\ situation \in Situations
    /\ head \in Commits
    /\ meta \in [last : Marked, oldest : Marked, complete : BOOLEAN]
    /\ weight \in [Commits -> Nat]
    /\ run \in [Runs -> RunRecord]
    /\ lock \in Runs \cup {Free, Repairer}
    /\ repair \in {"none", "purged", "last", "oldest", "complete"}

Owners ==
    /\ \A r \in Runs : run[r].pc = "idle" => run[r] = IdleRun
    /\ \A r \in Runs : run[r].pc # "idle" => lock = r
    /\ \A r \in Runs : run[r].cancelled => Cancels # "never"
    /\ (lock = Repairer) = (repair \in {"last", "oldest", "complete"})
    /\ repair \in {"oldest", "complete"} => meta.last = None
    /\ repair = "complete" => meta.oldest = None

Resting ==
    /\ lock # Repairer /\ (\A r \in Runs : ~Saving(run[r]) /\ ~run[r].force) =>
          Registered(Exact, head, skipped, meta, Kept)
    /\ lock = Free /\ repair = "none" => Tallied(Exact, head, skipped, meta, weight)
    /\ ~Exact /\ repair = "none" /\ (\A r \in Runs : ~Saving(run[r])) =>
          \A c \in Recorded(head, skipped, meta) : weight[c] > 0

WalkInv ==
    /\ WalkTypes /\ Owners /\ Resting
    /\ \A r \in Runs : run[r].pc # "idle" =>
          RunInv(Exact, head, skipped, meta, weight, Kept, repair, run[r])

-----------------------------------------------------------------------------
(* The operators.                                                          *)

\* Commits are positive numbers.
LEMMA CommitFacts ==
    /\ N \in Nat /\ Commits = 1 .. N /\ Commits \subseteq Nat /\ None = 0 /\ 0 \notin Commits
    /\ Marked \subseteq Nat /\ None \in Marked /\ Commits \subseteq Marked
    /\ \A c \in Marked : c # None => c \in Commits /\ c >= 1
    /\ NoWeights \in [Commits -> Nat] /\ \A c \in Commits : NoWeights[c] = 0
  BY HistoryAssumption DEF Commits, None, Marked, NoWeights

\* A commit's ancestors are older than it and are closed under ancestors.
LEMMA AncestorFacts ==
    ASSUME NEW c \in Commits
    PROVE  /\ c \in Ancestors[c] /\ Ancestors[c] \subseteq Commits
           /\ \A i \in Ancestors[c] : i <= c /\ Ancestors[i] \subseteq Ancestors[c]
           /\ Parents[c] = {} => Ancestors[c] = {c}
  <1>1. \A b \in Commits : Ancestors[b] = {d \in Commits : \A S \in Closed : b \in S => d \in S}
    BY DEF Ancestors
  <1>2. N \in Nat /\ Commits = 1 .. N BY CommitFacts
  <1>3. 1 .. c \in Closed
    <2>1. 1 .. c \subseteq Commits BY <1>2
    <2>2. ASSUME NEW b \in 1 .. c PROVE Parents[b] \subseteq 1 .. c
      <3>1. b \in Commits BY <2>1
      <3>2. \A p \in Parents[b] : p \in Commits /\ p < b BY <3>1, HistoryAssumption
      <3> QED BY <1>2, <3>1, <3>2
    <2> QED BY <2>1, <2>2 DEF Closed
  <1>4. c \in 1 .. c BY <1>2
  <1>5. \A i \in Ancestors[c] : i \in 1 .. c BY <1>1, <1>3, <1>4
  <1>6. ASSUME NEW i \in Ancestors[c] PROVE i <= c /\ Ancestors[i] \subseteq Ancestors[c]
    <2>1. i <= c BY <1>5
    <2>2. i \in Commits BY <1>1
    <2> QED BY <1>1, <2>1, <2>2
  <1>7. ASSUME Parents[c] = {} PROVE Ancestors[c] = {c}
    <2>1. {c} \in Closed BY <1>7 DEF Closed
    <2> QED BY <1>1, <2>1
  <1> QED BY <1>1, <1>6, <1>7

\* The trunk's commits are ancestors of all later ones of the branch, and what
\* is trunk of a branch is trunk of what it continues.
LEMMA TrunkFacts ==
    ASSUME NEW h \in Commits
    PROVE  /\ Trunk[h] \subseteq Ancestors[h] /\ Trunk[h] \subseteq Commits
           /\ \A i \in Trunk[h] : \A g \in Ancestors[h] : i <= g => i \in Ancestors[g]
           /\ \A g \in Ancestors[h] : \A i \in Trunk[h] : i <= g => i \in Trunk[g]
  <1>1. \A g \in Commits : Trunk[g] =
           {i \in Ancestors[g] : \A d \in Ancestors[g] : i \in Ancestors[d] \/ d \in Ancestors[i]}
    BY DEF Trunk
  <1>2. Ancestors[h] \subseteq Commits /\ Commits \subseteq Nat BY AncestorFacts, CommitFacts
  <1>3. ASSUME NEW i \in Trunk[h], NEW g \in Ancestors[h], i <= g PROVE i \in Ancestors[g]
    <2>1. i \in Commits /\ g \in Commits /\ i \in Nat /\ g \in Nat BY <1>1, <1>2
    <2>2. i \in Ancestors[g] \/ g \in Ancestors[i] BY <1>1
    <2>3. CASE g \in Ancestors[i]
      <3>1. g <= i BY <2>1, <2>3, AncestorFacts
      <3>2. g = i BY <1>3, <2>1, <3>1
      <3> QED BY <2>3, <3>2
    <2> QED BY <2>2, <2>3
  <1>4. ASSUME NEW g \in Ancestors[h], NEW i \in Trunk[h], i <= g PROVE i \in Trunk[g]
    <2>1. i \in Ancestors[g] BY <1>3, <1>4
    <2>2. Ancestors[g] \subseteq Ancestors[h] BY AncestorFacts
    <2>3. g \in Commits BY <1>2
    <2> QED BY <1>1, <2>1, <2>2, <2>3
  <1> QED BY <1>1, <1>2, <1>3, <1>4

\* Sets of commits are finite and have a newest one.
LEMMA CommitSets ==
    ASSUME NEW S, S \subseteq Commits
    PROVE  /\ IsFiniteSet(S) /\ Cardinality(S) \in Nat
           /\ S # {} => \E c \in S : \A d \in S : d <= c
  <1>1. N \in Nat /\ Commits = 1 .. N BY CommitFacts
  <1>2. IsFiniteSet(1 .. N) BY <1>1, FS_Interval
  <1>3. IsFiniteSet(S) /\ Cardinality(S) \in Nat BY <1>1, <1>2, FS_Subset, FS_CardinalityType
  <1>4. ASSUME S # {} PROVE \E c \in S : \A d \in S : d <= c
    <2> DEFINE M == {N - c : c \in S}
    <2>1. M \subseteq Nat /\ M # {}
      <3>1. \A c \in S : N - c \in Nat BY <1>1
      <3> QED BY <1>4, <3>1
    <2>2. PICK m \in M : \A k \in M : m <= k BY <2>1, LeastNatural
    <2>3. PICK c \in S : m = N - c OBVIOUS
    <2>4. \A d \in S : N - c <= N - d BY <2>2, <2>3
    <2>5. \A d \in S : d <= c BY <1>1, <2>4
    <2> QED BY <2>5
  <1> QED BY <1>3, <1>4

\* The newest of a set are its upper end, and all of it if they are fewer than
\* asked for.
LEMMA NewestAre ==
    ASSUME NEW S, S \subseteq Commits, NEW k \in Int
    PROVE  /\ Newest(S, k) \subseteq S /\ Cardinality(Newest(S, k)) \in Nat
           /\ \A c \in Newest(S, k) : \A i \in S : c < i => i \in Newest(S, k)
           /\ Cardinality(Newest(S, k)) < k => Newest(S, k) = S
           /\ k > 0 /\ S # {} => Newest(S, k) # {}
  <1> DEFINE Later(c) == {d \in S : d > c}
             T == Newest(S, k)
  <1>0. S \subseteq Nat BY CommitFacts
  <1>1. \A c \in S : c \in T <=> Cardinality(Later(c)) < k BY DEF Newest
  <1>2. T \subseteq S BY DEF Newest
  <1> HIDE DEF T
  <1>3. \A c \in S : IsFiniteSet(Later(c)) /\ Cardinality(Later(c)) \in Nat
    <2> TAKE c \in S
    <2>1. Later(c) \subseteq Commits OBVIOUS
    <2> QED BY <2>1, CommitSets
  <1>4. IsFiniteSet(T) /\ Cardinality(T) \in Nat BY <1>2, CommitSets
  <1>5. ASSUME NEW c \in T, NEW i \in S, c < i PROVE i \in T
    <2>1. c \in S /\ c \in Nat /\ i \in Nat BY <1>0, <1>2
    <2>2. ASSUME NEW d \in Later(i) PROVE d \in Later(c)
      <3>1. d \in S /\ d > i /\ d \in Nat BY <1>0
      <3> QED BY <1>5, <2>1, <3>1
    <2>3. Cardinality(Later(i)) <= Cardinality(Later(c))
      <3>1. Later(i) \subseteq Later(c) BY <2>2
      <3> QED BY <1>3, <2>1, <3>1, FS_Subset
    <2>4. Cardinality(Later(c)) < k BY <1>1, <2>1
    <2>5. Cardinality(Later(i)) \in Nat /\ Cardinality(Later(c)) \in Nat BY <1>3, <2>1
    <2> HIDE DEF Later
    <2>6. Cardinality(Later(i)) < k BY <2>3, <2>4, <2>5
    <2> QED BY <1>1, <2>6
  <1>6. ASSUME Cardinality(T) < k PROVE T = S
    <2> SUFFICES ASSUME S \ T # {} PROVE FALSE BY <1>2
    <2>1. PICK c \in S \ T : \A d \in S \ T : d <= c
      <3>1. S \ T \subseteq Commits OBVIOUS
      <3> QED BY <3>1, CommitSets
    <2>2. ASSUME NEW d \in Later(c) PROVE d \in T
      <3>1. d \in S /\ d > c /\ d \in Nat /\ c \in Nat BY <1>0, <2>1
      <3>2. ~(d <= c) BY <3>1
      <3> QED BY <2>1, <3>1, <3>2
    <2>3. Later(c) \subseteq T /\ Cardinality(Later(c)) <= Cardinality(T) BY <1>4, <2>2, FS_Subset
    <2>4. Cardinality(Later(c)) \in Nat BY <1>3
    <2> HIDE DEF Later
    <2>5. Cardinality(Later(c)) < k BY <1>4, <1>6, <2>3, <2>4
    <2> QED BY <1>1, <2>5
  <1>7. ASSUME k > 0, S # {} PROVE T # {}
    <2> SUFFICES ASSUME T = {} PROVE FALSE OBVIOUS
    <2>1. Cardinality(T) = 0 BY FS_EmptySet
    <2> QED BY <1>6, <1>7, <2>1
  <1> QED BY <1>2, <1>4, <1>5, <1>6, <1>7 DEF T

\* What is queued, after a batch enters and after one leaves.
LEMMA QueueMoves ==
    ASSUME NEW T, NEW s \in Seq(T)
    PROVE  /\ \A b \in T : Queued(Append(s, b)) = Queued(s) \cup b
           /\ s # <<>> => Queued(s) = Head(s) \cup Queued(Tail(s)) /\ Head(s) \in T
           /\ Queued(<<>>) = {}
  <1>1. ASSUME NEW b \in T PROVE Queued(Append(s, b)) = Queued(s) \cup b
    <2>1. \A i \in DOMAIN s : i \in DOMAIN Append(s, b) /\ Append(s, b)[i] = s[i] OBVIOUS
    <2>2. Len(s) + 1 \in DOMAIN Append(s, b) /\ Append(s, b)[Len(s) + 1] = b OBVIOUS
    <2>3. \A i \in DOMAIN Append(s, b) : i \in DOMAIN s \/ i = Len(s) + 1 OBVIOUS
    <2> HIDE DEF Queued
    <2>4. \A z : z \in UNION {Append(s, b)[i] : i \in DOMAIN Append(s, b)}
                  <=> z \in UNION {s[i] : i \in DOMAIN s} \/ z \in b
      BY <2>1, <2>2, <2>3
    <2> QED BY <2>4 DEF Queued
  <1>2. ASSUME s # <<>> PROVE Queued(s) = Head(s) \cup Queued(Tail(s)) /\ Head(s) \in T
    <2>1. Head(s) = s[1] /\ 1 \in DOMAIN s /\ Head(s) \in T BY <1>2
    <2>2. \A i \in DOMAIN Tail(s) : i + 1 \in DOMAIN s /\ Tail(s)[i] = s[i + 1] BY <1>2
    <2>3. \A i \in DOMAIN s : i = 1 \/ (i - 1 \in DOMAIN Tail(s) /\ Tail(s)[i - 1] = s[i]) BY <1>2
    <2>4. \A z : z \in UNION {s[i] : i \in DOMAIN s}
                  <=> z \in Head(s) \/ z \in UNION {Tail(s)[i] : i \in DOMAIN Tail(s)}
      BY <2>1, <2>2, <2>3
    <2> QED BY <2>1, <2>4 DEF Queued
  <1>3. Queued(<<>>) = {} BY DEF Queued
  <1> QED BY <1>1, <1>2, <1>3

\* Two states of a run that differ elsewhere.
SameMarks(x, y) ==
    /\ y.stop = x.stop /\ y.start = x.start /\ y.was = x.was
    /\ y.newest = x.newest /\ y.first = x.first /\ y.deepest = x.deepest
    /\ y.mode = x.mode /\ y.force = x.force /\ y.cancelled = x.cancelled
SameWalk(x, y) ==
    /\ y.leg = x.leg /\ y.walk = x.walk /\ y.cap = x.cap /\ y.count = x.count
    /\ y.ran = x.ran /\ y.got = x.got /\ y.root = x.root /\ y.exhausted = x.exhausted
SameDocs(x, y) == y.chan = x.chan /\ y.buf = x.buf /\ y.wrote = x.wrote /\ y.rx = x.rx

\* Types of what the arguments below compare.
LEMMA RunFacts ==
    ASSUME NEW x \in RunRecord
    PROVE  /\ Bottom(x) \in Marked /\ Top(x) \in Marked /\ Anchor(x) \in Marked
           /\ x.stop \in Marked /\ x.start \in Marked /\ x.newest \in Marked
           /\ x.first \in Marked /\ x.deepest \in Marked
           /\ x.walk \subseteq Commits
           /\ x.acc \in [Commits -> Nat] /\ x.cap \in Nat /\ x.count \in Nat /\ x.got \in Nat
           /\ x.force \in BOOLEAN /\ x.was \in BOOLEAN /\ x.ran \in BOOLEAN /\ x.root \in BOOLEAN
           /\ x.cancelled \in BOOLEAN
  BY DEF RunRecord, Bottom, Top, Anchor, Or

\* All of it is numbers.
LEMMA RunNumbers ==
    ASSUME NEW h \in Commits, NEW x \in RunRecord
    PROVE  /\ x.walk \subseteq Commits /\ Commits \subseteq Nat /\ Trunk[h] \subseteq Nat
           /\ None = 0 /\ (\A c \in Commits : c # None /\ c >= 1) /\ h \in Nat
           /\ x.stop \in Nat /\ x.start \in Nat /\ x.newest \in Nat /\ x.first \in Nat
           /\ x.deepest \in Nat /\ Bottom(x) \in Nat /\ Top(x) \in Nat /\ Anchor(x) \in Nat
  <1>1. Trunk[h] \subseteq Commits BY TrunkFacts
  <1> QED BY <1>1, RunFacts, CommitFacts

\* The same marks enclose the same commits.
LEMMA SameHave ==
    ASSUME NEW x, NEW y, SameMarks(x, y)
    PROVE  /\ Bottom(y) = Bottom(x) /\ Top(y) = Top(x) /\ Anchor(y) = Anchor(x)
           /\ \A i : Reached(y, i) = Reached(x, i)
           /\ y.walk = x.walk => /\ Span(y) = Span(x)
                                 /\ \A h, s : Have(h, s, y) = Have(h, s, x)
  <1>1. Bottom(y) = Bottom(x) /\ Top(y) = Top(x) /\ Anchor(y) = Anchor(x)
    BY DEF SameMarks, Bottom, Top, Anchor
  <1>2. \A i : Reached(y, i) = Reached(x, i) BY <1>1 DEF SameMarks, Reached
  <1>3. ASSUME y.walk = x.walk
        PROVE  Span(y) = Span(x) /\ \A h, s : Have(h, s, y) = Have(h, s, x)
    <2>1. \A s, i : WalkedPast(s, y, i) = WalkedPast(s, x, i) BY <1>2, <1>3 DEF WalkedPast, SameMarks
    <2> QED BY <1>1, <1>3, <2>1 DEF Span, Have
  <1> QED BY <1>1, <1>2, <1>3

\* A run that keeps its marks and its walk keeps its place, and what it has.
LEMMA SamePlace ==
    ASSUME NEW e, NEW h, NEW s, NEW x, NEW y, SameMarks(x, y), SameWalk(x, y), Ordered(e, h, x),
           y.failed \/ y.rx = "failed" => ~x.force /\ (e => x.stop = None)
    PROVE  /\ Ordered(e, h, y) /\ Have(h, s, y) = Have(h, s, x) /\ Span(y) = Span(x)
           /\ Above(h, s, x) => Above(h, s, y)
           /\ Below(h, x) => Below(h, y)
           /\ Rooted(h, x) => Rooted(h, y)
           /\ Decided(h, x) => Decided(h, y)
  <1>1. /\ Bottom(y) = Bottom(x) /\ Top(y) = Top(x) /\ Anchor(y) = Anchor(x)
        /\ Have(h, s, y) = Have(h, s, x) /\ Span(y) = Span(x)
        /\ \A i : Reached(y, i) = Reached(x, i)
    BY SameHave DEF SameWalk
  <1>2. Ordered(e, h, y) BY <1>1 DEF Ordered, SameMarks, SameWalk
  <1>3. Above(h, s, x) => Above(h, s, y) BY <1>1 DEF Above, SameMarks, SameWalk
  <1>4. Below(h, x) => Below(h, y) BY <1>1 DEF Below, SameMarks, SameWalk
  <1>5. Rooted(h, x) => Rooted(h, y) BY <1>1 DEF Rooted, SameMarks, SameWalk
  <1>6. Decided(h, x) => Decided(h, y) BY <1>1 DEF Decided, SameMarks, SameWalk
  <1> QED BY <1>1, <1>2, <1>3, <1>4, <1>5, <1>6

\* A run that has not walked has nothing above its watermark.
LEMMA NothingYet ==
    ASSUME NEW h \in Commits, NEW s, NEW x \in RunRecord, Top(x) = None
    PROVE  Have(h, s, x) = {}
  <1>1. \A i \in Trunk[h] : i \in Nat /\ i >= 1 /\ None = 0 BY TrunkFacts, CommitFacts
  <1> QED BY <1>1 DEF Have

-----------------------------------------------------------------------------
(* The steps of a run, one lemma for each.                                 *)

\* The coupling graph is emptied for a walk that has nothing yet.
LEMMA ClearKeeps ==
    ASSUME NEW e \in BOOLEAN, NEW h \in Commits, NEW s, NEW m, NEW w, NEW d, NEW rep,
           NEW x \in RunRecord, NEW y \in RunRecord, RunInv(e, h, s, m, w, d, rep, x),
           x.pc = "clear", y.pc = "walk", y.acc = x.acc, y.failed = x.failed,
           SameMarks(x, y), SameWalk(x, y), SameDocs(x, y)
    PROVE  RunInv(e, h, s, m, NoWeights, d, rep, y)
  <1>1. Staged(x) /\ Ordered(e, h, x) /\ Known(m, x) BY DEF RunInv
  <1>2. y.failed \/ y.rx = "failed" => ~x.force /\ (e => x.stop = None)
    BY <1>1 DEF Ordered, SameDocs
  <1>3. Ordered(e, h, y) BY <1>1, <1>2, SamePlace
  <1>4. /\ x.stop = None /\ x.start = None /\ x.newest = None /\ x.first = None /\ x.deepest = None
        /\ x.acc = NoWeights /\ x.leg = "forward" /\ ~x.failed
    BY <1>1 DEF Staged, Ordered
  <1>5. Have(h, s, y) = {}
    <2>1. Top(y) = None BY <1>4 DEF Top, Or, SameMarks
    <2> QED BY <2>1, NothingYet
  <1>6. Staged(y) BY <1>1 DEF Staged, SameMarks, SameWalk, SameDocs
  <1>7. Known(m, y) BY <1>1 DEF Known, Saving, SameMarks
  <1>8. Weighted(e, h, s, NoWeights, y)
    <2>1. \A c \in Commits : y.acc[c] = 0 /\ NoWeights[c] = 0 BY <1>4, CommitFacts
    <2>2. \A c \in Commits : NoWeights[c] + y.acc[c] = 0 BY <2>1
    <2> QED BY <1>5, <2>2 DEF Weighted
  <1>9. Filed(d, h, s, y) BY <1>5 DEF Filed
  <1> QED BY <1>3, <1>4, <1>6, <1>7, <1>8, <1>9 DEF RunInv, SameWalk, Walking

\* The forward window: the newest of what is new.
LEMMA WindowIs ==
    ASSUME NEW e \in BOOLEAN, NEW h \in Commits, NEW x \in RunRecord,
           Ordered(e, h, x), x.newest = None, NEW cap \in Nat, cap > 0,
           NEW new, NEW win,
           x.mode = "backfill" => new = {},
           x.mode # "backfill" /\ x.stop \in Ancestors[h] => new = {c \in Ancestors[h] : c > x.stop},
           x.mode # "backfill" /\ x.stop \notin Ancestors[h] => new = Ancestors[h],
           x.cancelled => win = {}, ~x.cancelled => win = Newest(new, cap)
    PROVE  /\ win \subseteq Commits /\ Cardinality(win) \in Nat
           /\ \A c \in new : c \in Nat /\ x.stop < c
           /\ \A c \in win : x.stop < c /\ c \in Ancestors[h]
           /\ \A c \in win : \A i \in Trunk[h] : c < i => i \in win
           /\ win # {} => \A i \in Trunk[h] : x.stop < i => i \in new
           /\ x.stop = None => win # {} \/ x.cancelled
  <1>0. h \in Nat /\ x.stop \in Nat /\ None = 0 /\ Commits \subseteq Nat /\ 0 \notin Commits
    BY RunFacts, CommitFacts
  <1>1. /\ Ancestors[h] \subseteq Commits /\ h \in Ancestors[h]
        /\ Trunk[h] \subseteq Ancestors[h]
    BY AncestorFacts, TrunkFacts
  <1>2. x.stop # None => x.stop \in Ancestors[h] BY DEF Ordered, OnBranch, Top, Or
  <1>3. x.mode # "backfill" => new = {c \in Ancestors[h] : c > x.stop}
    <2>1. CASE x.stop = None
      <3>1. \A c \in Ancestors[h] : c > x.stop
        <4>1. \A c \in Ancestors[h] : c \in Nat /\ c # 0 BY <1>0, <1>1
        <4> QED BY <1>0, <2>1, <4>1
      <3>2. x.stop \notin Ancestors[h] BY <1>0, <1>1, <2>1
      <3> QED BY <3>1, <3>2
    <2> QED BY <1>2, <2>1
  <1>4. new \subseteq Ancestors[h] /\ \A c \in new : c \in Nat /\ x.stop < c
    <2>1. CASE x.mode = "backfill" BY <2>1
    <2>2. CASE x.mode # "backfill" BY <1>0, <1>1, <1>3, <2>2
    <2> QED BY <2>1, <2>2
  <1>5. new \subseteq Commits BY <1>1, <1>4
  <1>6. /\ win \subseteq new /\ Cardinality(win) \in Nat
        /\ \A c \in win : \A i \in new : c < i => i \in win
        /\ new # {} /\ ~x.cancelled => win # {}
    <2>1. CASE x.cancelled BY <2>1, FS_EmptySet
    <2>2. CASE ~x.cancelled
      <3>1. win = Newest(new, cap) /\ cap \in Int BY <2>2
      <3> QED BY <1>5, <3>1, NewestAre
    <2> QED BY <2>1, <2>2
  <1>7. ASSUME win # {}, NEW i \in Trunk[h], x.stop < i PROVE i \in new
    <2>1. x.mode # "backfill" BY <1>6, <1>7
    <2> QED BY <1>1, <1>3, <1>7, <2>1
  <1>8. ASSUME NEW c \in win, NEW i \in Trunk[h], c < i PROVE i \in win
    <2>1. c \in Nat /\ x.stop < c /\ i \in Nat BY <1>0, <1>1, <1>4, <1>6
    <2>2. x.stop < i BY <1>0, <1>8, <2>1
    <2>3. i \in new BY <1>7, <2>2
    <2> QED BY <1>6, <1>8, <2>3
  <1>9. x.stop = None => win # {} \/ x.cancelled
    <2>1. x.stop = None => x.mode # "backfill" BY DEF Ordered
    <2>2. x.stop = None => h \in new BY <1>0, <1>1, <1>3, <2>1
    <2> QED BY <1>6, <2>2
  <1> QED BY <1>1, <1>4, <1>6, <1>7, <1>8, <1>9

\* The run starts to walk its window; what the window leaves out is skipped.
LEMMA WalkKeeps ==
    ASSUME NEW e \in BOOLEAN, NEW h \in Commits, NEW s, NEW u, NEW m, NEW w, NEW d, NEW rep,
           NEW x \in RunRecord, NEW y \in RunRecord, RunInv(e, h, s, m, w, d, rep, x),
           x.pc = "walk", y.pc = "process", y.rx = "waiting",
           SameMarks(x, y), y.leg = x.leg, y.ran = x.ran, y.root = x.root, y.acc = x.acc,
           y.failed = x.failed, y.buf = x.buf, y.chan = x.chan, y.wrote = x.wrote,
           NEW new, \A c \in new : c \in Nat /\ x.stop < c,
           \A c \in y.walk : x.stop < c /\ c \in Ancestors[h],
           \A c \in y.walk : \A i \in Trunk[h] : c < i => i \in y.walk,
           y.walk # {} => \A i \in Trunk[h] : x.stop < i => i \in new,
           x.stop = None => y.walk # {} \/ x.cancelled,
           u = IF x.stop = None THEN {} ELSE (s \ new) \cup (new \ y.walk)
    PROVE  RunInv(e, h, u, m, w, d, rep, y)
  <1>1. Staged(x) /\ Ordered(e, h, x) /\ Known(m, x) BY DEF RunInv
  <1>2. /\ x.leg = "forward" /\ x.walk = {} /\ x.newest = None /\ x.first = None /\ x.deepest = None
        /\ ~x.failed /\ ~x.ran /\ ~x.root /\ x.rx = "none"
    BY <1>1 DEF Staged, Ordered
  <1>3. /\ Bottom(y) = Bottom(x) /\ Top(y) = Top(x) /\ Anchor(y) = Anchor(x)
        /\ \A i : Reached(y, i) = Reached(x, i)
    BY SameHave
  <1>4. Top(x) = x.stop BY <1>2 DEF Top, Or
  <1>5. Ordered(e, h, y) BY <1>1, <1>2, <1>3 DEF Ordered, SameMarks
  <1>6. /\ h \in Nat /\ y.walk \subseteq Nat /\ y.walk \subseteq Commits /\ Commits \subseteq Nat
        /\ x.stop \in Nat /\ Trunk[h] \subseteq Nat
    BY CommitFacts, RunFacts, TrunkFacts
  <1>7. Have(h, u, y) \subseteq Have(h, s, x)
    <2>1. CASE x.stop = None BY <1>3, <1>4, <2>1, NothingYet
    <2>2. CASE x.stop # None
      <3> SUFFICES ASSUME NEW i \in Have(h, u, y) PROVE i \in Have(h, s, x) OBVIOUS
      <3>1. i \in Trunk[h] /\ i <= x.stop /\ WalkedPast(u, y, i) BY <1>3, <1>4 DEF Have
      <3>2. i \notin new BY <1>6, <3>1
      <3>3. i \notin u /\ Reached(x, i) BY <1>2, <1>3, <3>1 DEF WalkedPast, SameMarks
      <3>4. i \notin s BY <2>2, <3>2, <3>3
      <3> QED BY <1>2, <1>4, <3>1, <3>3, <3>4 DEF Have, WalkedPast
    <2> QED BY <2>1, <2>2
  <1>8. Above(h, u, y)
    <2>1. \A c, j \in y.walk : \A i \in Trunk[h] : c < i /\ i < j => i \in y.walk OBVIOUS
    <2>2. ASSUME Top(y) # None, NEW c \in y.walk, NEW i \in Trunk[h], Top(y) < i, i < c
          PROVE  i \in y.walk \/ (y.newest = None /\ i \in u)
      <3>1. i \in new BY <1>3, <1>4, <2>2
      <3> QED BY <1>2, <1>3, <1>4, <2>2, <3>1 DEF SameMarks
    <2> QED BY <1>2, <1>3, <1>4, <2>1, <2>2 DEF Above, SameMarks
  <1>9. Staged(y) BY <1>1, <1>2 DEF Staged
  <1>10. Known(m, y) BY <1>1 DEF Known, Saving, SameMarks
  <1>11. Weighted(e, h, s, w, x) => Weighted(e, h, u, w, y)
    <2>1. Span(y) = Span(x)
      <3>1. \A i \in Between(Bottom(x), Top(x)) : i \in Nat /\ i <= x.stop BY <1>4, <1>6 DEF Between
      <3>2. \A i \in Between(Bottom(x), Top(x)) : i \notin y.walk BY <1>6, <3>1
      <3> QED BY <1>2, <1>3, <3>2 DEF Span
    <2> QED BY <1>7, <2>1 DEF Weighted
  <1>12. Filed(d, h, s, x) => Filed(d, h, u, y) BY <1>7 DEF Filed
  <1>13. Rooted(h, y) BY <1>2 DEF Rooted
  <1> QED
    BY <1>2, <1>5, <1>8, <1>9, <1>10, <1>11, <1>12, <1>13 DEF RunInv, Walking, SameMarks

\* Adding weights, which saturate.
LEMMA PlusIs ==
    ASSUME NEW w \in [Commits -> Nat], NEW a \in [Commits -> Nat]
    PROVE  /\ Plus(w, a) \in [Commits -> Nat]
           /\ \A c \in Commits : /\ w[c] + a[c] > 0 => Plus(w, a)[c] > 0
                                 /\ w[c] + a[c] <= 1 => Plus(w, a)[c] = w[c] + a[c]
  <1>1. \A k \in Nat : Min({k, 2}) \in {k, 2} /\ Min({k, 2}) <= k /\ Min({k, 2}) <= 2
    <2> TAKE k \in Nat
    <2>1. {k, 2} \subseteq Nat /\ {k, 2} # {} OBVIOUS
    <2> QED BY <2>1, MinIsLeast
  <1>2. \A c \in Commits : w[c] + a[c] \in Nat /\ Plus(w, a)[c] = Min({w[c] + a[c], 2})
    BY DEF Plus, MaxWeight
  <1>3. DOMAIN Plus(w, a) = Commits /\ Plus(w, a) = [c \in Commits |-> Plus(w, a)[c]] BY DEF Plus
  <1>4. \A c \in Commits : /\ Plus(w, a)[c] \in Nat
                           /\ w[c] + a[c] > 0 => Plus(w, a)[c] > 0
                           /\ w[c] + a[c] <= 1 => Plus(w, a)[c] = w[c] + a[c]
    <2> TAKE c \in Commits
    <2> DEFINE k == w[c] + a[c]
    <2>1. k \in Nat /\ Plus(w, a)[c] = Min({k, 2}) BY <1>2
    <2>2. Min({k, 2}) \in {k, 2} /\ Min({k, 2}) <= k /\ Min({k, 2}) <= 2 BY <1>1, <2>1
    <2> HIDE DEF k
    <2>3. /\ Plus(w, a)[c] \in Nat
          /\ k > 0 => Plus(w, a)[c] > 0
          /\ k <= 1 => Plus(w, a)[c] = k
      BY <2>1, <2>2
    <2> QED BY <2>3 DEF k
  <1> QED BY <1>3, <1>4

\* One commit more, in the accumulator or in the graph.
LEMMA WeighsMore ==
    ASSUME NEW e \in BOOLEAN, NEW h, NEW s, NEW w \in [Commits -> Nat], NEW v, NEW c \in Commits,
           NEW x \in RunRecord, NEW y \in RunRecord, Weighted(e, h, s, w, x),
           Have(h, s, y) \subseteq Have(h, s, x) \cup {c},
           e => Span(x) \cup {c} \subseteq Span(y) /\ c \notin Span(x),
           NEW a, a = [x.acc EXCEPT ![c] = @ + 1],
           (v = w /\ y.acc = a) \/ (v = Plus(w, a) /\ y.acc = NoWeights)
    PROVE  v \in [Commits -> Nat] /\ Weighted(e, h, s, v, y)
  <1>1. x.acc \in [Commits -> Nat] BY RunFacts
  <1>2. a \in [Commits -> Nat] /\ \A i \in Commits : a[i] = IF i = c THEN x.acc[i] + 1 ELSE x.acc[i]
    BY <1>1
  <1>3. \A i \in Commits : w[i] \in Nat /\ a[i] \in Nat /\ x.acc[i] \in Nat BY <1>1, <1>2
  <1>4. \A i \in Commits : i \in Have(h, s, y) => w[i] + a[i] > 0 BY <1>2, <1>3 DEF Weighted
  <1>7. ASSUME e, NEW i \in Commits PROVE w[i] + a[i] <= IF i \in Span(y) THEN 1 ELSE 0
    <2>1. w[i] + x.acc[i] <= IF i \in Span(x) THEN 1 ELSE 0 BY <1>7 DEF Weighted
    <2>2. CASE i = c BY <1>2, <1>3, <1>7, <2>1, <2>2
    <2>3. CASE i # c BY <1>2, <1>3, <1>7, <2>1, <2>3
    <2> QED BY <2>2, <2>3
  <1>5. CASE v = w /\ y.acc = a BY <1>4, <1>5, <1>7 DEF Weighted
  <1>6. CASE v = Plus(w, a) /\ y.acc = NoWeights
    <2>1. /\ v \in [Commits -> Nat]
          /\ \A i \in Commits : /\ w[i] + a[i] > 0 => v[i] > 0
                                /\ w[i] + a[i] <= 1 => v[i] = w[i] + a[i]
      BY <1>2, <1>6, PlusIs
    <2>5. \A i \in Commits : v[i] \in Nat /\ y.acc[i] = 0
      <3>1. \A i \in Commits : NoWeights[i] = 0 BY CommitFacts
      <3> QED BY <1>6, <2>1, <3>1
    <2>2. \A i \in Commits : v[i] + y.acc[i] = v[i] BY <2>5
    <2>3. \A i \in Commits : i \in Have(h, s, y) => v[i] + y.acc[i] > 0 BY <1>4, <2>1, <2>2, <2>5
    <2>4. ASSUME e, NEW i \in Commits PROVE v[i] + y.acc[i] <= IF i \in Span(y) THEN 1 ELSE 0
      <3>1. w[i] + a[i] <= IF i \in Span(y) THEN 1 ELSE 0 BY <1>7, <2>4
      <3>2. w[i] + a[i] <= 1 BY <1>3, <3>1
      <3> QED BY <2>1, <2>2, <3>1, <3>2
    <2> QED BY <2>1, <2>3, <2>4 DEF Weighted
  <1> QED BY <1>5, <1>6

\* The oldest commit of the forward window joins the upper end of what the
\* run has.
LEMMA HasOneAbove ==
    ASSUME NEW e \in BOOLEAN, NEW h \in Commits, NEW s, NEW x \in RunRecord, NEW y \in RunRecord,
           Ordered(e, h, x), Above(h, s, x), x.leg = "forward",
           NEW c \in x.walk, \A i \in x.walk : c <= i,
           y.stop = x.stop, y.start = x.start, y.deepest = x.deepest, y.was = x.was,
           y.newest = c, y.first = Or(x.first, c), y.walk = x.walk \ {c}
    PROVE  /\ Have(h, s, y) \subseteq Have(h, s, x) \cup {c}
           /\ e => Span(x) \cup {c} \subseteq Span(y)
           /\ c \notin Span(x) /\ Top(x) < c
           /\ Top(y) = c /\ Bottom(y) # None /\ (Bottom(x) # None => Bottom(y) = Bottom(x))
           /\ Bottom(x) = None => Bottom(y) = c
           /\ y.first # None /\ y.first <= c /\ (x.first # None => y.first = x.first)
  <1>1. /\ x.walk \subseteq Commits /\ Commits \subseteq Nat /\ c \in Commits /\ c \in Nat /\ c # None
        /\ None = 0 /\ c >= 1 /\ Trunk[h] \subseteq Nat /\ Top(x) \in Nat /\ Bottom(x) \in Nat
        /\ x.stop \in Nat /\ x.start \in Nat /\ x.newest \in Nat /\ x.first \in Nat
    BY RunNumbers
  <1>2. x.deepest = None BY DEF Ordered
  <1>3. Top(x) < c /\ Top(y) = c BY <1>1 DEF Above, Top, Or
  <1>4. Bottom(x) = Or(x.start, x.first) /\ Bottom(y) = Or(x.start, Or(x.first, c))
    BY <1>2 DEF Bottom, Anchor, Or
  <1>5. /\ Bottom(y) # None /\ (Bottom(x) # None => Bottom(y) = Bottom(x))
        /\ Bottom(x) = None => Bottom(y) = c
    BY <1>1, <1>4 DEF Or
  <1>6. Bottom(x) # None => Top(x) # None
    BY <1>4 DEF Ordered, Or, Top
  <1>7. /\ x.first # None => /\ x.newest # None /\ x.first <= Top(x) /\ y.first = x.first
        /\ x.first = None => y.first = c /\ x.newest = None
        /\ y.first # None /\ y.first <= c
    BY <1>1, <1>3 DEF Ordered, Or, Top
  <1>8. e /\ Bottom(x) # None => Bottom(x) <= c
    BY <1>1, <1>3, <1>4 DEF Ordered, Or, Top
  <1>11. Have(h, s, y) \subseteq Have(h, s, x) \cup {c}
    <2> SUFFICES ASSUME NEW i \in Have(h, s, y), i # c PROVE i \in Have(h, s, x) OBVIOUS
    <2>1. i \in Trunk[h] /\ i \in Nat /\ i <= c /\ WalkedPast(s, y, i) BY <1>1, <1>3 DEF Have
    <2>2. i < c BY <1>1, <2>1
    <2>3. i \notin x.walk BY <1>1, <2>1, <2>2
    <2>4. y.first <= i => x.first # None /\ y.first = x.first BY <1>1, <1>7, <2>1, <2>2
    <2>5. Bottom(y) <= i => Bottom(x) # None /\ Bottom(y) = Bottom(x) BY <1>1, <1>5, <2>1, <2>2
    <2>6. Reached(y, i) => Reached(x, i) BY <2>4, <2>5 DEF Reached
    <2>7. WalkedPast(s, x, i)
      <3>1. CASE y.first <= i BY <2>4, <3>1 DEF WalkedPast
      <3>2. CASE ~(y.first <= i) BY <2>1, <2>3, <2>6, <3>2 DEF WalkedPast
      <3> QED BY <3>1, <3>2
    <2>8. Top(x) # None
      <3>1. x.was => Top(x) # None BY DEF Ordered, Top, Or
      <3>2. x.first # None => Top(x) # None BY <1>1, <1>7
      <3> QED BY <1>6, <2>7, <3>1, <3>2 DEF WalkedPast, Reached
    <2>9. i <= Top(x)
      <3> SUFFICES ASSUME Top(x) < i PROVE FALSE BY <1>1, <2>1
      <3>1. x.newest = None /\ i \in s BY <2>1, <2>2, <2>3, <2>8 DEF Above
      <3>2. x.first = None BY <3>1 DEF Ordered
      <3> QED BY <2>7, <3>1, <3>2 DEF WalkedPast
    <2> QED BY <2>1, <2>7, <2>9 DEF Have
  <1>12. ASSUME e PROVE Span(x) \cup {c} \subseteq Span(y)
    <2>1. c \in Span(y)
      <3>1. Bottom(y) <= c BY <1>1, <1>5, <1>8, <1>12
      <3> QED BY <1>1, <1>3, <1>5, <3>1 DEF Span, Between
    <2>2. ASSUME NEW i \in Span(x) PROVE i \in Span(y)
      <3>1. /\ i \in Commits /\ i \in Nat /\ Bottom(x) # None /\ Bottom(x) <= i
            /\ i <= Top(x) /\ i \notin x.walk
        BY <1>1, <2>2 DEF Span, Between
      <3>2. i <= c BY <1>1, <1>3, <3>1
      <3> QED BY <1>3, <1>5, <3>1, <3>2 DEF Span, Between
    <2> QED BY <2>1, <2>2
  <1>13. c \notin Span(x) BY DEF Span
  <1> QED BY <1>3, <1>5, <1>7, <1>11, <1>12, <1>13

\* The oldest commit of the backfill joins the lower end.
LEMMA HasOneBelow ==
    ASSUME NEW e \in BOOLEAN, NEW h \in Commits, NEW s, NEW x \in RunRecord, NEW y \in RunRecord,
           Ordered(e, h, x), Below(h, x), x.leg = "backfill",
           NEW c \in x.walk, \A i \in x.walk : c <= i,
           y.stop = x.stop, y.start = x.start, y.newest = x.newest, y.first = x.first,
           y.was = x.was, y.deepest = Or(x.deepest, c), y.walk = x.walk \ {c}
    PROVE  /\ Have(h, s, y) \subseteq Have(h, s, x) \cup {c}
           /\ e => Span(x) \cup {c} \subseteq Span(y)
           /\ c \notin Span(x)
           /\ Top(y) = Top(x) /\ Anchor(y) = Anchor(x) /\ Bottom(y) = Or(x.deepest, c)
           /\ Bottom(y) # None /\ Bottom(y) <= c
           /\ Bottom(x) # None => Bottom(y) <= Bottom(x)
  <1>1. /\ x.walk \subseteq Commits /\ Commits \subseteq Nat /\ c \in Commits /\ c \in Nat /\ c # None
        /\ None = 0 /\ c >= 1 /\ Trunk[h] \subseteq Nat
        /\ x.stop \in Nat /\ x.start \in Nat /\ x.newest \in Nat /\ x.first \in Nat /\ x.deepest \in Nat
        /\ Bottom(x) \in Nat /\ Top(x) \in Nat /\ Anchor(x) \in Nat
    BY RunNumbers
  <1>2. Top(y) = Top(x) /\ Anchor(y) = Anchor(x) BY DEF Top, Anchor
  <1>3. Bottom(y) = Or(x.deepest, c) /\ Bottom(y) # None BY <1>1 DEF Bottom, Or
  <1>4. ~x.was BY DEF Below
  <1>5. Bottom(y) <= c BY <1>1, <1>3 DEF Below, Or
  <1>10. Bottom(x) # None => Bottom(y) <= Bottom(x)
    <2>1. CASE x.deepest # None BY <1>1, <1>3, <2>1 DEF Bottom, Or
    <2>2. CASE x.deepest = None
      <3>1. Bottom(x) = Anchor(x) BY <2>2 DEF Bottom, Or
      <3>2. Bottom(x) # None => c < Bottom(x) BY <3>1 DEF Below
      <3> QED BY <1>1, <1>3, <2>2, <3>2 DEF Or
    <2> QED BY <2>1, <2>2
  <1>6. e => Anchor(x) # None /\ Anchor(x) <= Top(x)
    BY <1>1 DEF Ordered, Anchor, Or, Top
  <1>7. Have(h, s, y) \subseteq Have(h, s, x) \cup {c}
    <2> SUFFICES ASSUME NEW i \in Have(h, s, y), i # c PROVE i \in Have(h, s, x) OBVIOUS
    <2>1. i \in Trunk[h] /\ i \in Nat /\ i <= Top(x) /\ WalkedPast(s, y, i) BY <1>1, <1>2 DEF Have
    <2>2. CASE x.first # None /\ x.first <= i BY <2>1, <2>2 DEF Have, WalkedPast
    <2>3. CASE ~(x.first # None /\ x.first <= i)
      <3>1. i \notin s /\ i \notin x.walk /\ Bottom(y) <= i
        BY <1>4, <2>1, <2>3 DEF WalkedPast, Reached
      <3>2. Bottom(x) # None /\ Bottom(x) <= i
        <4>1. CASE x.deepest # None
          <5>1. Bottom(x) = x.deepest /\ Bottom(y) = x.deepest BY <1>3, <4>1 DEF Bottom, Or
          <5> QED BY <3>1, <4>1, <5>1
        <4>2. CASE x.deepest = None
          <5>1. Bottom(x) = Anchor(x) /\ Bottom(y) = c BY <1>3, <4>2 DEF Bottom, Or
          <5>2. c < i BY <1>1, <2>1, <3>1, <5>1
          <5>3. Anchor(x) # None /\ ~(i < Anchor(x)) BY <2>1, <3>1, <4>2, <5>2 DEF Below
          <5> QED BY <1>1, <2>1, <5>1, <5>3
        <4> QED BY <4>1, <4>2
      <3> QED BY <2>1, <3>1, <3>2 DEF Have, WalkedPast, Reached
    <2> QED BY <2>2, <2>3
  <1>8. ASSUME e PROVE Span(x) \cup {c} \subseteq Span(y)
    <2>1. c < Anchor(x) /\ c <= Top(x) BY <1>1, <1>6, <1>8 DEF Below
    <2>3. c \in Span(y) BY <1>1, <1>2, <1>3, <1>5, <2>1 DEF Span, Between
    <2>4. ASSUME NEW i \in Span(x) PROVE i \in Span(y)
      <3>1. /\ i \in Commits /\ i \in Nat /\ Bottom(x) # None /\ Bottom(x) <= i
            /\ i <= Top(x) /\ i \notin x.walk
        BY <1>1, <2>4 DEF Span, Between
      <3>2. Bottom(y) \in Nat BY RunFacts, CommitFacts
      <3>3. Bottom(y) <= i BY <1>1, <1>10, <3>1, <3>2
      <3> QED BY <1>2, <1>3, <3>1, <3>3 DEF Span, Between
    <2> QED BY <2>3, <2>4
  <1>9. c \notin Span(x) BY DEF Span
  <1> QED BY <1>2, <1>3, <1>5, <1>7, <1>8, <1>9, <1>10

\* A commit of the forward window is processed.
LEMMA ProcessAbove ==
    ASSUME NEW e \in BOOLEAN, NEW h \in Commits, NEW s, NEW x \in RunRecord, NEW y \in RunRecord,
           Ordered(e, h, x), Above(h, s, x), Rooted(h, x), x.leg = "forward",
           NEW c \in x.walk, \A i \in x.walk : c <= i,
           y.stop = x.stop, y.start = x.start, y.deepest = x.deepest, y.was = x.was,
           y.mode = x.mode, y.force = x.force, y.leg = x.leg, y.ran = x.ran, y.got = x.got,
           y.cap = x.cap, y.count = x.count, y.failed = x.failed, y.rx = x.rx,
           y.cancelled = x.cancelled, y.root = (x.root \/ Parents[c] = {}),
           y.newest = c, y.first = Or(x.first, c), y.walk = x.walk \ {c}
    PROVE  Ordered(e, h, y) /\ Above(h, s, y) /\ Rooted(h, y)
  <1>1. /\ x.walk \subseteq Commits /\ Commits \subseteq Nat /\ Trunk[h] \subseteq Nat
        /\ c \in Commits /\ c \in Nat /\ c # None /\ None = 0 /\ c >= 1 /\ h \in Nat
        /\ x.stop \in Nat /\ x.start \in Nat /\ x.newest \in Nat /\ x.first \in Nat
        /\ Top(x) \in Nat /\ Bottom(x) \in Nat
    BY RunNumbers
  <1>2. /\ Top(x) < c /\ Top(y) = c /\ Bottom(y) # None
        /\ (Bottom(x) # None => Bottom(y) = Bottom(x))
        /\ (Bottom(x) = None => Bottom(y) = c)
        /\ y.first # None /\ y.first <= c /\ (x.first # None => y.first = x.first)
    BY HasOneAbove
  <1>3. x.deepest = None BY DEF Ordered
  <1>4. c \in Ancestors[h] BY DEF Above
  <1>5. /\ y.newest # None /\ y.stop < y.first /\ y.first <= y.newest
        /\ OnBranch(h, y.first)
    BY <1>1, <1>2, <1>4 DEF Ordered, OnBranch, Top, Or
  <1>6. Ordered(e, h, y) BY <1>2, <1>3, <1>4, <1>5 DEF Ordered, OnBranch
  <1>7. Above(h, s, y)
    <2>1. \A i \in y.walk : i \in x.walk /\ i \in Nat /\ c < i /\ i \in Ancestors[h]
      <3> TAKE i \in y.walk
      <3>1. i \in x.walk /\ i # c OBVIOUS
      <3>2. i \in Nat /\ c <= i /\ i \in Ancestors[h] BY <1>1, <3>1 DEF Above
      <3> QED BY <1>1, <3>1, <3>2
    <2>2. ASSUME NEW k \in Trunk[h], c < k, NEW j \in y.walk, k < j PROVE k \in y.walk
      <3>1. k \in x.walk BY <2>1, <2>2 DEF Above
      <3>2. k # c BY <1>1, <2>2
      <3> QED BY <3>1, <3>2
    <2>3. \A i, j \in y.walk : \A k \in Trunk[h] : i < k /\ k < j => k \in y.walk
      <3> SUFFICES ASSUME NEW i \in y.walk, NEW j \in y.walk, NEW k \in Trunk[h], i < k, k < j
                   PROVE  k \in y.walk
        OBVIOUS
      <3>1. i \in Nat /\ c < i /\ k \in Nat BY <1>1, <2>1
      <3>2. c < k BY <1>1, <3>1
      <3> QED BY <2>2, <3>2
    <2> QED BY <1>1, <1>2, <2>1, <2>2, <2>3 DEF Above
  <1>8. Rooted(h, y)
    <2> SUFFICES ASSUME ~x.cancelled, y.root, NEW i \in Trunk[h], i <= c PROVE Reached(y, i)
      <3>1. ~y.ran BY DEF Above
      <3> QED BY <1>2, <3>1 DEF Rooted
    <2>1. i \in Nat BY <1>1
    <2>2. CASE Parents[c] = {}
      <3>1. Ancestors[c] = {c} BY <1>1, <2>2, AncestorFacts
      <3>2. i \in Ancestors[c] BY <1>4, TrunkFacts
      <3> QED BY <1>2, <3>1, <3>2 DEF Reached
    <2>3. CASE x.root
      <3>1. x.first # None /\ y.first = x.first BY <1>2, <2>3 DEF Above
      <3>2. x.first <= Top(x) BY <1>1, <3>1 DEF Ordered, Top, Or
      <3>3. CASE i <= Top(x)
        <4>1. i \notin x.walk BY <1>1, <2>1, <3>3 DEF Above
        <4>2. Reached(x, i) BY <2>3, <3>3, <4>1 DEF Rooted
        <4> QED BY <1>2, <3>1, <4>2 DEF Reached
      <3>4. CASE ~(i <= Top(x))
        <4>1. y.first <= i BY <1>1, <2>1, <3>1, <3>2, <3>4
        <4> QED BY <1>2, <4>1 DEF Reached
      <3> QED BY <3>3, <3>4
    <2> QED BY <2>2, <2>3
  <1> QED BY <1>6, <1>7, <1>8

\* A commit of the backfill is processed.
LEMMA ProcessBelow ==
    ASSUME NEW e \in BOOLEAN, NEW h \in Commits, NEW x \in RunRecord, NEW y \in RunRecord,
           Ordered(e, h, x), Below(h, x), Rooted(h, x), x.leg = "backfill",
           NEW c \in x.walk, \A i \in x.walk : c <= i,
           y.stop = x.stop, y.start = x.start, y.newest = x.newest, y.first = x.first,
           y.was = x.was, y.mode = x.mode, y.force = x.force, y.leg = x.leg, y.ran = x.ran,
           y.got = x.got, y.cap = x.cap, y.count = x.count, y.failed = x.failed, y.rx = x.rx,
           y.cancelled = x.cancelled, y.root = (x.root \/ Parents[c] = {}),
           y.deepest = Or(x.deepest, c), y.walk = x.walk \ {c}
    PROVE  Ordered(e, h, y) /\ Below(h, y) /\ Rooted(h, y)
  <1>1. /\ x.walk \subseteq Commits /\ Commits \subseteq Nat /\ Trunk[h] \subseteq Nat
        /\ c \in Commits /\ c \in Nat /\ c # None /\ None = 0 /\ c >= 1
        /\ x.deepest \in Nat /\ Anchor(x) \in Nat /\ Bottom(x) \in Nat /\ Bottom(y) \in Nat
        /\ Top(x) \in Nat
    BY RunNumbers
  <1>2. /\ Top(y) = Top(x) /\ Anchor(y) = Anchor(x) /\ Bottom(y) = Or(x.deepest, c)
        /\ Bottom(y) # None /\ Bottom(y) <= c
        /\ Bottom(x) # None => Bottom(y) <= Bottom(x)
    BY HasOneBelow
  <1>3. ~x.was /\ Top(x) # None /\ c \in Ancestors[h] BY DEF Below
  <1>4. /\ y.deepest # None /\ OnBranch(h, y.deepest)
        /\ Anchor(y) # None => y.deepest < Anchor(y)
    BY <1>1, <1>2, <1>3 DEF Ordered, OnBranch, Below, Or
  <1>5. Ordered(e, h, y) BY <1>2, <1>3, <1>4 DEF Ordered
  <1>6. Below(h, y)
    <2>1. \A i \in y.walk : i \in x.walk /\ y.deepest < i
      <3> TAKE i \in y.walk
      <3>1. i \in x.walk /\ i # c OBVIOUS
      <3>2. i \in Nat /\ c <= i BY <1>1, <3>1
      <3>3. c < i BY <1>1, <3>1, <3>2
      <3> QED BY <3>1, <3>3 DEF Below, Or
    <2> QED BY <1>2, <1>3, <1>4, <2>1 DEF Below
  <1>7. Rooted(h, y)
    <2> SUFFICES ASSUME ~x.cancelled, y.root \/ (x.ran /\ x.got < x.cap - x.count),
                        NEW i \in Trunk[h], i <= Top(x)
                 PROVE  Reached(y, i)
      BY <1>2 DEF Rooted
    <2>1. i \in Nat BY <1>1
    <2>2. c <= i => Reached(y, i) BY <1>1, <1>2, <2>1 DEF Reached
    <2>3. CASE Parents[c] = {}
      <3> SUFFICES ASSUME i < c PROVE FALSE BY <1>1, <2>1, <2>2
      <3>1. Ancestors[c] = {c} BY <1>1, <2>3, AncestorFacts
      <3>2. i \in Ancestors[c] BY <1>1, <1>3, <2>1, TrunkFacts
      <3> QED BY <1>1, <3>1, <3>2
    <2>4. CASE Parents[c] # {}
      <3>1. Reached(x, i) \/ i \in x.walk BY <2>4 DEF Rooted
      <3>2. CASE i \in x.walk BY <2>2, <3>2
      <3>3. CASE Reached(x, i)
        <4>1. (Bottom(x) # None /\ Bottom(x) <= i) \/ (x.first # None /\ x.first <= i)
          BY <1>3, <3>3 DEF Reached
        <4> QED BY <1>1, <1>2, <2>1, <4>1 DEF Reached
      <3> QED BY <3>1, <3>2, <3>3
    <2> QED BY <2>3, <2>4
  <1> QED BY <1>5, <1>6, <1>7

\* process_commit: the oldest commit of the walk is counted and buffered.
Processed(x, y, c, w, v) ==
    /\ x.pc = "process" /\ y.pc \in {"process", "send"}
    /\ c \in x.walk /\ \A i \in x.walk : c <= i
    /\ y.stop = x.stop /\ y.start = x.start /\ y.was = x.was /\ y.mode = x.mode
    /\ y.force = x.force /\ y.leg = x.leg /\ y.ran = x.ran /\ y.got = x.got
    /\ y.cap = x.cap /\ y.count = x.count /\ y.failed = x.failed /\ y.rx = x.rx
    /\ y.cancelled = x.cancelled
    /\ y.chan = x.chan /\ y.wrote = x.wrote /\ y.buf = x.buf \cup {c}
    /\ y.root = (x.root \/ Parents[c] = {}) /\ y.walk = x.walk \ {c}
    /\ x.leg = "forward" => /\ y.newest = c /\ y.first = Or(x.first, c)
                            /\ y.deepest = x.deepest
    /\ x.leg # "forward" => /\ y.newest = x.newest /\ y.first = x.first
                            /\ y.deepest = Or(x.deepest, c)
    /\ LET a == [x.acc EXCEPT ![c] = @ + 1]
       IN  (v = w /\ y.acc = a) \/ (v = Plus(w, a) /\ y.acc = NoWeights)

\* Such a step keeps what the run claims.
LEMMA ProcessKeeps ==
    ASSUME NEW e \in BOOLEAN, NEW h \in Commits, NEW s, NEW m, NEW w \in [Commits -> Nat], NEW v,
           NEW d, NEW rep, NEW x \in RunRecord, NEW y \in RunRecord, NEW c,
           RunInv(e, h, s, m, w, d, rep, x), Processed(x, y, c, w, v)
    PROVE  RunInv(e, h, s, m, v, d, rep, y)
  <1> USE DEF Processed
  <1>1. /\ Staged(x) /\ Ordered(e, h, x) /\ Known(m, x) /\ Rooted(h, x)
        /\ x.leg = "forward" => Above(h, s, x)
        /\ x.leg = "backfill" => Below(h, x)
        /\ (x.stop = None \/ rep = "none") => Weighted(e, h, s, w, x)
        /\ x.rx # "failed" => Filed(d, h, s, x)
        /\ x.leg \in {"forward", "backfill"} /\ ~x.failed
    BY DEF RunInv, Walking, Staged, RunRecord
  <1>2. /\ Have(h, s, y) \subseteq Have(h, s, x) \cup {c}
        /\ e => Span(x) \cup {c} \subseteq Span(y) /\ c \notin Span(x)
    <2>1. CASE x.leg = "forward" BY <1>1, <2>1, HasOneAbove
    <2>2. CASE x.leg = "backfill" BY <1>1, <2>2, HasOneBelow
    <2> QED BY <1>1, <2>1, <2>2
  <1>3. /\ Ordered(e, h, y) /\ Rooted(h, y)
        /\ y.leg = "forward" => Above(h, s, y)
        /\ y.leg = "backfill" => Below(h, y)
    <2>1. CASE x.leg = "forward" BY <1>1, <2>1, ProcessAbove
    <2>2. CASE x.leg = "backfill" BY <1>1, <2>2, ProcessBelow
    <2> QED BY <1>1, <2>1, <2>2
  <1>4. (y.stop = None \/ rep = "none") => Weighted(e, h, s, v, y)
    <2>1. c \in Commits BY RunFacts
    <2> QED BY <1>1, <1>2, <2>1, WeighsMore
  <1>5. Filed(d, h, s, x) => Filed(d, h, s, y) BY <1>2 DEF Filed
  <1>6. Staged(y) BY <1>1 DEF Staged
  <1>7. Known(m, y) BY <1>1 DEF Known, Saving
  <1> QED BY <1>1, <1>3, <1>4, <1>5, <1>6, <1>7 DEF RunInv

\* The window of the backfill: the newest commits below the anchor.
LEMMA OlderAre ==
    ASSUME NEW e \in BOOLEAN, NEW h \in Commits, NEW x \in RunRecord,
           Ordered(e, h, x), NEW rest \in Int, NEW old, NEW S,
           Anchor(x) = None => old = Ancestors[h],
           Anchor(x) # None => old = Ancestors[Anchor(x)] \ {Anchor(x)},
           S = Newest(old, rest)
    PROVE  /\ S \subseteq Commits /\ Cardinality(S) \in Nat
           /\ \A c \in S : c \in Ancestors[h] /\ (Anchor(x) # None => c < Anchor(x))
           /\ \A c \in S : \A i \in Trunk[h] :
                 c < i /\ (Anchor(x) # None => i < Anchor(x)) => i \in S
           /\ Cardinality(S) < rest =>
                 \A i \in Trunk[h] : (Anchor(x) # None => i < Anchor(x)) => i \in S
  <1>1. /\ Anchor(x) \in Nat /\ Commits \subseteq Nat /\ Trunk[h] \subseteq Nat BY RunNumbers
  <1>2. Anchor(x) # None => Anchor(x) \in Ancestors[h]
    BY DEF Ordered, OnBranch, Anchor, Or
  <1>3. Ancestors[h] \subseteq Commits /\ Trunk[h] \subseteq Ancestors[h]
    BY AncestorFacts, TrunkFacts
  <1>4. Anchor(x) # None => Anchor(x) \in Commits BY <1>2, <1>3
  <1>5. old \subseteq Ancestors[h] /\ \A c \in old : Anchor(x) # None => c < Anchor(x)
    <2>1. CASE Anchor(x) = None BY <2>1
    <2>2. CASE Anchor(x) # None
      <3>1. Ancestors[Anchor(x)] \subseteq Ancestors[h] BY <1>2, <2>2, AncestorFacts
      <3>2. \A c \in Ancestors[Anchor(x)] : c <= Anchor(x) BY <1>4, <2>2, AncestorFacts
      <3>3. \A c \in old : c \in Nat /\ c <= Anchor(x) /\ c # Anchor(x) BY <1>1, <1>3, <2>2, <3>1, <3>2
      <3>4. \A c \in old : c < Anchor(x) BY <1>1, <3>3
      <3> QED BY <2>2, <3>1, <3>4
    <2> QED BY <2>1, <2>2
  <1>6. ASSUME NEW i \in Trunk[h], Anchor(x) # None => i < Anchor(x) PROVE i \in old
    <2>1. CASE Anchor(x) = None BY <1>3, <2>1
    <2>2. CASE Anchor(x) # None
      <3>1. i \in Nat /\ i <= Anchor(x) /\ i # Anchor(x) BY <1>1, <1>6, <2>2
      <3>2. i \in Ancestors[Anchor(x)] BY <1>2, <2>2, <3>1, TrunkFacts
      <3> QED BY <2>2, <3>1, <3>2
    <2> QED BY <2>1, <2>2
  <1>7. old \subseteq Commits BY <1>3, <1>5
  <1>8. /\ S \subseteq old /\ Cardinality(S) \in Nat
        /\ \A c \in S : \A i \in old : c < i => i \in S
        /\ Cardinality(S) < rest => S = old
    BY <1>7, NewestAre
  <1> QED BY <1>5, <1>6, <1>7, <1>8

\* The forward leg is over: what is left to walk lies below what the run has.
LEMMA EndForwardKeeps ==
    ASSUME NEW e \in BOOLEAN, NEW h \in Commits, NEW s, NEW m, NEW w, NEW d, NEW rep,
           NEW x \in RunRecord, NEW y \in RunRecord, RunInv(e, h, s, m, w, d, rep, x),
           x.pc = "process", x.leg = "forward", x.walk = {} \/ x.cancelled, y.pc = "process",
           SameMarks(x, y), SameDocs(x, y), y.leg = "backfill", y.acc = x.acc, y.root = x.root,
           y.failed = x.failed, y.cap = x.cap, y.count = x.count,
           y.ran => ~x.was, ~y.ran \/ x.cancelled => y.walk = {},
           \A c \in y.walk : c \in Ancestors[h] /\ (Anchor(x) # None => c < Anchor(x)),
           \A c \in y.walk : \A i \in Trunk[h] :
              c < i /\ (Anchor(x) # None => i < Anchor(x)) => i \in y.walk,
           ~x.cancelled /\ y.ran /\ y.got < x.cap - x.count =>
              \A i \in Trunk[h] : (Anchor(x) # None => i < Anchor(x)) => i \in y.walk
    PROVE  RunInv(e, h, s \ y.walk, m, w, d, rep, y)
  <1>0. /\ x.walk \subseteq Commits /\ y.walk \subseteq Commits /\ Commits \subseteq Nat
        /\ Trunk[h] \subseteq Nat /\ Top(x) \in Nat /\ Anchor(x) \in Nat
    BY RunNumbers
  <1>1. /\ Staged(x) /\ Ordered(e, h, x) /\ Known(m, x) /\ Rooted(h, x) /\ Above(h, s, x)
    BY DEF RunInv, Walking
  <1>2. /\ Bottom(y) = Bottom(x) /\ Top(y) = Top(x) /\ Anchor(y) = Anchor(x)
        /\ \A i : Reached(y, i) = Reached(x, i)
    BY SameHave
  <1>3. (Top(x) # None \/ x.cancelled) /\ x.deepest = None /\ Bottom(x) = Anchor(x)
    BY <1>1 DEF Above, Ordered, Bottom, Or
  <1>4. e => Top(x) # None /\ Bottom(x) # None
    BY <1>1, <1>3 DEF Ordered, Top, Bottom, Anchor, Or
  <1>5. Ordered(e, h, y) BY <1>1, <1>2, <1>3, <1>4 DEF Ordered, SameMarks, SameDocs
  <1>6. Below(h, y)
    <2>1. x.was \/ Top(x) = None => y.walk = {} BY <1>3
    <2> QED BY <1>2, <1>3, <2>1 DEF Below, SameMarks
  <1>7. Rooted(h, y)
    <2> SUFFICES ASSUME ~x.cancelled, x.root \/ (y.ran /\ y.got < x.cap - x.count),
                        NEW i \in Trunk[h], i <= Top(x)
                 PROVE  Reached(x, i) \/ i \in y.walk
      BY <1>2, <1>3 DEF Rooted, SameMarks
    <2>1. CASE x.root BY <1>1, <2>1 DEF Rooted
    <2>2. CASE ~x.root
      <3>1. CASE Anchor(x) # None /\ ~(i < Anchor(x))
        <4>1. Anchor(x) <= i BY <1>0, <3>1
        <4> QED BY <1>3, <3>1, <4>1 DEF Reached
      <3> QED BY <2>2, <3>1
    <2> QED BY <2>1, <2>2
  <1>8. Have(h, s \ y.walk, y) \subseteq Have(h, s, x)
    <2> SUFFICES ASSUME NEW i \in Have(h, s \ y.walk, y) PROVE i \in Have(h, s, x) OBVIOUS
    <2>1. i \in Trunk[h] /\ i <= Top(x) /\ WalkedPast(s \ y.walk, y, i) BY <1>2 DEF Have
    <2>2. i \notin x.walk BY <1>0, <1>1, <2>1 DEF Above
    <2>3. WalkedPast(s, x, i) BY <1>2, <2>1, <2>2 DEF WalkedPast, SameMarks
    <2> QED BY <2>1, <2>3 DEF Have
  <1>9. Staged(y) BY <1>1 DEF Staged, SameDocs, SameMarks
  <1>10. Known(m, y) BY <1>1 DEF Known, Saving, SameMarks
  <1>11. Weighted(e, h, s, w, x) => Weighted(e, h, s \ y.walk, w, y)
    <2>1. ASSUME e, NEW i \in Span(x) PROVE i \in Span(y)
      <3>1. i \in Nat /\ i \in Between(Bottom(x), Top(x)) /\ Anchor(x) # None /\ Anchor(x) <= i
        BY <1>0, <1>3, <1>4, <2>1 DEF Span, Between
      <3>2. i \notin y.walk BY <1>0, <3>1
      <3> QED BY <1>2, <3>1, <3>2 DEF Span
    <2>2. ASSUME e, Weighted(e, h, s, w, x), NEW c \in Commits
          PROVE  w[c] + y.acc[c] <= IF c \in Span(y) THEN 1 ELSE 0
      <3>1. w[c] + x.acc[c] <= IF c \in Span(x) THEN 1 ELSE 0 BY <2>2 DEF Weighted
      <3>2. Span(y) \subseteq Span(x)
        <4>1. x.walk = {} BY <1>1, <2>2 DEF Ordered
        <4> QED BY <1>2, <4>1 DEF Span
      <3>3. c \in Span(x) <=> c \in Span(y) BY <2>1, <2>2, <3>2
      <3> QED BY <3>1, <3>3
    <2> QED BY <1>8, <2>2 DEF Weighted
  <1>12. Filed(d, h, s, x) => Filed(d, h, s \ y.walk, y) BY <1>8 DEF Filed, SameDocs
  <1> QED BY <1>5, <1>6, <1>7, <1>9, <1>10, <1>11, <1>12 DEF RunInv, SameMarks, SameDocs

\* The walk is over and the accumulator is flushed; what a cancelled backfill
\* that has its deepest commit leaves is skipped.
LEMMA EndWalkKeeps ==
    ASSUME NEW e \in BOOLEAN, NEW h \in Commits, NEW s, NEW u, NEW m, NEW w \in [Commits -> Nat],
           NEW d, NEW rep, NEW x \in RunRecord, NEW y \in RunRecord,
           RunInv(e, h, s, m, w, d, rep, x),
           x.pc = "process", x.leg = "backfill", x.walk = {} \/ x.cancelled, y.walk = {},
           y.pc = IF x.buf = {} THEN "join" ELSE "send",
           SameMarks(x, y), SameDocs(x, y), y.leg = "closing", y.acc = NoWeights,
           y.failed = x.failed,
           y.exhausted = IF x.cancelled THEN x.was
                         ELSE x.was \/ x.root \/ (x.ran /\ x.got < x.cap - x.count),
           u = IF x.deepest = None THEN s ELSE s \cup x.walk
    PROVE  RunInv(e, h, u, m, Plus(w, x.acc), d, rep, y)
  <1>0. /\ x.walk \subseteq Commits /\ Commits \subseteq Nat /\ Trunk[h] \subseteq Nat
        /\ Anchor(x) \in Nat
    BY RunNumbers
  <1>1. /\ Staged(x) /\ Ordered(e, h, x) /\ Known(m, x) /\ Rooted(h, x) /\ Below(h, x)
    BY DEF RunInv, Walking
  <1>2. /\ Bottom(y) = Bottom(x) /\ Top(y) = Top(x) /\ Anchor(y) = Anchor(x)
        /\ \A i : Reached(y, i) = Reached(x, i)
    BY SameHave
  <1>3. Ordered(e, h, y) BY <1>1, <1>2 DEF Ordered, SameMarks, SameDocs
  <1>4. Decided(h, y)
    <2>1. x.was => Top(x) # None /\ \A i : Reached(x, i) BY <1>1 DEF Ordered, Top, Or, Reached
    <2>2. ~x.cancelled => Top(x) # None BY <1>1 DEF Ordered
    <2>3. ~x.cancelled /\ (x.root \/ (x.ran /\ x.got < x.cap - x.count)) =>
             \A i \in Trunk[h] : i <= Top(x) => Reached(x, i)
      BY <1>1 DEF Rooted
    <2>4. y.was = x.was BY DEF SameMarks
    <2> QED BY <1>2, <2>1, <2>2, <2>3, <2>4 DEF Decided
  <1>5. Staged(y) BY <1>1 DEF Staged, SameDocs, SameMarks
  <1>6. Known(m, y) BY <1>1 DEF Known, Saving, SameMarks
  <1>9. Have(h, u, y) \subseteq Have(h, s, x)
    <2> SUFFICES ASSUME NEW i \in Have(h, u, y) PROVE i \in Have(h, s, x) OBVIOUS
    <2>1. i \in Trunk[h] /\ i \in Nat /\ i <= Top(x) /\ WalkedPast(u, y, i) BY <1>0, <1>2 DEF Have
    <2>2. CASE x.first # None /\ x.first <= i BY <2>1, <2>2 DEF Have, WalkedPast
    <2>3. CASE ~(x.first # None /\ x.first <= i)
      <3>1. i \notin u /\ Reached(x, i) BY <1>2, <2>1, <2>3 DEF WalkedPast, SameMarks
      <3>2. i \notin s BY <3>1
      <3>3. i \notin x.walk
        <4> SUFFICES ASSUME i \in x.walk PROVE FALSE OBVIOUS
        <4>1. x.deepest = None /\ ~x.was BY <1>1, <3>1 DEF Below
        <4>2. Anchor(x) # None /\ Anchor(x) <= i BY <2>3, <3>1, <4>1 DEF Reached, Bottom, Or
        <4>3. i < Anchor(x) BY <1>1, <4>2 DEF Below
        <4> QED BY <1>0, <2>1, <4>2, <4>3
      <3> QED BY <2>1, <3>1, <3>2, <3>3 DEF Have, WalkedPast
    <2> QED BY <2>2, <2>3
  <1>10. e => Span(y) = Span(x)
    <2>1. e => x.walk = {} BY <1>1 DEF Ordered
    <2> QED BY <1>2, <2>1 DEF Span
  <1>7. Weighted(e, h, s, w, x) => Weighted(e, h, u, Plus(w, x.acc), y)
    <2> SUFFICES ASSUME Weighted(e, h, s, w, x), NEW c \in Commits
                 PROVE  /\ c \in Have(h, u, y) => Plus(w, x.acc)[c] + y.acc[c] > 0
                        /\ e => Plus(w, x.acc)[c] + y.acc[c] <= IF c \in Span(y) THEN 1 ELSE 0
      BY DEF Weighted
    <2>1. /\ Plus(w, x.acc)[c] \in Nat
          /\ w[c] + x.acc[c] > 0 => Plus(w, x.acc)[c] > 0
          /\ w[c] + x.acc[c] <= 1 => Plus(w, x.acc)[c] = w[c] + x.acc[c]
      BY RunFacts, PlusIs
    <2>2. y.acc[c] = 0 /\ w[c] \in Nat /\ x.acc[c] \in Nat BY RunFacts, CommitFacts
    <2>3. /\ c \in Have(h, u, y) => w[c] + x.acc[c] > 0
          /\ e => w[c] + x.acc[c] <= IF c \in Span(y) THEN 1 ELSE 0
      BY <1>9, <1>10 DEF Weighted
    <2> QED BY <2>1, <2>2, <2>3
  <1>8. Filed(d, h, s, x) => Filed(d, h, u, y) BY <1>9 DEF Filed, SameDocs
  <1> QED BY <1>3, <1>4, <1>5, <1>6, <1>7, <1>8 DEF RunInv, SameMarks, SameDocs, Walking

\* Documents move on: into the channel, into the writer, into the index.
LEMMA DocsMove ==
    ASSUME NEW e \in BOOLEAN, NEW h, NEW s, NEW m, NEW w, NEW d, NEW f, NEW rep,
           NEW x \in RunRecord, NEW y \in RunRecord, RunInv(e, h, s, m, w, d, rep, x),
           SameMarks(x, y), SameWalk(x, y), y.acc = x.acc, y.failed = x.failed,
           Staged(y), y.pc = x.pc \/ (x.pc = "send" /\ y.pc \in {"process", "join"}),
           y.rx = "failed" => ~x.force /\ (e => x.stop = None),
           y.rx # "failed" =>
              /\ x.rx # "failed"
              /\ d \cup x.wrote \cup x.buf \cup Queued(x.chan)
                    \subseteq f \cup y.wrote \cup y.buf \cup Queued(y.chan)
    PROVE  RunInv(e, h, s, m, w, f, rep, y)
  <1>1. Ordered(e, h, x) /\ Known(m, x) BY DEF RunInv
  <1>2. y.failed \/ y.rx = "failed" => ~x.force /\ (e => x.stop = None)
    BY <1>1 DEF Ordered
  <1>3. /\ Ordered(e, h, y) /\ Have(h, s, y) = Have(h, s, x) /\ Span(y) = Span(x)
        /\ Above(h, s, x) => Above(h, s, y)
        /\ Below(h, x) => Below(h, y)
        /\ Rooted(h, x) => Rooted(h, y)
        /\ Decided(h, x) => Decided(h, y)
    BY <1>1, <1>2, SamePlace
  <1>0. Bottom(y) = Bottom(x) /\ Top(y) = Top(x) BY SameHave
  <1>4. Known(m, y) BY <1>0, <1>1 DEF Known, Saving, SameMarks
  <1>5. Weighted(e, h, s, w, x) => Weighted(e, h, s, w, y) BY <1>3 DEF Weighted
  <1>6. Filed(d, h, s, x) /\ y.rx # "failed" => Filed(f, h, s, y) BY <1>3 DEF Filed
  <1>7. y.leg = x.leg /\ y.stop = x.stop BY DEF SameWalk, SameMarks
  <1>8. Walking(y) => Walking(x) BY <1>7 DEF Walking
  <1> QED BY <1>3, <1>4, <1>5, <1>6, <1>7, <1>8 DEF RunInv

\* The producer gives up: what it has not written is lost.
LEMMA FailKeeps ==
    ASSUME NEW e \in BOOLEAN, NEW h, NEW s, NEW m, NEW w, NEW d, NEW rep,
           NEW x \in RunRecord, NEW y \in RunRecord, RunInv(e, h, s, m, w, d, rep, x),
           x.pc \in {"process", "send"}, y.pc = "join", y.failed, SameMarks(x, y), y.leg = x.leg,
           y.exhausted = x.exhausted, y.buf = {}, y.walk \in {{}, x.walk}, y.acc = NoWeights,
           y.rx = x.rx, y.chan = x.chan, y.wrote = x.wrote,
           ~x.force /\ (e => x.stop = None)
    PROVE  RunInv(e, h, s, m, w, d, rep, y)
  <1>1. Staged(x) /\ Ordered(e, h, x) /\ Known(m, x) /\ (x.leg = "closing" => Decided(h, x))
    BY DEF RunInv
  <1>2. /\ Bottom(y) = Bottom(x) /\ Top(y) = Top(x) /\ Anchor(y) = Anchor(x)
        /\ \A i : Reached(y, i) = Reached(x, i)
    BY SameHave
  <1>3. Ordered(e, h, y) BY <1>1, <1>2 DEF Ordered, SameMarks
  <1>4. Staged(y) BY <1>1 DEF Staged
  <1>5. Known(m, y) BY <1>1 DEF Known, Saving, SameMarks
  <1>6. Decided(h, x) => Decided(h, y) BY <1>2 DEF Decided, SameMarks
  <1> QED BY <1>1, <1>3, <1>4, <1>5, <1>6 DEF RunInv, Walking

\* The token is cancelled: the run proves nothing any more, and keeps the rest.
LEMMA CancelKeeps ==
    ASSUME NEW h, NEW s, NEW m, NEW w, NEW d, NEW rep,
           NEW x \in RunRecord, NEW y \in RunRecord, RunInv(FALSE, h, s, m, w, d, rep, x),
           y.cancelled, y.pc = x.pc, y.acc = x.acc, y.failed = x.failed,
           y.stop = x.stop, y.start = x.start, y.was = x.was, y.newest = x.newest,
           y.first = x.first, y.deepest = x.deepest, y.mode = x.mode, y.force = x.force,
           SameWalk(x, y), SameDocs(x, y)
    PROVE  RunInv(FALSE, h, s, m, w, d, rep, y)
  <1>1. Staged(x) /\ Ordered(FALSE, h, x) /\ Known(m, x) BY DEF RunInv
  <1>2. Bottom(y) = Bottom(x) /\ Top(y) = Top(x) /\ Anchor(y) = Anchor(x) BY DEF Bottom, Top, Anchor
  <1>3. \A i : Reached(y, i) = Reached(x, i) BY <1>2 DEF Reached
  <1>4. Have(h, s, y) = Have(h, s, x) /\ Span(y) = Span(x)
    BY <1>2, <1>3 DEF Have, WalkedPast, Span, SameWalk
  <1>5. Staged(y) BY <1>1 DEF Staged, SameWalk, SameDocs
  <1>6. Ordered(FALSE, h, y) BY <1>1, <1>2 DEF Ordered, SameWalk, SameDocs
  <1>7. Known(m, y) BY <1>1, <1>2 DEF Known, Saving
  <1>8. Above(h, s, x) => Above(h, s, y) BY <1>2 DEF Above, SameWalk
  <1>9. Below(h, x) => Below(h, y) BY <1>2 DEF Below, SameWalk
  <1>10. Rooted(h, y) BY DEF Rooted
  <1>11. Decided(h, x) => Decided(h, y) BY <1>2, <1>3 DEF Decided, SameWalk
  <1>12. Weighted(FALSE, h, s, w, x) => Weighted(FALSE, h, s, w, y) BY <1>4 DEF Weighted
  <1>13. Filed(d, h, s, x) => Filed(d, h, s, y) BY <1>4 DEF Filed, SameDocs
  <1>14. y.leg = x.leg /\ y.rx = x.rx /\ Walking(y) = Walking(x) BY DEF SameWalk, SameDocs, Walking
  <1> QED BY <1>5, <1>6, <1>7, <1>8, <1>9, <1>10, <1>11, <1>12, <1>13, <1>14 DEF RunInv

\* Both sides have ended well, or a watermark has been stored.
LEMMA SaveKeeps ==
    ASSUME NEW e \in BOOLEAN, NEW h, NEW s, NEW m, NEW k, NEW w, NEW d, NEW rep,
           NEW x \in RunRecord, NEW y \in RunRecord, RunInv(e, h, s, m, w, d, rep, x),
           SameMarks(x, y), SameWalk(x, y), SameDocs(x, y), y.acc = x.acc, y.failed = x.failed,
           \/ /\ x.pc = "join" /\ ~x.failed /\ x.rx = "done" /\ y.pc = "last" /\ k = m
           \/ /\ x.pc = "last" /\ y.pc = "oldest" /\ k.last = Top(x)
              /\ k.oldest = m.oldest /\ k.complete = m.complete
           \/ /\ x.pc = "oldest" /\ y.pc = "complete" /\ k.oldest = Bottom(x)
              /\ k.last = m.last /\ k.complete = m.complete
    PROVE  RunInv(e, h, s, k, w, d, rep, y)
  <1>1. /\ Staged(x) /\ Ordered(e, h, x) /\ Known(m, x) /\ x.leg = "closing" /\ Decided(h, x)
    BY DEF RunInv, Staged
  <1>2. y.failed \/ y.rx = "failed" => ~x.force /\ (e => x.stop = None)
    BY <1>1 DEF Ordered, SameDocs
  <1>3. /\ Ordered(e, h, y) /\ Have(h, s, y) = Have(h, s, x) /\ Span(y) = Span(x) /\ Decided(h, y)
    BY <1>1, <1>2, SamePlace
  <1>4. Bottom(y) = Bottom(x) /\ Top(y) = Top(x) BY SameHave
  <1>5. Staged(y) BY <1>1 DEF Staged, SameWalk, SameDocs
  <1>6. Known(k, y) BY <1>1, <1>4 DEF Known, Saving, SameMarks
  <1>7. Weighted(e, h, s, w, x) => Weighted(e, h, s, w, y) BY <1>3 DEF Weighted
  <1>8. Filed(d, h, s, x) => Filed(d, h, s, y) BY <1>3 DEF Filed, SameDocs
  <1>9. y.leg = "closing" /\ y.stop = x.stop /\ y.rx = x.rx BY <1>1 DEF SameWalk, SameMarks, SameDocs
  <1> QED BY <1>3, <1>5, <1>6, <1>7, <1>8, <1>9 DEF RunInv, Walking

\* When a run has come to its watermarks, all they enclose is counted and
\* filed, be the oldest the new one or still the former.
LEMMA MarksAreTrue ==
    ASSUME NEW e \in BOOLEAN, NEW h \in Commits, NEW s, NEW m, NEW w \in [Commits -> Nat], NEW d,
           NEW rep, NEW x \in RunRecord, RunInv(e, h, s, m, w, d, rep, x), Saving(x),
           NEW k, k.last = Top(x), k.oldest \in {x.start, Bottom(x)}, e => k.oldest = Bottom(x),
           k.complete \in BOOLEAN, k.complete => x.exhausted \/ x.was
    PROVE  /\ Registered(e, h, s, k, d)
           /\ x.stop = None \/ rep = "none" => Tallied(e, h, s, k, w)
  <1>1. Staged(x) /\ Ordered(e, h, x) /\ x.pc # "clear" BY DEF RunInv, Saving
  <1>2. /\ x.leg = "closing" /\ x.walk = {} /\ x.buf = {} /\ x.wrote = {} /\ x.chan = <<>>
        /\ x.acc = NoWeights /\ ~x.failed /\ x.rx = "done"
    BY <1>1 DEF Staged, Saving
  <1>3. Decided(h, x) /\ Filed(d, h, s, x) /\ (x.stop = None \/ rep = "none" => Weighted(e, h, s, w, x))
    BY <1>1, <1>2 DEF RunInv
  <1>4. /\ Bottom(x) \in Nat /\ Top(x) \in Nat /\ x.start \in Nat /\ x.first \in Nat
        /\ x.stop \in Nat /\ x.newest \in Nat /\ x.deepest \in Nat /\ Anchor(x) \in Nat /\ None = 0
        /\ Trunk[h] \subseteq Nat
    BY RunNumbers
  <1>5. Have(h, s, x) \subseteq d BY <1>2, <1>3 DEF Filed, Queued
  <1>6. x.start # None => Bottom(x) # None /\ Bottom(x) <= x.start
    BY <1>1, <1>4 DEF Ordered, Bottom, Anchor, Or
  <1>7. e => Top(x) # None /\ Bottom(x) # None /\ Bottom(x) <= Top(x)
    <2>1. e => Anchor(x) # None /\ Anchor(x) <= Top(x) /\ Top(x) # None
      BY <1>1, <1>2, <1>4 DEF Ordered, Anchor, Or, Top
    <2>2. x.deepest # None /\ Anchor(x) # None => Bottom(x) <= Anchor(x)
      BY <1>1, <1>4 DEF Ordered, Bottom, Or
    <2>3. x.deepest = None => Bottom(x) = Anchor(x) BY DEF Bottom, Or
    <2>4. x.deepest # None => Bottom(x) # None BY DEF Bottom, Or
    <2> QED BY <1>4, <2>1, <2>2, <2>3, <2>4
  <1>8. Top(x) = None => /\ x.start = None /\ Bottom(x) = None /\ ~x.was /\ ~x.exhausted
    BY <1>1, <1>3 DEF Ordered, Top, Bottom, Anchor, Or, Decided
  <1>9. OnBranch(h, Top(x)) /\ OnBranch(h, x.start) /\ OnBranch(h, Bottom(x))
    BY <1>1 DEF Ordered, OnBranch, Bottom, Anchor, Or
  <1>10. Recorded(h, s, k) \subseteq Have(h, s, x)
    <2> SUFFICES ASSUME NEW i \in Recorded(h, s, k) PROVE i \in Have(h, s, x) OBVIOUS
    <2>1. /\ i \in Trunk[h] /\ i \in Nat /\ i \notin s /\ i <= Top(x)
          /\ k.complete \/ (k.oldest # None /\ k.oldest <= i)
      BY <1>4 DEF Recorded
    <2>2. Reached(x, i)
      <3>1. CASE k.complete BY <1>3, <2>1, <3>1 DEF Decided, Reached
      <3>2. CASE ~k.complete
        <4>1. Bottom(x) # None /\ Bottom(x) <= i BY <1>4, <1>6, <2>1, <3>2
        <4> QED BY <4>1 DEF Reached
      <3> QED BY <3>1, <3>2
    <2> QED BY <1>2, <2>1, <2>2 DEF Have, WalkedPast
  <1>11. Registered(e, h, s, k, d)
    <2>1. k.last = None => k.oldest = None /\ ~k.complete BY <1>8
    <2>2. OnBranch(h, k.last) /\ OnBranch(h, k.oldest) BY <1>9
    <2>3. e /\ k.last # None => k.oldest # None /\ k.oldest <= k.last BY <1>7
    <2> QED BY <1>5, <1>10, <2>1, <2>2, <2>3 DEF Registered
  <1>12. ASSUME x.stop = None \/ rep = "none" PROVE Tallied(e, h, s, k, w)
    <2> SUFFICES ASSUME NEW c \in Commits
                 PROVE  /\ c \in Recorded(h, s, k) => w[c] > 0
                        /\ e => w[c] <= IF c \in Between(k.oldest, k.last) THEN 1 ELSE 0
      BY DEF Tallied
    <2>1. x.acc[c] = 0 /\ w[c] \in Nat BY <1>2, CommitFacts
    <2>2. /\ c \in Have(h, s, x) => w[c] + x.acc[c] > 0
          /\ e => w[c] + x.acc[c] <= IF c \in Span(x) THEN 1 ELSE 0
      BY <1>3, <1>12 DEF Weighted
    <2>3. e => Span(x) = Between(k.oldest, k.last) BY <1>2 DEF Span
    <2> QED BY <1>10, <2>1, <2>2, <2>3
  <1> QED BY <1>11, <1>12

-----------------------------------------------------------------------------
(* The invariant.                                                          *)

\* What every proof below reads of the invariant at a run under way.
LEMMA Underway ==
    ASSUME WalkInv, NEW r \in Runs, run[r].pc # "idle"
    PROVE  /\ run[r] \in RunRecord
           /\ RunInv(Exact, head, skipped, meta, weight, Kept, repair, run[r])
           /\ lock = r /\ lock # Free /\ lock # Repairer /\ repair \in {"none", "purged"}
           /\ \A q \in Runs : q # r => run[q].pc = "idle" /\ run[q] = IdleRun
           /\ ~run[r].detached /\ (run[r].cancelled => Kept = Commits /\ ~Exact)
           /\ Exact \in BOOLEAN /\ head \in Commits /\ weight \in [Commits -> Nat]
  <1>1. lock = r /\ run[r] \in RunRecord BY DEF WalkInv, WalkTypes, Owners
  <1>2. lock # Free /\ lock # Repairer BY <1>1, HistoryAssumption
  <1>3. repair \in {"none", "purged"} BY <1>2 DEF WalkInv, WalkTypes, Owners
  <1>4. \A q \in Runs : q # r => run[q].pc = "idle" /\ run[q] = IdleRun
    BY <1>1 DEF WalkInv, Owners
  <1>5. ~run[r].detached BY <1>1 DEF RunRecord
  <1>6. Exact \in BOOLEAN /\ head \in Commits /\ weight \in [Commits -> Nat]
    BY DEF WalkInv, WalkTypes, Exact
  <1>7. RunInv(Exact, head, skipped, meta, weight, Kept, repair, run[r]) BY DEF WalkInv
  <1>8. run[r].cancelled => Kept = Commits /\ ~Exact BY DEF WalkInv, Owners, Kept, Exact
  <1> QED BY <1>1, <1>2, <1>3, <1>4, <1>5, <1>6, <1>7, <1>8

\* An idle run is in no stage.
LEMMA IdleFacts ==
    IdleRun \in RunRecord /\ IdleRun.pc = "idle" /\ ~Saving(IdleRun) /\ ~IdleRun.force /\ ~IdleRun.cancelled
  <1>1. <<>> \in Seq(SUBSET Commits) OBVIOUS
  <1>2. NoWeights \in [Commits -> Nat] /\ None \in Marked BY CommitFacts
  <1>3. IdleRun \in RunRecord BY <1>1, <1>2 DEF IdleRun, RunRecord
  <1> QED BY <1>3 DEF IdleRun, Saving

\* A step inside a run.
LEMMA RunGoesOn ==
    ASSUME WalkInv, NEW r \in Runs, run[r].pc # "idle",
           NEW y \in RunRecord, y.pc # "idle", run' = [run EXCEPT ![r] = y],
           UNCHANGED <<situation, head, lock, repair>>,
           RunInv(Exact, head, skipped', meta', weight', Kept', repair, y),
           meta' \in [last : Marked, oldest : Marked, complete : BOOLEAN],
           weight' \in [Commits -> Nat], docs \subseteq docs',
           y.cancelled => Cancels # "never",
           Saving(y) \/ (~Saving(run[r]) /\ meta' = meta),
           y.force = run[r].force,
           ~Saving(y) /\ ~y.force => Recorded(head, skipped', meta) \subseteq Recorded(head, skipped, meta),
           ~Exact /\ repair = "none" /\ ~Saving(y) =>
              \A c \in Recorded(head, skipped, meta) : weight[c] > 0 => weight'[c] > 0
    PROVE  WalkInv'
  <1>1. /\ run[r] \in RunRecord /\ lock = r /\ lock # Free /\ lock # Repairer
        /\ repair \in {"none", "purged"}
        /\ \A q \in Runs : q # r => run[q].pc = "idle" /\ run[q] = IdleRun
    BY Underway
  <1>2. run \in [Runs -> RunRecord] BY DEF WalkInv, WalkTypes
  <1>3. /\ run' \in [Runs -> RunRecord] /\ run'[r] = y
        /\ \A q \in Runs : q # r => run'[q].pc = "idle" /\ run'[q] = IdleRun
    BY <1>1, <1>2
  <1>4. Exact' = Exact /\ Undisturbed' = Undisturbed /\ Cancels' = Cancels
    BY DEF Exact, Undisturbed, Faults, Cancels
  <1>5. WalkTypes' BY <1>3, <1>4 DEF WalkInv, WalkTypes
  <1>6. Owners'
    <2>1. \A q \in Runs : run'[q].cancelled => Cancels' # "never" BY <1>3, <1>4, IdleFacts
    <2> QED BY <1>1, <1>3, <2>1 DEF WalkInv, Owners
  <1>7. Kept \subseteq Kept' BY <1>4 DEF Kept
  <1>8. (\A q \in Runs : ~Saving(run'[q])) => /\ ~Saving(y) /\ meta' = meta
                                              /\ \A q \in Runs : ~Saving(run[q])
    <2>1. \A q \in Runs : q # r => ~Saving(run[q]) BY <1>1, IdleFacts
    <2> QED BY <1>3, <2>1
  <1>9. Resting'
    <2>1. (\A q \in Runs : ~Saving(run'[q]) /\ ~run'[q].force) =>
             Registered(Exact, head, skipped', meta, Kept')
      <3> SUFFICES ASSUME \A q \in Runs : ~Saving(run'[q]) /\ ~run'[q].force
                   PROVE  Registered(Exact, head, skipped', meta, Kept')
        OBVIOUS
      <3>1. ~Saving(y) /\ ~y.force BY <1>3
      <3>2. \A q \in Runs : ~Saving(run[q]) /\ ~run[q].force BY <1>1, <1>8, <3>1, IdleFacts
      <3>3. Registered(Exact, head, skipped, meta, Kept) BY <1>1, <3>2 DEF WalkInv, Resting
      <3> QED BY <1>7, <3>1, <3>3 DEF Registered
    <2>2. ASSUME ~Exact, repair = "none", \A q \in Runs : ~Saving(run'[q]),
                 NEW c \in Recorded(head, skipped', meta)
          PROVE  weight'[c] > 0
      <3>1. Ordered(Exact, head, y) BY DEF RunInv
      <3>2. ~Saving(y) /\ ~y.force BY <1>3, <2>2, <3>1 DEF Ordered
      <3>3. c \in Recorded(head, skipped, meta) BY <3>2
      <3>4. weight[c] > 0 BY <1>8, <2>2, <3>3 DEF WalkInv, Resting
      <3> QED BY <2>2, <3>2, <3>3, <3>4
    <2> QED BY <1>1, <1>4, <1>8, <2>1, <2>2 DEF Resting
  <1>10. \A q \in Runs : run'[q].pc # "idle" => q = r BY <1>3
  <1> QED BY <1>3, <1>4, <1>5, <1>6, <1>9, <1>10 DEF WalkInv

\* The end of a run.
LEMMA RunEnds ==
    ASSUME WalkInv, NEW r \in Runs, run[r].pc # "idle",
           run' = [run EXCEPT ![r] = IdleRun], lock' = Free,
           UNCHANGED <<situation, head, weight, docs, skipped>>, repair' \in {"none", "purged"},
           meta' \in [last : Marked, oldest : Marked, complete : BOOLEAN],
           Registered(Exact, head, skipped, meta', Kept),
           repair' = "none" => Tallied(Exact, head, skipped, meta', weight)
    PROVE  WalkInv'
  <1>1. /\ run[r] \in RunRecord /\ lock = r
        /\ \A q \in Runs : q # r => run[q].pc = "idle" /\ run[q] = IdleRun
    BY Underway
  <1>2. run \in [Runs -> RunRecord] BY DEF WalkInv, WalkTypes
  <1>3. run' \in [Runs -> RunRecord] /\ \A q \in Runs : run'[q] = IdleRun /\ run'[q].pc = "idle"
    BY <1>1, <1>2, IdleFacts
  <1>4. Exact' = Exact /\ Undisturbed' = Undisturbed /\ Kept' = Kept
    BY DEF Exact, Undisturbed, Faults, Cancels, Kept
  <1>5. WalkTypes' BY <1>3, <1>4 DEF WalkInv, WalkTypes
  <1>6. Free # Repairer BY DEF Free, Repairer
  <1>7. Owners' BY <1>3, <1>6, IdleFacts DEF Owners
  <1>8. meta'.last = None => Recorded(head, skipped, meta') = {}
    <2>1. head \in Commits BY DEF WalkInv, WalkTypes
    <2>2. \A i \in Trunk[head] : i \in Nat /\ i >= 1 /\ None = 0 BY <2>1, TrunkFacts, CommitFacts
    <2> QED BY <2>2 DEF Recorded
  <1>9. Resting'
    <2>1. repair' = "none" => \A c \in Recorded(head, skipped, meta') : weight[c] > 0
      <3>1. Recorded(head, skipped, meta') \subseteq Commits
        <4>1. head \in Commits BY DEF WalkInv, WalkTypes
        <4> QED BY <4>1, TrunkFacts DEF Recorded
      <3> QED BY <1>8, <3>1 DEF Tallied
    <2> QED BY <1>4, <2>1 DEF Resting
  <1> QED BY <1>3, <1>5, <1>7, <1>9 DEF WalkInv

\* Without a newest watermark nothing is recorded.
LEMMA NoRecords ==
    ASSUME NEW h \in Commits, NEW s, NEW m, m.last = None
    PROVE  Recorded(h, s, m) = {}
  <1>1. \A i \in Trunk[h] : i \in Nat /\ i >= 1 /\ None = 0 BY TrunkFacts, CommitFacts
  <1> QED BY <1>1 DEF Recorded

\* Each step of the producer's task keeps the invariant.
LEMMA ClearStep ==
    ASSUME WalkInv, UNCHANGED situation, NEW r \in Runs, Clear(r)
    PROVE  WalkInv'
  <1> DEFINE x == run[r]
             y == [x EXCEPT !.pc = "walk"]
  <1>1. x.pc = "clear" BY DEF Clear
  <1>2. /\ x \in RunRecord /\ RunInv(Exact, head, skipped, meta, weight, Kept, repair, x)
        /\ ~x.detached /\ Exact \in BOOLEAN /\ head \in Commits
    BY <1>1, Underway
  <1>3. /\ run' = [run EXCEPT ![r] = y] /\ weight' = NoWeights
        /\ UNCHANGED <<head, meta, docs, lock, repair, skipped>>
    BY <1>2 DEF Clear
  <1>4. /\ y \in RunRecord /\ y.pc = "walk" /\ y.acc = x.acc /\ y.failed = x.failed
        /\ SameMarks(x, y) /\ SameWalk(x, y) /\ SameDocs(x, y)
    BY <1>2 DEF RunRecord, SameMarks, SameWalk, SameDocs
  <1> HIDE DEF y
  <1>5. Kept' = Kept BY <1>3 DEF Kept, Cancels
  <1>6. RunInv(Exact, head, skipped', meta', weight', Kept', repair, y)
    BY <1>1, <1>2, <1>3, <1>4, <1>5, ClearKeeps
  <1>7. ~Saving(x) /\ ~Saving(y) BY <1>1, <1>4 DEF Saving
  <1>8. ~Exact => Recorded(head, skipped, meta) = {}
    <2> SUFFICES ASSUME ~Exact PROVE meta.last = None BY <1>2, NoRecords
    <2>1. x.stop = None /\ Ordered(Exact, head, x) /\ Known(meta, x) BY <1>1, <1>2 DEF RunInv, Staged
    <2> QED BY <1>7, <2>1 DEF Ordered, Known
  <1>9. /\ weight' \in [Commits -> Nat]
        /\ meta' \in [last : Marked, oldest : Marked, complete : BOOLEAN]
    BY <1>3, CommitFacts DEF WalkInv, WalkTypes
  <1>10. y.cancelled => Cancels # "never" BY <1>4 DEF WalkInv, Owners, SameMarks
  <1>11. y.force = x.force /\ y.pc # "idle" BY <1>4 DEF SameMarks
  <1> HIDE DEF x
  <1> QED BY <1>1, <1>3, <1>4, <1>6, <1>7, <1>8, <1>9, <1>10, <1>11, RunGoesOn DEF x

\* Walk keeps it: the window is the upper end of what is new.
LEMMA WalkStep ==
    ASSUME WalkInv, UNCHANGED situation, NEW r \in Runs, NEW cap \in Caps, Walk(r, cap)
    PROVE  WalkInv'
  <1> DEFINE x == run[r]
             new == IF x.mode = "backfill" THEN {} ELSE NewCommits(x.stop)
             window == IF x.cancelled THEN {} ELSE Newest(new, cap)
             y == [x EXCEPT !.pc = "process", !.cap = cap, !.walk = window,
                            !.count = Cardinality(window), !.rx = "waiting"]
  <1>1. x.pc = "walk" BY DEF Walk
  <1>2. /\ x \in RunRecord /\ RunInv(Exact, head, skipped, meta, weight, Kept, repair, x)
        /\ Exact \in BOOLEAN /\ head \in Commits /\ weight \in [Commits -> Nat]
    BY <1>1, Underway
  <1>3. /\ run' = [run EXCEPT ![r] = y] /\ UNCHANGED <<head, meta, weight, docs, lock, repair>>
        /\ skipped' = IF x.stop = None THEN {} ELSE (skipped \ new) \cup (new \ window)
    BY <1>2 DEF Walk, WalkInv, WalkTypes, RunRecord
  <1>4. cap \in Nat /\ cap > 0 BY HistoryAssumption DEF Caps, WalkInv, WalkTypes
  <1>5. /\ x.mode = "backfill" => new = {}
        /\ x.mode # "backfill" /\ x.stop \in Ancestors[head] => new = {c \in Ancestors[head] : c > x.stop}
        /\ x.mode # "backfill" /\ x.stop \notin Ancestors[head] => new = Ancestors[head]
    BY DEF NewCommits
  <1> HIDE DEF new
  <1>6. Ordered(Exact, head, x) /\ Known(meta, x) /\ x.newest = None BY <1>1, <1>2 DEF RunInv, Staged
  <1>16. (x.cancelled => window = {}) /\ (~x.cancelled => window = Newest(new, cap)) OBVIOUS
  <1> HIDE DEF window
  <1>7. /\ window \subseteq Commits /\ Cardinality(window) \in Nat
        /\ \A c \in new : c \in Nat /\ x.stop < c
        /\ \A c \in window : x.stop < c /\ c \in Ancestors[head]
        /\ \A c \in window : \A i \in Trunk[head] : c < i => i \in window
        /\ window # {} => \A i \in Trunk[head] : x.stop < i => i \in new
        /\ x.stop = None => window # {} \/ x.cancelled
    <2> HIDE DEF x
    <2> QED BY <1>2, <1>4, <1>5, <1>6, <1>16, WindowIs
  <1>8. /\ y \in RunRecord /\ y.pc = "process" /\ y.rx = "waiting" /\ SameMarks(x, y)
        /\ y.walk = window /\ y.count = Cardinality(window) /\ y.cap = cap
        /\ y.leg = x.leg /\ y.ran = x.ran /\ y.root = x.root /\ y.acc = x.acc
        /\ y.failed = x.failed /\ y.buf = x.buf /\ y.chan = x.chan /\ y.wrote = x.wrote
    BY <1>2, <1>4, <1>7 DEF RunRecord, SameMarks
  <1> HIDE DEF y
  <1>9. Kept' = Kept BY <1>3 DEF Kept, Cancels
  <1>10. RunInv(Exact, head, skipped', meta', weight', Kept', repair, y)
    BY <1>1, <1>2, <1>3, <1>7, <1>8, <1>9, WalkKeeps
  <1>11. ~Saving(x) /\ ~Saving(y) /\ y.pc # "idle" /\ x.pc # "idle" BY <1>1, <1>8 DEF Saving
  <1>12. /\ meta' \in [last : Marked, oldest : Marked, complete : BOOLEAN] /\ weight' \in [Commits -> Nat]
    BY <1>2, <1>3 DEF WalkInv, WalkTypes
  <1>13. ~y.force => Recorded(head, skipped', meta) \subseteq Recorded(head, skipped, meta)
    <2> SUFFICES ASSUME ~x.force, NEW i \in Recorded(head, skipped', meta)
                 PROVE  i \in Recorded(head, skipped, meta)
      BY <1>8 DEF SameMarks
    <2>1. x.stop = meta.last BY <1>6, <1>11 DEF Known
    <2>2. x.stop # None BY <1>2, <2>1, NoRecords
    <2>3. i \in Trunk[head] /\ i \in Nat /\ x.stop \in Nat /\ i <= x.stop /\ i \notin skipped'
      BY <1>2, <2>1, RunNumbers DEF Recorded
    <2>4. i \notin new BY <1>7, <2>3
    <2>5. i \notin skipped BY <1>3, <2>2, <2>3, <2>4
    <2> QED BY <2>5 DEF Recorded
  <1>14. y.cancelled => Cancels # "never" BY <1>8 DEF WalkInv, Owners, SameMarks
  <1>15. y.force = x.force BY <1>8 DEF SameMarks
  <1> HIDE DEF x
  <1> QED BY <1>3, <1>8, <1>10, <1>11, <1>12, <1>13, <1>14, <1>15, RunGoesOn DEF x

\* Process keeps it: the commit it takes is next to what the run has.
LEMMA ProcessStep ==
    ASSUME WalkInv, UNCHANGED situation, NEW r \in Runs, Process(r)
    PROVE  WalkInv'
  <1> DEFINE x == run[r]
             c == Min(x.walk)
             a == [x.acc EXCEPT ![c] = @ + 1]
             flush == x.since + 1 >= FlushEvery
             z == Marks(x, c)
             W == z.walk \ {c}
             R == z.root \/ Parents[c] = {}
             A == IF flush THEN NoWeights ELSE a
             S == IF flush THEN 0 ELSE z.since + 1
             B == z.buf \cup {c}
             P == IF Cardinality(x.buf \cup {c}) >= BatchSize THEN "send" ELSE "process"
             y == [z EXCEPT !.walk = W, !.root = R, !.acc = A, !.since = S, !.buf = B, !.pc = P]
  <1>1. x.pc = "process" /\ x.walk # {} BY DEF Process
  <1>2. /\ x \in RunRecord /\ RunInv(Exact, head, skipped, meta, weight, Kept, repair, x)
        /\ Exact \in BOOLEAN /\ head \in Commits /\ weight \in [Commits -> Nat]
    BY <1>1, Underway
  <1>3. /\ run' = [run EXCEPT ![r] = y] /\ UNCHANGED <<head, meta, docs, lock, repair, skipped>>
        /\ weight' = IF flush THEN Plus(weight, a) ELSE weight
    BY DEF Process
  <1>4. c \in x.walk /\ (\A i \in x.walk : c <= i) /\ c \in Commits
    <2>1. x.walk \subseteq Nat /\ x.walk \subseteq Commits BY <1>2, RunFacts, CommitFacts
    <2> QED BY <1>1, <2>1, MinIsLeast
  <1> HIDE DEF c
  <1>6. a \in [Commits -> Nat] /\ NoWeights \in [Commits -> Nat]
    <2>1. x.acc \in [Commits -> Nat] BY <1>2, RunFacts
    <2>2. a \in [Commits -> Nat] BY <1>4, <2>1
    <2> QED BY <2>2, CommitFacts
  <1> HIDE DEF a
  <1>7. /\ z \in RunRecord /\ z.stop = x.stop /\ z.start = x.start /\ z.was = x.was
        /\ z.cancelled = x.cancelled /\ z.mode = x.mode /\ z.force = x.force /\ z.leg = x.leg /\ z.ran = x.ran /\ z.got = x.got
        /\ z.cap = x.cap /\ z.count = x.count /\ z.failed = x.failed /\ z.rx = x.rx
        /\ z.chan = x.chan /\ z.wrote = x.wrote /\ z.buf = x.buf /\ z.root = x.root
        /\ z.walk = x.walk /\ z.since = x.since
        /\ x.leg # "backfill" => /\ z.newest = c /\ z.first = Or(x.first, c)
                                 /\ z.deepest = x.deepest
        /\ x.leg = "backfill" => /\ z.newest = x.newest /\ z.first = x.first
                                 /\ z.deepest = Or(x.deepest, c)
    <2>1. c \in Marked /\ Or(x.first, c) \in Marked /\ Or(x.deepest, c) \in Marked
      BY <1>2, <1>4, RunFacts, CommitFacts DEF Or
    <2>2. CASE x.leg = "backfill"
      <3> DEFINE k == Or(x.deepest, c)
      <3>1. z = [x EXCEPT !.deepest = k] BY <1>2, <2>2 DEF Marks, RunRecord
      <3>2. k \in Marked BY <2>1
      <3> HIDE DEF k, z
      <3>3. /\ z \in RunRecord /\ z.stop = x.stop /\ z.start = x.start /\ z.was = x.was
            /\ z.cancelled = x.cancelled /\ z.mode = x.mode /\ z.force = x.force /\ z.leg = x.leg /\ z.ran = x.ran /\ z.got = x.got
            /\ z.cap = x.cap /\ z.count = x.count /\ z.failed = x.failed /\ z.rx = x.rx
            /\ z.chan = x.chan /\ z.wrote = x.wrote /\ z.buf = x.buf /\ z.root = x.root
            /\ z.walk = x.walk /\ z.since = x.since
            /\ z.newest = x.newest /\ z.first = x.first /\ z.deepest = k
        BY <1>2, <3>1, <3>2 DEF RunRecord
      <3> QED BY <2>2, <3>3 DEF k
    <2>3. CASE x.leg # "backfill"
      <3> DEFINE k == Or(x.first, c)
      <3>1. z = [x EXCEPT !.newest = c, !.first = k] BY <1>2, <2>3 DEF Marks, RunRecord
      <3>2. k \in Marked /\ c \in Marked BY <2>1
      <3> HIDE DEF k, z
      <3>3. /\ z \in RunRecord /\ z.stop = x.stop /\ z.start = x.start /\ z.was = x.was
            /\ z.cancelled = x.cancelled /\ z.mode = x.mode /\ z.force = x.force /\ z.leg = x.leg /\ z.ran = x.ran /\ z.got = x.got
            /\ z.cap = x.cap /\ z.count = x.count /\ z.failed = x.failed /\ z.rx = x.rx
            /\ z.chan = x.chan /\ z.wrote = x.wrote /\ z.buf = x.buf /\ z.root = x.root
            /\ z.walk = x.walk /\ z.since = x.since
            /\ z.newest = c /\ z.first = k /\ z.deepest = x.deepest
        BY <1>2, <3>1, <3>2 DEF RunRecord
      <3> QED BY <2>3, <3>3 DEF k
    <2> QED BY <2>2, <2>3
  <1> HIDE DEF z
  <1>19. /\ W \subseteq Commits /\ R \in BOOLEAN /\ A \in [Commits -> Nat] /\ S \in Nat
         /\ B \subseteq Commits /\ P \in {"process", "send"}
    <2>1. z.walk \subseteq Commits /\ z.since \in Nat /\ z.buf \subseteq Commits BY <1>7 DEF RunRecord
    <2> QED BY <1>4, <1>6, <2>1
  <1>20. W = x.walk \ {c} /\ R = (x.root \/ Parents[c] = {}) /\ B = x.buf \cup {c}
    BY <1>7
  <1>12. (weight' = weight /\ A = a) \/ (weight' = Plus(weight, a) /\ A = NoWeights)
    BY <1>3
  <1> HIDE DEF W, R, A, S, B, P
  <1>8. /\ y \in RunRecord /\ y.stop = z.stop /\ y.start = z.start /\ y.was = z.was
        /\ y.cancelled = z.cancelled /\ y.mode = z.mode /\ y.force = z.force /\ y.leg = z.leg /\ y.ran = z.ran /\ y.got = z.got
        /\ y.cap = z.cap /\ y.count = z.count /\ y.failed = z.failed /\ y.rx = z.rx
        /\ y.chan = z.chan /\ y.wrote = z.wrote /\ y.buf = B /\ y.root = R /\ y.walk = W
        /\ y.newest = z.newest /\ y.first = z.first /\ y.deepest = z.deepest
        /\ y.pc = P /\ y.acc = A
    BY <1>7, <1>19 DEF RunRecord
  <1>9. x.leg \in {"forward", "backfill"} BY <1>1, <1>2 DEF RunInv, Staged, RunRecord
  <1> HIDE DEF y
  <1>10. /\ y \in RunRecord /\ y.pc \in {"process", "send"}
         /\ y.stop = x.stop /\ y.start = x.start /\ y.was = x.was /\ y.mode = x.mode
         /\ y.cancelled = x.cancelled
         /\ y.force = x.force /\ y.leg = x.leg /\ y.ran = x.ran /\ y.got = x.got
         /\ y.cap = x.cap /\ y.count = x.count /\ y.failed = x.failed /\ y.rx = x.rx
         /\ y.chan = x.chan /\ y.wrote = x.wrote /\ y.buf = x.buf \cup {c}
         /\ y.root = (x.root \/ Parents[c] = {}) /\ y.walk = x.walk \ {c}
         /\ x.leg = "forward" => /\ y.newest = c /\ y.first = Or(x.first, c)
                                 /\ y.deepest = x.deepest
         /\ x.leg # "forward" => /\ y.newest = x.newest /\ y.first = x.first
                                 /\ y.deepest = Or(x.deepest, c)
    BY <1>7, <1>8, <1>9, <1>19, <1>20
  <1>11. Processed(x, y, c, weight, weight')
    BY <1>1, <1>4, <1>8, <1>10, <1>12 DEF Processed, a
  <1> HIDE DEF x, flush
  <1>5. Kept' = Kept BY <1>3 DEF Kept, Cancels
  <1>13. RunInv(Exact, head, skipped', meta', weight', Kept', repair, y)
    BY <1>2, <1>3, <1>5, <1>10, <1>11, ProcessKeeps
  <1>14. /\ weight' \in [Commits -> Nat]
         /\ \A i \in Commits : weight[i] > 0 => weight'[i] > 0
    <2>1. CASE weight' = weight BY <1>2, <2>1
    <2>2. CASE weight' = Plus(weight, a)
      <3>1. \A i \in Commits : weight[i] \in Nat /\ a[i] \in Nat BY <1>2, <1>6
      <3>2. \A i \in Commits : weight[i] > 0 => weight[i] + a[i] > 0 BY <3>1
      <3> QED BY <1>2, <1>6, <2>2, <3>2, PlusIs
    <2> QED BY <1>12, <2>1, <2>2
  <1>15. ~Saving(x) /\ ~Saving(y) BY <1>1, <1>10 DEF Saving
  <1>16. meta' \in [last : Marked, oldest : Marked, complete : BOOLEAN]
    BY <1>3 DEF WalkInv, WalkTypes
  <1>17. Recorded(head, skipped, meta) \subseteq Commits BY <1>2, TrunkFacts DEF Recorded
  <1>18. x.pc # "idle" /\ y.pc # "idle" BY <1>1, <1>10
  <1>21. y.cancelled => Cancels # "never" BY <1>10 DEF WalkInv, Owners, x
  <1> QED BY <1>3, <1>10, <1>13, <1>14, <1>15, <1>16, <1>17, <1>18, <1>21, RunGoesOn DEF x

\* EndForward keeps it: the backfill is the upper end of what is older.
LEMMA EndForwardStep ==
    ASSUME WalkInv, UNCHANGED situation, NEW r \in Runs, EndForward(r)
    PROVE  WalkInv'
  <1> DEFINE x == run[r]
             rest == x.cap - x.count
             ran == rest > 0 /\ x.mode # "forward" /\ ~x.was
             old == OlderCommits(Anchor(x))
             older == IF ran /\ ~x.cancelled THEN Newest(old, rest) ELSE {}
             y == [x EXCEPT !.leg = "backfill", !.ran = ran, !.walk = older, !.got = Cardinality(older)]
  <1>1. x.pc = "process" /\ x.leg = "forward" /\ (x.walk = {} \/ x.cancelled)
    BY DEF EndForward, LegOver
  <1>2. /\ x \in RunRecord /\ RunInv(Exact, head, skipped, meta, weight, Kept, repair, x)
        /\ Exact \in BOOLEAN /\ head \in Commits /\ weight \in [Commits -> Nat]
    BY <1>1, Underway
  <1>3. /\ run' = [run EXCEPT ![r] = y] /\ UNCHANGED <<head, meta, weight, docs, lock, repair>>
        /\ skipped' = skipped \ older
    BY <1>2 DEF EndForward
  <1>4. Ordered(Exact, head, x) /\ Known(meta, x) BY <1>1, <1>2 DEF RunInv
  <1>5. rest \in Int BY <1>2, RunFacts
  <1>6. /\ Anchor(x) = None => old = Ancestors[head]
        /\ Anchor(x) # None => old = Ancestors[Anchor(x)] \ {Anchor(x)}
    BY DEF OlderCommits
  <1> HIDE DEF old
  <1>7. /\ older \subseteq Commits /\ Cardinality(older) \in Nat /\ (~ran \/ x.cancelled => older = {})
        /\ \A c \in older : c \in Ancestors[head] /\ (Anchor(x) # None => c < Anchor(x))
        /\ \A c \in older : \A i \in Trunk[head] :
              c < i /\ (Anchor(x) # None => i < Anchor(x)) => i \in older
        /\ ~x.cancelled /\ ran /\ Cardinality(older) < rest =>
              \A i \in Trunk[head] : (Anchor(x) # None => i < Anchor(x)) => i \in older
    <2>1. CASE ran /\ ~x.cancelled
      <3>1. older = Newest(old, rest) BY <2>1
      <3> HIDE DEF rest, older, ran
      <3> QED BY <1>2, <1>4, <1>5, <1>6, <2>1, <3>1, OlderAre
    <2>2. CASE ~(ran /\ ~x.cancelled)
      <3>1. older = {} BY <2>2
      <3> HIDE DEF older, ran
      <3> QED BY <2>2, <3>1, FS_EmptySet
    <2> QED BY <2>1, <2>2
  <1>8. ran \in BOOLEAN /\ (ran => ~x.was) OBVIOUS
  <1> HIDE DEF older, ran
  <1>9. /\ y \in RunRecord /\ y.pc = "process" /\ SameMarks(x, y) /\ SameDocs(x, y)
        /\ y.leg = "backfill" /\ y.acc = x.acc /\ y.root = x.root /\ y.failed = x.failed
        /\ y.cap = x.cap /\ y.count = x.count /\ y.walk = older /\ y.ran = ran
        /\ y.got = Cardinality(older)
    BY <1>1, <1>2, <1>7, <1>8 DEF RunRecord, SameMarks, SameDocs
  <1> HIDE DEF y
  <1>10. RunInv(Exact, head, skipped \ older, meta, weight, Kept, repair, y)
    BY <1>1, <1>2, <1>7, <1>8, <1>9, EndForwardKeeps
  <1>11. ~Saving(x) /\ ~Saving(y) /\ x.pc # "idle" /\ y.pc # "idle" BY <1>1, <1>9 DEF Saving
  <1>12. /\ meta' \in [last : Marked, oldest : Marked, complete : BOOLEAN] /\ weight' \in [Commits -> Nat]
    BY <1>2, <1>3 DEF WalkInv, WalkTypes
  <1>13. ~y.force => Recorded(head, skipped', meta) \subseteq Recorded(head, skipped, meta)
    <2> SUFFICES ASSUME ~x.force, NEW i \in Recorded(head, skipped', meta)
                 PROVE  i \in Recorded(head, skipped, meta)
      BY <1>9 DEF SameMarks
    <2>1. x.start = meta.oldest /\ x.was = meta.complete BY <1>4, <1>11 DEF Known
    <2>2. /\ i \in Trunk[head] /\ i \in Nat /\ x.start \in Nat /\ i \notin skipped'
          /\ x.was \/ (x.start # None /\ x.start <= i)
      BY <1>2, <2>1, RunNumbers DEF Recorded
    <2>3. i \notin older
      <3>1. CASE x.was BY <1>7, <1>8, <3>1
      <3>2. CASE ~x.was
        <4>1. Anchor(x) = x.start /\ Anchor(x) # None BY <2>2, <3>2 DEF Anchor, Or
        <4>2. i \in older => i < x.start BY <1>7, <4>1
        <4> QED BY <2>2, <3>2, <4>2
      <3> QED BY <3>1, <3>2
    <2>4. i \notin skipped BY <1>3, <2>2, <2>3
    <2> QED BY <2>4 DEF Recorded
  <1>14. y.cancelled => Cancels # "never" BY <1>9 DEF WalkInv, Owners, SameMarks
  <1>15. y.force = x.force BY <1>9 DEF SameMarks
  <1>16. Kept' = Kept BY <1>3 DEF Kept, Cancels
  <1>17. RunInv(Exact, head, skipped', meta', weight', Kept', repair, y) BY <1>3, <1>10, <1>16
  <1> HIDE DEF x
  <1> QED BY <1>3, <1>9, <1>11, <1>12, <1>13, <1>14, <1>15, <1>17, RunGoesOn DEF x

\* EndWalk keeps it: the decision agrees with the deepest commit reached.
LEMMA EndWalkStep ==
    ASSUME WalkInv, UNCHANGED situation, NEW r \in Runs, EndWalk(r)
    PROVE  WalkInv'
  <1> DEFINE x == run[r]
             all == HistoryFullyIndexed(x)
             y == [x EXCEPT !.leg = "closing", !.walk = {}, !.acc = NoWeights,
                            !.exhausted = all,
                            !.pc = IF x.buf = {} THEN "join" ELSE "send"]
  <1>1. x.pc = "process" /\ x.leg = "backfill" /\ (x.walk = {} \/ x.cancelled)
    BY DEF EndWalk, LegOver
  <1>2. /\ x \in RunRecord /\ RunInv(Exact, head, skipped, meta, weight, Kept, repair, x)
        /\ Exact \in BOOLEAN /\ head \in Commits /\ weight \in [Commits -> Nat]
    BY <1>1, Underway
  <1>3. /\ run' = [run EXCEPT ![r] = y] /\ UNCHANGED <<head, meta, docs, lock, repair>>
        /\ weight' = Plus(weight, x.acc)
        /\ skipped' = IF x.deepest = None THEN skipped ELSE skipped \cup x.walk
    BY <1>2 DEF EndWalk
  <1>4. all = IF x.cancelled THEN x.was ELSE x.was \/ x.root \/ (x.ran /\ x.got < x.cap - x.count)
    BY DEF HistoryFullyIndexed
  <1>5. all \in BOOLEAN BY <1>2, <1>4, RunFacts
  <1> HIDE DEF all
  <1>6. /\ y \in RunRecord /\ SameMarks(x, y) /\ SameDocs(x, y) /\ y.leg = "closing"
        /\ y.walk = {} /\ y.acc = NoWeights /\ y.failed = x.failed /\ y.exhausted = all
        /\ y.pc = IF x.buf = {} THEN "join" ELSE "send"
    <2>1. NoWeights \in [Commits -> Nat] BY CommitFacts
    <2> QED BY <1>2, <1>5, <2>1 DEF RunRecord, SameMarks, SameDocs
  <1> HIDE DEF y
  <1>12. Kept' = Kept BY <1>3 DEF Kept, Cancels
  <1>7. RunInv(Exact, head, skipped', meta', weight', Kept', repair, y)
    BY <1>1, <1>2, <1>3, <1>4, <1>6, <1>12, EndWalkKeeps
  <1>8. /\ weight' \in [Commits -> Nat]
        /\ \A i \in Commits : weight[i] > 0 => weight'[i] > 0
    <2>1. x.acc \in [Commits -> Nat] BY <1>2, RunFacts
    <2>2. \A i \in Commits : weight[i] \in Nat /\ x.acc[i] \in Nat BY <1>2, <2>1
    <2>3. \A i \in Commits : weight[i] > 0 => weight[i] + x.acc[i] > 0 BY <2>2
    <2> QED BY <1>2, <1>3, <2>1, <2>3, PlusIs
  <1>9. ~Saving(x) /\ ~Saving(y) /\ y.pc # "idle" BY <1>1, <1>6 DEF Saving
  <1>10. meta' \in [last : Marked, oldest : Marked, complete : BOOLEAN]
    BY <1>3 DEF WalkInv, WalkTypes
  <1>11. Recorded(head, skipped, meta) \subseteq Commits BY <1>2, TrunkFacts DEF Recorded
  <1>13. Recorded(head, skipped', meta) \subseteq Recorded(head, skipped, meta)
    <2>1. skipped \subseteq skipped' BY <1>3
    <2> QED BY <2>1 DEF Recorded
  <1>14. y.cancelled => Cancels # "never" BY <1>6 DEF WalkInv, Owners, SameMarks
  <1>15. y.force = x.force BY <1>6 DEF SameMarks
  <1> HIDE DEF x
  <1> QED
    BY <1>1, <1>3, <1>6, <1>7, <1>8, <1>9, <1>10, <1>11, <1>13, <1>14, <1>15, RunGoesOn DEF x

\* A run that may fail has lost nothing the watermarks claim.
LEMMA FaultFacts ==
    ASSUME WalkInv, NEW r \in Runs, run[r].pc # "idle", FaultAllowed(run[r]) \/ run[r].cancelled
    PROVE  ~run[r].force /\ (Exact => run[r].stop = None /\ ~Saving(run[r]))
  <1>1. Ordered(Exact, head, run[r]) BY Underway DEF RunInv
  <1>2. CASE Exact
    <2>1. Faults \notin {"crash", "any"} BY <1>2 DEF Exact
    <2>2. ~run[r].cancelled BY <1>1, <1>2 DEF Ordered
    <2> QED BY <2>1, <2>2 DEF FaultAllowed, Saving
  <1>3. CASE ~Exact BY <1>1, <1>3 DEF Ordered
  <1> QED BY <1>2, <1>3

\* Where cancellation is possible documents may go missing.
LEMMA KeptMoves ==
    ASSUME UNCHANGED situation, NEW x \in RunRecord, NEW y,
           \/ Cancels # "never"
           \/ docs \cup x.wrote \cup x.buf \cup Queued(x.chan)
                 \subseteq docs' \cup y.wrote \cup y.buf \cup Queued(y.chan)
    PROVE  Kept \cup x.wrote \cup x.buf \cup Queued(x.chan)
              \subseteq Kept' \cup y.wrote \cup y.buf \cup Queued(y.chan)
  <1>1. x.wrote \subseteq Commits /\ x.buf \subseteq Commits /\ x.chan \in Seq(SUBSET Commits)
    BY DEF RunRecord
  <1>2. \A i \in DOMAIN x.chan : x.chan[i] \subseteq Commits BY <1>1
  <1>3. Queued(x.chan) \subseteq Commits BY <1>2 DEF Queued
  <1>4. Cancels' = Cancels BY DEF Cancels
  <1>5. CASE Cancels = "never" BY <1>4, <1>5 DEF Kept
  <1>6. CASE Cancels # "never"
    <2>1. Kept = Commits /\ Kept' = Commits BY <1>4, <1>6 DEF Kept
    <2> QED BY <1>1, <1>3, <2>1
  <1> QED BY <1>5, <1>6

\* Each step of the documents keeps the invariant.
LEMMA DocsStep ==
    ASSUME WalkInv, UNCHANGED <<situation, head, meta, weight, lock, repair, skipped>>, NEW r \in Runs,
           run[r].pc \notin {"idle", "oldest", "complete"},
           NEW y \in RunRecord, y.pc \notin {"idle", "oldest", "complete"}, SameMarks(run[r], y),
           run' = [run EXCEPT ![r] = y],
           docs \subseteq docs', RunInv(Exact, head, skipped, meta, weight, Kept', repair, y)
    PROVE  WalkInv'
  <1>1. weight \in [Commits -> Nat] BY Underway
  <1>2. ~Saving(run[r]) /\ ~Saving(y) BY DEF Saving
  <1>3. meta' \in [last : Marked, oldest : Marked, complete : BOOLEAN]
    BY DEF WalkInv, WalkTypes
  <1>4. y.force = run[r].force /\ (y.cancelled => Cancels # "never")
    BY DEF SameMarks, WalkInv, Owners
  <1> QED BY <1>1, <1>2, <1>3, <1>4, RunGoesOn

\* Send keeps it: the batch is queued, or the producer has failed.
LEMMA SendStep ==
    ASSUME WalkInv, UNCHANGED situation, NEW r \in Runs, Send(r)
    PROVE  WalkInv'
  <1> DEFINE x == run[r]
  <1>1. x.pc = "send" BY DEF Send
  <1>2. /\ x \in RunRecord /\ RunInv(Exact, head, skipped, meta, weight, Kept, repair, x)
        /\ Exact \in BOOLEAN
    BY <1>1, Underway
  <1>3. UNCHANGED <<head, meta, weight, docs, lock, repair, skipped>> BY DEF Send
  <1>4. Staged(x) /\ Ordered(Exact, head, x) BY <1>2 DEF RunInv
  <1>5. x.rx \in {"waiting", "open", "failed"} \/ (x.rx = "done" /\ x.cancelled)
    BY <1>1, <1>2, <1>4 DEF Staged, RunRecord
  <1>6. CASE x.rx \in {"waiting", "open"}
    <2> DEFINE q == Append(x.chan, x.buf)
               p == IF x.leg = "closing" THEN "join" ELSE "process"
               y == [x EXCEPT !.chan = q, !.buf = {}, !.pc = p]
    <2>1. run' = [run EXCEPT ![r] = y] BY <1>6 DEF Send
    <2>2. x.chan \in Seq(SUBSET Commits) /\ x.buf \in SUBSET Commits BY <1>2 DEF RunRecord
    <2>3. q \in Seq(SUBSET Commits) /\ p \in {"join", "process"} BY <2>2
    <2>4. Queued(q) = Queued(x.chan) \cup x.buf BY <2>2, QueueMoves
    <2>9. (p = "join") = (x.leg = "closing") OBVIOUS
    <2> HIDE DEF q, p
    <2>5. /\ y \in RunRecord /\ y.pc = p /\ y.chan = q /\ y.buf = {} /\ y.wrote = x.wrote
          /\ y.rx = x.rx /\ y.acc = x.acc /\ y.failed = x.failed
          /\ SameMarks(x, y) /\ SameWalk(x, y)
      BY <1>2, <2>3 DEF RunRecord, SameMarks, SameWalk
    <2> HIDE DEF y
    <2>6. Staged(y) BY <1>1, <1>4, <1>6, <2>3, <2>5, <2>9 DEF Staged, SameWalk, SameMarks
    <2>7. docs \cup x.wrote \cup x.buf \cup Queued(x.chan) \subseteq docs' \cup y.wrote \cup y.buf \cup Queued(y.chan)
      BY <1>3, <2>4, <2>5
    <2>11. Kept \cup x.wrote \cup x.buf \cup Queued(x.chan) \subseteq Kept' \cup y.wrote \cup y.buf \cup Queued(y.chan)
      BY <1>2, <2>7, KeptMoves
    <2>8. RunInv(Exact, head, skipped, meta, weight, Kept', repair, y)
      BY <1>1, <1>2, <1>6, <2>3, <2>5, <2>6, <2>11, DocsMove
    <2>10. y.pc \notin {"idle", "oldest", "complete"} BY <2>3, <2>5
    <2> QED BY <1>1, <1>3, <2>1, <2>5, <2>8, <2>10, DocsStep
  <1>7. CASE x.rx \notin {"waiting", "open"}
    <2> DEFINE y == [x EXCEPT !.pc = "join", !.failed = TRUE, !.buf = {}, !.acc = NoWeights]
    <2>1. run' = [run EXCEPT ![r] = y] BY <1>7 DEF Send
    <2>2. NoWeights \in [Commits -> Nat] BY CommitFacts
    <2>3. /\ y \in RunRecord /\ y.pc = "join" /\ y.failed /\ SameMarks(x, y) /\ y.leg = x.leg
          /\ y.exhausted = x.exhausted /\ y.buf = {} /\ y.walk = x.walk /\ y.acc = NoWeights
          /\ y.rx = x.rx /\ y.chan = x.chan /\ y.wrote = x.wrote
      BY <1>2, <2>2 DEF RunRecord, SameMarks
    <2> HIDE DEF y
    <2>4. ~x.force /\ (Exact => x.stop = None)
      <3>1. CASE x.rx = "failed" BY <1>4, <3>1 DEF Ordered
      <3>2. CASE x.cancelled BY <1>1, <3>2, FaultFacts
      <3> QED BY <1>5, <1>7, <3>1, <3>2
    <2>5. RunInv(Exact, head, skipped, meta, weight, Kept, repair, y)
      BY <1>1, <1>2, <2>3, <2>4, FailKeeps
    <2>7. Kept' = Kept BY <1>3 DEF Kept, Cancels
    <2>6. y.pc \notin {"idle", "oldest", "complete"} BY <2>3
    <2> QED BY <1>1, <1>3, <2>1, <2>3, <2>5, <2>6, <2>7, DocsStep
  <1> QED BY <1>6, <1>7

\* ProducerFails keeps it: only a run that may fail loses what it has.
LEMMA ProducerFailsStep ==
    ASSUME WalkInv, UNCHANGED situation, NEW r \in Runs, ProducerFails(r)
    PROVE  WalkInv'
  <1> DEFINE x == run[r]
             y == [x EXCEPT !.pc = "join", !.failed = TRUE, !.walk = {}, !.buf = {}, !.acc = NoWeights]
  <1>1. x.pc = "process" /\ FaultAllowed(x) BY DEF ProducerFails
  <1>2. /\ x \in RunRecord /\ RunInv(Exact, head, skipped, meta, weight, Kept, repair, x)
        /\ Exact \in BOOLEAN
    BY <1>1, Underway
  <1>3. run' = [run EXCEPT ![r] = y] /\ UNCHANGED <<head, meta, weight, docs, lock, repair, skipped>>
    BY <1>2 DEF ProducerFails
  <1>5. NoWeights \in [Commits -> Nat] BY CommitFacts
  <1>6. /\ y \in RunRecord /\ y.pc = "join" /\ y.failed /\ SameMarks(x, y) /\ y.leg = x.leg
        /\ y.exhausted = x.exhausted /\ y.buf = {} /\ y.walk = {} /\ y.acc = NoWeights
        /\ y.rx = x.rx /\ y.chan = x.chan /\ y.wrote = x.wrote
    BY <1>2, <1>5 DEF RunRecord, SameMarks
  <1> HIDE DEF y
  <1>7. ~x.force /\ (Exact => x.stop = None) BY <1>1, FaultFacts
  <1>8. RunInv(Exact, head, skipped, meta, weight, Kept, repair, y)
    BY <1>1, <1>2, <1>6, <1>7, FailKeeps
  <1>4. Kept' = Kept BY <1>3 DEF Kept, Cancels
  <1>9. y.pc \notin {"idle", "oldest", "complete"} BY <1>6
  <1> QED BY <1>1, <1>3, <1>4, <1>6, <1>8, <1>9, DocsStep

\* A step of the consumer: what it moves is kept, or it is known as lost.
LEMMA ConsumerMoves ==
    ASSUME WalkInv, UNCHANGED <<situation, head, meta, weight, lock, repair, skipped>>, NEW r \in Runs,
           run[r].rx \in {"waiting", "open"}, run[r].pc # "idle",
           NEW q \in Seq(SUBSET Commits), NEW v \in SUBSET Commits,
           NEW k \in {"waiting", "open", "done", "failed"},
           run' = [run EXCEPT ![r] = [run[r] EXCEPT !.rx = k, !.chan = q, !.wrote = v]],
           docs \subseteq docs',
           k = "done" => (run[r].pc = "join" \/ run[r].cancelled) /\ q = <<>> /\ v = {},
           k = "failed" => FaultAllowed(run[r]) \/ run[r].cancelled,
           \/ run[r].cancelled \/ k = "failed"
           \/ docs \cup run[r].wrote \cup Queued(run[r].chan) \subseteq docs' \cup v \cup Queued(q)
    PROVE  WalkInv'
  <1> DEFINE x == run[r]
             y == [x EXCEPT !.rx = k, !.chan = q, !.wrote = v]
  <1>1. /\ x \in RunRecord /\ RunInv(Exact, head, skipped, meta, weight, Kept, repair, x)
        /\ Exact \in BOOLEAN
    BY Underway
  <1>2. /\ y \in RunRecord /\ y.pc = x.pc /\ y.chan = q /\ y.buf = x.buf /\ y.wrote = v
        /\ y.rx = k /\ y.acc = x.acc /\ y.failed = x.failed
        /\ SameMarks(x, y) /\ SameWalk(x, y)
    BY <1>1 DEF RunRecord, SameMarks, SameWalk
  <1>3. run' = [run EXCEPT ![r] = y] OBVIOUS
  <1> HIDE DEF y
  <1>4. Staged(x) BY <1>1 DEF RunInv
  <1>5. x.pc \notin {"idle", "clear", "walk", "last", "oldest", "complete"} BY <1>4 DEF Staged
  <1>6. Staged(y) BY <1>2, <1>4, <1>5 DEF Staged, SameWalk, SameMarks
  <1>7. k = "failed" => ~x.force /\ (Exact => x.stop = None) BY FaultFacts
  <1>8. x.cancelled => Cancels # "never" BY DEF WalkInv, Owners
  <1>9. k # "failed" => Kept \cup x.wrote \cup x.buf \cup Queued(x.chan) \subseteq Kept' \cup y.wrote \cup y.buf \cup Queued(y.chan)
    <2> SUFFICES ASSUME k # "failed"
                 PROVE  \/ Cancels # "never"
                        \/ docs \cup x.wrote \cup x.buf \cup Queued(x.chan)
                              \subseteq docs' \cup y.wrote \cup y.buf \cup Queued(y.chan)
      BY <1>1, KeptMoves
    <2> QED BY <1>2, <1>8
  <1>10. x.rx # "failed" OBVIOUS
  <1>11. RunInv(Exact, head, skipped, meta, weight, Kept', repair, y)
    <2> HIDE DEF x
    <2> QED BY <1>1, <1>2, <1>6, <1>7, <1>9, <1>10, DocsMove
  <1> QED BY <1>2, <1>3, <1>5, <1>11, DocsStep

\* The consumer has its writer, or loses it.
LEMMA ConsumerStep ==
    ASSUME WalkInv, UNCHANGED situation, NEW r \in Runs,
           AcquireWriter(r) \/ Receive(r) \/ ConsumerEnds(r) \/ ConsumerFails(r),
           run[r].pc # "idle"
    PROVE  WalkInv'
  <1> DEFINE x == run[r]
  <1>1. x \in RunRecord BY Underway
  <1>2. /\ x.chan \in Seq(SUBSET Commits) /\ x.wrote \in SUBSET Commits /\ x.buf \in SUBSET Commits
        /\ <<>> \in Seq(SUBSET Commits)
    <2>1. <<>> \in Seq(SUBSET Commits) OBVIOUS
    <2> QED BY <1>1, <2>1 DEF RunRecord
  <1>4. UNCHANGED <<head, meta, weight, lock, repair, skipped>>
    BY DEF AcquireWriter, Receive, ConsumerEnds, ConsumerFails
  <1>5. CASE AcquireWriter(r)
    <2>1. /\ x.rx = "waiting" /\ UNCHANGED docs
          /\ run' = [run EXCEPT ![r] = [x EXCEPT !.rx = "open"]]
      BY <1>5 DEF AcquireWriter
    <2> DEFINE q == x.chan
               v == x.wrote
    <2>2. [x EXCEPT !.rx = "open"] = [x EXCEPT !.rx = "open", !.chan = q, !.wrote = v]
      BY <1>1 DEF RunRecord
    <2>3. /\ q \in Seq(SUBSET Commits) /\ v \in SUBSET Commits
          /\ docs \cup x.wrote \cup Queued(x.chan) \subseteq docs' \cup v \cup Queued(q)
      BY <1>2, <2>1
    <2> HIDE DEF q, v
    <2>4. run' = [run EXCEPT ![r] = [x EXCEPT !.rx = "open", !.chan = q, !.wrote = v]]
      BY <2>1, <2>2
    <2>5. x.rx = "waiting" /\ docs \subseteq docs' BY <2>1
    <2> QED BY <1>4, <2>3, <2>4, <2>5, ConsumerMoves
  <1>6. CASE Receive(r)
    <2>1. x.rx = "open" /\ x.chan # <<>> BY <1>6 DEF Receive
    <2>2. CASE x.cancelled
      <3>1. /\ docs' = docs \cup x.wrote
            /\ run' = [run EXCEPT ![r] = [x EXCEPT !.rx = "done", !.chan = <<>>, !.wrote = {}]]
        BY <1>6, <2>2 DEF Receive
      <3> QED BY <1>2, <1>4, <2>1, <2>2, <3>1, ConsumerMoves
    <2>3. CASE ~x.cancelled
      <3> DEFINE wrote == x.wrote \cup Head(x.chan)
                 full == Cardinality(wrote) >= CommitEvery
                 q == Tail(x.chan)
                 v == IF full THEN {} ELSE wrote
      <3>1. /\ run' = [run EXCEPT ![r] = [x EXCEPT !.chan = q, !.wrote = v]]
            /\ docs' = IF full THEN docs \cup wrote ELSE docs
        BY <1>6, <2>3 DEF Receive
      <3>2. Queued(x.chan) = Head(x.chan) \cup Queued(q) /\ Head(x.chan) \in SUBSET Commits
        BY <1>2, <2>1, QueueMoves
      <3>3. q \in Seq(SUBSET Commits) BY <1>2, <2>1
      <3>4. v \in SUBSET Commits BY <1>2, <3>2
      <3>5. docs \subseteq docs' /\ docs \cup x.wrote \cup Queued(x.chan) \subseteq docs' \cup v \cup Queued(q)
        BY <3>1, <3>2
      <3> HIDE DEF q, v
      <3>6. [x EXCEPT !.chan = q, !.wrote = v] = [x EXCEPT !.rx = "open", !.chan = q, !.wrote = v]
        BY <1>1, <2>1 DEF RunRecord
      <3>7. run' = [run EXCEPT ![r] = [x EXCEPT !.rx = "open", !.chan = q, !.wrote = v]]
        BY <3>1, <3>6
      <3> QED BY <1>4, <2>1, <3>3, <3>4, <3>5, <3>7, ConsumerMoves
    <2> QED BY <2>2, <2>3
  <1>7. CASE ConsumerEnds(r)
    <2>1. /\ x.rx = "open" /\ x.chan = <<>> /\ x.pc = "join" /\ docs' = docs \cup x.wrote
          /\ run' = [run EXCEPT ![r] = [x EXCEPT !.rx = "done", !.wrote = {}]]
      BY <1>7 DEF ConsumerEnds
    <2> DEFINE q == <<>>
               v == {}
    <2>2. [x EXCEPT !.rx = "done", !.wrote = {}] = [x EXCEPT !.rx = "done", !.chan = q, !.wrote = v]
      BY <1>1, <2>1 DEF RunRecord
    <2>3. /\ q \in Seq(SUBSET Commits) /\ v \in SUBSET Commits /\ q = <<>> /\ v = {}
          /\ docs \cup x.wrote \cup Queued(x.chan) \subseteq docs' \cup v \cup Queued(q)
      BY <1>2, <2>1
    <2> HIDE DEF q, v
    <2>4. run' = [run EXCEPT ![r] = [x EXCEPT !.rx = "done", !.chan = q, !.wrote = v]]
      BY <2>1, <2>2
    <2>5. x.rx = "open" /\ x.pc = "join" /\ docs \subseteq docs' BY <2>1
    <2> QED BY <1>4, <2>3, <2>4, <2>5, ConsumerMoves
  <1>8. CASE ConsumerFails(r)
    <2>1. /\ x.rx \in {"waiting", "open"} /\ (FaultAllowed(x) \/ x.cancelled) /\ docs \subseteq docs'
          /\ run' = [run EXCEPT ![r] = [x EXCEPT !.rx = "failed", !.chan = <<>>, !.wrote = {}]]
      BY <1>8 DEF ConsumerFails
    <2> QED BY <1>2, <1>4, <2>1, ConsumerMoves
  <1> QED BY <1>5, <1>6, <1>7, <1>8

\* A run whose token is cancelled keeps the invariant.
LEMMA CancelledStep ==
    ASSUME WalkInv, UNCHANGED situation, NEW r \in Runs, Cancel(r)
    PROVE  WalkInv'
  <1> DEFINE x == run[r]
             y == [x EXCEPT !.cancelled = TRUE]
  <1>1. x.pc # "idle" /\ Cancels # "never" BY DEF Cancel
  <1>2. /\ x \in RunRecord /\ RunInv(Exact, head, skipped, meta, weight, Kept, repair, x)
        /\ weight \in [Commits -> Nat] /\ Exact = FALSE
    BY <1>1, Underway DEF Exact
  <1>3. run' = [run EXCEPT ![r] = y] /\ UNCHANGED <<head, meta, weight, docs, lock, repair, skipped>>
    BY DEF Cancel
  <1>4. /\ y \in RunRecord /\ y.cancelled /\ y.pc = x.pc /\ y.acc = x.acc /\ y.failed = x.failed
        /\ y.stop = x.stop /\ y.start = x.start /\ y.was = x.was /\ y.newest = x.newest
        /\ y.first = x.first /\ y.deepest = x.deepest /\ y.mode = x.mode /\ y.force = x.force
        /\ SameWalk(x, y) /\ SameDocs(x, y)
    BY <1>2 DEF RunRecord, SameWalk, SameDocs
  <1> HIDE DEF y
  <1>5. RunInv(FALSE, head, skipped, meta, weight, Kept, repair, x) BY <1>2
  <1>6. RunInv(FALSE, head, skipped, meta, weight, Kept, repair, y)
    <2> HIDE DEF x
    <2> QED BY <1>2, <1>4, <1>5, CancelKeeps
  <1>7. Kept' = Kept BY <1>3 DEF Kept, Cancels
  <1>8. RunInv(Exact, head, skipped', meta', weight', Kept', repair, y) BY <1>2, <1>3, <1>6, <1>7
  <1>9. Saving(y) \/ ~Saving(x) BY <1>4 DEF Saving
  <1>10. meta' \in [last : Marked, oldest : Marked, complete : BOOLEAN] /\ y.pc # "idle"
    BY <1>1, <1>3, <1>4 DEF WalkInv, WalkTypes
  <1> HIDE DEF x
  <1> QED BY <1>1, <1>2, <1>3, <1>4, <1>8, <1>9, <1>10, RunGoesOn DEF x

\* Both sides have ended: on to the watermarks, or the end of a failed run.
LEMMA JoinStep ==
    ASSUME WalkInv, UNCHANGED situation, NEW r \in Runs, Join(r)
    PROVE  WalkInv'
  <1> DEFINE x == run[r]
             y == [x EXCEPT !.pc = "last"]
  <1>1. x.pc = "join" /\ x.rx \in {"done", "failed"} BY DEF Join
  <1>2. /\ x \in RunRecord /\ RunInv(Exact, head, skipped, meta, weight, Kept, repair, x) /\ lock = r
        /\ ~x.detached /\ Exact \in BOOLEAN /\ weight \in [Commits -> Nat] /\ head \in Commits
        /\ lock # Repairer /\ repair \in {"none", "purged"}
        /\ \A q \in Runs : q # r => run[q] = IdleRun
    BY <1>1, Underway
  <1>3. UNCHANGED <<head, meta, weight, docs, repair, skipped>> BY DEF Join
  <1>4. meta' \in [last : Marked, oldest : Marked, complete : BOOLEAN]
    BY <1>3 DEF WalkInv, WalkTypes
  <1>5. ~Saving(x) BY <1>1 DEF Saving
  <1>6. CASE x.failed \/ x.rx = "failed"
    <2>1. run' = [run EXCEPT ![r] = IdleRun] /\ lock' = Free BY <1>2, <1>6 DEF Join, End
    <2>2. Ordered(Exact, head, x) /\ Known(meta, x) BY <1>2 DEF RunInv
    <2>3. ~x.force /\ (Exact => meta.last = None) BY <1>5, <1>6, <2>2 DEF Ordered, Known
    <2>4. \A q \in Runs : ~Saving(run[q]) /\ ~run[q].force BY <1>2, <1>5, <2>3, IdleFacts
    <2>5. Registered(Exact, head, skipped, meta', Kept) BY <1>2, <1>3, <2>4 DEF WalkInv, Resting
    <2>6. ~Exact /\ repair = "none" => \A c \in Recorded(head, skipped, meta) : weight[c] > 0
      BY <2>4 DEF WalkInv, Resting
    <2>7. repair' = "none" => Tallied(Exact, head, skipped, meta', weight)
      BY <1>3, <2>3, <2>6 DEF Tallied
    <2> QED BY <1>1, <1>2, <1>3, <1>4, <2>1, <2>5, <2>7, RunEnds
  <1>7. CASE ~(x.failed \/ x.rx = "failed")
    <2>1. run' = [run EXCEPT ![r] = y] /\ lock' = lock BY <1>2, <1>7 DEF Join
    <2>2. /\ y \in RunRecord /\ y.pc = "last" /\ y.acc = x.acc /\ y.failed = x.failed
          /\ SameMarks(x, y) /\ SameWalk(x, y) /\ SameDocs(x, y)
      BY <1>2 DEF RunRecord, SameMarks, SameWalk, SameDocs
    <2> HIDE DEF y
    <2>3. RunInv(Exact, head, skipped, meta, weight, Kept, repair, y)
      BY <1>1, <1>2, <1>7, <2>2, SaveKeeps
    <2>4. Kept' = Kept BY <1>3 DEF Kept, Cancels
    <2>5. x.pc \notin {"idle", "oldest", "complete"} /\ y.pc \notin {"idle", "oldest", "complete"}
      BY <1>1, <2>2
    <2>6. docs \subseteq docs' BY <1>3
    <2> QED BY <1>3, <2>1, <2>2, <2>3, <2>4, <2>5, <2>6, DocsStep
  <1> QED BY <1>6, <1>7

\* The newest and the oldest watermark are stored.
LEMMA SaveStep ==
    ASSUME WalkInv, UNCHANGED situation, NEW r \in Runs, SaveLast(r) \/ SaveOldest(r)
    PROVE  WalkInv'
  <1> DEFINE x == run[r]
             p == IF SaveLast(r) THEN "oldest" ELSE "complete"
             y == [x EXCEPT !.pc = p]
  <1>1. x.pc \in {"last", "oldest"} BY DEF SaveLast, SaveOldest, Save
  <1>2. /\ x \in RunRecord /\ RunInv(Exact, head, skipped, meta, weight, Kept, repair, x)
        /\ ~x.detached /\ Exact \in BOOLEAN /\ weight \in [Commits -> Nat]
    BY <1>1, Underway
  <1>3. Faults # "any" BY DEF WalkInv, WalkTypes, Undisturbed, Exact
  <1>4. /\ Ordered(Exact, head, x) /\ Known(meta, x) /\ x.leg = "closing"
        /\ Top(x) \in Marked /\ Bottom(x) \in Marked
    BY <1>1, <1>2, RunFacts DEF RunInv, Staged
  <1>5. meta \in [last : Marked, oldest : Marked, complete : BOOLEAN] BY DEF WalkInv, WalkTypes
  <1>6. /\ run' = [run EXCEPT ![r] = y] /\ lock' = lock
        /\ UNCHANGED <<head, weight, docs, repair, skipped>> /\ p \in {"oldest", "complete"}
        /\ meta' \in [last : Marked, oldest : Marked, complete : BOOLEAN]
        /\ \/ /\ x.pc = "last" /\ p = "oldest" /\ meta'.last = Top(x)
              /\ meta'.oldest = meta.oldest /\ meta'.complete = meta.complete
           \/ /\ x.pc = "oldest" /\ p = "complete" /\ meta'.oldest = Bottom(x)
              /\ meta'.last = meta.last /\ meta'.complete = meta.complete
    <2>1. CASE SaveLast(r)
      <3>1. p = "oldest" BY <2>1
      <3> HIDE DEF p
      <3>2. /\ x.pc = "last" /\ run' = [run EXCEPT ![r].pc = "oldest"] /\ lock' = lock
            /\ meta' = IF Top(x) = None THEN meta ELSE [meta EXCEPT !.last = Top(x)]
            /\ UNCHANGED <<head, weight, docs, repair, skipped>>
        BY <1>2, <1>3, <2>1 DEF SaveLast, Save, Top
      <3>3. Top(x) = None => meta.last = None
        <4>1. Top(x) = None => x.stop = None BY DEF Top, Or
        <4>2. Top(x) = None => ~x.force BY <1>4 DEF Ordered
        <4> QED BY <1>4, <3>2, <4>1, <4>2 DEF Known, Saving
      <3> QED BY <1>4, <1>5, <3>1, <3>2, <3>3
    <2>2. CASE ~SaveLast(r)
      <3>1. p = "complete" BY <2>2
      <3> HIDE DEF p
      <3>2. /\ x.pc = "oldest" /\ run' = [run EXCEPT ![r].pc = "complete"] /\ lock' = lock
            /\ UNCHANGED <<head, weight, docs, repair, skipped>>
            /\ meta' = IF Bottom(x) = None THEN meta ELSE [meta EXCEPT !.oldest = Bottom(x)]
        BY <1>2, <1>3, <2>2 DEF SaveOldest, Save, Bottom, Anchor
      <3>3. Bottom(x) = None => meta.oldest = None
        <4>1. Bottom(x) = None => x.start = None /\ x.deepest = None BY DEF Bottom, Anchor, Or
        <4>2. Bottom(x) = None => ~x.force BY <1>4 DEF Ordered
        <4> QED BY <1>4, <3>2, <4>1, <4>2 DEF Known
      <3> QED BY <1>4, <1>5, <3>1, <3>2, <3>3
    <2> QED BY <2>1, <2>2
  <1> HIDE DEF p
  <1>7. /\ y \in RunRecord /\ y.pc = p /\ y.acc = x.acc /\ y.failed = x.failed
        /\ SameMarks(x, y) /\ SameWalk(x, y) /\ SameDocs(x, y)
    BY <1>2, <1>6 DEF RunRecord, SameMarks, SameWalk, SameDocs
  <1> HIDE DEF y
  <1>10. Kept' = Kept BY <1>6 DEF Kept, Cancels
  <1>8. RunInv(Exact, head, skipped', meta', weight', Kept', repair, y)
    <2>1. RunInv(Exact, head, skipped, meta', weight, Kept, repair, y)
      BY <1>2, <1>6, <1>7, SaveKeeps
    <2> QED BY <1>6, <1>10, <2>1
  <1>9. Saving(y) /\ y.pc # "idle" /\ x.pc # "idle" BY <1>1, <1>6, <1>7 DEF Saving
  <1>11. y.force = x.force /\ (y.cancelled => Cancels # "never")
    BY <1>7 DEF SameMarks, WalkInv, Owners
  <1> HIDE DEF x
  <1> QED BY <1>2, <1>6, <1>7, <1>8, <1>9, <1>11, RunGoesOn DEF x

\* The sentinel is stored and the run ends.
LEMMA CompleteStep ==
    ASSUME WalkInv, UNCHANGED situation, NEW r \in Runs, SaveComplete(r)
    PROVE  WalkInv'
  <1> DEFINE x == run[r]
  <1>1. x.pc = "complete" /\ Saving(x) BY DEF SaveComplete, Save, Saving
  <1>2. /\ x \in RunRecord /\ RunInv(Exact, head, skipped, meta, weight, Kept, repair, x)
        /\ ~x.detached /\ Exact \in BOOLEAN /\ weight \in [Commits -> Nat] /\ lock = r
        /\ repair \in {"none", "purged"} /\ x.exhausted \in BOOLEAN /\ head \in Commits
    BY <1>1, Underway DEF RunRecord
  <1>3. Faults # "any" BY DEF WalkInv, WalkTypes, Undisturbed, Exact
  <1>4. /\ run' = [run EXCEPT ![r] = IdleRun] /\ lock' = Free /\ UNCHANGED <<head, weight, docs, skipped>>
        /\ repair' = IF x.force /\ repair = "purged" THEN "none" ELSE repair
        /\ meta' = IF x.exhausted \/ x.force THEN [meta EXCEPT !.complete = x.exhausted] ELSE meta
    BY <1>2, <1>3 DEF SaveComplete, Save, End
  <1>5. /\ meta.last = Top(x) /\ meta.oldest = Bottom(x) /\ (~x.force => meta.complete = x.was)
        /\ (x.force => x.stop = None)
    BY <1>1, <1>2 DEF RunInv, Known, Ordered
  <1>7. meta \in [last : Marked, oldest : Marked, complete : BOOLEAN] BY DEF WalkInv, WalkTypes
  <1>8. /\ meta' \in [last : Marked, oldest : Marked, complete : BOOLEAN]
        /\ meta'.last = Top(x) /\ meta'.oldest = Bottom(x) /\ (meta'.complete => x.exhausted \/ x.was)
    <2>1. CASE x.exhausted \/ x.force BY <1>2, <1>4, <1>5, <1>7, <2>1
    <2>2. CASE ~(x.exhausted \/ x.force) BY <1>2, <1>4, <1>5, <1>7, <2>2
    <2> QED BY <2>1, <2>2
  <1>9. meta'.complete \in BOOLEAN BY <1>8
  <1>10. repair' \in {"none", "purged"} /\ (repair' = "none" => x.stop = None \/ repair = "none")
    BY <1>2, <1>4, <1>5
  <1>11. /\ Registered(Exact, head, skipped, meta', Kept)
         /\ x.stop = None \/ repair = "none" => Tallied(Exact, head, skipped, meta', weight)
    <2> HIDE DEF x
    <2> QED BY <1>1, <1>2, <1>8, <1>9, MarksAreTrue
  <1> QED BY <1>1, <1>4, <1>8, <1>10, <1>11, RunEnds

\* A run begins where the watermarks are, and what they enclose is there.
LEMMA BeginKeeps ==
    ASSUME NEW e \in BOOLEAN, NEW h \in Commits, NEW s, NEW w \in [Commits -> Nat], NEW d, NEW rep,
           NEW m \in [last : Marked, oldest : Marked, complete : BOOLEAN],
           NEW y \in RunRecord, Registered(e, h, s, m, d),
           rep = "none" => Tallied(e, h, s, m, w),
           y.force => e, y.mode = "backfill" => y.stop # None,
           y.stop = IF y.force THEN None ELSE m.last,
           y.start = IF y.force THEN None ELSE m.oldest,
           y.was = (~y.force /\ m.complete),
           y.pc = IF y.stop = None THEN "clear" ELSE "walk",
           y.leg = "forward", y.walk = {}, y.buf = {}, y.acc = NoWeights, y.newest = None,
           y.first = None, y.deepest = None, ~y.failed, y.chan = <<>>, y.wrote = {},
           y.rx = "none", ~y.root, ~y.ran, ~y.cancelled
    PROVE  RunInv(e, h, s, m, w, d, rep, y)
  <1>1. Staged(y) BY DEF Staged
  <1>2. Anchor(y) = y.start /\ Bottom(y) = y.start /\ Top(y) = y.stop BY DEF Anchor, Bottom, Top, Or
  <1>4. Ordered(e, h, y)
    <2>1. y.force => y.stop = None /\ y.start = None /\ ~y.was OBVIOUS
    <2>2. ~y.force => y.stop = m.last /\ y.start = m.oldest /\ (y.was => m.complete) OBVIOUS
    <2>3. CASE y.force BY <1>2, <2>1, <2>3 DEF Ordered, OnBranch
    <2>4. CASE ~y.force BY <1>2, <2>2, <2>4 DEF Ordered, OnBranch, Registered
    <2> QED BY <2>3, <2>4
  <1>5. Known(m, y) BY DEF Known, Saving
  <1>6. ~y.force => Have(h, s, y) = Recorded(h, s, m)
    <2> SUFFICES ASSUME ~y.force PROVE Have(h, s, y) = Recorded(h, s, m) OBVIOUS
    <2>1. y.stop = m.last /\ y.start = m.oldest /\ y.was = m.complete OBVIOUS
    <2>2. \A i : Reached(y, i) = (m.complete \/ (m.oldest # None /\ m.oldest <= i))
      BY <1>2, <2>1 DEF Reached
    <2>3. \A i : WalkedPast(s, y, i) = (i \notin s /\ Reached(y, i)) BY DEF WalkedPast
    <2> QED BY <1>2, <2>1, <2>2, <2>3 DEF Have, Recorded
  <1>7. y.force => Have(h, s, y) = {} BY <1>2, NothingYet
  <1>8. Filed(d, h, s, y) BY <1>6, <1>7 DEF Filed, Registered
  <1>9. ASSUME rep = "none", y.pc # "clear" PROVE Weighted(e, h, s, w, y)
    <2>1. ~y.force /\ m.last # None /\ Span(y) = Between(m.oldest, m.last) BY <1>2, <1>9 DEF Span
    <2> SUFFICES ASSUME NEW c \in Commits
                 PROVE  /\ c \in Have(h, s, y) => w[c] + y.acc[c] > 0
                        /\ e => w[c] + y.acc[c] <= IF c \in Span(y) THEN 1 ELSE 0
      BY DEF Weighted
    <2>2. w[c] \in Nat /\ y.acc[c] = 0 BY CommitFacts
    <2>3. /\ c \in Recorded(h, s, m) => w[c] > 0
          /\ e => w[c] <= IF c \in Between(m.oldest, m.last) THEN 1 ELSE 0
      BY <1>9, <2>1 DEF Tallied
    <2> QED BY <1>6, <2>1, <2>2, <2>3
  <1> QED BY <1>1, <1>4, <1>5, <1>8, <1>9 DEF RunInv, Walking

\* With the lock free nothing is under way.
LEMMA NoneUnderway ==
    ASSUME WalkInv, lock \in {Free, Repairer}
    PROVE  /\ \A r \in Runs : /\ run[r].pc = "idle" /\ run[r] = IdleRun
                              /\ ~Saving(run[r]) /\ ~run[r].force
           /\ lock = Free => /\ repair \in {"none", "purged"}
                             /\ Registered(Exact, head, skipped, meta, Kept)
  <1>1. \A r \in Runs : lock # r BY HistoryAssumption
  <1>2. \A r \in Runs : run[r].pc = "idle" /\ run[r] = IdleRun BY <1>1 DEF WalkInv, Owners
  <1>3. \A r \in Runs : ~Saving(run[r]) /\ ~run[r].force BY <1>2, IdleFacts
  <1>4. Free # Repairer BY DEF Free, Repairer
  <1>5. lock = Free => repair \in {"none", "purged"} BY <1>4 DEF WalkInv, WalkTypes, Owners
  <1>6. lock = Free => Registered(Exact, head, skipped, meta, Kept) BY <1>3, <1>4 DEF WalkInv, Resting
  <1> QED BY <1>2, <1>3, <1>5, <1>6

\* A new run has the marks it is given.
NewRun(p, mode, force, stop, start, was) ==
    [IdleRun EXCEPT !.pc = p, !.mode = mode, !.force = force, !.stop = stop,
                    !.start = start, !.was = was]

\* The fields of a new run.
LEMMA NewRunIs ==
    ASSUME NEW p \in {"clear", "walk"},
           NEW mode \in {"forward", "both", "backfill"}, NEW force \in BOOLEAN,
           NEW stop \in Marked, NEW start \in Marked, NEW was \in BOOLEAN
    PROVE  LET y == NewRun(p, mode, force, stop, start, was)
           IN  /\ y \in RunRecord /\ y.pc = p /\ y.mode = mode /\ y.force = force
               /\ y.stop = stop /\ y.start = start /\ y.was = was /\ ~y.cancelled
               /\ y.leg = "forward" /\ y.walk = {} /\ y.buf = {} /\ y.acc = NoWeights
               /\ y.newest = None /\ y.first = None /\ y.deepest = None /\ ~y.failed
               /\ y.chan = <<>> /\ y.wrote = {} /\ y.rx = "none" /\ ~y.root /\ ~y.ran
  <1> DEFINE z == IdleRun
             u == [z EXCEPT !.pc = p, !.mode = mode, !.force = force]
             y == [u EXCEPT !.stop = stop, !.start = start, !.was = was]
  <1>1. y = NewRun(p, mode, force, stop, start, was) BY DEF NewRun
  <1>2. z \in RunRecord BY IdleFacts
  <1>3. /\ z.leg = "forward" /\ z.walk = {} /\ z.buf = {} /\ z.acc = NoWeights
        /\ z.newest = None /\ z.first = None /\ z.deepest = None /\ ~z.failed /\ ~z.cancelled
        /\ z.chan = <<>> /\ z.wrote = {} /\ z.rx = "none" /\ ~z.root /\ ~z.ran
    BY DEF IdleRun
  <1> HIDE DEF z
  <1>4. /\ u \in RunRecord /\ u.pc = p /\ u.mode = mode /\ u.force = force
        /\ u.leg = z.leg /\ u.walk = z.walk /\ u.buf = z.buf /\ u.acc = z.acc
        /\ u.newest = z.newest /\ u.first = z.first /\ u.deepest = z.deepest
        /\ u.failed = z.failed /\ u.chan = z.chan /\ u.wrote = z.wrote /\ u.rx = z.rx
        /\ u.root = z.root /\ u.ran = z.ran /\ u.cancelled = z.cancelled
    BY <1>2 DEF RunRecord
  <1> HIDE DEF u
  <1>5. /\ y \in RunRecord /\ y.pc = u.pc /\ y.mode = u.mode /\ y.force = u.force
        /\ y.stop = stop /\ y.start = start /\ y.was = was
        /\ y.leg = u.leg /\ y.walk = u.walk /\ y.buf = u.buf /\ y.acc = u.acc
        /\ y.newest = u.newest /\ y.first = u.first /\ y.deepest = u.deepest
        /\ y.failed = u.failed /\ y.chan = u.chan /\ y.wrote = u.wrote /\ y.rx = u.rx
        /\ y.root = u.root /\ y.ran = u.ran /\ y.cancelled = u.cancelled
    BY <1>4 DEF RunRecord
  <1> HIDE DEF y
  <1> QED BY <1>1, <1>3, <1>4, <1>5

\* Begin keeps it.
LEMMA BeginStep ==
    ASSUME WalkInv, UNCHANGED situation, NEW r \in Runs, NEW mode \in situation.modes,
           NEW force \in situation.forces, Begin(r, mode, force)
    PROVE  WalkInv'
  <1> DEFINE stop == IF force THEN None ELSE meta.last
             start == IF force THEN None ELSE meta.oldest
             was == ~force /\ meta.complete
             p == IF stop = None THEN "clear" ELSE "walk"
             y == NewRun(p, mode, force, stop, start, was)
  <1>1. /\ lock = Free /\ lock' = r /\ run' = [run EXCEPT ![r] = y]
        /\ UNCHANGED <<head, meta, weight, docs, repair, skipped>>
        /\ mode = "backfill" => stop # None
    BY DEF Begin, NewRun
  <1>2. /\ \A q \in Runs : run[q].pc = "idle" /\ run[q] = IdleRun /\ ~Saving(run[q]) /\ ~run[q].force
        /\ repair \in {"none", "purged"} /\ Registered(Exact, head, skipped, meta, Kept)
    BY <1>1, NoneUnderway
  <1>3. /\ meta \in [last : Marked, oldest : Marked, complete : BOOLEAN] /\ head \in Commits
        /\ weight \in [Commits -> Nat] /\ run \in [Runs -> RunRecord] /\ Exact \in BOOLEAN
    BY DEF WalkInv, WalkTypes, Exact
  <1>4. mode \in {"forward", "both", "backfill"} /\ force \in BOOLEAN
    BY HistoryAssumption DEF WalkInv, WalkTypes
  <1>5. force => Exact BY <1>4 DEF WalkInv, WalkTypes, Undisturbed
  <1>6. stop \in Marked /\ start \in Marked /\ was \in BOOLEAN /\ p \in {"clear", "walk"}
    BY <1>3, <1>4, CommitFacts
  <1>7. /\ stop = IF force THEN None ELSE meta.last
        /\ start = IF force THEN None ELSE meta.oldest
        /\ was = (~force /\ meta.complete)
        /\ p = IF stop = None THEN "clear" ELSE "walk"
    OBVIOUS
  <1> HIDE DEF stop, start, was, p
  <1>9. /\ y \in RunRecord /\ y.pc = p /\ y.mode = mode /\ y.force = force /\ y.stop = stop
        /\ y.start = start /\ y.was = was /\ ~y.cancelled
        /\ y.leg = "forward" /\ y.walk = {} /\ y.buf = {} /\ y.acc = NoWeights /\ y.newest = None
        /\ y.first = None /\ y.deepest = None /\ ~y.failed /\ y.chan = <<>> /\ y.wrote = {}
        /\ y.rx = "none" /\ ~y.root /\ ~y.ran
    BY <1>4, <1>6, NewRunIs
  <1> HIDE DEF y
  <1>11. repair = "none" => Tallied(Exact, head, skipped, meta, weight)
    BY <1>1 DEF WalkInv, Resting
  <1>12. RunInv(Exact, head, skipped, meta, weight, Kept, repair, y)
    BY <1>1, <1>2, <1>3, <1>5, <1>7, <1>9, <1>11, BeginKeeps
  <1>13. /\ run' \in [Runs -> RunRecord] /\ run'[r] = y /\ y.pc # "idle" /\ ~Saving(y)
         /\ \A q \in Runs : q # r => run'[q].pc = "idle" /\ run'[q] = IdleRun
         /\ \A q \in Runs : ~Saving(run'[q]) /\ ~run'[q].cancelled
    BY <1>1, <1>2, <1>3, <1>6, <1>9, IdleFacts DEF Saving
  <1>14. Exact' = Exact /\ Undisturbed' = Undisturbed /\ Kept' = Kept
    BY <1>1 DEF Exact, Undisturbed, Faults, Cancels, Kept
  <1>15. WalkTypes' BY <1>1, <1>13, <1>14 DEF WalkInv, WalkTypes
  <1>16. lock' # Free /\ lock' # Repairer /\ lock # Repairer
    BY <1>1, HistoryAssumption DEF Free, Repairer
  <1>17. Owners' BY <1>1, <1>2, <1>13, <1>16 DEF Owners
  <1>18. Resting' BY <1>1, <1>2, <1>13, <1>14, <1>16 DEF WalkInv, Resting
  <1>19. \A q \in Runs : run'[q].pc # "idle" => q = r BY <1>13
  <1> QED BY <1>1, <1>12, <1>13, <1>14, <1>15, <1>17, <1>18, <1>19 DEF WalkInv

\* A step with no run under way, before or after.
LEMMA IdleStep ==
    ASSUME WalkInv, lock \in {Free, Repairer}, lock' \in {Free, Repairer},
           UNCHANGED <<situation, run, docs, head, skipped>>,
           weight' \in [Commits -> Nat],
           meta' \in [last : Marked, oldest : Marked, complete : BOOLEAN],
           repair' \in {"none", "purged", "last", "oldest", "complete"},
           (lock' = Repairer) = (repair' \in {"last", "oldest", "complete"}),
           repair' \in {"oldest", "complete"} => meta'.last = None,
           repair' = "complete" => meta'.oldest = None,
           lock' = Free => Registered(Exact, head, skipped, meta', Kept),
           repair' = "none" => meta'.last = None
    PROVE  WalkInv'
  <1>1. \A r \in Runs : run'[r].pc = "idle" /\ run'[r] = IdleRun /\ ~Saving(run'[r]) /\ ~run'[r].cancelled
    BY NoneUnderway, IdleFacts
  <1>2. Exact' = Exact /\ Undisturbed' = Undisturbed /\ Kept' = Kept
    BY DEF Exact, Undisturbed, Faults, Cancels, Kept
  <1>3. WalkTypes' BY <1>2 DEF WalkInv, WalkTypes
  <1>4. Owners' BY <1>1 DEF Owners
  <1>5. repair' = "none" => /\ Recorded(head, skipped, meta') = {}
                            /\ Tallied(Exact, head, skipped, meta', weight')
    <2>1. head \in Commits BY DEF WalkInv, WalkTypes
    <2> QED BY <2>1, NoRecords DEF Tallied
  <1>7. Free # Repairer BY DEF Free, Repairer
  <1>6. Resting' BY <1>2, <1>5, <1>7 DEF Resting
  <1> QED BY <1>1, <1>3, <1>4, <1>6 DEF WalkInv

\* A repair empties the graph, and a wipe goes on to the watermarks.
LEMMA RepairStep ==
    ASSUME WalkInv, UNCHANGED situation, NEW kind, RepairGraph(kind)
    PROVE  WalkInv'
  <1>1. /\ lock = Free /\ weight' = NoWeights /\ UNCHANGED <<head, meta, docs, run, skipped>>
        /\ \/ lock' = Repairer /\ repair' = "last"
           \/ lock' = Free /\ repair' = "purged"
    BY DEF RepairGraph
  <1>2. Registered(Exact, head, skipped, meta, Kept) BY <1>1, NoneUnderway
  <1>3. NoWeights \in [Commits -> Nat] BY CommitFacts
  <1>4. meta \in [last : Marked, oldest : Marked, complete : BOOLEAN] BY DEF WalkInv, WalkTypes
  <1>5. Free # Repairer BY DEF Free, Repairer
  <1>6. lock \in {Free, Repairer} /\ lock' \in {Free, Repairer} BY <1>1
  <1>7. /\ repair' \in {"none", "purged", "last", "oldest", "complete"}
        /\ (lock' = Repairer) = (repair' \in {"last", "oldest", "complete"})
        /\ repair' \notin {"oldest", "complete", "none"}
    BY <1>1, <1>5
  <1> QED BY <1>1, <1>2, <1>3, <1>4, <1>6, <1>7, IdleStep

\* WipeWatermark keeps it: the newest watermark goes first.
LEMMA WipeStep ==
    ASSUME WalkInv, UNCHANGED situation, WipeWatermark
    PROVE  WalkInv'
  <1>1. /\ repair \in {"last", "oldest", "complete"} /\ UNCHANGED <<head, weight, docs, run, skipped>>
    BY DEF WipeWatermark
  <1>2. lock = Repairer BY <1>1 DEF WalkInv, Owners
  <1>3. /\ meta \in [last : Marked, oldest : Marked, complete : BOOLEAN]
        /\ weight \in [Commits -> Nat] /\ head \in Commits
    BY DEF WalkInv, WalkTypes
  <1>4. None \in Marked BY CommitFacts
  <1>5. /\ repair \in {"oldest", "complete"} => meta.last = None
        /\ repair = "complete" => meta.oldest = None
    BY DEF WalkInv, Owners
  <1>6. Free # Repairer BY DEF Free, Repairer
  <1>7. /\ lock' \in {Free, Repairer}
        /\ meta' \in [last : Marked, oldest : Marked, complete : BOOLEAN]
        /\ repair' \in {"none", "purged", "last", "oldest", "complete"}
        /\ (lock' = Repairer) = (repair' \in {"last", "oldest", "complete"})
        /\ (repair' \in {"oldest", "complete"} => meta'.last = None)
        /\ (repair' = "complete" => meta'.oldest = None)
        /\ (repair' = "none" => meta'.last = None)
        /\ (lock' = Free => meta'.last = None /\ meta'.oldest = None /\ ~meta'.complete)
    <2>1. CASE repair = "last"
      <3>1. meta' = [meta EXCEPT !.last = None] /\ repair' = "oldest" /\ lock' = lock
        BY <2>1 DEF WipeWatermark
      <3> QED BY <1>2, <1>3, <1>4, <1>6, <3>1
    <2>2. CASE repair = "oldest"
      <3>1. meta' = [meta EXCEPT !.oldest = None] /\ repair' = "complete" /\ lock' = lock
        BY <2>2 DEF WipeWatermark
      <3> QED BY <1>2, <1>3, <1>4, <1>5, <1>6, <2>2, <3>1
    <2>3. CASE repair = "complete"
      <3>1. meta' = [meta EXCEPT !.complete = FALSE] /\ repair' = "none" /\ lock' = Free
        BY <2>3 DEF WipeWatermark
      <3>2. /\ meta' \in [last : Marked, oldest : Marked, complete : BOOLEAN]
            /\ meta'.last = meta.last /\ meta'.oldest = meta.oldest /\ ~meta'.complete
        BY <1>3, <3>1
      <3> QED BY <1>5, <1>6, <2>3, <3>1, <3>2
    <2> QED BY <1>1, <2>1, <2>2, <2>3
  <1>8. lock' = Free => Registered(Exact, head, skipped, meta', Kept)
    <2> SUFFICES ASSUME lock' = Free PROVE Registered(Exact, head, skipped, meta', Kept) OBVIOUS
    <2>1. Recorded(head, skipped, meta') = {} BY <1>3, <1>7, NoRecords
    <2> QED BY <1>7, <2>1 DEF Registered, OnBranch
  <1> QED BY <1>1, <1>2, <1>3, <1>7, <1>8, IdleStep

\* The process ends. A run caught between its watermarks has left the older
\* ones inside what it has indexed.
LEMMA CrashStep ==
    ASSUME WalkInv, UNCHANGED situation, Crash
    PROVE  WalkInv'
  <1>1. PICK r \in Runs : run[r].pc # "idle" BY DEF Crash
  <1> DEFINE x == run[r]
  <1>2. /\ FaultAllowed(x) /\ lock' = Free /\ run' = [q \in Runs |-> IdleRun]
        /\ UNCHANGED <<head, meta, weight, docs, repair, skipped>>
    BY <1>1 DEF Crash
  <1>3. /\ x \in RunRecord /\ RunInv(Exact, head, skipped, meta, weight, Kept, repair, x)
        /\ lock # Repairer /\ repair \in {"none", "purged"} /\ Exact \in BOOLEAN
        /\ \A q \in Runs : q # r => run[q].pc = "idle" /\ run[q] = IdleRun
        /\ head \in Commits /\ weight \in [Commits -> Nat]
    BY <1>1, Underway
  <1>4. run' = [run EXCEPT ![r] = IdleRun]
    <2>1. run \in [Runs -> RunRecord] BY DEF WalkInv, WalkTypes
    <2> QED BY <1>2, <1>3, <2>1
  <1>5. ~x.force /\ (Exact => x.stop = None /\ ~Saving(x)) BY <1>1, <1>2, FaultFacts
  <1>6. Known(meta, x) BY <1>3 DEF RunInv
  <1>7. meta \in [last : Marked, oldest : Marked, complete : BOOLEAN] BY DEF WalkInv, WalkTypes
  <1>8. CASE ~Saving(x)
    <2>1. \A q \in Runs : ~Saving(run[q]) /\ ~run[q].force BY <1>3, <1>5, <1>8, IdleFacts
    <2>2. Registered(Exact, head, skipped, meta', Kept) BY <1>2, <1>3, <2>1 DEF WalkInv, Resting
    <2>3. ~Exact /\ repair = "none" => \A c \in Recorded(head, skipped, meta) : weight[c] > 0
      BY <2>1 DEF WalkInv, Resting
    <2>4. Exact => meta.last = None BY <1>5, <1>6, <1>8 DEF Known
    <2>5. repair' = "none" => Tallied(Exact, head, skipped, meta', weight)
      BY <1>2, <2>3, <2>4 DEF Tallied
    <2> QED BY <1>1, <1>2, <1>3, <1>4, <1>7, <2>2, <2>5, RunEnds
  <1>9. CASE Saving(x)
    <2>1. ~Exact BY <1>5, <1>9
    <2>2. /\ meta.last = Top(x) /\ meta.oldest \in {x.start, Bottom(x)} /\ meta.complete = x.was
      BY <1>5, <1>6, <1>9 DEF Known, Saving
    <2>3. meta.complete \in BOOLEAN BY <1>7
    <2>4. /\ Registered(Exact, head, skipped, meta, Kept)
          /\ x.stop = None \/ repair = "none" => Tallied(Exact, head, skipped, meta, weight)
      <3> HIDE DEF x
      <3> QED BY <1>3, <1>9, <2>1, <2>2, <2>3, MarksAreTrue
    <2> QED BY <1>1, <1>2, <1>3, <1>4, <1>7, <2>4, RunEnds
  <1> QED BY <1>8, <1>9

\* New commits are above everything a run has, and end no trunk below them.
LEMMA HeadKeeps ==
    ASSUME NEW e \in BOOLEAN, NEW h \in Commits, NEW g \in Commits, h \in Ancestors[g],
           NEW s, NEW m, NEW w, NEW d, NEW rep,
           NEW x \in RunRecord, RunInv(e, h, s, m, w, d, rep, x)
    PROVE  RunInv(e, g, s, m, w, d, rep, x)
  <1>1. Ancestors[h] \subseteq Ancestors[g] BY AncestorFacts
  <1>2. \A i \in Trunk[g] : i <= h => i \in Trunk[h] BY TrunkFacts
  <1>3. /\ Trunk[g] \subseteq Nat /\ h \in Nat /\ Top(x) \in Nat /\ None = 0
        /\ x.walk \subseteq Nat
    <2>1. Trunk[g] \subseteq Commits BY TrunkFacts
    <2> QED BY <2>1, RunNumbers
  <1>4. \A k \in Ancestors[h] : k <= h BY AncestorFacts
  <1>5. Ordered(e, h, x) BY DEF RunInv
  <1>6. Top(x) <= h BY <1>3, <1>4, <1>5 DEF Ordered, OnBranch
  <1>7. \A i \in Trunk[g] : i <= Top(x) => i \in Trunk[h] BY <1>2, <1>3, <1>6
  <1>8. Ordered(e, g, x) BY <1>1, <1>5 DEF Ordered, OnBranch
  <1>9. Above(h, s, x) => Above(g, s, x)
    <2> SUFFICES ASSUME Above(h, s, x) PROVE Above(g, s, x) OBVIOUS
    <2>1. \A c \in x.walk : c \in Nat /\ c <= h BY <1>3, <1>4 DEF Above
    <2>2. \A c \in x.walk : \A i \in Trunk[g] : i < c => i \in Trunk[h] BY <1>2, <1>3, <2>1
    <2> QED BY <1>1, <2>2 DEF Above
  <1>10. Below(h, x) => Below(g, x) BY <1>1, <1>7 DEF Below
  <1>11. Rooted(h, x) => Rooted(g, x) BY <1>7 DEF Rooted
  <1>12. Decided(h, x) => Decided(g, x) BY <1>7 DEF Decided
  <1>13. Have(g, s, x) \subseteq Have(h, s, x) BY <1>7 DEF Have
  <1>14. Weighted(e, h, s, w, x) => Weighted(e, g, s, w, x) BY <1>13 DEF Weighted
  <1>15. Filed(d, h, s, x) => Filed(d, g, s, x) BY <1>13 DEF Filed
  <1> QED BY <1>8, <1>9, <1>10, <1>11, <1>12, <1>14, <1>15 DEF RunInv

\* Advance keeps it.
LEMMA AdvanceStep ==
    ASSUME WalkInv, UNCHANGED situation, Advance
    PROVE  WalkInv'
  <1>1. /\ head' \in Commits /\ head \in Ancestors[head']
        /\ UNCHANGED <<meta, weight, docs, lock, run, repair, skipped>>
    BY DEF Advance
  <1>2. /\ head \in Commits /\ run \in [Runs -> RunRecord] /\ Exact \in BOOLEAN
        /\ meta \in [last : Marked, oldest : Marked, complete : BOOLEAN]
    BY DEF WalkInv, WalkTypes, Exact
  <1>3. Exact' = Exact /\ Undisturbed' = Undisturbed /\ Kept' = Kept /\ Cancels' = Cancels
    BY <1>1 DEF Exact, Undisturbed, Faults, Cancels, Kept
  <1>5. WalkTypes' BY <1>1, <1>3 DEF WalkInv, WalkTypes
  <1>6. Owners' BY <1>1, <1>3 DEF WalkInv, Owners
  <1>7. OnBranch(head, meta.last) => Recorded(head', skipped, meta) \subseteq Recorded(head, skipped, meta)
    <2> SUFFICES ASSUME OnBranch(head, meta.last), NEW i \in Recorded(head', skipped, meta)
                 PROVE  i \in Recorded(head, skipped, meta)
      OBVIOUS
    <2>1. i \in Trunk[head'] /\ i <= meta.last BY DEF Recorded
    <2>2. i \in Nat /\ i >= 1 /\ head \in Nat /\ meta.last \in Nat /\ None = 0
      BY <1>1, <1>2, <2>1, TrunkFacts, CommitFacts
    <2>3. meta.last # None BY <2>1, <2>2
    <2>4. meta.last <= head BY <1>2, <2>3, AncestorFacts DEF OnBranch
    <2>5. i \in Trunk[head]
      <3>1. i <= head BY <2>1, <2>2, <2>4
      <3> QED BY <1>1, <2>1, <3>1, TrunkFacts
    <2> QED BY <2>5 DEF Recorded
  <1>8. Ancestors[head] \subseteq Ancestors[head'] BY <1>1, AncestorFacts
  <1>9. Registered(Exact, head, skipped, meta, Kept) => Registered(Exact, head', skipped, meta, Kept)
    BY <1>7, <1>8 DEF Registered, OnBranch
  <1>10. \A r \in Runs : run[r].pc # "idle" =>
            RunInv(Exact, head', skipped, meta, weight, Kept, repair, run[r])
    <2> TAKE r \in Runs
    <2> HAVE run[r].pc # "idle"
    <2>1. run[r] \in RunRecord /\ RunInv(Exact, head, skipped, meta, weight, Kept, repair, run[r])
      BY Underway
    <2> QED BY <1>1, <1>2, <2>1, HeadKeeps
  <1>11. OnBranch(head, meta.last) \/ lock = Repairer \/ \E r \in Runs : Saving(run[r]) \/ run[r].force
    BY DEF WalkInv, Resting, Registered
  <1>12. Resting'
    <2>1. lock # Repairer /\ (\A r \in Runs : ~Saving(run[r]) /\ ~run[r].force) =>
             Registered(Exact, head', skipped, meta, Kept)
      BY <1>9 DEF WalkInv, Resting
    <2>2. lock = Free /\ repair = "none" => Tallied(Exact, head', skipped, meta, weight)
      <3> SUFFICES ASSUME lock = Free, repair = "none"
                   PROVE  Tallied(Exact, head', skipped, meta, weight)
        OBVIOUS
      <3>1. OnBranch(head, meta.last) BY NoneUnderway DEF Registered
      <3>2. Tallied(Exact, head, skipped, meta, weight) BY DEF WalkInv, Resting
      <3> QED BY <1>7, <3>1, <3>2 DEF Tallied
    <2>3. ASSUME ~Exact, repair = "none", \A r \in Runs : ~Saving(run[r]),
                 NEW c \in Recorded(head', skipped, meta)
          PROVE  weight[c] > 0
      <3>1. \A r \in Runs : ~run[r].force
        <4> SUFFICES ASSUME NEW r \in Runs PROVE ~run[r].force OBVIOUS
        <4>1. CASE run[r].pc = "idle" BY <4>1, IdleFacts DEF WalkInv, Owners
        <4>2. CASE run[r].pc # "idle"
          <5>1. Ordered(Exact, head, run[r]) BY <4>2, Underway DEF RunInv
          <5> QED BY <2>3, <5>1 DEF Ordered
        <4> QED BY <4>1, <4>2
      <3>2. lock # Repairer BY <2>3 DEF WalkInv, Owners
      <3>3. OnBranch(head, meta.last) BY <1>11, <2>3, <3>1, <3>2
      <3>4. c \in Recorded(head, skipped, meta) BY <1>7, <3>3
      <3> QED BY <2>3, <3>4 DEF WalkInv, Resting
    <2> QED BY <1>1, <1>3, <2>1, <2>2, <2>3 DEF Resting
  <1> QED BY <1>1, <1>3, <1>5, <1>6, <1>10, <1>12 DEF WalkInv

\* Nobody has a consumer while idle.
LEMMA ConsumerIsUnderway ==
    ASSUME WalkInv, NEW r \in Runs, run[r].rx \in {"waiting", "open"}
    PROVE  run[r].pc # "idle"
  BY DEF WalkInv, Owners, IdleRun

\* The invariant is inductive.
LEMMA WalkInvInit == ASSUME WalkInit, Undisturbed PROVE WalkInv
  <1>1. \A r \in Runs : /\ run[r] = IdleRun /\ run[r].pc = "idle" /\ ~Saving(run[r])
                        /\ ~run[r].cancelled
    BY IdleFacts DEF WalkInit
  <1>2. run \in [Runs -> RunRecord] BY IdleFacts DEF WalkInit
  <1>3. None \in Marked /\ NoWeights \in [Commits -> Nat] BY CommitFacts
  <1>4. Free # Repairer BY DEF Free, Repairer
  <1>5. /\ meta \in [last : Marked, oldest : Marked, complete : BOOLEAN]
        /\ meta.last = None /\ meta.oldest = None /\ ~meta.complete /\ head \in Commits
    BY <1>3 DEF WalkInit
  <1>6. WalkTypes BY <1>2, <1>3, <1>5 DEF WalkInit, WalkTypes
  <1>7. Owners BY <1>1, <1>4 DEF Owners, WalkInit
  <1>9. Recorded(head, skipped, meta) = {} BY <1>5, NoRecords
  <1>10. Registered(Exact, head, skipped, meta, Kept) BY <1>5, <1>9 DEF Registered, OnBranch
  <1>11. Resting BY <1>5, <1>9, <1>10 DEF Resting, Tallied
  <1> QED BY <1>1, <1>6, <1>7, <1>11 DEF WalkInv

\* Every step keeps it.
LEMMA WalkInvStep ==
    ASSUME WalkInv, [WalkNext /\ UNCHANGED situation]_<<walkVars, situation>>
    PROVE  WalkInv'
  <1>1. CASE UNCHANGED <<walkVars, situation>>
    <2>1. UNCHANGED <<head, meta, weight, docs, lock, run, repair, skipped, situation>>
      BY <1>1 DEF walkVars
    <2>2. Exact' = Exact /\ Undisturbed' = Undisturbed /\ Kept' = Kept /\ Cancels' = Cancels
      BY <2>1 DEF Exact, Undisturbed, Faults, Cancels, Kept
    <2>3. WalkTypes' /\ Owners' BY <2>1, <2>2 DEF WalkInv, WalkTypes, Owners
    <2>4. Resting' BY <2>1, <2>2 DEF WalkInv, Resting
    <2> QED BY <2>1, <2>2, <2>3, <2>4 DEF WalkInv
  <1>2. ASSUME WalkNext, UNCHANGED situation PROVE WalkInv'
    <2>1. ASSUME NEW r \in Runs,
                 \E mode \in situation.modes, force \in situation.forces : Begin(r, mode, force)
          PROVE  WalkInv'
      BY <1>2, <2>1, BeginStep
    <2>2. ASSUME NEW r \in Runs, AcquireWriter(r) \/ Receive(r) \/ ConsumerEnds(r) \/ ConsumerFails(r)
          PROVE  WalkInv'
      <3>1. run[r].rx \in {"waiting", "open"}
        BY <2>2 DEF AcquireWriter, Receive, ConsumerEnds, ConsumerFails
      <3>2. run[r].pc # "idle" BY <3>1, ConsumerIsUnderway
      <3> QED BY <1>2, <2>2, <3>2, ConsumerStep
    <2>3. ASSUME NEW r \in Runs, Step(r) PROVE WalkInv'
      <3>1. CASE Clear(r) BY <1>2, <3>1, ClearStep
      <3>2. CASE \E cap \in Caps : Walk(r, cap) BY <1>2, <3>2, WalkStep
      <3>3. CASE Process(r) BY <1>2, <3>3, ProcessStep
      <3>4. CASE EndForward(r) BY <1>2, <3>4, EndForwardStep
      <3>5. CASE EndWalk(r) BY <1>2, <3>5, EndWalkStep
      <3>6. CASE Send(r) BY <1>2, <3>6, SendStep
      <3>7. CASE AcquireWriter(r) \/ Receive(r) \/ ConsumerEnds(r) BY <2>2, <3>7
      <3>8. CASE Join(r) BY <1>2, <3>8, JoinStep
      <3>9. CASE SaveLast(r) \/ SaveOldest(r) BY <1>2, <3>9, SaveStep
      <3>10. CASE SaveComplete(r) BY <1>2, <3>10, CompleteStep
      <3> QED BY <2>3, <3>1, <3>2, <3>3, <3>4, <3>5, <3>6, <3>7, <3>8, <3>9, <3>10 DEF Step
    <2>4. ASSUME NEW r \in Runs, ProducerFails(r) PROVE WalkInv' BY <1>2, <2>4, ProducerFailsStep
    <2>5. ASSUME NEW r \in Runs, Cancel(r) PROVE WalkInv' BY <1>2, <2>5, CancelledStep
    <2>6. ASSUME NEW r \in Runs, Abort(r) PROVE WalkInv'
      <3>1. Cancels # "abort" BY DEF WalkInv, WalkTypes, Undisturbed
      <3> QED BY <2>6, <3>1 DEF Abort
    <2>7. ASSUME NEW kind, RepairGraph(kind) PROVE WalkInv' BY <1>2, <2>7, RepairStep
    <2>8. CASE WipeWatermark BY <1>2, <2>8, WipeStep
    <2>9. CASE Crash BY <1>2, <2>9, CrashStep
    <2>10. CASE Advance BY <1>2, <2>10, AdvanceStep
    <2> QED BY <1>2, <2>1, <2>2, <2>3, <2>4, <2>5, <2>6, <2>7, <2>8, <2>9, <2>10 DEF WalkNext
  <1> QED BY <1>1, <1>2

\* At rest it says what is claimed: no more than what is recorded.
LEMMA WalkInvIsSound == ASSUME WalkInv PROVE HistoryIsSound
  <1> SUFFICES ASSUME AtRest, meta.last # None, repair = "none"
               PROVE  /\ \A c \in Claimed : weight[c] > 0
                      /\ Exact => \A c \in Commits : weight[c] <= IF c \in Window THEN 1 ELSE 0
                      /\ Cancels = "never" => Claimed \subseteq docs
    BY DEF HistoryIsSound, Exact
  <1>1. lock = Free /\ Registered(Exact, head, skipped, meta, Kept) BY NoneUnderway DEF AtRest
  <1>2. /\ meta.last \in Marked /\ meta.oldest \in Marked /\ head \in Commits
    BY DEF WalkInv, WalkTypes
  <1>3. meta.last \in Commits BY <1>2, CommitFacts
  <1>4. Window = Between(meta.oldest, meta.last) BY DEF Window, Between
  <1>5. Claimed \subseteq Recorded(head, skipped, meta)
    <2>1. \A c \in Ancestors[meta.last] : c <= meta.last BY <1>3, AncestorFacts
    <2> QED BY <2>1 DEF Claimed, Window, Recorded
  <1>6. Recorded(head, skipped, meta) \subseteq Commits BY <1>2, TrunkFacts DEF Recorded
  <1>7. Tallied(Exact, head, skipped, meta, weight) BY <1>1 DEF WalkInv, Resting
  <1>8. Cancels = "never" => Recorded(head, skipped, meta) \subseteq docs BY <1>1 DEF Registered, Kept
  <1> QED BY <1>4, <1>5, <1>6, <1>7, <1>8 DEF Tallied

\* With merges, caps and cancelled runs, what the watermarks and the sentinel
\* enclose is in the graph, apart from the commits known to be skipped and side
\* branches; in the index too if no run is cancelled; and nothing is counted
\* twice or outside the watermarks as long as only first walks fail.
THEOREM HistoryHolds == WalkSpec /\ Undisturbed => []HistoryIsSound
  <1>1. WalkInit /\ Undisturbed => WalkInv BY WalkInvInit
  <1>2. WalkInv /\ [WalkNext /\ UNCHANGED situation]_<<walkVars, situation>> => WalkInv'
    BY WalkInvStep
  <1>3. WalkInv => HistoryIsSound BY WalkInvIsSound
  <1> QED BY <1>1, <1>2, <1>3, PTL DEF WalkSpec
=============================================================================
