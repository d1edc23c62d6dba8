------------------------ MODULE MCSourcePublication ------------------------
(***************************************************************************)
(* SourcePublication for TLC.  UpdateSpec keeps incremental updates,       *)
(* sweeps, readers and crashes, so that chains over several files fit.     *)
(* FlowsSpec has every flow over a single file: with a reader up to the    *)
(* generation ReadThrough, and one generation longer without one.          *)
(***************************************************************************)
EXTENDS SourcePublication, TLC

CONSTANT ReadThrough

VARIABLE reading    \* whether the reader takes part

Symmetry == Permutations(Paths) \cup Permutations(Workers)

UpdateNext ==
    \/ \E w \in Workers :
        \/ \E c, d \in SUBSET Paths : BeginUpdate(w, c, d)
        \/ BeginSweep(w) \/ FlowStep(w)
        \/ FinishClear(w) \/ FinishWrite(w) \/ FinishPublish(w) \/ FinishPurge(w)
    \/ \E r \in Readers : ReaderStep(r)
    \/ Crash

UpdateInit == Init /\ reading = TRUE

UpdateSpec == UpdateInit /\ [][UpdateNext /\ UNCHANGED reading]_<<vars, reading>>

FlowsInit == Init /\ reading \in BOOLEAN

FlowsNext ==
    /\ Next
    /\ IF reading THEN \A w \in Workers : flow'[w].target <= ReadThrough
                  ELSE UNCHANGED reader
    /\ UNCHANGED reading

FlowsSpec == FlowsInit /\ [][FlowsNext]_<<vars, reading>>
=============================================================================
