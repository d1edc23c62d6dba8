------------------------ MODULE MCIncrementalUpdate ------------------------
(***************************************************************************)
(* IncrementalUpdate for TLC: one file with every flow and fault, one file *)
(* with more edits and failures, and two files with selected-path updates. *)
(***************************************************************************)
EXTENDS IncrementalUpdate

CONSTANTS f1, f2

Situations ==
    {[files |-> {f1}, flows |-> AllFlows, faults |-> {"abort", "late"},
      gen |-> 3, stamp |-> 3, epoch |-> 1, fails |-> 1],
     [files |-> {f1}, flows |-> {"index", "update", "repair"}, faults |-> {"late"},
      gen |-> 3, stamp |-> 3, epoch |-> 2, fails |-> 1],
     [files |-> {f1, f2}, flows |-> {"index", "update", "only"}, faults |-> {},
      gen |-> 3, stamp |-> 2, epoch |-> 1, fails |-> 1]}
=============================================================================
