---------------------------- MODULE MCCommitLane ----------------------------
(***************************************************************************)
(* CommitLane for TLC: pairs of flows of every kind with faults, and three *)
(* flows that meet at the lock, the lane and the bootstrap without.        *)
(***************************************************************************)
EXTENDS CommitLane

CONSTANTS t1, t2, t3

AllTasks == {t1, t2, t3}

Mixes ==
    {[tasks |-> {t1, t2}, faults |-> TRUE,
      kinds |-> {"update", "sweep", "bulk", "index", "lexical", "delete", "compact"}],
     [tasks |-> AllTasks, faults |-> FALSE, kinds |-> {"update", "sweep", "lexical"}]}
=============================================================================
