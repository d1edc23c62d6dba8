------------------------------ MODULE MCHistory ------------------------------
(***************************************************************************)
(* Git history for TLC: the walks of two branches, and the refresh of the  *)
(* stored diff documents.  They share no variable and exclude each other   *)
(* by the project update lock: one is used while the other rests.          *)
(*                                                                         *)
(* Walks: capped, repeated, forced and crashed first walks with wipes, a   *)
(* graph repair and backfills; runs cancelled at any point; forward runs   *)
(* aborted or crashed with their workers; and lost watermark writes.       *)
(***************************************************************************)
EXTENDS GitHistory, HistoryRefresh

CONSTANTS r1

VARIABLE part  \* "walks" or "refresh"

\* Commits 1 to 4 are a branch without merges, 5 to 8 one with a merge: 6 and 7
\* are parallel.
TwoBranches == <<{}, {1}, {2}, {3}, {}, {5}, {5}, {6, 7}>>

Walks ==
    {[modes |-> {"forward", "both", "backfill"}, forces |-> BOOLEAN, caps |-> {1, 2, N},
      batch |-> 2, faults |-> "scratch", cancels |-> "never", repairs |-> {"wipe", "graph_only"}],
     [modes |-> {"forward", "both", "backfill"}, forces |-> {FALSE}, caps |-> {1, N},
      batch |-> N + 1, faults |-> "never", cancels |-> "token", repairs |-> {}],
     [modes |-> {"forward"}, forces |-> {FALSE}, caps |-> {3},
      batch |-> 2, faults |-> "crash", cancels |-> "abort", repairs |-> {}],
     [modes |-> {"forward", "both"}, forces |-> {FALSE}, caps |-> {N},
      batch |-> 2, faults |-> "any", cancels |-> "never", repairs |-> {}]}

\* The part that rests has one initial state.
HistoryInit ==
    /\ part \in {"walks", "refresh"}
    /\ WalkInit /\ (part = "refresh" => situation.batch > N /\ head = 1)
    /\ RefreshInit /\ (part = "walks" => Stored = {})

HistoryNext ==
    /\ part' = part
    /\ \/ part = "walks" /\ WalkNext /\ UNCHANGED <<situation, refreshVars>>
       \/ part = "refresh" /\ RefreshNext /\ UNCHANGED <<situation, walkVars>>

HistorySpec == HistoryInit /\ [][HistoryNext]_<<part, situation, walkVars, refreshVars>>
=============================================================================
