------------------------------- MODULE MCJobs -------------------------------
(***************************************************************************)
(* Jobs for TLC: one job of each kind with everything that can happen to   *)
(* it, and two jobs that share the limit.                                  *)
(***************************************************************************)
EXTENDS Jobs

CONSTANTS j1, j2

Alone(k, fails, n, m) ==
    [kind |-> [j \in {j1} |-> k], storeFails |-> fails,
     cancels |-> n, crashes |-> m, deletes |-> m]

Together ==
    [kind |-> [j \in {j1, j2} |-> IF j = j1 THEN "index" ELSE "git"],
     storeFails |-> TRUE, cancels |-> 0, crashes |-> 0, deletes |-> 0]

Situations ==
    {Alone("index", FALSE, 1, 1), Alone("update", FALSE, 1, 1),
     Alone("index", TRUE, 1, 0), Alone("git", TRUE, 1, 0), Alone("zip", TRUE, 1, 0), Together}
=============================================================================
