------------------------------ MODULE MCActors ------------------------------
(***************************************************************************)
(* The background actors for TLC: the watcher, which turns file changes    *)
(* into updates, and the dreamer, which turns search sessions into         *)
(* insights.  They share no variable: one runs while the other rests in    *)
(* its initial state, where no fair action of it is enabled.               *)
(***************************************************************************)
EXTENDS Watcher, Dreamer

CONSTANTS p1, p2, c1, c2, c3

VARIABLE part  \* the actor that runs

\* Two clusters of one project, one more than a dream may take up.
TwoAndOne == [c \in {c1, c2, c3} |-> IF c = c3 THEN p2 ELSE p1]

\* The dreamer with and without faults, and with the tool beside it.
Dreams ==
    {[tool |-> FALSE, faults |-> {}, sessions |-> 3],
     [tool |-> FALSE, faults |-> {"crash", "fail", "exit"}, sessions |-> 2],
     [tool |-> TRUE, faults |-> {"timeout"}, sessions |-> 2]}

\* The part that rests has one initial state.
ActorsInit ==
    /\ part \in {"watcher", "dreamer"}
    /\ Init /\ (part = "dreamer" => saved = {})
    /\ DreamerInit /\ (part = "watcher" => setting.sessions = 3)

ActorsNext ==
    /\ part' = part
    /\ \/ part = "watcher" /\ Next /\ UNCHANGED <<setting, dreamerVars>>
       \/ part = "dreamer" /\ DreamerNext /\ UNCHANGED <<setting, vars>>

ActorsSpec ==
    /\ ActorsInit /\ [][ActorsNext]_<<part, setting, vars, dreamerVars>>
    /\ Fairness /\ DreamerFairness
=============================================================================
