----------------------------- MODULE MCProcess -----------------------------
(***************************************************************************)
(* What the requests of one process share: the mutation coordinator, the   *)
(* memory budget, and the cache of project runtimes with its locks.  They  *)
(* have no variable in common, so each is explored while the others rest:  *)
(* every behaviour of one is reached, and its properties are about it      *)
(* alone.                                                                  *)
(***************************************************************************)
EXTENDS Coordinator, ProjectRuntime, MemoryBudget, TLC

VARIABLE active  \* the part that runs

ProcessInit ==
    /\ active \in {"coordinator", "memory", "runtime"}
    /\ Init /\ MemoryInit /\ RuntimeInit

ProcessNext ==
    /\ active' = active
    /\ \/ active = "coordinator" /\ Next /\ UNCHANGED <<memoryVars, runtimeVars>>
       \/ active = "memory" /\ MemoryNext /\ UNCHANGED <<vars, runtimeVars>>
       \/ active = "runtime" /\ RuntimeNext /\ UNCHANGED <<vars, memoryVars>>

ProcessSpec ==
    ProcessInit /\ [][ProcessNext]_<<active, vars, memoryVars, runtimeVars>>

Symmetry == Permutations(Flows)
=============================================================================
