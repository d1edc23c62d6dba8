----------------------------- MODULE MCRegistry -----------------------------
(***************************************************************************)
(* Registry for TLC.  An initial choice says which steps a behaviour may   *)
(* contain and how far it may go in the revision sequence: all of them, or *)
(* the steps of the source head, of the reindex requirements or of the     *)
(* recovery alone, the last up to the end of the sequence and so far that  *)
(* two workers hold reservations at once.                                  *)
(***************************************************************************)
EXTENDS Registry, TLC

CONSTANT Horizon  \* bound: the last revision, by focus

VARIABLE focus  \* "all", "source", "requirements" or "recovery"

Horizons == [all |-> 3, source |-> 4, requirements |-> 5, recovery |-> MaxRevision]

RegistryInit ==
    /\ Init
    /\ focus \in DOMAIN Horizon
    /\ focus \in {"source", "recovery"} => \A p \in Projects : ~flag[p]

\* Reservations over deletions and recreations of a project whose head is lost
\* again and again.
RecoveryFocus ==
    \/ \E p \in Projects :
          \/ \E i \in Identities : RegisterSourceProject(p, i)
          \/ DeleteProject(p)
          \/ DeleteAllForProject(p)
          \/ \E h \in {Absent, Damaged} : DamageHead(p, h)
    \/ \E w \in Workers : Abandon(w)
    \/ RecoveryStep

RegistryNext ==
    /\ focus' = focus
    /\ \/ focus = "all" /\ Next
       \/ focus = "source" /\ (LifecycleStep \/ HeadStep \/ RecoveryStep \/ EnvironmentStep)
       \/ focus = "requirements" /\ (LifecycleStep \/ RequirementStep \/ \E w \in Workers : Abandon(w))
       \/ focus = "recovery" /\ RecoveryFocus
    /\ sequence' <= Horizon[focus]

RegistrySpec == RegistryInit /\ [][RegistryNext]_<<focus, vars>>

Symmetry == Permutations(Workers) \cup Permutations(Identities)
=============================================================================
