---------------------------- MODULE VersionedHead ----------------------------
(***************************************************************************)
(* What the registry promises to publishers of a project's source head,    *)
(* without the metadata it uses to keep the promise: each project has a    *)
(* version that moves with every change of its source authority; a holder  *)
(* remembers the version it captured; and a publication commits only on    *)
(* top of exactly the version its holder captured.                         *)
(***************************************************************************)
EXTENDS Integers

CONSTANTS Projects, Workers

VARIABLES
    version,    \* how often the project's source authority changed
    published,  \* the version created by the last publication, 0 if none
    held        \* <<project, version>> per worker, or <<>>

vars == <<version, published, held>>

Init ==
    /\ version = [p \in Projects |-> 0]
    /\ published = [p \in Projects |-> 0]
    /\ held = [w \in Workers |-> <<>>]

Bump(p) == version' = [version EXCEPT ![p] = @ + 1]

\* A worker captures the current version of a project.
Capture(w, p) ==
    /\ held[w] = <<>>
    /\ held' = [held EXCEPT ![w] = <<p, version[p]>>]
    /\ UNCHANGED <<version, published>>

\* A worker publishes on top of the version it captured.
Publish(w, p) ==
    /\ held[w] = <<p, version[p]>>
    /\ Bump(p)
    /\ published' = [published EXCEPT ![p] = version[p] + 1]
    /\ held' = [held EXCEPT ![w] = <<>>]

\* The head or the lifecycle changes without a publication.
Change(p) ==
    /\ Bump(p)
    /\ UNCHANGED <<published, held>>

\* All of a project's source authority is deleted.
Withdraw(p) ==
    /\ Bump(p)
    /\ published' = [published EXCEPT ![p] = 0]
    /\ UNCHANGED held

Drop(w) ==
    /\ held[w] # <<>>
    /\ held' = [held EXCEPT ![w] = <<>>]
    /\ UNCHANGED <<version, published>>

Next ==
    \/ \E p \in Projects : Change(p) \/ Withdraw(p)
    \/ \E w \in Workers : Drop(w)
    \/ \E w \in Workers, p \in Projects : Capture(w, p) \/ Publish(w, p)

Spec == Init /\ [][Next]_vars
=============================================================================
