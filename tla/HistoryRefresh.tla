--------------------------- MODULE HistoryRefresh ---------------------------
(***************************************************************************)
(* refresh_history_documents: rewriting the stored diff documents of       *)
(* indexed commits in bounded batches, with a cursor in the registry.      *)
(*                                                                         *)
(* A commit is its position in the order of object ids.  rows[c] holds the *)
(* versions of c's diff documents in the index: "old" text, the "new" text *)
(* of this build, or both.  The caller owns the project update lock, so    *)
(* one refresh runs at a time and history runs add documents only between  *)
(* refreshes.                                                              *)
(***************************************************************************)
EXTENDS Naturals, FiniteSets, FiniteSetsExt

CONSTANTS
    NumOids,  \* commits that may ever be indexed
    Limits,   \* values of max_commits
    FlushAt,  \* changed commits that fill a replacement batch
    ChunkOf   \* changed commits one index_docs call takes

Oids == 1 .. NumOids

\* sanitized_max_commits is at least 1.
ASSUME RefreshAssumption ==
    /\ NumOids \in Nat
    /\ Limits \subseteq Nat \ {0} /\ FlushAt \in Nat \ {0} /\ ChunkOf \in Nat \ {0}

VARIABLES
    rows,
    cursor,   \* 0: blank or absent
    pc,       \* "idle", "check", "write", "delete", "cursor", "end"
    todo,     \* commits of this batch still to check
    more,     \* commits beyond the batch remain
    pending,  \* changed commits of the replacement batch
    unwritten,\* those whose new documents are not written yet
    at        \* the commit last checked

refreshVars == <<rows, cursor, pc, todo, more, pending, unwritten, at>>
batch == <<todo, more, pending, unwritten, at>>

RefreshInit ==
    /\ rows \in [Oids -> {{}, {"old"}, {"new"}}]
    /\ cursor = 0 /\ pc = "idle"
    /\ todo = {} /\ more = FALSE /\ pending = {} /\ unwritten = {} /\ at = 0

Stored == {c \in Oids : rows[c] # {}}

First(S, k) == {c \in S : Cardinality({d \in S : d < c}) < k}

Idle ==
    /\ pc' = "idle" /\ todo' = {} /\ more' = FALSE
    /\ pending' = {} /\ unwritten' = {} /\ at' = 0

\* The snapshot of the stored commits past the cursor, cut at max_commits.
BeginRefresh(cap, force) ==
    LET left == {c \in Stored : force \/ c > cursor}
    IN  /\ pc = "idle"
        /\ todo' = First(left, cap)
        /\ more' = (Cardinality(left) > cap)
        /\ pc' = IF left = {} THEN "end" ELSE "check"
        /\ UNCHANGED <<rows, cursor, pending, unwritten, at>>

\* One commit's diff is produced again; it joins the batch when a stored
\* document differs.  A full batch, or the last commit, writes the batch.
Check ==
    LET c == Min(todo)
        changed == pending \cup (IF "old" \in rows[c] THEN {c} ELSE {})
        flush == Cardinality(changed) >= FlushAt \/ todo = {c}
    IN  /\ pc = "check"
        /\ todo' = todo \ {c} /\ at' = c
        /\ pending' = changed
        /\ unwritten' = IF flush THEN changed ELSE {}
        /\ pc' = IF ~flush THEN "check"
                 ELSE IF changed = {} THEN "cursor" ELSE "write"
        /\ UNCHANGED <<rows, cursor, more>>

\* index_docs of one chunk.
Write ==
    LET chunk == First(unwritten, ChunkOf)
    IN  /\ pc = "write"
        /\ rows' = [c \in Oids |->
                       IF c \in chunk THEN rows[c] \cup {"new"} ELSE rows[c]]
        /\ unwritten' = unwritten \ chunk
        /\ pc' = IF unwritten' = {} THEN "delete" ELSE "write"
        /\ UNCHANGED <<cursor, todo, more, pending, at>>

\* delete_documents: the superseded ids only, after the writes.
Delete ==
    /\ pc = "delete"
    /\ rows' = [c \in Oids |->
                   IF c \in pending THEN rows[c] \ {"old"} ELSE rows[c]]
    /\ pc' = "cursor"
    /\ UNCHANGED <<cursor, batch>>

\* Mutated: the cursor moves to the last commit of the whole batch.
SaveCursorAhead ==
    /\ pc = "cursor"
    /\ cursor' = IF todo = {} THEN at ELSE Max(todo)
    /\ pending' = {}
    /\ pc' = IF todo = {} THEN "end" ELSE "check"
    /\ UNCHANGED <<rows, todo, more, unwritten, at>>

SaveCursor ==
    /\ pc = "cursor"
    /\ cursor' = at
    /\ pending' = {}
    /\ pc' = IF todo = {} THEN "end" ELSE "check"
    /\ UNCHANGED <<rows, todo, more, unwritten, at>>

\* A pass that left nothing behind starts over next time.
Finish ==
    /\ pc = "end"
    /\ cursor' = IF more THEN cursor ELSE 0
    /\ Idle
    /\ UNCHANGED rows

\* A failing call, a cancellation or a crash between two calls; a failing
\* index_docs may have written part of its chunk.
Stop ==
    /\ pc # "idle"
    /\ \E part \in SUBSET (IF pc = "write" THEN First(unwritten, ChunkOf) ELSE {}) :
          rows' = [c \in Oids |->
                      IF c \in part THEN rows[c] \cup {"new"} ELSE rows[c]]
    /\ Idle
    /\ UNCHANGED cursor

\* A history run indexes a commit; its object id may sort anywhere.
Ingest(c) ==
    /\ pc = "idle" /\ "new" \notin rows[c]
    /\ rows' = [rows EXCEPT ![c] = @ \cup {"new"}]
    /\ UNCHANGED <<cursor, pc, batch>>

RefreshStep == Check \/ Write \/ Delete \/ SaveCursor \/ Finish

RefreshNext ==
    \/ \E cap \in Limits, force \in BOOLEAN : BeginRefresh(cap, force)
    \/ RefreshStep
    \/ Stop
    \/ \E c \in Oids : Ingest(c)

RefreshSpec == RefreshInit /\ [][RefreshNext]_refreshVars

-----------------------------------------------------------------------------
(* Properties.                                                             *)

\* "The cursor advances only after the entire replacement batch and cleanup
\* succeed" and "old evidence preserved": whatever failed, was retried, forced
\* or ingested meanwhile, no commit the cursor has passed keeps superseded
\* text, and no step takes a commit's last stored document.
KeepsEvidence ==
    \A c \in Oids : /\ c <= cursor' => "old" \notin rows'[c]
                    /\ rows[c] # {} => rows'[c] # {}
RefreshIsSafe == [][KeepsEvidence]_refreshVars
=============================================================================
