------------------------------ MODULE Registry ------------------------------
(***************************************************************************)
(* The durable project registry of engram_core: project records, the       *)
(* source-head metadata with its lifecycle authority                       *)
(* (registry/source_head.rs), and the recovery requirements                *)
(* (registry/reindex.rs).  Every method of `Registry` is one redb          *)
(* transaction, so it is one action; what interleaves is the work callers  *)
(* do between capturing a token and presenting it again.                   *)
(*                                                                         *)
(* A token lives in the hands of a worker (a tool call, a job, a watcher   *)
(* refresh).  `changes`, `lifetime`, `failures` and `published` are        *)
(* history variables: no guard reads them, the properties do.              *)
(***************************************************************************)
EXTENDS Integers

CONSTANTS
    Projects,       \* project ids
    Identities,     \* values of (directory, project_type)
    NoProject,      \* the record is absent
    Workers,        \* callers that can hold a token across transactions
    Reasons,        \* ReindexReason
    Unknown,        \* ReindexReason::Unknown
    MaxRevision,    \* stands for u64::MAX of the revision sequence
    MaxGeneration,  \* bound on the generations callers publish or observe
    Faults          \* which metadata keys may be damaged from outside

ASSUME UnknownAssumption == Unknown \in Reasons
ASSUME ProjectsAssumption == Projects # {} /\ NoProject \notin Identities
ASSUME BoundAssumption == MaxRevision \in Nat \ {0} /\ MaxGeneration \in Nat

Absent  == -1   \* the active_generation key is missing
Damaged == -2   \* its bytes do not parse as a u64

Heads       == Nat \cup {Absent, Damaged}
Revisions   == 0 .. MaxRevision          \* 0: the key is missing

VARIABLES
    projects,     \* PROJECTS: identity of a registered project, or NoProject
    flag,         \* ProjectRecord::reindex_required_since_ms is Some
    head,         \* META active_generation
    required,     \* META source_head_required_v1
    managed,      \* META source_snapshots_required_v1
    attested,     \* META source_legacy_absence_attested_v1
    verified,     \* META source_identity_verified_v1
    revision,     \* META source_head_revision_v1
    epoch,        \* META source_identity_epoch_v1
    reqRevision,  \* META reindex_requirements_v1 .revision (0: no map stored)
    pending,      \* META reindex_requirements_v1 .pending: reason -> revision
    sequence,     \* the anonymous database-wide revision sequence
    token,        \* the token each worker holds
    changes,      \* history: how often a project's source authority changed
    lifetime,     \* history: how often its identity or registration changed
    failures,     \* history: failures recorded for each project and reason
    witness,      \* history: lifetime whose scan verified the identity
    published     \* history: `changes` at the last publication, 0 if none

authority    == <<projects, head, required, managed, attested, verified,
                  revision, epoch>>
requirements == <<flag, reqRevision, pending>>
history      == <<changes, lifetime, failures, witness, published>>
vars         == <<authority, requirements, sequence, token, history>>

Max2(a, b) == IF a >= b THEN a ELSE b

Registered(p) == projects[p] # NoProject

-----------------------------------------------------------------------------
(* Tokens.  One record shape serves SourceHeadToken, SourceRecoveryToken,  *)
(* SourceRecoveryReservation and ReindexRequirementToken; `seen` and `life` *)
(* are history.                                                            *)

TokenKinds == {"none", "head", "recovery", "reserved", "requirement"}

NoToken ==
    [kind |-> "none", project |-> CHOOSE p \in Projects : TRUE,
     identity |-> NoProject, head |-> Absent, required |-> FALSE,
     managed |-> FALSE, attested |-> FALSE, verified |-> FALSE,
     revision |-> 0, epoch |-> 0, generation |-> 0, reason |-> Unknown,
     seen |-> 0, life |-> 0]

\* What a source token copies out of the registry, with revision r, epoch e.
SourceToken(kind, p, r, e, g) ==
    [kind |-> kind, project |-> p, identity |-> projects[p],
     head |-> head[p], required |-> required[p], managed |-> managed[p],
     attested |-> attested[p], verified |-> verified[p],
     revision |-> r, epoch |-> e, generation |-> g, reason |-> Unknown,
     seen |-> changes[p], life |-> lifetime[p]]

RequirementToken(p, r, rev) ==
    [NoToken EXCEPT !.kind = "requirement", !.project = p, !.reason = r,
                    !.revision = rev, !.seen = failures[p][r]]

Hold(w, t) == token' = [token EXCEPT ![w] = t]

-----------------------------------------------------------------------------
(* The revision sequence.                                                  *)

\* next_revision: above the database-wide sequence and the caller's floor.
NextRevision(last, floor) == Max2(last, floor) + 1

\* advance_revision: the value the project's revision moves to.
AdvancedRevision(p) == NextRevision(sequence, Max2(revision[p], epoch[p]))

\* advance_revision as a write; the transaction aborts when u64 is exhausted.
AdvanceRevision(p) ==
    /\ AdvancedRevision(p) <= MaxRevision
    /\ revision' = [revision EXCEPT ![p] = AdvancedRevision(p)]
    /\ sequence' = AdvancedRevision(p)

\* The revision and epoch left by advance_revision; mark_identity_unverified.
FreshEpoch(p) == NextRevision(AdvancedRevision(p), AdvancedRevision(p))

\* Mutant: the epoch is only created, never renewed.
ChangeIdentityKeepsEpoch(p) ==
    /\ FreshEpoch(p) <= MaxRevision
    /\ revision' = [revision EXCEPT ![p] = FreshEpoch(p)]
    /\ epoch'    = [epoch EXCEPT ![p] = IF @ = 0 THEN FreshEpoch(p) ELSE @]
    /\ verified' = [verified EXCEPT ![p] = FALSE]

\* Every lifecycle or identity change: a new revision, then a new epoch.
ChangeIdentity(p) ==
    /\ FreshEpoch(p) <= MaxRevision
    /\ revision' = [revision EXCEPT ![p] = FreshEpoch(p)]
    /\ epoch'    = [epoch EXCEPT ![p] = FreshEpoch(p)]
    /\ verified' = [verified EXCEPT ![p] = FALSE]

-----------------------------------------------------------------------------
(* History bookkeeping.                                                    *)

Changed(p) == changes' = [changes EXCEPT ![p] = @ + 1]
NewLife(p) == lifetime' = [lifetime EXCEPT ![p] = @ + 1]

-----------------------------------------------------------------------------
(* Reading the head.                                                       *)

\* generation(): a missing head is the legacy generation one.
Generation(h) == IF h = Absent THEN 1 ELSE h

\* The checks shared by capture_source_head, source_generation_metadata and
\* source_snapshot_requirement before a head may be used.
HeadReadable(p) ==
    /\ head[p] # Damaged
    /\ required[p] => head[p] # Absent
    /\ managed[p] => head[p] # Absent /\ head[p] # 0

\* source_snapshot_requirement: what a fresh read may assume of the layout.
SnapshotRequirement(p) ==
    IF ~Registered(p) \/ ~HeadReadable(p) THEN "Refused"
    ELSE IF managed[p] THEN "Managed"
    ELSE IF Generation(head[p]) = 0 THEN "Unpublished"
    ELSE IF head[p] = Absent /\ attested[p] THEN "AttestedLegacy"
    ELSE "Unproven"

\* recovery_metadata: intact lifetime and allocator authority.
RecoveryAuthority(p) ==
    /\ revision[p] # 0
    /\ epoch[p] # 0
    /\ epoch[p] <= revision[p]
    /\ sequence >= Max2(revision[p], epoch[p])

\* Mutant: an attested absence is ordinary even after an explicit head.
RecoverableHeadUnlessAttested(p) ==
    CASE head[p] = Absent  -> ~attested[p] \/ managed[p]
      [] head[p] = Damaged -> TRUE
      [] OTHER             -> managed[p] /\ head[p] = 0

\* capture_source_recovery's classification of the head.
RecoverableHead(p) ==
    CASE head[p] = Absent  -> ~attested[p] \/ required[p] \/ managed[p]
      [] head[p] = Damaged -> TRUE
      [] OTHER             -> managed[p] /\ head[p] = 0

\* Mutant: the generation text is compared, the revision is not.
HeadMatchesText(t) ==
    LET p == t.project IN
    /\ Registered(p)
    /\ projects[p] = t.identity
    /\ managed[p] = t.managed
    /\ head[p] = t.head

\* The comparison of publish_source_head, attest_unchanged_source_identity
\* and source_head_is_current.
HeadMatches(t) ==
    LET p == t.project IN
    /\ Registered(p)
    /\ projects[p] = t.identity
    /\ epoch[p] = t.epoch
    /\ revision[p] = t.revision
    /\ managed[p] = t.managed
    /\ head[p] = t.head

\* recovery_matches: exact raw metadata and identity.
RecoveryMatches(t) ==
    LET p == t.project IN
    /\ Registered(p)
    /\ projects[p] = t.identity
    /\ RecoveryAuthority(p)
    /\ head[p] = t.head
    /\ required[p] = t.required
    /\ verified[p] = t.verified
    /\ attested[p] = t.attested
    /\ managed[p] = t.managed
    /\ revision[p] = t.revision
    /\ epoch[p] = t.epoch

-----------------------------------------------------------------------------
(* Requirements.                                                           *)

NoPending == [r \in Reasons |-> 0]

\* The pending map a reader sees: a stored one, or Requirements::legacy.
PendingView(p) ==
    IF reqRevision[p] # 0 THEN pending[p]
    ELSE IF flag[p] THEN [NoPending EXCEPT ![Unknown] = 1]
    ELSE NoPending

\* The revision of that map.
ReqRevisionView(p) ==
    IF reqRevision[p] # 0 THEN reqRevision[p] ELSE IF flag[p] THEN 1 ELSE 0

\* requirements_for_project_write: is a legacy flag imported by this write?
ImportsLegacy(p, incoming) == reqRevision[p] = 0 /\ (flag[p] \/ incoming)

\* settle_reindex_requirement: is this exact requirement still pending?
RequirementMatches(t) ==
    /\ Registered(t.project)
    /\ t.revision # 0
    /\ PendingView(t.project)[t.reason] = t.revision

\* write_requirements: map and aggregate flag in one commit.
WriteRequirements(p, rev, pend) ==
    /\ reqRevision' = [reqRevision EXCEPT ![p] = rev]
    /\ pending' = [pending EXCEPT ![p] = pend]
    /\ flag' = [flag EXCEPT ![p] = \E r \in Reasons : pend[r] # 0]

Fail(p, r) == failures' = [failures EXCEPT ![p][r] = @ + 1]

-----------------------------------------------------------------------------
\* A database written by an older version may hold projects whose heads have
\* no revision, no epoch and no requirement map.
Init ==
    /\ sequence \in {0, 1}
    /\ projects \in [Projects -> Identities \cup {NoProject}]
    /\ head \in [Projects -> {Absent, 1}]
    /\ required \in [Projects -> BOOLEAN]
    /\ revision \in [Projects -> {0, sequence}]
    /\ flag \in [Projects -> BOOLEAN]
    /\ \A p \in Projects :
        /\ required[p] => head[p] = 1
        /\ ~Registered(p) => /\ head[p] = Absent
                             /\ revision[p] = 0
                             /\ ~flag[p]
    /\ managed = [p \in Projects |-> FALSE]
    /\ attested = [p \in Projects |-> FALSE]
    /\ verified = [p \in Projects |-> FALSE]
    /\ epoch = [p \in Projects |-> 0]
    /\ reqRevision = [p \in Projects |-> 0]
    /\ pending = [p \in Projects |-> NoPending]
    /\ token = [w \in Workers |-> NoToken]
    /\ changes = [p \in Projects |-> 0]
    /\ lifetime = [p \in Projects |-> 0]
    /\ failures = [p \in Projects |-> NoPending]
    /\ witness = [p \in Projects |-> 0]
    /\ published = [p \in Projects |-> 0]

-----------------------------------------------------------------------------
(* Project lifecycle.                                                      *)

\* register_source_project: record and unpublished zero head together.
RegisterSourceProject(p, i) ==
    /\ ~Registered(p)
    /\ projects' = [projects EXCEPT ![p] = i]
    /\ flag' = [flag EXCEPT ![p] = FALSE]
    /\ head' = [head EXCEPT ![p] = 0]
    /\ required' = [required EXCEPT ![p] = TRUE]
    /\ ChangeIdentity(p)
    /\ sequence' = FreshEpoch(p)
    /\ Changed(p) /\ NewLife(p)
    /\ UNCHANGED <<managed, attested, reqRevision, pending, token, failures,
                   witness, published>>

\* put_project: an edit of the record.  A new or retargeted project gets a new
\* revision and epoch; a legacy flag, stored or incoming, becomes durable.
PutProject(p, i, incoming) ==
    LET retarget == projects[p] # i
        last     == IF retarget THEN FreshEpoch(p) ELSE sequence
        imported == NextRevision(last, 1)
        imports  == ImportsLegacy(p, incoming)
    IN
    /\ projects' = [projects EXCEPT ![p] = i]
    /\ IF retarget
         THEN ChangeIdentity(p) /\ Changed(p) /\ NewLife(p)
         ELSE UNCHANGED <<revision, epoch, verified, changes, lifetime>>
    /\ IF imports
         THEN /\ imported <= MaxRevision
              /\ sequence' = imported
              /\ WriteRequirements(p, imported,
                                   [NoPending EXCEPT ![Unknown] = imported])
              /\ Fail(p, Unknown)
         ELSE /\ sequence' = last
              /\ flag' = [flag EXCEPT ![p] =
                             \E r \in Reasons : pending[p][r] # 0]
              /\ UNCHANGED <<reqRevision, pending, failures>>
    /\ UNCHANGED <<head, required, managed, attested, token, witness,
                   published>>

\* clear_pending_on_delete: the last revision the deletion leaves behind.
DeletedRevision(p) ==
    IF ImportsLegacy(p, FALSE)
      THEN NextRevision(NextRevision(sequence, 1), NextRevision(sequence, 1))
      ELSE NextRevision(sequence, reqRevision[p])

\* clear_pending_on_delete as a write.
ClearPendingOnDelete(p) ==
    IF reqRevision[p] # 0 \/ flag[p]
      THEN DeletedRevision(p) <= MaxRevision /\ sequence' = DeletedRevision(p)
      ELSE UNCHANGED sequence

\* delete_project: the record goes, its metadata stays.
DeleteProject(p) ==
    /\ Registered(p) \/ reqRevision[p] # 0
    /\ ClearPendingOnDelete(p)
    /\ IF reqRevision[p] # 0 \/ flag[p]
         THEN WriteRequirements(p, DeletedRevision(p), NoPending)
         ELSE UNCHANGED <<flag, reqRevision, pending>>
    /\ projects' = [projects EXCEPT ![p] = NoProject]
    /\ Changed(p) /\ NewLife(p)
    /\ UNCHANGED <<head, required, managed, attested, verified, revision,
                   epoch, token, failures, witness, published>>

\* delete_all_for_project: record and every key with the project's prefix; the
\* anonymous sequence survives.
DeleteAllForProject(p) ==
    /\ \/ Registered(p)
       \/ revision[p] # 0 \/ reqRevision[p] # 0 \/ head[p] # Absent
    /\ ClearPendingOnDelete(p)
    /\ WriteRequirements(p, 0, NoPending)
    /\ projects' = [projects EXCEPT ![p] = NoProject]
    /\ head'     = [head EXCEPT ![p] = Absent]
    /\ required' = [required EXCEPT ![p] = FALSE]
    /\ managed'  = [managed EXCEPT ![p] = FALSE]
    /\ attested' = [attested EXCEPT ![p] = FALSE]
    /\ verified' = [verified EXCEPT ![p] = FALSE]
    /\ revision' = [revision EXCEPT ![p] = 0]
    /\ epoch'    = [epoch EXCEPT ![p] = 0]
    /\ Changed(p) /\ NewLife(p)
    /\ published' = [published EXCEPT ![p] = 0]
    /\ UNCHANGED <<token, failures, witness>>

\* set_meta and a matching compare_exchange_meta on active_generation.
SetHeadMeta(p, h) ==
    /\ head' = [head EXCEPT ![p] = h]
    /\ required' = [required EXCEPT ![p] = TRUE]
    /\ IF head[p] # h
         THEN /\ ChangeIdentity(p)
              /\ sequence' = FreshEpoch(p)
              /\ Changed(p) /\ NewLife(p)
         ELSE UNCHANGED <<revision, epoch, verified, sequence, changes,
                          lifetime>>
    /\ UNCHANGED <<projects, managed, attested, requirements, token,
                   failures, witness, published>>

-----------------------------------------------------------------------------
(* Ordinary publication.                                                   *)

\* capture_source_head: a pure read unless revision or epoch is missing.
CaptureSourceHead(w, p) ==
    LET rev  == IF revision[p] = 0 THEN AdvancedRevision(p) ELSE revision[p]
        last == IF revision[p] = 0 THEN rev ELSE sequence
        ep   == IF epoch[p] = 0 THEN NextRevision(last, rev) ELSE epoch[p]
        cur  == IF epoch[p] = 0 THEN ep ELSE rev
    IN
    /\ token[w].kind = "none"
    /\ Registered(p)
    /\ HeadReadable(p)
    /\ cur <= MaxRevision
    /\ revision' = [revision EXCEPT ![p] = cur]
    /\ epoch' = [epoch EXCEPT ![p] = ep]
    /\ verified' = [verified EXCEPT ![p] = @ /\ epoch[p] # 0]
    /\ sequence' = IF epoch[p] = 0 THEN ep ELSE last
    /\ Hold(w, SourceToken("head", p, cur, ep, Generation(head[p])))
    /\ UNCHANGED <<projects, head, required, managed, attested, requirements,
                   history>>

\* Mutant: a published head is not marked as required.
MarkPublishedNotRequired(p, g) ==
    /\ head' = [head EXCEPT ![p] = g]
    /\ managed' = [managed EXCEPT ![p] = TRUE]
    /\ verified' = [verified EXCEPT ![p] = TRUE]
    /\ UNCHANGED required

\* The metadata both publication paths leave behind.
MarkPublished(p, g) ==
    /\ head' = [head EXCEPT ![p] = g]
    /\ required' = [required EXCEPT ![p] = TRUE]
    /\ managed' = [managed EXCEPT ![p] = TRUE]
    /\ verified' = [verified EXCEPT ![p] = TRUE]

\* Mutated: the transaction does not compare the token again.
PublishSourceHeadBlind(w, next) ==
    LET t == token[w] p == t.project IN
    /\ t.kind = "head"
    /\ next > t.generation
    /\ Registered(p)
    /\ AdvanceRevision(p)
    /\ MarkPublished(p, next)
    /\ Hold(w, NoToken)
    /\ Changed(p)
    /\ published' = [published EXCEPT ![p] = changes[p] + 1]
    /\ witness' = [witness EXCEPT ![p] = t.life]
    /\ UNCHANGED <<projects, attested, epoch, requirements, lifetime,
                   failures>>

\* publish_source_head: compare-and-swap against the captured base.
PublishSourceHead(w, next) ==
    LET t == token[w] p == t.project IN
    /\ t.kind = "head"
    /\ next > t.generation
    /\ HeadMatches(t)
    /\ AdvanceRevision(p)
    /\ MarkPublished(p, next)
    /\ Hold(w, NoToken)
    /\ Changed(p)
    /\ published' = [published EXCEPT ![p] = changes[p] + 1]
    /\ witness' = [witness EXCEPT ![p] = t.life]
    /\ UNCHANGED <<projects, attested, epoch, requirements, lifetime,
                   failures>>

\* attest_unchanged_source_identity: a complete scan found the same bytes.
AttestUnchangedSourceIdentity(w) ==
    LET t == token[w] p == t.project IN
    /\ t.kind = "head"
    /\ HeadMatches(t)
    /\ ~verified[p]
    /\ AdvanceRevision(p)
    /\ verified' = [verified EXCEPT ![p] = TRUE]
    /\ witness' = [witness EXCEPT ![p] = t.life]
    /\ UNCHANGED <<projects, head, required, managed, attested, epoch,
                   requirements, token, changes, lifetime, failures,
                   published>>

\* attest_legacy_source_head: the absence of a head is genuinely legacy.
AttestLegacySourceHead(w) ==
    LET t == token[w] p == t.project IN
    /\ t.kind = "head"
    /\ t.head = Absent
    /\ HeadMatches(t)
    /\ ~managed[p]
    /\ ~required[p]
    /\ attested' = [attested EXCEPT ![p] = TRUE]
    /\ UNCHANGED <<projects, head, required, managed, verified, revision,
                   epoch, requirements, sequence, token, history>>

-----------------------------------------------------------------------------
(* Recovery of a damaged head.                                             *)

\* capture_source_recovery: read-only.
CaptureSourceRecovery(w, p) ==
    /\ token[w].kind = "none"
    /\ Registered(p)
    /\ RecoveryAuthority(p)
    /\ RecoverableHead(p)
    /\ Hold(w, SourceToken("recovery", p, revision[p], epoch[p], 0))
    /\ UNCHANGED <<authority, requirements, sequence, history>>

\* The allocation floor of reserve_source_recovery.
RecoveryFloor(t, observed) ==
    Max2(Max2(sequence, observed), IF t.head >= 0 THEN t.head ELSE 0)

\* Mutant: the allocation is not made durable.
ReserveSourceRecoveryInMemory(w, observed) ==
    LET t == token[w]
        g == NextRevision(sequence, RecoveryFloor(t, observed)) IN
    /\ t.kind = "recovery"
    /\ RecoveryMatches(t)
    /\ RecoveryFloor(t, observed) < MaxRevision - 1
    /\ Hold(w, [t EXCEPT !.kind = "reserved", !.generation = g])
    /\ UNCHANGED <<authority, requirements, sequence, history>>

\* reserve_source_recovery: a generation no one was ever given.
ReserveSourceRecovery(w, observed) ==
    LET t == token[w]
        g == NextRevision(sequence, RecoveryFloor(t, observed)) IN
    /\ t.kind = "recovery"
    /\ RecoveryMatches(t)
    /\ RecoveryFloor(t, observed) < MaxRevision - 1
    /\ sequence' = g
    /\ Hold(w, [t EXCEPT !.kind = "reserved", !.generation = g])
    /\ UNCHANGED <<authority, requirements, history>>

\* publish_source_recovery.
PublishSourceRecovery(w) ==
    LET t == token[w] p == t.project IN
    /\ t.kind = "reserved"
    /\ RecoveryMatches(t)
    /\ sequence >= t.generation
    /\ AdvanceRevision(p)
    /\ MarkPublished(p, t.generation)
    /\ Hold(w, NoToken)
    /\ Changed(p)
    /\ published' = [published EXCEPT ![p] = changes[p] + 1]
    /\ witness' = [witness EXCEPT ![p] = t.life]
    /\ UNCHANGED <<projects, attested, epoch, requirements, lifetime,
                   failures>>

-----------------------------------------------------------------------------
(* Recovery requirements.                                                  *)

\* record_reindex_requirement, the recording branch: import, then a new
\* revision for the reason.
RecordedRevision(p) ==
    IF ImportsLegacy(p, FALSE)
      THEN NextRevision(NextRevision(sequence, 1), NextRevision(sequence, 1))
      ELSE NextRevision(sequence, reqRevision[p])

\* The pending map once a legacy flag has been imported.
ImportedPending(p) ==
    IF ImportsLegacy(p, FALSE)
      THEN [NoPending EXCEPT ![Unknown] = NextRevision(sequence, 1)]
      ELSE pending[p]

\* The write of record_reindex_requirement; next_revision refuses to wrap.
RecordRequirement(p, r) ==
    /\ RecordedRevision(p) <= MaxRevision
    /\ sequence' = RecordedRevision(p)
    /\ WriteRequirements(p, RecordedRevision(p),
                         [ImportedPending(p) EXCEPT ![r] = RecordedRevision(p)])
    /\ Fail(p, r)

\* Mutant: a second failure of a pending reason keeps the first revision.
RequireReindexIfAbsent(p, r) ==
    /\ Registered(p)
    /\ IF ImportedPending(p)[r] = 0
         THEN RecordRequirement(p, r)
         ELSE Fail(p, r) /\ UNCHANGED <<requirements, sequence>>
    /\ UNCHANGED <<authority, token, changes, lifetime, witness, published>>

\* require_reindex (set_reindex_required is its Unknown case): every failure
\* is a new revision, even of a reason already pending.
RequireReindex(p, r) ==
    /\ Registered(p)
    /\ RecordRequirement(p, r)
    /\ UNCHANGED <<authority, token, changes, lifetime, witness, published>>

\* begin_reindex_repair on a reason that is not pending yet.
BeginReindexRepair(w, p, r) ==
    /\ token[w].kind = "none"
    /\ Registered(p)
    /\ ImportedPending(p)[r] = 0
    /\ RecordRequirement(p, r)
    /\ Hold(w, [RequirementToken(p, r, RecordedRevision(p))
                  EXCEPT !.seen = @ + 1])
    /\ UNCHANGED <<authority, changes, lifetime, witness, published>>

\* begin_reindex_repair on a pending reason: its revision is reused, and a
\* legacy flag is imported on the way.
ResumeReindexRepair(w, p, r) ==
    /\ token[w].kind = "none"
    /\ Registered(p)
    /\ ImportedPending(p)[r] # 0
    /\ IF ImportsLegacy(p, FALSE)
         THEN /\ NextRevision(sequence, 1) <= MaxRevision
              /\ sequence' = NextRevision(sequence, 1)
              /\ WriteRequirements(p, sequence', ImportedPending(p))
         ELSE UNCHANGED <<sequence, requirements>>
    /\ Hold(w, RequirementToken(p, r, ImportedPending(p)[r]))
    /\ UNCHANGED <<authority, history>>

\* reindex_requirement_token: a read; a legacy flag is shown as revision 1.
ReindexRequirementToken(w, p, r) ==
    /\ token[w].kind = "none"
    /\ Registered(p)
    /\ PendingView(p)[r] # 0
    /\ Hold(w, RequirementToken(p, r, PendingView(p)[r]))
    /\ UNCHANGED <<authority, requirements, sequence, history>>

\* settle_reindex_requirement: the reason goes, the revision stays.
SettleReindexRequirement(w) ==
    LET t == token[w] p == t.project IN
    /\ t.kind = "requirement"
    /\ RequirementMatches(t)
    /\ WriteRequirements(p, ReqRevisionView(p),
                         [PendingView(p) EXCEPT ![t.reason] = 0])
    /\ Hold(w, NoToken)
    /\ UNCHANGED <<authority, sequence, history>>

\* clear_reindex_required: an administrator dismisses every reason.
DismissReindexRequirements(p) ==
    /\ Registered(p)
    /\ PendingView(p) # NoPending
    /\ WriteRequirements(p, ReqRevisionView(p), NoPending)
    /\ UNCHANGED <<authority, sequence, token, history>>

-----------------------------------------------------------------------------
(* The environment.                                                        *)

\* A worker gives up: its token was refused, its job failed or crashed.
Abandon(w) ==
    /\ token[w].kind # "none"
    /\ Hold(w, NoToken)
    /\ UNCHANGED <<authority, requirements, sequence, history>>

\* A stored head is lost, truncated or zeroed behind the registry's back: the
\* damage source recovery exists for.
DamageHead(p, h) ==
    /\ "head" \in Faults
    /\ head[p] >= 0
    /\ h \in {Absent, Damaged, 0}
    /\ h # head[p]
    /\ head' = [head EXCEPT ![p] = h]
    /\ Changed(p)
    /\ UNCHANGED <<projects, required, managed, attested, verified, revision,
                   epoch, requirements, sequence, token, lifetime, failures,
                   witness, published>>

\* The layout marker is lost behind the registry's back.
LoseManagedMarker(p) ==
    /\ "managed" \in Faults
    /\ managed[p]
    /\ managed' = [managed EXCEPT ![p] = FALSE]
    /\ Changed(p)
    /\ UNCHANGED <<projects, head, required, attested, verified, revision,
                   epoch, requirements, sequence, token, lifetime, failures,
                   witness, published>>

LifecycleStep ==
    \E p \in Projects :
        \/ \E i \in Identities : RegisterSourceProject(p, i)
        \/ \E i \in Identities : PutProject(p, i, FALSE)
        \/ DeleteProject(p)
        \/ DeleteAllForProject(p)

HeadStep ==
    \/ \E p \in Projects, h \in 0 .. MaxGeneration : SetHeadMeta(p, h)
    \/ \E w \in Workers, p \in Projects : CaptureSourceHead(w, p)
    \/ \E w \in Workers : \E g \in 1 .. token[w].generation + 1 :
           PublishSourceHead(w, g)
    \/ \E w \in Workers : AttestUnchangedSourceIdentity(w)
    \/ \E w \in Workers : AttestLegacySourceHead(w)

RecoveryStep ==
    \/ \E w \in Workers, p \in Projects : CaptureSourceRecovery(w, p)
    \/ \E w \in Workers, g \in 0 .. MaxGeneration : ReserveSourceRecovery(w, g)
    \/ \E w \in Workers : PublishSourceRecovery(w)

RequirementStep ==
    \/ \E p \in Projects, i \in Identities : PutProject(p, i, TRUE)
    \/ \E p \in Projects, r \in Reasons : RequireReindex(p, r)
    \/ \E p \in Projects : DismissReindexRequirements(p)
    \/ \E w \in Workers, p \in Projects, r \in Reasons :
        \/ BeginReindexRepair(w, p, r)
        \/ ResumeReindexRepair(w, p, r)
        \/ ReindexRequirementToken(w, p, r)
    \/ \E w \in Workers : SettleReindexRequirement(w)

EnvironmentStep ==
    \/ \E w \in Workers : Abandon(w)
    \/ \E p \in Projects, h \in {Absent, Damaged, 0} : DamageHead(p, h)
    \/ \E p \in Projects : LoseManagedMarker(p)

Next == LifecycleStep \/ HeadStep \/ RecoveryStep \/ RequirementStep
            \/ EnvironmentStep

Spec == Init /\ [][Next]_vars
-----------------------------------------------------------------------------
(* Properties.                                                             *)

TokenType ==
    [kind : TokenKinds, project : Projects,
     identity : Identities \cup {NoProject}, head : Heads,
     required : BOOLEAN, managed : BOOLEAN, attested : BOOLEAN,
     verified : BOOLEAN, revision : Revisions, epoch : Revisions,
     generation : Nat, reason : Reasons, seen : Nat, life : Nat]

\* Types of the stored metadata; no revision exceeds the u64 sequence, because
\* next_revision refuses to wrap.
TypeOK ==
    /\ projects \in [Projects -> Identities \cup {NoProject}]
    /\ flag \in [Projects -> BOOLEAN]
    /\ head \in [Projects -> Heads]
    /\ required \in [Projects -> BOOLEAN]
    /\ managed \in [Projects -> BOOLEAN]
    /\ attested \in [Projects -> BOOLEAN]
    /\ verified \in [Projects -> BOOLEAN]
    /\ revision \in [Projects -> Revisions]
    /\ epoch \in [Projects -> Revisions]
    /\ reqRevision \in [Projects -> Revisions]
    /\ pending \in [Projects -> [Reasons -> Revisions]]
    /\ sequence \in Revisions
    /\ token \in [Workers -> TokenType]
    /\ changes \in [Projects -> Nat]
    /\ lifetime \in [Projects -> Nat]
    /\ failures \in [Projects -> [Reasons -> Nat]]
    /\ witness \in [Projects -> Nat]
    /\ published \in [Projects -> Nat]

\* No ABA: a source token the registry would still accept was captured after
\* the last change of the project's head, identity or registration, however
\* often the head went away and came back, or the project was deleted and
\* recreated identically, in between.
TokenFencesChanges ==
    \A w \in Workers :
        LET t == token[w] IN
        \/ t.kind = "head" /\ HeadMatches(t)
        \/ t.kind \in {"recovery", "reserved"} /\ RecoveryMatches(t)
        => t.seen = changes[t.project]

\* identity_epoch() names one lifetime: a derived cache keyed by an old epoch
\* is never trusted after a retarget, an explicit head write, or a deletion
\* and recreation, and the stat cache is trusted only when a scan of the
\* present lifetime was published or attested (source_identity_needs_verification).
EpochNamesLifetime ==
    /\ \A w \in Workers :
          LET t == token[w] IN
          t.kind = "head" /\ Registered(t.project) /\ epoch[t.project] = t.epoch
              => t.life = lifetime[t.project]
    /\ \A p \in Projects :
          Registered(p) /\ verified[p] => witness[p] = lifetime[p]

\* Finishing a repair never acknowledges a failure recorded after the repair
\* captured its requirement, even for the same reason.
SettlementNamesFailure ==
    \A w \in Workers :
        LET t == token[w] IN
        t.kind = "requirement" /\ RequirementMatches(t)
            => t.seen = failures[t.project][t.reason]

\* Epoch, revision and sequence stay ordered; recovery_metadata refuses the
\* project forever if they do not.
AuthorityOrdered ==
    \A p \in Projects :
        /\ epoch[p] <= revision[p]
        /\ revision[p] <= sequence

\* Whatever happens to its head, a registered project whose authority exists
\* can be captured for ordinary publication or for recovery.
NeverStranded ==
    \A p \in Projects :
        Registered(p) /\ revision[p] # 0 /\ epoch[p] # 0
            => HeadReadable(p) \/ (RecoveryAuthority(p) /\ RecoverableHead(p))

\* Once a generation was published, losing the head, or the head and the
\* layout marker, never turns reads back to the legacy generation one.
PublishedNeverLegacy ==
    \A p \in Projects :
        published[p] # 0 /\ head[p] = Absent
            => SnapshotRequirement(p) = "Refused"

\* Two reservations are never given the same generation, abandoned or not.
ReservationsDistinct ==
    \A v, w \in Workers :
        v # w /\ token[v].kind = "reserved" /\ token[w].kind = "reserved"
            => token[v].generation # token[w].generation

\* The comment above capture_source_recovery: "unattested legacy absence
\* keep[s] the ordinary token path".
UnattestedAbsenceIsOrdinary ==
    \A w \in Workers :
        LET t == token[w] IN
        t.kind = "recovery" /\ t.head = Absent
            => t.attested \/ t.required \/ t.managed

-----------------------------------------------------------------------------
(* The registry implements the versioned head.                             *)

HeldVersion ==
    [w \in Workers |->
        IF token[w].kind \in {"head", "recovery", "reserved"}
          THEN <<token[w].project, token[w].seen>> ELSE <<>>]

Versioned == INSTANCE VersionedHead
    WITH version <- changes, published <- published, held <- HeldVersion

\* Publication through either path is compare-and-swap on the version of the
\* project's source authority.
ImplementsVersionedHead == Versioned!Spec
=============================================================================
