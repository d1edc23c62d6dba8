--------------------------- MODULE RegistryProofs ---------------------------
(***************************************************************************)
(* The registry's authority is safe for every set of projects, workers and *)
(* reasons and every length of the revision sequence.                      *)
(*                                                                         *)
(* TokenFencesChanges is not inductive.  A token is fenced because the     *)
(* revision it holds was drawn from the shared sequence and every change   *)
(* draws a larger one (Fresh); the changes that draw none, a deletion and  *)
(* outside damage, only ever move the project away from what the token     *)
(* copied (Outdated).                                                      *)
(*                                                                         *)
(* The other four invariants rest on the same sequence and are proved on   *)
(* top of IInv, each with its own strengthening: a published head is       *)
(* marked (Marked), a reservation is a reading of the sequence (Allotted), *)
(* an epoch is drawn anew with every lifetime (Lived), and so is the       *)
(* revision of every recorded failure (Settled).                           *)
(***************************************************************************)
EXTENDS Registry, TLAPS

SourceKinds == {"head", "recovery", "reserved"}

\* Damage moves a head down: published, zero, unreadable.
Rank(h) == IF h >= 1 THEN 2 ELSE IF h = 0 THEN 1 ELSE 0

\* The project has irrevocably left the state token t copied, without a new
\* revision: it was deleted, or its head or its layout marker was damaged.
Outdated(t) ==
    LET p == t.project IN
    \/ ~Registered(p)
    \/ Rank(head[p]) < Rank(t.head)
    \/ t.managed /\ ~managed[p]

\* The project is exactly as token t copied it.
Faithful(t) ==
    LET p == t.project IN
    t.seen = changes[p] /\ t.head = head[p] /\ t.managed = managed[p]

\* A source token's revision was drawn from the sequence, and while it is the
\* project's, the token is faithful or outdated.
Fresh ==
    \A w \in Workers :
        LET t == token[w] IN
        t.kind \in SourceKinds =>
            /\ t.revision # 0 /\ t.revision <= sequence
            /\ t.revision = revision[t.project] => Faithful(t) \/ Outdated(t)

IInv == TypeOK /\ AuthorityOrdered /\ Fresh

-----------------------------------------------------------------------------
\* The sequence arithmetic.
LEMMA NextRevisionAbove ==
    ASSUME NEW last \in Nat, NEW floor \in Nat
    PROVE  /\ NextRevision(last, floor) \in Nat
           /\ NextRevision(last, floor) > last
           /\ NextRevision(last, floor) > floor
BY DEF NextRevision, Max2

\* advance_revision moves a project above everything it had.
LEMMA AdvancedAbove ==
    ASSUME TypeOK, NEW p \in Projects
    PROVE  /\ AdvancedRevision(p) \in Nat /\ AdvancedRevision(p) > sequence
           /\ AdvancedRevision(p) > revision[p] /\ AdvancedRevision(p) > epoch[p]
<1>1. sequence \in Nat /\ revision[p] \in Nat /\ epoch[p] \in Nat
    BY BoundAssumption DEF TypeOK, Revisions
<1> QED
    BY <1>1 DEF AdvancedRevision, NextRevision, Max2

\* A new epoch is above the revision that was advanced for it.
LEMMA FreshEpochAbove ==
    ASSUME TypeOK, NEW p \in Projects
    PROVE  FreshEpoch(p) \in Nat /\ FreshEpoch(p) > AdvancedRevision(p)
           /\ FreshEpoch(p) > sequence
<1>1. sequence \in Nat
    BY BoundAssumption DEF TypeOK, Revisions
<1> QED
    BY <1>1, AdvancedAbove, NextRevisionAbove DEF FreshEpoch

\* An import and then a new revision, or a new revision alone.
LEMMA TwoRevisionsAbove ==
    ASSUME NEW last \in Nat, NEW floor \in Nat
    PROVE  LET imported == NextRevision(last, 1)
               second   == NextRevision(imported, imported)
               single   == NextRevision(last, floor) IN
           /\ imported \in Nat /\ imported > last
           /\ second \in Nat /\ second > imported /\ second > last
           /\ single \in Nat /\ single > last
<1> DEFINE imported == NextRevision(last, 1)
           second   == NextRevision(imported, imported)
<1>1. imported \in Nat /\ imported > last
    BY NextRevisionAbove
<1> HIDE DEF imported
<1>2. second \in Nat /\ second > imported
    BY <1>1, NextRevisionAbove
<1> HIDE DEF second
<1>3. second > last
    BY <1>1, <1>2
<1> QED
    BY <1>1, <1>2, <1>3, NextRevisionAbove DEF second, imported

-----------------------------------------------------------------------------
(* How a step may move the authority of one project p.                     *)

Same(q) ==
    /\ projects'[q] = projects[q] /\ head'[q] = head[q]
    /\ managed'[q] = managed[q] /\ revision'[q] = revision[q]
    /\ epoch'[q] = epoch[q] /\ changes'[q] = changes[q]

\* A new revision, no revision, nothing, a deletion, or damage.
Moves(p) ==
    \/ revision'[p] > sequence
    \/ revision'[p] = 0
    \/ Same(p)
    \/ projects'[p] = NoProject
    \/ /\ projects'[p] = projects[p] /\ revision'[p] = revision[p]
       /\ \/ Rank(head'[p]) < Rank(head[p]) /\ managed'[p] = managed[p]
          \/ head'[p] = head[p] /\ managed[p] /\ ~managed'[p]

\* What may become of a worker's token: it is given up, kept (reserved
\* counts), or captured from the new state.
Held(w) ==
    LET t == token[w] u == token'[w] q == u.project IN
    \/ u.kind \notin SourceKinds
    \/ /\ t.kind \in SourceKinds
       /\ q = t.project /\ u.revision = t.revision /\ u.seen = t.seen
       /\ u.head = t.head /\ u.managed = t.managed
    \/ /\ u.revision # 0 /\ u.revision <= sequence'
       /\ u.seen = changes'[q] /\ u.head = head'[q] /\ u.managed = managed'[q]

\* Every step moves at most one project's authority, and keeps it ordered.
AuthorityStep(p) ==
    /\ sequence' \in Nat /\ sequence' >= sequence
    /\ \A q \in Projects : q # p => Same(q)
    /\ epoch'[p] <= revision'[p] /\ revision'[p] <= sequence'
    /\ Moves(p)
    /\ \A w \in Workers : Held(w)

\* Any step of that shape keeps the invariant: the heart of the argument.
LEMMA AuthorityStepIInv ==
    ASSUME IInv, TypeOK', NEW p \in Projects, AuthorityStep(p)
    PROVE  IInv'
<1>1. AuthorityOrdered'
  <2> SUFFICES ASSUME NEW q \in Projects
               PROVE  epoch'[q] <= revision'[q] /\ revision'[q] <= sequence'
    BY DEF AuthorityOrdered
  <2>1. CASE q = p
    BY <2>1 DEF AuthorityStep
  <2>2. CASE q # p
    <3>1. epoch'[q] = epoch[q] /\ revision'[q] = revision[q]
      BY <2>2 DEF AuthorityStep, Same
    <3>2. epoch[q] <= revision[q] /\ revision[q] <= sequence
      BY DEF IInv, AuthorityOrdered
    <3>3. revision[q] \in Nat /\ sequence \in Nat /\ sequence' \in Nat
          /\ sequence' >= sequence
      BY BoundAssumption DEF IInv, TypeOK, Revisions, AuthorityStep
    <3> QED
      BY <3>1, <3>2, <3>3
  <2> QED
    BY <2>1, <2>2
<1>2. Fresh'
  <2> SUFFICES ASSUME NEW w \in Workers, token'[w].kind \in SourceKinds
               PROVE  LET u == token'[w] IN
                      /\ u.revision # 0 /\ u.revision <= sequence'
                      /\ u.revision = revision'[u.project]
                            => (Faithful(token[w]) \/ Outdated(token[w]))'
    BY DEF Fresh, Faithful, Outdated, Registered
  <2> DEFINE t == token[w]
             u == token'[w]
             q == u.project
  <2>1. Held(w) /\ q \in Projects
    BY DEF AuthorityStep, TypeOK, TokenType
  <2>2. CASE /\ u.revision # 0 /\ u.revision <= sequence'
             /\ u.seen = changes'[q] /\ u.head = head'[q]
             /\ u.managed = managed'[q]
    BY <2>2 DEF Faithful
  <2>3. CASE /\ t.kind \in SourceKinds
             /\ q = t.project /\ u.revision = t.revision /\ u.seen = t.seen
             /\ u.head = t.head /\ u.managed = t.managed
    <3>1. /\ t.revision # 0 /\ t.revision <= sequence
          /\ t.revision = revision[q] => Faithful(t) \/ Outdated(t)
      BY <2>3 DEF IInv, Fresh
    <3>2. /\ t.revision \in Nat /\ sequence \in Nat /\ sequence' \in Nat
          /\ sequence' >= sequence
      BY BoundAssumption DEF IInv, TypeOK, TokenType, Revisions, AuthorityStep
    <3>3. u.revision # 0 /\ u.revision <= sequence'
      BY <2>3, <3>1, <3>2
    <3>4. ASSUME u.revision = revision'[q], Same(q)
          PROVE  (Faithful(token[w]) \/ Outdated(token[w]))'
      <4>1. Faithful(t) \/ Outdated(t)
        BY <2>3, <3>1, <3>4 DEF Same
      <4> QED
        BY <2>3, <3>4, <4>1 DEF Same, Faithful, Outdated, Registered
    <3>5. ASSUME u.revision = revision'[q], q = p, ~Same(q)
          PROVE  (Faithful(token[w]) \/ Outdated(token[w]))'
      <4>1. CASE projects'[p] = NoProject
        BY <3>5, <4>1 DEF Outdated, Registered
      <4>2. ~(revision'[p] > sequence \/ revision'[p] = 0)
        BY <2>3, <3>1, <3>2, <3>5
      <4>3. CASE /\ projects'[p] = projects[p]
                 /\ \/ Rank(head'[p]) < Rank(head[p]) /\ managed'[p] = managed[p]
                    \/ head'[p] = head[p] /\ managed[p] /\ ~managed'[p]
                 /\ revision'[p] = revision[p]
        <5>1. Faithful(t) \/ Outdated(t)
          BY <2>3, <3>1, <3>5, <4>3
        <5>2. Rank(head[p]) \in Nat /\ Rank(head'[p]) \in Nat /\ Rank(t.head) \in Nat
          BY DEF Rank
        <5> QED
          BY <2>3, <3>5, <4>3, <5>1, <5>2 DEF Faithful, Outdated, Registered
      <4> QED
        BY <2>1, <3>5, <4>1, <4>2, <4>3 DEF AuthorityStep, Moves
    <3> QED
      BY <2>1, <3>3, <3>4, <3>5 DEF AuthorityStep
  <2> QED
    BY <2>1, <2>2, <2>3 DEF Held
<1> QED
    BY <1>1, <1>2 DEF IInv

-----------------------------------------------------------------------------
(* What the helpers of the actions leave behind.                           *)

\* The scalars the arithmetic needs, out of TypeOK.
LEMMA Numbers ==
    ASSUME TypeOK, NEW p \in Projects
    PROVE  /\ sequence \in Nat /\ revision[p] \in Nat /\ epoch[p] \in Nat
           /\ reqRevision[p] \in Nat /\ changes[p] \in Nat /\ lifetime[p] \in Nat
           /\ MaxRevision \in Nat
BY BoundAssumption DEF TypeOK, Revisions

\* mark_identity_unverified.
LEMMA ChangeIdentityEffect ==
    ASSUME TypeOK, NEW p \in Projects, ChangeIdentity(p)
    PROVE  /\ revision' \in [Projects -> Revisions]
           /\ epoch' \in [Projects -> Revisions]
           /\ verified' \in [Projects -> BOOLEAN]
           /\ FreshEpoch(p) \in Revisions
           /\ revision'[p] = FreshEpoch(p) /\ epoch'[p] = FreshEpoch(p)
           /\ \A q \in Projects : q # p =>
                 revision'[q] = revision[q] /\ epoch'[q] = epoch[q]
<1>1. FreshEpoch(p) \in Revisions
    BY FreshEpochAbove, BoundAssumption DEF ChangeIdentity, Revisions
<1> QED
    BY <1>1 DEF ChangeIdentity, TypeOK

\* advance_revision.
LEMMA AdvanceRevisionEffect ==
    ASSUME TypeOK, NEW p \in Projects, AdvanceRevision(p)
    PROVE  /\ revision' \in [Projects -> Revisions]
           /\ sequence' \in Revisions
           /\ sequence' = AdvancedRevision(p) /\ revision'[p] = AdvancedRevision(p)
           /\ \A q \in Projects : q # p => revision'[q] = revision[q]
<1>1. AdvancedRevision(p) \in Revisions
    BY AdvancedAbove, BoundAssumption DEF AdvanceRevision, Revisions
<1> QED
    BY <1>1 DEF AdvanceRevision, TypeOK

\* write_requirements.
LEMMA WriteRequirementsEffect ==
    ASSUME TypeOK, NEW p \in Projects, NEW rev \in Revisions,
           NEW pend \in [Reasons -> Revisions], WriteRequirements(p, rev, pend)
    PROVE  /\ reqRevision' \in [Projects -> Revisions]
           /\ pending' \in [Projects -> [Reasons -> Revisions]]
           /\ flag' \in [Projects -> BOOLEAN]
BY DEF WriteRequirements, TypeOK

\* The history counters.
LEMMA HistoryEffect ==
    ASSUME TypeOK, NEW p \in Projects
    PROVE  /\ Changed(p) => /\ changes' \in [Projects -> Nat]
                            /\ \A q \in Projects : q # p => changes'[q] = changes[q]
           /\ NewLife(p) => lifetime' \in [Projects -> Nat]
           /\ \A r \in Reasons : Fail(p, r) =>
                 failures' \in [Projects -> [Reasons -> Nat]]
<1>1. Changed(p) => /\ changes' \in [Projects -> Nat]
                    /\ \A q \in Projects : q # p => changes'[q] = changes[q]
    BY DEF Changed, TypeOK
<1>2. NewLife(p) => lifetime' \in [Projects -> Nat]
    BY DEF NewLife, TypeOK
<1>3. ASSUME NEW r \in Reasons, Fail(p, r)
      PROVE  failures' \in [Projects -> [Reasons -> Nat]]
    BY <1>3 DEF Fail, TypeOK
<1> QED
    BY <1>1, <1>2, <1>3

\* A worker that holds nothing holds a token.
LEMMA NoTokenType == NoToken \in TokenType /\ NoToken.kind = "none"
<1>1. (CHOOSE p \in Projects : TRUE) \in Projects
    BY ProjectsAssumption
<1>2. 0 \in Revisions /\ Absent \in Heads
    BY BoundAssumption DEF Revisions, Absent, Heads
<1> QED
    BY <1>1, <1>2, UnknownAssumption DEF NoToken, TokenType, TokenKinds

\* Pending maps.
LEMMA PendingTypes ==
    /\ NoPending \in [Reasons -> Revisions]
    /\ NoPending \in [Reasons -> Nat]
    /\ \A pend \in [Reasons -> Revisions], r \in Reasons, v \in Revisions :
           [pend EXCEPT ![r] = v] \in [Reasons -> Revisions]
BY BoundAssumption DEF NoPending, Revisions

\* Tokens that stay where they are.
LEMMA TokensKept ==
    ASSUME TypeOK, UNCHANGED token
    PROVE  token' \in [Workers -> TokenType] /\ \A w \in Workers : Held(w)
BY DEF TypeOK, Held

\* A worker puts a token of no source kind in its hand.
LEMMA TokenPut ==
    ASSUME TypeOK, NEW v \in Workers, NEW u \in TokenType, Hold(v, u)
    PROVE  /\ token' \in [Workers -> TokenType]
           /\ token'[v] = u
           /\ \A w \in Workers : w # v => Held(w)
           /\ u.kind \notin SourceKinds => Held(v)
<1>1. token' \in [Workers -> TokenType] /\ token'[v] = u
      /\ \A w \in Workers : w # v => token'[w] = token[w]
    BY DEF Hold, TypeOK
<1> QED
    BY <1>1 DEF Held

-----------------------------------------------------------------------------
(* Project lifecycle.                                                      *)

\* A registration draws a new epoch.
LEMMA RegisterSourceProjectIInv ==
    ASSUME IInv, NEW p \in Projects, NEW i \in Identities,
           RegisterSourceProject(p, i)
    PROVE  IInv'
<1>1. TypeOK /\ ChangeIdentity(p) /\ sequence' = FreshEpoch(p)
      /\ Changed(p) /\ NewLife(p) /\ UNCHANGED token
    BY DEF IInv, RegisterSourceProject
<1>2. TypeOK'
  <2>1. /\ projects' \in [Projects -> Identities \cup {NoProject}]
        /\ head' \in [Projects -> Heads]
        /\ flag' \in [Projects -> BOOLEAN] /\ required' \in [Projects -> BOOLEAN]
    BY <1>1 DEF RegisterSourceProject, TypeOK, Heads
  <2> QED
    BY <1>1, <2>1, ChangeIdentityEffect, HistoryEffect
       DEF RegisterSourceProject, TypeOK
<1>3. AuthorityStep(p)
  <2>1. \A q \in Projects : q # p => Same(q)
    BY <1>1, ChangeIdentityEffect, HistoryEffect
       DEF RegisterSourceProject, Same, TypeOK
  <2>2. /\ revision'[p] = FreshEpoch(p) /\ epoch'[p] = FreshEpoch(p)
        /\ FreshEpoch(p) \in Nat /\ FreshEpoch(p) > sequence /\ sequence \in Nat
    BY <1>1, ChangeIdentityEffect, FreshEpochAbove, Numbers
  <2>3. \A w \in Workers : Held(w)
    BY <1>1, TokensKept
  <2> QED
    BY <1>1, <2>1, <2>2, <2>3 DEF AuthorityStep, Moves
<1> QED
    BY <1>2, <1>3, AuthorityStepIInv

\* An explicit head write draws a new epoch if the head changes.
LEMMA SetHeadMetaIInv ==
    ASSUME IInv, NEW p \in Projects, NEW h \in Nat, SetHeadMeta(p, h)
    PROVE  IInv'
<1>1. TypeOK /\ UNCHANGED token
    BY DEF IInv, SetHeadMeta
<1>2. /\ head' \in [Projects -> Heads] /\ required' \in [Projects -> BOOLEAN]
      /\ head'[p] = h
      /\ \A q \in Projects : q # p => head'[q] = head[q]
    BY <1>1 DEF SetHeadMeta, TypeOK, Heads
<1>3. CASE head[p] # h
  <2>1. ChangeIdentity(p) /\ sequence' = FreshEpoch(p) /\ Changed(p) /\ NewLife(p)
    BY <1>3 DEF SetHeadMeta
  <2>2. TypeOK'
    BY <1>1, <1>2, <2>1, ChangeIdentityEffect, HistoryEffect
       DEF SetHeadMeta, TypeOK, requirements
  <2>3. AuthorityStep(p)
    <3>1. \A q \in Projects : q # p => Same(q)
      BY <1>1, <1>2, <2>1, ChangeIdentityEffect, HistoryEffect
         DEF SetHeadMeta, Same
    <3>2. /\ revision'[p] = FreshEpoch(p) /\ epoch'[p] = FreshEpoch(p)
          /\ FreshEpoch(p) \in Nat /\ FreshEpoch(p) > sequence /\ sequence \in Nat
      BY <1>1, <2>1, ChangeIdentityEffect, FreshEpochAbove, Numbers
    <3> QED
      BY <1>1, <2>1, <3>1, <3>2, TokensKept DEF AuthorityStep, Moves
  <2> QED
    BY <2>2, <2>3, AuthorityStepIInv
<1>4. CASE head[p] = h
  <2>1. UNCHANGED <<revision, epoch, verified, sequence, changes, lifetime>>
    BY <1>4 DEF SetHeadMeta
  <2>2. TypeOK'
    BY <1>1, <1>2, <2>1 DEF SetHeadMeta, TypeOK, requirements
  <2>3. \A q \in Projects : Same(q)
    BY <1>2, <1>4, <2>1 DEF SetHeadMeta, Same
  <2>4. sequence \in Nat /\ epoch[p] <= revision[p] /\ revision[p] <= sequence
    BY <1>1, Numbers DEF IInv, AuthorityOrdered
  <2>5. AuthorityStep(p)
    BY <1>1, <2>1, <2>3, <2>4, TokensKept DEF AuthorityStep, Moves
  <2> QED
    BY <2>2, <2>5, AuthorityStepIInv
<1> QED
    BY <1>3, <1>4

\* The requirement side of put_project: the sequence it leaves is not below
\* the one it starts from.
LEMMA PutProjectRequirements ==
    ASSUME TypeOK, NEW p \in Projects, NEW last \in Revisions,
           NEW incoming \in BOOLEAN,
           LET imported == NextRevision(last, 1) IN
           IF ImportsLegacy(p, incoming)
             THEN /\ imported <= MaxRevision
                  /\ sequence' = imported
                  /\ WriteRequirements(p, imported,
                                       [NoPending EXCEPT ![Unknown] = imported])
                  /\ Fail(p, Unknown)
             ELSE /\ sequence' = last
                  /\ flag' = [flag EXCEPT ![p] =
                                 \E r \in Reasons : pending[p][r] # 0]
                  /\ UNCHANGED <<reqRevision, pending, failures>>
    PROVE  /\ sequence' \in Revisions /\ sequence' >= last
           /\ flag' \in [Projects -> BOOLEAN]
           /\ reqRevision' \in [Projects -> Revisions]
           /\ pending' \in [Projects -> [Reasons -> Revisions]]
           /\ failures' \in [Projects -> [Reasons -> Nat]]
<1> DEFINE imported == NextRevision(last, 1)
<1>1. last \in Nat /\ MaxRevision \in Nat
    BY BoundAssumption DEF Revisions
<1>2. CASE ImportsLegacy(p, incoming)
  <2>1. imported \in Revisions /\ imported >= last
    BY <1>1, <1>2, NextRevisionAbove DEF Revisions
  <2>2. WriteRequirements(p, imported, [NoPending EXCEPT ![Unknown] = imported])
    BY <1>2
  <2> HIDE DEF imported
  <2>3. [NoPending EXCEPT ![Unknown] = imported] \in [Reasons -> Revisions]
    BY <2>1, PendingTypes, UnknownAssumption
  <2>4. sequence' = imported /\ Fail(p, Unknown)
    BY <1>2 DEF imported
  <2> QED
    BY <2>1, <2>2, <2>3, <2>4, WriteRequirementsEffect, HistoryEffect,
       UnknownAssumption
<1>3. CASE ~ImportsLegacy(p, incoming)
  <2>1. /\ sequence' = last
        /\ flag' = [flag EXCEPT ![p] = \E r \in Reasons : pending[p][r] # 0]
        /\ UNCHANGED <<reqRevision, pending, failures>>
    BY <1>3
  <2> QED
    BY <1>1, <2>1 DEF TypeOK
<1> QED
    BY <1>2, <1>3

\* put_project never lowers the sequence, and its requirement side keeps types.
LEMMA PutProjectEffect ==
    ASSUME TypeOK, NEW p \in Projects, NEW i \in Identities,
           NEW incoming \in BOOLEAN, PutProject(p, i, incoming)
    PROVE  LET last == IF projects[p] # i THEN FreshEpoch(p) ELSE sequence IN
           /\ last \in Revisions /\ last >= sequence /\ sequence \in Nat
           /\ sequence' \in Revisions /\ sequence' >= last
           /\ flag' \in [Projects -> BOOLEAN]
           /\ reqRevision' \in [Projects -> Revisions]
           /\ pending' \in [Projects -> [Reasons -> Revisions]]
           /\ failures' \in [Projects -> [Reasons -> Nat]]
<1> DEFINE retarget == projects[p] # i
           last == IF retarget THEN FreshEpoch(p) ELSE sequence
<1>1. retarget => ChangeIdentity(p)
    BY DEF PutProject
<1>2. last \in Revisions /\ last >= sequence /\ sequence \in Nat
  <2>1. retarget => FreshEpoch(p) \in Revisions /\ FreshEpoch(p) > sequence
    BY <1>1, ChangeIdentityEffect, FreshEpochAbove
  <2>2. sequence \in Revisions /\ sequence \in Nat
    BY Numbers DEF TypeOK
  <2>3. CASE retarget
    <3>1. last = FreshEpoch(p) /\ FreshEpoch(p) \in Nat
      BY <2>3, FreshEpochAbove
    <3> QED
      BY <2>1, <2>2, <2>3, <3>1
  <2>4. CASE ~retarget
    <3>1. last = sequence
      BY <2>4
    <3> QED
      BY <2>2, <3>1
  <2> QED
    BY <2>3, <2>4
<1>3. LET imported == NextRevision(last, 1) IN
      IF ImportsLegacy(p, incoming)
           THEN /\ imported <= MaxRevision
                /\ sequence' = imported
                /\ WriteRequirements(p, imported,
                                     [NoPending EXCEPT ![Unknown] = imported])
                /\ Fail(p, Unknown)
           ELSE /\ sequence' = last
                /\ flag' = [flag EXCEPT ![p] =
                               \E r \in Reasons : pending[p][r] # 0]
                /\ UNCHANGED <<reqRevision, pending, failures>>
    BY DEF PutProject
<1>4. /\ sequence' \in Revisions /\ sequence' >= last
      /\ flag' \in [Projects -> BOOLEAN]
      /\ reqRevision' \in [Projects -> Revisions]
      /\ pending' \in [Projects -> [Reasons -> Revisions]]
      /\ failures' \in [Projects -> [Reasons -> Nat]]
  <2> HIDE DEF last
  <2> QED
    BY <1>2, <1>3, PutProjectRequirements
<1> QED
    BY <1>2, <1>4

\* An edit draws a new epoch if it retargets; it may import a legacy flag.
LEMMA PutProjectIInv ==
    ASSUME IInv, NEW p \in Projects, NEW i \in Identities,
           NEW incoming \in BOOLEAN, PutProject(p, i, incoming)
    PROVE  IInv'
<1> DEFINE retarget == projects[p] # i
           last == IF retarget THEN FreshEpoch(p) ELSE sequence
<1>1. TypeOK /\ UNCHANGED <<head, required, managed, attested, token, witness,
                            published>>
    BY DEF IInv, PutProject
<1>2. /\ retarget => ChangeIdentity(p) /\ Changed(p) /\ NewLife(p)
      /\ ~retarget => UNCHANGED <<revision, epoch, verified, changes, lifetime>>
    BY DEF PutProject
<1>3. last \in Revisions /\ last >= sequence /\ sequence \in Nat
    BY <1>1, PutProjectEffect
<1>4. /\ sequence' \in Revisions /\ sequence' >= last
      /\ flag' \in [Projects -> BOOLEAN]
      /\ reqRevision' \in [Projects -> Revisions]
      /\ pending' \in [Projects -> [Reasons -> Revisions]]
      /\ failures' \in [Projects -> [Reasons -> Nat]]
    BY <1>1, PutProjectEffect
<1>5. /\ projects' \in [Projects -> Identities \cup {NoProject}]
      /\ projects'[p] = i
      /\ \A q \in Projects : q # p => projects'[q] = projects[q]
    BY <1>1 DEF PutProject, TypeOK
<1>6. TypeOK'
  <2>1. CASE retarget
    BY <1>1, <1>2, <1>4, <1>5, <2>1, ChangeIdentityEffect, HistoryEffect DEF TypeOK
  <2>2. CASE ~retarget
    BY <1>1, <1>2, <1>4, <1>5, <2>2 DEF TypeOK
  <2> QED
    BY <2>1, <2>2
<1>7. AuthorityStep(p)
  <2>1. sequence' \in Nat /\ sequence' >= sequence /\ sequence' >= last
    BY <1>3, <1>4, BoundAssumption DEF Revisions
  <2>2. \A w \in Workers : Held(w)
    BY <1>1, TokensKept
  <2>3. CASE retarget
    <3>1. \A q \in Projects : q # p => Same(q)
      BY <1>1, <1>2, <1>5, <2>3, ChangeIdentityEffect, HistoryEffect DEF Same
    <3>2. /\ revision'[p] = FreshEpoch(p) /\ epoch'[p] = FreshEpoch(p)
          /\ FreshEpoch(p) \in Nat /\ FreshEpoch(p) > sequence
      BY <1>1, <1>2, <2>3, ChangeIdentityEffect, FreshEpochAbove
    <3> QED
      BY <2>1, <2>2, <2>3, <3>1, <3>2 DEF AuthorityStep, Moves
  <2>4. CASE ~retarget
    <3>1. \A q \in Projects : Same(q)
      BY <1>1, <1>2, <1>5, <2>4 DEF Same
    <3>2. epoch[p] <= revision[p] /\ revision[p] <= sequence /\ revision[p] \in Nat
      BY <1>1, Numbers DEF IInv, AuthorityOrdered
    <3> QED
      BY <1>2, <1>3, <2>1, <2>2, <2>4, <3>1, <3>2 DEF AuthorityStep, Moves
  <2> QED
    BY <2>3, <2>4
<1> QED
    BY <1>6, <1>7, AuthorityStepIInv

\* clear_pending_on_delete.
LEMMA ClearPendingOnDeleteEffect ==
    ASSUME TypeOK, NEW p \in Projects, ClearPendingOnDelete(p)
    PROVE  /\ sequence' \in Revisions /\ sequence' \in Nat /\ sequence' >= sequence
           /\ reqRevision[p] # 0 \/ flag[p] => DeletedRevision(p) \in Revisions
<1>1. sequence \in Nat /\ sequence \in Revisions /\ reqRevision[p] \in Nat
      /\ MaxRevision \in Nat
    BY Numbers DEF TypeOK
<1>2. DeletedRevision(p) \in Nat /\ DeletedRevision(p) > sequence
    BY <1>1, TwoRevisionsAbove DEF DeletedRevision
<1> QED
    BY <1>1, <1>2 DEF ClearPendingOnDelete, Revisions

\* A deletion draws no revision for the head: its tokens are outdated.
LEMMA DeleteProjectIInv ==
    ASSUME IInv, NEW p \in Projects, DeleteProject(p)
    PROVE  IInv'
<1>1. TypeOK /\ ClearPendingOnDelete(p) /\ Changed(p) /\ NewLife(p)
      /\ UNCHANGED <<head, required, managed, attested, verified, revision,
                     epoch, token, failures, witness, published>>
    BY DEF IInv, DeleteProject
<1>2. /\ flag' \in [Projects -> BOOLEAN]
      /\ reqRevision' \in [Projects -> Revisions]
      /\ pending' \in [Projects -> [Reasons -> Revisions]]
  <2>1. CASE reqRevision[p] # 0 \/ flag[p]
    <3>1. WriteRequirements(p, DeletedRevision(p), NoPending)
      BY <2>1 DEF DeleteProject
    <3> QED
      BY <1>1, <2>1, <3>1, ClearPendingOnDeleteEffect, PendingTypes,
         WriteRequirementsEffect
  <2>2. CASE ~(reqRevision[p] # 0 \/ flag[p])
    BY <1>1, <2>2 DEF DeleteProject, TypeOK
  <2> QED
    BY <2>1, <2>2
<1>3. /\ projects' \in [Projects -> Identities \cup {NoProject}]
      /\ projects'[p] = NoProject
      /\ \A q \in Projects : q # p => projects'[q] = projects[q]
    BY <1>1 DEF DeleteProject, TypeOK
<1>4. TypeOK'
    BY <1>1, <1>2, <1>3, ClearPendingOnDeleteEffect, HistoryEffect DEF TypeOK
<1>5. AuthorityStep(p)
  <2>1. \A q \in Projects : q # p => Same(q)
    BY <1>1, <1>3, HistoryEffect DEF Same
  <2>2. epoch[p] <= revision[p] /\ revision[p] <= sequence /\ revision[p] \in Nat
        /\ sequence \in Nat
    BY <1>1, Numbers DEF IInv, AuthorityOrdered
  <2>3. sequence' \in Nat /\ sequence' >= sequence
    BY <1>1, ClearPendingOnDeleteEffect
  <2> QED
    BY <1>1, <1>3, <2>1, <2>2, <2>3, TokensKept DEF AuthorityStep, Moves
<1> QED
    BY <1>4, <1>5, AuthorityStepIInv

\* After a full deletion the revision is missing, and no token holds that.
LEMMA DeleteAllForProjectIInv ==
    ASSUME IInv, NEW p \in Projects, DeleteAllForProject(p)
    PROVE  IInv'
<1>1. TypeOK /\ ClearPendingOnDelete(p) /\ Changed(p) /\ NewLife(p)
      /\ WriteRequirements(p, 0, NoPending)
      /\ UNCHANGED <<token, failures, witness>>
    BY DEF IInv, DeleteAllForProject
<1>2. /\ flag' \in [Projects -> BOOLEAN]
      /\ reqRevision' \in [Projects -> Revisions]
      /\ pending' \in [Projects -> [Reasons -> Revisions]]
  <2>1. 0 \in Revisions
    BY BoundAssumption DEF Revisions
  <2> QED
    BY <1>1, <2>1, PendingTypes, WriteRequirementsEffect
<1>3. /\ projects' \in [Projects -> Identities \cup {NoProject}]
      /\ head' \in [Projects -> Heads] /\ required' \in [Projects -> BOOLEAN]
      /\ managed' \in [Projects -> BOOLEAN] /\ attested' \in [Projects -> BOOLEAN]
      /\ verified' \in [Projects -> BOOLEAN]
    BY <1>1 DEF DeleteAllForProject, TypeOK, Heads
<1>4. /\ revision' \in [Projects -> Revisions] /\ epoch' \in [Projects -> Revisions]
      /\ published' \in [Projects -> Nat]
      /\ revision'[p] = 0 /\ epoch'[p] = 0
    BY <1>1, BoundAssumption DEF DeleteAllForProject, TypeOK, Revisions
<1>5. TypeOK'
    BY <1>1, <1>2, <1>3, <1>4, ClearPendingOnDeleteEffect, HistoryEffect DEF TypeOK
<1>6. AuthorityStep(p)
  <2>1. \A q \in Projects : q # p => Same(q)
    BY <1>1, HistoryEffect DEF Same, DeleteAllForProject, TypeOK
  <2>2. sequence' \in Nat /\ sequence' >= sequence
    BY <1>1, ClearPendingOnDeleteEffect
  <2> QED
    BY <1>1, <1>4, <2>1, <2>2, TokensKept DEF AuthorityStep, Moves
<1> QED
    BY <1>5, <1>6, AuthorityStepIInv

-----------------------------------------------------------------------------
(* Publication.                                                            *)

\* A token copied from the registry.
LEMMA SourceTokenType ==
    ASSUME TypeOK, NEW p \in Projects, NEW kind \in TokenKinds,
           NEW r \in Revisions, NEW e \in Revisions, NEW g \in Nat
    PROVE  LET t == SourceToken(kind, p, r, e, g) IN
           /\ t \in TokenType /\ t.kind = kind /\ t.project = p /\ t.revision = r
           /\ t.seen = changes[p] /\ t.head = head[p] /\ t.managed = managed[p]
BY UnknownAssumption DEF SourceToken, TokenType, TypeOK

\* The generation a readable head stands for.
LEMMA GenerationNat ==
    ASSUME TypeOK, NEW p \in Projects, HeadReadable(p)
    PROVE  Generation(head[p]) \in Nat
BY DEF TypeOK, Heads, HeadReadable, Generation, Absent, Damaged

\* A capture may create revision and epoch; its token is faithful.
LEMMA CaptureSourceHeadIInv ==
    ASSUME IInv, NEW w \in Workers, NEW p \in Projects, CaptureSourceHead(w, p)
    PROVE  IInv'
<1> DEFINE rev  == IF revision[p] = 0 THEN AdvancedRevision(p) ELSE revision[p]
           last == IF revision[p] = 0 THEN rev ELSE sequence
           ep   == IF epoch[p] = 0 THEN NextRevision(last, rev) ELSE epoch[p]
           cur  == IF epoch[p] = 0 THEN ep ELSE rev
           seq  == IF epoch[p] = 0 THEN ep ELSE last
           t    == SourceToken("head", p, cur, ep, Generation(head[p]))
<1>1. /\ TypeOK /\ cur <= MaxRevision
      /\ revision' = [revision EXCEPT ![p] = cur]
      /\ epoch' = [epoch EXCEPT ![p] = ep]
      /\ verified' = [verified EXCEPT ![p] = @ /\ epoch[p] # 0]
      /\ sequence' = seq /\ Hold(w, t) /\ HeadReadable(p)
      /\ UNCHANGED <<projects, head, required, managed, attested, requirements,
                     history>>
    BY DEF IInv, CaptureSourceHead
<1>2. /\ sequence \in Nat /\ revision[p] \in Nat /\ epoch[p] \in Nat
      /\ MaxRevision \in Nat
      /\ epoch[p] <= revision[p] /\ revision[p] <= sequence
    BY <1>1, Numbers DEF IInv, AuthorityOrdered
<1>3. AdvancedRevision(p) \in Nat /\ AdvancedRevision(p) > sequence
    BY <1>1, AdvancedAbove
<1>4. rev \in Nat /\ rev # 0 /\ last \in Nat /\ last >= sequence /\ rev <= last
    BY <1>2, <1>3
<1>5. NextRevision(last, rev) \in Nat /\ NextRevision(last, rev) > last
      /\ NextRevision(last, rev) > rev
    BY <1>4, NextRevisionAbove
<1>6. /\ cur \in Revisions /\ ep \in Revisions /\ cur # 0
      /\ seq \in Nat /\ seq >= sequence /\ ep <= cur /\ cur <= seq
    <2> HIDE DEF rev, last
    <2>1. CASE epoch[p] = 0
      BY <1>1, <1>2, <1>4, <1>5, <2>1 DEF Revisions
    <2>2. CASE epoch[p] # 0
      <3>1. revision[p] # 0 /\ rev = revision[p]
        BY <1>2, <2>2 DEF rev
      <3> QED
        BY <1>1, <1>2, <1>4, <2>2, <3>1 DEF Revisions
    <2> QED
      BY <2>1, <2>2
<1>7. seq \in Revisions
    <2>1. CASE epoch[p] = 0
      BY <1>6, <2>1
    <2>2. CASE epoch[p] # 0
      BY <1>1, <1>2, <2>2 DEF TypeOK
    <2> QED
      BY <2>1, <2>2
<1>8. (cur = revision[p] /\ ep = epoch[p]) \/ cur > sequence
    <2>1. CASE epoch[p] = 0
      BY <1>4, <1>5, <1>2, <2>1
    <2>2. CASE epoch[p] # 0
      BY <1>2, <2>2
    <2> QED
      BY <2>1, <2>2
<1> HIDE DEF rev, last, ep, cur, seq
<1>9. t \in TokenType /\ t.kind = "head" /\ t.project = p /\ t.revision = cur
      /\ t.seen = changes[p] /\ t.head = head[p] /\ t.managed = managed[p]
    BY <1>1, <1>6, GenerationNat, SourceTokenType DEF TokenKinds
<1> HIDE DEF t
<1>10. TypeOK'
    <2>1. /\ revision' \in [Projects -> Revisions] /\ epoch' \in [Projects -> Revisions]
          /\ verified' \in [Projects -> BOOLEAN] /\ sequence' \in Revisions
      BY <1>1, <1>6, <1>7 DEF TypeOK
    <2> QED
      BY <1>1, <1>9, <2>1, TokenPut DEF TypeOK, requirements, history
<1>11. AuthorityStep(p)
    <2>1. /\ revision'[p] = cur /\ epoch'[p] = ep
          /\ \A q \in Projects : q # p => Same(q)
      BY <1>1 DEF TypeOK, Same, history
    <2>2. Moves(p)
      <3>1. CASE cur > sequence
        BY <2>1, <3>1 DEF Moves
      <3>2. CASE cur = revision[p] /\ ep = epoch[p]
        BY <1>1, <2>1, <3>2 DEF Moves, Same, history
      <3> QED
        BY <1>8, <3>1, <3>2
    <2>3. Held(w)
      BY <1>1, <1>6, <1>9, TokenPut DEF Held, history
    <2> QED
      BY <1>1, <1>6, <1>9, <2>1, <2>2, <2>3, TokenPut DEF AuthorityStep
<1> QED
    BY <1>10, <1>11, AuthorityStepIInv

\* The effect of a publication, by either path.
LEMMA PublicationIInv ==
    ASSUME IInv, NEW w \in Workers, NEW p \in Projects, NEW g \in Nat,
           AdvanceRevision(p), MarkPublished(p, g), Hold(w, NoToken), Changed(p),
           published' = [published EXCEPT ![p] = changes[p] + 1],
           witness' = [witness EXCEPT ![p] = token[w].life],
           UNCHANGED <<projects, attested, epoch, requirements, lifetime, failures>>
    PROVE  IInv'
<1>1. TypeOK /\ token[w].life \in Nat /\ changes[p] + 1 \in Nat
    BY DEF IInv, TypeOK, TokenType
<1>2. /\ head' \in [Projects -> Heads] /\ required' \in [Projects -> BOOLEAN]
      /\ managed' \in [Projects -> BOOLEAN] /\ verified' \in [Projects -> BOOLEAN]
      /\ \A q \in Projects : q # p => head'[q] = head[q] /\ managed'[q] = managed[q]
    BY <1>1 DEF MarkPublished, TypeOK, Heads
<1>3. published' \in [Projects -> Nat] /\ witness' \in [Projects -> Nat]
    BY <1>1 DEF TypeOK
<1>4. TypeOK'
    BY <1>1, <1>2, <1>3, AdvanceRevisionEffect, HistoryEffect, TokenPut, NoTokenType
       DEF TypeOK, requirements
<1>5. AuthorityStep(p)
  <2>1. \A q \in Projects : q # p => Same(q)
    BY <1>1, <1>2, AdvanceRevisionEffect, HistoryEffect DEF Same
  <2>2. /\ revision'[p] = AdvancedRevision(p) /\ sequence' = AdvancedRevision(p)
        /\ AdvancedRevision(p) \in Nat /\ AdvancedRevision(p) > sequence
        /\ AdvancedRevision(p) > epoch[p] /\ sequence \in Nat /\ epoch[p] \in Nat
    BY <1>1, AdvanceRevisionEffect, AdvancedAbove, Numbers
  <2>3. \A v \in Workers : Held(v)
    BY <1>1, TokenPut, NoTokenType DEF SourceKinds
  <2> QED
    BY <2>1, <2>2, <2>3 DEF AuthorityStep, Moves
<1> QED
    BY <1>4, <1>5, AuthorityStepIInv

\* publish_source_head.
LEMMA PublishSourceHeadIInv ==
    ASSUME IInv, NEW w \in Workers, NEW g \in Nat, PublishSourceHead(w, g)
    PROVE  IInv'
<1>1. token[w].project \in Projects
    BY DEF IInv, TypeOK, TokenType
<1> QED
    BY <1>1, PublicationIInv DEF PublishSourceHead

\* publish_source_recovery.
LEMMA PublishSourceRecoveryIInv ==
    ASSUME IInv, NEW w \in Workers, PublishSourceRecovery(w)
    PROVE  IInv'
<1>1. token[w].project \in Projects /\ token[w].generation \in Nat
    BY DEF IInv, TypeOK, TokenType
<1> QED
    BY <1>1, PublicationIInv DEF PublishSourceRecovery

\* An attestation draws a revision, so older tokens are no longer current.
LEMMA AttestUnchangedSourceIdentityIInv ==
    ASSUME IInv, NEW w \in Workers, AttestUnchangedSourceIdentity(w)
    PROVE  IInv'
<1> DEFINE p == token[w].project
<1>1. TypeOK /\ p \in Projects /\ token[w].life \in Nat /\ AdvanceRevision(p)
      /\ verified' = [verified EXCEPT ![p] = TRUE]
      /\ witness' = [witness EXCEPT ![p] = token[w].life]
      /\ UNCHANGED <<projects, head, required, managed, attested, epoch,
                     requirements, token, changes, lifetime, failures, published>>
    BY DEF IInv, TypeOK, TokenType, AttestUnchangedSourceIdentity
<1> HIDE DEF p
<1>2. witness' \in [Projects -> Nat] /\ verified' \in [Projects -> BOOLEAN]
    BY <1>1 DEF TypeOK
<1>3. TypeOK'
    BY <1>1, <1>2, AdvanceRevisionEffect DEF TypeOK, requirements
<1>4. AuthorityStep(p)
  <2>1. \A q \in Projects : q # p => Same(q)
    BY <1>1, AdvanceRevisionEffect DEF Same
  <2>2. /\ revision'[p] = AdvancedRevision(p) /\ sequence' = AdvancedRevision(p)
        /\ AdvancedRevision(p) \in Nat /\ AdvancedRevision(p) > sequence
        /\ AdvancedRevision(p) > epoch[p] /\ sequence \in Nat /\ epoch[p] \in Nat
    BY <1>1, AdvanceRevisionEffect, AdvancedAbove, Numbers
  <2> QED
    BY <1>1, <2>1, <2>2, TokensKept DEF AuthorityStep, Moves
<1> QED
    BY <1>1, <1>3, <1>4, AuthorityStepIInv

\* A step that leaves the authority alone and at most raises the sequence.
LEMMA QuietStepIInv ==
    ASSUME IInv, TypeOK',
           UNCHANGED <<projects, head, managed, revision, epoch, changes>>,
           sequence' >= sequence, \A w \in Workers : Held(w)
    PROVE  IInv'
<1>1. PICK p \in Projects : TRUE
    BY ProjectsAssumption
<1>2. /\ sequence \in Nat /\ sequence' \in Nat /\ revision[p] \in Nat
      /\ epoch[p] <= revision[p] /\ revision[p] <= sequence
    BY BoundAssumption DEF IInv, TypeOK, AuthorityOrdered, Revisions
<1>3. \A q \in Projects : Same(q)
    BY DEF Same
<1>4. AuthorityStep(p)
    BY <1>2, <1>3 DEF AuthorityStep, Moves
<1> QED
    BY <1>4, AuthorityStepIInv

\* attest_legacy_source_head.
LEMMA AttestLegacySourceHeadIInv ==
    ASSUME IInv, NEW w \in Workers, AttestLegacySourceHead(w)
    PROVE  IInv'
<1>1. TypeOK /\ sequence \in Nat
    BY BoundAssumption DEF IInv, TypeOK, Revisions
<1>2. attested' \in [Projects -> BOOLEAN]
    BY <1>1 DEF AttestLegacySourceHead, TypeOK
<1>3. TypeOK'
    BY <1>1, <1>2 DEF AttestLegacySourceHead, TypeOK, requirements, history
<1> QED
    BY <1>1, <1>3, TokensKept, QuietStepIInv DEF AttestLegacySourceHead, history

-----------------------------------------------------------------------------
(* Recovery of a damaged head.                                             *)

\* A recovery's token is faithful when it is captured.
LEMMA CaptureSourceRecoveryIInv ==
    ASSUME IInv, NEW w \in Workers, NEW p \in Projects, CaptureSourceRecovery(w, p)
    PROVE  IInv'
<1> DEFINE t == SourceToken("recovery", p, revision[p], epoch[p], 0)
<1>1. TypeOK /\ RecoveryAuthority(p) /\ Hold(w, t)
      /\ UNCHANGED <<authority, requirements, sequence, history>>
    BY DEF IInv, CaptureSourceRecovery
<1>2. /\ sequence \in Nat /\ revision[p] # 0 /\ revision[p] <= sequence
      /\ revision[p] \in Revisions /\ epoch[p] \in Revisions
    BY <1>1, Numbers DEF IInv, AuthorityOrdered, RecoveryAuthority, TypeOK
<1>3. t \in TokenType /\ t.kind = "recovery" /\ t.project = p
      /\ t.revision = revision[p]
      /\ t.seen = changes[p] /\ t.head = head[p] /\ t.managed = managed[p]
    BY <1>1, <1>2, SourceTokenType DEF TokenKinds
<1> HIDE DEF t
<1>4. TypeOK'
    BY <1>1, <1>3, TokenPut DEF TypeOK, authority, requirements, history
<1>5. Held(w)
    BY <1>1, <1>2, <1>3, TokenPut DEF Held, authority, history
<1>6. \A v \in Workers : Held(v)
    BY <1>1, <1>3, <1>5, TokenPut
<1> QED
    BY <1>1, <1>2, <1>4, <1>6, QuietStepIInv DEF authority, history

\* The reserved generation is above the sequence and within it.
LEMMA ReserveSourceRecoveryEffect ==
    ASSUME TypeOK, NEW w \in Workers, NEW observed \in Nat,
           ReserveSourceRecovery(w, observed)
    PROVE  LET t == token[w]
               g == NextRevision(sequence, RecoveryFloor(t, observed)) IN
           /\ g \in Nat /\ g > sequence /\ g \in Revisions /\ sequence \in Nat
           /\ [t EXCEPT !.kind = "reserved", !.generation = g] \in TokenType
<1> DEFINE t == token[w]
           f == RecoveryFloor(t, observed)
           g == NextRevision(sequence, f)
<1>1. sequence \in Nat /\ MaxRevision \in Nat /\ t \in TokenType /\ t.head \in Heads
    BY BoundAssumption DEF TypeOK, Revisions, TokenType
<1>2. f \in Nat /\ f >= sequence
    BY <1>1 DEF RecoveryFloor, Max2, Heads, Absent, Damaged
<1>3. f < MaxRevision - 1
    BY DEF ReserveSourceRecovery
<1> HIDE DEF f
<1>4. g \in Nat /\ g > sequence /\ g \in Revisions
    BY <1>1, <1>2, <1>3 DEF NextRevision, Max2, Revisions
<1> HIDE DEF g, t
<1>5. [t EXCEPT !.kind = "reserved", !.generation = g] \in TokenType
    BY <1>1, <1>4 DEF TokenType, TokenKinds
<1> QED
    BY <1>1, <1>4, <1>5 DEF f, g, t

\* A reservation raises the sequence and keeps what its token copied.
LEMMA ReserveSourceRecoveryIInv ==
    ASSUME IInv, NEW w \in Workers, NEW observed \in Nat,
           ReserveSourceRecovery(w, observed)
    PROVE  IInv'
<1> DEFINE t == token[w]
           g == NextRevision(sequence, RecoveryFloor(t, observed))
           u == [t EXCEPT !.kind = "reserved", !.generation = g]
<1>1. TypeOK /\ t.kind = "recovery" /\ sequence' = g /\ Hold(w, u)
      /\ UNCHANGED <<authority, requirements, history>> /\ t \in TokenType
    BY DEF IInv, TypeOK, ReserveSourceRecovery
<1>2. g \in Nat /\ g > sequence /\ g \in Revisions /\ sequence \in Nat
      /\ u \in TokenType
    BY <1>1, ReserveSourceRecoveryEffect
<1> HIDE DEF g
<1>3. /\ u.project = t.project /\ u.revision = t.revision /\ u.seen = t.seen
      /\ u.head = t.head /\ u.managed = t.managed
    BY <1>1 DEF TokenType
<1> HIDE DEF u
<1>4. TypeOK'
    BY <1>1, <1>2, TokenPut DEF TypeOK, authority, requirements, history
<1>5. Held(w)
    BY <1>1, <1>2, <1>3, TokenPut DEF Held, SourceKinds
<1>6. \A v \in Workers : Held(v)
    BY <1>1, <1>2, <1>5, TokenPut
<1> QED
    BY <1>1, <1>2, <1>4, <1>6, QuietStepIInv DEF authority, history

-----------------------------------------------------------------------------
(* Recovery requirements.                                                  *)

\* The imported map and the recorded revision.
LEMMA RecordRequirementEffect ==
    ASSUME TypeOK, NEW p \in Projects, NEW r \in Reasons, RecordRequirement(p, r)
    PROVE  /\ RecordedRevision(p) \in Revisions
           /\ sequence' \in Revisions /\ sequence' >= sequence
           /\ flag' \in [Projects -> BOOLEAN]
           /\ reqRevision' \in [Projects -> Revisions]
           /\ pending' \in [Projects -> [Reasons -> Revisions]]
           /\ failures' \in [Projects -> [Reasons -> Nat]]
<1>1. sequence \in Nat /\ reqRevision[p] \in Nat /\ MaxRevision \in Nat
    BY Numbers
<1>2. /\ RecordedRevision(p) \in Nat /\ RecordedRevision(p) > sequence
      /\ ImportsLegacy(p, FALSE) => NextRevision(sequence, 1) \in Nat
                                 /\ NextRevision(sequence, 1) < RecordedRevision(p)
    BY <1>1, TwoRevisionsAbove DEF RecordedRevision
<1>3. RecordedRevision(p) \in Revisions
      /\ (ImportsLegacy(p, FALSE) => NextRevision(sequence, 1) \in Revisions)
  <2>1. RecordedRevision(p) <= MaxRevision
    BY DEF RecordRequirement
  <2>2. \A a, b \in Nat : a <= b /\ b <= MaxRevision => a \in Revisions
    BY <1>1 DEF Revisions
  <2>3. RecordedRevision(p) \in Revisions
    BY <1>1, <1>2, <2>1 DEF Revisions
  <2>4. ASSUME ImportsLegacy(p, FALSE)
        PROVE  NextRevision(sequence, 1) \in Revisions
    <3>1. NextRevision(sequence, 1) \in Nat /\ RecordedRevision(p) \in Nat
          /\ NextRevision(sequence, 1) <= RecordedRevision(p)
      BY <1>2, <2>4
    <3> QED
      BY <2>1, <2>2, <3>1
  <2> QED
    BY <2>3, <2>4
<1>4. ImportedPending(p) \in [Reasons -> Revisions]
    BY <1>3, PendingTypes, UnknownAssumption DEF ImportedPending, TypeOK
<1>5. [ImportedPending(p) EXCEPT ![r] = RecordedRevision(p)] \in [Reasons -> Revisions]
    BY <1>3, <1>4, PendingTypes
<1>6. /\ sequence' = RecordedRevision(p) /\ Fail(p, r)
      /\ WriteRequirements(p, RecordedRevision(p),
                           [ImportedPending(p) EXCEPT ![r] = RecordedRevision(p)])
    BY DEF RecordRequirement
<1>7. sequence' \in Revisions /\ sequence' >= sequence
    BY <1>1, <1>2, <1>3, <1>6
<1> QED
    BY <1>3, <1>5, <1>6, <1>7, WriteRequirementsEffect, HistoryEffect

\* Tokens of requirements are well typed.
LEMMA RequirementTokenType ==
    ASSUME TypeOK, NEW p \in Projects, NEW r \in Reasons, NEW v \in Revisions
    PROVE  /\ RequirementToken(p, r, v) \in TokenType
           /\ RequirementToken(p, r, v).kind = "requirement"
           /\ [RequirementToken(p, r, v) EXCEPT !.seen = @ + 1] \in TokenType
           /\ [RequirementToken(p, r, v) EXCEPT !.seen = @ + 1].kind = "requirement"
<1>1. failures[p][r] \in Nat
    BY DEF TypeOK
<1>2. NoToken \in TokenType
    BY NoTokenType
<1>3. /\ RequirementToken(p, r, v) \in TokenType
      /\ RequirementToken(p, r, v).kind = "requirement"
    BY <1>1, <1>2 DEF RequirementToken, TokenType, TokenKinds
<1>4. \A t \in TokenType :
          /\ [t EXCEPT !.seen = @ + 1] \in TokenType
          /\ [t EXCEPT !.seen = @ + 1].kind = t.kind
    BY DEF TokenType
<1> QED
    BY <1>3, <1>4

\* require_reindex.
LEMMA RequireReindexIInv ==
    ASSUME IInv, NEW p \in Projects, NEW r \in Reasons, RequireReindex(p, r)
    PROVE  IInv'
<1>1. TypeOK /\ RecordRequirement(p, r)
      /\ UNCHANGED <<authority, token, changes, lifetime, witness, published>>
    BY DEF IInv, RequireReindex
<1>2. TypeOK'
    BY <1>1, RecordRequirementEffect DEF TypeOK, authority
<1> QED
    BY <1>1, <1>2, RecordRequirementEffect, TokensKept, QuietStepIInv DEF authority

\* begin_reindex_repair of a reason that is not pending.
LEMMA BeginReindexRepairIInv ==
    ASSUME IInv, NEW w \in Workers, NEW p \in Projects, NEW r \in Reasons,
           BeginReindexRepair(w, p, r)
    PROVE  IInv'
<1> DEFINE u == [RequirementToken(p, r, RecordedRevision(p)) EXCEPT !.seen = @ + 1]
<1>1. TypeOK /\ RecordRequirement(p, r) /\ Hold(w, u)
      /\ UNCHANGED <<authority, changes, lifetime, witness, published>>
    BY DEF IInv, BeginReindexRepair
<1>2. u \in TokenType /\ u.kind = "requirement"
    BY <1>1, RecordRequirementEffect, RequirementTokenType
<1> HIDE DEF u
<1>3. token' \in [Workers -> TokenType] /\ \A v \in Workers : Held(v)
    BY <1>1, <1>2, TokenPut DEF SourceKinds
<1>4. TypeOK'
    BY <1>1, <1>3, RecordRequirementEffect DEF TypeOK, authority
<1> QED
    BY <1>1, <1>3, <1>4, RecordRequirementEffect, QuietStepIInv DEF authority

\* The pending map a repair resumes is well typed, imported or not.
LEMMA ResumeReindexRepairEffect ==
    ASSUME TypeOK, NEW w \in Workers, NEW p \in Projects, NEW r \in Reasons,
           ResumeReindexRepair(w, p, r)
    PROVE  /\ ImportedPending(p)[r] \in Revisions
           /\ sequence' \in Revisions /\ sequence' >= sequence
           /\ flag' \in [Projects -> BOOLEAN]
           /\ reqRevision' \in [Projects -> Revisions]
           /\ pending' \in [Projects -> [Reasons -> Revisions]]
<1>1. sequence \in Nat /\ MaxRevision \in Nat /\ sequence \in Revisions
    BY Numbers DEF TypeOK
<1>2. CASE ImportsLegacy(p, FALSE)
  <2>1. /\ NextRevision(sequence, 1) <= MaxRevision
        /\ sequence' = NextRevision(sequence, 1)
        /\ WriteRequirements(p, sequence', ImportedPending(p))
    BY <1>2 DEF ResumeReindexRepair
  <2>2. NextRevision(sequence, 1) \in Revisions /\ NextRevision(sequence, 1) >= sequence
    BY <1>1, <2>1, NextRevisionAbove DEF Revisions
  <2>3. ImportedPending(p) \in [Reasons -> Revisions]
    BY <1>2, <2>2, PendingTypes, UnknownAssumption DEF ImportedPending
  <2>4. WriteRequirements(p, NextRevision(sequence, 1), ImportedPending(p))
    BY <2>1
  <2> QED
    BY <2>1, <2>2, <2>3, <2>4, WriteRequirementsEffect
<1>3. CASE ~ImportsLegacy(p, FALSE)
  <2>1. UNCHANGED <<sequence, requirements>>
    BY <1>3 DEF ResumeReindexRepair
  <2> QED
    BY <1>1, <1>3, <2>1 DEF ImportedPending, TypeOK, requirements
<1> QED
    BY <1>2, <1>3

\* begin_reindex_repair of a pending reason.
LEMMA ResumeReindexRepairIInv ==
    ASSUME IInv, NEW w \in Workers, NEW p \in Projects, NEW r \in Reasons,
           ResumeReindexRepair(w, p, r)
    PROVE  IInv'
<1> DEFINE u == RequirementToken(p, r, ImportedPending(p)[r])
<1>1. TypeOK /\ Hold(w, u) /\ UNCHANGED <<authority, history>>
    BY DEF IInv, ResumeReindexRepair
<1>2. u \in TokenType /\ u.kind = "requirement"
    BY <1>1, ResumeReindexRepairEffect, RequirementTokenType
<1> HIDE DEF u
<1>3. token' \in [Workers -> TokenType] /\ \A v \in Workers : Held(v)
    BY <1>1, <1>2, TokenPut DEF SourceKinds
<1>4. TypeOK'
    BY <1>1, <1>3, ResumeReindexRepairEffect DEF TypeOK, authority, history
<1> QED
    BY <1>1, <1>3, <1>4, ResumeReindexRepairEffect, QuietStepIInv
       DEF authority, history

\* What a reader sees of the requirements is well typed.
LEMMA PendingViewType ==
    ASSUME TypeOK, NEW p \in Projects
    PROVE  PendingView(p) \in [Reasons -> Revisions] /\ ReqRevisionView(p) \in Revisions
<1>1. 1 \in Revisions /\ 0 \in Revisions
    BY BoundAssumption DEF Revisions
<1> QED
    BY <1>1, PendingTypes, UnknownAssumption DEF PendingView, ReqRevisionView, TypeOK

\* reindex_requirement_token.
LEMMA ReindexRequirementTokenIInv ==
    ASSUME IInv, NEW w \in Workers, NEW p \in Projects, NEW r \in Reasons,
           ReindexRequirementToken(w, p, r)
    PROVE  IInv'
<1> DEFINE u == RequirementToken(p, r, PendingView(p)[r])
<1>1. TypeOK /\ Hold(w, u) /\ UNCHANGED <<authority, requirements, sequence, history>>
    BY DEF IInv, ReindexRequirementToken
<1>2. u \in TokenType /\ u.kind = "requirement"
    BY <1>1, PendingViewType, RequirementTokenType
<1> HIDE DEF u
<1>3. token' \in [Workers -> TokenType] /\ \A v \in Workers : Held(v)
    BY <1>1, <1>2, TokenPut DEF SourceKinds
<1>4. TypeOK' /\ sequence \in Nat
    BY <1>1, <1>3, BoundAssumption
       DEF TypeOK, authority, requirements, history, Revisions
<1> QED
    BY <1>1, <1>3, <1>4, QuietStepIInv DEF authority, history

\* settle_reindex_requirement.
LEMMA SettleReindexRequirementIInv ==
    ASSUME IInv, NEW w \in Workers, SettleReindexRequirement(w)
    PROVE  IInv'
<1> DEFINE p == token[w].project
           r == token[w].reason
           pend == [PendingView(p) EXCEPT ![r] = 0]
<1>1. TypeOK /\ p \in Projects /\ r \in Reasons /\ Hold(w, NoToken)
      /\ WriteRequirements(p, ReqRevisionView(p), pend)
      /\ UNCHANGED <<authority, sequence, history>>
    BY DEF IInv, TypeOK, TokenType, SettleReindexRequirement
<1>2. 0 \in Revisions /\ sequence \in Nat
    BY <1>1, BoundAssumption DEF Revisions, TypeOK
<1>3. pend \in [Reasons -> Revisions] /\ ReqRevisionView(p) \in Revisions
    BY <1>1, <1>2, PendingViewType, PendingTypes
<1> HIDE DEF pend, p, r
<1>4. token' \in [Workers -> TokenType] /\ \A v \in Workers : Held(v)
    BY <1>1, TokenPut, NoTokenType DEF SourceKinds
<1>5. TypeOK'
    BY <1>1, <1>3, <1>4, WriteRequirementsEffect DEF TypeOK, authority, history
<1> QED
    BY <1>1, <1>2, <1>4, <1>5, QuietStepIInv DEF authority, history

\* clear_reindex_required.
LEMMA DismissReindexRequirementsIInv ==
    ASSUME IInv, NEW p \in Projects, DismissReindexRequirements(p)
    PROVE  IInv'
<1>1. TypeOK /\ WriteRequirements(p, ReqRevisionView(p), NoPending)
      /\ UNCHANGED <<authority, sequence, token, history>>
    BY DEF IInv, DismissReindexRequirements
<1>2. TypeOK' /\ sequence \in Nat
    BY <1>1, PendingViewType, PendingTypes, WriteRequirementsEffect, BoundAssumption
       DEF TypeOK, authority, history, Revisions
<1> QED
    BY <1>1, <1>2, TokensKept, QuietStepIInv DEF authority, history

-----------------------------------------------------------------------------
(* The environment.                                                        *)

\* A worker gives its token up.
LEMMA AbandonIInv ==
    ASSUME IInv, NEW w \in Workers, Abandon(w)
    PROVE  IInv'
<1>1. TypeOK /\ Hold(w, NoToken)
      /\ UNCHANGED <<authority, requirements, sequence, history>>
    BY DEF IInv, Abandon
<1>2. token' \in [Workers -> TokenType] /\ \A v \in Workers : Held(v)
    BY <1>1, TokenPut, NoTokenType DEF SourceKinds
<1>3. TypeOK' /\ sequence \in Nat
    BY <1>1, <1>2, BoundAssumption
       DEF TypeOK, authority, requirements, history, Revisions
<1> QED
    BY <1>1, <1>2, <1>3, QuietStepIInv DEF authority, history

\* Damage to a head lowers its rank, so older tokens are outdated.
LEMMA DamageHeadIInv ==
    ASSUME IInv, NEW p \in Projects, NEW h \in {Absent, Damaged, 0}, DamageHead(p, h)
    PROVE  IInv'
<1>1. TypeOK /\ Changed(p) /\ head[p] >= 0 /\ h # head[p]
      /\ head' = [head EXCEPT ![p] = h]
      /\ UNCHANGED <<projects, required, managed, attested, verified, revision,
                     epoch, requirements, sequence, token, lifetime, failures,
                     witness, published>>
    BY DEF IInv, DamageHead
<1>2. h \in Heads /\ head[p] \in Heads /\ Rank(h) < Rank(head[p])
    BY <1>1 DEF TypeOK, Heads, Absent, Damaged, Rank
<1>3. TypeOK'
    BY <1>1, <1>2, HistoryEffect DEF TypeOK, requirements
<1>4. AuthorityStep(p)
  <2>1. head'[p] = h /\ \A q \in Projects : q # p => Same(q)
    BY <1>1, HistoryEffect DEF TypeOK, Same
  <2>2. epoch[p] <= revision[p] /\ revision[p] <= sequence /\ sequence \in Nat
    BY <1>1, Numbers DEF IInv, AuthorityOrdered
  <2> QED
    BY <1>1, <1>2, <2>1, <2>2, TokensKept DEF AuthorityStep, Moves
<1> QED
    BY <1>3, <1>4, AuthorityStepIInv

\* Tokens that saw the lost marker are outdated.
LEMMA LoseManagedMarkerIInv ==
    ASSUME IInv, NEW p \in Projects, LoseManagedMarker(p)
    PROVE  IInv'
<1>1. TypeOK /\ Changed(p) /\ managed[p]
      /\ managed' = [managed EXCEPT ![p] = FALSE]
      /\ UNCHANGED <<projects, head, required, attested, verified, revision,
                     epoch, requirements, sequence, token, lifetime, failures,
                     witness, published>>
    BY DEF IInv, LoseManagedMarker
<1>2. TypeOK'
    BY <1>1, HistoryEffect DEF TypeOK, requirements
<1>3. AuthorityStep(p)
  <2>1. ~managed'[p] /\ \A q \in Projects : q # p => Same(q)
    BY <1>1, HistoryEffect DEF TypeOK, Same
  <2>2. epoch[p] <= revision[p] /\ revision[p] <= sequence /\ sequence \in Nat
    BY <1>1, Numbers DEF IInv, AuthorityOrdered
  <2>3. Moves(p)
    BY <1>1, <2>1, Zenon DEF Moves
  <2> QED
    BY <1>1, <2>1, <2>2, <2>3, TokensKept DEF AuthorityStep
<1> QED
    BY <1>2, <1>3, AuthorityStepIInv

-----------------------------------------------------------------------------
\* No one holds a token yet, and a database of an older version is ordered.
LEMMA InitIInv == Init => IInv
<1> SUFFICES ASSUME Init PROVE IInv
    OBVIOUS
<1>1. {0, 1} \subseteq Revisions /\ 0 \in Revisions
    BY BoundAssumption DEF Revisions
<1>2. sequence \in {0, 1} /\ revision \in [Projects -> {0, sequence}]
    BY DEF Init
<1>3. TypeOK
  <2>1. head \in [Projects -> Heads]
    BY DEF Init, Heads
  <2>2. revision \in [Projects -> Revisions] /\ sequence \in Revisions
    BY <1>1, <1>2
  <2>3. token \in [Workers -> TokenType]
    BY NoTokenType DEF Init
  <2>4. pending \in [Projects -> [Reasons -> Revisions]]
        /\ failures \in [Projects -> [Reasons -> Nat]]
    BY PendingTypes DEF Init
  <2> QED
    BY <1>1, <2>1, <2>2, <2>3, <2>4 DEF Init, TypeOK
<1>4. AuthorityOrdered
  <2> SUFFICES ASSUME NEW p \in Projects
               PROVE  epoch[p] <= revision[p] /\ revision[p] <= sequence
    BY DEF AuthorityOrdered
  <2>1. epoch[p] = 0
    BY DEF Init
  <2>2. revision[p] = 0 \/ revision[p] = sequence
    BY <1>2
  <2> QED
    BY <1>2, <2>1, <2>2
<1>5. Fresh
    BY NoTokenType DEF Init, Fresh, SourceKinds
<1> QED
    BY <1>3, <1>4, <1>5 DEF IInv

\* A stuttering step.
LEMMA StutterIInv == IInv /\ UNCHANGED vars => IInv'
BY DEF IInv, vars, TypeOK, AuthorityOrdered, Fresh, Faithful, Outdated, Registered,
       authority, requirements, history

\* Every action keeps the invariant.
LEMMA NextIInv == IInv /\ [Next]_vars => IInv'
<1> SUFFICES ASSUME IInv, Next PROVE IInv'
    BY StutterIInv
<1>1. \A g \in 0 .. MaxGeneration : g \in Nat
    BY BoundAssumption
<1>2. CASE LifecycleStep
    BY <1>2, RegisterSourceProjectIInv, PutProjectIInv, DeleteProjectIInv,
       DeleteAllForProjectIInv DEF LifecycleStep
<1>3. CASE HeadStep
  <2>1. ASSUME NEW w \in Workers, NEW g \in 1 .. token[w].generation + 1
        PROVE  g \in Nat
    BY DEF IInv, TypeOK, TokenType
  <2> QED
    BY <1>1, <1>3, <2>1, SetHeadMetaIInv, CaptureSourceHeadIInv,
       PublishSourceHeadIInv, AttestUnchangedSourceIdentityIInv,
       AttestLegacySourceHeadIInv DEF HeadStep
<1>4. CASE RecoveryStep
    BY <1>1, <1>4, CaptureSourceRecoveryIInv, ReserveSourceRecoveryIInv,
       PublishSourceRecoveryIInv DEF RecoveryStep
<1>5. CASE RequirementStep
    BY <1>5, PutProjectIInv, RequireReindexIInv, DismissReindexRequirementsIInv,
       BeginReindexRepairIInv, ResumeReindexRepairIInv, ReindexRequirementTokenIInv,
       SettleReindexRequirementIInv DEF RequirementStep
<1>6. CASE EnvironmentStep
    BY <1>6, AbandonIInv, DamageHeadIInv, LoseManagedMarkerIInv DEF EnvironmentStep
<1> QED
    BY <1>2, <1>3, <1>4, <1>5, <1>6 DEF Next

\* The inductive invariant holds in every reachable state of the registry.
THEOREM Invariance == Spec => []IInv
<1>1. Init => IInv
    BY InitIInv
<1>2. IInv /\ [Next]_vars => IInv'
    BY NextIInv
<1> QED
    BY <1>1, <1>2, PTL DEF Spec

-----------------------------------------------------------------------------
\* No stored revision leaves the sequence's range, whatever the order of
\* registrations, edits, publications, recoveries and settlements.
THEOREM TypeCorrect == Spec => []TypeOK
<1>1. IInv => TypeOK
    BY DEF IInv
<1> QED
    BY <1>1, Invariance, PTL

\* Epoch, revision and sequence of every project stay ordered.
THEOREM Ordered == Spec => []AuthorityOrdered
<1>1. IInv => AuthorityOrdered
    BY DEF IInv
<1> QED
    BY <1>1, Invariance, PTL

\* A token the registry accepts saw every change of its project.
LEMMA IInvFences == IInv => TokenFencesChanges
<1> SUFFICES ASSUME IInv, NEW w \in Workers,
                    \/ token[w].kind = "head" /\ HeadMatches(token[w])
                    \/ /\ token[w].kind \in {"recovery", "reserved"}
                       /\ RecoveryMatches(token[w])
             PROVE  token[w].seen = changes[token[w].project]
    BY DEF TokenFencesChanges
<1> DEFINE t == token[w]
           p == t.project
<1>1. /\ t.kind \in SourceKinds /\ Registered(p)
      /\ revision[p] = t.revision /\ managed[p] = t.managed /\ head[p] = t.head
    BY DEF SourceKinds, HeadMatches, RecoveryMatches
<1>2. ~Outdated(t)
  <2>1. Rank(head[p]) \in Nat
    BY DEF Rank
  <2> QED
    BY <1>1, <2>1 DEF Outdated
<1> QED
    BY <1>1, <1>2 DEF IInv, Fresh, Faithful

\* No ABA: acceptance of a source token implies that nothing changed since
\* its capture.
THEOREM Fenced == Spec => []TokenFencesChanges
BY IInvFences, Invariance, PTL

\* Ordered authority is all a project needs to remain publishable or
\* recoverable, however its head is damaged.
THEOREM Recoverable == Spec => []NeverStranded
<1>1. IInv => NeverStranded
  <2> SUFFICES ASSUME IInv, NEW p \in Projects, revision[p] # 0, epoch[p] # 0,
                      ~HeadReadable(p)
               PROVE  RecoveryAuthority(p) /\ RecoverableHead(p)
    BY DEF NeverStranded
  <2>1. TypeOK /\ epoch[p] <= revision[p] /\ revision[p] <= sequence
    BY DEF IInv, AuthorityOrdered
  <2>2. RecoveryAuthority(p)
    BY <2>1, Numbers DEF RecoveryAuthority, Max2
  <2>3. RecoverableHead(p)
    BY <2>1 DEF HeadReadable, RecoverableHead, TypeOK, Heads, Absent, Damaged
  <2> QED
    BY <2>2, <2>3
<1> QED
    BY <1>1, Invariance, PTL

-----------------------------------------------------------------------------
(* The registry implements the versioned head: a publication is accepted   *)
(* only on top of the version its token captured, which is IInvFences.     *)

Stutters == UNCHANGED <<changes, published, HeldVersion>>

\* What is held changes only with the tokens.
LEMMA HeldVersionKept ==
    ASSUME UNCHANGED token PROVE UNCHANGED HeldVersion
BY DEF HeldVersion

\* What a worker holds, seen from the versioned head.
Version(t) == IF t.kind \in SourceKinds THEN <<t.project, t.seen>> ELSE <<>>

\* A new token in one worker's hands.
LEMMA HeldVersionPut ==
    ASSUME TypeOK, NEW w \in Workers, NEW u \in TokenType, Hold(w, u)
    PROVE  /\ HeldVersion' = [HeldVersion EXCEPT ![w] = Version(u)]
           /\ HeldVersion[w] = Version(token[w])
           /\ Version(u) = Version(token[w]) => UNCHANGED HeldVersion
<1>1. HeldVersion = [v \in Workers |-> Version(token[v])]
    BY DEF HeldVersion, Version, SourceKinds
<1>2. HeldVersion' = [v \in Workers |-> Version(token'[v])]
    BY DEF HeldVersion, Version, SourceKinds
<1>3. \A v \in Workers : token'[v] = IF v = w THEN u ELSE token[v]
    BY DEF Hold, TypeOK
<1> QED
    BY <1>1, <1>2, <1>3

\* The changes that are not publications.
LEMMA ChangeRefines ==
    ASSUME NEW p \in Projects, Changed(p), UNCHANGED <<published, token>>
    PROVE  Versioned!Change(p)
BY HeldVersionKept DEF Changed, Versioned!Change, Versioned!Bump

\* A capture, by either path.
LEMMA CaptureRefines ==
    ASSUME TypeOK, NEW w \in Workers, NEW p \in Projects, NEW u \in TokenType,
           token[w].kind = "none", Hold(w, u), u.kind \in SourceKinds,
           u.project = p, u.seen = changes[p], UNCHANGED <<changes, published>>
    PROVE  Versioned!Capture(w, p)
<1>1. Version(token[w]) = <<>> /\ Version(u) = <<p, changes[p]>>
    BY DEF Version, SourceKinds
<1> QED
    BY <1>1, HeldVersionPut DEF Versioned!Capture

\* A publication, by either path: the token is accepted, so it is fenced.
LEMMA PublishRefines ==
    ASSUME IInv, NEW w \in Workers,
           \/ token[w].kind = "head" /\ HeadMatches(token[w])
           \/ token[w].kind = "reserved" /\ RecoveryMatches(token[w]),
           Hold(w, NoToken), Changed(token[w].project),
           published' = [published EXCEPT ![token[w].project] =
                             changes[token[w].project] + 1]
    PROVE  Versioned!Publish(w, token[w].project)
<1> DEFINE p == token[w].project
<1>1. TypeOK /\ token[w].seen = changes[p] /\ token[w].kind \in SourceKinds
    BY IInvFences DEF IInv, TokenFencesChanges, SourceKinds
<1>2. Version(token[w]) = <<p, changes[p]>> /\ Version(NoToken) = <<>>
    BY <1>1, NoTokenType DEF Version, SourceKinds
<1> QED
    BY <1>1, <1>2, HeldVersionPut, NoTokenType
       DEF Versioned!Publish, Versioned!Bump, Changed

\* Tokens of requirements, and no token, are invisible.
LEMMA RequirementStutters ==
    ASSUME TypeOK, NEW w \in Workers, NEW u \in TokenType, Hold(w, u),
           token[w].kind \notin SourceKinds, u.kind \notin SourceKinds,
           UNCHANGED <<changes, published>>
    PROVE  Stutters
BY HeldVersionPut DEF Version, Stutters

\* Registrations, edits and deletions change or withdraw the version.
LEMMA LifecycleRefines ==
    ASSUME IInv, LifecycleStep \/ \E p \in Projects, i \in Identities :
                                      PutProject(p, i, TRUE)
    PROVE  Versioned!Next \/ Stutters
<1>1. ASSUME NEW p \in Projects, NEW i \in Identities, RegisterSourceProject(p, i)
      PROVE  Versioned!Next
    BY <1>1, ChangeRefines DEF RegisterSourceProject, Versioned!Next
<1>2. ASSUME NEW p \in Projects, NEW i \in Identities, NEW b \in BOOLEAN,
             PutProject(p, i, b)
      PROVE  Versioned!Next \/ Stutters
  <2>1. CASE projects[p] # i
    BY <1>2, <2>1, ChangeRefines DEF PutProject, Versioned!Next
  <2>2. CASE projects[p] = i
    BY <1>2, <2>2, HeldVersionKept DEF PutProject, Stutters
  <2> QED
    BY <2>1, <2>2
<1>3. ASSUME NEW p \in Projects, DeleteProject(p)
      PROVE  Versioned!Next
    BY <1>3, ChangeRefines DEF DeleteProject, Versioned!Next
<1>4. ASSUME NEW p \in Projects, DeleteAllForProject(p)
      PROVE  Versioned!Next
  <2>1. Versioned!Withdraw(p)
    BY <1>4, HeldVersionKept
       DEF DeleteAllForProject, Changed, Versioned!Withdraw, Versioned!Bump
  <2> QED
    BY <2>1 DEF Versioned!Next
<1> QED
    BY <1>1, <1>2, <1>3, <1>4 DEF LifecycleStep

\* Head writes change the version, captures and publications are abstract ones.
LEMMA HeadRefines ==
    ASSUME IInv, HeadStep
    PROVE  Versioned!Next \/ Stutters
<1>1. ASSUME NEW p \in Projects, NEW h \in 0 .. MaxGeneration, SetHeadMeta(p, h)
      PROVE  Versioned!Next \/ Stutters
  <2>1. CASE head[p] # h
    BY <1>1, <2>1, ChangeRefines DEF SetHeadMeta, Versioned!Next
  <2>2. CASE head[p] = h
    BY <1>1, <2>2, HeldVersionKept DEF SetHeadMeta, Stutters
  <2> QED
    BY <2>1, <2>2
<1>2. ASSUME NEW w \in Workers, NEW p \in Projects, CaptureSourceHead(w, p)
      PROVE  Versioned!Next
  <2>1. /\ TypeOK /\ token[w].kind = "none" /\ UNCHANGED <<changes, published>>
        /\ token'[w].kind = "head" /\ token'[w].project = p
        /\ token'[w].seen = changes[p]
    BY <1>2 DEF IInv, TypeOK, CaptureSourceHead, Hold, SourceToken, history
  <2>2. PICK u : Hold(w, u)
    BY <1>2 DEF CaptureSourceHead
  <2>3. token'[w] = u
    BY <2>1, <2>2 DEF Hold, TypeOK
  <2>4. TypeOK'
    BY <1>2, CaptureSourceHeadIInv DEF IInv
  <2>5. u \in TokenType
    BY <2>3, <2>4 DEF TypeOK
  <2> QED
    BY <2>1, <2>2, <2>3, <2>5, CaptureRefines DEF Versioned!Next, SourceKinds
<1>3. ASSUME NEW w \in Workers, NEW g, PublishSourceHead(w, g)
      PROVE  Versioned!Next
  <2>1. token[w].project \in Projects
    BY DEF IInv, TypeOK, TokenType
  <2> QED
    BY <1>3, <2>1, PublishRefines DEF PublishSourceHead, Versioned!Next
<1>4. ASSUME NEW w \in Workers, AttestUnchangedSourceIdentity(w)
      PROVE  Stutters
    BY <1>4, HeldVersionKept DEF AttestUnchangedSourceIdentity, Stutters
<1>5. ASSUME NEW w \in Workers, AttestLegacySourceHead(w)
      PROVE  Stutters
    BY <1>5, HeldVersionKept DEF AttestLegacySourceHead, Stutters, history
<1> QED
    BY <1>1, <1>2, <1>3, <1>4, <1>5 DEF HeadStep

\* Recoveries capture and publish; a reservation is invisible.
LEMMA RecoveryRefines ==
    ASSUME IInv, RecoveryStep
    PROVE  Versioned!Next \/ Stutters
<1>1. ASSUME NEW w \in Workers, NEW p \in Projects, CaptureSourceRecovery(w, p)
      PROVE  Versioned!Next
  <2> DEFINE u == SourceToken("recovery", p, revision[p], epoch[p], 0)
  <2>1. TypeOK /\ token[w].kind = "none" /\ Hold(w, u)
        /\ UNCHANGED <<changes, published>>
    BY <1>1 DEF IInv, CaptureSourceRecovery, history
  <2>2. u \in TokenType /\ u.kind = "recovery" /\ u.project = p
        /\ u.seen = changes[p]
    BY <2>1, SourceTokenType DEF TypeOK, TokenKinds
  <2> HIDE DEF u
  <2> QED
    BY <2>1, <2>2, CaptureRefines DEF Versioned!Next, SourceKinds
<1>2. ASSUME NEW w \in Workers, NEW g \in 0 .. MaxGeneration,
             ReserveSourceRecovery(w, g)
      PROVE  Stutters
  <2> DEFINE t == token[w]
             n == NextRevision(sequence, RecoveryFloor(t, g))
             u == [t EXCEPT !.kind = "reserved", !.generation = n]
  <2>1. TypeOK /\ t \in TokenType /\ t.kind = "recovery" /\ Hold(w, u)
        /\ UNCHANGED <<changes, published>>
    BY <1>2 DEF IInv, TypeOK, ReserveSourceRecovery, history
  <2>2. u \in TokenType
    <3>1. g \in Nat
      BY BoundAssumption
    <3> QED
      BY <1>2, <2>1, <3>1, ReserveSourceRecoveryEffect
  <2> HIDE DEF n
  <2>3. u.kind = "reserved" /\ u.project = t.project /\ u.seen = t.seen
    BY <2>1 DEF TokenType
  <2> HIDE DEF u
  <2>4. Version(u) = Version(t)
    BY <2>1, <2>3 DEF Version, SourceKinds
  <2> QED
    BY <2>1, <2>2, <2>4, HeldVersionPut DEF Stutters
<1>3. ASSUME NEW w \in Workers, PublishSourceRecovery(w)
      PROVE  Versioned!Next
  <2>1. token[w].project \in Projects
    BY DEF IInv, TypeOK, TokenType
  <2> QED
    BY <1>3, <2>1, PublishRefines DEF PublishSourceRecovery, Versioned!Next
<1> QED
    BY <1>1, <1>2, <1>3 DEF RecoveryStep

\* A step on requirements only.
LEMMA RequirementRefines ==
    ASSUME IInv, RequirementStep
    PROVE  Versioned!Next \/ Stutters
<1> USE DEF SourceKinds
<1>1. TypeOK
    BY DEF IInv
<1>2. ASSUME NEW p \in Projects, NEW r \in Reasons, RequireReindex(p, r)
      PROVE  Stutters
    BY <1>2, HeldVersionKept DEF RequireReindex, Stutters
<1>3. ASSUME NEW p \in Projects, DismissReindexRequirements(p)
      PROVE  Stutters
    BY <1>3, HeldVersionKept DEF DismissReindexRequirements, Stutters, history
<1>4. ASSUME NEW w \in Workers, NEW p \in Projects, NEW r \in Reasons,
             BeginReindexRepair(w, p, r)
      PROVE  Stutters
  <2>1. RecordedRevision(p) \in Revisions
    BY <1>1, <1>4, RecordRequirementEffect DEF BeginReindexRepair
  <2> QED
    BY <1>1, <1>4, <2>1, RequirementTokenType, RequirementStutters
       DEF BeginReindexRepair
<1>5. ASSUME NEW w \in Workers, NEW p \in Projects, NEW r \in Reasons,
             ResumeReindexRepair(w, p, r)
      PROVE  Stutters
    BY <1>1, <1>5, ResumeReindexRepairEffect, RequirementTokenType,
       RequirementStutters DEF ResumeReindexRepair, history
<1>6. ASSUME NEW w \in Workers, NEW p \in Projects, NEW r \in Reasons,
             ReindexRequirementToken(w, p, r)
      PROVE  Stutters
    BY <1>1, <1>6, PendingViewType, RequirementTokenType, RequirementStutters
       DEF ReindexRequirementToken, history
<1>7. ASSUME NEW w \in Workers, SettleReindexRequirement(w)
      PROVE  Stutters
    BY <1>1, <1>7, NoTokenType, RequirementStutters
       DEF SettleReindexRequirement, history
<1> QED
    BY <1>2, <1>3, <1>4, <1>5, <1>6, <1>7, LifecycleRefines DEF RequirementStep

\* Damage changes the version, giving up a token drops it.
LEMMA EnvironmentRefines ==
    ASSUME IInv, EnvironmentStep
    PROVE  Versioned!Next \/ Stutters
<1>1. ASSUME NEW w \in Workers, Abandon(w)
      PROVE  Versioned!Next \/ Stutters
  <2>1. TypeOK /\ Hold(w, NoToken) /\ UNCHANGED <<changes, published>>
    BY <1>1 DEF IInv, Abandon, history
  <2>2. Version(NoToken) = <<>>
    BY NoTokenType DEF Version, SourceKinds
  <2>3. CASE HeldVersion[w] = <<>>
    BY <2>1, <2>2, <2>3, NoTokenType, HeldVersionPut DEF Stutters
  <2>4. CASE HeldVersion[w] # <<>>
    BY <2>1, <2>2, <2>4, NoTokenType, HeldVersionPut
       DEF Versioned!Drop, Versioned!Next
  <2> QED
    BY <2>3, <2>4
<1>2. ASSUME NEW p \in Projects, NEW h, DamageHead(p, h)
      PROVE  Versioned!Next
    BY <1>2, ChangeRefines DEF DamageHead, Versioned!Next
<1>3. ASSUME NEW p \in Projects, LoseManagedMarker(p)
      PROVE  Versioned!Next
    BY <1>3, ChangeRefines DEF LoseManagedMarker, Versioned!Next
<1> QED
    BY <1>1, <1>2, <1>3 DEF EnvironmentStep

\* Publication through the registry, ordinary or of a recovered head, is
\* compare-and-swap on the version of the project's source authority.
THEOREM Refinement == Spec => ImplementsVersionedHead
<1>1. Init => Versioned!Init
  <2> SUFFICES ASSUME Init PROVE Versioned!Init
    OBVIOUS
  <2>1. HeldVersion = [w \in Workers |-> <<>>]
    BY NoTokenType DEF Init, HeldVersion
  <2> QED
    BY <2>1 DEF Init, Versioned!Init
<1>2. IInv /\ [Next]_vars => [Versioned!Next]_(Versioned!vars)
  <2> SUFFICES ASSUME IInv, [Next]_vars
               PROVE  Versioned!Next \/ Stutters
    BY DEF Stutters, Versioned!vars
  <2>1. CASE UNCHANGED vars
    BY <2>1, HeldVersionKept DEF vars, history, Stutters
  <2>2. CASE Next
    BY <2>2, LifecycleRefines, HeadRefines, RecoveryRefines, RequirementRefines,
       EnvironmentRefines DEF Next
  <2> QED
    BY <2>1, <2>2
<1> QED
    BY <1>1, <1>2, Invariance, PTL DEF Spec, ImplementsVersionedHead, Versioned!Spec

-----------------------------------------------------------------------------
(* What every step does to the shared sequence and to the tokens.          *)

\* The sequence is never rewound: not by a full deletion, and not by a write
\* that aborts.
LEMMA SequenceGrows ==
    ASSUME IInv, Next
    PROVE  sequence' >= sequence /\ sequence \in Nat /\ sequence' \in Nat
<1> DEFINE Grows == sequence' >= sequence
<1>1. TypeOK /\ sequence \in Nat /\ TypeOK'
    BY BoundAssumption, NextIInv DEF IInv, TypeOK, Revisions
<1>2. sequence' \in Nat
    BY <1>1, BoundAssumption DEF TypeOK, Revisions
<1> SUFFICES Grows
    BY <1>1, <1>2
<1>3. ASSUME NEW p \in Projects, ChangeIdentity(p), sequence' = FreshEpoch(p)
      PROVE  Grows
    BY <1>1, <1>3, FreshEpochAbove
<1>4. ASSUME NEW p \in Projects, AdvanceRevision(p)
      PROVE  Grows
    BY <1>1, <1>4, AdvanceRevisionEffect, AdvancedAbove
<1>5. ASSUME NEW p \in Projects, NEW i \in Identities, NEW b \in BOOLEAN,
             PutProject(p, i, b)
      PROVE  Grows
  <2> DEFINE last == IF projects[p] # i THEN FreshEpoch(p) ELSE sequence
  <2>1. last \in Revisions /\ last >= sequence /\ sequence' >= last
    BY <1>1, <1>5, PutProjectEffect
  <2> HIDE DEF last
  <2> QED
    BY <1>1, <1>2, <2>1, BoundAssumption DEF Revisions
<1>0. ASSUME UNCHANGED sequence
      PROVE  Grows
    BY <1>0, <1>1
<1>6. CASE LifecycleStep
  <2>1. ASSUME NEW p \in Projects, NEW i \in Identities, RegisterSourceProject(p, i)
        PROVE  Grows
    BY <1>3, <2>1 DEF RegisterSourceProject
  <2>2. ASSUME NEW p \in Projects, ClearPendingOnDelete(p)
        PROVE  Grows
    BY <1>1, <2>2, ClearPendingOnDeleteEffect
  <2>3. ASSUME NEW p \in Projects, DeleteProject(p) \/ DeleteAllForProject(p)
        PROVE  Grows
    BY <2>2, <2>3 DEF DeleteProject, DeleteAllForProject
  <2> HIDE DEF Grows
  <2> QED
    BY <1>5, <1>6, <2>1, <2>3 DEF LifecycleStep
<1>7. CASE HeadStep
  <2>1. ASSUME NEW p \in Projects, NEW h, SetHeadMeta(p, h)
        PROVE  Grows
    BY <1>1, <1>3, <2>1 DEF SetHeadMeta
  <2>2. ASSUME NEW w \in Workers, NEW p \in Projects, CaptureSourceHead(w, p)
        PROVE  Grows
    <3>1. sequence \in Nat /\ revision[p] \in Nat
      BY <1>1, Numbers
    <3>2. AdvancedRevision(p) \in Nat /\ AdvancedRevision(p) > sequence
      BY <1>1, AdvancedAbove
    <3>3. \A r \in Nat : NextRevision(r, r) > r
      BY NextRevisionAbove
    <3>4. NextRevision(sequence, revision[p]) > sequence
      BY <3>1, NextRevisionAbove
    <3>5. \A r \in Nat : NextRevision(r, r) \in Nat
      BY NextRevisionAbove
    <3>6. NextRevision(sequence, revision[p]) \in Nat
      BY <3>1, NextRevisionAbove
    <3> QED
      BY <2>2, <3>1, <3>2, <3>3, <3>4, <3>5, <3>6 DEF CaptureSourceHead
  <2>3. \A w \in Workers : token[w].project \in Projects
    BY <1>1 DEF TypeOK, TokenType
  <2>4. ASSUME NEW w \in Workers, AttestLegacySourceHead(w)
        PROVE  Grows
    BY <1>1, <2>4 DEF AttestLegacySourceHead
  <2>5. ASSUME NEW w \in Workers,
               (\E g : PublishSourceHead(w, g)) \/ AttestUnchangedSourceIdentity(w)
        PROVE  Grows
    BY <1>4, <2>3, <2>5 DEF PublishSourceHead, AttestUnchangedSourceIdentity
  <2> HIDE DEF Grows
  <2> QED
    BY <1>7, <2>1, <2>2, <2>4, <2>5 DEF HeadStep
<1>8. CASE RecoveryStep
  <2>1. ASSUME NEW w \in Workers, NEW g \in 0 .. MaxGeneration,
               ReserveSourceRecovery(w, g)
        PROVE  Grows
    <3> DEFINE n == NextRevision(sequence, RecoveryFloor(token[w], g))
    <3>1. g \in Nat
      BY BoundAssumption
    <3>2. n \in Nat /\ n > sequence
      BY <1>1, <2>1, <3>1, ReserveSourceRecoveryEffect
    <3>3. sequence' = n
      BY <2>1 DEF ReserveSourceRecovery
    <3> QED
      BY <1>1, <3>2, <3>3
  <2>2. ASSUME NEW w \in Workers, NEW p \in Projects, CaptureSourceRecovery(w, p)
        PROVE  Grows
    BY <1>1, <2>2 DEF CaptureSourceRecovery
  <2>3. ASSUME NEW w \in Workers, PublishSourceRecovery(w)
        PROVE  Grows
    <3>1. token[w].project \in Projects
      BY <1>1 DEF TypeOK, TokenType
    <3> QED
      BY <1>4, <2>3, <3>1 DEF PublishSourceRecovery
  <2> HIDE DEF Grows
  <2> QED
    BY <1>8, <2>1, <2>2, <2>3 DEF RecoveryStep
<1>9. CASE RequirementStep
  <2>1. ASSUME NEW p \in Projects, NEW r \in Reasons, RecordRequirement(p, r)
        PROVE  Grows
    BY <1>1, <2>1, RecordRequirementEffect
  <2>2. ASSUME NEW w \in Workers, NEW p \in Projects, NEW r \in Reasons,
               ResumeReindexRepair(w, p, r)
        PROVE  Grows
    BY <1>1, <2>2, ResumeReindexRepairEffect
  <2>3. ASSUME NEW w \in Workers, NEW p \in Projects, NEW r \in Reasons,
               BeginReindexRepair(w, p, r)
        PROVE  Grows
    BY <2>1, <2>3 DEF BeginReindexRepair
  <2>4. ASSUME NEW p \in Projects, NEW r \in Reasons, RequireReindex(p, r)
        PROVE  Grows
    BY <2>1, <2>4 DEF RequireReindex
  <2>5. ASSUME NEW w, NEW p, NEW r,
               \/ DismissReindexRequirements(p)
               \/ ReindexRequirementToken(w, p, r)
               \/ SettleReindexRequirement(w)
        PROVE  Grows
    BY <1>0, <2>5 DEF DismissReindexRequirements, ReindexRequirementToken,
                      SettleReindexRequirement
  <2> HIDE DEF Grows
  <2> QED
    BY <1>5, <1>9, <2>2, <2>3, <2>4, <2>5 DEF RequirementStep
<1>10. CASE EnvironmentStep
    BY <1>0, <1>10 DEF EnvironmentStep, Abandon, DamageHead, LoseManagedMarker
<1> HIDE DEF Grows
<1> QED
    BY <1>6, <1>7, <1>8, <1>9, <1>10 DEF Next

-----------------------------------------------------------------------------
(* A published head is a required head.                                    *)

\* Publication leaves the mark that a missing head is damage, and only the
\* deletion of every key takes it away again.
Marked == \A p \in Projects : published[p] # 0 => required[p]

\* Every action keeps the mark.
LEMMA NextMarked == IInv /\ Marked /\ [Next]_vars => Marked'
<1> SUFFICES ASSUME IInv, Marked, [Next]_vars, NEW q \in Projects
             PROVE  published'[q] # 0 => required'[q]
    BY DEF Marked
<1>1. TypeOK /\ (published[q] # 0 => required[q])
    BY DEF IInv, Marked
<1>2. ASSUME UNCHANGED <<published, required>>
      PROVE  published'[q] # 0 => required'[q]
    BY <1>1, <1>2
<1>3. ASSUME NEW p \in Projects, UNCHANGED published,
             required' = [required EXCEPT ![p] = TRUE]
      PROVE  published'[q] # 0 => required'[q]
    BY <1>1, <1>3 DEF TypeOK
<1>4. ASSUME NEW p \in Projects, NEW g, MarkPublished(p, g),
             published' = [published EXCEPT ![p] = changes[p] + 1]
      PROVE  published'[q] # 0 => required'[q]
    BY <1>1, <1>4 DEF MarkPublished, TypeOK
<1>5. \A w \in Workers : token[w].project \in Projects
    BY <1>1 DEF TypeOK, TokenType
<1>6. CASE UNCHANGED vars
    BY <1>2, <1>6 DEF vars, authority, history
<1>7. CASE LifecycleStep
  <2>1. ASSUME NEW p \in Projects, DeleteAllForProject(p)
        PROVE  published'[q] # 0 => required'[q]
    BY <1>1, <2>1 DEF DeleteAllForProject, TypeOK
  <2> QED
    BY <1>2, <1>3, <1>7, <2>1
       DEF LifecycleStep, RegisterSourceProject, PutProject, DeleteProject
<1>8. CASE HeadStep
  <2>1. ASSUME NEW p \in Projects, NEW h, SetHeadMeta(p, h)
        PROVE  published'[q] # 0 => required'[q]
    BY <1>3, <2>1 DEF SetHeadMeta
  <2>2. ASSUME NEW w \in Workers, NEW g, PublishSourceHead(w, g)
        PROVE  published'[q] # 0 => required'[q]
    BY <1>4, <1>5, <2>2 DEF PublishSourceHead
  <2> QED
    BY <1>2, <1>8, <2>1, <2>2
       DEF HeadStep, CaptureSourceHead, AttestUnchangedSourceIdentity,
           AttestLegacySourceHead, history
<1>9. CASE RecoveryStep
    BY <1>2, <1>4, <1>5, <1>9
       DEF RecoveryStep, CaptureSourceRecovery, ReserveSourceRecovery,
           PublishSourceRecovery, authority, history
<1>10. CASE RequirementStep
  <2>1. ASSUME NEW w, NEW p, NEW i, NEW b, NEW r,
               \/ PutProject(p, i, b) \/ RequireReindex(p, r)
               \/ DismissReindexRequirements(p) \/ BeginReindexRepair(w, p, r)
               \/ ResumeReindexRepair(w, p, r) \/ ReindexRequirementToken(w, p, r)
               \/ SettleReindexRequirement(w)
        PROVE  UNCHANGED <<published, required>>
    BY <2>1 DEF PutProject, RequireReindex, DismissReindexRequirements,
           BeginReindexRepair, ResumeReindexRepair, ReindexRequirementToken,
           SettleReindexRequirement, authority, history
  <2> QED
    BY <1>2, <1>10, <2>1 DEF RequirementStep
<1>11. CASE EnvironmentStep
    BY <1>2, <1>11
       DEF EnvironmentStep, Abandon, DamageHead, LoseManagedMarker, authority, history
<1> QED
    BY <1>6, <1>7, <1>8, <1>9, <1>10, <1>11 DEF Next

\* Once a generation was published, no loss of the head, or of the head and
\* the layout marker, makes a reader fall back to the legacy generation one.
THEOREM NeverLegacyAgain == Spec => []PublishedNeverLegacy
<1>1. Init => Marked
    BY DEF Init, Marked
<1>2. Marked => PublishedNeverLegacy
    BY DEF Marked, PublishedNeverLegacy, SnapshotRequirement, HeadReadable
<1> QED
    BY <1>1, <1>2, NextMarked, Invariance, PTL DEF Spec

-----------------------------------------------------------------------------
(* A reserved generation is a reading of the sequence.                     *)

\* No reservation is above the sequence, and no two are the same.
Allotted ==
    \A v \in Workers : token[v].kind = "reserved" =>
        /\ token[v].generation <= sequence
        /\ \A w \in Workers : v # w /\ token[w].kind = "reserved"
              => token[v].generation # token[w].generation

\* A worker's token is put down, or replaced by one that reserves nothing.
LEMMA TokenPutUnreserved ==
    ASSUME TypeOK, NEW w \in Workers, NEW u \in TokenType, Hold(w, u),
           u.kind # "reserved"
    PROVE  \A v \in Workers : token'[v].kind = "reserved" => token'[v] = token[v]
<1>1. token'[w] = u /\ \A v \in Workers : v # w => token'[v] = token[v]
    BY DEF Hold, TypeOK
<1> QED
    BY <1>1

\* Only reserve_source_recovery hands a reservation out.
LEMMA ReservedKept ==
    ASSUME IInv, Next,
           ~\E w \in Workers, g \in 0 .. MaxGeneration : ReserveSourceRecovery(w, g)
    PROVE  \A v \in Workers : token'[v].kind = "reserved" => token'[v] = token[v]
<1> DEFINE Kept == \A v \in Workers : token'[v].kind = "reserved" => token'[v] = token[v]
<1>1. TypeOK
    BY DEF IInv
<1>2. ASSUME UNCHANGED token
      PROVE  Kept
    BY <1>2
<1>3. ASSUME NEW w \in Workers, Hold(w, NoToken)
      PROVE  Kept
    BY <1>1, <1>3, NoTokenType, TokenPutUnreserved
<1> SUFFICES Kept
    OBVIOUS
<1> HIDE DEF Kept
<1>4. CASE LifecycleStep
    BY <1>2, <1>4 DEF LifecycleStep, RegisterSourceProject, PutProject,
                      DeleteProject, DeleteAllForProject
<1>5. CASE HeadStep
  <2>1. ASSUME NEW w \in Workers, NEW p \in Projects, CaptureSourceHead(w, p)
        PROVE  Kept
    <3>1. PICK u : Hold(w, u) /\ u.kind = "head"
      BY <2>1 DEF CaptureSourceHead, SourceToken
    <3>2. token'[w] = u /\ TypeOK'
      BY <1>1, <2>1, <3>1, CaptureSourceHeadIInv DEF Hold, TypeOK, IInv
    <3>3. u \in TokenType
      BY <3>2 DEF TypeOK
    <3> QED
      BY <1>1, <3>1, <3>3, TokenPutUnreserved DEF Kept
  <2> QED
    BY <1>2, <1>3, <1>5, <2>1
       DEF HeadStep, SetHeadMeta, PublishSourceHead, AttestUnchangedSourceIdentity,
           AttestLegacySourceHead
<1>6. CASE RecoveryStep
  <2>1. ASSUME NEW w \in Workers, NEW p \in Projects, CaptureSourceRecovery(w, p)
        PROVE  Kept
    <3> DEFINE u == SourceToken("recovery", p, revision[p], epoch[p], 0)
    <3>1. Hold(w, u) /\ revision[p] \in Revisions /\ epoch[p] \in Revisions
      BY <1>1, <2>1 DEF CaptureSourceRecovery, TypeOK
    <3>2. u \in TokenType /\ u.kind # "reserved"
      BY <1>1, <3>1, SourceTokenType DEF TokenKinds
    <3> HIDE DEF u
    <3> QED
      BY <1>1, <3>1, <3>2, TokenPutUnreserved DEF Kept
  <2> QED
    BY <1>3, <1>6, <2>1 DEF RecoveryStep, PublishSourceRecovery
<1>7. CASE RequirementStep
  <2>1. ASSUME NEW w \in Workers, NEW p \in Projects, NEW r \in Reasons,
               NEW v \in Revisions,
               \/ Hold(w, RequirementToken(p, r, v))
               \/ Hold(w, [RequirementToken(p, r, v) EXCEPT !.seen = @ + 1])
        PROVE  Kept
    BY <1>1, <2>1, RequirementTokenType, TokenPutUnreserved DEF Kept
  <2>2. ASSUME NEW w \in Workers, NEW p \in Projects, NEW r \in Reasons,
               BeginReindexRepair(w, p, r)
        PROVE  Kept
    <3>1. RecordedRevision(p) \in Revisions
      BY <1>1, <2>2, RecordRequirementEffect DEF BeginReindexRepair
    <3> QED
      BY <2>1, <2>2, <3>1 DEF BeginReindexRepair
  <2>3. ASSUME NEW w \in Workers, NEW p \in Projects, NEW r \in Reasons,
               ResumeReindexRepair(w, p, r)
        PROVE  Kept
    <3>1. ImportedPending(p)[r] \in Revisions
      BY <1>1, <2>3, ResumeReindexRepairEffect
    <3> QED
      BY <2>1, <2>3, <3>1 DEF ResumeReindexRepair
  <2>4. ASSUME NEW w \in Workers, NEW p \in Projects, NEW r \in Reasons,
               ReindexRequirementToken(w, p, r)
        PROVE  Kept
    <3>1. PendingView(p)[r] \in Revisions
      BY <1>1, PendingViewType
    <3> QED
      BY <2>1, <2>4, <3>1 DEF ReindexRequirementToken
  <2>5. ASSUME NEW p, NEW i, NEW b, NEW r,
               \/ PutProject(p, i, b) \/ RequireReindex(p, r)
               \/ DismissReindexRequirements(p)
        PROVE  Kept
    BY <1>2, <2>5 DEF PutProject, RequireReindex, DismissReindexRequirements
  <2>6. ASSUME NEW w \in Workers, SettleReindexRequirement(w)
        PROVE  Kept
    BY <1>3, <2>6 DEF SettleReindexRequirement
  <2> QED
    BY <1>7, <2>2, <2>3, <2>4, <2>5, <2>6 DEF RequirementStep
<1>8. CASE EnvironmentStep
    BY <1>2, <1>3, <1>8 DEF EnvironmentStep, Abandon, DamageHead, LoseManagedMarker
<1> QED
    BY <1>4, <1>5, <1>6, <1>7, <1>8 DEF Next

\* Every action keeps the reservations apart.
LEMMA NextAllotted == IInv /\ Allotted /\ [Next]_vars => Allotted'
<1> SUFFICES ASSUME IInv, Allotted, Next PROVE Allotted'
    BY DEF vars, Allotted
<1>1. /\ sequence' >= sequence /\ sequence \in Nat /\ sequence' \in Nat
      /\ \A v \in Workers : token[v].generation \in Nat
    BY SequenceGrows DEF IInv, TypeOK, TokenType
<1>2. CASE \E w \in Workers, g \in 0 .. MaxGeneration : ReserveSourceRecovery(w, g)
  <2>1. PICK w \in Workers, g \in 0 .. MaxGeneration : ReserveSourceRecovery(w, g)
    BY <1>2
  <2> DEFINE n == NextRevision(sequence, RecoveryFloor(token[w], g))
             u == [token[w] EXCEPT !.kind = "reserved", !.generation = n]
  <2>2. TypeOK /\ g \in Nat
    BY BoundAssumption DEF IInv
  <2>3. n \in Nat /\ n > sequence /\ u \in TokenType
    BY <2>1, <2>2, ReserveSourceRecoveryEffect
  <2>4. sequence' = n /\ Hold(w, u) /\ token[w] \in TokenType
    BY <2>1, <2>2 DEF ReserveSourceRecovery, TypeOK
  <2> HIDE DEF n
  <2>5. u.generation = n
    BY <2>4 DEF TokenType
  <2> HIDE DEF u
  <2>6. token'[w] = u /\ \A v \in Workers : v # w => token'[v] = token[v]
    BY <2>2, <2>4 DEF Hold, TypeOK
  <2>7. \A v \in Workers : v # w /\ token[v].kind = "reserved"
             => token[v].generation <= sequence
    BY DEF Allotted
  <2>8. \A v \in Workers : v # w /\ token'[v].kind = "reserved"
             => token'[v].generation < n
    BY <1>1, <2>3, <2>6, <2>7
  <2> QED
    BY <1>1, <2>3, <2>4, <2>5, <2>6, <2>8 DEF Allotted
<1>3. CASE ~\E w \in Workers, g \in 0 .. MaxGeneration : ReserveSourceRecovery(w, g)
  <2>1. \A v \in Workers : token'[v].kind = "reserved" => token'[v] = token[v]
    BY <1>3, ReservedKept
  <2> QED
    BY <1>1, <2>1 DEF Allotted
<1> QED
    BY <1>2, <1>3

\* reserve_source_recovery never gives two workers the same generation, even
\* when the first reservation was abandoned or its project deleted.
THEOREM NoSharedReservation == Spec => []ReservationsDistinct
<1>1. Init => Allotted
    BY NoTokenType DEF Init, Allotted
<1>2. Allotted => ReservationsDistinct
    BY DEF Allotted, ReservationsDistinct
<1> QED
    BY <1>1, <1>2, NextAllotted, Invariance, PTL DEF Spec

-----------------------------------------------------------------------------
(* An epoch names one lifetime.                                            *)

\* A source token's epoch was drawn from the sequence, and while it is a
\* registered project's, the token was captured in the present lifetime; a
\* verified identity was verified in the present lifetime.
Lived ==
    /\ \A w \in Workers :
          LET t == token[w] IN
          t.kind \in SourceKinds =>
              /\ t.epoch # 0 /\ t.epoch <= sequence
              /\ Registered(t.project) /\ epoch[t.project] = t.epoch
                    => t.life = lifetime[t.project]
    /\ \A p \in Projects :
          Registered(p) /\ verified[p] => witness[p] = lifetime[p]

\* How a step may move the lifetime of project p: it keeps it and registers
\* nothing, unregisters it, or draws a new epoch, or leaves none.
SameLife(p) ==
    /\ Registered(p)' => Registered(p)
    /\ epoch'[p] = epoch[p] /\ lifetime'[p] = lifetime[p]

LifeMoves(p) ==
    \/ SameLife(p)
    \/ ~Registered(p)'
    \/ epoch'[p] > sequence
    \/ epoch'[p] = 0

\* Who may have verified it: nobody, the present lifetime, or as before.
WitnessMoves(p) ==
    \/ ~Registered(p)'
    \/ ~verified'[p]
    \/ witness'[p] = lifetime'[p]
    \/ /\ SameLife(p)
       /\ verified'[p] => verified[p]
       /\ witness'[p] = witness[p]

\* What may become of a token: no source token, the same one, or a new copy.
LifeHeld(w) ==
    LET t == token[w] u == token'[w] IN
    \/ u.kind \notin SourceKinds
    \/ /\ t.kind \in SourceKinds
       /\ u.project = t.project /\ u.epoch = t.epoch /\ u.life = t.life
    \/ u.epoch # 0 /\ u.epoch <= sequence' /\ u.life = lifetime'[u.project]

LifeStep ==
    /\ \A p \in Projects : LifeMoves(p) /\ WitnessMoves(p)
    /\ \A w \in Workers : LifeHeld(w)

\* Any step of that shape keeps lifetimes named by their epochs.
LEMMA LifeStepLived ==
    ASSUME IInv, Next, Lived, LifeStep
    PROVE  Lived'
<1>1. sequence' >= sequence /\ sequence \in Nat /\ sequence' \in Nat
    BY SequenceGrows
<1>2. TypeOK /\ TypeOK'
    BY NextIInv DEF IInv
<1>3. ASSUME NEW w \in Workers, token'[w].kind \in SourceKinds,
             NEW q \in Projects, token'[w].project = q
      PROVE  LET u == token'[w] IN
             /\ u.epoch # 0 /\ u.epoch <= sequence'
             /\ projects'[q] # NoProject /\ epoch'[q] = u.epoch
                    => u.life = lifetime'[q]
  <2> DEFINE t == token[w]
             u == token'[w]
  <2>1. LifeHeld(w) /\ LifeMoves(q)
    BY DEF LifeStep
  <2>2. CASE u.epoch # 0 /\ u.epoch <= sequence' /\ u.life = lifetime'[u.project]
    BY <1>3, <2>2
  <2>3. CASE /\ t.kind \in SourceKinds
             /\ u.project = t.project /\ u.epoch = t.epoch /\ u.life = t.life
    <3>1. /\ t.epoch # 0 /\ t.epoch <= sequence
          /\ Registered(q) /\ epoch[q] = t.epoch => t.life = lifetime[q]
      BY <1>3, <2>3 DEF Lived
    <3>2. t.epoch \in Nat
      BY <1>2, BoundAssumption DEF TypeOK, TokenType, Revisions
    <3>3. u.epoch # 0 /\ u.epoch <= sequence'
      BY <1>1, <2>3, <3>1, <3>2
    <3>4. ASSUME projects'[q] # NoProject, epoch'[q] = u.epoch
          PROVE  u.life = lifetime'[q]
      <4>1. SameLife(q)
        <5>1. ~(epoch'[q] > sequence) /\ epoch'[q] # 0
          BY <1>1, <2>3, <3>1, <3>2, <3>4
        <5> QED
          BY <2>1, <3>4, <5>1 DEF LifeMoves, Registered
      <4> QED
        BY <2>3, <3>1, <3>4, <4>1 DEF SameLife, Registered
    <3> QED
      BY <3>3, <3>4
  <2> QED
    BY <1>3, <2>1, <2>2, <2>3 DEF LifeHeld
<1>4. ASSUME NEW p \in Projects, Registered(p)', verified'[p]
      PROVE  witness'[p] = lifetime'[p]
    BY <1>4 DEF LifeStep, WitnessMoves, SameLife, Lived
<1>5. \A w \in Workers : token'[w].project \in Projects
    BY <1>2 DEF TypeOK, TokenType
<1> QED
    BY <1>3, <1>4, <1>5 DEF Lived, Registered

\* A step that leaves identity and lifetime of every project alone.
LEMMA LifeKept ==
    ASSUME UNCHANGED <<projects, verified, epoch, lifetime, witness>>,
           NEW p \in Projects
    PROVE  LifeMoves(p) /\ WitnessMoves(p)
BY DEF LifeMoves, WitnessMoves, SameLife, Registered

\* The projects a step does not touch.
LEMMA LifeOthers ==
    ASSUME NEW p \in Projects, projects'[p] = projects[p], verified'[p] = verified[p],
           epoch'[p] = epoch[p], lifetime'[p] = lifetime[p], witness'[p] = witness[p]
    PROVE  LifeMoves(p) /\ WitnessMoves(p)
BY DEF LifeMoves, WitnessMoves, SameLife, Registered

\* A change of identity draws the epoch of the new lifetime.
LEMMA ChangeIdentityLives ==
    ASSUME TypeOK, NEW p \in Projects, NEW i, ChangeIdentity(p), NewLife(p),
           UNCHANGED witness,
           projects' = projects \/ projects' = [projects EXCEPT ![p] = i]
    PROVE  \A q \in Projects : LifeMoves(q) /\ WitnessMoves(q)
<1> SUFFICES ASSUME NEW q \in Projects PROVE LifeMoves(q) /\ WitnessMoves(q)
    OBVIOUS
<1>1. CASE q # p
    BY <1>1, LifeOthers, ChangeIdentityEffect DEF ChangeIdentity, NewLife, TypeOK
<1>2. CASE q = p
  <2>1. epoch'[p] = FreshEpoch(p) /\ FreshEpoch(p) > sequence /\ ~verified'[p]
    BY ChangeIdentityEffect, FreshEpochAbove DEF ChangeIdentity, TypeOK
  <2> QED
    BY <1>2, <2>1 DEF LifeMoves, WitnessMoves
<1> QED
    BY <1>1, <1>2

\* An unregistered project has no lifetime to name.
LEMMA DeletionLives ==
    ASSUME TypeOK, NEW p \in Projects, NewLife(p), UNCHANGED witness,
           projects' = [projects EXCEPT ![p] = NoProject],
           \A q \in Projects : q # p => epoch'[q] = epoch[q]
                                        /\ verified'[q] = verified[q]
    PROVE  \A q \in Projects : LifeMoves(q) /\ WitnessMoves(q)
<1> SUFFICES ASSUME NEW q \in Projects PROVE LifeMoves(q) /\ WitnessMoves(q)
    OBVIOUS
<1>1. CASE q # p
    BY <1>1, LifeOthers DEF NewLife, TypeOK
<1>2. CASE q = p
    BY <1>2 DEF LifeMoves, WitnessMoves, Registered, TypeOK
<1> QED
    BY <1>1, <1>2

\* An accepted token verifies the lifetime it was captured in.
LEMMA VerificationLives ==
    ASSUME TypeOK, Lived, NEW w \in Workers,
           \/ token[w].kind = "head" /\ HeadMatches(token[w])
           \/ token[w].kind = "reserved" /\ RecoveryMatches(token[w]),
           verified' = [verified EXCEPT ![token[w].project] = TRUE],
           witness' = [witness EXCEPT ![token[w].project] = token[w].life],
           UNCHANGED <<projects, epoch, lifetime>>
    PROVE  \A q \in Projects : LifeMoves(q) /\ WitnessMoves(q)
<1> DEFINE t == token[w]
           p == t.project
<1> SUFFICES ASSUME NEW q \in Projects PROVE LifeMoves(q) /\ WitnessMoves(q)
    OBVIOUS
<1>1. CASE q # p
    BY <1>1, LifeOthers DEF TypeOK
<1>2. CASE q = p
  <2>1. t.life = lifetime[p]
    BY DEF Lived, HeadMatches, RecoveryMatches, SourceKinds
  <2>2. witness'[p] = t.life
    BY <1>2 DEF TypeOK
  <2> QED
    BY <1>2, <2>1, <2>2 DEF LifeMoves, WitnessMoves, SameLife, Registered
<1> QED
    BY <1>1, <1>2

\* Tokens that are put down, and tokens of requirements.
LEMMA LifeTokenPut ==
    ASSUME TypeOK, NEW w \in Workers, NEW u \in TokenType, Hold(w, u)
    PROVE  /\ token'[w] = u
           /\ u.kind \notin SourceKinds => \A v \in Workers : LifeHeld(v)
           /\ LifeHeld(w) => \A v \in Workers : LifeHeld(v)
<1>1. token'[w] = u /\ \A v \in Workers : v # w => token'[v] = token[v]
    BY DEF Hold, TypeOK
<1> QED
    BY <1>1 DEF LifeHeld

\* Every action keeps lifetimes named by their epochs.
LEMMA NextLived == IInv /\ Lived /\ [Next]_vars => Lived'
<1>0. ASSUME Lived, UNCHANGED vars PROVE Lived'
    BY <1>0 DEF vars, authority, history, Lived, Registered
<1> SUFFICES ASSUME IInv, Lived, Next PROVE LifeStep
    BY <1>0, LifeStepLived
<1> DEFINE Projected == \A p \in Projects : LifeMoves(p) /\ WitnessMoves(p)
           Handed == \A w \in Workers : LifeHeld(w)
<1> SUFFICES Projected /\ Handed
    BY DEF LifeStep
<1>1. TypeOK /\ TypeOK'
    BY NextIInv DEF IInv
<1>2. ASSUME UNCHANGED token PROVE Handed
    BY <1>2 DEF LifeHeld
<1>3. ASSUME NEW w \in Workers, Hold(w, NoToken) PROVE Handed
    BY <1>1, <1>3, NoTokenType, LifeTokenPut DEF SourceKinds
<1>4. ASSUME UNCHANGED <<projects, verified, epoch, lifetime, witness>>
      PROVE  Projected
    BY <1>4, LifeKept
<1>5. ASSUME NEW p \in Projects, NEW i \in Identities, NEW b \in BOOLEAN,
             PutProject(p, i, b)
      PROVE  Projected /\ Handed
  <2>1. CASE projects[p] # i
    BY <1>1, <1>2, <1>5, <2>1, ChangeIdentityLives DEF PutProject
  <2>2. CASE projects[p] = i
    <3>1. projects' = projects
      BY <1>1, <1>5, <2>2 DEF PutProject, TypeOK
    <3> QED
      BY <1>2, <1>4, <1>5, <2>2, <3>1 DEF PutProject
  <2> QED
    BY <2>1, <2>2
<1>6. CASE LifecycleStep
  <2>1. ASSUME NEW p \in Projects, NEW i \in Identities, RegisterSourceProject(p, i)
        PROVE  Projected /\ Handed
    BY <1>1, <1>2, <2>1, ChangeIdentityLives DEF RegisterSourceProject
  <2>2. ASSUME NEW p \in Projects, DeleteProject(p)
        PROVE  Projected /\ Handed
    BY <1>1, <1>2, <2>2, DeletionLives DEF DeleteProject
  <2>3. ASSUME NEW p \in Projects, DeleteAllForProject(p)
        PROVE  Projected /\ Handed
    <3>1. \A q \in Projects : q # p => epoch'[q] = epoch[q] /\ verified'[q] = verified[q]
      BY <1>1, <2>3 DEF DeleteAllForProject, TypeOK
    <3> QED
      BY <1>1, <1>2, <2>3, <3>1, DeletionLives DEF DeleteAllForProject
  <2> HIDE DEF Projected, Handed
  <2> QED
    BY <1>5, <1>6, <2>1, <2>2, <2>3 DEF LifecycleStep
<1>7. CASE HeadStep
  <2>1. ASSUME NEW p \in Projects, NEW h, SetHeadMeta(p, h)
        PROVE  Projected /\ Handed
    <3>1. CASE head[p] # h
      BY <1>1, <1>2, <2>1, <3>1, ChangeIdentityLives DEF SetHeadMeta
    <3>2. CASE head[p] = h
      BY <1>2, <1>4, <2>1, <3>2 DEF SetHeadMeta
    <3> QED
      BY <3>1, <3>2
  <2>2. ASSUME NEW w \in Workers, NEW g, PublishSourceHead(w, g)
        PROVE  Projected /\ Handed
    BY <1>1, <1>3, <2>2, VerificationLives DEF PublishSourceHead, MarkPublished
  <2>3. ASSUME NEW w \in Workers, AttestUnchangedSourceIdentity(w)
        PROVE  Projected /\ Handed
    BY <1>1, <1>2, <2>3, VerificationLives DEF AttestUnchangedSourceIdentity
  <2>4. ASSUME NEW w \in Workers, AttestLegacySourceHead(w)
        PROVE  Projected /\ Handed
    BY <1>2, <1>4, <2>4 DEF AttestLegacySourceHead, history
  <2>5. ASSUME NEW w \in Workers, NEW p \in Projects, CaptureSourceHead(w, p)
        PROVE  Projected /\ Handed
    <3>1. /\ epoch' = [epoch EXCEPT ![p] = epoch'[p]]
          /\ verified' = [verified EXCEPT ![p] = @ /\ epoch[p] # 0]
          /\ UNCHANGED <<projects, lifetime, witness>>
          /\ token'[w].kind = "head" /\ token'[w].project = p
          /\ token'[w].epoch = epoch'[p] /\ token'[w].life = lifetime[p]
      BY <1>1, <2>5 DEF CaptureSourceHead, Hold, SourceToken, history, TypeOK
    <3>2. /\ sequence \in Nat /\ revision[p] \in Nat /\ epoch[p] \in Nat
          /\ epoch[p] <= revision[p] /\ revision[p] <= sequence
      BY <1>1, Numbers DEF IInv, AuthorityOrdered
    <3>3. AdvancedRevision(p) \in Nat /\ AdvancedRevision(p) > sequence
      BY <1>1, AdvancedAbove
    <3>4. /\ NextRevision(sequence, revision[p]) \in Nat
          /\ NextRevision(sequence, revision[p]) > sequence
          /\ NextRevision(AdvancedRevision(p), AdvancedRevision(p)) \in Nat
          /\ NextRevision(AdvancedRevision(p), AdvancedRevision(p))
                > AdvancedRevision(p)
      BY <3>2, <3>3, NextRevisionAbove
    <3>5. /\ epoch'[p] # 0 /\ epoch'[p] <= sequence'
          /\ \/ epoch'[p] > sequence /\ ~verified'[p]
             \/ epoch'[p] = epoch[p] /\ (verified'[p] => verified[p])
      <4>1. CASE epoch[p] = 0
        <5>1. /\ epoch'[p] = sequence' /\ ~verified'[p]
              /\ \/ epoch'[p] = NextRevision(sequence, revision[p])
                 \/ epoch'[p] = NextRevision(AdvancedRevision(p), AdvancedRevision(p))
          BY <1>1, <2>5, <3>1, <4>1 DEF CaptureSourceHead, TypeOK
        <5> QED
          BY <3>2, <3>3, <3>4, <5>1
      <4>2. CASE epoch[p] # 0
        <5>1. epoch'[p] = epoch[p] /\ sequence' = sequence
          BY <1>1, <2>5, <3>2, <4>2 DEF CaptureSourceHead, TypeOK
        <5>2. verified'[p] => verified[p]
          BY <1>1, <3>1 DEF TypeOK
        <5> QED
          BY <3>2, <4>2, <5>1, <5>2
      <4> QED
        BY <4>1, <4>2
    <3>6. Projected
      <4> SUFFICES ASSUME NEW q \in Projects PROVE LifeMoves(q) /\ WitnessMoves(q)
        OBVIOUS
      <4>1. CASE q # p
        BY <1>1, <3>1, <4>1, LifeOthers DEF TypeOK
      <4>2. CASE q = p
        BY <3>1, <3>5, <4>2 DEF LifeMoves, WitnessMoves, SameLife, Registered
      <4> QED
        BY <4>1, <4>2
    <3>7. Handed
      <4>1. LifeHeld(w)
        BY <3>1, <3>5 DEF LifeHeld
      <4>2. \A v \in Workers : v # w => token'[v] = token[v]
        BY <1>1, <2>5 DEF CaptureSourceHead, Hold, TypeOK
      <4> QED
        BY <4>1, <4>2 DEF LifeHeld
    <3> QED
      BY <3>6, <3>7
  <2> HIDE DEF Projected, Handed
  <2> QED
    BY <1>7, <2>1, <2>2, <2>3, <2>4, <2>5 DEF HeadStep
<1>8. CASE RecoveryStep
  <2>1. ASSUME NEW w \in Workers, NEW p \in Projects, CaptureSourceRecovery(w, p)
        PROVE  Projected /\ Handed
    <3> DEFINE u == SourceToken("recovery", p, revision[p], epoch[p], 0)
    <3>1. /\ Hold(w, u) /\ RecoveryAuthority(p)
          /\ UNCHANGED <<projects, verified, epoch, lifetime, witness, sequence>>
          /\ u.project = p /\ u.epoch = epoch[p] /\ u.life = lifetime[p]
      BY <2>1 DEF CaptureSourceRecovery, authority, history, SourceToken
    <3>2. u \in TokenType
      BY <1>1, SourceTokenType DEF TypeOK, TokenKinds
    <3>3. epoch[p] # 0 /\ epoch[p] <= sequence
      BY <1>1, <3>1, Numbers DEF RecoveryAuthority, IInv, AuthorityOrdered
    <3> HIDE DEF u
    <3>4. LifeHeld(w)
      BY <1>1, <3>1, <3>2, <3>3, LifeTokenPut DEF LifeHeld
    <3> QED
      BY <1>1, <1>4, <3>1, <3>2, <3>4, LifeTokenPut
  <2>2. ASSUME NEW w \in Workers, NEW g \in 0 .. MaxGeneration,
               ReserveSourceRecovery(w, g)
        PROVE  Projected /\ Handed
    <3>1. /\ token[w].kind = "recovery" /\ token'[w].project = token[w].project
          /\ token'[w].epoch = token[w].epoch /\ token'[w].life = token[w].life
          /\ \A v \in Workers : v # w => token'[v] = token[v]
          /\ UNCHANGED <<projects, verified, epoch, lifetime, witness>>
      BY <1>1, <2>2 DEF ReserveSourceRecovery, Hold, TypeOK, TokenType, authority,
                        history
    <3>2. Handed
      BY <3>1 DEF LifeHeld, SourceKinds
    <3> QED
      BY <1>4, <3>1, <3>2
  <2>3. ASSUME NEW w \in Workers, PublishSourceRecovery(w)
        PROVE  Projected /\ Handed
    BY <1>1, <1>3, <2>3, VerificationLives DEF PublishSourceRecovery, MarkPublished
  <2> HIDE DEF Projected, Handed
  <2> QED
    BY <1>8, <2>1, <2>2, <2>3 DEF RecoveryStep
<1>9. CASE RequirementStep
  <2>1. ASSUME NEW w \in Workers, NEW p \in Projects, NEW r \in Reasons,
               NEW v \in Revisions,
               \/ Hold(w, RequirementToken(p, r, v))
               \/ Hold(w, [RequirementToken(p, r, v) EXCEPT !.seen = @ + 1])
        PROVE  Handed
    BY <1>1, <2>1, RequirementTokenType, LifeTokenPut DEF SourceKinds
  <2>2. ASSUME NEW w \in Workers, NEW p \in Projects, NEW r \in Reasons,
               BeginReindexRepair(w, p, r)
        PROVE  Projected /\ Handed
    <3>1. RecordedRevision(p) \in Revisions
      BY <1>1, <2>2, RecordRequirementEffect DEF BeginReindexRepair
    <3> QED
      BY <1>4, <2>1, <2>2, <3>1 DEF BeginReindexRepair, authority
  <2>3. ASSUME NEW w \in Workers, NEW p \in Projects, NEW r \in Reasons,
               ResumeReindexRepair(w, p, r)
        PROVE  Projected /\ Handed
    <3>1. ImportedPending(p)[r] \in Revisions
      BY <1>1, <2>3, ResumeReindexRepairEffect
    <3> QED
      BY <1>4, <2>1, <2>3, <3>1 DEF ResumeReindexRepair, authority, history
  <2>4. ASSUME NEW w \in Workers, NEW p \in Projects, NEW r \in Reasons,
               ReindexRequirementToken(w, p, r)
        PROVE  Projected /\ Handed
    <3>1. PendingView(p)[r] \in Revisions
      BY <1>1, PendingViewType
    <3> QED
      BY <1>4, <2>1, <2>4, <3>1 DEF ReindexRequirementToken, authority, history
  <2>5. ASSUME NEW p, NEW r, RequireReindex(p, r) \/ DismissReindexRequirements(p)
        PROVE  Projected /\ Handed
    BY <1>2, <1>4, <2>5 DEF RequireReindex, DismissReindexRequirements, authority,
                            history
  <2>6. ASSUME NEW w \in Workers, SettleReindexRequirement(w)
        PROVE  Projected /\ Handed
    BY <1>3, <1>4, <2>6 DEF SettleReindexRequirement, authority, history
  <2> HIDE DEF Projected, Handed
  <2> QED
    BY <1>5, <1>9, <2>2, <2>3, <2>4, <2>5, <2>6 DEF RequirementStep
<1>10. CASE EnvironmentStep
  <2> HIDE DEF Projected, Handed
  <2> QED
    BY <1>2, <1>3, <1>4, <1>10
       DEF EnvironmentStep, Abandon, DamageHead, LoseManagedMarker, authority, history
<1> HIDE DEF Projected, Handed
<1> QED
    BY <1>6, <1>7, <1>8, <1>9, <1>10 DEF Next

\* A cache keyed by an identity epoch is never trusted in a later lifetime of
\* the project, and the stat cache only after a scan of the present one.
THEOREM OneLifetimePerEpoch == Spec => []EpochNamesLifetime
<1>1. Init => Lived
    BY NoTokenType DEF Init, Lived, SourceKinds
<1>2. Lived => EpochNamesLifetime
    BY DEF Lived, EpochNamesLifetime, SourceKinds
<1> QED
    BY <1>1, <1>2, NextLived, Invariance, PTL DEF Spec

-----------------------------------------------------------------------------
(* A requirement's revision names one failure.                             *)

\* The largest revision the project's requirements can have been given.
Issued(p) == Max2(sequence, ReqRevisionView(p))

\* Pending revisions and the revisions of requirement tokens were issued, and
\* while a token's revision is pending, no failure was recorded since.
Settled ==
    /\ \A p \in Projects :
        /\ reqRevision[p] = 0 => pending[p] = NoPending
        /\ \A r \in Reasons : PendingView(p)[r] <= Issued(p)
    /\ \A w \in Workers :
        LET t == token[w] p == t.project IN
        t.kind = "requirement" =>
            /\ t.revision # 0 /\ t.revision <= Issued(p)
            /\ PendingView(p)[t.reason] = t.revision
                  => t.seen = failures[p][t.reason]

\* How a step may move the requirements of project p: for each reason it
\* changes nothing, settles it, or gives it a revision never issued before.
RequirementMoves(p) ==
    /\ reqRevision'[p] = 0 => pending'[p] = NoPending
    /\ Issued(p)' >= Issued(p)
    /\ \A r \in Reasons :
        /\ PendingView(p)'[r] <= Issued(p)'
        /\ \/ /\ PendingView(p)'[r] = PendingView(p)[r]
              /\ failures'[p][r] = failures[p][r]
           \/ PendingView(p)'[r] = 0
           \/ PendingView(p)'[r] > Issued(p)

\* What may become of a token: no requirement, the same one, or one captured
\* from the new state.
RequirementHeld(w) ==
    LET u == token'[w] IN
    \/ u.kind # "requirement"
    \/ u = token[w]
    \/ \E q \in Projects, r \in Reasons :
          /\ u.project = q /\ u.reason = r /\ u.revision # 0
          /\ u.revision = PendingView(q)'[r] /\ u.seen = failures'[q][r]

RequirementsStep ==
    /\ \A p \in Projects : RequirementMoves(p)
    /\ \A w \in Workers : RequirementHeld(w)

\* The numbers of the requirements.
LEMMA IssuedNat ==
    ASSUME TypeOK, NEW p \in Projects
    PROVE  /\ Issued(p) \in Nat /\ Issued(p) >= sequence
           /\ Issued(p) >= ReqRevisionView(p)
           /\ \A r \in Reasons : PendingView(p)[r] \in Nat
           /\ ReqRevisionView(p) \in Nat /\ sequence \in Nat
<1>1. Revisions \subseteq Nat
    BY BoundAssumption DEF Revisions
<1>2. /\ PendingView(p) \in [Reasons -> Revisions] /\ ReqRevisionView(p) \in Nat
      /\ sequence \in Nat
    BY <1>1, PendingViewType DEF TypeOK
<1>3. \A r \in Reasons : PendingView(p)[r] \in Nat
    BY <1>1, <1>2
<1>4. Issued(p) \in Nat /\ Issued(p) >= sequence /\ Issued(p) >= ReqRevisionView(p)
    BY <1>2 DEF Issued, Max2
<1> QED
    BY <1>2, <1>3, <1>4

\* The same as a state predicate, for the state after a step.
RequirementNumbers ==
    \A p \in Projects :
        /\ Issued(p) \in Nat
        /\ \A r \in Reasons : PendingView(p)[r] \in Nat

\* Types give the numbers, before and after a step.
LEMMA RequirementNumbersHold ==
    /\ TypeOK => RequirementNumbers
    /\ (TypeOK => RequirementNumbers)'
<1>1. TypeOK => RequirementNumbers
    BY IssuedNat DEF RequirementNumbers
<1> QED
    BY <1>1, PTL

\* Any step of that shape keeps settlement exact.
LEMMA RequirementsStepSettled ==
    ASSUME TypeOK, TypeOK', Settled, RequirementsStep
    PROVE  Settled'
<1>1. \A p \in Projects : /\ Issued(p) \in Nat
                          /\ \A r \in Reasons : PendingView(p)[r] \in Nat
    BY IssuedNat
<1>2. \A p \in Projects : /\ Issued(p)' \in Nat
                          /\ \A r \in Reasons : PendingView(p)'[r] \in Nat
    BY RequirementNumbersHold DEF RequirementNumbers
<1>3. ASSUME NEW w \in Workers, NEW p \in Projects, NEW r \in Reasons,
             token'[w].kind = "requirement", token'[w].project = p,
             token'[w].reason = r
      PROVE  /\ token'[w].revision # 0 /\ token'[w].revision <= Issued(p)'
             /\ PendingView(p)'[r] = token'[w].revision
                  => token'[w].seen = failures'[p][r]
  <2> DEFINE u == token'[w]
  <2>1. RequirementHeld(w) /\ RequirementMoves(p) /\ u.revision \in Nat
    BY BoundAssumption DEF RequirementsStep, TypeOK, TokenType, Revisions
  <2>2. CASE u = token[w]
    <3>1. /\ u.revision # 0 /\ u.revision <= Issued(p)
          /\ PendingView(p)[r] = u.revision => u.seen = failures[p][r]
      BY <1>3, <2>2 DEF Settled
    <3>2. u.revision <= Issued(p)'
      BY <1>1, <1>2, <2>1, <3>1 DEF RequirementMoves
    <3>3. ASSUME PendingView(p)'[r] = u.revision
          PROVE  u.seen = failures'[p][r]
      <4>1. ~(PendingView(p)'[r] > Issued(p)) /\ PendingView(p)'[r] # 0
        BY <1>1, <2>1, <3>1, <3>3
      <4> QED
        BY <2>1, <3>1, <3>3, <4>1 DEF RequirementMoves
    <3> QED
      BY <3>1, <3>2, <3>3
  <2>3. CASE \E q \in Projects, s \in Reasons :
                /\ u.project = q /\ u.reason = s /\ u.revision # 0
                /\ u.revision = PendingView(q)'[s] /\ u.seen = failures'[q][s]
    BY <1>3, <2>1, <2>3 DEF RequirementMoves
  <2> QED
    BY <1>3, <2>1, <2>2, <2>3 DEF RequirementHeld
<1>4. \A p \in Projects :
        /\ reqRevision'[p] = 0 => pending'[p] = NoPending
        /\ \A r \in Reasons : PendingView(p)'[r] <= Issued(p)'
    BY DEF RequirementsStep, RequirementMoves
<1>5. \A w \in Workers : token'[w].project \in Projects /\ token'[w].reason \in Reasons
    BY DEF TypeOK, TokenType
<1>6. (\A w \in Workers :
        LET t == token[w] p == t.project IN
        t.kind = "requirement" =>
            /\ t.revision # 0 /\ t.revision <= Issued(p)
            /\ PendingView(p)[t.reason] = t.revision
                  => t.seen = failures[p][t.reason])'
  <2> SUFFICES ASSUME NEW w \in Workers, token'[w].kind = "requirement"
               PROVE  (/\ token[w].revision # 0
                       /\ token[w].revision <= Issued(token[w].project)
                       /\ PendingView(token[w].project)[token[w].reason]
                              = token[w].revision
                            => token[w].seen
                                 = failures[token[w].project][token[w].reason])'
    OBVIOUS
  <2>1. PICK p \in Projects, r \in Reasons :
            token'[w].project = p /\ token'[w].reason = r
    BY <1>5
  <2> QED
    BY <1>3, <2>1 DEF Issued, PendingView, ReqRevisionView
<1> QED
    BY <1>4, <1>6 DEF Settled

\* A project whose requirements and failures a step leaves alone.
LEMMA RequirementOthers ==
    ASSUME TypeOK, TypeOK', Settled, NEW p \in Projects, sequence' >= sequence,
           reqRevision'[p] = reqRevision[p], pending'[p] = pending[p],
           PendingView(p)' = PendingView(p), ReqRevisionView(p)' = ReqRevisionView(p),
           failures'[p] = failures[p]
    PROVE  RequirementMoves(p)
<1>1. /\ Issued(p) \in Nat /\ sequence \in Nat /\ ReqRevisionView(p) \in Nat
      /\ \A r \in Reasons : PendingView(p)[r] \in Nat
    BY IssuedNat
<1>2. sequence' \in Nat
    BY BoundAssumption DEF TypeOK, Revisions
<1>3. Issued(p)' >= Issued(p) /\ Issued(p)' \in Nat
    BY <1>1, <1>2 DEF Issued, Max2
<1>4. \A r \in Reasons : PendingView(p)[r] <= Issued(p)
    BY DEF Settled
<1>5. \A r \in Reasons : PendingView(p)'[r] <= Issued(p)'
    BY <1>1, <1>3, <1>4
<1> QED
    BY <1>3, <1>5 DEF RequirementMoves, Settled

\* write_requirements of a stored map.
LEMMA WriteRequirementsMoves ==
    ASSUME TypeOK, TypeOK', Settled, NEW p \in Projects,
           NEW rev \in Revisions, rev # 0, NEW pend \in [Reasons -> Revisions],
           WriteRequirements(p, rev, pend),
           sequence' >= sequence, Max2(sequence', rev) >= Issued(p),
           \A q \in Projects : q # p => failures'[q] = failures[q],
           \A r \in Reasons :
             /\ pend[r] <= Max2(sequence', rev)
             /\ \/ pend[r] = PendingView(p)[r] /\ failures'[p][r] = failures[p][r]
                \/ pend[r] = 0
                \/ pend[r] > Issued(p)
    PROVE  \A q \in Projects : RequirementMoves(q)
<1> SUFFICES ASSUME NEW q \in Projects PROVE RequirementMoves(q)
    OBVIOUS
<1>1. CASE q # p
  <2>1. /\ reqRevision'[q] = reqRevision[q] /\ pending'[q] = pending[q]
        /\ flag'[q] = flag[q]
    BY <1>1 DEF WriteRequirements, TypeOK
  <2>2. PendingView(q)' = PendingView(q) /\ ReqRevisionView(q)' = ReqRevisionView(q)
    BY <2>1 DEF PendingView, ReqRevisionView
  <2> QED
    BY <1>1, <2>1, <2>2, RequirementOthers
<1>2. CASE q = p
  <2>1. reqRevision'[p] = rev /\ pending'[p] = pend
    BY DEF WriteRequirements, TypeOK
  <2>2. PendingView(p)' = pend /\ ReqRevisionView(p)' = rev
    BY <2>1 DEF PendingView, ReqRevisionView
  <2>3. Issued(p)' = Max2(sequence', rev)
    BY <2>2 DEF Issued
  <2> QED
    BY <1>2, <2>1, <2>2, <2>3 DEF RequirementMoves
<1> QED
    BY <1>1, <1>2

\* A step that leaves every requirement alone.
LEMMA RequirementsKept ==
    ASSUME TypeOK, TypeOK', Settled, sequence' >= sequence,
           UNCHANGED <<requirements, failures>>
    PROVE  \A q \in Projects : RequirementMoves(q)
<1> SUFFICES ASSUME NEW q \in Projects PROVE RequirementMoves(q)
    OBVIOUS
<1>1. PendingView(q)' = PendingView(q) /\ ReqRevisionView(q)' = ReqRevisionView(q)
    BY DEF PendingView, ReqRevisionView, requirements
<1> QED
    BY <1>1, RequirementOthers DEF requirements

\* An imported legacy flag gets a revision above everything issued.
LEMMA ImportAbove ==
    ASSUME TypeOK, NEW p \in Projects, reqRevision[p] = 0, NEW last \in Nat,
           last >= sequence
    PROVE  /\ NextRevision(last, 1) \in Nat /\ NextRevision(last, 1) > Issued(p)
           /\ NextRevision(last, 1) # 0
<1>1. sequence \in Nat /\ (ReqRevisionView(p) = 0 \/ ReqRevisionView(p) = 1)
    BY Numbers DEF ReqRevisionView
<1>2. NextRevision(last, 1) \in Nat /\ NextRevision(last, 1) > last
      /\ NextRevision(last, 1) > 1
    BY NextRevisionAbove
<1> QED
    BY <1>1, <1>2 DEF Issued, Max2

\* record_reindex_requirement and clear_pending_on_delete draw a revision
\* above everything issued, with or without an import before it.
LEMMA RecordedAbove ==
    ASSUME TypeOK, NEW p \in Projects, NEW n,
           n = IF ImportsLegacy(p, FALSE)
                 THEN NextRevision(NextRevision(sequence, 1), NextRevision(sequence, 1))
                 ELSE NextRevision(sequence, reqRevision[p]),
           ImportsLegacy(p, FALSE) \/ reqRevision[p] # 0 \/ ~flag[p]
    PROVE  /\ n \in Nat /\ n # 0 /\ n > Issued(p)
           /\ ImportsLegacy(p, FALSE) => /\ NextRevision(sequence, 1) \in Nat
                                         /\ NextRevision(sequence, 1) > Issued(p)
                                         /\ NextRevision(sequence, 1) <= n
<1>1. sequence \in Nat /\ reqRevision[p] \in Nat /\ Issued(p) \in Nat
    BY Numbers, IssuedNat
<1>2. CASE ImportsLegacy(p, FALSE)
  <2>1. NextRevision(sequence, 1) \in Nat /\ NextRevision(sequence, 1) > Issued(p)
    BY <1>1, <1>2, ImportAbove DEF ImportsLegacy
  <2>2. n \in Nat /\ n > NextRevision(sequence, 1)
    BY <1>2, <2>1, NextRevisionAbove
  <2>3. \A a, b, c \in Nat : a > b /\ b > c => a # 0 /\ a > c /\ b <= a
    OBVIOUS
  <2>4. n # 0 /\ n > Issued(p) /\ NextRevision(sequence, 1) <= n
    BY <1>1, <2>1, <2>2, <2>3
  <2> QED
    BY <2>1, <2>2, <2>4
<1>3. CASE ~ImportsLegacy(p, FALSE)
  <2>1. n \in Nat /\ n > sequence /\ n > reqRevision[p]
    BY <1>1, <1>3, NextRevisionAbove
  <2>2. Issued(p) = Max2(sequence, reqRevision[p])
    BY <1>3 DEF Issued, ReqRevisionView, ImportsLegacy
  <2>3. \A a, b, c \in Nat : a > b /\ a > c => a # 0 /\ a > Max2(b, c)
    BY DEF Max2
  <2>4. n # 0 /\ n > Issued(p)
    BY <1>1, <2>1, <2>2, <2>3
  <2> QED
    BY <1>3, <2>1, <2>4
<1> QED
    BY <1>2, <1>3

\* record_reindex_requirement.
LEMMA RecordRequirementMoves ==
    ASSUME TypeOK, TypeOK', Settled, NEW p \in Projects, NEW r \in Reasons,
           RecordRequirement(p, r)
    PROVE  /\ \A q \in Projects : RequirementMoves(q)
           /\ PendingView(p)'[r] = RecordedRevision(p) /\ RecordedRevision(p) # 0
           /\ failures'[p][r] = failures[p][r] + 1
<1> DEFINE n == RecordedRevision(p)
           pend == [ImportedPending(p) EXCEPT ![r] = n]
<1>1. /\ n \in Nat /\ n # 0 /\ n > Issued(p)
      /\ ImportsLegacy(p, FALSE) => /\ NextRevision(sequence, 1) \in Nat
                                    /\ NextRevision(sequence, 1) > Issued(p)
                                    /\ NextRevision(sequence, 1) <= n
  <2>1. ImportsLegacy(p, FALSE) \/ reqRevision[p] # 0 \/ ~flag[p]
    BY DEF ImportsLegacy
  <2> QED
    BY <2>1, RecordedAbove DEF RecordedRevision
<1>2. n \in Revisions /\ n <= MaxRevision /\ MaxRevision \in Nat
    BY RecordRequirementEffect, Numbers DEF RecordRequirement
<1>3. /\ sequence' = n /\ WriteRequirements(p, n, pend) /\ Fail(p, r)
    BY DEF RecordRequirement
<1> HIDE DEF n
<1>4. /\ failures'[p][r] = failures[p][r] + 1
      /\ \A s \in Reasons : s # r => failures'[p][s] = failures[p][s]
      /\ \A q \in Projects : q # p => failures'[q] = failures[q]
    BY <1>3 DEF Fail, TypeOK
<1>5. ImportsLegacy(p, FALSE) => NextRevision(sequence, 1) \in Revisions
    BY <1>1, <1>2 DEF Revisions
<1>6. ImportedPending(p) \in [Reasons -> Revisions]
    BY <1>5, PendingTypes, UnknownAssumption DEF ImportedPending, TypeOK
<1>7. pend \in [Reasons -> Revisions] /\ pend[r] = n
      /\ \A s \in Reasons : s # r => pend[s] = ImportedPending(p)[s]
    BY <1>2, <1>6
<1>8. Issued(p) \in Nat /\ sequence \in Nat /\ Issued(p) >= sequence
      /\ \A s \in Reasons : PendingView(p)[s] \in Nat /\ PendingView(p)[s] <= Issued(p)
    BY IssuedNat DEF Settled
<1>9. ASSUME NEW s \in Reasons, s # r
      PROVE  /\ ImportedPending(p)[s] <= n
             /\ \/ ImportedPending(p)[s] = PendingView(p)[s]
                \/ ImportedPending(p)[s] = 0
                \/ ImportedPending(p)[s] > Issued(p)
  <2>1. CASE ImportsLegacy(p, FALSE)
    BY <1>1, <2>1, PendingTypes DEF ImportedPending, NoPending
  <2>2. CASE ~ImportsLegacy(p, FALSE)
    <3>1. ImportedPending(p) = pending[p]
      BY <2>2 DEF ImportedPending
    <3>2. PendingView(p) = pending[p]
      BY <2>2 DEF PendingView, ImportsLegacy, Settled
    <3> QED
      BY <1>1, <1>8, <3>1, <3>2
  <2> QED
    BY <2>1, <2>2
<1>10. Max2(sequence', n) = n /\ sequence' >= sequence /\ n >= Issued(p)
    BY <1>1, <1>3, <1>8 DEF Max2
<1> HIDE DEF pend
<1>11. \A s \in Reasons :
         /\ pend[s] <= Max2(sequence', n)
         /\ \/ pend[s] = PendingView(p)[s] /\ failures'[p][s] = failures[p][s]
            \/ pend[s] = 0
            \/ pend[s] > Issued(p)
    BY <1>1, <1>4, <1>7, <1>9, <1>10
<1>12. \A q \in Projects : RequirementMoves(q)
    BY <1>1, <1>2, <1>3, <1>4, <1>7, <1>10, <1>11, WriteRequirementsMoves
<1>13. PendingView(p)' = pend
    BY <1>1, <1>3 DEF PendingView, WriteRequirements, TypeOK
<1> QED
    BY <1>1, <1>4, <1>7, <1>12, <1>13 DEF n

\* put_project: a legacy flag is imported with a new revision.
LEMMA PutProjectMoves ==
    ASSUME TypeOK, TypeOK', Settled, NEW p \in Projects, NEW i \in Identities,
           NEW incoming \in BOOLEAN, PutProject(p, i, incoming)
    PROVE  \A q \in Projects : RequirementMoves(q)
<1> DEFINE last == IF projects[p] # i THEN FreshEpoch(p) ELSE sequence
           imported == NextRevision(last, 1)
           pend == [NoPending EXCEPT ![Unknown] = imported]
<1>1. last \in Nat /\ last >= sequence /\ sequence \in Nat /\ Issued(p) \in Nat
    BY PutProjectEffect, IssuedNat, BoundAssumption DEF Revisions
<1>2. /\ ImportsLegacy(p, incoming) =>
             /\ imported <= MaxRevision /\ sequence' = imported
             /\ WriteRequirements(p, imported, pend) /\ Fail(p, Unknown)
      /\ ~ImportsLegacy(p, incoming) =>
             /\ sequence' = last
             /\ flag' = [flag EXCEPT ![p] = \E r \in Reasons : pending[p][r] # 0]
             /\ UNCHANGED <<reqRevision, pending, failures>>
    BY DEF PutProject
<1> HIDE DEF last
<1>3. CASE ImportsLegacy(p, incoming)
  <2>1. imported \in Nat /\ imported > Issued(p) /\ imported # 0 /\ imported > last
    BY <1>1, <1>3, ImportAbove, NextRevisionAbove DEF ImportsLegacy
  <2>2. imported \in Revisions
    BY <1>2, <1>3, <2>1, BoundAssumption DEF Revisions
  <2> HIDE DEF imported
  <2>3. pend \in [Reasons -> Revisions] /\ pend[Unknown] = imported
        /\ \A r \in Reasons : r # Unknown => pend[r] = 0
    BY <2>2, PendingTypes, UnknownAssumption DEF NoPending
  <2> HIDE DEF pend
  <2>4. Max2(sequence', imported) = imported /\ sequence' >= sequence
        /\ imported >= Issued(p)
    BY <1>1, <1>2, <1>3, <2>1 DEF Max2
  <2>5. \A q \in Projects : q # p => failures'[q] = failures[q]
    BY <1>2, <1>3 DEF Fail, TypeOK
  <2>6. \A r \in Reasons : /\ pend[r] <= Max2(sequence', imported)
                           /\ pend[r] = 0 \/ pend[r] > Issued(p)
    BY <2>1, <2>3, <2>4
  <2> QED
    BY <1>2, <1>3, <2>1, <2>2, <2>3, <2>4, <2>5, <2>6, WriteRequirementsMoves
<1>4. CASE ~ImportsLegacy(p, incoming)
  <2> SUFFICES ASSUME NEW q \in Projects PROVE RequirementMoves(q)
    OBVIOUS
  <2>1. q # p => flag'[q] = flag[q]
    BY <1>2, <1>4 DEF TypeOK
  <2>2. reqRevision[p] = 0 => ~flag[p] /\ ~flag'[p]
    <3>1. reqRevision[p] = 0 => ~flag[p] /\ pending[p] = NoPending
      BY <1>4 DEF ImportsLegacy, Settled
    <3>2. flag'[p] = \E r \in Reasons : pending[p][r] # 0
      BY <1>2, <1>4 DEF TypeOK
    <3> QED
      BY <3>1, <3>2 DEF NoPending
  <2>3. PendingView(q)' = PendingView(q) /\ ReqRevisionView(q)' = ReqRevisionView(q)
    BY <1>2, <1>4, <2>1, <2>2 DEF PendingView, ReqRevisionView
  <2> QED
    BY <1>1, <1>2, <1>4, <2>3, RequirementOthers
<1> QED
    BY <1>3, <1>4

\* clear_pending_on_delete: what it draws is above everything issued.
LEMMA DeletedAbove ==
    ASSUME TypeOK, NEW p \in Projects, ClearPendingOnDelete(p)
    PROVE  /\ reqRevision[p] # 0 \/ flag[p] =>
                 /\ sequence' = DeletedRevision(p) /\ DeletedRevision(p) \in Revisions
                 /\ DeletedRevision(p) # 0 /\ DeletedRevision(p) > Issued(p)
           /\ ~(reqRevision[p] # 0 \/ flag[p]) =>
                 sequence' = sequence /\ Issued(p) = sequence
<1>1. sequence \in Nat /\ Issued(p) \in Nat
    BY IssuedNat
<1>2. ASSUME reqRevision[p] # 0 \/ flag[p]
      PROVE  /\ sequence' = DeletedRevision(p) /\ DeletedRevision(p) \in Revisions
             /\ DeletedRevision(p) # 0 /\ DeletedRevision(p) > Issued(p)
  <2>1. ImportsLegacy(p, FALSE) \/ reqRevision[p] # 0 \/ ~flag[p]
    BY DEF ImportsLegacy
  <2>2. DeletedRevision(p) # 0 /\ DeletedRevision(p) > Issued(p)
    BY <2>1, RecordedAbove DEF DeletedRevision
  <2> QED
    BY <1>2, <2>2, ClearPendingOnDeleteEffect DEF ClearPendingOnDelete
<1>3. ASSUME ~(reqRevision[p] # 0 \/ flag[p])
      PROVE  sequence' = sequence /\ Issued(p) = sequence
    BY <1>1, <1>3 DEF ClearPendingOnDelete, Issued, ReqRevisionView, Max2
<1> QED
    BY <1>2, <1>3

\* delete_project: nothing stays pending, under a revision of its own.
LEMMA DeleteProjectMoves ==
    ASSUME TypeOK, TypeOK', Settled, NEW p \in Projects, DeleteProject(p)
    PROVE  \A q \in Projects : RequirementMoves(q)
<1>1. /\ sequence \in Nat /\ Issued(p) \in Nat /\ Issued(p) >= sequence
      /\ ClearPendingOnDelete(p) /\ UNCHANGED failures
    BY IssuedNat DEF DeleteProject
<1>2. CASE reqRevision[p] # 0 \/ flag[p]
  <2> DEFINE n == DeletedRevision(p)
  <2>1. WriteRequirements(p, n, NoPending)
    BY <1>2 DEF DeleteProject
  <2>2. sequence' = n /\ n \in Revisions /\ n # 0 /\ n > Issued(p) /\ n \in Nat
    BY <1>1, <1>2, DeletedAbove, BoundAssumption DEF Revisions
  <2> HIDE DEF n
  <2>3. sequence' >= sequence /\ Max2(sequence', n) = n /\ n >= Issued(p)
    BY <1>1, <2>2 DEF Max2
  <2>4. \A r \in Reasons : NoPending[r] = 0 /\ NoPending[r] <= Max2(sequence', n)
    BY <2>2, <2>3 DEF NoPending
  <2> QED
    BY <1>1, <2>1, <2>2, <2>3, <2>4, PendingTypes, WriteRequirementsMoves
<1>3. CASE ~(reqRevision[p] # 0 \/ flag[p])
  <2>1. UNCHANGED <<flag, reqRevision, pending>> /\ sequence' >= sequence
    BY <1>1, <1>3, DeletedAbove DEF DeleteProject
  <2> QED
    BY <1>1, <2>1, RequirementsKept DEF requirements
<1> QED
    BY <1>2, <1>3

\* delete_all_for_project: the map goes; the sequence remembers what it issued.
LEMMA DeleteAllForProjectMoves ==
    ASSUME TypeOK, TypeOK', Settled, NEW p \in Projects, DeleteAllForProject(p)
    PROVE  \A q \in Projects : RequirementMoves(q)
<1>1. /\ sequence \in Nat /\ Issued(p) \in Nat /\ Issued(p) >= sequence
      /\ sequence' \in Nat
      /\ ClearPendingOnDelete(p) /\ UNCHANGED failures
      /\ WriteRequirements(p, 0, NoPending)
    BY IssuedNat, BoundAssumption DEF DeleteAllForProject, TypeOK, Revisions
<1>2. sequence' >= Issued(p) /\ sequence' >= sequence
    BY <1>1, DeletedAbove
<1> SUFFICES ASSUME NEW q \in Projects PROVE RequirementMoves(q)
    OBVIOUS
<1>3. CASE q # p
  <2>1. /\ reqRevision'[q] = reqRevision[q] /\ pending'[q] = pending[q]
        /\ flag'[q] = flag[q]
    BY <1>1, <1>3 DEF WriteRequirements, TypeOK
  <2>2. PendingView(q)' = PendingView(q) /\ ReqRevisionView(q)' = ReqRevisionView(q)
    BY <2>1 DEF PendingView, ReqRevisionView
  <2> QED
    BY <1>1, <1>2, <2>1, <2>2, RequirementOthers
<1>4. CASE q = p
  <2>1. reqRevision'[p] = 0 /\ pending'[p] = NoPending /\ ~flag'[p]
    BY <1>1 DEF WriteRequirements, TypeOK, NoPending
  <2>2. PendingView(p)' = NoPending /\ Issued(p)' = sequence'
    BY <1>1, <2>1 DEF PendingView, Issued, ReqRevisionView, Max2
  <2>3. \A r \in Reasons : NoPending[r] = 0
    BY DEF NoPending
  <2> QED
    BY <1>1, <1>2, <1>4, <2>1, <2>2, <2>3 DEF RequirementMoves
<1> QED
    BY <1>3, <1>4

\* A pending reason is in a stored map or is a legacy flag.
LEMMA PendingStored ==
    ASSUME TypeOK, NEW p \in Projects, PendingView(p) # NoPending
    PROVE  ReqRevisionView(p) # 0
BY DEF PendingView, ReqRevisionView

\* settle_reindex_requirement and clear_reindex_required: some reasons go, the
\* others and the map's revision stay.
LEMMA SettlementMoves ==
    ASSUME TypeOK, TypeOK', Settled, NEW p \in Projects,
           PendingView(p) # NoPending, NEW pend \in [Reasons -> Revisions],
           \A r \in Reasons : pend[r] = PendingView(p)[r] \/ pend[r] = 0,
           WriteRequirements(p, ReqRevisionView(p), pend),
           UNCHANGED <<sequence, failures>>
    PROVE  \A q \in Projects : RequirementMoves(q)
<1>1. /\ Issued(p) \in Nat /\ sequence \in Nat
      /\ \A r \in Reasons : PendingView(p)[r] <= Issued(p)
    BY IssuedNat DEF Settled
<1>2. Max2(sequence', ReqRevisionView(p)) = Issued(p)
    BY DEF Issued
<1>3. ReqRevisionView(p) \in Revisions /\ ReqRevisionView(p) # 0
    BY PendingViewType, PendingStored
<1>4. \A r \in Reasons :
        /\ pend[r] <= Max2(sequence', ReqRevisionView(p))
        /\ \/ pend[r] = PendingView(p)[r] /\ failures'[p][r] = failures[p][r]
           \/ pend[r] = 0
    BY <1>1, <1>2
<1>5. sequence' >= sequence /\ Max2(sequence', ReqRevisionView(p)) >= Issued(p)
    BY <1>1, <1>2
<1> QED
    BY <1>3, <1>4, <1>5, WriteRequirementsMoves

\* begin_reindex_repair of a pending reason, importing it if need be.
LEMMA ResumeReindexRepairMoves ==
    ASSUME TypeOK, TypeOK', Settled, NEW w \in Workers, NEW p \in Projects,
           NEW r \in Reasons, ResumeReindexRepair(w, p, r)
    PROVE  /\ \A q \in Projects : RequirementMoves(q)
           /\ PendingView(p)'[r] = ImportedPending(p)[r]
<1>1. sequence \in Nat /\ Issued(p) \in Nat /\ UNCHANGED failures
    BY IssuedNat DEF ResumeReindexRepair, history
<1>2. CASE ImportsLegacy(p, FALSE)
  <2> DEFINE n == NextRevision(sequence, 1)
             pend == ImportedPending(p)
  <2>1. n <= MaxRevision /\ sequence' = n /\ WriteRequirements(p, n, pend)
    BY <1>2 DEF ResumeReindexRepair
  <2>2. n \in Nat /\ n > Issued(p) /\ n # 0 /\ n > sequence
    <3>1. reqRevision[p] = 0 /\ sequence >= sequence
      BY <1>1, <1>2 DEF ImportsLegacy
    <3>2. n \in Nat /\ n > Issued(p) /\ n # 0
      BY <1>1, <3>1, ImportAbove
    <3> QED
      BY <1>1, <3>2, NextRevisionAbove
  <2>3. n \in Revisions
    BY <2>1, <2>2, BoundAssumption DEF Revisions
  <2>4. pend = [NoPending EXCEPT ![Unknown] = n]
    BY <1>2 DEF ImportedPending
  <2> HIDE DEF n, pend
  <2>5. pend \in [Reasons -> Revisions] /\ pend[Unknown] = n
        /\ \A s \in Reasons : s # Unknown => pend[s] = 0
    BY <2>3, <2>4, PendingTypes, UnknownAssumption DEF NoPending
  <2>6. Max2(sequence', n) = n /\ sequence' >= sequence /\ n >= Issued(p)
    BY <1>1, <2>1, <2>2 DEF Max2
  <2>7. \A s \in Reasons : /\ pend[s] <= Max2(sequence', n)
                           /\ pend[s] = 0 \/ pend[s] > Issued(p)
    BY <2>2, <2>5, <2>6
  <2>8. \A q \in Projects : RequirementMoves(q)
    <3>1. /\ \A q \in Projects : q # p => failures'[q] = failures[q]
          /\ Max2(sequence', n) >= Issued(p)
      BY <1>1, <2>6
    <3> QED
      BY <2>1, <2>2, <2>3, <2>5, <2>6, <2>7, <3>1, WriteRequirementsMoves
  <2>9. PendingView(p)' = pend
    BY <2>1, <2>2 DEF PendingView, WriteRequirements, TypeOK
  <2> QED
    BY <2>8, <2>9 DEF pend
<1>3. CASE ~ImportsLegacy(p, FALSE)
  <2>1. UNCHANGED <<sequence, requirements>>
    BY <1>3 DEF ResumeReindexRepair
  <2>2. \A q \in Projects : RequirementMoves(q)
    BY <1>1, <2>1, RequirementsKept
  <2>3. PendingView(p)' = PendingView(p) /\ PendingView(p) = ImportedPending(p)
    BY <1>3, <2>1
       DEF PendingView, ImportedPending, ImportsLegacy, Settled, requirements
  <2> QED
    BY <2>2, <2>3
<1> QED
    BY <1>2, <1>3

\* A requirement token handed out by this step.
LEMMA RequirementTokenHeld ==
    ASSUME TypeOK, NEW w \in Workers, NEW p \in Projects, NEW r \in Reasons,
           NEW v \in Revisions, v # 0, v = PendingView(p)'[r],
           \/ /\ Hold(w, RequirementToken(p, r, v))
              /\ failures'[p][r] = failures[p][r]
           \/ /\ Hold(w, [RequirementToken(p, r, v) EXCEPT !.seen = @ + 1])
              /\ failures'[p][r] = failures[p][r] + 1
    PROVE  \A x \in Workers : RequirementHeld(x)
<1> DEFINE t == RequirementToken(p, r, v)
           u == [t EXCEPT !.seen = @ + 1]
<1>1. /\ t \in TokenType /\ t.project = p /\ t.reason = r /\ t.revision = v
      /\ t.seen = failures[p][r]
    BY NoTokenType, RequirementTokenType DEF RequirementToken, TokenType
<1> HIDE DEF t
<1>2. /\ token'[w].project = p /\ token'[w].reason = r /\ token'[w].revision = v
      /\ token'[w].seen = failures'[p][r]
  <2>1. u.project = p /\ u.reason = r /\ u.revision = v /\ u.seen = t.seen + 1
    BY <1>1 DEF TokenType
  <2> HIDE DEF u
  <2>2. \/ token'[w] = t /\ failures'[p][r] = failures[p][r]
        \/ token'[w] = u /\ failures'[p][r] = failures[p][r] + 1
    BY DEF Hold, TypeOK, t, u
  <2> QED
    BY <1>1, <2>1, <2>2
<1>3. \A x \in Workers : x # w => token'[x] = token[x]
    BY DEF Hold, TypeOK
<1>4. RequirementHeld(w)
    BY <1>2 DEF RequirementHeld
<1> QED
    BY <1>3, <1>4 DEF RequirementHeld

\* A token that is no requirement.
LEMMA OtherTokenHeld ==
    ASSUME TypeOK, NEW w \in Workers, NEW u, Hold(w, u), u.kind # "requirement"
    PROVE  \A x \in Workers : RequirementHeld(x)
<1>1. token'[w] = u /\ \A x \in Workers : x # w => token'[x] = token[x]
    BY DEF Hold, TypeOK
<1> QED
    BY <1>1 DEF RequirementHeld

\* Every action keeps settlement exact.
LEMMA NextSettled == IInv /\ Settled /\ [Next]_vars => Settled'
<1>0. ASSUME Settled, UNCHANGED vars PROVE Settled'
  <2>1. /\ UNCHANGED <<flag, reqRevision, pending, sequence, token, failures>>
        /\ \A p : PendingView(p)' = PendingView(p) /\ Issued(p)' = Issued(p)
    BY <1>0 DEF vars, requirements, history, PendingView, Issued, ReqRevisionView
  <2> QED
    BY <1>0, <2>1 DEF Settled, vars, requirements, history, PendingView, Issued,
                      ReqRevisionView
<1> SUFFICES ASSUME IInv, Settled, Next PROVE RequirementsStep
  <2>1. IInv /\ Next => TypeOK /\ TypeOK'
    BY NextIInv DEF IInv
  <2> QED
    BY <1>0, <2>1, RequirementsStepSettled
<1> DEFINE Projected == \A p \in Projects : RequirementMoves(p)
           Handed == \A w \in Workers : RequirementHeld(w)
<1> SUFFICES Projected /\ Handed
    BY DEF RequirementsStep
<1>1. TypeOK /\ TypeOK' /\ sequence' >= sequence
    BY NextIInv, SequenceGrows DEF IInv
<1>2. ASSUME UNCHANGED token PROVE Handed
    BY <1>2 DEF RequirementHeld
<1>3. ASSUME NEW w \in Workers, Hold(w, NoToken) PROVE Handed
    BY <1>1, <1>3, NoTokenType, OtherTokenHeld
<1>4. ASSUME UNCHANGED <<requirements, failures>> PROVE Projected
    BY <1>1, <1>4, RequirementsKept
<1>5. ASSUME NEW p \in Projects, NEW i \in Identities, NEW b \in BOOLEAN,
             PutProject(p, i, b)
      PROVE  Projected /\ Handed
    BY <1>1, <1>2, <1>5, PutProjectMoves DEF PutProject
<1>6. CASE LifecycleStep
  <2>1. ASSUME NEW p \in Projects, NEW i \in Identities, RegisterSourceProject(p, i)
        PROVE  Projected /\ Handed
    <3> SUFFICES Projected
      BY <1>2, <2>1 DEF RegisterSourceProject
    <3>1. /\ flag' = [flag EXCEPT ![p] = FALSE] /\ sequence' = FreshEpoch(p)
          /\ UNCHANGED <<reqRevision, pending, failures>>
      BY <2>1 DEF RegisterSourceProject
    <3> SUFFICES ASSUME NEW q \in Projects PROVE RequirementMoves(q)
      OBVIOUS
    <3>2. CASE q # p \/ reqRevision[q] # 0
      <4>1. PendingView(q)' = PendingView(q) /\ ReqRevisionView(q)' = ReqRevisionView(q)
        BY <1>1, <3>1, <3>2 DEF PendingView, ReqRevisionView, TypeOK
      <4> QED
        BY <1>1, <3>1, <4>1, RequirementOthers
    <3>3. CASE q = p /\ reqRevision[q] = 0
      <4>1. /\ PendingView(p)' = NoPending /\ ReqRevisionView(p)' = 0
            /\ pending[p] = NoPending
        BY <1>1, <3>1, <3>3 DEF PendingView, ReqRevisionView, TypeOK, Settled
      <4>2. /\ sequence \in Nat /\ AdvancedRevision(p) \in Nat
            /\ AdvancedRevision(p) > sequence
            /\ FreshEpoch(p) \in Nat /\ FreshEpoch(p) > AdvancedRevision(p)
            /\ (ReqRevisionView(p) = 0 \/ ReqRevisionView(p) = 1)
        BY <1>1, <3>3, Numbers, AdvancedAbove, FreshEpochAbove DEF ReqRevisionView
      <4>3. Issued(p)' = FreshEpoch(p) /\ FreshEpoch(p) >= Issued(p)
        BY <3>1, <4>1, <4>2 DEF Issued, Max2
      <4>4. \A r \in Reasons : NoPending[r] = 0
        BY DEF NoPending
      <4> QED
        BY <3>1, <3>3, <4>1, <4>2, <4>3, <4>4 DEF RequirementMoves
    <3> QED
      BY <3>2, <3>3
  <2>2. ASSUME NEW p \in Projects, DeleteProject(p)
        PROVE  Projected /\ Handed
    BY <1>1, <1>2, <2>2, DeleteProjectMoves DEF DeleteProject
  <2>3. ASSUME NEW p \in Projects, DeleteAllForProject(p)
        PROVE  Projected /\ Handed
    BY <1>1, <1>2, <2>3, DeleteAllForProjectMoves DEF DeleteAllForProject
  <2> HIDE DEF Projected, Handed
  <2> QED
    BY <1>5, <1>6, <2>1, <2>2, <2>3 DEF LifecycleStep
<1>7. CASE HeadStep
  <2>1. ASSUME NEW w \in Workers, NEW p \in Projects, CaptureSourceHead(w, p)
        PROVE  Projected /\ Handed
    <3>1. PICK u : Hold(w, u) /\ u.kind = "head"
      BY <2>1 DEF CaptureSourceHead, SourceToken
    <3> QED
      BY <1>1, <1>4, <2>1, <3>1, OtherTokenHeld DEF CaptureSourceHead, history
  <2>2. ASSUME NEW p, NEW h, SetHeadMeta(p, h)
        PROVE  Projected /\ Handed
    BY <1>2, <1>4, <2>2 DEF SetHeadMeta
  <2>4. ASSUME NEW w,
               AttestUnchangedSourceIdentity(w) \/ AttestLegacySourceHead(w)
        PROVE  Projected /\ Handed
    BY <1>2, <1>4, <2>4
       DEF AttestUnchangedSourceIdentity, AttestLegacySourceHead, history
  <2>3. ASSUME NEW w \in Workers, NEW g, PublishSourceHead(w, g)
        PROVE  Projected /\ Handed
    BY <1>3, <1>4, <2>3 DEF PublishSourceHead
  <2> HIDE DEF Projected, Handed
  <2> QED
    BY <1>7, <2>1, <2>2, <2>3, <2>4 DEF HeadStep
<1>8. CASE RecoveryStep
  <2>1. ASSUME NEW w \in Workers, NEW p \in Projects, CaptureSourceRecovery(w, p)
        PROVE  Projected /\ Handed
    <3>1. PICK u : Hold(w, u) /\ u.kind = "recovery"
      BY <2>1 DEF CaptureSourceRecovery, SourceToken
    <3> QED
      BY <1>1, <1>4, <2>1, <3>1, OtherTokenHeld DEF CaptureSourceRecovery, history
  <2>2. ASSUME NEW w \in Workers, NEW g, ReserveSourceRecovery(w, g)
        PROVE  Projected /\ Handed
    <3> DEFINE n == NextRevision(sequence, RecoveryFloor(token[w], g))
               u == [token[w] EXCEPT !.kind = "reserved", !.generation = n]
    <3>1. token[w] \in TokenType /\ Hold(w, u) /\ UNCHANGED <<requirements, failures>>
      BY <1>1, <2>2 DEF TypeOK, ReserveSourceRecovery, history
    <3> HIDE DEF n
    <3>2. u.kind # "requirement"
      BY <3>1 DEF TokenType
    <3> HIDE DEF u
    <3> QED
      BY <1>1, <1>4, <3>1, <3>2, OtherTokenHeld
  <2>3. ASSUME NEW w \in Workers, PublishSourceRecovery(w)
        PROVE  Projected /\ Handed
    BY <1>3, <1>4, <2>3 DEF PublishSourceRecovery
  <2> HIDE DEF Projected, Handed
  <2> QED
    BY <1>8, <2>1, <2>2, <2>3 DEF RecoveryStep
<1>9. CASE RequirementStep
  <2>1. ASSUME NEW p \in Projects, NEW r \in Reasons, RequireReindex(p, r)
        PROVE  Projected /\ Handed
    BY <1>1, <1>2, <2>1, RecordRequirementMoves DEF RequireReindex
  <2>2. ASSUME NEW w \in Workers, NEW p \in Projects, NEW r \in Reasons,
               BeginReindexRepair(w, p, r)
        PROVE  Projected /\ Handed
    <3>1. RecordRequirement(p, r)
          /\ Hold(w, [RequirementToken(p, r, RecordedRevision(p)) EXCEPT !.seen = @ + 1])
      BY <2>2 DEF BeginReindexRepair
    <3>2. /\ Projected /\ RecordedRevision(p) # 0
          /\ PendingView(p)'[r] = RecordedRevision(p)
          /\ failures'[p][r] = failures[p][r] + 1
          /\ RecordedRevision(p) \in Revisions
      BY <1>1, <3>1, RecordRequirementMoves, RecordRequirementEffect
    <3> QED
      BY <1>1, <3>1, <3>2, RequirementTokenHeld
  <2>3. ASSUME NEW w \in Workers, NEW p \in Projects, NEW r \in Reasons,
               ResumeReindexRepair(w, p, r)
        PROVE  Projected /\ Handed
    <3>1. /\ Hold(w, RequirementToken(p, r, ImportedPending(p)[r]))
          /\ ImportedPending(p)[r] # 0 /\ failures'[p][r] = failures[p][r]
      BY <2>3 DEF ResumeReindexRepair, history
    <3>2. /\ Projected /\ ImportedPending(p)[r] \in Revisions
          /\ PendingView(p)'[r] = ImportedPending(p)[r]
      BY <1>1, <2>3, ResumeReindexRepairMoves, ResumeReindexRepairEffect
    <3> QED
      BY <1>1, <3>1, <3>2, RequirementTokenHeld
  <2>4. ASSUME NEW w \in Workers, NEW p \in Projects, NEW r \in Reasons,
               ReindexRequirementToken(w, p, r)
        PROVE  Projected /\ Handed
    <3>1. /\ Hold(w, RequirementToken(p, r, PendingView(p)[r]))
          /\ PendingView(p)[r] # 0 /\ UNCHANGED <<requirements, failures>>
      BY <2>4 DEF ReindexRequirementToken, history
    <3>2. PendingView(p)'[r] = PendingView(p)[r] /\ PendingView(p)[r] \in Revisions
      BY <1>1, <3>1, PendingViewType DEF PendingView, requirements
    <3> QED
      BY <1>1, <1>4, <3>1, <3>2, RequirementTokenHeld
  <2>5. ASSUME NEW p \in Projects, DismissReindexRequirements(p)
        PROVE  Projected /\ Handed
    <3>1. \A r \in Reasons : NoPending[r] = 0
      BY DEF NoPending
    <3> QED
      BY <1>1, <1>2, <2>5, <3>1, PendingTypes, SettlementMoves
         DEF DismissReindexRequirements, history
  <2>6. ASSUME NEW w \in Workers, SettleReindexRequirement(w)
        PROVE  Projected /\ Handed
    <3> DEFINE p == token[w].project
               r == token[w].reason
               pend == [PendingView(p) EXCEPT ![r] = 0]
    <3>1. /\ p \in Projects /\ r \in Reasons /\ RequirementMatches(token[w])
          /\ WriteRequirements(p, ReqRevisionView(p), pend) /\ Hold(w, NoToken)
          /\ UNCHANGED <<sequence, failures>>
      BY <1>1, <2>6 DEF SettleReindexRequirement, TypeOK, TokenType, history
    <3>2. PendingView(p)[r] # 0
      BY <3>1 DEF RequirementMatches
    <3> HIDE DEF p, r
    <3>3. PendingView(p) # NoPending
      BY <3>1, <3>2 DEF NoPending
    <3>4. /\ pend \in [Reasons -> Revisions]
          /\ \A s \in Reasons : pend[s] = PendingView(p)[s] \/ pend[s] = 0
      <4>1. 0 \in Revisions
        BY BoundAssumption DEF Revisions
      <4> QED
        BY <1>1, <3>1, <4>1, PendingViewType
    <3> HIDE DEF pend
    <3> QED
      BY <1>1, <1>3, <3>1, <3>3, <3>4, SettlementMoves
  <2> HIDE DEF Projected, Handed
  <2> QED
    BY <1>5, <1>9, <2>1, <2>2, <2>3, <2>4, <2>5, <2>6 DEF RequirementStep
<1>10. CASE EnvironmentStep
  <2> HIDE DEF Projected, Handed
  <2> QED
    BY <1>2, <1>3, <1>4, <1>10
       DEF EnvironmentStep, Abandon, DamageHead, LoseManagedMarker, history
<1> HIDE DEF Projected, Handed
<1> QED
    BY <1>6, <1>7, <1>8, <1>9, <1>10 DEF Next

\* A repair that finishes acknowledges the failures it knew of and no other,
\* whatever was recorded, dismissed, deleted or imported while it ran.
THEOREM ExactSettlement == Spec => []SettlementNamesFailure
<1>1. Init => Settled
  <2> SUFFICES ASSUME Init PROVE Settled
    OBVIOUS
  <2>1. \A p \in Projects : reqRevision[p] = 0 /\ pending[p] = NoPending
    BY DEF Init
  <2>2. TypeOK
    BY InitIInv DEF IInv
  <2>3. ASSUME NEW p \in Projects, NEW r \in Reasons
        PROVE  PendingView(p)[r] <= Issued(p)
    <3>1. PendingView(p)[r] <= ReqRevisionView(p)
      BY <2>1 DEF PendingView, ReqRevisionView, NoPending
    <3> QED
      BY <2>2, <3>1, IssuedNat
  <2> QED
    BY <2>1, <2>3, NoTokenType DEF Settled, Init
<1>2. Settled => SettlementNamesFailure
    BY DEF Settled, SettlementNamesFailure, RequirementMatches
<1> QED
    BY <1>1, <1>2, NextSettled, Invariance, PTL DEF Spec
=============================================================================
