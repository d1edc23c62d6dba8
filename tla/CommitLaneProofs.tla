-------------------------- MODULE CommitLaneProofs --------------------------
(***************************************************************************)
(* The proof that every payload write stays inside the commit lane, for    *)
(* any number of tasks and any mix of flows.                               *)
(*                                                                         *)
(* PayloadUnderLane is not inductive: whether a task that takes the writer *)
(* owns the lane depends on the steps it has taken, and only those left    *)
(* are in the state.  IInv says of the steps left what their order in the  *)
(* code guarantees: a payload step comes after a "lane" with no "release"  *)
(* between, or the task holds its Guard (Covered), and a writer is         *)
(* finished before the Guard of its operation is released (Closed, Ends).  *)
(***************************************************************************)
EXTENDS CommitLane, TLAPS

Word ==
    {"lock", "trylock", "admit", "lane", "boot", "table", "native", "writer", "commit",
     "erase", "release", "unlock"}
Payload == {"writer", "native", "commit", "erase"}
Closes  == {"commit", "erase"}

\* Every payload step left of task t is under a Guard, held or yet to come.
Covered(s, t, holders) ==
    \A j \in 1..Len(s) : s[j] \in Payload =>
        \/ \E l \in 1..j : s[l] = "lane" /\ \A m \in l..j : s[m] # "release"
        \/ t \in holders /\ \A m \in 1..j : s[m] # "release"

\* Every writer still to be taken is finished before the next release.
Closed(s) ==
    \A i \in 1..Len(s) : s[i] = "writer" =>
        \E j \in (i + 1)..Len(s) : s[j] \in Closes /\ \A m \in i..j : s[m] # "release"

\* The writer in hand is finished before the next release.
Ends(s) ==
    \E j \in 1..Len(s) : s[j] \in Closes /\ \A m \in 1..j : s[m] # "release"

Typed ==
    /\ setting \in Settings
    /\ pc \in [Tasks -> Seq(Word)]
    /\ worker \in [Tasks -> {"none", "check", "create", "native", "ok", "failed"}]
    /\ guard \subseteq Tasks
    /\ lane \in Seq(Tasks)
    /\ writer \in Tasks \cup {NoTask}

\* The Guard and the delegated share keep the lane; the writer needs the Guard.
Held(t) ==
    /\ t \in guard \/ worker[t] = "native" => Owns(t, lane)
    /\ writer = t => t \in guard

\* What the order of the steps left guarantees.
Flowing(t) ==
    /\ Covered(pc[t], t, guard)
    /\ Closed(pc[t])
    /\ writer = t => Ends(pc[t])

\* A request awaits its worker at the step that started it.
Tied(t) ==
    /\ t \notin unwinding /\ pc[t] # <<>> /\ worker[t] # "none" => Head(pc[t]) \in {"table", "native"}
    /\ t \notin unwinding /\ pc[t] # <<>> /\ worker[t] = "native" => Head(pc[t]) = "native"
    /\ worker[t] \in {"ok", "failed"} => t \notin unwinding /\ pc[t] # <<>>

Kept(t) == Held(t) /\ Flowing(t) /\ Tied(t)

IInv == Typed /\ \A t \in Tasks : Kept(t)

-----------------------------------------------------------------------------
(* Sequences of steps.                                                     *)

\* Head and Tail by positions.
LEMMA TailFacts ==
    ASSUME NEW s \in Seq(Word), s # <<>>
    PROVE  /\ Len(s) \in Nat /\ Len(s) >= 1
           /\ Tail(s) \in Seq(Word)
           /\ Len(Tail(s)) = Len(s) - 1
           /\ \A i \in 1..(Len(s) - 1) : Tail(s)[i] = s[i + 1]
           /\ Head(s) = s[1]
    OBVIOUS

\* Taking a step that is neither "lane" nor "release" keeps the cover.
LEMMA CoveredStep ==
    ASSUME NEW s \in Seq(Word), s # <<>>, NEW t, NEW g, NEW h,
           Covered(s, t, g),
           \/ Head(s) \notin {"lane", "release"} /\ (t \in g => t \in h)
           \/ Head(s) = "lane" /\ t \in h
           \/ Head(s) = "release"
    PROVE  Covered(Tail(s), t, h)
  <1>f. /\ Len(s) \in Nat /\ Len(s) >= 1
        /\ Len(Tail(s)) = Len(s) - 1
        /\ \A i \in 1..(Len(s) - 1) : Tail(s)[i] = s[i + 1]
        /\ Head(s) = s[1]
    BY TailFacts
  <1> SUFFICES ASSUME NEW j \in 1..Len(Tail(s)), Tail(s)[j] \in Payload
               PROVE  \/ \E l \in 1..j : Tail(s)[l] = "lane" /\ \A m \in l..j : Tail(s)[m] # "release"
                      \/ t \in h /\ \A m \in 1..j : Tail(s)[m] # "release"
    BY DEF Covered
  <1>1. j + 1 \in 1..Len(s) /\ s[j + 1] \in Payload
    BY <1>f
  <1>2. \/ \E l \in 1..(j + 1) : s[l] = "lane" /\ \A m \in l..(j + 1) : s[m] # "release"
        \/ t \in g /\ \A m \in 1..(j + 1) : s[m] # "release"
    BY <1>1 DEF Covered
  <1>3. ASSUME \A m \in 1..(j + 1) : s[m] # "release"
        PROVE  \A m \in 1..j : Tail(s)[m] # "release"
    BY <1>3, <1>f
  <1>4. CASE \E l \in 1..(j + 1) : s[l] = "lane" /\ \A m \in l..(j + 1) : s[m] # "release"
    <2>1. PICK l \in 1..(j + 1) : s[l] = "lane" /\ \A m \in l..(j + 1) : s[m] # "release"
      BY <1>4
    <2>2. CASE l = 1
      <3>1. t \in h
        BY <2>1, <2>2, <1>f
      <3>2. \A m \in 1..(j + 1) : s[m] # "release"
        BY <2>1, <2>2
      <3> QED
        BY <3>1, <3>2, <1>3
    <2>3. CASE l # 1
      <3>1. l - 1 \in 1..j /\ Tail(s)[l - 1] = "lane"
        BY <2>1, <2>3, <1>f
      <3>2. \A m \in (l - 1)..j : Tail(s)[m] # "release"
        <4> TAKE m \in (l - 1)..j
        <4>1. m + 1 \in l..(j + 1) /\ m \in 1..(Len(s) - 1)
          BY <2>3, <1>f
        <4> QED
          BY <4>1, <2>1, <1>f
      <3> QED
        BY <3>1, <3>2
    <2> QED
      BY <2>2, <2>3
  <1>5. CASE t \in g /\ \A m \in 1..(j + 1) : s[m] # "release"
    <2>1. Head(s) # "release"
      BY <1>5, <1>f
    <2> QED
      BY <2>1, <1>5, <1>3
  <1> QED
    BY <1>2, <1>4, <1>5

\* A payload step at the head means that the Guard is held.
LEMMA CoveredHead ==
    ASSUME NEW s \in Seq(Word), s # <<>>, NEW t, NEW g,
           Covered(s, t, g), Head(s) \in Payload
    PROVE  t \in g
  <1>1. Len(s) \in Nat /\ Len(s) >= 1 /\ Head(s) = s[1]
    BY TailFacts
  <1>2. \A l \in 1..1 : s[l] # "lane"
    BY <1>1 DEF Payload
  <1> QED
    BY <1>1, <1>2 DEF Covered

\* The writers still to be taken stay finished in time.
LEMMA ClosedStep ==
    ASSUME NEW s \in Seq(Word), s # <<>>, Closed(s)
    PROVE  Closed(Tail(s))
  <1>f. /\ Len(s) \in Nat /\ Len(s) >= 1
        /\ Len(Tail(s)) = Len(s) - 1
        /\ \A i \in 1..(Len(s) - 1) : Tail(s)[i] = s[i + 1]
    BY TailFacts
  <1> SUFFICES ASSUME NEW i \in 1..Len(Tail(s)), Tail(s)[i] = "writer"
               PROVE  \E j \in (i + 1)..Len(Tail(s)) :
                          Tail(s)[j] \in Closes /\ \A m \in i..j : Tail(s)[m] # "release"
    BY DEF Closed
  <1>1. i + 1 \in 1..Len(s) /\ s[i + 1] = "writer"
    BY <1>f
  <1>2. PICK j \in (i + 2)..Len(s) : s[j] \in Closes /\ \A m \in (i + 1)..j : s[m] # "release"
    BY <1>1 DEF Closed
  <1>3. j - 1 \in (i + 1)..Len(Tail(s)) /\ Tail(s)[j - 1] \in Closes
    BY <1>2, <1>f
  <1>4. \A m \in i..(j - 1) : Tail(s)[m] # "release"
    <2> TAKE m \in i..(j - 1)
    <2>1. m + 1 \in (i + 1)..j /\ m \in 1..(Len(s) - 1)
      BY <1>f
    <2> QED
      BY <2>1, <1>2, <1>f
  <1> QED
    BY <1>3, <1>4

\* The writer in hand stays finished in time, up to its commit.
LEMMA EndsStep ==
    ASSUME NEW s \in Seq(Word), s # <<>>, Ends(s), Head(s) \notin Closes
    PROVE  Ends(Tail(s))
  <1>f. /\ Len(s) \in Nat /\ Len(s) >= 1
        /\ Len(Tail(s)) = Len(s) - 1
        /\ \A i \in 1..(Len(s) - 1) : Tail(s)[i] = s[i + 1]
        /\ Head(s) = s[1]
    BY TailFacts
  <1>1. PICK j \in 1..Len(s) : s[j] \in Closes /\ \A m \in 1..j : s[m] # "release"
    BY DEF Ends
  <1>2. j # 1
    BY <1>1, <1>f
  <1>3. j - 1 \in 1..Len(Tail(s)) /\ Tail(s)[j - 1] \in Closes
    BY <1>1, <1>2, <1>f
  <1>4. \A m \in 1..(j - 1) : Tail(s)[m] # "release"
    <2> TAKE m \in 1..(j - 1)
    <2>1. m + 1 \in 1..j /\ m \in 1..(Len(s) - 1)
      BY <1>f
    <2> QED
      BY <2>1, <1>1, <1>f
  <1> QED
    BY <1>3, <1>4 DEF Ends

\* The writer just taken is finished in time.
LEMMA EndsTaken ==
    ASSUME NEW s \in Seq(Word), s # <<>>, Closed(s), Head(s) = "writer"
    PROVE  Ends(Tail(s))
  <1>f. /\ Len(s) \in Nat /\ Len(s) >= 1
        /\ Len(Tail(s)) = Len(s) - 1
        /\ \A i \in 1..(Len(s) - 1) : Tail(s)[i] = s[i + 1]
        /\ Head(s) = s[1]
    BY TailFacts
  <1>1. PICK j \in 2..Len(s) : s[j] \in Closes /\ \A m \in 1..j : s[m] # "release"
    BY <1>f DEF Closed
  <1>3. j - 1 \in 1..Len(Tail(s)) /\ Tail(s)[j - 1] \in Closes
    BY <1>1, <1>f
  <1>4. \A m \in 1..(j - 1) : Tail(s)[m] # "release"
    <2> TAKE m \in 1..(j - 1)
    <2>1. m + 1 \in 1..j /\ m \in 1..(Len(s) - 1)
      BY <1>f
    <2> QED
      BY <2>1, <1>1, <1>f
  <1> QED
    BY <1>3, <1>4 DEF Ends

\* The release is never reached with a writer in hand.
LEMMA EndsHead ==
    ASSUME NEW s \in Seq(Word), Ends(s)
    PROVE  s # <<>> /\ Head(s) # "release"
  <1>1. PICK j \in 1..Len(s) : s[j] \in Closes /\ \A m \in 1..j : s[m] # "release"
    BY DEF Ends
  <1>2. s # <<>>
    BY <1>1
  <1>3. Head(s) = s[1]
    BY <1>2
  <1>4. 1 \in 1..j
    BY <1>1
  <1> QED
    BY <1>1, <1>2, <1>3, <1>4

-----------------------------------------------------------------------------
(* The flows of the code: operations one after the other.                  *)

\* What holds of the steps of a flow that has not begun.
Sane(s) == s \in Seq(Word) /\ Closed(s) /\ \A t, g : Covered(s, t, g)

\* Operations that are sane one by one are sane in sequence.
LEMMA SaneConcat ==
    ASSUME NEW s, NEW u, Sane(s), Sane(u)
    PROVE  Sane(s \o u)
  <1> DEFINE w == s \o u
  <1>f. /\ s \in Seq(Word) /\ u \in Seq(Word) /\ w \in Seq(Word)
        /\ Len(s) \in Nat /\ Len(u) \in Nat /\ Len(w) = Len(s) + Len(u)
        /\ \A i \in 1..Len(s) : w[i] = s[i]
        /\ \A i \in 1..Len(u) : w[Len(s) + i] = u[i]
    BY DEF Sane
  <1>p. \A i \in 1..Len(w) : i \in 1..Len(s) \/ i - Len(s) \in 1..Len(u)
    BY <1>f
  <1>q. \A i \in 1..Len(w) : i - Len(s) \in 1..Len(u) => w[i] = u[i - Len(s)]
    <2> SUFFICES ASSUME NEW i \in 1..Len(w), i - Len(s) \in 1..Len(u)
                 PROVE  w[i] = u[i - Len(s)]
      OBVIOUS
    <2>1. Len(s) + (i - Len(s)) = i
      BY <1>f
    <2> QED
      BY <2>1, <1>f
  <1> HIDE DEF w
  <1>1. Closed(w)
    <2> SUFFICES ASSUME NEW i \in 1..Len(w), w[i] = "writer"
                 PROVE  \E j \in (i + 1)..Len(w) : w[j] \in Closes /\ \A m \in i..j : w[m] # "release"
      BY DEF Closed
    <2>1. CASE i \in 1..Len(s)
      <3>1. PICK j \in (i + 1)..Len(s) : s[j] \in Closes /\ \A m \in i..j : s[m] # "release"
        BY <2>1, <1>f DEF Sane, Closed
      <3>2. j \in (i + 1)..Len(w) /\ w[j] \in Closes
        BY <3>1, <1>f
      <3>3. \A m \in i..j : w[m] # "release"
        <4> TAKE m \in i..j
        <4>1. m \in 1..Len(s) /\ s[m] # "release"
          BY <3>1, <2>1, <1>f
        <4> QED
          BY <4>1, <1>f
      <3> QED
        BY <3>2, <3>3
    <2>2. CASE i - Len(s) \in 1..Len(u)
      <3> DEFINE k == i - Len(s)
      <3>1. k \in 1..Len(u) /\ u[k] = "writer" /\ i = Len(s) + k
        BY <2>2, <1>q, <1>f
      <3> HIDE DEF k
      <3>2. PICK j \in (k + 1)..Len(u) : u[j] \in Closes /\ \A m \in k..j : u[m] # "release"
        BY <3>1 DEF Sane, Closed
      <3>3. Len(s) + j \in (i + 1)..Len(w) /\ w[Len(s) + j] \in Closes
        BY <3>1, <3>2, <1>f
      <3>4. \A m \in i..(Len(s) + j) : w[m] # "release"
        <4> TAKE m \in i..(Len(s) + j)
        <4>1. m - Len(s) \in k..j /\ m \in 1..Len(w) /\ m - Len(s) \in 1..Len(u)
          BY <3>1, <3>2, <1>f
        <4> QED
          BY <4>1, <3>2, <1>q
      <3> QED
        BY <3>3, <3>4
    <2> QED
      BY <2>1, <2>2, <1>p
  <1>2. ASSUME NEW t, NEW g
        PROVE  Covered(w, t, g)
    <2>0. Covered(s, t, {}) /\ Covered(u, t, {})
      BY DEF Sane
    <2> SUFFICES ASSUME NEW j \in 1..Len(w), w[j] \in Payload
                 PROVE  \E l \in 1..j : w[l] = "lane" /\ \A m \in l..j : w[m] # "release"
      BY DEF Covered
    <2>1. CASE j \in 1..Len(s)
      <3>1. PICK l \in 1..j : s[l] = "lane" /\ \A m \in l..j : s[m] # "release"
        BY <2>0, <2>1, <1>f DEF Covered
      <3>2. w[l] = "lane"
        BY <3>1, <2>1, <1>f
      <3>3. \A m \in l..j : w[m] # "release"
        <4> TAKE m \in l..j
        <4>1. m \in 1..Len(s) /\ s[m] # "release"
          BY <3>1, <2>1, <1>f
        <4> QED
          BY <4>1, <1>f
      <3> QED
        BY <3>2, <3>3
    <2>2. CASE j - Len(s) \in 1..Len(u)
      <3> DEFINE k == j - Len(s)
      <3>1. k \in 1..Len(u) /\ u[k] \in Payload /\ j = Len(s) + k
        BY <2>2, <1>q, <1>f
      <3> HIDE DEF k
      <3>2. PICK l \in 1..k : u[l] = "lane" /\ \A m \in l..k : u[m] # "release"
        BY <3>1, <2>0 DEF Covered
      <3>3. Len(s) + l \in 1..j /\ w[Len(s) + l] = "lane"
        BY <3>1, <3>2, <1>f
      <3>4. \A m \in (Len(s) + l)..j : w[m] # "release"
        <4> TAKE m \in (Len(s) + l)..j
        <4>1. m - Len(s) \in l..k /\ m \in 1..Len(w) /\ m - Len(s) \in 1..Len(u)
          BY <3>1, <3>2, <1>f
        <4> QED
          BY <4>1, <3>2, <1>q
      <3> QED
        BY <3>3, <3>4
    <2> QED
      BY <2>1, <2>2, <1>p
  <1> QED
    BY <1>1, <1>2, <1>f DEF Sane, w

\* One operation: the lane first, the writer finished before the release, the
\* release last.
LEMMA SaneOperation ==
    ASSUME NEW s \in Seq(Word), Len(s) \in Nat, Len(s) >= 1,
           s[1] = "lane",
           \A i \in 1..(Len(s) - 1) : s[i] # "release",
           s[Len(s)] = "release",
           \A i \in 1..Len(s) : s[i] = "writer" =>
               \E j \in (i + 1)..(Len(s) - 1) : s[j] \in Closes
    PROVE  Sane(s)
  <1>1. Closed(s)
    <2> SUFFICES ASSUME NEW i \in 1..Len(s), s[i] = "writer"
                 PROVE  \E j \in (i + 1)..Len(s) : s[j] \in Closes /\ \A m \in i..j : s[m] # "release"
      BY DEF Closed
    <2>1. PICK j \in (i + 1)..(Len(s) - 1) : s[j] \in Closes
      OBVIOUS
    <2>2. \A m \in i..j : m \in 1..(Len(s) - 1)
      BY <2>1
    <2> QED
      BY <2>1, <2>2
  <1>2. ASSUME NEW t, NEW g
        PROVE  Covered(s, t, g)
    <2> SUFFICES ASSUME NEW j \in 1..Len(s), s[j] \in Payload
                 PROVE  \E l \in 1..j : s[l] = "lane" /\ \A m \in l..j : s[m] # "release"
      BY DEF Covered
    <2>1. j # Len(s)
      BY DEF Payload
    <2>2. \A m \in 1..j : s[m] # "release"
      BY <2>1
    <2> QED
      BY <2>2
  <1> QED
    BY <1>1, <1>2 DEF Sane

\* The steps outside the lane.
LEMMA SanePlain ==
    /\ Sane(<<"lock", "admit">>) /\ Sane(<<"trylock", "admit">>)
    /\ Sane(<<"admit">>) /\ Sane(<<"unlock">>)
  <1>1. ASSUME NEW s \in Seq(Word), \A i \in 1..Len(s) : s[i] \notin Payload
        PROVE  Sane(s)
    BY <1>1 DEF Sane, Covered, Closed, Payload
  <1>2. Sane(<<"lock", "admit">>)
    <2> DEFINE s == <<"lock", "admit">>
    <2>1. s \in Seq(Word)
      BY DEF Word
    <2>2. Len(s) = 2 /\ s[1] = "lock" /\ s[2] = "admit"
      OBVIOUS
    <2> HIDE DEF s
    <2>3. \A i \in 1..Len(s) : s[i] \notin Payload
      BY <2>2 DEF Payload
    <2>4. Sane(s)
      BY <2>1, <2>3, <1>1
    <2> QED
      BY <2>4 DEF s
  <1>3. Sane(<<"trylock", "admit">>)
    <2> DEFINE s == <<"trylock", "admit">>
    <2>1. s \in Seq(Word)
      BY DEF Word
    <2>2. Len(s) = 2 /\ s[1] = "trylock" /\ s[2] = "admit"
      OBVIOUS
    <2> HIDE DEF s
    <2>3. \A i \in 1..Len(s) : s[i] \notin Payload
      BY <2>2 DEF Payload
    <2>4. Sane(s)
      BY <2>1, <2>3, <1>1
    <2> QED
      BY <2>4 DEF s
  <1>4. Sane(<<"admit">>)
    <2> DEFINE s == <<"admit">>
    <2>1. s \in Seq(Word)
      BY DEF Word
    <2>2. Len(s) = 1 /\ s[1] = "admit"
      OBVIOUS
    <2> HIDE DEF s
    <2>3. \A i \in 1..Len(s) : s[i] \notin Payload
      BY <2>2 DEF Payload
    <2>4. Sane(s)
      BY <2>1, <2>3, <1>1
    <2> QED
      BY <2>4 DEF s
  <1>5. Sane(<<"unlock">>)
    <2> DEFINE s == <<"unlock">>
    <2>1. s \in Seq(Word)
      BY DEF Word
    <2>2. Len(s) = 1 /\ s[1] = "unlock"
      OBVIOUS
    <2> HIDE DEF s
    <2>3. \A i \in 1..Len(s) : s[i] \notin Payload
      BY <2>2 DEF Payload
    <2>4. Sane(s)
      BY <2>1, <2>3, <1>1
    <2> QED
      BY <2>4 DEF s
  <1> QED
    BY <1>2, <1>3, <1>4, <1>5

\* The five operations, and a compaction.
LEMMA SaneOperations ==
    /\ Sane(DeleteSteps) /\ Sane(PurgeSteps) /\ Sane(BulkSteps)
    /\ Sane(IndexSteps) /\ Sane(LexicalSteps)
    /\ Sane(CompactSteps)
  <1>1. Sane(DeleteSteps)
    <2> DEFINE s == DeleteSteps
    <2>1. s \in Seq(Word)
      BY DEF Word, DeleteSteps
    <2>2. Len(s) = 5
      BY DEF DeleteSteps
    <2>3. s[1] = "lane" /\ s[2] = "native" /\ s[3] = "writer" /\ s[4] = "erase"
          /\ s[5] = "release"
      BY DEF DeleteSteps
    <2> HIDE DEF s
    <2>4. \A i \in 1..(Len(s) - 1) : s[i] # "release"
      BY <2>2, <2>3
    <2>5. ASSUME NEW i \in 1..Len(s), s[i] = "writer"
          PROVE  \E j \in (i + 1)..(Len(s) - 1) : s[j] \in Closes
      <3>1. i = 3
        BY <2>5, <2>2, <2>3
      <3>2. 4 \in (i + 1)..(Len(s) - 1) /\ s[4] \in Closes
        BY <3>1, <2>2, <2>3 DEF Closes
      <3> QED
        BY <3>2
    <2>6. Len(s) \in Nat /\ Len(s) >= 1 /\ s[Len(s)] = "release"
      BY <2>2, <2>3
    <2>7. Sane(s)
      BY <2>1, <2>3, <2>4, <2>5, <2>6, SaneOperation
    <2> QED
      BY <2>7 DEF s
  <1>2. Sane(PurgeSteps)
    <2> DEFINE s == PurgeSteps
    <2>1. s \in Seq(Word)
      BY DEF Word, PurgeSteps
    <2>2. Len(s) = 5
      BY DEF PurgeSteps
    <2>3. s[1] = "lane" /\ s[2] = "writer" /\ s[3] = "erase" /\ s[4] = "native"
          /\ s[5] = "release"
      BY DEF PurgeSteps
    <2> HIDE DEF s
    <2>4. \A i \in 1..(Len(s) - 1) : s[i] # "release"
      BY <2>2, <2>3
    <2>5. ASSUME NEW i \in 1..Len(s), s[i] = "writer"
          PROVE  \E j \in (i + 1)..(Len(s) - 1) : s[j] \in Closes
      <3>1. i = 2
        BY <2>5, <2>2, <2>3
      <3>2. 3 \in (i + 1)..(Len(s) - 1) /\ s[3] \in Closes
        BY <3>1, <2>2, <2>3 DEF Closes
      <3> QED
        BY <3>2
    <2>6. Len(s) \in Nat /\ Len(s) >= 1 /\ s[Len(s)] = "release"
      BY <2>2, <2>3
    <2>7. Sane(s)
      BY <2>1, <2>3, <2>4, <2>5, <2>6, SaneOperation
    <2> QED
      BY <2>7 DEF s
  <1>3. Sane(BulkSteps)
    <2> DEFINE s == BulkSteps
    <2>1. s \in Seq(Word)
      BY DEF Word, BulkSteps
    <2>2. Len(s) = 7
      BY DEF BulkSteps
    <2>3. s[1] = "lane" /\ s[2] = "table" /\ s[3] = "writer" /\ s[4] = "table"
          /\ s[5] = "native" /\ s[6] = "commit" /\ s[7] = "release"
      BY DEF BulkSteps
    <2> HIDE DEF s
    <2>4. \A i \in 1..(Len(s) - 1) : s[i] # "release"
      BY <2>2, <2>3
    <2>5. ASSUME NEW i \in 1..Len(s), s[i] = "writer"
          PROVE  \E j \in (i + 1)..(Len(s) - 1) : s[j] \in Closes
      <3>1. i = 3
        BY <2>5, <2>2, <2>3
      <3>2. 6 \in (i + 1)..(Len(s) - 1) /\ s[6] \in Closes
        BY <3>1, <2>2, <2>3 DEF Closes
      <3> QED
        BY <3>2
    <2>6. Len(s) \in Nat /\ Len(s) >= 1 /\ s[Len(s)] = "release"
      BY <2>2, <2>3
    <2>7. Sane(s)
      BY <2>1, <2>3, <2>4, <2>5, <2>6, SaneOperation
    <2> QED
      BY <2>7 DEF s
  <1>4. Sane(IndexSteps)
    <2> DEFINE s == IndexSteps
    <2>1. s \in Seq(Word)
      BY DEF Word, IndexSteps
    <2>2. Len(s) = 7
      BY DEF IndexSteps
    <2>3. s[1] = "lane" /\ s[2] = "table" /\ s[3] = "writer" /\ s[4] = "commit"
          /\ s[5] = "table" /\ s[6] = "native" /\ s[7] = "release"
      BY DEF IndexSteps
    <2> HIDE DEF s
    <2>4. \A i \in 1..(Len(s) - 1) : s[i] # "release"
      BY <2>2, <2>3
    <2>5. ASSUME NEW i \in 1..Len(s), s[i] = "writer"
          PROVE  \E j \in (i + 1)..(Len(s) - 1) : s[j] \in Closes
      <3>1. i = 3
        BY <2>5, <2>2, <2>3
      <3>2. 4 \in (i + 1)..(Len(s) - 1) /\ s[4] \in Closes
        BY <3>1, <2>2, <2>3 DEF Closes
      <3> QED
        BY <3>2
    <2>6. Len(s) \in Nat /\ Len(s) >= 1 /\ s[Len(s)] = "release"
      BY <2>2, <2>3
    <2>7. Sane(s)
      BY <2>1, <2>3, <2>4, <2>5, <2>6, SaneOperation
    <2> QED
      BY <2>7 DEF s
  <1>5. Sane(LexicalSteps)
    <2> DEFINE s == LexicalSteps
    <2>1. s \in Seq(Word)
      BY DEF Word, LexicalSteps
    <2>2. Len(s) = 5
      BY DEF LexicalSteps
    <2>3. s[1] = "lane" /\ s[2] = "boot" /\ s[3] = "writer" /\ s[4] = "commit"
          /\ s[5] = "release"
      BY DEF LexicalSteps
    <2> HIDE DEF s
    <2>4. \A i \in 1..(Len(s) - 1) : s[i] # "release"
      BY <2>2, <2>3
    <2>5. ASSUME NEW i \in 1..Len(s), s[i] = "writer"
          PROVE  \E j \in (i + 1)..(Len(s) - 1) : s[j] \in Closes
      <3>1. i = 3
        BY <2>5, <2>2, <2>3
      <3>2. 4 \in (i + 1)..(Len(s) - 1) /\ s[4] \in Closes
        BY <3>1, <2>2, <2>3 DEF Closes
      <3> QED
        BY <3>2
    <2>6. Len(s) \in Nat /\ Len(s) >= 1 /\ s[Len(s)] = "release"
      BY <2>2, <2>3
    <2>7. Sane(s)
      BY <2>1, <2>3, <2>4, <2>5, <2>6, SaneOperation
    <2> QED
      BY <2>7 DEF s
  <1>6. Sane(CompactSteps)
    <2> DEFINE s == CompactSteps
    <2>1. s \in Seq(Word)
      BY DEF Word, CompactSteps
    <2>2. Len(s) = 3
      BY DEF CompactSteps
    <2>3. s[1] = "lane" /\ s[2] = "native" /\ s[3] = "release"
      BY DEF CompactSteps
    <2> HIDE DEF s
    <2>4. \A i \in 1..(Len(s) - 1) : s[i] # "release"
      BY <2>2, <2>3
    <2>5. \A i \in 1..Len(s) : s[i] # "writer"
      BY <2>2, <2>3
    <2>6. Len(s) \in Nat /\ Len(s) >= 1 /\ s[Len(s)] = "release"
      BY <2>2, <2>3
    <2>7. Sane(s)
      BY <2>1, <2>3, <2>4, <2>5, <2>6, SaneOperation
    <2> QED
      BY <2>7 DEF s
  <1> QED
    BY <1>1, <1>2, <1>3, <1>4, <1>5, <1>6

\* Every flow the code runs is sane.
LEMMA SaneSteps ==
    ASSUME NEW kind \in {"update", "sweep", "bulk", "index", "lexical", "delete", "compact"}
    PROVE  Sane(Steps(kind))
  <1>1. CASE kind = "update"
    <2>1. Sane(<<"lock", "admit">> \o DeleteSteps)
      BY SanePlain, SaneOperations, SaneConcat
    <2>2. Sane(<<"lock", "admit">> \o DeleteSteps \o BulkSteps)
      BY <2>1, SaneOperations, SaneConcat
    <2>3. Sane(<<"lock", "admit">> \o DeleteSteps \o BulkSteps \o PurgeSteps)
      BY <2>2, SaneOperations, SaneConcat
    <2>4. Sane(UpdateSteps)
      BY <2>3, SanePlain, SaneConcat DEF UpdateSteps
    <2> QED
      BY <1>1, <2>4 DEF Steps
  <1>2. CASE kind = "sweep"
    <2>1. Sane(<<"trylock", "admit">> \o PurgeSteps)
      BY SanePlain, SaneOperations, SaneConcat
    <2>2. Sane(SweepSteps)
      BY <2>1, SanePlain, SaneConcat DEF SweepSteps
    <2> QED
      BY <1>2, <2>2 DEF Steps
  <1>3. CASE kind = "bulk"
    <2>1. Sane(<<"admit">> \o BulkSteps)
      BY SanePlain, SaneOperations, SaneConcat
    <2> QED
      BY <1>3, <2>1 DEF Steps
  <1>4. CASE kind = "index"
    <2>1. Sane(<<"admit">> \o IndexSteps)
      BY SanePlain, SaneOperations, SaneConcat
    <2> QED
      BY <1>4, <2>1 DEF Steps
  <1>5. CASE kind = "lexical"
    <2>1. Sane(<<"admit">> \o LexicalSteps)
      BY SanePlain, SaneOperations, SaneConcat
    <2> QED
      BY <1>5, <2>1 DEF Steps
  <1>6. CASE kind = "delete"
    <2>1. Sane(<<"admit">> \o DeleteSteps)
      BY SanePlain, SaneOperations, SaneConcat
    <2> QED
      BY <1>6, <2>1 DEF Steps
  <1>7. CASE kind = "compact"
    <2>1. Sane(<<"admit">> \o CompactSteps)
      BY SanePlain, SaneOperations, SaneConcat
    <2> QED
      BY <1>7, <2>1 DEF Steps
  <1> QED
    BY <1>1, <1>2, <1>3, <1>4, <1>5, <1>6, <1>7

-----------------------------------------------------------------------------
(* Queues.                                                                 *)

\* Whoever joins, the owner stays.
LEMMA JoinKeeps ==
    ASSUME NEW q \in Seq(Tasks), NEW t \in Tasks
    PROVE  /\ Append(q, t) \in Seq(Tasks)
           /\ \A u : Owns(u, q) => Owns(u, Append(q, t))
    BY DEF Owns

\* Whoever else leaves, the owner stays.
LEMMA LeaveKeeps ==
    ASSUME NEW q \in Seq(Tasks), NEW t \in Tasks
    PROVE  /\ Leave(t, q) \in Seq(Tasks)
           /\ \A u : u # t /\ Owns(u, q) => Owns(u, Leave(t, q))
  <1>1. CASE ~ Waits(t, q)
    BY <1>1 DEF Leave
  <1>2. CASE Waits(t, q)
    <2> DEFINE i == CHOOSE i \in 1..Len(q) : q[i] = t
               a == SubSeq(q, 1, i - 1)
               b == SubSeq(q, i + 1, Len(q))
    <2>0. Len(q) \in Nat
      OBVIOUS
    <2>1. \E k \in 1..Len(q) : q[k] = t
      BY <1>2 DEF Waits, Range
    <2>2. i \in 1..Len(q) /\ q[i] = t
      BY <2>1
    <2>3. Leave(t, q) = a \o b
      BY <1>2 DEF Leave, RemoveAt
    <2> HIDE DEF i
    <2>4. a \in Seq(Tasks) /\ b \in Seq(Tasks)
      BY <2>2, <2>0
    <2>5. ASSUME NEW u, u # t, Owns(u, q)
          PROVE  Owns(u, a \o b)
      <3>1. i # 1
        BY <2>2, <2>5 DEF Owns
      <3>2. Len(a) = i - 1 /\ Len(a) >= 1 /\ a[1] = q[1]
        BY <3>1, <2>2, <2>0
      <3>3. q[1] = u
        BY <2>5, <2>0 DEF Owns
      <3> HIDE DEF a, b
      <3>4. Len(a \o b) >= 1 /\ (a \o b)[1] = a[1] /\ a \o b \in Seq(Tasks)
        BY <3>2, <2>4, <2>2
      <3>5. a \o b # <<>> /\ Head(a \o b) = (a \o b)[1]
        BY <3>4
      <3> QED
        BY <3>2, <3>3, <3>4, <3>5 DEF Owns
    <2> HIDE DEF a, b
    <2>6. a \o b \in Seq(Tasks)
      BY <2>4
    <2> QED
      BY <2>3, <2>5, <2>6
  <1> QED
    BY <1>1, <1>2

-----------------------------------------------------------------------------
(* Steps of the specification.                                             *)

\* What a step of task t leaves of another task.
Other(u) ==
    /\ pc'[u] = pc[u] /\ worker'[u] = worker[u]
    /\ u \in guard' <=> u \in guard
    /\ writer' = u => writer = u
    /\ u \in unwinding' <=> u \in unwinding
    /\ Owns(u, lane) => Owns(u, lane)'

\* Which keeps that task's part of the invariant.
LEMMA OtherKept ==
    ASSUME NEW u \in Tasks, Kept(u), Other(u)
    PROVE  Kept(u)'
  <1>1. Held(u)'
    BY DEF Kept, Held, Other
  <1>2. Covered(pc[u], u, guard)'
    BY DEF Kept, Flowing, Other, Covered
  <1>3. Flowing(u)'
    BY <1>2 DEF Kept, Flowing, Other, Closed, Ends
  <1>4. Tied(u)'
    BY DEF Kept, Tied, Other
  <1> QED
    BY <1>1, <1>3, <1>4 DEF Kept

\* A step that moves only its own task.
LEMMA OwnStep ==
    ASSUME NEW t \in Tasks, IInv, Typed', Kept(t)',
           \A u \in Tasks \ {t} : Other(u)
    PROVE  IInv'
    BY OtherKept DEF IInv

\* The steps that leave the lane and the writer to whoever has them: a flow
\* fails, or a queue outside the lane moves.
LEMMA QuietStep ==
    ASSUME NEW t \in Tasks, IInv, UNCHANGED <<setting, pc, guard, writer, worker>>,
           \/ unwinding' = unwinding /\ lane' = Append(lane, t)
           \/ unwinding' = unwinding /\ lane' = lane
           \/ unwinding' = unwinding \cup {t} /\ lane' = lane /\ worker[t] \notin {"ok", "failed"}
    PROVE  IInv'
  <1>1. lane \in Seq(Tasks)
    BY DEF IInv, Typed
  <1>2. lane' \in Seq(Tasks) /\ \A u : Owns(u, lane) => Owns(u, lane)'
    <2>1. CASE lane' = Append(lane, t)
      BY <1>1, <2>1, JoinKeeps DEF Owns
    <2>2. CASE lane' = lane
      BY <1>1, <2>2 DEF Owns
    <2> QED
      BY <2>1, <2>2
  <1>3. Typed'
    BY <1>2 DEF IInv, Typed
  <1>4. \A u \in Tasks \ {t} : Other(u)
    BY <1>2 DEF Other
  <1>5. Kept(t)
    BY DEF IInv
  <1>6. Held(t)'
    BY <1>2, <1>5 DEF Kept, Held
  <1>7. Flowing(t)'
    BY <1>5 DEF Kept, Flowing, Covered, Closed, Ends
  <1>8. Tied(t)'
    BY <1>5 DEF Kept, Tied
  <1> QED
    BY <1>3, <1>4, <1>6, <1>7, <1>8, OwnStep DEF Kept

\* A step of the flow that is neither the lane's, the writer's nor the
\* release, with no worker left.
LEMMA PlainStep ==
    ASSUME NEW t \in Tasks, IInv, t \notin unwinding, pc[t] # <<>>,
           Head(pc[t]) \notin {"lane", "release", "writer"} \cup Closes,
           pc' = [pc EXCEPT ![t] = Tail(@)],
           (worker' = worker /\ worker[t] = "none") \/ worker' = [worker EXCEPT ![t] = "none"],
           UNCHANGED <<setting, unwinding, guard, lane, writer>>
    PROVE  IInv'
  <1>1. Typed /\ Kept(t) /\ pc[t] \in Seq(Word)
    BY DEF IInv, Typed
  <1>2. pc'[t] = Tail(pc[t]) /\ Tail(pc[t]) \in Seq(Word)
    BY <1>1, TailFacts DEF Typed
  <1>3. worker'[t] = "none" /\ \A u \in Tasks \ {t} : worker'[u] = worker[u]
    BY <1>1 DEF Typed
  <1>4. Typed'
    BY <1>1, <1>2, <1>3 DEF Typed
  <1>5. \A u \in Tasks \ {t} : Other(u)
    BY <1>1, <1>3 DEF Typed, Other, Owns
  <1>6. Held(t)'
    BY <1>1, <1>3 DEF Kept, Held, Owns
  <1>7. Flowing(t)'
    <2>1. Covered(Tail(pc[t]), t, guard) /\ Closed(Tail(pc[t]))
      BY <1>1, CoveredStep, ClosedStep DEF Kept, Flowing
    <2>2. writer = t => Ends(Tail(pc[t]))
      BY <1>1, EndsStep DEF Kept, Flowing
    <2> QED
      BY <1>2, <2>1, <2>2 DEF Flowing
  <1>8. Tied(t)'
    BY <1>3 DEF Tied
  <1> QED
    BY <1>4, <1>5, <1>6, <1>7, <1>8, OwnStep DEF Kept

\* A worker starts, moves or ends at its request.
LEMMA WorkerStep ==
    ASSUME NEW t \in Tasks, IInv,
           NEW w \in {"none", "check", "create", "native", "ok", "failed"},
           worker' = [worker EXCEPT ![t] = w],
           UNCHANGED <<setting, pc, guard, lane, writer>>,
           unwinding' \in {unwinding, unwinding \cup {t}},
           w = "native" => t \in guard \/ worker[t] = "native",
           w \in {"ok", "failed"} => t \notin unwinding' /\ pc[t] # <<>>,
           t \notin unwinding /\ pc[t] # <<>> /\ w # "none" => Head(pc[t]) \in {"table", "native"},
           t \notin unwinding /\ pc[t] # <<>> /\ w = "native" => Head(pc[t]) = "native"
    PROVE  IInv'
  <1>1. Typed /\ Kept(t)
    BY DEF IInv
  <1>2. worker'[t] = w /\ \A u \in Tasks \ {t} : worker'[u] = worker[u]
    BY <1>1 DEF Typed
  <1>3. Typed'
    BY <1>1 DEF Typed
  <1>4. \A u \in Tasks \ {t} : Other(u)
    BY <1>2 DEF Other, Owns
  <1>5. Held(t)'
    BY <1>1, <1>2 DEF Kept, Held, Owns
  <1>6. Flowing(t)'
    BY <1>1 DEF Kept, Flowing, Covered, Closed, Ends
  <1>7. Tied(t)'
    BY <1>1, <1>2 DEF Kept, Tied
  <1> QED
    BY <1>3, <1>4, <1>5, <1>6, <1>7, OwnStep DEF Kept

\* Only at a table or a native step does a request have a worker.
LEMMA Alone ==
    ASSUME NEW t \in Tasks, IInv, NEW step, At(t, step), step \notin {"table", "native"}
    PROVE  worker[t] = "none"
    BY DEF IInv, Kept, Tied, At

\* A step of the flow at a given word.
LEMMA AdvanceKeeps ==
    ASSUME NEW t \in Tasks, IInv, NEW step, At(t, step), Advance(t),
           step \notin {"lane", "release", "writer"} \cup Closes,
           UNCHANGED <<setting, guard, lane, writer>>,
           (worker' = worker /\ worker[t] = "none") \/ worker' = [worker EXCEPT ![t] = "none"]
    PROVE  IInv'
    BY PlainStep DEF At, Advance

\* An error return.
LEMMA FailKeeps ==
    ASSUME NEW t \in Tasks, IInv, Fail(t), worker[t] \notin {"ok", "failed"},
           UNCHANGED <<setting, guard, lane, writer, worker>>
    PROVE  IInv'
    BY QuietStep DEF Fail

\* The project lock and the admission.
LEMMA LockSteps ==
    ASSUME IInv, NEW t \in Tasks, UNCHANGED setting,
           AwaitLock(t) \/ TakeLock(t) \/ TryLock(t) \/ Admit(t) \/ Unlock(t)
    PROVE  IInv'
  <1>1. CASE AwaitLock(t)
    BY <1>1, QuietStep DEF AwaitLock, flow
  <1>2. CASE TakeLock(t)
    <2>1. worker[t] = "none"
      BY <1>2, Alone DEF TakeLock
    <2> QED
      BY <1>2, <2>1, AdvanceKeeps DEF TakeLock, Closes
  <1>3. CASE TryLock(t)
    <2>1. worker[t] = "none"
      BY <1>3, Alone DEF TryLock
    <2>2. CASE lock = <<>>
      BY <1>3, <2>1, <2>2, AdvanceKeeps DEF TryLock, Closes
    <2>3. CASE lock # <<>>
      BY <1>3, <2>1, <2>3, FailKeeps DEF TryLock
    <2> QED
      BY <2>2, <2>3
  <1>4. CASE Admit(t)
    <2>1. worker[t] = "none"
      BY <1>4, Alone DEF Admit
    <2>2. CASE ~faulted /\ Pending = {}
      BY <1>4, <2>1, <2>2, AdvanceKeeps DEF Admit, Closes
    <2>3. CASE ~ (~faulted /\ Pending = {})
      BY <1>4, <2>1, <2>3, FailKeeps DEF Admit
    <2> QED
      BY <2>2, <2>3
  <1>5. CASE Unlock(t)
    <2>1. worker[t] = "none"
      BY <1>5, Alone DEF Unlock
    <2> QED
      BY <1>5, <2>1, AdvanceKeeps DEF Unlock, Closes
  <1> QED
    BY <1>1, <1>2, <1>3, <1>4, <1>5

\* The wait for the lane, and its Guard.
LEMMA LaneSteps ==
    ASSUME IInv, NEW t \in Tasks, UNCHANGED setting, AwaitLane(t) \/ TakeLane(t)
    PROVE  IInv'
  <1>1. CASE AwaitLane(t)
    <2>1. worker[t] = "none"
      BY <1>1, Alone DEF AwaitLane
    <2>2. CASE faulted
      BY <1>1, <2>1, <2>2, FailKeeps DEF AwaitLane
    <2>3. CASE ~ faulted
      BY <1>1, <2>3, QuietStep DEF AwaitLane, flow
    <2> QED
      BY <2>2, <2>3
  <1>2. CASE TakeLane(t)
    <2>1. worker[t] = "none"
      BY <1>2, Alone DEF TakeLane
    <2>2. CASE faulted
      BY <1>2, <2>1, <2>2, FailKeeps DEF TakeLane
    <2>3. CASE ~ faulted
      <3>1. /\ guard' = guard \cup {t} /\ pc' = [pc EXCEPT ![t] = Tail(@)]
            /\ UNCHANGED <<setting, unwinding, worker, lane, writer>>
            /\ Owns(t, lane) /\ pc[t] # <<>> /\ Head(pc[t]) = "lane" /\ t \notin unwinding
        BY <1>2, <2>3 DEF TakeLane, Advance, At
      <3>2. Typed /\ Kept(t) /\ pc[t] \in Seq(Word)
        BY DEF IInv, Typed
      <3>3. pc'[t] = Tail(pc[t]) /\ Tail(pc[t]) \in Seq(Word)
        BY <3>1, <3>2, TailFacts DEF Typed
      <3>4. Typed'
        BY <3>1, <3>2, <3>3 DEF Typed
      <3>5. \A u \in Tasks \ {t} : Other(u)
        BY <3>1, <3>2 DEF Typed, Other, Owns
      <3>6. Held(t)'
        BY <3>1, <3>2 DEF Kept, Held, Owns
      <3>7. Flowing(t)'
        <4>1. Covered(Tail(pc[t]), t, guard') /\ Closed(Tail(pc[t]))
          BY <3>1, <3>2, CoveredStep, ClosedStep DEF Kept, Flowing
        <4>2. writer = t => Ends(Tail(pc[t]))
          BY <3>1, <3>2, EndsStep DEF Kept, Flowing, Closes
        <4> QED
          BY <3>1, <3>3, <4>1, <4>2 DEF Flowing
      <3>8. Tied(t)'
        BY <2>1, <3>1 DEF Tied
      <3> QED
        BY <3>4, <3>5, <3>6, <3>7, <3>8, OwnStep DEF Kept
    <2> QED
      BY <2>2, <2>3
  <1> QED
    BY <1>1, <1>2

\* The bootstrap mutex and the table.
LEMMA BootSteps ==
    ASSUME IInv, NEW t \in Tasks, UNCHANGED setting,
           AwaitBoot(t) \/ TakeBoot(t) \/ OpenTable(t) \/ StartBootstrap(t)
    PROVE  IInv'
  <1>1. CASE AwaitBoot(t)
    BY <1>1, QuietStep DEF AwaitBoot, flow
  <1>2. CASE TakeBoot(t)
    <2>1. worker[t] = "none"
      BY <1>2, Alone DEF TakeBoot
    <2> QED
      BY <1>2, <2>1, AdvanceKeeps DEF TakeBoot, Closes
  <1>3. CASE OpenTable(t)
    <2>1. CASE route
      BY <1>3, <2>1, AdvanceKeeps DEF OpenTable, Closes
    <2>2. CASE ~ route
      BY <1>3, <2>2, FailKeeps DEF OpenTable
    <2> QED
      BY <2>1, <2>2
  <1>4. CASE StartBootstrap(t)
    <2>1. CASE faulted
      BY <1>4, <2>1, FailKeeps DEF StartBootstrap
    <2>2. CASE ~ faulted
      BY <1>4, <2>2, WorkerStep DEF StartBootstrap, flow, At
    <2> QED
      BY <2>1, <2>2
  <1> QED
    BY <1>1, <1>2, <1>3, <1>4

\* The worker and the request that takes its result.
LEMMA WorkerSteps ==
    ASSUME IInv, NEW t \in Tasks, UNCHANGED setting,
           \/ StartNative(t) \/ TakeResult(t) \/ BootstrapCheck(t)
           \/ \E ok \in BOOLEAN : BootstrapDone(t, ok)
    PROVE  IInv'
  <1>0. Typed /\ Kept(t) /\ pc[t] \in Seq(Word)
    BY DEF IInv, Typed
  <1>1. CASE StartNative(t)
    <2>1. CASE faulted
      BY <1>1, <2>1, FailKeeps DEF StartNative
    <2>2. CASE ~ faulted
      <3>1. t \in guard
        BY <1>0, <1>1, CoveredHead DEF StartNative, At, Kept, Flowing, Payload
      <3> QED
        BY <1>1, <2>2, <3>1, WorkerStep DEF StartNative, flow, At
    <2> QED
      BY <2>1, <2>2
  <1>2. CASE TakeResult(t)
    <2>1. pc[t] # <<>> /\ Head(pc[t]) \in {"table", "native"}
      BY <1>0, <1>2 DEF TakeResult, Kept, Tied
    <2>2. CASE worker[t] = "ok"
      BY <1>2, <2>1, <2>2, PlainStep DEF TakeResult, Advance, Closes
    <2>3. CASE worker[t] # "ok"
      BY <1>2, <2>3, WorkerStep DEF TakeResult, Fail
    <2> QED
      BY <2>2, <2>3
  <1>3. CASE BootstrapCheck(t)
    <2>1. CASE route \/ docs
      <3> DEFINE w == Result(t, IF route THEN "ok" ELSE "failed")
      <3>1. w \in {"none", "ok", "failed"} /\ (w # "none" => t \notin unwinding /\ pc[t] # <<>>)
        BY DEF Result
      <3>2. worker' = [worker EXCEPT ![t] = w] /\ worker[t] = "check"
            /\ UNCHANGED <<pc, unwinding, guard, lane, writer>>
        BY <1>3, <2>1 DEF BootstrapCheck, flow
      <3> HIDE DEF w
      <3>3. t \notin unwinding /\ pc[t] # <<>> => Head(pc[t]) \in {"table", "native"}
        BY <1>0, <3>2 DEF Kept, Tied
      <3> QED
        BY <3>1, <3>2, <3>3, WorkerStep
    <2>2. CASE ~ (route \/ docs)
      <3>1. t \notin unwinding /\ pc[t] # <<>> => Head(pc[t]) \in {"table", "native"}
        BY <1>0, <1>3 DEF BootstrapCheck, Kept, Tied
      <3> QED
        BY <1>3, <2>2, <3>1, WorkerStep DEF BootstrapCheck, flow
    <2> QED
      BY <2>1, <2>2
  <1>4. ASSUME NEW ok \in BOOLEAN, BootstrapDone(t, ok)
        PROVE  IInv'
    <2> DEFINE w == Result(t, IF ok THEN "ok" ELSE "failed")
    <2>1. w \in {"none", "ok", "failed"} /\ (w # "none" => t \notin unwinding /\ pc[t] # <<>>)
      BY DEF Result
    <2>2. worker' = [worker EXCEPT ![t] = w] /\ worker[t] = "create"
          /\ UNCHANGED <<pc, unwinding, guard, lane, writer>>
      BY <1>4 DEF BootstrapDone, flow
    <2> HIDE DEF w
    <2>3. t \notin unwinding /\ pc[t] # <<>> => Head(pc[t]) \in {"table", "native"}
      BY <1>0, <2>2 DEF Kept, Tied
    <2> QED
      BY <2>1, <2>2, <2>3, WorkerStep
  <1> QED
    BY <1>1, <1>2, <1>3, <1>4

\* The native worker ends, and with it the lane when its Guard is gone.
LEMMA NativeEnds ==
    ASSUME IInv, NEW t \in Tasks, UNCHANGED setting,
           NEW result \in {"ok", "failed", "panic"}, NativeDone(t, result)
    PROVE  IInv'
  <1> DEFINE w == Result(t, IF result = "ok" THEN "ok" ELSE "failed")
  <1>0. Typed /\ Kept(t)
    BY DEF IInv
  <1>1. w \in {"none", "ok", "failed"} /\ (w # "none" => t \notin unwinding /\ pc[t] # <<>>)
    BY DEF Result
  <1>2. /\ worker' = [worker EXCEPT ![t] = w] /\ worker[t] = "native"
        /\ lane' = (IF t \in guard THEN lane ELSE Leave(t, lane))
        /\ UNCHANGED <<setting, pc, unwinding, guard, writer>>
    BY DEF NativeDone, flow
  <1> HIDE DEF w
  <1>3. t \notin unwinding /\ pc[t] # <<>> => Head(pc[t]) \in {"table", "native"}
    BY <1>0, <1>2 DEF Kept, Tied
  <1>4. CASE t \in guard
    BY <1>1, <1>2, <1>3, <1>4, WorkerStep
  <1>5. CASE t \notin guard
    <2>1. lane \in Seq(Tasks)
      BY <1>0 DEF Typed
    <2>2. lane' \in Seq(Tasks) /\ \A u \in Tasks \ {t} : Owns(u, lane) => Owns(u, lane)'
      BY <1>2, <1>5, <2>1, LeaveKeeps DEF Owns
    <2>3. worker'[t] = w /\ \A u \in Tasks \ {t} : worker'[u] = worker[u]
      BY <1>0, <1>2 DEF Typed
    <2>4. Typed'
      BY <1>0, <1>1, <1>2, <2>2 DEF Typed
    <2>5. \A u \in Tasks \ {t} : Other(u)
      BY <1>2, <2>2, <2>3 DEF Other
    <2>6. Held(t)'
      BY <1>0, <1>1, <1>2, <1>5, <2>3 DEF Kept, Held
    <2>7. Flowing(t)'
      BY <1>0, <1>2 DEF Kept, Flowing, Covered, Closed, Ends
    <2>8. Tied(t)'
      BY <1>1, <1>2, <1>3, <2>3 DEF Tied
    <2> QED
      BY <2>4, <2>5, <2>6, <2>7, <2>8, OwnStep DEF Kept
  <1> QED
    BY <1>4, <1>5

\* The Tantivy writer is taken and finished under the Guard.
LEMMA WriterSteps ==
    ASSUME IInv, NEW t \in Tasks, UNCHANGED setting, TakeWriter(t) \/ DropWriter(t)
    PROVE  IInv'
  <1>1. \/ At(t, "writer") /\ writer = NoTask /\ writer' = t
        \/ At(t, "commit") /\ writer' = NoTask
        \/ At(t, "erase") /\ writer' = NoTask
    BY DEF TakeWriter, DropWriter
  <1>2. /\ pc' = [pc EXCEPT ![t] = Tail(@)]
        /\ UNCHANGED <<setting, unwinding, worker, guard, lane>>
    BY DEF TakeWriter, DropWriter, Advance
  <1>3. pc[t] # <<>> /\ Head(pc[t]) \in Payload \ {"native"} /\ t \notin unwinding
    BY <1>1 DEF At, Payload
  <1>4. Typed /\ Kept(t) /\ pc[t] \in Seq(Word)
    BY DEF IInv, Typed
  <1>5. t \in guard
    BY <1>3, <1>4, CoveredHead DEF Kept, Flowing
  <1>6. pc'[t] = Tail(pc[t]) /\ Tail(pc[t]) \in Seq(Word)
    BY <1>2, <1>3, <1>4, TailFacts DEF Typed
  <1>7. Typed'
    BY <1>1, <1>2, <1>4, <1>6 DEF Typed
  <1>8. \A u \in Tasks \ {t} : Other(u)
    BY <1>1, <1>2, <1>4, LaneAssumption DEF Typed, Other, Owns
  <1>9. Held(t)'
    BY <1>2, <1>4, <1>5 DEF Kept, Held, Owns
  <1>10. Covered(Tail(pc[t]), t, guard) /\ Closed(Tail(pc[t]))
    BY <1>3, <1>4, CoveredStep, ClosedStep DEF Kept, Flowing, Payload
  <1>11. writer' = t => Ends(Tail(pc[t]))
    BY <1>1, <1>3, <1>4, EndsTaken, LaneAssumption DEF Kept, Flowing, At
  <1>12. Flowing(t)'
    BY <1>2, <1>6, <1>10, <1>11 DEF Flowing
  <1>13. worker[t] = "none"
    BY <1>3, <1>4 DEF Kept, Tied, Payload
  <1>14. Tied(t)'
    BY <1>2, <1>13 DEF Tied
  <1> QED
    BY <1>7, <1>8, <1>9, <1>12, <1>14, OwnStep DEF Kept

\* The Guard of an operation is dropped with no writer and no worker left.
LEMMA ReleaseKeeps ==
    ASSUME IInv, NEW t \in Tasks, UNCHANGED setting, Release(t)
    PROVE  IInv'
  <1>1. /\ pc' = [pc EXCEPT ![t] = Tail(@)] /\ guard' = guard \ {t} /\ lane' = Leave(t, lane)
        /\ UNCHANGED <<setting, unwinding, worker, writer>>
        /\ pc[t] # <<>> /\ Head(pc[t]) = "release"
    BY DEF Release, Advance, At
  <1>2. Typed /\ Kept(t) /\ pc[t] \in Seq(Word) /\ lane \in Seq(Tasks)
    BY DEF IInv, Typed
  <1>3. worker[t] = "none"
    BY Alone DEF Release
  <1>4. writer # t
    BY <1>1, <1>2, EndsHead DEF Kept, Flowing
  <1>5. pc'[t] = Tail(pc[t]) /\ Tail(pc[t]) \in Seq(Word)
    BY <1>1, <1>2, TailFacts DEF Typed
  <1>6. lane' \in Seq(Tasks) /\ \A u \in Tasks \ {t} : Owns(u, lane) => Owns(u, lane)'
    BY <1>1, <1>2, LeaveKeeps DEF Owns
  <1>7. Typed'
    BY <1>1, <1>2, <1>5, <1>6 DEF Typed
  <1>8. \A u \in Tasks \ {t} : Other(u)
    BY <1>1, <1>2, <1>6 DEF Typed, Other
  <1>9. Held(t)'
    BY <1>1, <1>3, <1>4 DEF Held
  <1>10. Covered(Tail(pc[t]), t, guard') /\ Closed(Tail(pc[t]))
    BY <1>1, <1>2, CoveredStep, ClosedStep DEF Kept, Flowing
  <1>11. Flowing(t)'
    BY <1>1, <1>4, <1>5, <1>10 DEF Flowing
  <1>12. Tied(t)'
    BY <1>1, <1>3 DEF Tied
  <1> QED
    BY <1>7, <1>8, <1>9, <1>11, <1>12, OwnStep DEF Kept

\* A flow that is dropped: the request, then its writer, then its guards.
LEMMA UnwindSteps ==
    ASSUME IInv, NEW t \in Tasks, UNCHANGED setting,
           \/ \E panic \in BOOLEAN : Abandon(t, panic)
           \/ UnwindWriter(t) \/ UnwindGuard(t)
    PROVE  IInv'
  <1>0. Typed /\ Kept(t) /\ lane \in Seq(Tasks)
    BY DEF IInv, Typed
  <1>1. ASSUME NEW panic \in BOOLEAN, Abandon(t, panic)
        PROVE  IInv'
    <2> DEFINE w == IF t \in Pending THEN worker[t] ELSE "none"
    <2>1. worker' = [worker EXCEPT ![t] = w] /\ unwinding' = unwinding \cup {t}
          /\ UNCHANGED <<setting, pc, guard, lane, writer>>
      BY <1>1 DEF Abandon
    <2>2. w \in {"none", "check", "create", "native"} /\ (w # "none" => w = worker[t])
      BY DEF Pending
    <2> HIDE DEF w
    <2>3. /\ t \notin unwinding /\ pc[t] # <<>> /\ w # "none" => Head(pc[t]) \in {"table", "native"}
          /\ t \notin unwinding /\ pc[t] # <<>> /\ w = "native" => Head(pc[t]) = "native"
      BY <1>0, <2>2 DEF Kept, Tied
    <2> QED
      BY <2>1, <2>2, <2>3, WorkerStep
  <1>2. CASE UnwindWriter(t)
    <2>1. writer = t /\ writer' = NoTask /\ UNCHANGED <<setting, pc, unwinding, worker, guard, lane>>
      BY <1>2 DEF UnwindWriter, flow
    <2>2. Typed'
      BY <1>0, <2>1 DEF Typed
    <2>3. \A u \in Tasks \ {t} : Other(u)
      BY <2>1, LaneAssumption DEF Other, Owns
    <2>4. writer' # t
      BY <2>1, LaneAssumption
    <2>5. Held(t)'
      BY <1>0, <2>1, <2>4 DEF Kept, Held, Owns
    <2>6. Flowing(t)'
      BY <1>0, <2>1, <2>4 DEF Kept, Flowing, Covered, Closed
    <2>7. Tied(t)'
      BY <1>0, <2>1 DEF Kept, Tied
    <2> QED
      BY <2>2, <2>3, <2>5, <2>6, <2>7, OwnStep DEF Kept
  <1>3. CASE UnwindGuard(t)
    <2>1. /\ t \in unwinding /\ writer # t /\ guard' = guard \ {t}
          /\ lane' = (IF worker[t] = "native" THEN lane ELSE Leave(t, lane))
          /\ pc' = [pc EXCEPT ![t] = <<>>] /\ unwinding' = unwinding \ {t}
          /\ UNCHANGED <<setting, worker, writer>>
      BY <1>3 DEF UnwindGuard
    <2>2. lane' \in Seq(Tasks) /\ \A u \in Tasks \ {t} : Owns(u, lane) => Owns(u, lane)'
      <3>1. CASE worker[t] = "native"
        BY <3>1, <2>1, <1>0 DEF Owns
      <3>2. CASE worker[t] # "native"
        BY <3>2, <2>1, <1>0, LeaveKeeps DEF Owns
      <3> QED
        BY <3>1, <3>2
    <2>3. pc'[t] = <<>> /\ <<>> \in Seq(Word)
      BY <1>0, <2>1 DEF Typed
    <2>4. Typed'
      BY <1>0, <2>1, <2>2, <2>3 DEF Typed
    <2>5. \A u \in Tasks \ {t} : Other(u)
      BY <1>0, <2>1, <2>2 DEF Typed, Other
    <2>6. Held(t)'
      <3>1. worker[t] = "native" => Owns(t, lane)'
        BY <1>0, <2>1 DEF Kept, Held, Owns
      <3> QED
        BY <3>1, <2>1 DEF Held
    <2>7. Flowing(t)'
      BY <2>1, <2>3 DEF Flowing, Covered, Closed
    <2>8. worker[t] \notin {"ok", "failed"}
      BY <1>0, <2>1 DEF Kept, Tied
    <2>9. Tied(t)'
      BY <2>1, <2>3, <2>8 DEF Tied
    <2> QED
      BY <2>4, <2>5, <2>6, <2>7, <2>9, OwnStep DEF Kept
  <1> QED
    BY <1>1, <1>2, <1>3

\* A flow begins: its steps are sane.
LEMMA StartKeeps ==
    ASSUME IInv, NEW t \in Tasks, UNCHANGED setting,
           NEW kind \in setting.kinds, Start(t, kind)
    PROVE  IInv'
  <1>1. Typed /\ Kept(t)
    BY DEF IInv
  <1>2. kind \in {"update", "sweep", "bulk", "index", "lexical", "delete", "compact"}
    BY <1>1, LaneAssumption DEF Typed
  <1>3. Sane(Steps(kind))
    BY <1>2, SaneSteps
  <1>4. /\ pc[t] = <<>> /\ worker[t] = "none" /\ pc' = [pc EXCEPT ![t] = Steps(kind)]
        /\ UNCHANGED <<setting, unwinding, worker, guard, lane, writer>>
    BY DEF Start
  <1>5. pc'[t] = Steps(kind) /\ Steps(kind) \in Seq(Word)
    BY <1>1, <1>3, <1>4 DEF Typed, Sane
  <1>6. Typed'
    BY <1>1, <1>4, <1>5 DEF Typed
  <1>7. \A u \in Tasks \ {t} : Other(u)
    BY <1>1, <1>4 DEF Typed, Other, Owns
  <1>8. Held(t)'
    BY <1>1, <1>4 DEF Kept, Held, Owns
  <1>9. writer # t
    BY <1>1, <1>4, EndsHead DEF Kept, Flowing, Typed
  <1>10. Covered(Steps(kind), t, guard) /\ Closed(Steps(kind))
    BY <1>3 DEF Sane
  <1>11. Flowing(t)'
    BY <1>4, <1>5, <1>9, <1>10 DEF Flowing
  <1>12. Tied(t)'
    BY <1>4 DEF Tied
  <1> QED
    BY <1>6, <1>7, <1>8, <1>11, <1>12, OwnStep DEF Kept

\* No flow runs yet.
LEMMA InitIInv == Init => IInv
  <1> SUFFICES ASSUME Init
               PROVE  IInv
    OBVIOUS
  <1>1. <<>> \in Seq(Word) /\ <<>> \in Seq(Tasks) /\ Len(<<>>) = 0
    OBVIOUS
  <1>2. Typed
    BY <1>1 DEF Init, Typed
  <1>3. ASSUME NEW t \in Tasks
        PROVE  Kept(t)
    <2>1. pc[t] = <<>> /\ worker[t] = "none" /\ t \notin guard /\ writer # t
      BY LaneAssumption DEF Init
    <2>2. Covered(pc[t], t, guard) /\ Closed(pc[t])
      BY <2>1, <1>1 DEF Covered, Closed
    <2> QED
      BY <2>1, <2>2 DEF Kept, Held, Flowing, Tied
  <1> QED
    BY <1>2, <1>3 DEF IInv

\* Every step keeps the invariant.
LEMMA NextIInv == IInv /\ [Next /\ UNCHANGED setting]_<<vars, setting>> => IInv'
  <1> SUFFICES ASSUME IInv, [Next /\ UNCHANGED setting]_<<vars, setting>>
               PROVE  IInv'
    OBVIOUS
  <1>1. CASE UNCHANGED <<vars, setting>>
    BY <1>1 DEF IInv, Typed, Kept, Held, Flowing, Tied, Covered, Closed, Ends, Owns, vars, flow
  <1>2. CASE Next /\ UNCHANGED setting
    <2>1. PICK t \in Tasks :
             \/ \E kind \in setting.kinds : Start(t, kind)
             \/ Request(t) \/ Worker(t)
             \/ \E panic \in BOOLEAN : Abandon(t, panic)
      BY <1>2 DEF Next
    <2>2. CASE \E kind \in setting.kinds : Start(t, kind)
      BY <1>2, <2>2, StartKeeps
    <2>3. CASE Request(t)
      <3>1. CASE AwaitLock(t) \/ TakeLock(t) \/ TryLock(t) \/ Admit(t) \/ Unlock(t)
        BY <1>2, <3>1, LockSteps
      <3>2. CASE AwaitLane(t) \/ TakeLane(t)
        BY <1>2, <3>2, LaneSteps
      <3>3. CASE AwaitBoot(t) \/ TakeBoot(t) \/ OpenTable(t) \/ StartBootstrap(t)
        BY <1>2, <3>3, BootSteps
      <3>4. CASE TakeResult(t) \/ StartNative(t)
        BY <1>2, <3>4, WorkerSteps
      <3>5. CASE TakeWriter(t) \/ DropWriter(t)
        BY <1>2, <3>5, WriterSteps
      <3>6. CASE Release(t)
        BY <1>2, <3>6, ReleaseKeeps
      <3>7. CASE UnwindWriter(t) \/ UnwindGuard(t)
        BY <1>2, <3>7, UnwindSteps
      <3> QED
        BY <2>3, <3>1, <3>2, <3>3, <3>4, <3>5, <3>6, <3>7 DEF Request
    <2>4. CASE Worker(t)
      <3>1. CASE BootstrapCheck(t) \/ \E ok \in BOOLEAN : BootstrapDone(t, ok)
        BY <1>2, <3>1, WorkerSteps
      <3>2. CASE \E result \in {"ok", "failed", "panic"} : NativeDone(t, result)
        BY <1>2, <3>2, NativeEnds
      <3> QED
        BY <2>4, <3>1, <3>2 DEF Worker
    <2>5. CASE \E panic \in BOOLEAN : Abandon(t, panic)
      BY <1>2, <2>5, UnwindSteps
    <2> QED
      BY <2>1, <2>2, <2>3, <2>4, <2>5
  <1> QED
    BY <1>1, <1>2

-----------------------------------------------------------------------------
(* Theorems.                                                               *)

\* The inductive invariant of the lock order.
THEOREM Invariance == Spec => []IInv
    BY InitIInv, NextIInv, PTL DEF Spec

\* A Tantivy writer and a native vector write belong to the owner of the commit
\* lane, through failures, aborts, panics and workers that outlive their request,
\* for any number of tasks.
THEOREM LaneOwnsPayload == Spec => []PayloadUnderLane
  <1>1. IInv => PayloadUnderLane
    BY DEF IInv, Kept, Held, PayloadUnderLane
  <1> QED
    BY <1>1, Invariance, PTL
=============================================================================
