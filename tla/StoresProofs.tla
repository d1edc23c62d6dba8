---------------------------- MODULE StoresProofs ----------------------------
(***************************************************************************)
(* The stores beside the source snapshots.  First the vector route of a    *)
(* project, for any number of readers, writers, documents, models, crashes *)
(* and errors; then the tables of the code graph, for any files, texts,    *)
(* search hits, generations and stops.                                     *)
(*                                                                         *)
(* None of the properties of the route is inductive.  That the file names  *)
(* a table that exists rests on what each stage of a bootstrap or a        *)
(* rebuild has done (Booting, Working); that a reader's table is kept      *)
(* rests on the cached view never naming the table that is being dropped,  *)
(* which rests on the cached view agreeing with the file except while an   *)
(* unfinished bootstrap refuses it or an uncertain root is closed          *)
(* (Cached); and all of it on exclusive work never running beside writers  *)
(* and workers (Gated).                                                    *)
(***************************************************************************)
EXTENDS VectorEpochs, GraphStore, TLAPS

Tables == Owned \cup {Legacy}
Space  == Models \cup {NoModel}
Works  == {"initialize", "recover", "collect", "prune"}

ReaderType == [pc : {"idle", "pinned", "reading", "lingering"}, table : Tables, query : Space]
WriterType == [pc : {"idle", "admitted", "lane", "mutex", "wait", "ready", "stored",
                     "open", "native", "detached"},
               kind : {"vector", "lexical"}, model : Space, doc : Docs \cup {NoModel},
               table : Tables]
BootType   == [pc : {"none", "lexical", "start", "receipt", "intent", "created", "published"},
               for : Writers \cup {NoModel}, model : Space, table : Tables]
ExclType   == [pc : Works \cup {"none", "receipt", "created", "scanned", "marked", "published",
                                "drop", "dropping", "forget", "remove", "pruned"},
               kind : Works \cup {"none"}, model : Space, prev : Records \cup {NoRoute},
               table : Tables, todo : SUBSET Owned, possible : BOOLEAN]

Typed ==
    /\ setting \in Settings
    /\ route \in Records \cup {NoRoute} /\ pending \in Owned \cup {NoRoute}
    /\ receipts \in SUBSET Owned /\ tables \in SUBSET Tables
    /\ made \in Nat
    /\ cache \in Views \cup {Unloaded}
    /\ pruning \in BOOLEAN /\ unproven \in BOOLEAN
    /\ phase \in {"ready", "exclusive", "uncertain"}
    /\ reader \in [Readers -> ReaderType]
    /\ writer \in [Writers -> WriterType]
    /\ boot \in BootType
    /\ excl \in ExclType

\* No token has been drawn twice: every table known has one of those drawn.
Fresh ==
    /\ \A t \in receipts \cup tables : t.token <= made
    /\ boot.table.token <= made
    /\ excl.kind # "collect" => excl.table.token <= made

\* Exclusive work runs beside no writer and no worker.
Gated ==
    /\ phase # "ready" => /\ \A w \in Writers : writer[w].pc = "idle"
                          /\ boot.pc \in {"none", "lexical"}
    /\ phase # "exclusive" => excl = NoExcl
    /\ phase = "exclusive" => excl.pc # "none"
    /\ pruning => excl.pc = "pruned"

\* The file names a table that exists and has a receipt.
Served == route # NoRoute => route.table \in tables /\ route.table \in receipts

\* The cached view names an existing table, with the embedder of that table
\* or none, and agrees with the file unless it is refused or the root closed.
Cached == cache # Unloaded =>
    /\ cache.record # NoRoute => cache.record.table \in tables
    /\ cache.query \in {NoModel, TableOf(cache.record).model}
    /\ \/ TableOf(cache.record) = TableOf(route)
       \/ cache.record = NoRoute /\ pending # NoRoute
       \/ phase = "uncertain" \/ excl.possible

\* What a bootstrap has done at each of its stages.
Booting ==
    /\ boot.pc \notin {"none", "lexical"} => boot.model \in Models
    /\ boot.pc \in {"receipt", "intent", "created", "published"} =>
          boot.table \in Owned /\ boot.table.model = boot.model
    /\ boot.pc \in {"receipt", "intent", "created"} =>
          route = NoRoute /\ (cache # Unloaded => cache.record = NoRoute)
    /\ boot.pc \in {"intent", "created", "published"} => pending # NoRoute
    /\ boot.pc \in {"created", "published"} => boot.table \in tables
    /\ boot.pc = "published" =>
          route # NoRoute /\ cache # Unloaded /\ TableOf(cache.record) = TableOf(route)

\* The writer a bootstrap works for waits for it.
Waiting == boot.pc \notin {"none", "lexical"} /\ boot.for \in Writers =>
    writer[boot.for].pc = "wait"

\* The stage of a rebuild, or the table being dropped, is named by nobody.
Unnamed(t) ==
    /\ t \in Owned /\ t # TableOf(route)
    /\ cache # Unloaded => t # TableOf(cache.record)

\* What exclusive work has done at each of its stages.
Working ==
    /\ excl.pc # "none" => excl.model \in Models
    /\ excl.pc \in Works => excl.kind = excl.pc
    /\ excl.pc \in {"receipt", "created", "scanned", "marked", "published"} =>
          excl.kind \in {"initialize", "recover"}
    /\ excl.pc \in {"receipt", "created", "scanned", "marked"} =>
          Unnamed(excl.table) /\ excl.table.model = excl.model
    /\ excl.pc \in {"created", "scanned", "marked"} => excl.table \in tables
    /\ excl.pc = "marked" => excl.possible
    /\ excl.pc = "published" => cache # Unloaded /\ TableOf(cache.record) = TableOf(route)
    /\ excl.pc \in {"drop", "dropping", "forget", "remove"} =>
          /\ excl.table \in Owned
          /\ excl.kind # "collect" \/ excl.pc # "drop" => Unnamed(excl.table)
    /\ excl.pc = "remove" => excl.kind = "collect"
    /\ excl.pc = "pruned" => excl.kind = "prune"
    /\ excl.kind \in {"collect", "prune"} => ~excl.possible
    /\ excl.kind = "collect" /\ (excl.todo # {} \/ excl.pc # "collect") => route # NoRoute

\* Nobody reads the table that is being dropped.
Spared == excl.pc = "dropping" =>
    \A r \in Readers : reader[r].pc # "idle" => reader[r].table # excl.table

\* A writer with a handle has the handle of the routed table.
Writes == \A w \in Writers :
    /\ writer[w].pc \notin {"idle"} => writer[w].model \in Models
    /\ writer[w].pc \in {"open", "native", "detached"} =>
          /\ route # NoRoute /\ writer[w].table = route.table
          /\ writer[w].table.model = writer[w].model

\* A reader's table is there, and its query fits it.
Reads == \A r \in Readers :
    /\ reader[r].query \in {NoModel, reader[r].table.model}
    /\ reader[r].pc # "idle" => reader[r].table \in tables \cup {Legacy}
    /\ reader[r].pc = "lingering" => unproven
    /\ reader[r].pc \in {"reading", "lingering"} => reader[r].table # Legacy
    /\ pruning => reader[r].pc = "idle"

\* Every row is in the space of its table.
Pure == \A x \in rows : x[3] = x[1].model

IInv == /\ Typed /\ Fresh /\ Gated /\ Served /\ Cached
        /\ Booting /\ Waiting /\ Working /\ Spared /\ Writes /\ Reads /\ Pure

-----------------------------------------------------------------------------
(* The tables of the model, and what a pin finds.                          *)

\* The table of an earlier version is not an owned one.
LEMMA LegacyNotOwned ==
    /\ Legacy \notin Owned /\ Legacy.model = NoModel /\ Legacy.token = 0
    /\ \A t \in Owned : t # Legacy /\ t.token \in Nat \ {0} /\ t.model \in Models
  BY EpochsAssumption DEF Legacy, Owned

\* What a record names.
LEMMA RecordTables ==
    ASSUME NEW r \in Records \cup {NoRoute}
    PROVE  /\ TableOf(r) \in Tables /\ Retired(r) \in SUBSET Owned
           /\ r # NoRoute => /\ r \in Records /\ TableOf(r) = r.table
                             /\ r.table \in Owned /\ r.retired \in SUBSET Owned
           /\ r = NoRoute => TableOf(r) = Legacy /\ Retired(r) = {}
  BY DEF TableOf, Retired, Records, Tables

\* Whatever is pinned, the cached view or the file, exists, and the embedder
\* that is attached is the table's own.
LEMMA SeenIsServed ==
    ASSUME IInv, NEW m \in Models
    PROVE  /\ Seen \in Records \cup {NoRoute}
           /\ Seen # NoRoute => Seen.table \in tables
           /\ cache # Unloaded => Seen = cache.record
           /\ cache = Unloaded => Seen = route
           /\ View(m) \in Views /\ View(m) # Unloaded /\ View(m).record = Seen
           /\ View(m).query \in {NoModel, TableOf(Seen).model}
<1>1. /\ Seen \in Records \cup {NoRoute}
      /\ cache # Unloaded => Seen = cache.record /\ cache \in Views
      /\ cache = Unloaded => Seen = route
    BY DEF IInv, Typed, Seen, Views
<1>2. Seen # NoRoute => Seen.table \in tables
    BY <1>1 DEF IInv, Served, Cached
<1>3. View(m).record = Seen
    BY DEF View
<1>4. View(m).query \in {NoModel, TableOf(Seen).model}
  <2>1. CASE Seen # NoRoute /\ Seen.table.model = m
    BY <2>1 DEF View, TableOf
  <2>2. CASE ~(Seen # NoRoute /\ Seen.table.model = m)
    BY <1>1, <2>2 DEF View, IInv, Cached
  <2> QED
    BY <2>1, <2>2
<1>5. View(m) \in Views
  <2>1. View(m).query \in Models \cup {NoModel}
    BY <1>1 DEF View, Views
  <2> QED
    BY <1>1, <2>1 DEF View, Views
<1> QED
    BY <1>1, <1>2, <1>3, <1>4, <1>5, EpochsAssumption

\* A look at the route leaves in the cache what was found.
LEMMA ViewStep ==
    ASSUME IInv, cache' = cache \/ \E m \in Models : cache' = View(m),
           UNCHANGED <<route, pending, phase, tables, excl>>
    PROVE  /\ cache' \in Views \cup {Unloaded} /\ Cached' /\ Working'
           /\ boot' = boot => Booting'
<1>1. CASE cache' = cache
    BY <1>1 DEF IInv, Typed, Cached, Working, Unnamed, Booting
<1>2. ASSUME NEW m \in Models, cache' = View(m)
      PROVE  /\ cache' \in Views \cup {Unloaded} /\ Cached' /\ Working'
             /\ boot' = boot => Booting'
  <2>1. /\ cache' \in Views /\ cache' # Unloaded /\ cache'.record = Seen
        /\ cache'.query \in {NoModel, TableOf(Seen).model}
        /\ Seen # NoRoute => Seen.table \in tables
        /\ cache # Unloaded => Seen = cache.record
        /\ cache = Unloaded => Seen = route
    BY <1>2, SeenIsServed
  <2>2. Cached'
    BY <2>1 DEF IInv, Cached
  <2>3. Working'
    BY <2>1 DEF IInv, Working, Unnamed
  <2>4. boot' = boot => Booting'
    BY <2>1 DEF IInv, Booting
  <2> QED
    BY <2>1, <2>2, <2>3, <2>4
<1> QED
    BY <1>1, <1>2

\* Every initial state satisfies the invariant.
LEMMA InitIInv == Init => IInv
<1> SUFFICES ASSUME Init PROVE IInv
    OBVIOUS
<1>1. /\ NoReader \in ReaderType /\ NoWriter \in WriterType
      /\ NoBoot \in BootType /\ NoExcl \in ExclType
    BY DEF NoReader, NoWriter, NoBoot, NoExcl, ReaderType, WriterType, BootType,
           ExclType, Tables, Space, Works
<1>2. tables \in SUBSET {Legacy}
    BY DEF Init
<1>3. Typed
    BY <1>1, <1>2 DEF Init, Typed, Tables
<1>4. Fresh
    BY <1>2, LegacyNotOwned DEF Init, Fresh, NoBoot, NoExcl
<1>5. Gated /\ Served /\ Cached
    BY DEF Init, Gated, Served, Cached, NoWriter, NoBoot, NoExcl
<1>6. Booting /\ Waiting /\ Working /\ Spared
    BY DEF Init, Booting, Waiting, Working, Spared, NoBoot, NoExcl, Works
<1>7. Writes /\ Reads
    BY DEF Init, Writes, Reads, NoWriter, NoReader
<1>8. Pure
  <2>1. rows = {<<t, d, NoModel>> : t \in tables, d \in docs}
    BY DEF Init
  <2> SUFFICES ASSUME NEW x \in rows PROVE x[3] = x[1].model
    BY DEF Pure
  <2>2. PICK t \in tables, d \in docs : x = <<t, d, NoModel>>
    BY <2>1
  <2> QED
    BY <1>2, <2>2, LegacyNotOwned
<1> QED
    BY <1>3, <1>4, <1>5, <1>6, <1>7, <1>8 DEF IInv

-----------------------------------------------------------------------------
(* Readers.                                                                *)

\* A reader's step is judged by the readers it leaves.
LEMMA ReaderStep ==
    ASSUME IInv, cache' = cache \/ \E m \in Models : cache' = View(m),
           UNCHANGED <<setting, route, pending, receipts, tables, rows, made,
                       pruning, phase, writer, boot, excl>>,
           reader' \in [Readers -> ReaderType], unproven' \in BOOLEAN,
           Reads', Spared'
    PROVE  IInv'
<1>1. cache' \in Views \cup {Unloaded} /\ Cached' /\ Working' /\ Booting'
    BY ViewStep
<1>2. Typed'
    BY <1>1 DEF IInv, Typed
<1>3. Fresh' /\ Gated' /\ Served'
    BY DEF IInv, Fresh, Gated, Served
<1>4. Writes' /\ Pure' /\ Waiting'
    BY DEF IInv, Writes, Pure, Waiting
<1> QED
    BY <1>1, <1>2, <1>3, <1>4 DEF IInv

\* A pin finds a table that exists and is not the one being dropped.
LEMMA PinIInv ==
    ASSUME IInv, UNCHANGED setting, NEW r \in Readers, NEW m \in Models, Pin(r, m)
    PROVE  IInv'
<1> DEFINE new == [pc |-> "pinned", table |-> TableOf(Seen), query |-> View(m).query]
<1>1. /\ reader' = [reader EXCEPT ![r] = new] /\ cache' = View(m) /\ ~pruning
      /\ UNCHANGED <<route, pending, receipts, tables, rows, made, pruning, unproven,
                     phase, writer, boot, excl>>
    BY DEF Pin, files, store, gate
<1>2. /\ Seen \in Records \cup {NoRoute}
      /\ Seen # NoRoute => Seen.table \in tables
      /\ cache # Unloaded => Seen = cache.record
      /\ cache = Unloaded => Seen = route
      /\ View(m) \in Views /\ View(m).query \in {NoModel, TableOf(Seen).model}
    BY SeenIsServed
<1>3. TableOf(Seen) \in Tables /\ TableOf(Seen) \in tables \cup {Legacy}
    BY <1>2, RecordTables
<1>4. new \in ReaderType
    BY <1>2, <1>3 DEF ReaderType, Views, Space
<1>5. /\ new.pc = "pinned" /\ new.table = TableOf(Seen)
      /\ new.query \in {NoModel, new.table.model}
    BY <1>2
<1> HIDE DEF new
<1>6. /\ reader' \in [Readers -> ReaderType] /\ reader'[r] = new
      /\ \A q \in Readers : q # r => reader'[q] = reader[q]
    BY <1>1, <1>4 DEF IInv, Typed
<1>7. Reads'
    BY <1>1, <1>3, <1>5, <1>6 DEF IInv, Reads
<1>8. excl.pc = "dropping" => TableOf(Seen) # excl.table
    BY <1>2 DEF IInv, Working, Unnamed
<1>9. Spared'
    BY <1>1, <1>5, <1>6, <1>8 DEF IInv, Spared
<1>10. unproven' \in BOOLEAN
    BY <1>1 DEF IInv, Typed
<1> QED
    BY <1>1, <1>6, <1>7, <1>9, <1>10, ReaderStep

\* The other steps of a reader keep its table or drop its pin.
LEMMA ReadIInv ==
    ASSUME IInv, UNCHANGED setting, NEW r \in Readers,
           StartRead(r) \/ EndRead(r) \/ FailRead(r)
    PROVE  IInv'
<1>1. /\ UNCHANGED <<cache, route, pending, receipts, tables, rows, made, pruning,
                     phase, writer, boot, excl>>
      /\ unproven' = unproven \/ unproven' = TRUE
    BY DEF StartRead, EndRead, FailRead, files, store, gate
<1>2. /\ unproven' \in BOOLEAN /\ (unproven => unproven')
    BY <1>1 DEF IInv, Typed
<1>3. PICK new \in ReaderType :
         /\ reader' = [reader EXCEPT ![r] = new]
         /\ \/ new = NoReader
            \/ /\ new.table = reader[r].table /\ new.query = reader[r].query
               /\ reader[r].pc # "idle"
               /\ new.pc = "lingering" => unproven'
               /\ new.table # Legacy
  <2>1. reader[r] \in ReaderType
    BY DEF IInv, Typed
  <2>2. CASE EndRead(r)
    <3>1. NoReader \in ReaderType
      BY DEF NoReader, ReaderType, Tables, Space
    <3> QED
      BY <2>2, <3>1 DEF EndRead
  <2>3. CASE StartRead(r)
    <3>1. [reader[r] EXCEPT !.pc = "reading"] \in ReaderType
      BY <2>1 DEF ReaderType
    <3>2. reader[r].table # Legacy
      BY <2>3, LegacyNotOwned DEF StartRead, IInv, Typed
    <3> QED
      BY <2>1, <2>3, <3>1, <3>2 DEF StartRead, ReaderType
  <2>4. CASE FailRead(r)
    <3>1. [reader[r] EXCEPT !.pc = "lingering"] \in ReaderType
      BY <2>1 DEF ReaderType
    <3>2. reader[r].table # Legacy
      BY <2>4 DEF FailRead, IInv, Reads
    <3> QED
      BY <2>1, <2>4, <3>1, <3>2 DEF FailRead, ReaderType
  <2> QED
    BY <2>2, <2>3, <2>4
<1>4. /\ reader' \in [Readers -> ReaderType] /\ reader'[r] = new
      /\ \A q \in Readers : q # r => reader'[q] = reader[q]
    BY <1>3 DEF IInv, Typed
<1>5. NoReader.pc = "idle" /\ NoReader.query = NoModel
    BY DEF NoReader
<1>6. Reads'
    BY <1>1, <1>2, <1>3, <1>4, <1>5 DEF IInv, Reads
<1>7. Spared'
    BY <1>1, <1>3, <1>4, <1>5 DEF IInv, Spared
<1> QED
    BY <1>1, <1>2, <1>4, <1>6, <1>7, ReaderStep

-----------------------------------------------------------------------------
(* Writers.                                                                *)

\* A writer's step is judged by the writer and the bootstrap it leaves.
LEMMA WriterStep ==
    ASSUME IInv, phase = "ready", NEW w \in Writers, NEW n \in WriterType,
           writer' = [writer EXCEPT ![w] = n],
           n.pc # "idle" => n.model \in Models,
           n.pc \in {"open", "native", "detached"} =>
               route # NoRoute /\ n.table = route.table /\ n.table.model = n.model,
           cache' = cache \/ \E m \in Models : cache' = View(m),
           UNCHANGED <<setting, route, pending, receipts, tables, made, pruning,
                       unproven, reader, phase, excl>>,
           boot' \in BootType, boot'.table.token <= made, Booting', Waiting', Pure'
    PROVE  IInv'
<1>1. cache' \in Views \cup {Unloaded} /\ Cached' /\ Working'
    BY ViewStep
<1>2. /\ writer' \in [Writers -> WriterType] /\ writer'[w] = n
      /\ \A v \in Writers : v # w => writer'[v] = writer[v]
    BY DEF IInv, Typed
<1>3. Typed'
    BY <1>1, <1>2 DEF IInv, Typed
<1>4. Fresh'
    BY DEF IInv, Fresh
<1>5. Gated'
    BY DEF IInv, Gated
<1>6. Served' /\ Reads' /\ Spared'
    BY DEF IInv, Served, Reads, Spared
<1>7. Writes'
    BY <1>2 DEF IInv, Writes
<1> QED
    BY <1>1, <1>3, <1>4, <1>5, <1>6, <1>7 DEF IInv

\* The same when the bootstrap is left alone.
LEMMA LoneWriterStep ==
    ASSUME IInv, phase = "ready", NEW w \in Writers, NEW n \in WriterType,
           writer' = [writer EXCEPT ![w] = n],
           n.pc # "idle" => n.model \in Models,
           n.pc \in {"open", "native", "detached"} =>
               route # NoRoute /\ n.table = route.table /\ n.table.model = n.model,
           cache' = cache \/ \E m \in Models : cache' = View(m),
           UNCHANGED <<setting, route, pending, receipts, tables, made, pruning,
                       unproven, reader, phase, excl, boot>>,
           writer[w].pc # "wait", Pure'
    PROVE  IInv'
<1>1. Booting'
    BY ViewStep
<1>2. boot' \in BootType /\ boot'.table.token <= made
    BY DEF IInv, Typed, Fresh
<1>3. Waiting'
    BY DEF IInv, Waiting, Typed
<1> QED
    BY <1>1, <1>2, <1>3, WriterStep

\* A writer at work keeps exclusive work out.
LEMMA WriterKeepsReady ==
    ASSUME IInv, NEW w \in Writers, writer[w].pc # "idle"
    PROVE  phase = "ready" /\ writer[w] \in WriterType /\ writer[w].model \in Models
  BY DEF IInv, Gated, Writes, Typed

\* Admission.
LEMMA AdmitIInv ==
    ASSUME IInv, UNCHANGED setting, NEW w \in Writers, NEW kind \in {"vector", "lexical"},
           NEW m \in Models, NEW d \in Docs, Admit(w, kind, m, d)
    PROVE  IInv'
<1> DEFINE n == [pc |-> "admitted", kind |-> kind, model |-> m, doc |-> d, table |-> Legacy]
<1>1. /\ phase = "ready" /\ writer' = [writer EXCEPT ![w] = n] /\ writer[w].pc = "idle"
      /\ UNCHANGED <<setting, route, pending, receipts, tables, rows, made, cache, pruning,
                     unproven, reader, phase, excl, boot>>
    BY DEF Admit, files, store, leases, gate
<1>2. n \in WriterType /\ n.pc = "admitted" /\ n.model \in Models
    BY DEF WriterType, Tables, Space
<1>3. Pure'
    BY <1>1 DEF IInv, Pure
<1> HIDE DEF n
<1> QED
    BY <1>1, <1>2, <1>3, LoneWriterStep

\* The steps that move a writer on: the lane, the preflight and the start of
\* the native write.
LEMMA AdvanceIInv ==
    ASSUME IInv, UNCHANGED setting, NEW w \in Writers,
           TakeLane(w) \/ Preflight(w) \/ StartUpsert(w)
    PROVE  IInv'
<1>1. writer[w].pc # "idle" /\ writer[w].pc # "wait"
    BY DEF TakeLane, Preflight, StartUpsert
<1>2. phase = "ready" /\ writer[w] \in WriterType /\ writer[w].model \in Models
    BY <1>1, WriterKeepsReady
<1>3. UNCHANGED <<route, pending, receipts, tables, rows, made, pruning,
                  unproven, reader, phase, excl, boot>>
    BY DEF TakeLane, Preflight, StartUpsert, files, store, leases, gate
<1>4. cache' = cache \/ \E m \in Models : cache' = View(m)
    BY <1>2 DEF TakeLane, Preflight, StartUpsert
<1>5. PICK pc \in {"lane", "mutex", "ready", "native"} :
         /\ writer' = [writer EXCEPT ![w].pc = pc]
         /\ pc = "native" => writer[w].pc = "open"
    BY DEF TakeLane, Preflight, StartUpsert
<1> DEFINE n == [writer[w] EXCEPT !.pc = pc]
<1>6. /\ n \in WriterType /\ n.pc = pc /\ n.model = writer[w].model
      /\ n.table = writer[w].table
    BY <1>2 DEF WriterType
<1>7. writer' = [writer EXCEPT ![w] = n]
    BY <1>5
<1>8. Pure'
    BY <1>3 DEF IInv, Pure
<1>9. n.pc \in {"open", "native", "detached"} =>
         route # NoRoute /\ n.table = route.table /\ n.table.model = n.model
    BY <1>5, <1>6 DEF IInv, Writes
<1> HIDE DEF n
<1> QED
    BY <1>1, <1>2, <1>3, <1>4, <1>6, <1>7, <1>8, <1>9, LoneWriterStep

\* The handle a writer opens is the routed table's: while the root is open
\* the cached view agrees with the file.
LEMMA OpenTableIInv ==
    ASSUME IInv, UNCHANGED setting, NEW w \in Writers, OpenTable(w)
    PROVE  IInv'
<1> DEFINE n == [writer[w] EXCEPT !.pc = "open", !.table = Seen.table]
<1>1. /\ writer[w].pc = "stored" /\ ~Refused(Seen) /\ Seen # NoRoute
      /\ Seen.table.model = writer[w].model
      /\ cache' = View(writer[w].model)
      /\ writer' = [writer EXCEPT ![w].pc = "open", ![w].table = Seen.table]
      /\ UNCHANGED <<route, pending, receipts, tables, rows, made, pruning,
                     unproven, reader, phase, excl, boot>>
    BY DEF OpenTable, files, store, leases, gate
<1>2. phase = "ready" /\ writer[w] \in WriterType /\ writer[w].model \in Models
    BY <1>1, WriterKeepsReady
<1>3. /\ Seen \in Records \cup {NoRoute}
      /\ cache # Unloaded => Seen = cache.record
      /\ cache = Unloaded => Seen = route
    BY <1>2, SeenIsServed
<1>4. Seen.table \in Owned /\ TableOf(Seen) = Seen.table
    BY <1>1, <1>3, RecordTables
<1>5. ~excl.possible
    BY <1>2 DEF IInv, Gated, NoExcl
<1>6. TableOf(Seen) = TableOf(route)
    BY <1>1, <1>2, <1>3, <1>5 DEF IInv, Cached
<1>7. route # NoRoute /\ Seen.table = route.table
    BY <1>4, <1>6, LegacyNotOwned DEF TableOf
<1>8. /\ n \in WriterType /\ n.pc = "open" /\ n.model = writer[w].model
      /\ n.table = Seen.table
    BY <1>2, <1>4 DEF WriterType, Tables
<1>9. writer' = [writer EXCEPT ![w] = n]
    BY <1>1 DEF IInv, Typed
<1>10. Pure'
    BY <1>1 DEF IInv, Pure
<1>11. \E m \in Models : cache' = View(m)
    BY <1>1, <1>2
<1> HIDE DEF n
<1> QED
    BY <1>1, <1>2, <1>7, <1>8, <1>9, <1>10, <1>11, LoneWriterStep

\* The vectors arrive in the table of their model.
LEMMA UpsertIInv ==
    ASSUME IInv, UNCHANGED setting, NEW w \in Writers, Upsert(w)
    PROVE  IInv'
<1>1. /\ writer[w].pc \in {"native", "detached"}
      /\ rows' = rows \cup {<<writer[w].table, writer[w].doc, writer[w].model>>}
      /\ writer' = [writer EXCEPT ![w] = NoWriter]
      /\ UNCHANGED <<route, pending, receipts, tables, made, cache, pruning,
                     unproven, reader, phase, excl, boot>>
    BY DEF Upsert, files, leases, gate
<1>2. phase = "ready"
    BY <1>1, WriterKeepsReady
<1>3. NoWriter \in WriterType /\ NoWriter.pc = "idle"
    BY DEF NoWriter, WriterType, Tables, Space
<1>4. writer[w].table.model = writer[w].model
    BY <1>1 DEF IInv, Writes
<1>5. Pure'
    BY <1>1, <1>4 DEF IInv, Pure
<1> QED
    BY <1>1, <1>2, <1>3, <1>5, LoneWriterStep

\* The commit of the documents; a lexical writer is done and gives the mutex
\* back.
LEMMA CommitLexicalIInv ==
    ASSUME IInv, UNCHANGED setting, NEW w \in Writers, CommitLexical(w)
    PROVE  IInv'
<1>1. /\ writer[w].pc = "ready"
      /\ UNCHANGED <<route, pending, receipts, tables, rows, made, cache, pruning,
                     unproven, reader, phase, excl>>
    BY DEF CommitLexical, files, leases, gate
<1>2. phase = "ready" /\ writer[w] \in WriterType /\ writer[w].model \in Models
    BY <1>1, WriterKeepsReady
<1>3. Pure'
    BY <1>1 DEF IInv, Pure
<1>4. CASE writer[w].kind = "lexical"
  <2>1. NoWriter \in WriterType /\ NoWriter.pc = "idle"
    BY DEF NoWriter, WriterType, Tables, Space
  <2>2. writer' = [writer EXCEPT ![w] = NoWriter] /\ boot' \in {boot, NoBoot}
    BY <1>4 DEF CommitLexical
  <2>3. NoBoot \in BootType /\ NoBoot.pc = "none" /\ NoBoot.table.token = 0
    BY LegacyNotOwned DEF NoBoot, BootType, Tables, Space
  <2>4. made \in Nat /\ boot \in BootType /\ boot.table.token <= made
    BY DEF IInv, Typed, Fresh
  <2>5. boot' \in BootType /\ boot'.table.token <= made
    BY <2>2, <2>3, <2>4
  <2>6. Booting'
    BY <1>1, <2>2, <2>3 DEF IInv, Booting
  <2>7. Waiting'
    BY <1>1, <2>2, <2>3 DEF IInv, Waiting, Typed
  <2> QED
    BY <1>1, <1>2, <1>3, <2>1, <2>2, <2>5, <2>6, <2>7, WriterStep
<1>5. CASE writer[w].kind # "lexical"
  <2> DEFINE n == [writer[w] EXCEPT !.pc = "stored"]
  <2>1. n \in WriterType /\ n.pc = "stored" /\ n.model = writer[w].model
    BY <1>2 DEF WriterType
  <2>2. writer' = [writer EXCEPT ![w] = n] /\ boot' = boot
    BY <1>5 DEF CommitLexical
  <2> HIDE DEF n
  <2> QED
    BY <1>1, <1>2, <1>3, <2>1, <2>2, LoneWriterStep
<1> QED
    BY <1>4, <1>5

\* A lexical writer takes the bootstrap mutex, or a vector writer's worker
\* does.
LEMMA TakeMutexIInv ==
    ASSUME IInv, UNCHANGED setting, NEW w \in Writers, TakeMutex(w) \/ StartBootstrap(w)
    PROVE  IInv'
<1>1. /\ writer[w].pc # "idle"
      /\ UNCHANGED <<route, pending, receipts, tables, rows, made, cache, pruning,
                     unproven, reader, phase, excl>>
    BY DEF TakeMutex, StartBootstrap, files, store, leases, gate
<1>2. phase = "ready" /\ writer[w] \in WriterType /\ writer[w].model \in Models
    BY <1>1, WriterKeepsReady
<1>3. PICK pc \in {"ready", "wait"} :
         /\ writer' = [writer EXCEPT ![w].pc = pc]
         /\ boot'.pc = "start" => pc = "wait" /\ boot'.for = w
    BY DEF TakeMutex, StartBootstrap, NoBoot
<1> DEFINE n == [writer[w] EXCEPT !.pc = pc]
<1>4. n \in WriterType /\ n.pc = pc /\ n.model = writer[w].model
    BY <1>2 DEF WriterType
<1>5. writer' = [writer EXCEPT ![w] = n]
    BY <1>3
<1>6. /\ boot' \in BootType /\ boot'.table = Legacy /\ boot'.pc \in {"lexical", "start"}
      /\ boot'.pc = "start" => boot'.model \in Models
    BY <1>2 DEF TakeMutex, StartBootstrap, NoBoot, BootType, Space, Tables
<1>7. boot'.table.token <= made
    BY <1>6, LegacyNotOwned DEF IInv, Typed
<1>8. Booting'
    BY <1>6 DEF Booting
<1>9. Pure'
    BY <1>1 DEF IInv, Pure
<1>10. Waiting'
    BY <1>3, <1>6 DEF IInv, Waiting, Typed, WriterType
<1> HIDE DEF n
<1> QED
    BY <1>1, <1>2, <1>4, <1>5, <1>6, <1>7, <1>8, <1>9, <1>10, WriterStep

\* A writer goes away and its workers go on.
LEMMA LeaveIInv ==
    ASSUME IInv, UNCHANGED setting, NEW w \in Writers, Leave(w)
    PROVE  IInv'
<1>1. /\ writer[w].pc # "idle"
      /\ UNCHANGED <<route, pending, receipts, tables, rows, made, cache, pruning,
                     unproven, reader, phase, excl>>
    BY DEF Leave, files, store, leases, gate
<1>2. phase = "ready" /\ writer[w] \in WriterType /\ writer[w].model \in Models
    BY <1>1, WriterKeepsReady
<1> DEFINE n == IF writer[w].pc = "native" THEN [writer[w] EXCEPT !.pc = "detached"] ELSE NoWriter
<1>3. writer' = [writer EXCEPT ![w] = n]
    BY DEF Leave, IInv, Typed
<1>4. /\ n \in WriterType
      /\ n.pc # "idle" => /\ writer[w].pc = "native" /\ n.model = writer[w].model
                          /\ n.table = writer[w].table
  <2>1. CASE writer[w].pc = "native"
    BY <1>2, <2>1 DEF WriterType
  <2>2. CASE writer[w].pc # "native"
    BY <2>2 DEF NoWriter, WriterType, Tables, Space
  <2> QED
    BY <2>1, <2>2
<1> HIDE DEF n
<1>5. n.pc # "idle" => /\ n.model \in Models
                       /\ route # NoRoute /\ n.table = route.table /\ n.table.model = n.model
    BY <1>2, <1>4 DEF IInv, Writes
<1>6. NoBoot \in BootType /\ NoBoot.pc = "none" /\ NoBoot.table.token = 0
    BY LegacyNotOwned DEF NoBoot, BootType, Tables, Space
<1>7. made \in Nat /\ boot \in BootType /\ boot.table.token <= made
    BY DEF IInv, Typed, Fresh
<1>8. boot' \in {boot, NoBoot, [boot EXCEPT !.for = NoModel]}
    BY DEF Leave
<1>9. /\ boot' \in BootType /\ boot'.table.token <= made
      /\ \/ boot'.pc = "none"
         \/ boot'.pc = boot.pc /\ boot'.model = boot.model /\ boot'.table = boot.table
    BY <1>6, <1>7, <1>8 DEF BootType
<1>10. Booting'
    BY <1>1, <1>9 DEF IInv, Booting
<1>11. Pure'
    BY <1>1 DEF IInv, Pure
<1>12. Waiting'
  <2>1. boot.for = w => boot'.pc = "none" \/ boot'.for = NoModel
    BY <1>6, <1>7 DEF Leave, BootType
  <2>2. boot.for # w => boot' = boot
    BY DEF Leave
  <2> QED
    BY <1>3, <2>1, <2>2, EpochsAssumption DEF IInv, Waiting, Typed
<1> QED
    BY <1>1, <1>2, <1>3, <1>4, <1>5, <1>9, <1>10, <1>11, <1>12, WriterStep

-----------------------------------------------------------------------------
(* The bootstrap worker.                                                   *)

\* The worker's report moves its waiting writer on or away, and nobody else.
LEMMA ReportMoves ==
    ASSUME IInv, boot.pc \notin {"none", "lexical"}, NEW pc \in {"ready", "idle"}
    PROVE  /\ Report(pc) \in [Writers -> WriterType]
           /\ \A w \in Writers :
                 \/ Report(pc)[w] = writer[w]
                 \/ Report(pc)[w].pc = pc /\ (pc = "ready" => Report(pc)[w].model \in Models)
<1>1. CASE boot.for \notin Writers
    BY <1>1 DEF Report, IInv, Typed
<1>2. CASE boot.for \in Writers
  <2> DEFINE f == boot.for
             n == IF pc = "idle" THEN NoWriter ELSE [writer[f] EXCEPT !.pc = pc]
  <2>1. Report(pc) = [writer EXCEPT ![f] = n]
    BY <1>2 DEF Report, IInv, Typed
  <2>2. writer[f].pc = "wait" /\ writer[f] \in WriterType /\ writer[f].model \in Models
    BY <1>2 DEF IInv, Waiting, Writes, Typed
  <2>3. NoWriter \in WriterType /\ NoWriter.pc = "idle"
    BY DEF NoWriter, WriterType, Tables, Space
  <2>4. n \in WriterType /\ n.pc = pc /\ (pc = "ready" => n.model \in Models)
    BY <2>2, <2>3 DEF WriterType
  <2>5. f \in Writers
    BY <1>2
  <2> HIDE DEF f, n
  <2> QED
    BY <2>1, <2>4, <2>5 DEF IInv, Typed
<1> QED
    BY <1>1, <1>2

\* A worker's step is judged by the files, the view and the worker it leaves:
\* no exclusive work runs beside it, and a writer with a handle means that the
\* file has a route.
LEMMA BootStep ==
    ASSUME IInv, boot.pc \notin {"none", "lexical"},
           UNCHANGED <<setting, rows, pruning, unproven, reader, phase, excl>>,
           route' \in Records \cup {NoRoute}, pending' \in Owned \cup {NoRoute},
           receipts' \in SUBSET Owned, tables' \in SUBSET Tables, made' \in Nat,
           cache' \in Views \cup {Unloaded}, boot' \in BootType,
           \/ writer' = writer /\ boot'.for = boot.for
           \/ boot'.pc = "none" /\ (writer' = Report("ready") \/ writer' = Report("idle")),
           route' = route \/ route = NoRoute, tables \subseteq tables',
           made <= made',
           Fresh', Served', Cached', Booting'
    PROVE  IInv'
<1>1. phase = "ready" /\ excl = NoExcl
    BY DEF IInv, Typed, Gated
<1>2. /\ writer' \in [Writers -> WriterType]
      /\ \A w \in Writers :
            \/ writer'[w] = writer[w]
            \/ /\ writer'[w].pc \in {"ready", "idle"}
               /\ writer'[w].pc = "ready" => writer'[w].model \in Models
  <2>1. CASE writer' = writer
    BY <2>1 DEF IInv, Typed
  <2>2. CASE writer' = Report("ready")
    BY <2>2, ReportMoves
  <2>3. CASE writer' = Report("idle")
    BY <2>3, ReportMoves
  <2> QED
    BY <2>1, <2>2, <2>3
<1>3. Typed'
    BY <1>2 DEF IInv, Typed
<1>4. Gated'
    BY <1>1 DEF IInv, Gated
<1>5. Working' /\ Spared'
    BY <1>1 DEF Working, Spared, NoExcl, Works
<1>6. Writes'
    BY <1>2 DEF IInv, Writes
<1>7. Waiting'
    BY DEF IInv, Waiting
<1>8. Reads' /\ Pure'
    BY DEF IInv, Reads, Pure
<1> QED
    BY <1>3, <1>4, <1>5, <1>6, <1>7, <1>8 DEF IInv

\* The receipt is written for a fresh token.
LEMMA BootstrapIInv ==
    ASSUME IInv, UNCHANGED setting, Bootstrap
    PROVE  IInv'
<1> DEFINE t == [kind |-> "canonical", token |-> made + 1, model |-> boot.model]
<1>1. /\ boot.pc = "start" /\ Seen = NoRoute /\ ~Refused(Seen)
      /\ made' = made + 1 /\ receipts' = receipts \cup {t}
      /\ boot' = [boot EXCEPT !.pc = "receipt", !.table = t]
      /\ UNCHANGED <<route, pending, tables, rows, cache, pruning, unproven, reader,
                     phase, writer, excl>>
    BY DEF Bootstrap, store, leases, gate
<1>2. made \in Nat /\ boot \in BootType /\ boot.model \in Models
    BY <1>1 DEF IInv, Typed, Booting
<1>3. t \in Owned /\ t.token = made + 1 /\ t.model = boot.model
    BY <1>2 DEF Owned
<1> HIDE DEF t
<1>4. /\ boot' \in BootType /\ boot'.pc = "receipt" /\ boot'.table = t
      /\ boot'.model = boot.model /\ boot'.for = boot.for
    BY <1>1, <1>2, <1>3 DEF BootType, Tables
<1>5. /\ cache # Unloaded => cache.record = NoRoute
      /\ pending = NoRoute
    BY <1>1 DEF Seen, Refused
<1>6. route = NoRoute
  <2>1. CASE cache = Unloaded
    BY <1>1, <2>1 DEF Seen
  <2>2. CASE cache # Unloaded
    <3>1. phase = "ready" /\ excl = NoExcl
      BY <1>1 DEF IInv, Typed, Gated
    <3>2. TableOf(cache.record) = TableOf(route)
      BY <1>5, <2>2, <3>1 DEF IInv, Cached, NoExcl
    <3> QED
      BY <1>5, <2>2, <3>2, RecordTables, LegacyNotOwned DEF IInv, Typed
  <2> QED
    BY <2>1, <2>2
<1>7. Fresh'
  <2>1. \A x \in receipts \cup tables : x.token \in Nat
    BY LegacyNotOwned DEF IInv, Typed, Tables
  <2>2. excl.table.token \in Nat
    BY LegacyNotOwned DEF IInv, Typed, ExclType, Tables
  <2> QED
    BY <1>1, <1>2, <1>3, <1>4, <2>1, <2>2 DEF IInv, Fresh
<1>8. Served' /\ Cached'
    BY <1>1 DEF IInv, Served, Cached
<1>9. Booting'
    BY <1>1, <1>2, <1>3, <1>4, <1>5, <1>6 DEF Booting
<1>10. /\ receipts' \in SUBSET Owned /\ made' \in Nat /\ made <= made'
    BY <1>1, <1>2, <1>3 DEF IInv, Typed
<1>11. /\ route' \in Records \cup {NoRoute} /\ pending' \in Owned \cup {NoRoute}
       /\ tables' \in SUBSET Tables /\ cache' \in Views \cup {Unloaded}
    BY <1>1 DEF IInv, Typed
<1>12. boot.pc \notin {"none", "lexical"}
    BY <1>1
<1> QED
    BY <1>1, <1>4, <1>7, <1>8, <1>9, <1>10, <1>11, <1>12, BootStep

\* The worker ends, with the files as they are or with what it wrote
\* withdrawn.
LEMMA BootEnds ==
    ASSUME IInv, UNCHANGED setting, BootstrapNot \/ BootstrapFail \/ BootstrapEnd
    PROVE  IInv'
<1>1. /\ boot.pc \notin {"none", "lexical"} /\ boot' = NoBoot
      /\ writer' = Report("ready") \/ writer' = Report("idle")
      /\ UNCHANGED <<route, tables, rows, made, cache, pruning, unproven, reader,
                     phase, excl>>
      /\ receipts' \in SUBSET receipts
      /\ pending' = pending \/ (pending' = NoRoute /\ boot.pc \in {"intent", "created", "published"})
      /\ receipts' = receipts \/ route = NoRoute
    BY DEF BootstrapNot, BootstrapFail, BootstrapEnd, files, store, leases, gate
<1>2. NoBoot \in BootType /\ NoBoot.pc = "none" /\ NoBoot.table = Legacy
    BY DEF NoBoot, BootType, Tables, Space
<1>3. made \in Nat /\ Legacy.token <= made
    BY LegacyNotOwned DEF IInv, Typed
<1>4. Fresh'
    BY <1>1, <1>2, <1>3 DEF IInv, Fresh
<1>5. Served'
    BY <1>1 DEF IInv, Served
<1>6. pending' = NoRoute /\ pending # NoRoute /\ cache # Unloaded
         => TableOf(cache.record) = TableOf(route)
    BY <1>1 DEF IInv, Booting
<1>7. Cached'
    BY <1>1, <1>6 DEF IInv, Cached
<1>8. Booting'
    BY <1>1, <1>2 DEF Booting
<1>9. /\ route' \in Records \cup {NoRoute} /\ pending' \in Owned \cup {NoRoute}
      /\ tables' \in SUBSET Tables /\ cache' \in Views \cup {Unloaded}
      /\ receipts' \in SUBSET Owned /\ made' \in Nat /\ made <= made'
    BY <1>1, <1>3 DEF IInv, Typed
<1> QED
    BY <1>1, <1>2, <1>4, <1>5, <1>7, <1>8, <1>9, BootStep

\* The intent is written, then the table is created.
LEMMA BootMoves ==
    ASSUME IInv, UNCHANGED setting, BootstrapIntent \/ BootstrapCreate
    PROVE  IInv'
<1>1. /\ boot.pc \in {"receipt", "intent"}
      /\ UNCHANGED <<route, receipts, rows, made, cache, pruning, unproven, reader,
                     phase, writer, excl>>
      /\ pending' = boot.table \/ (pending' = pending /\ boot.pc = "intent")
      /\ tables' = tables \/ tables' = tables \cup {boot.table}
    BY DEF BootstrapIntent, BootstrapCreate, files, store, leases, gate
<1>2. /\ boot \in BootType /\ boot.table \in Owned /\ boot.table.token <= made
      /\ made \in Nat
    BY <1>1 DEF IInv, Typed, Booting, Fresh
<1>3. \/ boot' = [boot EXCEPT !.pc = "intent"]
      \/ boot' = [boot EXCEPT !.pc = "created"] /\ boot.table \in tables'
    BY DEF BootstrapIntent, BootstrapCreate
<1>4. /\ boot' \in BootType /\ boot'.pc \in {"intent", "created"}
      /\ boot'.pc = "created" => boot.table \in tables'
      /\ boot'.table = boot.table /\ boot'.model = boot.model /\ boot'.for = boot.for
    BY <1>2, <1>3 DEF BootType
<1>5. Fresh'
    BY <1>1, <1>2, <1>4 DEF IInv, Fresh
<1>6. Served'
    BY <1>1 DEF IInv, Served
<1>7. pending' # NoRoute
    BY <1>1, <1>2, EpochsAssumption DEF IInv, Booting
<1>8. Cached'
    BY <1>1, <1>7 DEF IInv, Cached
<1>9. Booting'
    BY <1>1, <1>4, <1>7 DEF IInv, Booting
<1>10. /\ route' \in Records \cup {NoRoute} /\ pending' \in Owned \cup {NoRoute}
       /\ tables' \in SUBSET Tables /\ cache' \in Views \cup {Unloaded}
       /\ receipts' \in SUBSET Owned /\ made' \in Nat /\ made <= made'
       /\ tables \subseteq tables' /\ boot.pc \notin {"none", "lexical"}
    BY <1>1, <1>2 DEF IInv, Typed, Tables
<1> QED
    BY <1>1, <1>4, <1>5, <1>6, <1>8, <1>9, <1>10, BootStep

\* The route is published, or the write fails with either file on disk; the
\* intent then makes the process refuse the view it has.
LEMMA BootstrapPublishIInv ==
    ASSUME IInv, UNCHANGED setting, BootstrapPublish
    PROVE  IInv'
<1> DEFINE record == [table |-> boot.table, retired |-> {}]
           view == [record |-> record, query |-> boot.model]
<1>1. /\ boot.pc = "created" /\ boot.table \in receipts
      /\ UNCHANGED <<pending, receipts, tables, rows, made, pruning, unproven, reader,
                     phase, excl>>
      /\ \/ /\ route' = record /\ cache' = view
            /\ boot' = [boot EXCEPT !.pc = "published"] /\ writer' = writer
         \/ /\ route' \in {route, record} /\ cache' = cache
            /\ boot' = NoBoot /\ writer' = Report("idle")
    BY DEF BootstrapPublish, Persisted, NotPersisted, store, leases, gate
<1>2. /\ boot \in BootType /\ boot.table \in Owned /\ boot.table.token <= made
      /\ made \in Nat /\ boot.model \in Models /\ boot.table.model = boot.model
      /\ boot.table \in tables /\ pending # NoRoute /\ route = NoRoute
      /\ cache # Unloaded => cache.record = NoRoute
    BY <1>1 DEF IInv, Typed, Booting, Fresh
<1>3. /\ record \in Records /\ record.table = boot.table /\ record # NoRoute
      /\ TableOf(record) = boot.table
    BY <1>2, EpochsAssumption DEF Records, TableOf
<1> HIDE DEF record
<1>4. view \in Views /\ view # Unloaded /\ view.record = record /\ view.query = boot.model
  <2>1. view \in Views /\ view.record = record /\ view.query = boot.model
    BY <1>2, <1>3 DEF Views
  <2> QED
    BY <2>1, EpochsAssumption
<1> HIDE DEF view
<1>5. NoBoot \in BootType /\ NoBoot.pc = "none" /\ NoBoot.table = Legacy /\ Legacy.token <= made
    BY <1>2, LegacyNotOwned DEF NoBoot, BootType, Tables, Space
<1>6. /\ boot' \in BootType
      /\ \/ /\ boot'.pc = "published" /\ boot'.table = boot.table /\ boot'.model = boot.model
            /\ route' = record /\ cache' = view /\ boot'.for = boot.for /\ writer' = writer
         \/ boot'.pc = "none" /\ boot'.table = Legacy /\ cache' = cache /\ writer' = Report("idle")
    BY <1>1, <1>2, <1>5 DEF BootType
<1>7. Fresh'
    BY <1>1, <1>2, <1>5, <1>6 DEF IInv, Fresh
<1>8. Served'
    BY <1>1, <1>2, <1>3 DEF IInv, Served
<1>9. Cached'
    BY <1>1, <1>2, <1>3, <1>4, <1>6 DEF IInv, Cached
<1>10. Booting'
    BY <1>1, <1>2, <1>3, <1>4, <1>6 DEF Booting
<1>11. /\ route' \in Records \cup {NoRoute} /\ pending' \in Owned \cup {NoRoute}
       /\ tables' \in SUBSET Tables /\ cache' \in Views \cup {Unloaded}
       /\ receipts' \in SUBSET Owned /\ made' \in Nat /\ made <= made'
       /\ boot.pc \notin {"none", "lexical"} /\ tables \subseteq tables'
    BY <1>1, <1>2, <1>3, <1>4, <1>6 DEF IInv, Typed
<1> QED
    BY <1>1, <1>2, <1>6, <1>7, <1>8, <1>9, <1>10, <1>11, BootStep

-----------------------------------------------------------------------------
(* Exclusive work.                                                         *)

\* Whoever holds the exclusive permit is alone.
LEMMA Alone ==
    ASSUME IInv, excl.pc # "none"
    PROVE  /\ phase = "exclusive" /\ excl \in ExclType
           /\ \A w \in Writers : writer[w].pc = "idle"
           /\ boot.pc \in {"none", "lexical"}
  BY DEF IInv, Typed, Gated, NoExcl

\* The permit that nobody holds.
LEMMA NoExclFacts ==
    /\ NoExcl \in ExclType /\ NoExcl.pc = "none" /\ NoExcl.kind = "none"
    /\ NoExcl.table = Legacy /\ ~NoExcl.possible /\ NoExcl.todo = {}
  BY DEF NoExcl, ExclType, Tables, Space, Works

\* Nothing is claimed of a permit that nobody holds.
LEMMA NothingHeld ==
    ASSUME excl' = NoExcl
    PROVE  Working' /\ Spared'
  BY NoExclFacts DEF Working, Spared, Works

\* A step of exclusive work is judged by the files, the tables and the view
\* it leaves.
LEMMA ExclStep ==
    ASSUME IInv, excl.pc # "none",
           UNCHANGED <<setting, pending, writer, boot, reader, unproven>>,
           route' \in Records \cup {NoRoute}, receipts' \in SUBSET Owned,
           tables' \in SUBSET Tables, made' \in Nat, made <= made',
           cache' \in Views \cup {Unloaded}, pruning' \in BOOLEAN, excl' \in ExclType,
           \/ phase' = phase /\ excl'.pc # "none"
           \/ phase' \in {"ready", "uncertain"} /\ excl' = NoExcl,
           pruning' => excl'.pc = "pruned",
           Fresh', Served', Cached', Working', Spared', Reads', Pure'
    PROVE  IInv'
<1>1. /\ phase = "exclusive" /\ \A w \in Writers : writer[w].pc = "idle"
      /\ boot.pc \in {"none", "lexical"}
    BY Alone
<1>2. Typed'
    BY <1>1 DEF IInv, Typed
<1>3. Gated'
    BY <1>1 DEF Gated
<1>4. Booting' /\ Waiting'
    BY <1>1 DEF Booting, Waiting
<1>5. Writes'
    BY <1>1 DEF Writes
<1> QED
    BY <1>2, <1>3, <1>4, <1>5 DEF IInv

\* The same when only the permit changes.
LEMMA PermitStep ==
    ASSUME IInv, excl.pc # "none", excl.pc # "pruned",
           UNCHANGED <<setting, route, pending, receipts, tables, rows, made, cache,
                       pruning, unproven, reader, writer, boot>>,
           excl' \in ExclType, excl'.kind # "collect" => excl'.table.token <= made,
           \/ phase' = phase /\ excl'.pc # "none"
           \/ phase' \in {"ready", "uncertain"} /\ excl' = NoExcl,
           Cached', Working', Spared'
    PROVE  IInv'
<1>1. ~pruning
    BY DEF IInv, Gated
<1>2. /\ route' \in Records \cup {NoRoute} /\ receipts' \in SUBSET Owned
      /\ tables' \in SUBSET Tables /\ made' \in Nat /\ made <= made'
      /\ cache' \in Views \cup {Unloaded} /\ pruning' \in BOOLEAN
    BY DEF IInv, Typed
<1>3. Fresh' /\ Served'
    BY DEF IInv, Fresh, Served
<1>4. Reads' /\ Pure'
    BY DEF IInv, Reads, Pure
<1>5. pruning' => excl'.pc = "pruned"
    BY <1>1
<1> QED
    BY <1>2, <1>3, <1>4, <1>5, ExclStep

\* The view agrees with the file wherever the root may open.
Agrees == cache # Unloaded =>
    TableOf(cache.record) = TableOf(route) \/ (cache.record = NoRoute /\ pending # NoRoute)

\* The permit is dropped: what may have been published keeps the root closed.
\* Or it ends the activation with a view that agrees.
LEMMA GivenUp ==
    ASSUME IInv, excl.pc # "none", Released \/ (Activated /\ Agrees'),
           UNCHANGED <<cache, pending>>, tables \subseteq tables',
           TableOf(route') = TableOf(route) \/ excl.possible
    PROVE  /\ excl' \in ExclType /\ excl' = NoExcl /\ excl'.table = Legacy
           /\ phase' \in {"ready", "uncertain"} /\ Cached' /\ Working' /\ Spared'
<1>1. excl' = NoExcl /\ phase' \in {"ready", "uncertain"}
    BY DEF Released, Activated
<1>2. Working' /\ Spared' /\ excl' \in ExclType /\ excl'.table = Legacy
    BY <1>1, NothingHeld, NoExclFacts
<1>3. phase = "exclusive" /\ excl.possible \in BOOLEAN
    BY Alone DEF ExclType
<1>4. cache # Unloaded => phase' = "uncertain" \/ Agrees'
  <2>1. CASE Released /\ ~excl.possible
    BY <1>3, <2>1 DEF IInv, Cached, Agrees
  <2>2. CASE Released /\ excl.possible
    BY <2>2 DEF Released
  <2> QED
    BY <2>1, <2>2
<1>5. Cached'
    BY <1>4 DEF IInv, Cached, Agrees
<1> QED
    BY <1>1, <1>2, <1>5

\* A dropped permit, with nothing else touched.
LEMMA ReleaseIInv ==
    ASSUME IInv, excl.pc # "none", excl.pc # "pruned",
           Released \/ (Activated /\ Agrees'),
           UNCHANGED <<setting, route, pending, receipts, tables, rows, made, cache,
                       pruning, unproven, reader, writer, boot>>
    PROVE  IInv'
<1>1. /\ excl' \in ExclType /\ excl' = NoExcl /\ excl'.table = Legacy
      /\ phase' \in {"ready", "uncertain"} /\ Cached' /\ Working' /\ Spared'
    BY GivenUp
<1>2. excl'.table.token <= made
    BY <1>1, LegacyNotOwned DEF IInv, Typed
<1> QED
    BY <1>1, <1>2, PermitStep

\* Work other than a rebuild finds the view in agreement.
LEMMA CollectAgrees ==
    ASSUME IInv, excl.kind \in {"collect", "prune"}
    PROVE  Agrees
<1>1. ~excl.possible /\ excl # NoExcl
    BY NoExclFacts DEF IInv, Working
<1> QED
    BY <1>1 DEF IInv, Cached, Gated, Agrees

\* rebuild_vectors, collection or pruning takes the permit.
LEMMA BeginIInv ==
    ASSUME IInv, UNCHANGED setting, NEW kind \in Works, NEW m \in Models, Begin(kind, m)
    PROVE  IInv'
<1> DEFINE prev == IF kind \in {"initialize", "recover"} THEN route ELSE NoRoute
           todo == IF kind = "collect" THEN Retired(route) ELSE {}
<1>1. /\ phase' = "exclusive"
      /\ excl' = [NoExcl EXCEPT !.pc = kind, !.kind = kind, !.model = m, !.prev = prev,
                                !.todo = todo, !.possible = phase = "uncertain"]
      /\ UNCHANGED <<route, pending, receipts, tables, rows, made, cache, pruning,
                     unproven, reader, writer, boot>>
      /\ Mutations = {} /\ ~Operations /\ phase \in {"ready", "uncertain"}
      /\ phase = "uncertain" => kind \in {"initialize", "recover"}
    BY DEF Begin, Reserve, Resume, files, store, leases
<1>2. prev \in Records \cup {NoRoute} /\ todo \in SUBSET Owned
      /\ (kind = "collect" /\ todo # {} => route # NoRoute)
    BY RecordTables DEF IInv, Typed
<1> HIDE DEF prev, todo
<1>3. /\ excl' \in ExclType /\ excl'.pc = kind /\ excl'.kind = kind /\ excl'.model = m
      /\ excl'.table = Legacy /\ excl'.todo = todo /\ excl'.possible = (phase = "uncertain")
    BY <1>1, <1>2 DEF ExclType, NoExcl, Works, Space, Tables
<1>4. Typed'
    BY <1>1, <1>3 DEF IInv, Typed
<1>5. Fresh'
  <2>1. Legacy.token <= made
    BY LegacyNotOwned DEF IInv, Typed
  <2> QED
    BY <1>1, <1>3, <2>1 DEF IInv, Fresh
<1>6. /\ \A w \in Writers : writer[w].pc = "idle"
      /\ boot.pc \in {"none", "lexical"}
    BY <1>1 DEF Mutations, Operations
<1>7. excl = NoExcl /\ ~pruning
    BY <1>1, NoExclFacts DEF IInv, Gated
<1>8. Gated'
    BY <1>1, <1>3, <1>6, <1>7 DEF Gated, Works
<1>9. Served' /\ Reads' /\ Pure' /\ Writes'
    BY <1>1 DEF IInv, Served, Reads, Pure, Writes
<1>10. Booting' /\ Waiting'
    BY <1>1 DEF IInv, Booting, Waiting
<1>11. Cached'
    BY <1>1, <1>3, <1>7, NoExclFacts DEF IInv, Cached
<1>12. Working' /\ Spared'
    BY <1>1, <1>2, <1>3 DEF Working, Spared, Works
<1> QED
    BY <1>4, <1>5, <1>8, <1>9, <1>10, <1>11, <1>12 DEF IInv

\* An early return, or the end of an activation.
LEMMA RefuseBuildIInv ==
    ASSUME IInv, UNCHANGED setting, RefuseBuild \/ FinishActivation
    PROVE  IInv'
<1>1. /\ excl.pc # "none" /\ excl.pc # "pruned"
      /\ UNCHANGED <<route, pending, receipts, tables, rows, made, cache,
                     pruning, unproven, reader, writer, boot>>
    BY DEF RefuseBuild, FinishActivation, files, store, leases
<1>2. CASE RefuseBuild
    BY <1>1, <1>2, ReleaseIInv DEF RefuseBuild
<1>3. CASE FinishActivation
  <2>1. Activated
    BY <1>3 DEF FinishActivation
  <2>2. Agrees'
    BY <1>1, <1>3 DEF FinishActivation, IInv, Working, Agrees
  <2> QED
    BY <1>1, <2>1, <2>2, ReleaseIInv
<1> QED
    BY <1>2, <1>3

\* The stage gets a fresh token, which nobody can have named.
LEMMA StageReceiptIInv ==
    ASSUME IInv, UNCHANGED setting, StageReceipt
    PROVE  IInv'
<1> DEFINE t == [kind |-> "stage", token |-> made + 1, model |-> excl.model]
<1>1. /\ excl.pc \in {"initialize", "recover"} /\ made' = made + 1
      /\ receipts' = receipts \cup {t}
      /\ excl' = [excl EXCEPT !.pc = "receipt", !.table = t]
      /\ UNCHANGED <<route, pending, tables, rows, cache, pruning, unproven, reader,
                     phase, writer, boot>>
    BY DEF StageReceipt, store, leases, gate
<1>2. made \in Nat /\ excl \in ExclType /\ excl.model \in Models
      /\ excl.kind \in {"initialize", "recover"} /\ ~pruning /\ pruning \in BOOLEAN
    BY <1>1 DEF IInv, Typed, Working, Gated, Works
<1>3. t \in Owned /\ t.token = made + 1 /\ t.model = excl.model
    BY <1>2 DEF Owned
<1> HIDE DEF t
<1>4. /\ excl' \in ExclType /\ excl'.pc = "receipt" /\ excl'.table = t
      /\ excl'.model = excl.model /\ excl'.kind = excl.kind
      /\ excl'.possible = excl.possible
    BY <1>1, <1>2, <1>3 DEF ExclType, Tables
<1>5. /\ \A x \in receipts \cup tables : x.token \in Nat /\ x.token <= made
      /\ boot.table.token \in Nat /\ boot.table.token <= made
    BY LegacyNotOwned DEF IInv, Typed, Tables, Fresh, BootType
<1>6. Fresh'
    BY <1>1, <1>2, <1>3, <1>4, <1>5 DEF Fresh
<1>7. Unnamed(t)
  <2>1. t \notin receipts /\ t \notin tables /\ t # Legacy
    BY <1>2, <1>3, <1>5, LegacyNotOwned
  <2> QED
    BY <1>3, <2>1 DEF IInv, Served, Cached, Unnamed, TableOf
<1>8. Served' /\ Reads' /\ Pure'
    BY <1>1 DEF IInv, Served, Reads, Pure
<1>9. Cached'
    BY <1>1, <1>4 DEF IInv, Cached
<1>10. Unnamed(excl.table)'
    BY <1>1, <1>4, <1>7 DEF Unnamed
<1>11. Working' /\ Spared'
    BY <1>2, <1>3, <1>4, <1>10 DEF Working, Spared, Works
<1>12. /\ receipts' \in SUBSET Owned /\ made' \in Nat /\ made <= made'
       /\ route' \in Records \cup {NoRoute}
       /\ tables' \in SUBSET Tables /\ cache' \in Views \cup {Unloaded}
       /\ pruning' \in BOOLEAN /\ ~pruning'
    BY <1>1, <1>2, <1>3 DEF IInv, Typed
<1> QED
    BY <1>1, <1>4, <1>6, <1>8, <1>9, <1>11, <1>12, ExclStep

\* The stage is created, or the creation fails with or without the table.
LEMMA StageCreateIInv ==
    ASSUME IInv, UNCHANGED setting, StageCreate \/ StageFail
    PROVE  IInv'
<1>1. /\ excl.pc = "receipt" /\ tables' \in {tables, tables \cup {excl.table}}
      /\ UNCHANGED <<route, pending, receipts, rows, made, cache, pruning, unproven,
                     reader, writer, boot>>
    BY DEF StageCreate, StageFail, files, store, leases
<1>2. /\ excl \in ExclType /\ Unnamed(excl.table) /\ excl.table.model = excl.model
      /\ excl.kind \in {"initialize", "recover"} /\ excl.model \in Models
      /\ excl.table \in Owned /\ excl.table.token <= made /\ ~pruning
    BY <1>1 DEF IInv, Typed, Working, Gated, Fresh, Unnamed
<1>3. /\ receipts' \in SUBSET Owned /\ made' \in Nat /\ made <= made'
      /\ route' \in Records \cup {NoRoute}
      /\ tables' \in SUBSET Tables /\ cache' \in Views \cup {Unloaded}
      /\ pruning' \in BOOLEAN /\ ~pruning'
    BY <1>1, <1>2 DEF IInv, Typed, Tables
<1>4. Served' /\ Reads' /\ Pure'
    BY <1>1 DEF IInv, Served, Reads, Pure
<1>5. \A x \in receipts \cup tables' : x.token <= made
    BY <1>1, <1>2 DEF IInv, Fresh
<1>6. CASE StageCreate
  <2>1. /\ excl' = [excl EXCEPT !.pc = "created"] /\ excl.table \in tables'
        /\ phase' = phase
    BY <1>6 DEF StageCreate, gate
  <2>2. /\ excl' \in ExclType /\ excl'.pc = "created" /\ excl'.table = excl.table
        /\ excl'.model = excl.model /\ excl'.kind = excl.kind
        /\ excl'.possible = excl.possible
    BY <1>2, <2>1 DEF ExclType
  <2>3. Fresh'
    BY <1>1, <1>5, <2>2 DEF IInv, Fresh
  <2>4. Cached'
    BY <1>1, <2>1, <2>2 DEF IInv, Cached
  <2>5. Unnamed(excl.table)'
    BY <1>1, <1>2, <2>2 DEF Unnamed
  <2>6. Working' /\ Spared'
    BY <1>2, <2>1, <2>2, <2>5 DEF Working, Spared, Works
  <2> QED
    BY <1>1, <1>3, <1>4, <2>1, <2>2, <2>3, <2>4, <2>6, ExclStep
<1>7. CASE StageFail
  <2>1. Released
    BY <1>7 DEF StageFail
  <2>2. /\ excl' \in ExclType /\ excl' = NoExcl /\ excl'.table = Legacy
        /\ phase' \in {"ready", "uncertain"} /\ Cached' /\ Working' /\ Spared'
    BY <1>1, <2>1, GivenUp
  <2>3. Fresh'
    BY <1>1, <1>3, <1>5, <2>2, LegacyNotOwned DEF IInv, Fresh
  <2> QED
    BY <1>1, <1>3, <1>4, <2>2, <2>3, ExclStep
<1> QED
    BY <1>6, <1>7

\* Every stored document is embedded into the stage, in its model.
LEMMA ScanIInv ==
    ASSUME IInv, UNCHANGED setting, Scan
    PROVE  IInv'
<1>1. /\ excl.pc = "created" /\ excl' = [excl EXCEPT !.pc = "scanned"]
      /\ rows' = rows \cup {<<excl.table, d, excl.model>> : d \in docs}
      /\ UNCHANGED <<route, pending, receipts, tables, made, cache, pruning, unproven,
                     reader, phase, writer, boot>>
    BY DEF Scan, files, leases, gate
<1>2. excl \in ExclType /\ excl.table.model = excl.model /\ ~pruning
    BY <1>1 DEF IInv, Typed, Working, Gated
<1>3. /\ excl' \in ExclType /\ excl'.pc = "scanned" /\ excl'.table = excl.table
      /\ excl'.model = excl.model /\ excl'.kind = excl.kind
      /\ excl'.possible = excl.possible /\ excl'.todo = excl.todo
    BY <1>1, <1>2 DEF ExclType
<1>4. Pure'
  <2> SUFFICES ASSUME NEW x \in rows' PROVE x[3] = x[1].model
    BY DEF Pure
  <2>1. CASE x \in rows
    BY <2>1 DEF IInv, Pure
  <2>2. ASSUME NEW d \in docs, x = <<excl.table, d, excl.model>>
        PROVE  x[3] = x[1].model
    BY <1>2, <2>2
  <2> QED
    BY <1>1, <2>1, <2>2
<1>5. Fresh' /\ Served' /\ Reads'
    BY <1>1, <1>3 DEF IInv, Fresh, Served, Reads
<1>6. Cached'
    BY <1>1, <1>3 DEF IInv, Cached
<1>7. Working' /\ Spared'
    BY <1>1, <1>3 DEF IInv, Working, Unnamed, Spared, Works
<1>8. /\ receipts' \in SUBSET Owned /\ made' \in Nat /\ made <= made'
      /\ route' \in Records \cup {NoRoute}
      /\ tables' \in SUBSET Tables /\ cache' \in Views \cup {Unloaded}
      /\ pruning' \in BOOLEAN /\ ~pruning'
    BY <1>1, <1>2 DEF IInv, Typed
<1> QED
    BY <1>1, <1>3, <1>4, <1>5, <1>6, <1>7, <1>8, ExclStep

\* The rebuild gives its stage up, or says that it is about to publish it.
LEMMA StageMovesIInv ==
    ASSUME IInv, UNCHANGED setting, Cancelled \/ MarkPublication
    PROVE  IInv'
<1>1. /\ excl.pc \in {"created", "scanned"}
      /\ UNCHANGED <<route, pending, receipts, tables, rows, made, cache, pruning,
                     unproven, reader, phase, writer, boot>>
      /\ \/ excl' = [excl EXCEPT !.pc = "drop"]
         \/ excl' = [excl EXCEPT !.pc = "marked", !.possible = TRUE]
    BY DEF Cancelled, MarkPublication, files, store, leases, gate
<1>2. /\ excl \in ExclType /\ Unnamed(excl.table) /\ excl.table.model = excl.model
      /\ excl.kind \in {"initialize", "recover"} /\ excl.model \in Models
      /\ excl.table \in Owned /\ excl.table.token <= made /\ excl.table \in tables
    BY <1>1 DEF IInv, Typed, Working, Fresh, Unnamed
<1>3. /\ excl' \in ExclType /\ excl'.table = excl.table
      /\ excl'.model = excl.model /\ excl'.kind = excl.kind
      /\ \/ excl'.pc = "drop" /\ excl'.possible = excl.possible
         \/ excl'.pc = "marked" /\ excl'.possible
    BY <1>1, <1>2 DEF ExclType
<1>4. Cached'
    BY <1>1, <1>3 DEF IInv, Cached
<1>5. Unnamed(excl.table)'
    BY <1>1, <1>2, <1>3 DEF Unnamed
<1>6. Working' /\ Spared'
    BY <1>1, <1>2, <1>3, <1>5 DEF Working, Spared, Works
<1> QED
    BY <1>1, <1>2, <1>3, <1>4, <1>6, PermitStep

\* The record that a rebuild publishes.
LEMMA NextRouteIsRecord ==
    ASSUME IInv, excl.table \in Owned
    PROVE  /\ NextRoute \in Records /\ NextRoute # NoRoute
           /\ NextRoute.table = excl.table /\ TableOf(NextRoute) = excl.table
<1>1. excl.prev \in Records \cup {NoRoute}
    BY DEF IInv, Typed, ExclType
<1>2. /\ Retired(excl.prev) \in SUBSET Owned
      /\ excl.prev # NoRoute => excl.prev.table \in Owned
    BY <1>1, RecordTables
<1>3. NextRoute \in Records /\ NextRoute.table = excl.table
    BY <1>2 DEF NextRoute, Records
<1> QED
    BY <1>3, EpochsAssumption DEF TableOf

\* The publication: the file and the view change together, or the write fails
\* with either file on disk, and then the stage is dropped only when neither
\* the file nor the view names it and the root stays closed otherwise.
LEMMA PublishRouteIInv ==
    ASSUME IInv, UNCHANGED setting, PublishRoute
    PROVE  IInv'
<1> DEFINE view == [record |-> NextRoute, query |-> excl.model]
<1>1. /\ excl.pc = "marked" /\ excl.table \in receipts
      /\ UNCHANGED <<pending, receipts, tables, rows, made, pruning, unproven,
                     reader, writer, boot>>
    BY DEF PublishRoute, store, leases
<1>2. /\ excl \in ExclType /\ excl.table.model = excl.model
      /\ excl.kind \in {"initialize", "recover"} /\ excl.model \in Models
      /\ excl.table \in Owned /\ excl.table.token <= made /\ excl.table \in tables
      /\ excl.possible /\ ~pruning /\ phase = "exclusive"
    BY <1>1, Alone DEF IInv, Typed, Working, Fresh, Unnamed, Gated
<1>3. /\ NextRoute \in Records /\ NextRoute # NoRoute
      /\ NextRoute.table = excl.table /\ TableOf(NextRoute) = excl.table
    BY <1>2, NextRouteIsRecord
<1>4. view \in Views /\ view # Unloaded /\ view.record = NextRoute /\ view.query = excl.model
  <2>1. view \in Views /\ view.record = NextRoute /\ view.query = excl.model
    BY <1>2, <1>3 DEF Views
  <2> QED
    BY <2>1, EpochsAssumption
<1>5. \/ /\ route' = NextRoute /\ cache' = view
         /\ excl' = [excl EXCEPT !.pc = "published"] /\ phase' = phase
      \/ /\ route' \in {route, NextRoute} /\ cache' = cache
         /\ \/ /\ Unpublished(route', cache)
               /\ excl' = [excl EXCEPT !.pc = "drop"] /\ phase' = phase
            \/ Released
    BY DEF PublishRoute, Persisted, NotPersisted, gate
<1> HIDE DEF view
<1>6. /\ receipts' \in SUBSET Owned /\ made' \in Nat /\ made <= made'
      /\ route' \in Records \cup {NoRoute}
      /\ tables' \in SUBSET Tables /\ cache' \in Views \cup {Unloaded}
      /\ pruning' \in BOOLEAN /\ ~pruning'
    BY <1>1, <1>2, <1>3, <1>4, <1>5 DEF IInv, Typed
<1>7. Served' /\ Reads' /\ Pure'
    BY <1>1, <1>2, <1>3, <1>5 DEF IInv, Served, Reads, Pure
<1>8. CASE /\ route' = NextRoute /\ cache' = view
           /\ excl' = [excl EXCEPT !.pc = "published"] /\ phase' = phase
  <2>1. /\ excl' \in ExclType /\ excl'.pc = "published" /\ excl'.table = excl.table
        /\ excl'.model = excl.model /\ excl'.kind = excl.kind
        /\ excl'.possible = excl.possible
    BY <1>2, <1>8 DEF ExclType
  <2>2. Fresh'
    BY <1>1, <2>1 DEF IInv, Fresh
  <2>3. Cached'
    BY <1>1, <1>2, <1>3, <1>4, <1>8 DEF Cached
  <2>4. Working' /\ Spared'
    BY <1>2, <1>3, <1>4, <1>8, <2>1 DEF Working, Spared, Works
  <2> QED
    BY <1>1, <1>6, <1>7, <1>8, <2>1, <2>2, <2>3, <2>4, ExclStep
<1>9. CASE /\ route' \in {route, NextRoute} /\ cache' = cache
           /\ Unpublished(route', cache)
           /\ excl' = [excl EXCEPT !.pc = "drop"] /\ phase' = phase
  <2>1. /\ excl' \in ExclType /\ excl'.pc = "drop" /\ excl'.table = excl.table
        /\ excl'.model = excl.model /\ excl'.kind = excl.kind
        /\ excl'.possible = excl.possible
    BY <1>2, <1>9 DEF ExclType
  <2>2. Fresh'
    BY <1>1, <2>1 DEF IInv, Fresh
  <2>3. Cached'
    BY <1>1, <1>2, <1>9, <2>1 DEF IInv, Cached
  <2>4. Unnamed(excl.table)'
    BY <1>2, <1>9, <2>1 DEF Unpublished, Unnamed
  <2>5. Working' /\ Spared'
    BY <1>2, <2>1, <2>4 DEF Working, Spared, Works
  <2> QED
    BY <1>1, <1>6, <1>7, <1>9, <2>1, <2>2, <2>3, <2>5, ExclStep
<1>10. CASE route' \in {route, NextRoute} /\ cache' = cache /\ Released
  <2>1. /\ excl' \in ExclType /\ excl' = NoExcl /\ excl'.table = Legacy
        /\ phase' \in {"ready", "uncertain"} /\ Cached' /\ Working' /\ Spared'
    BY <1>1, <1>2, <1>10, GivenUp
  <2>2. Fresh'
    BY <1>1, <1>6, <2>1, LegacyNotOwned DEF IInv, Fresh
  <2> QED
    BY <1>1, <1>6, <1>7, <2>1, <2>2, ExclStep
<1> QED
    BY <1>5, <1>8, <1>9, <1>10

-----------------------------------------------------------------------------
(* Dropping tables and pruning.                                            *)

\* The table could not be dropped: the collection goes on, a rebuild ends.
LEMMA KeptIInv ==
    ASSUME IInv, excl.pc \in {"drop", "dropping"}, Kept,
           UNCHANGED <<setting, route, pending, receipts, tables, rows, made, cache,
                       pruning, unproven, reader, writer, boot>>
    PROVE  IInv'
<1>1. CASE excl.kind # "collect"
    BY <1>1, ReleaseIInv DEF Kept
<1>2. CASE excl.kind = "collect"
  <2>1. excl' = [excl EXCEPT !.pc = "collect"] /\ phase' = phase
    BY <1>2 DEF Kept, gate
  <2>2. /\ excl \in ExclType /\ excl.model \in Models
        /\ ~excl.possible /\ route # NoRoute
    BY <1>2 DEF IInv, Typed, Working
  <2>3. /\ excl' \in ExclType /\ excl'.pc = "collect" /\ excl'.table = excl.table
        /\ excl'.model = excl.model /\ excl'.kind = "collect"
        /\ excl'.possible = excl.possible
    BY <1>2, <2>1, <2>2 DEF ExclType, Works
  <2>4. Cached'
    BY <2>1, <2>3 DEF IInv, Cached
  <2>5. Working' /\ Spared'
    BY <2>2, <2>3 DEF Working, Spared, Works
  <2> QED
    BY <2>1, <2>2, <2>3, <2>4, <2>5, PermitStep
<1> QED
    BY <1>1, <1>2

\* Collection takes the next retired table, or ends.
LEMMA CollectIInv ==
    ASSUME IInv, UNCHANGED setting, CollectEnd \/ \E t \in excl.todo : CollectNext(t)
    PROVE  IInv'
<1>1. /\ excl.pc = "collect"
      /\ UNCHANGED <<route, pending, receipts, tables, rows, made, cache, pruning,
                     unproven, reader, writer, boot>>
    BY DEF CollectEnd, CollectNext, files, store, leases
<1>2. /\ excl \in ExclType /\ excl.kind = "collect" /\ excl.model \in Models
      /\ ~excl.possible
    BY <1>1 DEF IInv, Typed, Working, Works
<1>3. CASE Activated
  <2>1. Agrees'
    BY <1>1, <1>2, CollectAgrees DEF Agrees
  <2> QED
    BY <1>1, <1>3, <2>1, ReleaseIInv
<1>4. ASSUME NEW t \in excl.todo, ~Activated, CollectNext(t)
      PROVE  IInv'
  <2>1. PICK pc \in {"collect", "drop"} :
           excl' = [excl EXCEPT !.todo = excl.todo \ {t}, !.table = t, !.pc = pc]
    BY <1>4 DEF CollectNext
  <2>2. phase' = phase
    BY <1>4 DEF CollectNext, gate
  <2>3. t \in Owned /\ t \in Tables /\ route # NoRoute
    BY <1>2 DEF ExclType, Tables, IInv, Working
  <2>4. /\ excl' \in ExclType /\ excl'.pc = pc /\ excl'.table = t
        /\ excl'.model = excl.model /\ excl'.kind = "collect"
        /\ excl'.possible = excl.possible
    BY <1>2, <2>1, <2>3 DEF ExclType, Works
  <2>5. Cached'
    BY <1>1, <2>2, <2>4 DEF IInv, Cached
  <2>6. Working' /\ Spared'
    BY <1>1, <1>2, <2>3, <2>4 DEF Working, Spared, Works
  <2> QED
    BY <1>1, <2>2, <2>4, <2>5, <2>6, PermitStep
<1> QED
    BY <1>3, <1>4 DEF CollectEnd

\* The table is dropped only when neither the file nor a reader names it.
LEMMA DropCheckIInv ==
    ASSUME IInv, UNCHANGED setting, DropCheck
    PROVE  IInv'
<1>1. /\ excl.pc = "drop"
      /\ UNCHANGED <<route, pending, receipts, tables, rows, made, cache, pruning,
                     unproven, reader, writer, boot>>
    BY DEF DropCheck, files, store, leases
<1>2. CASE Kept
    BY <1>1, <1>2, KeptIInv
<1>3. CASE ~Kept
  <2>1. PICK pc \in {"dropping", "forget"} : excl' = [excl EXCEPT !.pc = pc]
    BY <1>3 DEF DropCheck
  <2>2. /\ phase' = phase /\ excl.table # TableOf(route) /\ ~unproven /\ ~Held(excl.table)
    BY <1>3 DEF DropCheck, gate, HasReaders
  <2>3. /\ excl \in ExclType /\ excl.model \in Models /\ excl.table \in Owned
        /\ excl.kind # "collect" => excl.table.token <= made
        /\ excl.kind \in {"collect", "prune"} => ~excl.possible
        /\ excl.kind = "collect" => route # NoRoute
    BY <1>1 DEF IInv, Typed, Working, Fresh
  <2>4. /\ excl' \in ExclType /\ excl'.pc = pc /\ excl'.table = excl.table
        /\ excl'.model = excl.model /\ excl'.kind = excl.kind
        /\ excl'.possible = excl.possible
    BY <2>1, <2>3 DEF ExclType
  <2>5. Cached'
    BY <1>1, <2>2, <2>4 DEF IInv, Cached
  <2>6. Unnamed(excl.table)
    <3>1. CASE excl.kind # "collect"
      BY <1>1, <3>1 DEF IInv, Working
    <3>2. CASE excl.kind = "collect"
      <4>1. Agrees
        BY <3>2, CollectAgrees
      <4>2. excl.table # Legacy
        BY <2>3, LegacyNotOwned
      <4> QED
        BY <2>2, <2>3, <4>1, <4>2 DEF Unnamed, Agrees, TableOf
    <3> QED
      BY <3>1, <3>2
  <2>7. Unnamed(excl.table)'
    BY <1>1, <2>4, <2>6 DEF Unnamed
  <2>8. \A r \in Readers : reader[r].pc # "idle" => reader[r].table # excl.table
    <3>1. \A r \in Readers : reader[r].pc \in {"idle", "pinned", "reading", "lingering"}
      BY DEF IInv, Typed, ReaderType
    <3> QED
      BY <2>2, <3>1 DEF Held, IInv, Reads
  <2>9. Working' /\ Spared'
    BY <1>1, <2>3, <2>4, <2>7, <2>8 DEF Working, Spared, Works
  <2> QED
    BY <1>1, <2>2, <2>3, <2>4, <2>5, <2>9, PermitStep
<1> QED
    BY <1>2, <1>3

\* The drop itself: no reader has this table, nor do the file and the view.
LEMMA DropTableIInv ==
    ASSUME IInv, UNCHANGED setting, DropTable
    PROVE  IInv'
<1>1. /\ excl.pc = "dropping" /\ excl' = [excl EXCEPT !.pc = "forget"]
      /\ tables' = tables \ {excl.table} /\ rows' = {x \in rows : x[1] # excl.table}
      /\ UNCHANGED <<route, pending, receipts, made, cache, pruning, unproven,
                     reader, phase, writer, boot>>
    BY DEF DropTable, files, leases, gate
<1>2. /\ excl \in ExclType /\ excl.model \in Models /\ Unnamed(excl.table)
      /\ excl.kind # "collect" => excl.table.token <= made
      /\ excl.kind \in {"collect", "prune"} => ~excl.possible
      /\ excl.kind = "collect" => route # NoRoute
      /\ ~pruning
    BY <1>1 DEF IInv, Typed, Working, Fresh, Gated
<1>3. /\ excl' \in ExclType /\ excl'.pc = "forget" /\ excl'.table = excl.table
      /\ excl'.model = excl.model /\ excl'.kind = excl.kind
      /\ excl'.possible = excl.possible
    BY <1>1, <1>2 DEF ExclType
<1>4. Fresh'
    BY <1>1, <1>2, <1>3 DEF IInv, Fresh
<1>5. Served'
    BY <1>1, <1>2 DEF IInv, Served, Unnamed, TableOf
<1>6. Cached'
  <2>1. cache # Unloaded /\ cache.record # NoRoute => cache.record.table # excl.table
    BY <1>2 DEF Unnamed, TableOf
  <2> QED
    BY <1>1, <1>3, <2>1 DEF IInv, Cached
<1>7. Reads'
    BY <1>1 DEF IInv, Reads, Spared
<1>8. Pure'
    BY <1>1 DEF IInv, Pure
<1>9. Unnamed(excl.table)'
    BY <1>1, <1>2, <1>3 DEF Unnamed
<1>10. Working' /\ Spared'
    BY <1>1, <1>2, <1>3, <1>9 DEF Working, Spared, Works, Unnamed
<1>11. /\ receipts' \in SUBSET Owned /\ made' \in Nat /\ made <= made'
       /\ route' \in Records \cup {NoRoute}
       /\ tables' \in SUBSET Tables /\ cache' \in Views \cup {Unloaded}
       /\ pruning' \in BOOLEAN /\ ~pruning'
    BY <1>1, <1>2 DEF IInv, Typed
<1> QED
    BY <1>1, <1>3, <1>4, <1>5, <1>6, <1>7, <1>8, <1>10, <1>11, ExclStep

\* The drop fails.
LEMMA DropFailsIInv ==
    ASSUME IInv, UNCHANGED setting, DropFails
    PROVE  IInv'
<1>1. /\ excl.pc = "dropping" /\ Kept
      /\ UNCHANGED <<route, pending, receipts, tables, rows, made, cache, pruning,
                     unproven, reader, writer, boot>>
    BY DEF DropFails, files, store, leases
<1> QED
    BY <1>1, KeptIInv

\* The receipt of the dropped table goes; it is not the routed table's.
LEMMA ForgetOwnedIInv ==
    ASSUME IInv, UNCHANGED setting, ForgetOwned
    PROVE  IInv'
<1>1. /\ excl.pc = "forget" /\ receipts' = receipts \ {excl.table}
      /\ UNCHANGED <<route, pending, tables, rows, made, cache, pruning, unproven,
                     reader, writer, boot>>
    BY DEF ForgetOwned, store, leases
<1>2. /\ excl \in ExclType /\ excl.model \in Models /\ Unnamed(excl.table)
      /\ excl.kind \in {"collect", "prune"} => ~excl.possible
      /\ excl.kind = "collect" => route # NoRoute
      /\ ~pruning
    BY <1>1 DEF IInv, Typed, Working, Gated
<1>3. /\ receipts' \in SUBSET Owned /\ made' \in Nat /\ made <= made'
      /\ route' \in Records \cup {NoRoute}
      /\ tables' \in SUBSET Tables /\ cache' \in Views \cup {Unloaded}
      /\ pruning' \in BOOLEAN /\ ~pruning'
    BY <1>1, <1>2 DEF IInv, Typed
<1>4. Served'
    BY <1>1, <1>2 DEF IInv, Served, Unnamed, TableOf
<1>5. Reads' /\ Pure'
    BY <1>1 DEF IInv, Reads, Pure
<1>6. CASE excl.kind = "collect"
  <2>1. excl' = [excl EXCEPT !.pc = "remove"] /\ phase' = phase
    BY <1>6 DEF ForgetOwned, gate
  <2>2. /\ excl' \in ExclType /\ excl'.pc = "remove" /\ excl'.table = excl.table
        /\ excl'.model = excl.model /\ excl'.kind = excl.kind
        /\ excl'.possible = excl.possible
    BY <1>2, <2>1 DEF ExclType
  <2>3. Fresh'
    BY <1>1, <1>6, <2>2 DEF IInv, Fresh
  <2>4. Cached'
    BY <1>1, <2>1, <2>2 DEF IInv, Cached
  <2>5. Unnamed(excl.table)'
    BY <1>1, <1>2, <2>2 DEF Unnamed
  <2>6. Working' /\ Spared'
    BY <1>1, <1>2, <1>6, <2>2, <2>5 DEF Working, Spared, Works, Unnamed
  <2> QED
    BY <1>1, <1>3, <1>4, <1>5, <2>1, <2>2, <2>3, <2>4, <2>6, ExclStep
<1>7. CASE excl.kind # "collect"
  <2>1. Released
    BY <1>7 DEF ForgetOwned
  <2>2. /\ excl' \in ExclType /\ excl' = NoExcl /\ excl'.table = Legacy
        /\ phase' \in {"ready", "uncertain"} /\ Cached' /\ Working' /\ Spared'
    BY <1>1, <2>1, GivenUp
  <2>3. Fresh'
    BY <1>1, <1>3, <2>2, LegacyNotOwned DEF IInv, Fresh
  <2> QED
    BY <1>1, <1>3, <1>4, <1>5, <2>2, <2>3, ExclStep
<1> QED
    BY <1>6, <1>7

\* The record without the dropped table, in the file and in the view.
LEMMA RemoveRetiredIInv ==
    ASSUME IInv, UNCHANGED setting, RemoveRetired
    PROVE  IInv'
<1> DEFINE query == IF cache = Unloaded THEN NoModel ELSE cache.query
           view == [record |-> Removed, query |-> query]
<1>1. /\ excl.pc = "remove"
      /\ UNCHANGED <<pending, receipts, tables, rows, made, pruning, unproven,
                     reader, writer, boot>>
      /\ \/ /\ route' = Removed /\ cache' = view /\ phase' = phase
            /\ excl' = [excl EXCEPT !.pc = "collect"]
         \/ route' \in {route, Removed} /\ cache' = cache /\ Activated
    BY DEF RemoveRetired, NotPersisted, store, leases, gate
<1>2. /\ excl \in ExclType /\ excl.model \in Models /\ excl.kind = "collect"
      /\ ~excl.possible /\ route \in Records /\ ~pruning /\ route # NoRoute
    BY <1>1 DEF IInv, Typed, Working, Gated
<1>3. /\ Removed \in Records /\ Removed # NoRoute /\ Removed.table = route.table
      /\ TableOf(Removed) = TableOf(route) /\ TableOf(route) = route.table
  <2>1. Removed \in Records /\ Removed.table = route.table
    BY <1>2 DEF Removed, Records
  <2> QED
    BY <1>2, <2>1, EpochsAssumption DEF TableOf
<1>4. Agrees
    BY <1>2, CollectAgrees
<1>5. query \in {NoModel, TableOf(route).model} /\ query \in Models \cup {NoModel}
  <2>1. CASE cache = Unloaded
    BY <2>1
  <2>2. CASE cache # Unloaded
    <3>1. cache \in Views /\ query = cache.query
      BY <2>2 DEF IInv, Typed
    <3>2. query \in {NoModel, TableOf(cache.record).model}
      BY <2>2, <3>1 DEF IInv, Cached
    <3>3. cache.record = NoRoute => TableOf(cache.record).model = NoModel
      BY LegacyNotOwned DEF TableOf
    <3> QED
      BY <1>4, <2>2, <3>1, <3>2, <3>3 DEF Agrees, Views
  <2> QED
    BY <2>1, <2>2
<1> HIDE DEF query
<1>6. view \in Views /\ view # Unloaded /\ view.record = Removed /\ view.query = query
  <2>1. view \in Views /\ view.record = Removed /\ view.query = query
    BY <1>3, <1>5 DEF Views
  <2> QED
    BY <2>1, EpochsAssumption
<1> HIDE DEF view
<1>7. /\ receipts' \in SUBSET Owned /\ made' \in Nat /\ made <= made'
      /\ route' \in Records \cup {NoRoute}
      /\ tables' \in SUBSET Tables /\ cache' \in Views \cup {Unloaded}
      /\ pruning' \in BOOLEAN /\ ~pruning'
    BY <1>1, <1>2, <1>3, <1>6 DEF IInv, Typed
<1>8. Served' /\ Reads' /\ Pure'
    BY <1>1, <1>2, <1>3 DEF IInv, Served, Reads, Pure
<1>9. CASE /\ route' = Removed /\ cache' = view /\ phase' = phase
           /\ excl' = [excl EXCEPT !.pc = "collect"]
  <2>1. /\ excl' \in ExclType /\ excl'.pc = "collect" /\ excl'.table = excl.table
        /\ excl'.model = excl.model /\ excl'.kind = "collect"
        /\ excl'.possible = excl.possible
    BY <1>2, <1>9 DEF ExclType, Works
  <2>2. Fresh'
    BY <1>1, <2>1 DEF IInv, Fresh
  <2>3. Cached'
    BY <1>1, <1>2, <1>3, <1>5, <1>6, <1>9 DEF Cached, IInv, Served
  <2>4. Working' /\ Spared'
    BY <1>2, <1>3, <1>9, <2>1 DEF Working, Spared, Works
  <2> QED
    BY <1>1, <1>7, <1>8, <1>9, <2>1, <2>2, <2>3, <2>4, ExclStep
<1>10. CASE route' \in {route, Removed} /\ cache' = cache /\ Activated
  <2>1. Agrees'
    BY <1>1, <1>3, <1>4, <1>10 DEF Agrees
  <2>2. /\ excl' \in ExclType /\ excl' = NoExcl /\ excl'.table = Legacy
        /\ phase' \in {"ready", "uncertain"} /\ Cached' /\ Working' /\ Spared'
    BY <1>1, <1>3, <1>10, <2>1, GivenUp
  <2>3. Fresh'
    BY <1>1, <1>7, <2>2, LegacyNotOwned DEF IInv, Fresh
  <2> QED
    BY <1>1, <1>7, <1>8, <2>2, <2>3, ExclStep
<1> QED
    BY <1>1, <1>9, <1>10

\* Pruning starts only when no reader of any table is left.
LEMMA StartPruneIInv ==
    ASSUME IInv, UNCHANGED setting, StartPrune
    PROVE  IInv'
<1>1. /\ excl.pc = "prune"
      /\ UNCHANGED <<route, pending, receipts, tables, rows, made, cache,
                     unproven, reader, writer, boot>>
    BY DEF StartPrune, files, store
<1>2. CASE ~Quiet
  <2>1. Released /\ UNCHANGED pruning
    BY <1>2 DEF StartPrune
  <2> QED
    BY <1>1, <2>1, ReleaseIInv
<1>3. CASE Quiet
  <2>1. /\ pruning' = TRUE /\ excl' = [excl EXCEPT !.pc = "pruned"] /\ phase' = phase
    BY <1>3 DEF StartPrune, gate
  <2>2. /\ excl \in ExclType /\ excl.model \in Models /\ excl.kind = "prune"
        /\ ~excl.possible
    BY <1>1 DEF IInv, Typed, Working, Works
  <2>3. /\ excl' \in ExclType /\ excl'.pc = "pruned" /\ excl'.table = excl.table
        /\ excl'.model = excl.model /\ excl'.kind = excl.kind
        /\ excl'.possible = excl.possible
    BY <2>1, <2>2 DEF ExclType
  <2>4. \A r \in Readers : reader[r].pc = "idle"
    <3>1. \A r \in Readers : reader[r].pc \in {"idle", "pinned", "reading", "lingering"}
      BY DEF IInv, Typed, ReaderType
    <3> QED
      BY <1>3, <3>1 DEF Quiet, Held, IInv, Reads
  <2>5. Reads'
    BY <1>1, <2>4 DEF IInv, Reads
  <2>6. Fresh' /\ Served' /\ Pure'
    BY <1>1, <2>3 DEF IInv, Fresh, Served, Pure
  <2>7. Cached'
    BY <1>1, <2>1, <2>3 DEF IInv, Cached
  <2>8. Working' /\ Spared'
    BY <2>2, <2>3 DEF Working, Spared, Works
  <2>9. /\ receipts' \in SUBSET Owned /\ made' \in Nat /\ made <= made'
        /\ route' \in Records \cup {NoRoute}
        /\ tables' \in SUBSET Tables /\ cache' \in Views \cup {Unloaded}
    BY <1>1 DEF IInv, Typed
  <2>10. pruning' \in BOOLEAN
    BY <2>1
  <2>11. excl.pc # "none" /\ excl'.pc # "none"
    BY <1>1, <2>3
  <2> QED
    BY <1>1, <2>1, <2>3, <2>5, <2>6, <2>7, <2>8, <2>9, <2>10, <2>11, ExclStep
<1> QED
    BY <1>2, <1>3

\* Pruning ends.
LEMMA EndPruneIInv ==
    ASSUME IInv, UNCHANGED setting, EndPrune
    PROVE  IInv'
<1>1. /\ excl.pc = "pruned" /\ pruning' = FALSE /\ Released
      /\ UNCHANGED <<route, pending, receipts, tables, rows, made, cache,
                     unproven, reader, writer, boot>>
    BY DEF EndPrune, files, store
<1>2. /\ excl' \in ExclType /\ excl' = NoExcl /\ excl'.table = Legacy
      /\ phase' \in {"ready", "uncertain"} /\ Cached' /\ Working' /\ Spared'
    BY <1>1, GivenUp
<1>3. /\ receipts' \in SUBSET Owned /\ made' \in Nat /\ made <= made'
      /\ route' \in Records \cup {NoRoute}
      /\ tables' \in SUBSET Tables /\ cache' \in Views \cup {Unloaded}
    BY <1>1 DEF IInv, Typed
<1>4. Fresh'
    BY <1>1, <1>2, <1>3, LegacyNotOwned DEF IInv, Fresh
<1>5. Served' /\ Reads' /\ Pure'
    BY <1>1 DEF IInv, Served, Reads, Pure
<1>6. pruning' \in BOOLEAN /\ ~pruning'
    BY <1>1
<1> QED
    BY <1>1, <1>2, <1>3, <1>4, <1>5, <1>6, ExclStep

-----------------------------------------------------------------------------
\* A crash keeps the files and the tables, and forgets everything else.
LEMMA CrashIInv ==
    ASSUME IInv, UNCHANGED setting, Crash
    PROVE  IInv'
<1>1. /\ cache' = Unloaded /\ pruning' = FALSE /\ unproven' = FALSE /\ phase' = "ready"
      /\ reader' = [r \in Readers |-> NoReader]
      /\ writer' = [w \in Writers |-> NoWriter]
      /\ boot' = NoBoot /\ excl' = NoExcl
      /\ UNCHANGED <<route, pending, receipts, tables, rows, made>>
    BY DEF Crash, files, store
<1>2. /\ NoReader \in ReaderType /\ NoReader.pc = "idle" /\ NoReader.query = NoModel
      /\ NoWriter \in WriterType /\ NoWriter.pc = "idle"
      /\ NoBoot \in BootType /\ NoBoot.pc = "none" /\ NoBoot.table = Legacy
    BY DEF NoReader, NoWriter, NoBoot, ReaderType, WriterType, BootType, Tables, Space
<1>3. Typed'
    BY <1>1, <1>2, NoExclFacts DEF IInv, Typed
<1>4. Fresh'
  <2>1. Legacy.token <= made
    BY LegacyNotOwned DEF IInv, Typed
  <2> QED
    BY <1>1, <1>2, <2>1, NoExclFacts DEF IInv, Fresh
<1>5. Gated' /\ Served' /\ Cached'
    BY <1>1, <1>2 DEF IInv, Gated, Served, Cached
<1>6. Booting' /\ Waiting' /\ Working' /\ Spared'
    BY <1>1, <1>2, NothingHeld DEF Booting, Waiting
<1>7. Writes' /\ Reads' /\ Pure'
    BY <1>1, <1>2 DEF IInv, Writes, Reads, Pure
<1> QED
    BY <1>3, <1>4, <1>5, <1>6, <1>7 DEF IInv

\* Every step preserves the invariant.
LEMMA NextIInv == IInv /\ [Next /\ UNCHANGED setting]_<<vars, setting>> => IInv'
<1> SUFFICES ASSUME IInv, [Next /\ UNCHANGED setting]_<<vars, setting>> PROVE IInv'
    OBVIOUS
<1>1. /\ setting.readers \subseteq Readers /\ setting.writers \subseteq Writers
      /\ setting.docs \subseteq Docs /\ setting.models \subseteq Models
      /\ setting.work \subseteq Works /\ setting.kinds \subseteq {"vector", "lexical"}
    BY EpochsAssumption DEF IInv, Typed, Works
<1>2. CASE UNCHANGED <<vars, setting>>
  <2>1. /\ UNCHANGED <<setting, route, pending, receipts, tables, rows, made,
                       pruning, phase, writer, boot, excl, cache, reader, unproven>>
    BY <1>2 DEF vars, files, store, leases, gate
  <2>2. /\ reader' \in [Readers -> ReaderType] /\ unproven' \in BOOLEAN
        /\ Reads' /\ Spared'
    BY <2>1 DEF IInv, Typed, Reads, Spared
  <2> QED
    BY <2>1, <2>2, ReaderStep
<1>3. ASSUME UNCHANGED setting, NEW r \in setting.readers,
             (\E m \in setting.models : Pin(r, m)) \/ StartRead(r) \/ EndRead(r) \/ FailRead(r)
      PROVE  IInv'
    BY <1>1, <1>3, PinIInv, ReadIInv
<1>4. ASSUME UNCHANGED setting, NEW w \in setting.writers, NEW kind \in setting.kinds,
             NEW m \in setting.models, NEW d \in setting.docs, Admit(w, kind, m, d)
      PROVE  IInv'
    BY <1>1, <1>4, AdmitIInv
<1>5. ASSUME UNCHANGED setting, NEW w \in setting.writers, Writing(w)
      PROVE  IInv'
  <2>1. w \in Writers
    BY <1>1
  <2> QED
    BY <1>5, <2>1, AdvanceIInv, OpenTableIInv, UpsertIInv, CommitLexicalIInv,
       TakeMutexIInv, LeaveIInv DEF Writing
<1>6. CASE UNCHANGED setting /\ Bootstrapping
    BY <1>6, BootstrapIInv, BootEnds, BootMoves, BootstrapPublishIInv DEF Bootstrapping
<1>7. ASSUME UNCHANGED setting, NEW kind \in setting.work, NEW m \in setting.models,
             Begin(kind, m)
      PROVE  IInv'
    BY <1>1, <1>7, BeginIInv
<1>8. CASE UNCHANGED setting /\ Rebuilding
    BY <1>8, RefuseBuildIInv, StageReceiptIInv, StageCreateIInv, ScanIInv,
       StageMovesIInv, PublishRouteIInv DEF Rebuilding
<1>9. CASE UNCHANGED setting /\ (CollectEnd \/ \E t \in excl.todo : CollectNext(t))
    BY <1>9, CollectIInv
<1>10. CASE UNCHANGED setting /\ Dropping
    BY <1>10, DropCheckIInv, DropTableIInv, DropFailsIInv, ForgetOwnedIInv,
       RemoveRetiredIInv DEF Dropping
<1>11. CASE UNCHANGED setting /\ (StartPrune \/ EndPrune \/ Crash)
    BY <1>11, StartPruneIInv, EndPruneIInv, CrashIInv
<1> QED
    BY <1>2, <1>3, <1>4, <1>5, <1>6, <1>7, <1>8, <1>9, <1>10, <1>11 DEF Next

\* The invariant holds in every reachable state: the file, the cached view,
\* the bootstrap, the exclusive work, the writers and the readers agree on
\* which tables exist and who names them.
THEOREM Invariance == Spec => []IInv
  BY InitIInv, NextIInv, PTL DEF Spec

\* The durable route names an existing table with a receipt whatever crashed
\* or failed; while the root is open the process serves that table; and the
\* handle a writer keeps without a lease is still that table's.
THEOREM ServedRoute == Spec => []RouteIsServed
<1>1. IInv => RouteIsServed
  <2> SUFFICES ASSUME IInv PROVE RouteIsServed
    OBVIOUS
  <2>1. phase = "ready" => ~excl.possible
    BY NoExclFacts DEF IInv, Gated
  <2> QED
    BY <2>1 DEF IInv, Served, Cached, Writes, RouteIsServed, Refused
<1> QED
    BY <1>1, Invariance, PTL

\* No table is dropped while a search may read it, the native work of a failed
\* search included, and native history is pruned only without readers.
THEOREM KeptForReads == Spec => []ReadsKeepTable
<1>1. IInv => ReadsKeepTable
  <2> SUFFICES ASSUME IInv, NEW r \in Readers
               PROVE  /\ reader[r].pc \in {"reading", "lingering"} => reader[r].table \in tables
                      /\ reader[r].pc = "pinned" /\ reader[r].query # NoModel
                            => reader[r].table \in tables
                      /\ pruning => reader[r].pc = "idle"
    BY DEF ReadsKeepTable
  <2>1. reader[r].table = Legacy => reader[r].query = NoModel
    BY LegacyNotOwned DEF IInv, Reads
  <2> QED
    BY <2>1 DEF IInv, Reads
<1> QED
    BY <1>1, Invariance, PTL

\* Vectors of two embedding models never meet, neither in a table nor in a
\* query and the table it searches.
THEOREM OneSpace == Spec => []SpacesNeverMix
<1>1. IInv => SpacesNeverMix
    BY DEF IInv, Pure, Reads, SpacesNeverMix
<1> QED
    BY <1>1, Invariance, PTL

-----------------------------------------------------------------------------
(* What the routed table holds when it becomes the routed table.           *)

\* A writer may commit documents only while a lexical writer owns the mutex
\* or the project has a route.
Locked == \A w \in Writers :
    /\ writer[w].pc = "ready" /\ writer[w].kind = "lexical" =>
          boot.pc = "lexical" /\ boot.for = w
    /\ writer[w].pc = "ready" /\ writer[w].kind = "vector" => route # NoRoute
    /\ writer[w].pc \in {"mutex", "wait"} => writer[w].kind = "vector"

\* Nothing is stored while a bootstrap makes the first table.
Empty == boot.pc \in {"receipt", "intent", "created"} => docs = {}

\* Every stored document is in the scanned stage.
Embedded == excl.pc \in {"scanned", "marked"} =>
    \A d \in docs : <<excl.table, d, excl.model>> \in rows

Stocked == Locked /\ Empty /\ Embedded

\* While the root is open, a route that is seen is one the file has.
LEMMA SeenRouted ==
    ASSUME IInv, phase = "ready", Seen # NoRoute
    PROVE  route # NoRoute
<1>1. CASE cache = Unloaded
    BY <1>1 DEF Seen
<1>2. CASE cache # Unloaded
  <2>1. cache \in Views /\ Seen = cache.record
    BY <1>2 DEF IInv, Typed, Seen
  <2>2. cache.record \in Records
    BY <2>1 DEF Views
  <2>3. TableOf(cache.record) \in Owned
    BY <2>2, RecordTables, EpochsAssumption
  <2>4. ~excl.possible
    BY NoExclFacts DEF IInv, Gated
  <2>5. TableOf(cache.record) = TableOf(route)
    BY <1>2, <2>1, <2>4 DEF IInv, Cached
  <2> QED
    BY <2>3, <2>5, LegacyNotOwned DEF TableOf
<1> QED
    BY <1>1, <1>2

\* Steps of readers, and the start of exclusive work.
LEMMA StockStays ==
    ASSUME Stocked, UNCHANGED <<route, docs, rows, writer, boot>>,
           excl' = excl \/ excl'.pc \notin {"scanned", "marked"}
    PROVE  Stocked'
<1>1. Locked' /\ Empty'
    BY DEF Stocked, Locked, Empty
<1>2. Embedded'
    BY DEF Stocked, Embedded
<1> QED
    BY <1>1, <1>2 DEF Stocked

\* A writer's step: exclusive work rests, so only the writer and the mutex
\* count.
LEMMA WriterStocks ==
    ASSUME IInv, Stocked, phase = "ready", UNCHANGED <<route, excl>>, NEW w \in Writers,
           NEW n \in WriterType, writer' = [writer EXCEPT ![w] = n],
           n.pc = "ready" /\ n.kind = "lexical" => boot'.pc = "lexical" /\ boot'.for = w,
           n.pc = "ready" /\ n.kind = "vector" => route # NoRoute,
           n.pc \in {"mutex", "wait"} => n.kind = "vector",
           \/ boot' = boot
           \/ boot.pc = "none"
           \/ boot.for = w
           \/ boot'.pc = boot.pc /\ boot'.for = boot.for,
           Empty'
    PROVE  Stocked'
<1>1. /\ writer'[w] = n /\ \A v \in Writers : v # w => writer'[v] = writer[v]
    BY DEF IInv, Typed
<1>2. Locked'
    BY <1>1 DEF Stocked, Locked
<1>3. Embedded'
    BY NoExclFacts DEF IInv, Gated, Embedded
<1> QED
    BY <1>2, <1>3 DEF Stocked

\* Every step of a writer.
LEMMA WritingStocks ==
    ASSUME IInv, Stocked, NEW w \in Writers, Writing(w)
    PROVE  Stocked'
<1>1. writer[w].pc # "idle" /\ UNCHANGED <<route, excl>>
    BY DEF Writing, TakeLane, TakeMutex, Preflight, StartBootstrap, CommitLexical,
           OpenTable, StartUpsert, Upsert, Leave, files
<1>2. phase = "ready" /\ writer[w] \in WriterType
    BY <1>1, WriterKeepsReady
<1>3. NoWriter \in WriterType /\ NoWriter.pc = "idle"
    BY DEF NoWriter, WriterType, Tables, Space
<1>4. ASSUME NEW pc \in {"lane", "mutex", "wait", "ready", "stored", "native", "detached"}
      PROVE  /\ [writer[w] EXCEPT !.pc = pc] \in WriterType
             /\ [writer[w] EXCEPT !.pc = pc].pc = pc
             /\ [writer[w] EXCEPT !.pc = pc].kind = writer[w].kind
    BY <1>2 DEF WriterType
<1>5. docs' = docs /\ boot' = boot => Empty'
    BY DEF Stocked, Empty
<1>6. CASE TakeLane(w)
  <2>1. writer' = [writer EXCEPT ![w] = [writer[w] EXCEPT !.pc = "lane"]]
        /\ boot' = boot /\ docs' = docs
    BY <1>6 DEF TakeLane, store
  <2> QED
    BY <1>1, <1>2, <1>4, <1>5, <2>1, WriterStocks
<1>7. CASE StartUpsert(w)
  <2>1. writer' = [writer EXCEPT ![w] = [writer[w] EXCEPT !.pc = "native"]]
        /\ boot' = boot /\ docs' = docs
    BY <1>7 DEF StartUpsert, store
  <2> QED
    BY <1>1, <1>2, <1>4, <1>5, <2>1, WriterStocks
<1>8. CASE Upsert(w)
  <2>1. writer' = [writer EXCEPT ![w] = NoWriter] /\ boot' = boot /\ docs' = docs
    BY <1>8 DEF Upsert
  <2> QED
    BY <1>1, <1>2, <1>3, <1>5, <2>1, WriterStocks
<1>9. CASE OpenTable(w)
  <2> DEFINE n == [writer[w] EXCEPT !.pc = "open", !.table = Seen.table]
  <2>1. /\ writer' = [writer EXCEPT ![w].pc = "open", ![w].table = Seen.table]
        /\ boot' = boot /\ docs' = docs /\ Seen # NoRoute
        /\ Seen.table \in receipts
    BY <1>9 DEF OpenTable, store
  <2>2. writer' = [writer EXCEPT ![w] = n]
    BY <2>1 DEF IInv, Typed
  <2>3. n \in WriterType /\ n.pc = "open"
    BY <1>2, <2>1 DEF WriterType, Tables, IInv, Typed
  <2> HIDE DEF n
  <2> QED
    BY <1>1, <1>2, <1>5, <2>1, <2>2, <2>3, WriterStocks
<1>10. CASE Preflight(w)
  <2>1. PICK pc \in {"mutex", "ready"} :
           /\ writer' = [writer EXCEPT ![w] = [writer[w] EXCEPT !.pc = pc]]
           /\ pc = "ready" => Seen # NoRoute
    BY <1>10 DEF Preflight
  <2>2. writer[w].kind = "vector" /\ boot' = boot /\ docs' = docs
    BY <1>10 DEF Preflight, store
  <2>3. pc = "ready" => route # NoRoute
    BY <1>2, <2>1, SeenRouted
  <2> QED
    BY <1>1, <1>2, <1>4, <1>5, <2>1, <2>2, <2>3, WriterStocks
<1>11. CASE TakeMutex(w)
  <2>1. /\ writer' = [writer EXCEPT ![w] = [writer[w] EXCEPT !.pc = "ready"]]
        /\ writer[w].kind = "lexical" /\ boot.pc = "none"
        /\ boot'.pc = "lexical" /\ boot'.for = w
    BY <1>11 DEF TakeMutex, MutexFree, NoBoot
  <2>2. Empty'
    BY <2>1 DEF Empty
  <2> QED
    BY <1>1, <1>2, <1>4, <2>1, <2>2, WriterStocks
<1>12. CASE StartBootstrap(w)
  <2>1. /\ writer' = [writer EXCEPT ![w] = [writer[w] EXCEPT !.pc = "wait"]]
        /\ writer[w].pc = "mutex" /\ boot.pc = "none" /\ boot'.pc = "start"
    BY <1>12 DEF StartBootstrap, MutexFree, NoBoot
  <2>2. Empty' /\ writer[w].kind = "vector"
    BY <2>1 DEF Empty, Stocked, Locked
  <2> QED
    BY <1>1, <1>2, <1>4, <2>1, <2>2, WriterStocks
<1>13. CASE CommitLexical(w)
  <2>1. writer[w].pc = "ready"
    BY <1>13 DEF CommitLexical
  <2>2. CASE writer[w].kind = "lexical"
    <3>1. boot.pc = "lexical" /\ boot.for = w
      BY <2>1, <2>2 DEF Stocked, Locked
    <3>2. writer' = [writer EXCEPT ![w] = NoWriter] /\ boot' = NoBoot
      BY <1>13, <2>2, <3>1 DEF CommitLexical
    <3>3. Empty'
      BY <3>2 DEF Empty, NoBoot
    <3> QED
      BY <1>1, <1>2, <1>3, <3>1, <3>2, <3>3, WriterStocks
  <2>3. CASE writer[w].kind # "lexical"
    <3>1. writer' = [writer EXCEPT ![w] = [writer[w] EXCEPT !.pc = "stored"]] /\ boot' = boot
      BY <1>13, <2>3 DEF CommitLexical
    <3>2. writer[w].kind = "vector"
      BY <1>2, <2>3 DEF WriterType
    <3>3. route # NoRoute
      BY <2>1, <3>2 DEF Stocked, Locked
    <3>4. Empty'
      BY <3>1, <3>3 DEF IInv, Booting, Empty
    <3> QED
      BY <1>1, <1>2, <1>4, <3>1, <3>4, WriterStocks
  <2> QED
    BY <2>2, <2>3
<1>14. CASE Leave(w)
  <2>1. PICK n \in {NoWriter, [writer[w] EXCEPT !.pc = "detached"]} :
           writer' = [writer EXCEPT ![w] = n]
    BY <1>14 DEF Leave, IInv, Typed
  <2>2. n \in WriterType /\ n.pc \in {"idle", "detached"}
    BY <1>3, <1>4, <2>1
  <2>3. /\ boot.for # w => boot' = boot
        /\ boot' \in {boot, NoBoot, [boot EXCEPT !.for = NoModel]}
        /\ docs' = docs
    BY <1>14 DEF Leave, store
  <2>4. boot'.pc \in {boot.pc, "none"}
    BY <2>3 DEF IInv, Typed, BootType, NoBoot
  <2>5. Empty'
    BY <2>3, <2>4 DEF Stocked, Empty
  <2> QED
    BY <1>1, <1>2, <2>1, <2>2, <2>3, <2>5, WriterStocks
<1> QED
    BY <1>6, <1>7, <1>8, <1>9, <1>10, <1>11, <1>12, <1>13, <1>14 DEF Writing

\* A bootstrap starts with an empty store, and ends before its writer goes on.
LEMMA BootstrapStocks ==
    ASSUME IInv, Stocked, Bootstrapping
    PROVE  Stocked'
<1>1. /\ boot.pc \notin {"none", "lexical"} /\ UNCHANGED <<docs, excl, rows>>
      /\ route' = route \/ (route' = [table |-> boot.table, retired |-> {}] /\ boot.pc = "created")
    BY DEF Bootstrapping, Bootstrap, BootstrapNot, BootstrapIntent, BootstrapCreate,
           BootstrapFail, BootstrapPublish, BootstrapEnd, Persisted, NotPersisted,
           files, store
<1>2. phase = "ready" /\ excl = NoExcl
    BY <1>1 DEF IInv, Typed, Gated
<1>3. Embedded'
    BY <1>1, <1>2, NoExclFacts DEF Embedded
<1>4. route # NoRoute => route' # NoRoute
  <2>1. boot.pc = "created" => route = NoRoute
    BY DEF IInv, Booting
  <2> QED
    BY <1>1, <2>1
<1>5. \A v \in Writers : writer[v].pc = "ready" => writer[v].kind = "vector"
    BY <1>1 DEF Stocked, Locked, IInv, Typed, WriterType
<1>6. ASSUME writer' = writer, boot'.pc = "published" \/ docs = {}
      PROVE  Stocked'
  <2>1. Locked'
    BY <1>4, <1>5, <1>6 DEF Stocked, Locked
  <2>2. Empty'
    BY <1>1, <1>6 DEF Empty
  <2> QED
    BY <1>3, <2>1, <2>2 DEF Stocked
<1>7. ASSUME boot' = NoBoot, NEW pc \in {"ready", "idle"}, writer' = Report(pc),
             pc = "ready" => route' # NoRoute
      PROVE  Stocked'
  <2>1. Empty'
    BY <1>7 DEF Empty, NoBoot
  <2>2. \A v \in Writers : v # boot.for => writer'[v] = writer[v]
    BY <1>7 DEF Report, IInv, Typed
  <2>3. boot.for \in Writers =>
           /\ writer[boot.for].pc = "wait" /\ writer[boot.for].kind = "vector"
           /\ writer[boot.for] \in WriterType
    BY <1>1 DEF IInv, Typed, Waiting, Stocked, Locked
  <2>4. boot.for \in Writers =>
           writer'[boot.for] = IF pc = "idle" THEN NoWriter ELSE [writer[boot.for] EXCEPT !.pc = pc]
    BY <1>7 DEF Report, IInv, Typed
  <2>5. boot.for \in Writers =>
           /\ writer'[boot.for].pc = pc
           /\ pc = "ready" => writer'[boot.for].kind = "vector"
    BY <2>3, <2>4 DEF WriterType, NoWriter
  <2>6. Locked'
    BY <1>4, <1>5, <1>7, <2>2, <2>5 DEF Stocked, Locked
  <2> QED
    BY <1>3, <2>1, <2>6 DEF Stocked
<1>8. CASE Bootstrap \/ BootstrapIntent \/ BootstrapCreate
  <2>1. writer' = writer
    BY <1>8 DEF Bootstrap, BootstrapIntent, BootstrapCreate
  <2>2. docs = {}
    BY <1>8 DEF Bootstrap, BootstrapIntent, BootstrapCreate, Stocked, Empty
  <2> QED
    BY <1>6, <2>1, <2>2
<1>9. CASE BootstrapNot
  <2>1. boot' = NoBoot
    BY <1>9 DEF BootstrapNot
  <2>2. CASE writer' = Report("idle")
    BY <1>7, <2>1, <2>2
  <2>3. CASE writer' = Report("ready") /\ Seen # NoRoute
    BY <1>2, <1>4, <1>7, <2>1, <2>3, SeenRouted
  <2> QED
    BY <1>9, <2>2, <2>3 DEF BootstrapNot
<1>10. CASE BootstrapFail
    BY <1>7, <1>10 DEF BootstrapFail
<1>11. CASE BootstrapPublish
  <2>1. CASE boot' = NoBoot /\ writer' = Report("idle")
    BY <1>7, <2>1
  <2>2. CASE boot' = [boot EXCEPT !.pc = "published"] /\ writer' = writer
    <3>1. boot'.pc = "published"
      BY <2>2 DEF IInv, Typed, BootType
    <3> QED
      BY <1>6, <2>2, <3>1
  <2> QED
    BY <1>11, <2>1, <2>2 DEF BootstrapPublish
<1>12. CASE BootstrapEnd
  <2>1. boot' = NoBoot /\ writer' = Report("ready") /\ boot.pc = "published"
    BY <1>12 DEF BootstrapEnd
  <2>2. route' # NoRoute
    BY <1>4, <2>1 DEF IInv, Booting
  <2> QED
    BY <1>7, <2>1, <2>2
<1> QED
    BY <1>8, <1>9, <1>10, <1>11, <1>12 DEF Bootstrapping

\* Exclusive work: no writer and no bootstrap is there to be disturbed.
LEMMA ExclusiveStocks ==
    ASSUME IInv, Stocked, excl.pc # "none", UNCHANGED <<writer, boot, docs>>, Embedded'
    PROVE  Stocked'
<1>1. /\ \A w \in Writers : writer[w].pc = "idle"
      /\ boot.pc \in {"none", "lexical"}
    BY Alone
<1> QED
    BY <1>1 DEF Stocked, Locked, Empty

\* The scan embeds every stored document, and no document is stored until the
\* route changes.
LEMMA RebuildStocks ==
    ASSUME IInv, Stocked,
           \/ Rebuilding \/ Dropping \/ StartPrune \/ EndPrune
           \/ CollectEnd \/ \E t \in excl.todo : CollectNext(t)
    PROVE  Stocked'
<1>1. excl.pc # "none" /\ UNCHANGED <<writer, boot, docs>>
    BY DEF Rebuilding, RefuseBuild, StageReceipt, StageCreate, StageFail, Scan, Cancelled,
           MarkPublication, PublishRoute, FinishActivation, Dropping, DropCheck, DropTable,
           DropFails, ForgetOwned, RemoveRetired, StartPrune, EndPrune, CollectEnd,
           CollectNext, store
<1>2. excl \in ExclType
    BY <1>1, Alone
<1> SUFFICES Embedded'
    BY <1>1, ExclusiveStocks
<1>3. ASSUME excl' = NoExcl \/ \E pc \in {"receipt", "created", "published", "drop",
                                          "dropping", "forget", "remove", "collect", "pruned"} :
                                  excl'.pc = pc
      PROVE  Embedded'
    BY <1>3, NoExclFacts DEF Embedded
<1>4. CASE Scan
  <2>1. /\ excl' = [excl EXCEPT !.pc = "scanned"]
        /\ rows' = rows \cup {<<excl.table, d, excl.model>> : d \in docs}
    BY <1>4 DEF Scan
  <2>2. excl'.table = excl.table /\ excl'.model = excl.model
    BY <1>2, <2>1 DEF ExclType
  <2> QED
    BY <1>1, <2>1, <2>2 DEF Embedded
<1>5. CASE MarkPublication
  <2>1. /\ excl.pc = "scanned" /\ rows' = rows
        /\ excl' = [excl EXCEPT !.pc = "marked", !.possible = TRUE]
    BY <1>5 DEF MarkPublication, store
  <2>2. excl'.table = excl.table /\ excl'.model = excl.model
    BY <1>2, <2>1 DEF ExclType
  <2> QED
    BY <1>1, <2>1, <2>2 DEF Embedded, Stocked
<1>6. CASE RefuseBuild \/ StageFail \/ FinishActivation \/ EndPrune \/ CollectEnd
    BY <1>3, <1>6 DEF RefuseBuild, StageFail, FinishActivation, EndPrune, CollectEnd,
                      Released, Activated
<1>7. CASE StageReceipt \/ StageCreate \/ Cancelled
    BY <1>2, <1>3, <1>7 DEF StageReceipt, StageCreate, Cancelled, ExclType
<1>8. CASE PublishRoute
    BY <1>2, <1>3, <1>8 DEF PublishRoute, Released, ExclType
<1>9. CASE DropCheck \/ DropFails
    BY <1>2, <1>3, <1>9 DEF DropCheck, DropFails, Kept, Released, ExclType
<1>10. CASE DropTable \/ ForgetOwned \/ RemoveRetired
    BY <1>2, <1>3, <1>10 DEF DropTable, ForgetOwned, RemoveRetired, Released, Activated,
                             ExclType
<1>11. CASE StartPrune
    BY <1>2, <1>3, <1>11 DEF StartPrune, Released, ExclType
<1>12. ASSUME NEW t \in excl.todo, CollectNext(t)
       PROVE  Embedded'
    BY <1>2, <1>3, <1>12 DEF CollectNext, Activated, ExclType
<1> QED
    BY <1>4, <1>5, <1>6, <1>7, <1>8, <1>9, <1>10, <1>11, <1>12 DEF Rebuilding, Dropping

\* Every step keeps the second invariant.
LEMMA NextStocked ==
    IInv /\ Stocked /\ [Next /\ UNCHANGED setting]_<<vars, setting>> => Stocked'
<1> SUFFICES ASSUME IInv, Stocked, [Next /\ UNCHANGED setting]_<<vars, setting>>
             PROVE  Stocked'
    OBVIOUS
<1>1. setting.writers \subseteq Writers /\ setting.work \subseteq Works
    BY EpochsAssumption DEF IInv, Typed, Works
<1>2. CASE UNCHANGED <<vars, setting>>
    BY <1>2, StockStays DEF vars, files, store
<1>3. ASSUME NEW r \in setting.readers,
             (\E m \in setting.models : Pin(r, m)) \/ StartRead(r) \/ EndRead(r) \/ FailRead(r)
      PROVE  Stocked'
    BY <1>3, StockStays DEF Pin, StartRead, EndRead, FailRead, files, store
<1>4. ASSUME NEW w \in setting.writers, NEW kind \in setting.kinds,
             NEW m \in setting.models, NEW d \in setting.docs, Admit(w, kind, m, d)
      PROVE  Stocked'
  <2> DEFINE n == [pc |-> "admitted", kind |-> kind, model |-> m, doc |-> d, table |-> Legacy]
  <2>1. /\ writer' = [writer EXCEPT ![w] = n] /\ n.pc = "admitted"
        /\ UNCHANGED <<route, docs, rows, boot, excl>>
    BY <1>4 DEF Admit, files, store
  <2> HIDE DEF n
  <2>2. Locked' /\ Empty'
    BY <1>1, <2>1 DEF IInv, Typed, Stocked, Locked, Empty
  <2>3. Embedded'
    BY <2>1 DEF Stocked, Embedded
  <2> QED
    BY <2>2, <2>3 DEF Stocked
<1>5. ASSUME NEW w \in setting.writers, Writing(w)
      PROVE  Stocked'
    BY <1>1, <1>5, WritingStocks
<1>6. CASE Bootstrapping
    BY <1>6, BootstrapStocks
<1>7. ASSUME NEW kind \in setting.work, NEW m \in setting.models, Begin(kind, m)
      PROVE  Stocked'
  <2>1. UNCHANGED <<route, docs, rows, writer, boot>>
    BY <1>7 DEF Begin, files, store
  <2>2. excl'.pc = kind
    BY <1>7 DEF Begin, NoExcl
  <2> QED
    BY <1>1, <2>1, <2>2, StockStays DEF Works
<1>8. CASE \/ Rebuilding \/ Dropping \/ StartPrune \/ EndPrune
           \/ CollectEnd \/ \E t \in excl.todo : CollectNext(t)
    BY <1>8, RebuildStocks
<1>9. CASE Crash
  <2>1. /\ \A w \in Writers : writer'[w].pc = "idle"
        /\ boot'.pc = "none" /\ excl'.pc = "none"
    BY <1>9 DEF Crash, NoWriter, NoBoot, NoExcl
  <2> QED
    BY <2>1 DEF Stocked, Locked, Empty, Embedded
<1> QED
    BY <1>2, <1>3, <1>4, <1>5, <1>6, <1>7, <1>8, <1>9 DEF Next

\* The second invariant holds initially.
LEMMA InitStocked == Init => Stocked
  BY DEF Init, Stocked, Locked, Empty, Embedded, NoWriter, NoBoot, NoExcl

\* The table of the route changes only by a publication, of a table that is
\* scanned or of the first one.
LEMMA RouteMoves ==
    ASSUME IInv, Stocked, Next, TableOf(route') # TableOf(route)
    PROVE  \A d \in docs : \E m \in Models : <<route'.table, d, m>> \in rows
<1>1. CASE BootstrapPublish
  <2>1. docs = {}
    BY <1>1 DEF BootstrapPublish, Stocked, Empty
  <2> QED
    BY <2>1
<1>2. CASE PublishRoute
  <2>1. route' = NextRoute \/ route' = route
    BY <1>2 DEF PublishRoute, Persisted, NotPersisted
  <2>2. excl.pc = "marked" /\ excl.table \in Owned /\ excl.model \in Models
    BY <1>2 DEF PublishRoute, IInv, Working, Unnamed
  <2>3. route'.table = excl.table
    BY <2>1, <2>2, NextRouteIsRecord
  <2>4. \A d \in docs : <<excl.table, d, excl.model>> \in rows
    BY <2>2 DEF Stocked, Embedded
  <2> QED
    BY <2>2, <2>3, <2>4
<1>3. CASE RemoveRetired
  <2>1. route' = Removed \/ route' = route
    BY <1>3 DEF RemoveRetired, NotPersisted
  <2>2. route \in Records /\ route # NoRoute
    BY <1>3 DEF RemoveRetired, IInv, Working, Typed
  <2>3. Removed \in Records /\ Removed.table = route.table
    BY <2>2 DEF Removed, Records
  <2>4. TableOf(Removed) = TableOf(route)
    BY <2>2, <2>3, EpochsAssumption DEF TableOf
  <2> QED
    BY <2>1, <2>4
<1>4. CASE ~BootstrapPublish /\ ~PublishRoute /\ ~RemoveRetired
  <2>1. route' = route
    BY <1>4 DEF Next, Pin, StartRead, EndRead, FailRead, Admit, Writing, TakeLane, TakeMutex,
                Preflight, StartBootstrap, CommitLexical, OpenTable, StartUpsert, Upsert, Leave,
                Bootstrapping, Bootstrap, BootstrapNot, BootstrapIntent, BootstrapCreate,
                BootstrapFail, BootstrapEnd, Begin, Rebuilding, RefuseBuild, StageReceipt,
                StageCreate, StageFail, Scan, Cancelled, MarkPublication, FinishActivation,
                CollectNext, CollectEnd, Dropping, DropCheck, DropTable, DropFails,
                ForgetOwned, StartPrune, EndPrune, Crash, files
  <2> QED
    BY <2>1
<1> QED
    BY <1>1, <1>2, <1>3, <1>4

\* Whenever the routed table changes, the new one has a vector for every
\* stored document: a rebuild publishes what it scanned, with writers kept
\* out, and a bootstrap publishes an empty table of an empty store.
THEOREM ActivatesComplete == Spec => CompleteOnActivation
<1>1. Init => IInv /\ Stocked
    BY InitIInv, InitStocked
<1>2. IInv /\ Stocked /\ [Next /\ UNCHANGED setting]_<<vars, setting>> => (IInv /\ Stocked)'
    BY NextIInv, NextStocked
<1>3. IInv /\ Stocked /\ [Next /\ UNCHANGED setting]_<<vars, setting>>
         => [TableOf(route') # TableOf(route) =>
               \A d \in docs : \E m \in Models : <<route'.table, d, m>> \in rows]_vars
  <2>1. Next /\ IInv /\ Stocked /\ TableOf(route') # TableOf(route)
           => \A d \in docs : \E m \in Models : <<route'.table, d, m>> \in rows
    BY RouteMoves
  <2> QED
    BY <2>1
<1> QED
    BY <1>1, <1>2, <1>3, PTL DEF Spec, CompleteOnActivation
-----------------------------------------------------------------------------
(* The code graph.  That no purge removes a published declaration rests on  *)
(* the generations: what the extraction renewed is at the head when the     *)
(* scoped purge looks, and nothing published is older than the baseline of  *)
(* the sweep (Unpurged).  That the mirrors agree rests on what each stage   *)
(* has in hand being keys of the edge table (Staged), and on the drain of a *)
(* repair emptying one table after the other (Mirrored).                    *)

\* The fields of the flow.
IsOp ==
    op = [pc |-> op.pc, kind |-> op.kind, layout |-> op.layout, keys |-> op.keys,
          removed |-> op.removed, succ |-> op.succ, moved |-> op.moved]

GraphTypes ==
    /\ mix \in Mixes
    /\ nodes \in [Ids -> Nat] /\ edges \in [Keys -> Nat]
    /\ head \in Nat /\ base \in Nat /\ base <= head
    /\ learn \in Nat /\ learns \in Nat /\ halts \in Nat
    /\ IsOp
    /\ DOMAIN live = Files /\ \A f \in Files : TextOf(f, live[f])

\* What a flow has in hand at each of its stages.
Staged ==
    /\ op.pc \in {"upsert", "publish"} =>
           /\ Paths \subseteq Files /\ \A f \in Paths : TextOf(f, op.layout[f])
           /\ op.kind \notin {"update", "only"} => Paths = Files
    /\ op.pc \in {"collect", "nodes", "relate", "edges", "insert"} => op.kind \in {"update", "only"}
    /\ op.pc \in {"collect", "nodes", "relate", "edges", "insert", "resolve", "bind", "baseline"} =>
           head # 0
    /\ op.pc \in {"nodes", "relate"} => op.succ \subseteq Decls \X Decls
    /\ op.pc = "edges" => op.moved \subseteq Keys
    /\ op.pc = "insert" => op.keys \subseteq Keys
    /\ op.pc = "bind" => op.keys \subseteq {p \in Rels \X Decls : Target(p[1]) \in Names}
    /\ op.pc \in {"gcnodes", "gcrelate", "gcedges"} => op.kind = "gc"
    /\ op.pc = "baseline" => op.kind = "none"
    /\ op.pc \in {"wnodes", "wedges", "wout", "win"} => op.kind = "wipe"
    /\ op.kind = "wipe" => "wipe" \in mix.flows
    /\ mix.learns = 0 => learn = 0

\* The mirrors, and what the drain of a repair has emptied.
Mirrored ==
    /\ op.pc \notin {"wedges", "wout", "win"} => out = Rels /\ inc = Rels
    /\ op.pc \in {"wout", "win"} => Rels = {}
    /\ op.pc = "win" => out = {}

\* The declarations of the published text, which every purge must spare.
Unpurged ==
    /\ op.kind # "wipe" => \A d \in Declared(live) : nodes[d] # 0 /\ nodes[d] >= base
    /\ op.pc = "publish" => \A d \in Declared(op.layout) : nodes[d] = head + 1
    /\ op.pc = "collect" => \A d \in Declared(live) : PathOf[d] \in Paths => nodes[d] = head
    /\ op.pc \in {"nodes", "gcnodes"} => op.keys \intersect Declared(live) = {}
    /\ op.pc \in {"resolve", "bind", "baseline"} /\ op.kind # "update" =>
           \A d \in Declared(live) : nodes[d] = head

GraphInv ==
    /\ GraphTypes /\ Staged
    /\ Unstopped /\ Uncrossed => Mirrored
    /\ Unstopped => Unpurged

\* One transaction that inserts edges inserts them in all three tables.
LEMMA PutTables ==
    ASSUME edges \in [Keys -> Nat], NEW ks, ks \subseteq Keys, NEW g \in Nat \ {0},
           PutEdges(ks, g)
    PROVE  edges' \in [Keys -> Nat] /\ Rels' = Rels \cup ks /\ out' = out \cup ks /\ inc' = inc \cup ks
  BY DEF PutEdges, Rels

\* One transaction that removes edges removes them from all three tables.
LEMMA DropTables ==
    ASSUME edges \in [Keys -> Nat], NEW ks, DropEdges(ks)
    PROVE  edges' \in [Keys -> Nat] /\ Rels' = Rels \ ks /\ out' = out \ ks /\ inc' = inc \ ks
  BY DEF DropEdges, Rels

\* Removed nodes are 0, the others as before.
LEMMA DropRows ==
    ASSUME nodes \in [Ids -> Nat], NEW is, DropNodes(is)
    PROVE  nodes' \in [Ids -> Nat] /\ \A i \in Ids : nodes'[i] = IF i \in is THEN 0 ELSE nodes[i]
  BY DEF DropNodes

\* The members of a union of declarations.
LEMMA DeclaredIn ==
    ASSUME NEW l, NEW d
    PROVE  d \in Declared(l) <=> \E f \in DOMAIN l : d \in l[f].decls
  BY DEF Declared

\* The published declarations are nodes of their own files.
LEMMA LiveNodes ==
    ASSUME GraphTypes
    PROVE  \A d \in Declared(live) : d \in Decls /\ d \in Ids
  BY DEF GraphTypes, TextOf, Declared, Ids

\* The extracted edges are keys of the table.
LEMMA CallKeys ==
    ASSUME NEW l, \A f \in DOMAIN l : TextOf(f, l[f])
    PROVE  {<<"calls", c[1], c[2]>> : c \in Calls(l)} \subseteq Keys
  <1>1. \A c \in Calls(l) : c \in Decls \X Names
    BY DEF Calls, TextOf
  <1>2. SUFFICES ASSUME NEW c \in Calls(l) PROVE <<"calls", c[1], c[2]>> \in Keys
    OBVIOUS
  <1>3. c[1] \in Decls /\ c[2] \in Names
    BY <1>1
  <1> QED BY <1>3 DEF Keys

\* An extraction gives every file one of its texts.
LEMMA ExtractedTexts ==
    ASSUME mix \in Mixes, NEW paths, paths \subseteq Files, NEW l \in Extractions(paths)
    PROVE  DOMAIN l = paths /\ \A f \in paths : TextOf(f, l[f])
  BY GraphAssumption DEF Extractions

\* A key is a call between declarations and symbols, or a pair of hits.
LEMMA KeyShape ==
    ASSUME NEW k \in Keys
    PROVE  \/ k[1] = "calls" /\ Source(k) \in Decls /\ Target(k) \in Decls \cup Names
           \/ k[1] = "learned" /\ Source(k) \in Hits /\ Target(k) \in Hits
  BY DEF Keys, Source, Target

\* Only a declaration has a successor: what identifies a hit is the hit.
LEMMA Successors ==
    ASSUME NEW i \in Ids, NEW j \in Ids, Identity(i) = Identity(j), i # j
    PROVE  i \in Decls /\ j \in Decls
  <1>1. \A d \in Decls : NameOf[d] \in Names BY GraphAssumption
  <1>2. \A n \in Names : n \notin Ids BY GraphAssumption
  <1>3. CASE i \in Decls /\ j \notin Decls
    <2>1. NameOf[i] = j BY <1>3 DEF Identity
    <2> QED BY <2>1, <1>1, <1>2, <1>3
  <1>4. CASE i \notin Decls /\ j \in Decls
    <2>1. NameOf[j] = i BY <1>4 DEF Identity
    <2> QED BY <2>1, <1>1, <1>2, <1>4
  <1>5. CASE i \notin Decls /\ j \notin Decls
    BY <1>5 DEF Identity
  <1> QED BY <1>3, <1>4, <1>5

\* Moving an edge to successors gives an edge.
LEMMA MovedKeys ==
    ASSUME NEW ks, ks \subseteq Keys, op.succ \subseteq Decls \X Decls
    PROVE  Moved(ks) \subseteq Keys
  <1>1. SUFFICES ASSUME NEW k \in ks, NEW s \in Mapped(Source(k)), NEW t \in Mapped(Target(k))
                 PROVE  <<k[1], s, t>> \in Keys
    BY DEF Moved
  <1>2. \A i, j : j \in Mapped(i) => j = i \/ (i \in Decls /\ j \in Decls)
    BY DEF Mapped
  <1>3. s = Source(k) \/ (Source(k) \in Decls /\ s \in Decls) BY <1>2
  <1>4. t = Target(k) \/ (Target(k) \in Decls /\ t \in Decls) BY <1>2
  <1>5. k \in Keys OBVIOUS
  <1>6. CASE k[1] = "calls" /\ Source(k) \in Decls /\ Target(k) \in Decls \cup Names
    <2>1. s \in Decls /\ t \in Decls \cup Names BY <1>3, <1>4, <1>6
    <2> QED BY <2>1, <1>6 DEF Keys
  <1>7. CASE k[1] = "learned" /\ Source(k) \in Hits /\ Target(k) \in Hits
    <2>1. s \in Hits /\ t \in Hits BY <1>3, <1>4, <1>7, GraphAssumption
    <2> QED BY <2>1, <1>7 DEF Keys
  <1> QED BY <1>5, <1>6, <1>7, KeyShape

\* The pairs of a search session are keys of the table.
LEMMA PairKeys == Pairs \subseteq Keys
  BY DEF Pairs, Keys

Olds(ks) == {p[1] : p \in ks}

\* Binding replaces the references by the bound edges, in all three tables, and
\* keeps their generations.
LEMMA BindTables ==
    ASSUME edges \in [Keys -> Nat], ResolveWrite,
           op.keys \subseteq {p \in Rels \X Decls : Target(p[1]) \in Names}
    PROVE  /\ edges' \in [Keys -> Nat]
           /\ Rels' = (Rels \ Olds(op.keys)) \cup Bound(op.keys)
           /\ out' = (out \ Olds(op.keys)) \cup Bound(op.keys)
           /\ inc' = (inc \ Olds(op.keys)) \cup Bound(op.keys)
           /\ \A k \in Bound(op.keys) : \E o \in Olds(op.keys) : edges'[k] = edges[o]
           /\ \A k \in Rels' \ Bound(op.keys) : edges'[k] = edges[k]
  <1> DEFINE old == {p[1] : p \in op.keys}
             new == Bound(op.keys)
             from(k) == CHOOSE o \in old : <<o, Target(k)>> \in op.keys
                                           /\ Source(o) = Source(k)
  <1>1. /\ edges' = [k \in Keys |-> IF k \in new THEN edges[from(k)]
                                       ELSE IF k \in old THEN 0 ELSE edges[k]]
        /\ out' = (out \ old) \union new
        /\ inc' = (inc \ old) \union new
    BY DEF ResolveWrite
  <1>2. \A p \in op.keys : /\ p = <<p[1], p[2]>> /\ p[1] \in Rels /\ p[2] \in Decls
                           /\ Target(p[1]) \in Names
    OBVIOUS
  <1>3. Rels \subseteq Keys BY DEF Rels
  <1>4. new \subseteq Keys
    <2>1. SUFFICES ASSUME NEW p \in op.keys
                   PROVE  <<"calls", Source(p[1]), p[2]>> \in Keys
      BY DEF Bound
    <2>2. Target(p[1]) \notin Hits BY <1>2, GraphAssumption DEF Ids
    <2>3. Source(p[1]) \in Decls BY <1>2, <1>3, <2>2, KeyShape
    <2> QED BY <2>3, <1>2 DEF Keys
  <1>5. \A k \in new : from(k) \in old
    <2>1. SUFFICES ASSUME NEW k \in new PROVE from(k) \in old
      OBVIOUS
    <2>2. PICK p \in op.keys : k = <<"calls", Source(p[1]), p[2]>> BY DEF Bound
    <2>3. p[1] \in old OBVIOUS
    <2>4. <<p[1], Target(k)>> \in op.keys BY <2>2, <1>2 DEF Target
    <2>5. Source(p[1]) = Source(k) BY <2>2 DEF Source
    <2>6. \E o \in old : <<o, Target(k)>> \in op.keys /\ Source(o) = Source(k)
      BY <2>3, <2>4, <2>5
    <2> QED BY <2>6
  <1>6. \A o \in old : o \in Rels /\ edges[o] \in Nat /\ edges[o] # 0 BY <1>2 DEF Rels
  <1>7. old = Olds(op.keys) BY DEF Olds
  <1> HIDE DEF old, new, from
  <1>8. edges' \in [Keys -> Nat] BY <1>1, <1>5, <1>6
  <1>9. Rels' = (Rels \ old) \cup new
    BY <1>1, <1>4, <1>5, <1>6 DEF Rels
  <1>10. \A k \in new : \E o \in old : edges'[k] = edges[o] BY <1>1, <1>4, <1>5
  <1>11. \A k \in Rels' \ new : edges'[k] = edges[k] BY <1>1, <1>9, <1>3 DEF Rels
  <1>12. new = Bound(op.keys) BY DEF new
  <1> QED BY <1>1, <1>7, <1>8, <1>9, <1>10, <1>11, <1>12
\* At rest nothing is in hand.
LEMMA AtRest ==
    ASSUME op' = Idle
    PROVE  IsOp' /\ op'.pc = "idle" /\ op'.kind = "none" /\ op'.keys = {}
  BY DEF Idle, IsOp

\* A step that leaves the tables and the publication alone keeps what does not
\* depend on the flow.
LEMMA TypesStay ==
    ASSUME GraphTypes, mix' = mix, UNCHANGED <<graphTables, pub>>, IsOp',
           learn' \in Nat, learns' \in Nat, halts' \in Nat
    PROVE  GraphTypes' /\ Rels' = Rels
  BY DEF GraphTypes, graphTables, pub, Rels, TextOf

\* A flow begins.
LEMMA BeginStays ==
    ASSUME GraphInv, mix' = mix, NEW kind \in {"index", "update", "only", "repair"},
           NEW paths \in SUBSET Files \ {{}}, NEW l \in Extractions(paths),
           BeginFlow(kind, paths, l)
    PROVE  GraphInv'
  <1> USE DEF GraphInv
  <1>1. /\ IsOp' /\ op'.pc = "upsert" /\ op'.kind = kind /\ op'.layout = l
        /\ UNCHANGED <<graphTables, pub, learn, learns, halts>>
        /\ op.pc = "idle" /\ op.kind = "none"
        /\ kind \in {"update", "only"} \/ paths = Files
    BY DEF BeginFlow, Idle, IsOp
  <1>2. GraphTypes' /\ Rels' = Rels BY <1>1, TypesStay DEF GraphTypes
  <1>3. DOMAIN l = paths /\ \A f \in paths : TextOf(f, l[f])
    BY ExtractedTexts DEF GraphTypes
  <1>4. Paths' = paths BY <1>1, <1>3 DEF Paths
  <1>5. \A f \in Paths' : TextOf(f, op'.layout[f]) BY <1>1, <1>3, <1>4
  <1>6. Staged' BY <1>1, <1>2, <1>4, <1>5 DEF Staged, TextOf
  <1>7. Unstopped' /\ Uncrossed' => Mirrored' BY <1>1, <1>2 DEF Unstopped, Uncrossed, Mirrored, graphTables
  <1>8. Unstopped' => Unpurged' BY <1>1 DEF Unstopped, Uncrossed, Unpurged, graphTables, pub
  <1> QED BY <1>2, <1>6, <1>7, <1>8

\* Everything that the flow extracted is upserted at the next generation.
LEMMA UpsertStays ==
    ASSUME GraphInv, mix' = mix, UpsertGraph
    PROVE  GraphInv'
  <1> USE DEF GraphInv
  <1>1. /\ IsOp' /\ op.pc = "upsert" /\ op'.pc = "publish" /\ op'.kind = op.kind
        /\ op'.layout = op.layout
        /\ UNCHANGED <<pub, learn, learns, halts>>
        /\ PutEdges({<<"calls", c[1], c[2]>> : c \in Calls(op.layout)}, head + 1)
    BY DEF UpsertGraph, GraphTypes, IsOp
  <1>2. Paths' = Paths BY <1>1 DEF Paths
  <1>3. Paths \subseteq Files /\ \A f \in Paths : TextOf(f, op.layout[f])
    BY <1>1 DEF Staged
  <1>4. {<<"calls", c[1], c[2]>> : c \in Calls(op.layout)} \subseteq Keys
    BY <1>3, CallKeys DEF Paths
  <1>5. head + 1 \in Nat \ {0} BY DEF GraphTypes
  <1> DEFINE ks == {<<"calls", c[1], c[2]>> : c \in Calls(op.layout)}
  <1>6. edges' \in [Keys -> Nat] /\ Rels' = Rels \cup ks /\ out' = out \cup ks /\ inc' = inc \cup ks
    BY <1>1, <1>4, <1>5, PutTables DEF GraphTypes
  <1> HIDE DEF ks
  <1>7. nodes' = [i \in Ids |-> IF i \in Declared(op.layout) THEN head + 1 ELSE nodes[i]]
    BY DEF UpsertGraph
  <1>8. nodes' \in [Ids -> Nat] BY <1>7, <1>5 DEF GraphTypes
  <1>9. GraphTypes' BY <1>1, <1>6, <1>8 DEF GraphTypes, pub, TextOf
  <1>10. Staged' BY <1>1, <1>2, <1>3 DEF Staged, TextOf
  <1>11. Unstopped' /\ Uncrossed' => Mirrored' BY <1>1, <1>6 DEF Unstopped, Uncrossed, Mirrored
  <1>12. \A d \in Declared(op.layout) : d \in Ids
    BY <1>3 DEF Declared, Paths, TextOf, Ids
  <1>13. \A d \in Declared(live) : d \in Ids BY LiveNodes
  <1>14. Unstopped' => Unpurged'
    <2>1. SUFFICES ASSUME Unstopped' PROVE Unpurged' OBVIOUS
    <2>2. Unpurged BY <2>1 DEF Unstopped, Uncrossed
    <2>3. head' = head /\ base' = base /\ live' = live BY <1>1 DEF pub
    <2>4. \A d \in Declared(op'.layout) : nodes'[d] = head' + 1
      BY <1>1, <1>7, <1>12, <2>3
    <2>5. op'.kind # "wipe" => \A d \in Declared(live') : nodes'[d] # 0 /\ nodes'[d] >= base'
      BY <1>1, <1>5, <1>7, <1>13, <2>2, <2>3 DEF Unpurged, GraphTypes
    <2> QED BY <1>1, <2>4, <2>5 DEF Unpurged
  <1> QED BY <1>9, <1>10, <1>11, <1>14

\* The published declarations are those of the refreshed and of the other files.
LEMMA PublishStays ==
    ASSUME GraphInv, mix' = mix, Publish
    PROVE  GraphInv'
  <1> USE DEF GraphInv
  <1> DEFINE new == [f \in Files |-> IF f \in Paths THEN op.layout[f] ELSE live[f]]
  <1>1. /\ IsOp' /\ op.pc = "publish" /\ op'.kind = op.kind
        /\ op'.pc = IF op.kind \in {"update", "only"} THEN "collect" ELSE "resolve"
        /\ op'.layout = op.layout
        /\ UNCHANGED <<graphTables, base, learn, learns, halts>>
        /\ head' = head + 1 /\ live' = new
    BY DEF Publish, GraphTypes, IsOp
  <1>2. Paths' = Paths BY <1>1 DEF Paths
  <1>3. /\ Paths \subseteq Files /\ \A f \in Paths : TextOf(f, op.layout[f])
        /\ op.kind \notin {"update", "only"} => Paths = Files
    BY <1>1 DEF Staged
  <1>4. \A f \in Files : TextOf(f, new[f])
    BY <1>3 DEF GraphTypes, TextOf
  <1>5. DOMAIN new = Files OBVIOUS
  <1>6. \A d \in Declared(new) :
           \/ d \in Declared(op.layout)
           \/ d \in Declared(live) /\ PathOf[d] \notin Paths
    <2>1. SUFFICES ASSUME NEW d \in Declared(new)
                   PROVE  \/ d \in Declared(op.layout)
                          \/ d \in Declared(live) /\ PathOf[d] \notin Paths
      OBVIOUS
    <2>2. PICK f \in Files : d \in new[f].decls BY DeclaredIn
    <2>3. CASE f \in Paths
      <3>1. new[f] = op.layout[f] BY <2>3
      <3> QED BY <2>2, <2>3, <3>1, DeclaredIn DEF Paths
    <2>4. CASE f \notin Paths
      <3>1. new[f] = live[f] BY <2>4
      <3>2. PathOf[d] = f BY <2>2, <3>1 DEF GraphTypes, TextOf
      <3>3. d \in Declared(live) BY <2>2, <3>1, DeclaredIn DEF GraphTypes
      <3> QED BY <2>4, <3>2, <3>3
    <2> QED BY <2>3, <2>4
  <1>7. Paths = Files => \A d \in Declared(new) : PathOf[d] \in Paths
    BY <1>4, <1>5, DeclaredIn DEF TextOf
  <1> HIDE DEF new
  <1>8. Rels' = Rels BY <1>1 DEF graphTables, Rels
  <1>9. GraphTypes' BY <1>1, <1>4, <1>5 DEF GraphTypes, graphTables, TextOf
  <1>10. Staged' BY <1>1 DEF Staged, GraphTypes
  <1>11. Unstopped' /\ Uncrossed' => Mirrored' BY <1>1, <1>8 DEF Unstopped, Uncrossed, Mirrored, graphTables
  <1>12. Unstopped' => Unpurged'
    <2>1. SUFFICES ASSUME Unstopped' PROVE Unpurged' OBVIOUS
    <2>2. Unpurged BY <2>1 DEF Unstopped, Uncrossed
    <2>3. nodes' = nodes /\ base' = base BY <1>1 DEF graphTables
    <2>4. \A d \in Declared(op.layout) : nodes[d] = head + 1 BY <1>1, <2>2 DEF Unpurged
    <2>5. op'.kind # "wipe" => \A d \in Declared(live') : nodes'[d] # 0 /\ nodes'[d] >= base'
      <3>1. head + 1 # 0 /\ head + 1 >= base BY DEF GraphTypes
      <3> QED BY <1>1, <1>6, <2>2, <2>3, <2>4, <3>1 DEF Unpurged
    <2>6. \A d \in Declared(live') : PathOf[d] \in Paths => nodes'[d] = head'
      BY <1>1, <1>6, <2>3, <2>4
    <2>7. op.kind \notin {"update", "only"} => \A d \in Declared(live') : nodes'[d] = head'
      BY <1>1, <1>3, <1>7, <2>6
    <2>8. op'.pc = "collect" => \A d \in Declared(live') : PathOf[d] \in Paths' => nodes'[d] = head'
      BY <2>6, <1>2
    <2>9. op'.pc = "resolve" => \A d \in Declared(live') : nodes'[d] = head'
      BY <2>7, <1>1
    <2>10. op'.pc \in {"collect", "resolve"} BY <1>1
    <2> QED BY <2>5, <2>8, <2>9, <2>10 DEF Unpurged
  <1> QED BY <1>9, <1>10, <1>11, <1>12

\* The scoped purge takes what the extraction of these files did not renew.
LEMMA CollectStays ==
    ASSUME GraphInv, mix' = mix, CollectNodes
    PROVE  GraphInv'
  <1> USE DEF GraphInv
  <1> DEFINE mine  == {i \in Here : PathOf[i] \in Paths}
             stale == {i \in mine : nodes[i] # head}
  <1>9. PICK last \in SUBSET (mine \ stale) :
            op' = [op EXCEPT !.pc = "nodes", !.keys = stale, !.removed = stale,
                             !.succ = {p \in stale \X last : Identity(p[1]) = Identity(p[2])}]
    BY DEF CollectNodes
  <1> DEFINE succ == {p \in stale \X last : Identity(p[1]) = Identity(p[2])}
  <1>1. /\ op.pc = "collect"
        /\ op' = [op EXCEPT !.pc = "nodes", !.keys = stale, !.removed = stale, !.succ = succ]
        /\ UNCHANGED <<graphTables, pub, learn, learns, halts>>
    BY <1>9 DEF CollectNodes
  <1>2. succ \subseteq Decls \X Decls
    <2>1. SUFFICES ASSUME NEW p \in succ PROVE p \in Decls \X Decls OBVIOUS
    <2>2. p = <<p[1], p[2]>> /\ p[1] \in stale /\ p[2] \in mine \ stale
          /\ Identity(p[1]) = Identity(p[2]) OBVIOUS
    <2>3. p[1] \in Ids /\ p[2] \in Ids /\ p[1] # p[2] BY <2>2 DEF Here
    <2>4. p[1] \in Decls /\ p[2] \in Decls BY <2>2, <2>3, Successors
    <2> QED BY <2>2, <2>4
  <1>3. \A i \in stale : PathOf[i] \in Paths /\ nodes[i] # head OBVIOUS
  <1> HIDE DEF mine, stale, succ
  <1>4. /\ IsOp' /\ op'.pc = "nodes" /\ op'.kind = op.kind /\ op'.keys = stale
        /\ op'.succ = succ
    BY <1>1 DEF GraphTypes, IsOp
  <1>5. GraphTypes' /\ Rels' = Rels BY <1>1, <1>4, TypesStay DEF GraphTypes
  <1>6. Staged' BY <1>1, <1>2, <1>4 DEF Staged, pub
  <1>7. Unstopped' /\ Uncrossed' => Mirrored' BY <1>1, <1>4, <1>5 DEF Unstopped, Uncrossed, Mirrored, graphTables
  <1>8. Unstopped' => Unpurged'
    <2>1. SUFFICES ASSUME Unstopped' PROVE Unpurged' OBVIOUS
    <2>2. Unpurged BY <2>1 DEF Unstopped, Uncrossed
    <2>3. stale \cap Declared(live) = {} BY <1>1, <1>3, <2>2 DEF Unpurged
    <2> QED BY <1>1, <1>4, <2>2, <2>3 DEF Unpurged, graphTables, pub
  <1> QED BY <1>5, <1>6, <1>7, <1>8

\* A batch of nodes goes, none of them published.
LEMMA DeleteNodesStays ==
    ASSUME GraphInv, mix' = mix, DeleteNodes
    PROVE  GraphInv'
  <1> USE DEF GraphInv
  <1>1. op.pc \in {"nodes", "gcnodes"} /\ UNCHANGED <<edges, out, inc, pub, learn, learns, halts>>
    BY DEF DeleteNodes
  <1>2. Rels' = Rels BY <1>1 DEF Rels
  <1>3. CASE /\ nodes' = nodes
             /\ op' = [op EXCEPT !.pc = IF op.pc = "nodes" THEN "relate" ELSE "gcrelate"]
    <2>1. /\ IsOp' /\ op'.kind = op.kind /\ op'.keys = op.keys /\ op'.succ = op.succ
          /\ op'.pc = IF op.pc = "nodes" THEN "relate" ELSE "gcrelate"
      BY <1>3 DEF GraphTypes, IsOp
    <2>2. GraphTypes' BY <1>1, <1>3, <2>1 DEF GraphTypes, pub, TextOf
    <2>3. Staged' BY <1>1, <2>1 DEF Staged, pub
    <2>4. Unstopped' /\ Uncrossed' => Mirrored' BY <1>1, <1>2, <2>1 DEF Unstopped, Uncrossed, Mirrored
    <2>5. Unstopped' => Unpurged' BY <1>1, <1>3, <2>1 DEF Unstopped, Uncrossed, Unpurged, pub
    <2> QED BY <2>2, <2>3, <2>4, <2>5
  <1>4. ASSUME NEW b \in SUBSET op.keys \ {{}}, DropNodes(b), op' = [op EXCEPT !.keys = @ \ b]
        PROVE  GraphInv'
    <2>1. /\ IsOp' /\ op'.kind = op.kind /\ op'.keys = op.keys \ b /\ op'.succ = op.succ
          /\ op'.pc = op.pc
      BY <1>4 DEF GraphTypes, IsOp
    <2>2. nodes' \in [Ids -> Nat] /\ \A i \in Ids : nodes'[i] = IF i \in b THEN 0 ELSE nodes[i]
      BY <1>4, DropRows DEF GraphTypes
    <2>3. GraphTypes' BY <1>1, <2>1, <2>2 DEF GraphTypes, pub, TextOf
    <2>4. Staged' BY <1>1, <2>1 DEF Staged, pub
    <2>5. Unstopped' /\ Uncrossed' => Mirrored' BY <1>1, <1>2, <2>1 DEF Unstopped, Uncrossed, Mirrored
    <2>6. Unstopped' => Unpurged'
      <3>1. SUFFICES ASSUME Unstopped' PROVE Unpurged' OBVIOUS
      <3>2. Unpurged BY <3>1 DEF Unstopped, Uncrossed
      <3>3. op.keys \cap Declared(live) = {} BY <1>1, <3>2 DEF Unpurged
      <3>4. \A d \in Declared(live) : nodes'[d] = nodes[d] BY <2>2, <3>3, LiveNodes
      <3> QED BY <1>1, <2>1, <3>2, <3>3, <3>4 DEF Unpurged, pub
    <2> QED BY <2>3, <2>4, <2>5, <2>6
  <1> QED BY <1>3, <1>4 DEF DeleteNodes

\* The edges that the purge retires or moves.
LEMMA CollectEdgesStays ==
    ASSUME GraphInv, mix' = mix, CollectEdges
    PROVE  GraphInv'
  <1> USE DEF GraphInv
  <1> DEFINE refreshed == {i \in Here : PathOf[i] \in Paths} \union op.removed
             retired   == RetiredCalls(refreshed)
             touching  == {k \in Rels \ retired : /\ edges[k] < head
                                                  /\ {Source(k), Target(k)} \intersect op.removed # {}}
  <1>1. /\ op.pc = "relate"
        /\ op' = [op EXCEPT !.pc = "edges", !.keys = retired \union touching, !.moved = Moved(touching)]
        /\ UNCHANGED <<graphTables, pub, learn, learns, halts>>
    BY DEF CollectEdges
  <1>2. touching \subseteq Keys BY DEF Rels
  <1> HIDE DEF refreshed, retired, touching
  <1>3. op.succ \subseteq Decls \X Decls BY <1>1 DEF Staged
  <1>4. Moved(touching) \subseteq Keys BY <1>2, <1>3, MovedKeys
  <1>5. IsOp' /\ op'.pc = "edges" /\ op'.kind = op.kind /\ op'.moved = Moved(touching)
    BY <1>1 DEF GraphTypes, IsOp
  <1>6. GraphTypes' /\ Rels' = Rels BY <1>1, <1>5, TypesStay DEF GraphTypes
  <1>7. Staged' BY <1>1, <1>4, <1>5 DEF Staged, pub
  <1>8. Unstopped' /\ Uncrossed' => Mirrored' BY <1>1, <1>5, <1>6 DEF Unstopped, Uncrossed, Mirrored, graphTables
  <1>9. Unstopped' => Unpurged' BY <1>1, <1>5 DEF Unstopped, Uncrossed, Unpurged, graphTables, pub
  <1> QED BY <1>6, <1>7, <1>8, <1>9
\* A batch of edges goes, or the next stage begins.
LEMMA DeleteEdgesStays ==
    ASSUME GraphInv, mix' = mix, DeleteEdges
    PROVE  GraphInv'
  <1> USE DEF GraphInv
  <1>1. op.pc \in {"edges", "gcedges"} /\ UNCHANGED <<nodes, pub, learn, learns, halts>>
    BY DEF DeleteEdges
  <1>2. CASE /\ UNCHANGED <<edges, out, inc>>
             /\ op' = IF op.pc = "edges"
                      THEN [op EXCEPT !.pc = "insert", !.keys = op.moved] ELSE Idle
    <2>1. CASE op.pc = "edges"
      <3>1. IsOp' /\ op'.pc = "insert" /\ op'.keys = op.moved /\ op'.kind = op.kind
        BY <1>2, <2>1 DEF GraphTypes, IsOp
      <3>2. GraphTypes' /\ Rels' = Rels BY <1>1, <1>2, <3>1, TypesStay DEF GraphTypes, graphTables
      <3>3. Staged' BY <1>1, <2>1, <3>1 DEF Staged, pub
      <3>4. Unstopped' /\ Uncrossed' => Mirrored' BY <1>2, <2>1, <3>1, <3>2 DEF Unstopped, Uncrossed, Mirrored
      <3>5. Unstopped' => Unpurged' BY <1>1, <2>1, <3>1 DEF Unstopped, Uncrossed, Unpurged, pub
      <3> QED BY <3>2, <3>3, <3>4, <3>5
    <2>2. CASE op.pc = "gcedges"
      <3>1. op' = Idle BY <1>2, <2>2
      <3>2. IsOp' /\ op'.pc = "idle" /\ op'.kind = "none" BY <3>1, AtRest
      <3>3. GraphTypes' /\ Rels' = Rels BY <1>1, <1>2, <3>2, TypesStay DEF GraphTypes, graphTables
      <3>4. Staged' BY <1>1, <3>2 DEF Staged
      <3>5. Unstopped' /\ Uncrossed' => Mirrored' BY <1>2, <2>2, <3>2, <3>3 DEF Unstopped, Uncrossed, Mirrored
      <3>6. op.kind # "wipe" BY <2>2 DEF Staged
      <3>7. Unstopped' => Unpurged' BY <1>1, <3>2, <3>6 DEF Unstopped, Uncrossed, Unpurged, pub
      <3> QED BY <3>3, <3>4, <3>5, <3>7
    <2> QED BY <1>1, <2>1, <2>2
  <1>3. ASSUME NEW b \in SUBSET op.keys \ {{}}, DropEdges(b), op' = [op EXCEPT !.keys = @ \ b]
        PROVE  GraphInv'
    <2>1. IsOp' /\ op'.pc = op.pc /\ op'.moved = op.moved /\ op'.kind = op.kind
      BY <1>3 DEF GraphTypes, IsOp
    <2>2. edges' \in [Keys -> Nat] /\ Rels' = Rels \ b /\ out' = out \ b /\ inc' = inc \ b
      BY <1>3, DropTables DEF GraphTypes
    <2>3. GraphTypes' BY <1>1, <2>1, <2>2 DEF GraphTypes, pub, TextOf
    <2>4. Staged' BY <1>1, <2>1 DEF Staged, pub
    <2>5. Unstopped' /\ Uncrossed' => Mirrored' BY <1>1, <2>1, <2>2 DEF Unstopped, Uncrossed, Mirrored
    <2>6. Unstopped' => Unpurged' BY <1>1, <2>1 DEF Unstopped, Uncrossed, Unpurged, pub
    <2> QED BY <2>3, <2>4, <2>5, <2>6
  <1> QED BY <1>2, <1>3 DEF DeleteEdges

\* A batch of moved edges is inserted, or the purge ends.
LEMMA InsertMovedStays ==
    ASSUME GraphInv, mix' = mix, InsertMoved
    PROVE  GraphInv'
  <1> USE DEF GraphInv
  <1>1. op.pc = "insert" /\ UNCHANGED <<nodes, pub, learn, learns, halts>>
    BY DEF InsertMoved
  <1>2. head # 0 /\ op.kind \in {"update", "only"} /\ op.keys \subseteq Keys BY <1>1 DEF Staged
  <1>3. CASE /\ UNCHANGED <<edges, out, inc>>
             /\ op' = IF op.kind = "only" THEN Idle ELSE [op EXCEPT !.pc = "resolve"]
    <2>1. \/ IsOp' /\ op'.pc = "idle" /\ op'.kind = "none"
          \/ IsOp' /\ op'.pc = "resolve" /\ op'.kind = "update"
      <3>1. CASE op.kind = "only" BY <1>3, <3>1, AtRest
      <3>2. CASE op.kind = "update" BY <1>3, <3>2 DEF GraphTypes, IsOp
      <3> QED BY <1>2, <3>1, <3>2
    <2>2. GraphTypes' /\ Rels' = Rels BY <1>1, <1>3, <2>1, TypesStay DEF GraphTypes, graphTables
    <2>3. Staged' BY <1>1, <1>2, <2>1 DEF Staged, pub
    <2>4. Unstopped' /\ Uncrossed' => Mirrored' BY <1>1, <1>3, <2>1, <2>2 DEF Unstopped, Uncrossed, Mirrored
    <2>5. Unstopped' => Unpurged' BY <1>1, <1>2, <2>1 DEF Unstopped, Uncrossed, Unpurged, pub
    <2> QED BY <2>2, <2>3, <2>4, <2>5
  <1>4. ASSUME NEW b \in SUBSET op.keys \ {{}}, PutEdges(b, head), op' = [op EXCEPT !.keys = @ \ b]
        PROVE  GraphInv'
    <2>1. IsOp' /\ op'.pc = op.pc /\ op'.keys = op.keys \ b /\ op'.kind = op.kind
      BY <1>4 DEF GraphTypes, IsOp
    <2>2. b \subseteq Keys /\ head \in Nat \ {0} BY <1>2 DEF GraphTypes
    <2>3. edges' \in [Keys -> Nat] /\ Rels' = Rels \cup b /\ out' = out \cup b /\ inc' = inc \cup b
      BY <1>4, <2>2, PutTables DEF GraphTypes
    <2>4. GraphTypes' BY <1>1, <2>1, <2>3 DEF GraphTypes, pub, TextOf
    <2>5. Staged' BY <1>1, <2>1 DEF Staged, pub
    <2>6. Unstopped' /\ Uncrossed' => Mirrored' BY <1>1, <2>1, <2>3 DEF Unstopped, Uncrossed, Mirrored
    <2>7. Unstopped' => Unpurged' BY <1>1, <2>1 DEF Unstopped, Uncrossed, Unpurged, pub
    <2> QED BY <2>4, <2>5, <2>6, <2>7
  <1> QED BY <1>3, <1>4 DEF InsertMoved

\* The resolver reads the references that have one declaration.
LEMMA ResolveReadStays ==
    ASSUME GraphInv, mix' = mix, ResolveRead
    PROVE  GraphInv'
  <1> USE DEF GraphInv
  <1>1. op.pc = "resolve" /\ UNCHANGED <<graphTables, pub, learn, learns, halts>>
    BY DEF ResolveRead
  <1>2. IsOp' /\ op'.pc = "bind" /\ op'.kind = op.kind /\ op'.keys = Bindings
    BY DEF ResolveRead, GraphTypes, IsOp
  <1>3. Bindings \subseteq {p \in Rels \X Decls : Target(p[1]) \in Names} BY DEF Bindings
  <1>4. GraphTypes' /\ Rels' = Rels BY <1>1, <1>2, TypesStay DEF GraphTypes
  <1>5. op'.keys \subseteq {p \in Rels' \X Decls : Target(p[1]) \in Names} BY <1>2, <1>3, <1>4
  <1>6. Staged' BY <1>1, <1>2, <1>5 DEF Staged, pub
  <1>7. Unstopped' /\ Uncrossed' => Mirrored' BY <1>1, <1>2, <1>4 DEF Unstopped, Uncrossed, Mirrored, graphTables
  <1>8. Unstopped' => Unpurged' BY <1>1, <1>2 DEF Unstopped, Uncrossed, Unpurged, graphTables, pub
  <1> QED BY <1>4, <1>6, <1>7, <1>8

\* The references become edges, in one transaction.
LEMMA ResolveWriteStays ==
    ASSUME GraphInv, mix' = mix, ResolveWrite
    PROVE  GraphInv'
  <1> USE DEF GraphInv
  <1>1. op.pc = "bind" /\ UNCHANGED <<nodes, live, severed, head, base, learn, learns, halts>>
    BY DEF ResolveWrite
  <1>2. head # 0 /\ op.keys \subseteq {p \in Rels \X Decls : Target(p[1]) \in Names}
    BY <1>1 DEF Staged
  <1>3. edges' \in [Keys -> Nat] BY <1>2, BindTables DEF GraphTypes
  <1>4. /\ Rels' = (Rels \ Olds(op.keys)) \cup Bound(op.keys)
        /\ out' = (out \ Olds(op.keys)) \cup Bound(op.keys)
        /\ inc' = (inc \ Olds(op.keys)) \cup Bound(op.keys)
    BY <1>2, BindTables DEF GraphTypes
  <1>5. op' = IF op.kind = "update" THEN Idle ELSE [Idle EXCEPT !.pc = "baseline"]
    BY DEF ResolveWrite
  <1>6. /\ IsOp' /\ op'.kind = "none"
        /\ op'.pc = IF op.kind = "update" THEN "idle" ELSE "baseline"
    BY <1>5 DEF Idle, IsOp
  <1>7. GraphTypes' BY <1>1, <1>3, <1>6 DEF GraphTypes, TextOf
  <1>8. Staged' BY <1>1, <1>2, <1>6 DEF Staged
  <1>9. Unstopped' /\ Uncrossed' => Mirrored' BY <1>1, <1>4, <1>6 DEF Unstopped, Uncrossed, Mirrored
  <1>10. Unstopped' => Unpurged' BY <1>1, <1>2, <1>6 DEF Unstopped, Uncrossed, Unpurged, GraphTypes
  <1> QED BY <1>7, <1>8, <1>9, <1>10

\* The baseline is recorded when every published declaration is at the head.
LEMMA BaselineStays ==
    ASSUME GraphInv, mix' = mix, SetBaseline
    PROVE  GraphInv'
  <1> USE DEF GraphInv
  <1>1. /\ op.pc = "baseline" /\ base' = head
        /\ UNCHANGED <<graphTables, live, severed, enriched, head, learn, learns, halts>>
    BY DEF SetBaseline
  <1>2. IsOp' /\ op'.pc = "idle" /\ op'.kind = "none" BY AtRest DEF SetBaseline
  <1>3. Rels' = Rels BY <1>1 DEF graphTables, Rels
  <1>4. GraphTypes' BY <1>1, <1>2 DEF GraphTypes, graphTables, TextOf
  <1>5. Staged' BY <1>1, <1>2 DEF Staged
  <1>6. Unstopped' /\ Uncrossed' => Mirrored' BY <1>1, <1>2, <1>3 DEF Unstopped, Uncrossed, Mirrored, graphTables
  <1>7. head # 0 BY <1>1 DEF Staged
  <1>8. op.kind # "update" BY <1>1 DEF Staged
  <1>9. Unstopped' => Unpurged'
    BY <1>1, <1>2, <1>7, <1>8 DEF Unstopped, Uncrossed, Unpurged, graphTables, GraphTypes
  <1> QED BY <1>4, <1>5, <1>6, <1>9

\* The sweep takes nodes older than the baseline: none is published.
LEMMA CollectStaleNodesStays ==
    ASSUME GraphInv, mix' = mix, CollectStaleNodes
    PROVE  GraphInv'
  <1> USE DEF GraphInv
  <1> DEFINE old == {i \in Here : Stale(nodes[i])}
  <1>1. /\ op.pc = "idle" /\ op.kind = "none"
        /\ op' = [Idle EXCEPT !.pc = "gcnodes", !.kind = "gc", !.keys = old]
        /\ UNCHANGED <<graphTables, pub, learn, learns, halts>>
    BY DEF CollectStaleNodes, Idle
  <1>2. \A i \in old : nodes[i] < base BY DEF Stale
  <1>3. old \subseteq Ids BY DEF Here
  <1> HIDE DEF old
  <1>4. IsOp' /\ op'.pc = "gcnodes" /\ op'.kind = "gc" /\ op'.keys = old
    BY <1>1 DEF Idle, IsOp
  <1>5. GraphTypes' /\ Rels' = Rels BY <1>1, <1>4, TypesStay DEF GraphTypes
  <1>6. Staged' BY <1>1, <1>4 DEF Staged
  <1>7. Unstopped' /\ Uncrossed' => Mirrored' BY <1>1, <1>4, <1>5 DEF Unstopped, Uncrossed, Mirrored, graphTables
  <1>8. Unstopped' => Unpurged'
    <2>1. SUFFICES ASSUME Unstopped' PROVE Unpurged' OBVIOUS
    <2>2. Unpurged BY <2>1 DEF Unstopped, Uncrossed
    <2>3. ASSUME NEW d \in Declared(live) PROVE d \notin old
      <3>1. nodes[d] >= base BY <1>1, <2>2 DEF Unpurged
      <3>2. nodes[d] \in Nat /\ base \in Nat BY LiveNodes DEF GraphTypes
      <3> QED BY <1>2, <3>1, <3>2
    <2> QED BY <1>1, <1>4, <2>2, <2>3 DEF Unpurged, graphTables, pub
  <1> QED BY <1>5, <1>6, <1>7, <1>8

\* The sweep goes on with the edges.
LEMMA CollectStaleEdgesStays ==
    ASSUME GraphInv, mix' = mix, CollectStaleEdges
    PROVE  GraphInv'
  <1> USE DEF GraphInv
  <1>1. op.pc = "gcrelate" /\ UNCHANGED <<graphTables, pub, learn, learns, halts>>
    BY DEF CollectStaleEdges
  <1>2. IsOp' /\ op'.pc = "gcedges" /\ op'.kind = op.kind
    BY DEF CollectStaleEdges, GraphTypes, IsOp
  <1>4. GraphTypes' /\ Rels' = Rels BY <1>1, <1>2, TypesStay DEF GraphTypes
  <1>6. Staged' BY <1>1, <1>2 DEF Staged
  <1>7. Unstopped' /\ Uncrossed' => Mirrored' BY <1>1, <1>2, <1>4 DEF Unstopped, Uncrossed, Mirrored, graphTables
  <1>8. Unstopped' => Unpurged' BY <1>1, <1>2 DEF Unstopped, Uncrossed, Unpurged, graphTables, pub
  <1> QED BY <1>4, <1>6, <1>7, <1>8

\* A repair begins with the drain.
LEMMA WipeBeginStays ==
    ASSUME GraphInv, mix' = mix, WipeBegin
    PROVE  GraphInv'
  <1> USE DEF GraphInv
  <1>1. /\ op.pc = "idle" /\ "wipe" \in mix.flows
        /\ UNCHANGED <<graphTables, pub, learn, learns, halts>>
    BY DEF WipeBegin, Idle
  <1>2. IsOp' /\ op'.pc = "wnodes" /\ op'.kind = "wipe"
    BY DEF WipeBegin, Idle, IsOp
  <1>4. GraphTypes' /\ Rels' = Rels BY <1>1, <1>2, TypesStay DEF GraphTypes
  <1>6. Staged' BY <1>1, <1>2 DEF Staged
  <1>7. Unstopped' /\ Uncrossed' => Mirrored' BY <1>1, <1>2, <1>4 DEF Unstopped, Uncrossed, Mirrored, graphTables
  <1>8. Unstopped' => Unpurged' BY <1>1, <1>2 DEF Unstopped, Uncrossed, Unpurged, graphTables, pub
  <1> QED BY <1>4, <1>6, <1>7, <1>8

\* The stage of a drain goes on, or the next one begins.
LEMMA DrainOp ==
    ASSUME IsOp, NEW p, op' = [op EXCEPT !.pc = p] \/ (op' = op /\ op.pc = p)
    PROVE  IsOp' /\ op'.pc = p /\ op'.kind = op.kind
  BY DEF IsOp

\* The drain of NODES: the mirrors still agree.
LEMMA DrainNodesStays ==
    ASSUME GraphInv, mix' = mix, DrainNodes
    PROVE  GraphInv'
  <1> USE DEF GraphInv
  <1>1. op.pc = "wnodes" /\ UNCHANGED <<edges, out, inc, pub, learn, learns, halts>>
    BY DEF DrainNodes
  <1>2. op.kind = "wipe" BY <1>1 DEF Staged
  <1>3. IsOp' /\ op'.pc \in {"wnodes", "wedges"} /\ op'.kind = "wipe"
    BY <1>1, <1>2, DrainOp DEF DrainNodes, GraphTypes
  <1>4. nodes' \in [Ids -> Nat]
    BY DropRows DEF DrainNodes, GraphTypes
  <1>5. Rels' = Rels BY <1>1 DEF Rels
  <1>6. GraphTypes' BY <1>1, <1>3, <1>4 DEF GraphTypes, pub, TextOf
  <1>7. Staged' BY <1>1, <1>2, <1>3 DEF Staged
  <1>8. Unstopped' /\ Uncrossed' => Mirrored' BY <1>1, <1>3, <1>5 DEF Unstopped, Uncrossed, Mirrored
  <1>9. Unstopped' => Unpurged' BY <1>3 DEF Unpurged
  <1> QED BY <1>6, <1>7, <1>8, <1>9

\* The drain of EDGES ends when none is left.
LEMMA DrainEdgesStays ==
    ASSUME GraphInv, mix' = mix, DrainEdges
    PROVE  GraphInv'
  <1> USE DEF GraphInv
  <1>1. op.pc = "wedges" /\ UNCHANGED <<nodes, out, inc, pub, learn, learns, halts>>
    BY DEF DrainEdges
  <1>2. op.kind = "wipe" BY <1>1 DEF Staged
  <1>3. /\ IsOp' /\ op'.kind = "wipe"
        /\ \/ op'.pc = "wedges"
           \/ op'.pc = "wout" /\ Rels = {} /\ edges' = edges
    BY <1>1, <1>2, DrainOp DEF DrainEdges, GraphTypes
  <1>4. edges' \in [Keys -> Nat] BY DEF DrainEdges, GraphTypes
  <1>5. op'.pc = "wout" => Rels' = {} BY <1>3 DEF Rels
  <1>6. GraphTypes' BY <1>1, <1>3, <1>4 DEF GraphTypes, pub, TextOf
  <1>7. Staged' BY <1>1, <1>2, <1>3 DEF Staged
  <1>8. Unstopped' /\ Uncrossed' => Mirrored' BY <1>3, <1>5 DEF Mirrored
  <1>9. Unstopped' => Unpurged' BY <1>3 DEF Unpurged
  <1> QED BY <1>6, <1>7, <1>8, <1>9

\* The drain of ADJ_OUT ends when none is left.
LEMMA DrainOutStays ==
    ASSUME GraphInv, mix' = mix, DrainOut
    PROVE  GraphInv'
  <1> USE DEF GraphInv
  <1>1. op.pc = "wout" /\ UNCHANGED <<nodes, edges, inc, pub, learn, learns, halts>>
    BY DEF DrainOut
  <1>2. op.kind = "wipe" BY <1>1 DEF Staged
  <1>3. /\ IsOp' /\ op'.kind = "wipe"
        /\ op'.pc = "wout" \/ (op'.pc = "win" /\ out' = {})
    BY <1>1, <1>2, DrainOp DEF DrainOut, GraphTypes
  <1>5. Rels' = Rels BY <1>1 DEF Rels
  <1>6. GraphTypes' BY <1>1, <1>3 DEF GraphTypes, pub, TextOf
  <1>7. Staged' BY <1>1, <1>2, <1>3 DEF Staged
  <1>8. Unstopped' /\ Uncrossed' => Mirrored' BY <1>1, <1>3, <1>5 DEF Unstopped, Uncrossed, Mirrored
  <1>9. Unstopped' => Unpurged' BY <1>3 DEF Unpurged
  <1> QED BY <1>6, <1>7, <1>8, <1>9

\* The drain of ADJ_IN ends with all three tables empty.
LEMMA DrainInStays ==
    ASSUME GraphInv, mix' = mix, DrainIn
    PROVE  GraphInv'
  <1> USE DEF GraphInv
  <1>1. op.pc = "win" /\ UNCHANGED <<nodes, edges, out, pub, learn, learns, halts>>
    BY DEF DrainIn
  <1>2. op.kind = "wipe" /\ "wipe" \in mix.flows BY <1>1 DEF Staged
  <1>3. Rels' = Rels BY <1>1 DEF Rels
  <1>4. CASE op' = op
    <2>1. GraphTypes' BY <1>1, <1>4 DEF GraphTypes, IsOp, pub, TextOf
    <2>2. Staged' BY <1>1, <1>2, <1>4 DEF Staged
    <2>3. Unstopped' /\ Uncrossed' => Mirrored' BY <1>1, <1>3, <1>4 DEF Unstopped, Uncrossed, Mirrored
    <2>4. Unstopped' => Unpurged' BY <1>1, <1>2, <1>4 DEF Unpurged
    <2> QED BY <2>1, <2>2, <2>3, <2>4
  <1>5. ASSUME NEW l \in Extractions(Files), inc = {}, inc' = inc,
               op' = [Idle EXCEPT !.pc = "upsert", !.kind = "wipe", !.layout = l]
        PROVE  GraphInv'
    <2>1. IsOp' /\ op'.pc = "upsert" /\ op'.kind = "wipe" /\ op'.layout = l
      BY <1>5 DEF Idle, IsOp
    <2>2. DOMAIN l = Files /\ \A f \in Files : TextOf(f, l[f])
      BY ExtractedTexts DEF GraphTypes
    <2>3. Paths' = Files BY <2>1, <2>2 DEF Paths
    <2>4. \A f \in Paths' : TextOf(f, op'.layout[f]) BY <2>1, <2>2, <2>3
    <2>5. GraphTypes' BY <1>1, <2>1 DEF GraphTypes, pub, TextOf
    <2>6. Staged' BY <1>1, <1>2, <2>1, <2>3, <2>4 DEF Staged, TextOf
    <2>7. Unstopped' /\ Uncrossed' => Mirrored' BY <1>1, <1>3, <1>5, <2>1 DEF Unstopped, Uncrossed, Mirrored
    <2>8. Unstopped' => Unpurged' BY <2>1 DEF Unpurged
    <2> QED BY <2>5, <2>6, <2>7, <2>8
  <1> QED BY <1>4, <1>5 DEF DrainIn

\* A search session reads the generation.
LEMMA LearnReadStays ==
    ASSUME GraphInv, mix' = mix, LearnRead
    PROVE  GraphInv'
  <1> USE DEF GraphInv
  <1>1. /\ learns < mix.learns /\ learn' = head /\ learns' = learns + 1
        /\ UNCHANGED <<graphTables, pub, op, halts>>
    BY DEF LearnRead
  <1>2. GraphTypes' /\ Rels' = Rels BY <1>1, TypesStay DEF GraphTypes, IsOp, pub
  <1>3. mix.learns # 0 BY <1>1 DEF GraphTypes
  <1>4. Paths' = Paths BY <1>1 DEF Paths
  <1>5. Staged' BY <1>1, <1>2, <1>3, <1>4 DEF Staged, pub, TextOf
  <1>6. Unstopped' /\ Uncrossed' => Mirrored' BY <1>1, <1>2 DEF Unstopped, Uncrossed, Mirrored, graphTables
  <1>7. Unstopped' => Unpurged' BY <1>1, <1>4 DEF Unstopped, Uncrossed, Unpurged, graphTables, pub
  <1> QED BY <1>2, <1>5, <1>6, <1>7

\* A search session is written beside any flow but a drain: it touches no
\* declaration and removes no edge.
LEMMA LearnWriteStays ==
    ASSUME GraphInv, mix' = mix, LearnWrite
    PROVE  GraphInv'
  <1> USE DEF GraphInv
  <1>1. /\ learn # 0 /\ learn' = 0 /\ PutEdges(Pairs, learn)
        /\ nodes' = [i \in Ids |-> IF i \in Hits THEN learn ELSE nodes[i]]
        /\ UNCHANGED <<pub, op, learns, halts>>
    BY DEF LearnWrite
  <1>2. nodes' \in [Ids -> Nat] BY <1>1 DEF GraphTypes
  <1>3. edges' \in [Keys -> Nat] /\ Rels' = Rels \cup Pairs /\ out' = out \cup Pairs /\ inc' = inc \cup Pairs
    <2>1. learn \in Nat \ {0} BY <1>1 DEF GraphTypes
    <2> QED BY <1>1, <2>1, PairKeys, PutTables DEF GraphTypes
  <1>4. Paths' = Paths BY <1>1 DEF Paths
  <1>5. GraphTypes' BY <1>1, <1>2, <1>3 DEF GraphTypes, IsOp, pub, TextOf
  <1>6. op.pc = "bind" => op'.keys \subseteq {p \in Rels' \X Decls : Target(p[1]) \in Names}
    BY <1>1, <1>3 DEF Staged
  <1>7. Staged' BY <1>1, <1>4, <1>6 DEF Staged, pub, TextOf
  <1>8. Uncrossed => op.pc \notin {"wnodes", "wedges", "wout", "win"}
    BY <1>1 DEF Uncrossed, Staged
  <1>9. Unstopped' /\ Uncrossed' => Mirrored' BY <1>1, <1>3, <1>8 DEF Unstopped, Uncrossed, Mirrored
  <1>10. \A d \in Decls : nodes'[d] = nodes[d] BY <1>1, GraphAssumption DEF Ids, GraphTypes
  <1>11. \A d \in Declared(live) : nodes'[d] = nodes[d] BY <1>10, LiveNodes
  <1>12. op.pc = "publish" => \A d \in Declared(op.layout) : nodes'[d] = nodes[d]
    BY <1>10 DEF Declared, Staged, Paths, TextOf
  <1>13. Unstopped' => Unpurged'
    BY <1>1, <1>4, <1>11, <1>12 DEF Unstopped, Uncrossed, Unpurged, pub
  <1> QED BY <1>5, <1>7, <1>9, <1>13

\* A stop leaves what was committed.
LEMMA HaltStays ==
    ASSUME GraphInv, mix' = mix, Halt
    PROVE  GraphInv'
  <1> USE DEF GraphInv
  <1>1. /\ halts < mix.halts /\ op' = Idle /\ learn' = 0 /\ halts' = halts + 1
        /\ UNCHANGED <<graphTables, pub, learns>>
    BY DEF Halt
  <1>2. IsOp' /\ op'.pc = "idle" /\ op'.kind = "none" BY <1>1, AtRest
  <1>3. GraphTypes' /\ Rels' = Rels BY <1>1, <1>2, TypesStay DEF GraphTypes
  <1>4. Staged' BY <1>1, <1>2 DEF Staged
  <1>5. Unstopped => op.kind # "wipe" BY <1>1 DEF Unstopped, Uncrossed, Staged, GraphTypes
  <1>6. Unstopped => op.pc \notin {"wnodes", "wedges", "wout", "win"}
    BY <1>5 DEF Staged
  <1>7. Unstopped' /\ Uncrossed' => Mirrored' BY <1>1, <1>2, <1>3, <1>6 DEF Unstopped, Uncrossed, Mirrored, graphTables
  <1>8. Unstopped' => Unpurged' BY <1>1, <1>2, <1>5 DEF Unstopped, Uncrossed, Unpurged, graphTables, pub
  <1> QED BY <1>3, <1>4, <1>7, <1>8

\* The first state: empty tables, nothing published.
LEMMA GraphInitInv == GraphInit => GraphInv
  <1>1. SUFFICES ASSUME GraphInit PROVE GraphInv OBVIOUS
  <1> USE <1>1
  <1>2. op.pc = "idle" /\ op.kind = "none" /\ IsOp BY DEF GraphInit, Idle, IsOp
  <1>3. DOMAIN live = Files /\ \A f \in Files : TextOf(f, live[f])
    BY GraphAssumption DEF GraphInit, TextOf
  <1>4. GraphTypes BY <1>2, <1>3 DEF GraphInit, GraphTypes
  <1>5. Staged BY <1>2 DEF GraphInit, Staged
  <1>6. Mirrored
    <2>1. Rels = {} BY DEF GraphInit, Rels
    <2> QED BY <1>2, <2>1 DEF GraphInit, Mirrored
  <1>7. Declared(live) = {} BY GraphAssumption DEF GraphInit, Declared
  <1>8. Unpurged BY <1>2, <1>7 DEF Unpurged
  <1> QED BY <1>4, <1>5, <1>6, <1>8 DEF GraphInv

\* Every step of the graph keeps the invariant.
LEMMA GraphStepStays == GraphInv /\ [GraphNext /\ UNCHANGED mix]_<<graphVars, mix>> => GraphInv'
  <1>1. SUFFICES ASSUME GraphInv, [GraphNext /\ UNCHANGED mix]_<<graphVars, mix>>
                 PROVE  GraphInv'
    OBVIOUS
  <1>2. CASE UNCHANGED <<graphVars, mix>>
    <2>1. UNCHANGED <<nodes, edges, out, inc, live, severed, enriched, head, base, op, learn,
                      learns, halts, mix>>
      BY <1>2 DEF graphVars, graphTables, pub
    <2>2. Rels' = Rels /\ Paths' = Paths BY <2>1 DEF Rels, Paths
    <2>3. GraphTypes' BY <1>1, <2>1 DEF GraphInv, GraphTypes, IsOp, TextOf
    <2>4. Staged' BY <1>1, <2>1, <2>2 DEF GraphInv, Staged, TextOf
    <2>5. Unstopped' /\ Uncrossed' => Mirrored' BY <1>1, <2>1, <2>2 DEF GraphInv, Mirrored, Unstopped, Uncrossed
    <2>6. Unstopped' => Unpurged' BY <1>1, <2>1, <2>2 DEF GraphInv, Unpurged, Unstopped, Uncrossed
    <2> QED BY <2>3, <2>4, <2>5, <2>6 DEF GraphInv
  <1>3. CASE GraphNext /\ UNCHANGED mix
    <2>1. mix' = mix BY <1>3
    <2> QED BY <1>1, <1>3, <2>1, BeginStays, UpsertStays, PublishStays, CollectStays,
               DeleteNodesStays, CollectEdgesStays, DeleteEdgesStays, InsertMovedStays,
               ResolveReadStays, ResolveWriteStays, BaselineStays, CollectStaleNodesStays,
               CollectStaleEdgesStays, WipeBeginStays, DrainNodesStays, DrainEdgesStays,
               DrainOutStays, DrainInStays, LearnReadStays, LearnWriteStays, HaltStays
            DEF GraphNext
  <1> QED BY <1>1, <1>2, <1>3

\* The adjacency tables mirror the edges after every transaction of every flow,
\* beside search sessions and across stops, and no purge removes a declaration
\* of the published text, for any files, texts, names and number of generations.
THEOREM TablesStay == GraphSpec => []TablesAgree
  <1>1. GraphInv => TablesAgree
    <2>1. SUFFICES ASSUME GraphInv PROVE TablesAgree OBVIOUS
    <2>2. GraphTypes BY <2>1 DEF GraphInv
    <2>3. \A d \in Declared(live) : d \in Ids BY <2>2, LiveNodes
    <2>4. Unstopped /\ Uncrossed /\ op.pc \notin {"wedges", "wout", "win"} => out = Rels /\ inc = Rels
      BY <2>1 DEF GraphInv, Mirrored
    <2>5. Unstopped /\ op.kind # "wipe" => Declared(live) \subseteq Here
      BY <2>1, <2>3 DEF GraphInv, Unpurged, Here
    <2> QED BY <2>4, <2>5 DEF TablesAgree
  <1> QED BY <1>1, GraphInitInv, GraphStepStays, PTL DEF GraphSpec
-----------------------------------------------------------------------------
(* The calls.  Between flows every stored call stands for one of the text,  *)
(* and every call of the text whose target stayed in its file has its edge  *)
(* (Settled).  A purge keeps that because what was upserted is one          *)
(* generation ahead (Upserted), so at the publication the calls of the      *)
(* refreshed files split into new ones at the head and old ones behind it,  *)
(* and an unchanged caller's target is published or has a successor         *)
(* (Purging); what the purge leaves and what it moves are then together     *)
(* what the text calls (Moving).                                            *)

\* The stored calls and declarations, and the call of a text that an edge stands for.
CallRels  == {k \in Rels : k[1] = "calls"}
Standing  == {d \in Decls : nodes[d] # 0}
CallOf(k) == <<Source(k), IF Target(k) \in Decls THEN NameOf[Target(k)] ELSE Target(k)>>
Ref(c)    == <<"calls", c[1], c[2]>>

\* An edge stands for a call of the published text, and a bound one ends in it.
Genuine(k) == CallOf(k) \in Calls(live) /\ (Target(k) \in Decls => Target(k) \in Declared(live))

\* Every call of the text whose target no file gave up has an edge among these.
AllShown(S) == \A c \in Calls(live) \ severed : \E k \in S : k[1] = "calls" /\ CallOf(k) = c

Dated == /\ \A k \in CallRels : base <= edges[k] /\ edges[k] <= head
         /\ \A d \in Standing : nodes[d] <= head

\* Nothing of the graph's calls is under way.
Calm == \/ op.pc \in {"idle", "gcnodes", "gcrelate", "gcedges", "baseline", "resolve", "bind"}
        \/ op.pc = "upsert" /\ op.kind \in {"update", "only"}

Settled ==
    Calm => /\ Standing = Declared(live) /\ Dated
            /\ \A k \in CallRels : Genuine(k)
            /\ AllShown(CallRels)

\* A full index starts from an empty graph.
Emptied ==
    /\ head = 0 => Declared(live) = {} /\ Calls(live) = {}
    /\ op.pc \in {"upsert", "publish"} => op.kind \in {"index", "update", "only", "wipe"}
    /\ op.pc \in {"upsert", "publish"} /\ op.kind = "index" => head = 0
    /\ op.pc \in {"wedges", "wout", "win"} => Standing = {}
    /\ op.pc \in {"wout", "win"} => CallRels = {}
    /\ op.pc = "upsert" /\ op.kind \in {"index", "wipe"} => Standing = {} /\ CallRels = {}

\* What was upserted is dated one generation ahead.
Upserted ==
    op.pc = "publish" =>
        /\ \A k \in CallRels : base <= edges[k] /\ edges[k] <= head + 1
        /\ \A c \in Calls(op.layout) : Ref(c) \in CallRels /\ edges[Ref(c)] = head + 1
        /\ \A k \in CallRels : edges[k] = head + 1 => \E c \in Calls(op.layout) : k = Ref(c)
        /\ \A d \in Standing : nodes[d] <= head \/ (nodes[d] = head + 1 /\ d \in Declared(op.layout))
        /\ op.kind \in {"index", "wipe"} =>
               /\ Standing = Declared(op.layout)
               /\ \A k \in CallRels : edges[k] = head + 1
        /\ op.kind \in {"update", "only"} =>
               /\ Standing = Declared(live) \cup Declared(op.layout)
               /\ \A k \in CallRels : edges[k] # head + 1 => Genuine(k)
               /\ AllShown(CallRels)

\* The declaration that follows a removed one.
Kin(d) == \E e \in Declared(live) : Identity(e) = Identity(d)

\* The declarations that the scoped purge found, and the calls among them.
Known == IF op.pc = "collect" THEN Standing ELSE Declared(live) \cup op.removed

Purging ==
    /\ Dated
    /\ \A k \in CallRels :
           /\ Source(k) \in Known
           /\ edges[k] = head => Genuine(k)
           /\ edges[k] < head => /\ PathOf[Source(k)] \notin Paths => CallOf(k) \in Calls(live)
                                 /\ Target(k) \in Decls => Target(k) \in Known
    /\ \A c \in Calls(live) \ severed :
           \E k \in CallRels : /\ CallOf(k) = c
                               /\ PathOf[c[1]] \in Paths => edges[k] = head
                               /\ Target(k) \in Decls => Kin(Target(k))

Found ==
    /\ op.pc = "collect" =>
           /\ \A d \in Standing : d \in Declared(live) \/ (PathOf[d] \in Paths /\ nodes[d] # head)
           /\ Purging
    /\ op.pc \in {"nodes", "relate"} =>
           /\ \A i \in op.removed : i \in Ids /\ i \notin Declared(live) /\ PathOf[i] \in Paths
           /\ \A p \in op.succ : p[2] \in Declared(live) /\ NameOf[p[1]] = NameOf[p[2]]
           /\ \A i \in op.removed \cap Decls : Kin(i) => \E e \in Declared(live) : <<i, e>> \in op.succ
           /\ Purging
           /\ Standing \subseteq Declared(live) \cup (IF op.pc = "nodes" THEN op.keys ELSE {})
    /\ op.pc \in {"collect", "nodes", "relate", "edges", "insert"} => Declared(live) \subseteq Standing

\* The purge has chosen: what it leaves and what it moves is what is called.
Moving ==
    /\ op.pc \in {"edges", "insert"} => Standing = Declared(live) /\ Dated
    /\ op.pc = "edges" =>
           /\ \A k \in CallRels \ op.keys : Genuine(k)
           /\ \A k \in op.moved : k[1] = "calls" => Genuine(k)
           /\ AllShown((CallRels \ op.keys) \cup op.moved)
    /\ op.pc = "insert" =>
           /\ \A k \in CallRels : Genuine(k)
           /\ \A k \in op.keys : k[1] = "calls" => Genuine(k)
           /\ AllShown(CallRels \cup op.keys)

Unique(n) == \E e \in Named(live, n) : Named(live, n) = {e}

Resolved ==
    /\ op.pc \in {"collect", "nodes", "relate", "edges", "insert", "resolve", "bind"} =>
           enriched = FALSE
    /\ op.pc = "bind" => op.keys = Bindings
    /\ op.pc = "gcedges" => op.keys \cap CallRels = {}
    /\ \/ op.pc \in {"resolve", "bind"} /\ op.kind # "update"
       \/ op.pc = "baseline"
       => \A k \in CallRels : edges[k] = head
    /\ op.pc \in {"idle", "gcnodes", "gcrelate", "gcedges", "baseline"} /\ enriched = TRUE =>
           \A k \in CallRels : Target(k) \in Names => ~Unique(Target(k))

CallsInv == Settled /\ Emptied /\ Upserted /\ Found /\ Moving /\ Resolved

\* A stored call is a triple of a declaration and a declaration or symbol.
LEMMA CallShape ==
    ASSUME NEW k \in CallRels
    PROVE  /\ k \in Rels /\ k \in Keys /\ k[1] = "calls" /\ edges[k] # 0
           /\ k = <<"calls", Source(k), Target(k)>>
           /\ Source(k) \in Decls /\ Target(k) \in Decls \cup Names
  <1>1. k \in Rels /\ k \in Keys /\ k[1] = "calls" /\ edges[k] # 0 BY DEF CallRels, Rels
  <1>2. Source(k) \in Decls /\ Target(k) \in Decls \cup Names BY <1>1, KeyShape
  <1>3. k = <<"calls", Source(k), Target(k)>> BY <1>1 DEF Keys, Source, Target
  <1> QED BY <1>1, <1>2, <1>3

\* Symbols are no declarations.
LEMMA NamesApart == \A n \in Names : n \notin Decls /\ n \notin Hits
  BY GraphAssumption DEF Ids

\* The reference that stands for a call.
LEMMA RefShape ==
    ASSUME NEW c \in Decls \X Names
    PROVE  /\ Ref(c) \in Keys /\ Ref(c)[1] = "calls" /\ c = <<c[1], c[2]>>
           /\ Source(Ref(c)) = c[1] /\ Target(Ref(c)) = c[2] /\ CallOf(Ref(c)) = c
           /\ c[1] \in Decls /\ c[2] \in Names /\ c[2] \notin Decls
  <1>1. c = <<c[1], c[2]>> /\ c[1] \in Decls /\ c[2] \in Names OBVIOUS
  <1>2. c[2] \notin Decls BY <1>1, NamesApart
  <1>3. Source(Ref(c)) = c[1] /\ Target(Ref(c)) = c[2] /\ Ref(c)[1] = "calls"
    BY DEF Source, Target, Ref
  <1>4. CallOf(Ref(c)) = c BY <1>1, <1>2, <1>3 DEF CallOf
  <1>5. Ref(c) \in Keys BY <1>1 DEF Ref, Keys
  <1> QED BY <1>1, <1>2, <1>3, <1>4, <1>5

\* The calls of a layout, each in the text of its caller's file.
LEMMA TextCalls ==
    ASSUME NEW l, \A f \in DOMAIN l : TextOf(f, l[f])
    PROVE  \A c \in Calls(l) : /\ c \in Decls \X Names
                               /\ c[1] \in Declared(l)
                               /\ PathOf[c[1]] \in DOMAIN l
                               /\ c \in l[PathOf[c[1]]].calls
  <1>1. SUFFICES ASSUME NEW c \in Calls(l)
                 PROVE  /\ c \in Decls \X Names
                        /\ c[1] \in Declared(l)
                        /\ PathOf[c[1]] \in DOMAIN l
                        /\ c \in l[PathOf[c[1]]].calls
    OBVIOUS
  <1>2. PICK f \in DOMAIN l : c \in l[f].calls BY DEF Calls
  <1>3. TextOf(f, l[f]) OBVIOUS
  <1>4. c \in l[f].decls \X Names /\ l[f].decls \subseteq Decls BY <1>2, <1>3 DEF TextOf
  <1>5. c[1] \in l[f].decls /\ c[2] \in Names /\ c \in Decls \X Names BY <1>4
  <1>6. PathOf[c[1]] = f BY <1>3, <1>5 DEF TextOf
  <1>7. c[1] \in Declared(l) BY <1>5, DeclaredIn
  <1> QED BY <1>2, <1>5, <1>6, <1>7

\* The published calls.
LEMMA LiveCalls ==
    ASSUME GraphTypes
    PROVE  \A c \in Calls(live) : /\ c \in Decls \X Names /\ c[1] \in Declared(live)
                                  /\ PathOf[c[1]] \in Files /\ c \in live[PathOf[c[1]]].calls
  <1>1. DOMAIN live = Files /\ \A f \in DOMAIN live : TextOf(f, live[f]) BY DEF GraphTypes
  <1> QED BY <1>1, TextCalls

\* The members of a union of calls.
LEMMA CallsIn ==
    ASSUME NEW l, NEW c
    PROVE  c \in Calls(l) <=> \E f \in DOMAIN l : c \in l[f].calls
  BY DEF Calls

\* A step that changes neither declarations nor calls nor the publication.
LEMMA CallsFrame ==
    ASSUME GraphTypes, GraphTypes', UNCHANGED <<live, severed, head, base>>,
           \A d \in Decls : nodes'[d] = nodes[d],
           \A k \in Keys : k[1] = "calls" => edges'[k] = edges[k]
    PROVE  /\ CallRels' = CallRels /\ Standing' = Standing
           /\ \A k : Genuine(k)' <=> Genuine(k)
           /\ \A k \in CallRels : edges'[k] = edges[k]
           /\ Dated' <=> Dated
           /\ \A d \in Decls : nodes'[d] = nodes[d]
  <1>1. CallRels' = CallRels BY DEF CallRels, Rels
  <1>2. Standing' = Standing BY DEF Standing
  <1>3. \A k : Genuine(k)' <=> Genuine(k) BY DEF Genuine, CallOf
  <1>4. \A k \in CallRels : edges'[k] = edges[k] BY CallShape
  <1>5. Dated' <=> Dated BY <1>1, <1>2, <1>4 DEF Dated, Standing
  <1> QED BY <1>1, <1>2, <1>3, <1>4, <1>5

\* The same for a step that leaves the tables and the publication alone.
LEMMA QuietCalls ==
    ASSUME GraphTypes, GraphTypes', UNCHANGED <<graphTables, pub>>
    PROVE  /\ CallRels' = CallRels /\ Standing' = Standing
           /\ \A k : Genuine(k)' <=> Genuine(k)
           /\ Dated' <=> Dated
           /\ edges' = edges /\ nodes' = nodes /\ live' = live /\ severed' = severed
           /\ head' = head /\ base' = base /\ enriched' = enriched
  <1>1. /\ edges' = edges /\ nodes' = nodes /\ live' = live /\ severed' = severed
        /\ head' = head /\ base' = base /\ enriched' = enriched
    BY DEF graphTables, pub
  <1> QED BY <1>1, CallsFrame

\* Undisturbed flows are unstopped: what the graph invariant says of purges holds.
LEMMA Undisturbance ==
    ASSUME GraphInv, Undisturbed
    PROVE  GraphTypes /\ Staged /\ Unpurged
  BY DEF GraphInv, Undisturbed, Unstopped

\* A flow begins.
LEMMA BeginCalls ==
    ASSUME GraphInv, GraphInv', CallsInv, Undisturbed, mix' = mix,
           NEW kind \in {"index", "update", "only", "repair"},
           NEW paths \in SUBSET Files \ {{}}, NEW l \in Extractions(paths),
           BeginFlow(kind, paths, l)
    PROVE  CallsInv'
  <1>1. /\ op'.pc = "upsert" /\ op'.kind = kind /\ op'.layout = l
        /\ UNCHANGED <<graphTables, pub>>
        /\ op.pc = "idle" /\ op.kind = "none" /\ kind \in mix.flows
        /\ kind = "index" <=> head = 0
    BY DEF BeginFlow, Idle
  <1>2. kind \in {"index", "update", "only"} BY <1>1 DEF Undisturbed
  <1>3. GraphTypes /\ GraphTypes' BY DEF GraphInv
  <1>4. /\ CallRels' = CallRels /\ Standing' = Standing /\ live' = live /\ severed' = severed
        /\ head' = head /\ (Dated' <=> Dated) /\ \A k : Genuine(k)' <=> Genuine(k)
    BY <1>1, <1>3, QuietCalls
  <1>5. Settled' BY <1>1, <1>4 DEF CallsInv, Settled, Calm, AllShown, CallOf
  <1>6. head = 0 => Standing = {} /\ CallRels = {}
    BY <1>1 DEF CallsInv, Settled, Emptied, Calm, Genuine
  <1>7. Emptied' BY <1>1, <1>2, <1>4, <1>6 DEF CallsInv, Emptied
  <1>8. Upserted' /\ Found' /\ Moving' /\ Resolved'
    BY <1>1 DEF Upserted, Found, Moving, Resolved
  <1> QED BY <1>5, <1>7, <1>8 DEF CallsInv

\* The extraction is upserted, dated one generation ahead.
LEMMA UpsertCalls ==
    ASSUME GraphInv, GraphInv', CallsInv, Undisturbed, mix' = mix, UpsertGraph
    PROVE  CallsInv'
  <1>1. /\ op.pc = "upsert" /\ op'.pc = "publish" /\ op'.kind = op.kind /\ op'.layout = op.layout
        /\ UNCHANGED pub
        /\ nodes' = [i \in Ids |-> IF i \in Declared(op.layout) THEN head + 1 ELSE nodes[i]]
        /\ PutEdges({<<"calls", c[1], c[2]>> : c \in Calls(op.layout)}, head + 1)
    BY DEF UpsertGraph, GraphInv, GraphTypes, IsOp
  <1>2. /\ head' = head /\ base' = base /\ live' = live /\ severed' = severed
    BY <1>1 DEF pub
  <1>3. GraphTypes /\ Staged BY DEF GraphInv
  <1>4. \A f \in DOMAIN op.layout : TextOf(f, op.layout[f]) BY <1>1, <1>3 DEF Staged, Paths
  <1>5. \A c \in Calls(op.layout) : c \in Decls \X Names BY <1>4, TextCalls
  <1>6. \A c \in Calls(op.layout) :
            Ref(c) \in Keys /\ Ref(c)[1] = "calls" /\ edges'[Ref(c)] = head + 1
    BY <1>1, <1>5, RefShape DEF PutEdges, Ref
  <1>7. \A k \in Keys : \/ edges'[k] = edges[k]
                        \/ edges'[k] = head + 1 /\ \E c \in Calls(op.layout) : k = Ref(c)
    BY <1>1 DEF PutEdges, Ref
  <1>8. head \in Nat /\ base \in Nat /\ base <= head BY <1>3 DEF GraphTypes
  <1>9. \A c \in Calls(op.layout) : Ref(c) \in CallRels'
    BY <1>6, <1>8 DEF CallRels, Rels
  <1>10. CallRels \subseteq CallRels'
    BY <1>7, <1>8 DEF CallRels, Rels
  <1>11. \A k \in CallRels' : \/ k \in CallRels /\ edges'[k] = edges[k]
                              \/ edges'[k] = head + 1 /\ \E c \in Calls(op.layout) : k = Ref(c)
    BY <1>7 DEF CallRels, Rels
  <1>12. \A d \in Declared(op.layout) : d \in Decls /\ d \in Ids
    BY <1>4 DEF Declared, TextOf, Ids
  <1>13. Standing' = Standing \cup Declared(op.layout)
    BY <1>1, <1>8, <1>12 DEF Standing, Ids
  <1>14. \A k : Genuine(k)' <=> Genuine(k) BY <1>2 DEF Genuine, CallOf
  <1>18. ASSUME Standing = {} \/ Dated
         PROVE  \A d \in Standing' : \/ nodes'[d] <= head'
                                     \/ nodes'[d] = head' + 1 /\ d \in Declared(op'.layout)
    <2>1. SUFFICES ASSUME NEW d \in Standing', d \notin Declared(op.layout)
                   PROVE  nodes'[d] <= head
      BY <1>1, <1>2, <1>12
    <2>2. d \in Standing /\ d \in Ids BY <1>13, <2>1 DEF Standing, Ids
    <2> QED BY <1>1, <1>18, <2>1, <2>2 DEF Dated
  <1>15. op.kind \in {"index", "update", "only", "wipe"} BY <1>1 DEF CallsInv, Emptied
  <1>16. CASE op.kind \in {"index", "wipe"}
    <2>1. Standing = {} /\ CallRels = {} BY <1>1, <1>16 DEF CallsInv, Emptied
    <2>2. \A k \in CallRels' : edges'[k] = head + 1 /\ \E c \in Calls(op.layout) : k = Ref(c)
      BY <1>11, <2>1
    <2>3. \A k \in CallRels' : base' <= edges'[k] /\ edges'[k] <= head' + 1
      BY <1>2, <1>8, <2>2
    <2> QED
      <3>1. Upserted' BY <1>1, <1>2, <1>6, <1>9, <1>13, <1>16, <1>18, <2>1, <2>2, <2>3 DEF Upserted, Ref
      <3> QED BY <1>1, <1>2, <1>16, <3>1 DEF CallsInv, Settled, Calm, Emptied, Found, Moving, Resolved
  <1>17. CASE op.kind \in {"update", "only"}
    <2>1. /\ Standing = Declared(live) /\ Dated
          /\ \A k \in CallRels : Genuine(k)
          /\ AllShown(CallRels)
      BY <1>1, <1>17 DEF CallsInv, Settled, Calm
    <2>2. \A k \in CallRels : edges[k] \in Nat /\ base <= edges[k] /\ edges[k] <= head
      BY <1>3, <2>1, CallShape DEF Dated, GraphTypes
    <2>3. \A k \in CallRels' : base' <= edges'[k] /\ edges'[k] <= head' + 1
      BY <1>2, <1>8, <1>11, <2>2
    <2>4. \A k \in CallRels' : edges'[k] = head' + 1 => \E c \in Calls(op.layout) : k = Ref(c)
      BY <1>2, <1>8, <1>11, <2>2
    <2>5. \A k \in CallRels' : edges'[k] # head' + 1 => Genuine(k)'
      BY <1>2, <1>11, <1>14, <2>1
    <2>6. AllShown(CallRels)' BY <1>2, <1>10, <2>1 DEF AllShown, CallOf
    <2>7. Upserted'
      BY <1>1, <1>2, <1>6, <1>9, <1>13, <1>17, <1>18, <2>1, <2>3, <2>4, <2>5, <2>6 DEF Upserted, Ref
    <2> QED BY <1>1, <1>2, <1>17, <2>7 DEF CallsInv, Settled, Calm, Emptied, Found, Moving, Resolved
  <1> QED BY <1>15, <1>16, <1>17

\* The head moves: what was upserted is at it, what the refreshed files called
\* before is behind it.
LEMMA PublishCalls ==
    ASSUME GraphInv, GraphInv', CallsInv, Undisturbed, mix' = mix, Publish
    PROVE  CallsInv'
  <1> DEFINE new  == [f \in Files |-> IF f \in Paths THEN op.layout[f] ELSE live[f]]
             lost == {c \in Calls(new) : ~(Homes(live, c[2]) \subseteq Homes(new, c[2]))}
  <1>1. /\ op.pc = "publish" /\ op'.kind = op.kind /\ op'.layout = op.layout
        /\ op'.pc = IF op.kind \in {"update", "only"} THEN "collect" ELSE "resolve"
        /\ UNCHANGED graphTables /\ base' = base
        /\ head' = head + 1 /\ enriched' = FALSE /\ live' = new
        /\ severed' = {c \in severed \union lost : PathOf[c[1]] \notin Paths}
    BY DEF Publish, GraphInv, GraphTypes, IsOp
  <1>2. GraphTypes /\ Staged /\ GraphTypes' BY DEF GraphInv
  <1>3. Paths' = Paths BY <1>1 DEF Paths
  <1>4. /\ Paths \subseteq Files /\ Paths = DOMAIN op.layout
        /\ \A f \in DOMAIN op.layout : TextOf(f, op.layout[f])
        /\ op.kind \notin {"update", "only"} => Paths = Files
    BY <1>1, <1>2 DEF Staged, Paths
  <1>5. DOMAIN new = Files /\ DOMAIN live = Files BY <1>2 DEF GraphTypes
  <1>23. \A f \in DOMAIN new : TextOf(f, new[f]) BY <1>1, <1>2, <1>5 DEF GraphTypes, TextOf
  <1>6. \A c \in Calls(op.layout) : c \in Decls \X Names /\ c \in Calls(new) /\ PathOf[c[1]] \in Paths
    <2>1. SUFFICES ASSUME NEW c \in Calls(op.layout)
                   PROVE  c \in Decls \X Names /\ c \in Calls(new) /\ PathOf[c[1]] \in Paths
      OBVIOUS
    <2>2. c \in Decls \X Names /\ PathOf[c[1]] \in Paths /\ c \in op.layout[PathOf[c[1]]].calls
      BY <1>4, TextCalls
    <2>3. new[PathOf[c[1]]] = op.layout[PathOf[c[1]]] BY <1>4, <2>2
    <2> QED BY <1>4, <1>5, <2>2, <2>3, CallsIn
  <1>7. \A c \in Calls(live) : PathOf[c[1]] \notin Paths => c \in Calls(new)
    <2>1. SUFFICES ASSUME NEW c \in Calls(live), PathOf[c[1]] \notin Paths
                   PROVE  c \in Calls(new)
      OBVIOUS
    <2>2. PathOf[c[1]] \in Files /\ c \in live[PathOf[c[1]]].calls BY <1>2, LiveCalls
    <2>3. new[PathOf[c[1]]] = live[PathOf[c[1]]] BY <2>1, <2>2
    <2> QED BY <1>5, <2>2, <2>3, CallsIn
  <1>8. \A c \in Calls(new) : /\ c \in Decls \X Names
                              /\ PathOf[c[1]] \in Paths => c \in Calls(op.layout)
                              /\ PathOf[c[1]] \notin Paths => c \in Calls(live)
    <2>1. SUFFICES ASSUME NEW c \in Calls(new)
                   PROVE  /\ c \in Decls \X Names
                          /\ PathOf[c[1]] \in Paths => c \in Calls(op.layout)
                          /\ PathOf[c[1]] \notin Paths => c \in Calls(live)
      OBVIOUS
    <2>2. c \in Decls \X Names /\ PathOf[c[1]] \in Files /\ c \in new[PathOf[c[1]]].calls
      BY <1>5, <1>23, TextCalls
    <2>3. CASE PathOf[c[1]] \in Paths
      <3>1. new[PathOf[c[1]]] = op.layout[PathOf[c[1]]] BY <2>2, <2>3
      <3> QED BY <1>4, <2>2, <2>3, <3>1, CallsIn
    <2>4. CASE PathOf[c[1]] \notin Paths
      <3>1. new[PathOf[c[1]]] = live[PathOf[c[1]]] BY <2>2, <2>4
      <3> QED BY <1>5, <2>2, <2>4, <3>1, CallsIn
    <2> QED BY <2>3, <2>4
  <1>9. \A d \in Declared(new) : d \in Declared(op.layout) \/ (d \in Declared(live) /\ PathOf[d] \notin Paths)
    <2>1. SUFFICES ASSUME NEW d \in Declared(new)
                   PROVE  d \in Declared(op.layout) \/ (d \in Declared(live) /\ PathOf[d] \notin Paths)
      OBVIOUS
    <2>2. PICK f \in Files : d \in new[f].decls BY DeclaredIn
    <2>3. CASE f \in Paths
      <3>1. new[f] = op.layout[f] BY <2>3
      <3> QED BY <1>4, <2>2, <2>3, <3>1, DeclaredIn
    <2>4. CASE f \notin Paths
      <3>1. new[f] = live[f] BY <2>4
      <3>2. PathOf[d] = f BY <1>2, <2>2, <3>1 DEF GraphTypes, TextOf
      <3> QED BY <1>5, <2>2, <2>4, <3>1, <3>2, DeclaredIn
    <2> QED BY <2>3, <2>4
  <1>10. \A d \in Declared(op.layout) : d \in Declared(new)
    <2>1. SUFFICES ASSUME NEW d \in Declared(op.layout) PROVE d \in Declared(new) OBVIOUS
    <2>2. PICK f \in Paths : d \in op.layout[f].decls BY <1>4, DeclaredIn
    <2>3. new[f] = op.layout[f] /\ f \in Files BY <1>4, <2>2
    <2> QED BY <1>5, <2>2, <2>3, DeclaredIn
  <1>11. \A d \in Declared(live) : d \in Declared(new) \/ PathOf[d] \in Paths
    <2>1. SUFFICES ASSUME NEW d \in Declared(live) PROVE d \in Declared(new) \/ PathOf[d] \in Paths
      OBVIOUS
    <2>2. PICK f \in Files : d \in live[f].decls BY <1>5, DeclaredIn
    <2>3. PathOf[d] = f BY <1>2, <2>2 DEF GraphTypes, TextOf
    <2>4. CASE f \notin Paths
      <3>1. new[f] = live[f] BY <2>4
      <3> QED BY <1>5, <2>2, <3>1, DeclaredIn
    <2> QED BY <2>3, <2>4
  <1>12. edges' = edges /\ nodes' = nodes BY <1>1 DEF graphTables
  <1>13. CallRels' = CallRels /\ Standing' = Standing BY <1>12 DEF CallRels, Rels, Standing
  <1>14. head \in Nat /\ base \in Nat /\ base <= head BY <1>2 DEF GraphTypes
  <1>15. \A k \in CallRels : /\ edges[k] \in Nat /\ base <= edges[k] /\ edges[k] <= head + 1
                             /\ edges[k] = head + 1 => \E c \in Calls(op.layout) : k = Ref(c)
    BY <1>1, <1>2, CallShape DEF CallsInv, Upserted, GraphTypes
  <1>16. \A c \in Calls(op.layout) : Ref(c) \in CallRels /\ edges[Ref(c)] = head + 1
    BY <1>1 DEF CallsInv, Upserted
  <1>24. \A d \in Standing : nodes[d] \in Nat /\ nodes[d] <= head + 1
    BY <1>1, <1>2, <1>14 DEF CallsInv, Upserted, GraphTypes, Standing, Ids
  <1>17. Dated' BY <1>1, <1>12, <1>13, <1>14, <1>15, <1>24 DEF Dated
  <1>18. \A c \in Calls(op.layout) : Genuine(Ref(c))'
    BY <1>1, <1>6, RefShape DEF Genuine, CallOf
  <1>19. Emptied'
    <2>1. head' # 0 BY <1>1, <1>14
    <2> QED BY <1>1, <2>1 DEF Emptied
  <1>20. op.kind \in {"index", "update", "only", "wipe"} BY <1>1 DEF CallsInv, Emptied
  <1> HIDE DEF new, lost
  <1>21. CASE op.kind \in {"index", "wipe"}
    <2>1. op'.pc = "resolve" BY <1>1, <1>21
    <2>2. Paths = Files BY <1>4, <1>21
    <2>3. /\ Standing = Declared(op.layout) /\ \A k \in CallRels : edges[k] = head + 1
      BY <1>1, <1>21 DEF CallsInv, Upserted
    <2>4. Standing' = Declared(live')
      <3>1. \A d \in Declared(new) : PathOf[d] \in Files
        BY <1>1, <1>2, DeclaredIn DEF GraphTypes, TextOf
      <3> QED BY <1>1, <1>9, <1>10, <1>13, <2>2, <2>3, <3>1
    <2>5. \A k \in CallRels' : Genuine(k)' BY <1>13, <1>15, <1>18, <2>3
    <2>6. AllShown(CallRels)'
      <3>1. SUFFICES ASSUME NEW c \in Calls(live')
                     PROVE  \E k \in CallRels' : k[1] = "calls" /\ CallOf(k) = c
        BY DEF AllShown, CallOf
      <3>2. c \in Calls(op.layout)
        <4>2. c \in Calls(new) BY <1>1
        <4>3. PathOf[c[1]] \in Paths BY <1>5, <1>23, <2>2, <4>2, TextCalls
        <4> QED BY <1>8, <4>2, <4>3
      <3>3. Ref(c) \in CallRels' /\ Ref(c)[1] = "calls" /\ CallOf(Ref(c)) = c
        BY <1>6, <1>13, <1>16, <3>2, RefShape
      <3> QED BY <3>3
    <2>7. Settled' BY <1>17, <2>4, <2>5, <2>6 DEF Settled
    <2>8. Resolved' BY <1>1, <1>12, <1>13, <2>1, <2>3 DEF Resolved
    <2>9. Upserted' /\ Found' /\ Moving' BY <2>1 DEF Upserted, Found, Moving
    <2> QED BY <1>19, <2>7, <2>8, <2>9 DEF CallsInv
  <1>22. CASE op.kind \in {"update", "only"}
    <2>1. op'.pc = "collect" BY <1>1, <1>22
    <2>2. /\ Standing = Declared(live) \cup Declared(op.layout)
          /\ \A k \in CallRels : edges[k] # head + 1 => Genuine(k)
          /\ AllShown(CallRels)
      BY <1>1, <1>22 DEF CallsInv, Upserted
    <2>3. \A d \in Standing' : d \in Declared(live') \/ (PathOf[d] \in Paths' /\ nodes'[d] # head')
      <3>1. SUFFICES ASSUME NEW d \in Standing, d \notin Declared(new)
                     PROVE  PathOf[d] \in Paths /\ nodes[d] # head + 1
        BY <1>1, <1>3, <1>12, <1>13
      <3>2. d \in Declared(live) /\ PathOf[d] \in Paths BY <1>10, <1>11, <2>2, <3>1
      <3>3. d \notin Declared(op.layout) BY <1>10, <3>1
      <3>4. nodes[d] <= head BY <1>1, <3>1, <3>3 DEF CallsInv, Upserted
      <3>5. nodes[d] \in Nat BY <1>2, <3>1 DEF Standing, GraphTypes, Ids
      <3> QED BY <1>14, <3>2, <3>4, <3>5
    <2>4. Declared(live') \subseteq Standing' BY <1>1, <1>9, <1>13, <2>2
    <2>5. ASSUME NEW k \in CallRels
          PROVE  /\ Source(k) \in Standing
                 /\ edges[k] = head + 1 => Genuine(k)'
                 /\ edges[k] < head + 1 =>
                        /\ PathOf[Source(k)] \notin Paths => CallOf(k) \in Calls(new)
                        /\ Target(k) \in Decls => Target(k) \in Standing
      <3>1. CASE edges[k] = head + 1
        <4>1. PICK c \in Calls(op.layout) : k = Ref(c) BY <1>15, <3>1
        <4>2. Source(k) = c[1] /\ Genuine(k)' BY <1>6, <1>18, <4>1, RefShape
        <4>3. c[1] \in Declared(op.layout) BY <1>4, TextCalls
        <4> QED BY <1>14, <2>2, <3>1, <4>2, <4>3
      <3>2. CASE edges[k] # head + 1
        <4>1. CallOf(k) \in Calls(live) /\ (Target(k) \in Decls => Target(k) \in Declared(live))
          BY <2>2, <3>2 DEF Genuine
        <4>2. CallOf(k)[1] = Source(k) BY DEF CallOf
        <4>3. Source(k) \in Declared(live) BY <1>2, <4>1, <4>2, LiveCalls
        <4> QED BY <1>7, <2>2, <3>2, <4>1, <4>2, <4>3
      <3> QED BY <3>1, <3>2
    <2>6. ASSUME NEW c \in Calls(new), c \notin severed'
          PROVE  \E k \in CallRels : /\ CallOf(k) = c
                                     /\ PathOf[c[1]] \in Paths => edges[k] = head + 1
                                     /\ Target(k) \in Decls => Kin(Target(k))'
      <3>1. CASE PathOf[c[1]] \in Paths
        <4>1. c \in Calls(op.layout) BY <1>8, <3>1
        <4>2. Ref(c) \in CallRels /\ edges[Ref(c)] = head + 1 BY <1>16, <4>1
        <4>3. CallOf(Ref(c)) = c /\ Target(Ref(c)) \notin Decls BY <1>6, <4>1, RefShape
        <4> QED BY <4>2, <4>3
      <3>2. CASE PathOf[c[1]] \notin Paths
        <4>1. c \in Calls(live) /\ c \notin severed /\ c \notin lost BY <1>1, <1>8, <2>6, <3>2
        <4>2. PICK k \in CallRels : CallOf(k) = c BY <2>2, <4>1 DEF AllShown
        <4>3. ASSUME Target(k) \in Decls PROVE Kin(Target(k))'
          <5>1. edges[k] # head + 1
            <6>1. SUFFICES ASSUME edges[k] = head + 1 PROVE FALSE OBVIOUS
            <6>2. PICK e \in Calls(op.layout) : k = Ref(e) BY <1>15, <6>1
            <6> QED BY <1>6, <4>3, <6>2, RefShape
          <5>2. Target(k) \in Declared(live) BY <2>2, <4>3, <5>1 DEF Genuine
          <5>3. c[2] = NameOf[Target(k)] BY <4>2, <4>3 DEF CallOf
          <5>4. PathOf[Target(k)] \in Homes(live, c[2]) BY <5>2, <5>3 DEF Homes, Named
          <5>5. Homes(live, c[2]) \subseteq Homes(new, c[2]) BY <2>6, <4>1 DEF lost
          <5>6. PICK e \in Declared(new) : NameOf[e] = c[2] /\ PathOf[e] = PathOf[Target(k)]
            BY <5>4, <5>5 DEF Homes, Named
          <5>7. e \in Decls BY <1>1, <1>2, <5>6, DeclaredIn DEF GraphTypes, TextOf
          <5>8. Identity(e) = Identity(Target(k)) BY <4>3, <5>3, <5>6, <5>7 DEF Identity
          <5> QED BY <1>1, <5>6, <5>8 DEF Kin, Identity
        <4> QED BY <3>2, <4>2, <4>3
      <3> QED BY <3>1, <3>2
    <2>12. Known' = Standing' BY <2>1 DEF Known
    <2>7. Purging'
      BY <1>1, <1>3, <2>12, <1>12, <1>13, <1>17, <2>5, <2>6 DEF Purging, CallOf, Kin, Genuine
    <2>8. Found' BY <2>1, <2>3, <2>4, <2>7 DEF Found
    <2>9. Settled' BY <2>1 DEF Settled, Calm
    <2>10. Upserted' /\ Moving' BY <2>1 DEF Upserted, Moving
    <2>11. Resolved' BY <1>1, <2>1 DEF Resolved
    <2> QED BY <1>19, <2>8, <2>9, <2>10, <2>11 DEF CallsInv
  <1> QED BY <1>20, <1>21, <1>22

\* What the scoped purge relies on, over more declarations and fewer nodes.
LEMMA PurgingStays ==
    ASSUME Purging, Known \subseteq Known', Dated',
           UNCHANGED <<edges, live, severed, head>>, Paths' = Paths
    PROVE  Purging'
  <1>1. CallRels' = CallRels BY DEF CallRels, Rels
  <1> QED BY <1>1 DEF Purging, Genuine, CallOf, Kin, Identity

\* The scoped purge looks for what was not renewed.
LEMMA CollectCalls ==
    ASSUME GraphInv, GraphInv', CallsInv, Undisturbed, mix' = mix, CollectNodes
    PROVE  CallsInv'
  <1> DEFINE mine  == {i \in Here : PathOf[i] \in Paths}
             stale == {i \in mine : nodes[i] # head}
  <1>19. PICK last \in SUBSET (mine \ stale) :
             /\ \A j \in mine \ stale : \E e \in last : Identity(e) = Identity(j)
             /\ op' = [op EXCEPT !.pc = "nodes", !.keys = stale, !.removed = stale,
                                 !.succ = {p \in stale \X last : Identity(p[1]) = Identity(p[2])}]
    BY DEF CollectNodes
  <1> DEFINE succ == {p \in stale \X last : Identity(p[1]) = Identity(p[2])}
  <1>1. /\ op.pc = "collect"
        /\ op' = [op EXCEPT !.pc = "nodes", !.keys = stale, !.removed = stale, !.succ = succ]
        /\ UNCHANGED <<graphTables, pub>>
    BY <1>19 DEF CollectNodes
  <1>2. GraphTypes /\ Staged /\ Unpurged BY Undisturbance
  <1>3. head # 0 BY <1>1, <1>2 DEF Staged
  <1>4. \A d \in Declared(live) : /\ d \in Decls /\ d \in Ids
                                  /\ PathOf[d] \in Paths => nodes[d] = head
    BY <1>1, <1>2, LiveNodes DEF Unpurged
  <1>5. /\ \A d \in Standing : d \in Declared(live) \/ (PathOf[d] \in Paths /\ nodes[d] # head)
        /\ Purging /\ Declared(live) \subseteq Standing
    BY <1>1 DEF CallsInv, Found
  <1>6. \A i \in stale : i \in Ids /\ i \notin Declared(live) /\ PathOf[i] \in Paths
    BY <1>4 DEF Here
  <1>7. \A p \in succ : p[2] \in Declared(live) /\ NameOf[p[1]] = NameOf[p[2]]
    <2>1. SUFFICES ASSUME NEW p \in succ
                   PROVE  p[2] \in Declared(live) /\ NameOf[p[1]] = NameOf[p[2]]
      OBVIOUS
    <2>2. /\ p[1] \in stale /\ p[2] \in mine /\ p[2] \notin stale
          /\ Identity(p[1]) = Identity(p[2])
      OBVIOUS
    <2>3. p[1] \in Ids /\ p[2] \in Ids /\ p[1] # p[2] /\ nodes[p[2]] = head BY <2>2 DEF Here
    <2>4. p[1] \in Decls /\ p[2] \in Decls BY <2>2, <2>3, Successors
    <2>5. NameOf[p[1]] = NameOf[p[2]] BY <2>2, <2>4 DEF Identity
    <2>6. p[2] \in Standing BY <1>3, <2>3, <2>4 DEF Standing
    <2> QED BY <1>5, <2>3, <2>5, <2>6
  <1>8. \A i \in stale \cap Decls : Kin(i) => \E e \in Declared(live) : <<i, e>> \in succ
    <2>1. SUFFICES ASSUME NEW i \in stale \cap Decls, Kin(i)
                   PROVE  \E e \in Declared(live) : <<i, e>> \in succ
      OBVIOUS
    <2>2. PICK j \in Declared(live) : Identity(j) = Identity(i) BY <2>1 DEF Kin
    <2>3. PathOf[j] = PathOf[i] BY <1>4, <2>2 DEF Identity
    <2>4. nodes[j] = head BY <1>4, <1>6, <2>3
    <2>5. j \in mine /\ j \notin stale BY <1>3, <1>4, <1>6, <2>3, <2>4 DEF Here
    <2>6. PICK e \in last : Identity(e) = Identity(j) BY <1>19, <2>5
    <2>7. <<i, e>> \in succ BY <2>2, <2>6
    <2>8. e \in Declared(live) BY <1>7, <2>7
    <2> QED BY <2>7, <2>8
  <1>9. Standing \subseteq Declared(live) \cup stale BY <1>5 DEF Standing, Here, Ids
  <1> HIDE DEF mine, stale, succ
  <1>10. /\ op'.pc = "nodes" /\ op'.kind = op.kind /\ op'.keys = stale /\ op'.removed = stale
         /\ op'.succ = succ /\ op'.layout = op.layout
    BY <1>1, <1>2 DEF GraphTypes, IsOp
  <1>11. GraphTypes' BY DEF GraphInv
  <1>12. /\ Standing' = Standing /\ live' = live /\ head' = head /\ edges' = edges /\ enriched' = enriched
         /\ severed' = severed /\ (Dated' <=> Dated)
    BY <1>1, <1>2, <1>11, QuietCalls
  <1>13. Paths' = Paths BY <1>10 DEF Paths
  <1>14. Purging'
    <2>1. Dated' BY <1>5, <1>12 DEF Purging
    <2>2. Known = Standing /\ Known' = Declared(live') \cup stale BY <1>1, <1>10 DEF Known
    <2> QED BY <2>1, <2>2, <1>5, <1>9, <1>12, <1>13, PurgingStays
  <1>15. Found'
    BY <1>5, <1>6, <1>7, <1>8, <1>9, <1>10, <1>12, <1>13, <1>14 DEF Found, Kin, Identity
  <1>16. Emptied' BY <1>10, <1>12 DEF CallsInv, Emptied
  <1>17. Settled' /\ Upserted' /\ Moving' BY <1>10 DEF Settled, Calm, Upserted, Moving
  <1>18. Resolved' BY <1>1, <1>10, <1>12 DEF CallsInv, Resolved
  <1> QED BY <1>15, <1>16, <1>17, <1>18 DEF CallsInv

\* A batch of nodes goes: none of a declaration that is called or calls.
LEMMA DeleteNodesCalls ==
    ASSUME GraphInv, GraphInv', CallsInv, Undisturbed, mix' = mix, DeleteNodes
    PROVE  CallsInv'
  <1>1. op.pc \in {"nodes", "gcnodes"} /\ UNCHANGED <<edges, out, inc, pub>>
    BY DEF DeleteNodes
  <1>2. /\ live' = live /\ severed' = severed /\ enriched' = enriched /\ head' = head /\ base' = base
        /\ edges' = edges
    BY <1>1 DEF pub
  <1>3. GraphTypes /\ Staged /\ Unpurged BY Undisturbance
  <1>4. CallRels' = CallRels BY <1>2 DEF CallRels, Rels
  <1>5. \A k : Genuine(k)' <=> Genuine(k) BY <1>2 DEF Genuine, CallOf
  <1>6. PICK b \in SUBSET op.keys :
            /\ \A i \in Ids : nodes'[i] = IF i \in b THEN 0 ELSE nodes[i]
            /\ op'.kind = op.kind /\ op'.keys = op.keys \ b /\ op'.removed = op.removed
            /\ op'.succ = op.succ /\ op'.layout = op.layout
            /\ \/ op'.pc = op.pc
               \/ op.keys = {} /\ op'.pc = IF op.pc = "nodes" THEN "relate" ELSE "gcrelate"
    <2>1. CASE /\ op.keys = {} /\ nodes' = nodes
               /\ op' = [op EXCEPT !.pc = IF op.pc = "nodes" THEN "relate" ELSE "gcrelate"]
      <3>1. /\ op'.kind = op.kind /\ op'.keys = op.keys \ {} /\ op'.removed = op.removed
            /\ op'.succ = op.succ /\ op'.layout = op.layout
            /\ op'.pc = IF op.pc = "nodes" THEN "relate" ELSE "gcrelate"
        BY <1>3, <2>1 DEF GraphTypes, IsOp
      <3>2. {} \in SUBSET op.keys /\ \A i \in Ids : nodes'[i] = IF i \in {} THEN 0 ELSE nodes[i]
        BY <2>1
      <3> QED BY <2>1, <3>1, <3>2
    <2>2. ASSUME NEW b \in SUBSET op.keys \ {{}}, DropNodes(b), op' = [op EXCEPT !.keys = @ \ b]
          PROVE  /\ \A i \in Ids : nodes'[i] = IF i \in b THEN 0 ELSE nodes[i]
                 /\ op'.kind = op.kind /\ op'.keys = op.keys \ b /\ op'.removed = op.removed
                 /\ op'.succ = op.succ /\ op'.layout = op.layout /\ op'.pc = op.pc
      <3>1. /\ op'.kind = op.kind /\ op'.keys = op.keys \ b /\ op'.removed = op.removed
            /\ op'.succ = op.succ /\ op'.layout = op.layout /\ op'.pc = op.pc
        BY <1>3, <2>2 DEF GraphTypes, IsOp
      <3>2. \A i \in Ids : nodes'[i] = IF i \in b THEN 0 ELSE nodes[i]
        BY <1>3, <2>2, DropRows DEF GraphTypes
      <3> QED BY <3>1, <3>2
    <2> QED BY <2>1, <2>2 DEF DeleteNodes
  <1>7. op.keys \cap Declared(live) = {} BY <1>1, <1>3 DEF Unpurged
  <1>8. Standing' = Standing \ b /\ \A d \in Standing' : nodes'[d] = nodes[d]
    BY <1>6 DEF Standing, Ids
  <1>9. Dated => Dated' BY <1>2, <1>4, <1>8 DEF Dated
  <1>10. Paths' = Paths BY <1>6 DEF Paths
  <1>11. Emptied' BY <1>1, <1>2, <1>6 DEF CallsInv, Emptied
  <1>12. CASE op.pc = "nodes"
    <2>1. /\ \A i \in op.removed : i \in Ids /\ i \notin Declared(live) /\ PathOf[i] \in Paths
          /\ \A p \in op.succ : p[2] \in Declared(live) /\ NameOf[p[1]] = NameOf[p[2]]
          /\ \A i \in op.removed \cap Decls : Kin(i) => \E e \in Declared(live) : <<i, e>> \in op.succ
          /\ Purging /\ Declared(live) \subseteq Standing
          /\ Standing \subseteq Declared(live) \cup op.keys
      BY <1>12 DEF CallsInv, Found
    <2>2. op'.pc \in {"nodes", "relate"} /\ (op'.pc = "relate" => op.keys = {})
      BY <1>6, <1>12
    <2>3. Known' = Known BY <1>2, <1>6, <1>12, <2>2 DEF Known
    <2>4. Purging' BY <1>2, <1>9, <1>10, <2>1, <2>3, PurgingStays DEF Purging
    <2>5. /\ Declared(live') \subseteq Standing'
          /\ Standing' \subseteq Declared(live') \cup (IF op'.pc = "nodes" THEN op'.keys ELSE {})
      BY <1>2, <1>6, <1>7, <1>8, <2>1, <2>2
    <2>6. Found' BY <1>2, <1>6, <1>10, <2>1, <2>2, <2>4, <2>5 DEF Found, Kin, Identity
    <2>7. Settled' /\ Upserted' /\ Moving' BY <2>2 DEF Settled, Calm, Upserted, Moving
    <2>8. Resolved' BY <1>2, <1>12, <2>2 DEF CallsInv, Resolved
    <2> QED BY <1>11, <2>6, <2>7, <2>8 DEF CallsInv
  <1>13. CASE op.pc = "gcnodes"
    <2>1. op'.pc \in {"gcnodes", "gcrelate"} BY <1>6, <1>13
    <2>2. Standing = Declared(live) /\ Dated /\ AllShown(CallRels) /\ \A k \in CallRels : Genuine(k)
      BY <1>13 DEF CallsInv, Settled, Calm
    <2>3. Standing' = Declared(live') BY <1>2, <1>7, <1>8, <2>2
    <2>4. Settled' BY <1>2, <1>4, <1>5, <1>9, <2>2, <2>3 DEF Settled, AllShown, CallOf
    <2>5. Upserted' /\ Found' /\ Moving' BY <2>1 DEF Upserted, Found, Moving
    <2>6. Resolved' BY <1>2, <1>4, <1>13, <2>1 DEF CallsInv, Resolved, Unique, Named
    <2> QED BY <1>11, <2>4, <2>5, <2>6 DEF CallsInv
  <1> QED BY <1>1, <1>12, <1>13

\* The purge keeps the calls of other files, moved where their target moved.
LEMMA CollectEdgesCalls ==
    ASSUME GraphInv, GraphInv', CallsInv, Undisturbed, mix' = mix, CollectEdges
    PROVE  CallsInv'
  <1> DEFINE refreshed == {i \in Here : PathOf[i] \in Paths} \union op.removed
             retired   == RetiredCalls(refreshed)
             touching  == {k \in Rels \ retired : /\ edges[k] < head
                                                  /\ {Source(k), Target(k)} \intersect op.removed # {}}
  <1>1. /\ op.pc = "relate"
        /\ op' = [op EXCEPT !.pc = "edges", !.keys = retired \union touching, !.moved = Moved(touching)]
        /\ UNCHANGED <<graphTables, pub>>
    BY DEF CollectEdges
  <1>2. GraphTypes /\ Staged /\ GraphTypes' BY DEF GraphInv
  <1>3. op.succ \subseteq Decls \X Decls BY <1>1, <1>2 DEF Staged
  <1>4. /\ \A i \in op.removed : i \in Ids /\ i \notin Declared(live) /\ PathOf[i] \in Paths
        /\ \A p \in op.succ : p[2] \in Declared(live) /\ NameOf[p[1]] = NameOf[p[2]]
        /\ \A i \in op.removed \cap Decls : Kin(i) => \E e \in Declared(live) : <<i, e>> \in op.succ
        /\ Purging /\ Standing = Declared(live)
    BY <1>1 DEF CallsInv, Found
  <1>5. Known = Declared(live) \cup op.removed BY <1>1 DEF Known
  <1>6. \A i \in refreshed : PathOf[i] \in Paths BY <1>4
  <1>7. \A k \in CallRels : edges[k] \in Nat /\ edges[k] <= head /\ head \in Nat
    BY <1>2, <1>4, CallShape DEF Purging, Dated, GraphTypes
  <1>8. \A k \in CallRels : edges[k] < head /\ PathOf[Source(k)] \in Paths => k \in retired
    <2>1. SUFFICES ASSUME NEW k \in CallRels, edges[k] < head, PathOf[Source(k)] \in Paths
                   PROVE  k \in retired
      OBVIOUS
    <2>2. Source(k) \in Declared(live) \cup op.removed BY <1>4, <1>5 DEF Purging
    <2>3. Source(k) \in refreshed BY <1>4, <2>1, <2>2 DEF Standing, Here, Ids
    <2> QED BY <2>1, <2>3, CallShape DEF RetiredCalls
  <1>9. \A k \in touching : k[1] = "calls" =>
            /\ k \in CallRels /\ edges[k] < head /\ PathOf[Source(k)] \notin Paths
            /\ Source(k) \notin op.removed /\ Target(k) \in op.removed /\ Target(k) \in Decls
            /\ CallOf(k) \in Calls(live)
    <2>1. SUFFICES ASSUME NEW k \in touching, k[1] = "calls"
                   PROVE  /\ k \in CallRels /\ edges[k] < head /\ PathOf[Source(k)] \notin Paths
                          /\ Source(k) \notin op.removed /\ Target(k) \in op.removed
                          /\ Target(k) \in Decls /\ CallOf(k) \in Calls(live)
      OBVIOUS
    <2>2. k \in CallRels /\ edges[k] < head BY <2>1 DEF CallRels
    <2>3. PathOf[Source(k)] \notin Paths BY <1>8, <2>1, <2>2
    <2>4. Source(k) \notin op.removed BY <1>4, <2>3
    <2>5. Target(k) \in op.removed BY <2>1, <2>4
    <2>6. Target(k) \in Ids /\ Target(k) \in Decls \cup Names BY <1>4, <2>2, <2>5, CallShape
    <2>7. Target(k) \in Decls BY <2>6, GraphAssumption
    <2>8. CallOf(k) \in Calls(live) BY <1>4, <2>2, <2>3 DEF Purging
    <2> QED BY <2>2, <2>3, <2>4, <2>5, <2>7, <2>8
  <1>10. \A k \in retired \cup touching : edges[k] < head BY DEF RetiredCalls
  <1>11. \A k \in retired : PathOf[Source(k)] \in Paths BY <1>6 DEF RetiredCalls
  <1>12. \A k \in CallRels : k \notin retired /\ edges[k] < head /\ Target(k) \in op.removed => k \in touching
    BY CallShape
  <1> HIDE DEF refreshed, retired, touching
  <1>13. /\ op'.pc = "edges" /\ op'.kind = op.kind /\ op'.keys = retired \cup touching
         /\ op'.moved = Moved(touching)
    BY <1>1, <1>2 DEF GraphTypes, IsOp
  <1>14. /\ CallRels' = CallRels /\ Standing' = Standing /\ live' = live /\ severed' = severed
         /\ head' = head /\ enriched' = enriched
         /\ (Dated' <=> Dated) /\ \A k : Genuine(k)' <=> Genuine(k)
    BY <1>1, <1>2, QuietCalls
  <1>15. \A k \in CallRels \ (retired \cup touching) : Genuine(k)
    <2>1. SUFFICES ASSUME NEW k \in CallRels \ (retired \cup touching) PROVE Genuine(k)
      OBVIOUS
    <2>2. CASE edges[k] = head BY <1>4, <2>2 DEF Purging
    <2>3. CASE edges[k] < head
      <3>1. PathOf[Source(k)] \notin Paths BY <1>8, <2>1, <2>3
      <3>2. CallOf(k) \in Calls(live) BY <1>4, <2>3, <3>1 DEF Purging
      <3>3. Target(k) \notin op.removed BY <1>12, <2>1, <2>3
      <3>4. Target(k) \in Decls => Target(k) \in Declared(live)
        BY <1>4, <1>5, <2>3, <3>3 DEF Purging
      <3> QED BY <3>2, <3>4 DEF Genuine
    <2> QED BY <1>7, <2>2, <2>3
  <1>16. \A i, j : i \in op.removed => (j \in Mapped(i) <=> <<i, j>> \in op.succ)
    <2>1. SUFFICES ASSUME NEW i \in op.removed, NEW j
                   PROVE  j \in Mapped(i) <=> <<i, j>> \in op.succ
      OBVIOUS
    <2>2. \A p \in op.succ : p = <<p[1], p[2]>> BY <1>3
    <2> QED BY <2>2 DEF Mapped
  <1>17. \A i : i \notin op.removed => Mapped(i) = {i} BY DEF Mapped
  <1>18. \A m \in Moved(touching) : m[1] = "calls" => Genuine(m)
    <2>1. SUFFICES ASSUME NEW m \in Moved(touching), m[1] = "calls" PROVE Genuine(m)
      OBVIOUS
    <2>10. PICK k \in touching : \E s \in Mapped(Source(k)), t \in Mapped(Target(k)) : m = <<k[1], s, t>>
      BY DEF Moved
    <2>2. PICK s \in Mapped(Source(k)), t \in Mapped(Target(k)) : m = <<k[1], s, t>>
      BY <2>10
    <2>3. k[1] = "calls" BY <2>1, <2>2
    <2>4. /\ Source(k) \notin op.removed /\ Target(k) \in op.removed /\ Target(k) \in Decls
          /\ CallOf(k) \in Calls(live)
      BY <1>9, <2>3
    <2>5. s = Source(k) BY <1>17, <2>4
    <2>6. <<Target(k), t>> \in op.succ BY <1>16, <2>4
    <2>7. t \in Declared(live) /\ NameOf[Target(k)] = NameOf[t] /\ t \in Decls
      BY <1>3, <1>4, <2>6
    <2>8. Source(m) = Source(k) /\ Target(m) = t BY <2>2, <2>5 DEF Source, Target
    <2>9. CallOf(m) = CallOf(k) BY <2>4, <2>7, <2>8 DEF CallOf
    <2> QED BY <2>4, <2>7, <2>8, <2>9 DEF Genuine
  <1>19. ASSUME NEW c \in Calls(live) \ severed
         PROVE  \E k \in (CallRels \ (retired \cup touching)) \cup Moved(touching) :
                    k[1] = "calls" /\ CallOf(k) = c
    <2>1. PICK k \in CallRels : /\ CallOf(k) = c
                                /\ PathOf[c[1]] \in Paths => edges[k] = head
                                /\ Target(k) \in Decls => Kin(Target(k))
      BY <1>4, <1>19 DEF Purging
    <2>2. k[1] = "calls" /\ Source(k) = c[1] BY <2>1, CallShape DEF CallOf
    <2>3. CASE k \notin retired \cup touching BY <2>1, <2>2, <2>3
    <2>4. CASE k \in retired \cup touching
      <3>1. edges[k] < head /\ edges[k] # head BY <1>7, <1>10, <2>4
      <3>2. PathOf[Source(k)] \notin Paths BY <2>1, <2>2, <3>1
      <3>3. k \in touching BY <1>11, <2>4, <3>2
      <3>4. Source(k) \notin op.removed /\ Target(k) \in op.removed /\ Target(k) \in Decls
        BY <1>9, <2>2, <3>3
      <3>5. Kin(Target(k)) BY <2>1, <3>4
      <3>6. PICK e \in Declared(live) : <<Target(k), e>> \in op.succ BY <1>4, <3>4, <3>5
      <3>7. NameOf[Target(k)] = NameOf[e] /\ e \in Decls BY <1>3, <1>4, <3>6
      <3>8. e \in Mapped(Target(k)) /\ Source(k) \in Mapped(Source(k)) BY <1>16, <1>17, <3>4, <3>6
      <3> DEFINE m == <<k[1], Source(k), e>>
      <3>9. m \in Moved(touching) BY <3>3, <3>8 DEF Moved
      <3>10. Source(m) = Source(k) /\ Target(m) = e /\ m[1] = "calls" BY <2>2 DEF Source, Target
      <3>11. CallOf(m) = CallOf(k) BY <3>4, <3>7, <3>10 DEF CallOf
      <3> QED BY <2>1, <3>9, <3>10, <3>11
    <2> QED BY <2>3, <2>4
  <1>20. Moving'
    <2>1. Standing' = Declared(live') /\ Dated' BY <1>4, <1>14 DEF Purging
    <2>2. AllShown((CallRels \ op.keys) \cup op.moved)'
      BY <1>13, <1>14, <1>19 DEF AllShown, CallOf
    <2>3. \A k \in CallRels' \ op'.keys : Genuine(k)' BY <1>13, <1>14, <1>15
    <2>4. \A k \in op'.moved : k[1] = "calls" => Genuine(k)' BY <1>13, <1>14, <1>18
    <2> QED BY <1>13, <2>1, <2>2, <2>3, <2>4 DEF Moving
  <1>21. Found' BY <1>4, <1>13, <1>14 DEF Found
  <1>22. Emptied' BY <1>13, <1>14 DEF CallsInv, Emptied
  <1>23. Settled' /\ Upserted' BY <1>13 DEF Settled, Calm, Upserted
  <1>24. Resolved' BY <1>1, <1>13, <1>14 DEF CallsInv, Resolved
  <1> QED BY <1>20, <1>21, <1>22, <1>23, <1>24 DEF CallsInv

\* A batch of edges goes: those chosen, none that is still called.
LEMMA DeleteEdgesCalls ==
    ASSUME GraphInv, GraphInv', CallsInv, Undisturbed, mix' = mix, DeleteEdges
    PROVE  CallsInv'
  <1>1. op.pc \in {"edges", "gcedges"} /\ UNCHANGED <<nodes, pub>>
    BY DEF DeleteEdges
  <1>2. /\ live' = live /\ severed' = severed /\ enriched' = enriched /\ head' = head /\ base' = base
        /\ nodes' = nodes
    BY <1>1 DEF pub
  <1>3. GraphTypes /\ GraphTypes' BY DEF GraphInv
  <1>4. Standing' = Standing BY <1>2 DEF Standing
  <1>5. \A k : Genuine(k)' <=> Genuine(k) BY <1>2 DEF Genuine, CallOf
  <1>6. CASE UNCHANGED <<edges, out, inc>> /\ op.keys = {} /\ op.pc = "edges"
             /\ op' = [op EXCEPT !.pc = "insert", !.keys = op.moved]
    <2>1. op'.pc = "insert" /\ op'.keys = op.moved /\ op'.kind = op.kind
      BY <1>3, <1>6 DEF GraphTypes, IsOp
    <2>2. CallRels' = CallRels BY <1>6 DEF CallRels, Rels
    <2>3. Dated' <=> Dated BY <1>2, <1>4, <1>6, <2>2 DEF Dated
    <2>4. /\ Standing = Declared(live) /\ Dated
          /\ \A k \in CallRels \ op.keys : Genuine(k)
          /\ \A k \in op.moved : k[1] = "calls" => Genuine(k)
          /\ AllShown((CallRels \ op.keys) \cup op.moved)
      BY <1>6 DEF CallsInv, Moving
    <2>5. AllShown(CallRels \cup op.keys)' BY <1>2, <1>6, <2>1, <2>2, <2>4 DEF AllShown, CallOf
    <2>6. Moving' BY <1>2, <1>4, <1>5, <1>6, <2>1, <2>2, <2>3, <2>4, <2>5 DEF Moving
    <2>7. Found' BY <1>2, <1>4, <2>1, <2>4 DEF Found
    <2>8. Emptied' BY <1>2, <2>1 DEF CallsInv, Emptied
    <2>9. Settled' /\ Upserted' BY <2>1 DEF Settled, Calm, Upserted
    <2>10. Resolved' BY <1>2, <1>6, <2>1 DEF CallsInv, Resolved
    <2> QED BY <2>6, <2>7, <2>8, <2>9, <2>10 DEF CallsInv
  <1>7. CASE UNCHANGED <<edges, out, inc>> /\ op.pc = "gcedges" /\ op' = Idle
    <2>1. op'.pc = "idle" /\ op'.kind = "none" BY <1>7, AtRest
    <2>2. CallRels' = CallRels BY <1>7 DEF CallRels, Rels
    <2>3. Dated' <=> Dated BY <1>2, <1>4, <1>7, <2>2 DEF Dated
    <2>4. Settled' BY <1>2, <1>4, <1>5, <1>7, <2>2, <2>3 DEF CallsInv, Settled, Calm, AllShown, CallOf
    <2>5. Emptied' BY <1>2, <2>1 DEF CallsInv, Emptied
    <2>6. Upserted' /\ Found' /\ Moving' BY <2>1 DEF Upserted, Found, Moving
    <2>7. Resolved' BY <1>2, <1>7, <2>1, <2>2 DEF CallsInv, Resolved, Unique, Named
    <2> QED BY <2>4, <2>5, <2>6, <2>7 DEF CallsInv
  <1>8. ASSUME NEW b \in SUBSET op.keys \ {{}}, DropEdges(b), op' = [op EXCEPT !.keys = @ \ b]
        PROVE  CallsInv'
    <2>1. op'.pc = op.pc /\ op'.keys = op.keys \ b /\ op'.moved = op.moved /\ op'.kind = op.kind
      BY <1>3, <1>8 DEF GraphTypes, IsOp
    <2>2. CallRels' = CallRels \ b
      <3>1. Rels' = Rels \ b BY <1>3, <1>8, DropTables DEF GraphTypes
      <3> QED BY <3>1 DEF CallRels
    <2>3. \A k \in CallRels' : edges'[k] = edges[k] BY <1>8, <2>2, CallShape DEF DropEdges
    <2>4. Dated => Dated' BY <1>2, <1>4, <2>2, <2>3 DEF Dated
    <2>5. Emptied' BY <1>1, <1>2, <2>1 DEF CallsInv, Emptied
    <2>6. CASE op.pc = "edges"
      <3>1. /\ Standing = Declared(live) /\ Dated
            /\ \A k \in CallRels \ op.keys : Genuine(k)
            /\ \A k \in op.moved : k[1] = "calls" => Genuine(k)
            /\ AllShown((CallRels \ op.keys) \cup op.moved)
        BY <2>6 DEF CallsInv, Moving
      <3>2. CallRels' \ op'.keys = CallRels \ op.keys BY <1>8, <2>1, <2>2
      <3>3. AllShown((CallRels \ op.keys) \cup op.moved)'
        BY <1>2, <2>1, <3>1, <3>2 DEF AllShown, CallOf
      <3>4. Moving' BY <1>2, <1>4, <1>5, <2>1, <2>4, <2>6, <3>1, <3>2, <3>3 DEF Moving
      <3>5. Found' BY <1>2, <1>4, <2>1, <2>6, <3>1 DEF Found
      <3>6. Settled' /\ Upserted' BY <2>1, <2>6 DEF Settled, Calm, Upserted
      <3>7. Resolved' BY <1>2, <2>1, <2>6 DEF CallsInv, Resolved
      <3> QED BY <2>5, <3>4, <3>5, <3>6, <3>7 DEF CallsInv
    <2>7. CASE op.pc = "gcedges"
      <3>1. op.keys \cap CallRels = {} BY <2>7 DEF CallsInv, Resolved
      <3>2. CallRels' = CallRels BY <1>8, <2>2, <3>1
      <3>3. Settled'
        BY <1>2, <1>4, <1>5, <2>4, <2>7, <3>2 DEF CallsInv, Settled, Calm, AllShown, CallOf
      <3>4. Upserted' /\ Found' /\ Moving' BY <2>1, <2>7 DEF Upserted, Found, Moving
      <3>5. Resolved' BY <1>2, <2>1, <2>7, <3>1, <3>2 DEF CallsInv, Resolved, Unique, Named
      <3> QED BY <2>5, <3>3, <3>4, <3>5 DEF CallsInv
    <2> QED BY <1>1, <2>6, <2>7
  <1> QED BY <1>1, <1>6, <1>7, <1>8 DEF DeleteEdges

\* A batch of moved edges is inserted.
LEMMA InsertMovedCalls ==
    ASSUME GraphInv, GraphInv', CallsInv, Undisturbed, mix' = mix, InsertMoved
    PROVE  CallsInv'
  <1>1. op.pc = "insert" /\ UNCHANGED <<nodes, pub>> BY DEF InsertMoved
  <1>2. /\ live' = live /\ severed' = severed /\ enriched' = enriched /\ head' = head /\ base' = base
        /\ nodes' = nodes
    BY <1>1 DEF pub
  <1>3. GraphTypes /\ Staged /\ GraphTypes' BY DEF GraphInv
  <1>4. Standing' = Standing BY <1>2 DEF Standing
  <1>5. \A k : Genuine(k)' <=> Genuine(k) BY <1>2 DEF Genuine, CallOf
  <1>6. /\ Standing = Declared(live) /\ Dated
        /\ \A k \in CallRels : Genuine(k)
        /\ \A k \in op.keys : k[1] = "calls" => Genuine(k)
        /\ AllShown(CallRels \cup op.keys)
        /\ enriched = FALSE
    BY <1>1 DEF CallsInv, Moving, Resolved
  <1>7. head # 0 /\ op.kind \in {"update", "only"} /\ op.keys \subseteq Keys BY <1>1, <1>3 DEF Staged
  <1>8. CASE UNCHANGED <<edges, out, inc>> /\ op.keys = {}
             /\ op' = IF op.kind = "only" THEN Idle ELSE [op EXCEPT !.pc = "resolve"]
    <2>1. \/ op'.pc = "idle" /\ op'.kind = "none"
          \/ op'.pc = "resolve" /\ op'.kind = "update"
      <3>1. CASE op.kind = "only" BY <1>8, <3>1, AtRest
      <3>2. CASE op.kind = "update" BY <1>3, <1>8, <3>2 DEF GraphTypes, IsOp
      <3> QED BY <1>7, <3>1, <3>2
    <2>2. CallRels' = CallRels BY <1>8 DEF CallRels, Rels
    <2>3. Dated' BY <1>2, <1>4, <1>6, <1>8, <2>2 DEF Dated
    <2>4. AllShown(CallRels)' BY <1>2, <1>6, <1>8, <2>2 DEF AllShown, CallOf
    <2>5. Settled' BY <1>2, <1>4, <1>5, <1>6, <2>2, <2>3, <2>4 DEF Settled
    <2>6. Emptied' BY <1>2, <2>1 DEF CallsInv, Emptied
    <2>7. Upserted' /\ Found' /\ Moving' BY <2>1 DEF Upserted, Found, Moving
    <2>8. Resolved' BY <1>2, <1>6, <2>1 DEF Resolved
    <2> QED BY <2>5, <2>6, <2>7, <2>8 DEF CallsInv
  <1>9. ASSUME NEW b \in SUBSET op.keys \ {{}}, PutEdges(b, head), op' = [op EXCEPT !.keys = @ \ b]
        PROVE  CallsInv'
    <2>1. op'.pc = "insert" /\ op'.keys = op.keys \ b /\ op'.kind = op.kind
      BY <1>1, <1>3, <1>9 DEF GraphTypes, IsOp
    <2>2. b \subseteq Keys /\ head \in Nat \ {0} /\ base <= head BY <1>3, <1>7 DEF GraphTypes
    <2>3. Rels' = Rels \cup b BY <1>3, <1>9, <2>2, PutTables DEF GraphTypes
    <2>4. CallRels' = CallRels \cup {k \in b : k[1] = "calls"} BY <2>3 DEF CallRels
    <2>5. \A k \in CallRels' : edges'[k] = head \/ (k \in CallRels /\ edges'[k] = edges[k])
      BY <1>9, <2>2, <2>4, CallShape DEF PutEdges
    <2>6. Dated' BY <1>2, <1>4, <1>6, <2>2, <2>5 DEF Dated
    <2>7. \A k \in CallRels' : Genuine(k)' BY <1>5, <1>6, <1>9, <2>4
    <2>8. AllShown(CallRels \cup op.keys)'
      <3>1. SUFFICES ASSUME NEW c \in Calls(live) \ severed
                     PROVE  \E k \in CallRels' \cup op'.keys : k[1] = "calls" /\ CallOf(k) = c
        BY <1>2 DEF AllShown, CallOf
      <3>2. PICK k \in CallRels \cup op.keys : k[1] = "calls" /\ CallOf(k) = c BY <1>6 DEF AllShown
      <3>3. k \in CallRels' \cup op'.keys BY <2>1, <2>4, <3>2
      <3> QED BY <3>2, <3>3
    <2>9. Moving' BY <1>2, <1>4, <1>5, <1>6, <2>1, <2>6, <2>7, <2>8 DEF Moving
    <2>10. Found' BY <1>2, <1>4, <1>6, <2>1 DEF Found
    <2>11. Emptied' BY <1>2, <2>1 DEF CallsInv, Emptied
    <2>12. Settled' /\ Upserted' BY <2>1 DEF Settled, Calm, Upserted
    <2>13. Resolved' BY <1>2, <1>6, <2>1 DEF Resolved
    <2> QED BY <2>9, <2>10, <2>11, <2>12, <2>13 DEF CallsInv
  <1> QED BY <1>8, <1>9 DEF InsertMoved

\* The resolver reads what it will bind.
LEMMA ResolveReadCalls ==
    ASSUME GraphInv, GraphInv', CallsInv, Undisturbed, mix' = mix, ResolveRead
    PROVE  CallsInv'
  <1>1. op.pc = "resolve" /\ UNCHANGED <<graphTables, pub>> BY DEF ResolveRead
  <1>2. GraphTypes /\ GraphTypes' BY DEF GraphInv
  <1>3. op'.pc = "bind" /\ op'.kind = op.kind /\ op'.keys = Bindings
    BY <1>2 DEF ResolveRead, GraphTypes, IsOp
  <1>4. /\ CallRels' = CallRels /\ Standing' = Standing /\ live' = live /\ severed' = severed
        /\ head' = head /\ enriched' = enriched /\ nodes' = nodes /\ edges' = edges
        /\ (Dated' <=> Dated) /\ \A k : Genuine(k)' <=> Genuine(k)
    BY <1>1, <1>2, QuietCalls
  <1>5. Bindings' = Bindings BY <1>4 DEF Bindings, Rels
  <1>6. Settled' BY <1>1, <1>4 DEF CallsInv, Settled, Calm, AllShown, CallOf
  <1>7. Emptied' BY <1>3, <1>4 DEF CallsInv, Emptied
  <1>8. Upserted' /\ Found' /\ Moving' BY <1>3 DEF Upserted, Found, Moving
  <1>9. Resolved' BY <1>1, <1>3, <1>4, <1>5 DEF CallsInv, Resolved
  <1> QED BY <1>6, <1>7, <1>8, <1>9 DEF CallsInv

\* References whose name one declaration has become edges to it, and no other
\* reference has such a name.
LEMMA ResolveWriteCalls ==
    ASSUME GraphInv, GraphInv', CallsInv, Undisturbed, mix' = mix, ResolveWrite
    PROVE  CallsInv'
  <1>1. op.pc = "bind" /\ UNCHANGED <<nodes, live, severed, head, base>> /\ enriched' = TRUE
    BY DEF ResolveWrite
  <1>2. GraphTypes /\ Staged /\ GraphTypes' BY DEF GraphInv
  <1>3. /\ Standing = Declared(live) /\ Dated /\ AllShown(CallRels)
        /\ \A k \in CallRels : Genuine(k)
        /\ op.keys = Bindings
        /\ op.kind # "update" => \A k \in CallRels : edges[k] = head
    BY <1>1 DEF CallsInv, Settled, Calm, Resolved
  <1>4. op' = IF op.kind = "update" THEN Idle ELSE [Idle EXCEPT !.pc = "baseline"]
    BY DEF ResolveWrite
  <1>5. op'.kind = "none" /\ op'.pc = IF op.kind = "update" THEN "idle" ELSE "baseline"
    BY <1>4 DEF Idle
  <1>6. op.keys \subseteq {p \in Rels \X Decls : Target(p[1]) \in Names} BY <1>1, <1>2 DEF Staged
  <1>7. /\ Rels' = (Rels \ Olds(op.keys)) \cup Bound(op.keys)
        /\ \A k \in Bound(op.keys) : \E o \in Olds(op.keys) : edges'[k] = edges[o]
        /\ \A k \in Rels' \ Bound(op.keys) : edges'[k] = edges[k]
    BY <1>2, <1>6, BindTables DEF GraphTypes
  <1>8. \A n : Named(live, n) = {e \in Decls : nodes[e] # 0 /\ NameOf[e] = n}
    BY <1>3 DEF Standing, Named
  <1>9. \A p \in op.keys : /\ p = <<p[1], p[2]>> /\ p[1] \in CallRels /\ p[2] \in Decls
                           /\ Target(p[1]) \in Names /\ Target(p[1]) \notin Decls
                           /\ Named(live, Target(p[1])) = {p[2]}
    <2>1. SUFFICES ASSUME NEW p \in op.keys
                   PROVE  /\ p = <<p[1], p[2]>> /\ p[1] \in CallRels /\ p[2] \in Decls
                          /\ Target(p[1]) \in Names /\ Target(p[1]) \notin Decls
                          /\ Named(live, Target(p[1])) = {p[2]}
      OBVIOUS
    <2>2. /\ p = <<p[1], p[2]>> /\ p[1] \in Rels /\ p[2] \in Decls /\ Target(p[1]) \in Names
          /\ {e \in Decls : nodes[e] # 0 /\ NameOf[e] = Target(p[1])} = {p[2]}
      BY <1>3 DEF Bindings
    <2>3. Target(p[1]) \notin Hits /\ Target(p[1]) \notin Decls BY <2>2, NamesApart
    <2>4. p[1] \in CallRels BY <2>2, <2>3, KeyShape DEF CallRels, Rels
    <2> QED BY <1>8, <2>2, <2>3, <2>4
  <1>10. \A k \in Bound(op.keys) : \E p \in op.keys :
             /\ k = <<"calls", Source(p[1]), p[2]>> /\ k[1] = "calls"
             /\ Target(k) = p[2] /\ CallOf(k) = CallOf(p[1])
    <2>1. SUFFICES ASSUME NEW p \in op.keys, NEW k, k = <<"calls", Source(p[1]), p[2]>>
                   PROVE  k[1] = "calls" /\ Target(k) = p[2] /\ CallOf(k) = CallOf(p[1])
      BY DEF Bound
    <2>2. k[1] = "calls" /\ Source(k) = Source(p[1]) /\ Target(k) = p[2]
      BY <2>1 DEF Source, Target
    <2>3. NameOf[p[2]] = Target(p[1]) BY <1>9 DEF Named
    <2> QED BY <1>9, <2>2, <2>3 DEF CallOf
  <1>11. CallRels' = (CallRels \ Olds(op.keys)) \cup Bound(op.keys)
    BY <1>7, <1>10 DEF CallRels
  <1>12. \A k \in CallRels' : \/ k \in CallRels /\ edges'[k] = edges[k]
                              \/ \E o \in CallRels : edges'[k] = edges[o]
    <2>1. \A o \in Olds(op.keys) : o \in CallRels BY <1>9 DEF Olds
    <2>2. CallRels' \subseteq Rels' BY DEF CallRels
    <2> QED BY <1>7, <1>11, <2>1, <2>2
  <1>13. Standing' = Standing BY <1>1 DEF Standing
  <1>14. Dated' BY <1>1, <1>3, <1>12, <1>13 DEF Dated
  <1>15. \A k : Genuine(k)' <=> Genuine(k) BY <1>1 DEF Genuine, CallOf
  <1>16. \A k \in CallRels' : Genuine(k)'
    <2>1. SUFFICES ASSUME NEW k \in Bound(op.keys) PROVE Genuine(k)
      BY <1>3, <1>11, <1>15
    <2>2. PICK p \in op.keys : Target(k) = p[2] /\ CallOf(k) = CallOf(p[1]) BY <1>10
    <2>3. p[2] \in Declared(live) BY <1>9 DEF Named
    <2>4. Genuine(p[1]) BY <1>3, <1>9
    <2> QED BY <2>2, <2>3, <2>4 DEF Genuine
  <1>17. AllShown(CallRels)'
    <2>1. SUFFICES ASSUME NEW c \in Calls(live) \ severed
                   PROVE  \E k \in CallRels' : k[1] = "calls" /\ CallOf(k) = c
      BY <1>1 DEF AllShown, CallOf
    <2>2. PICK k \in CallRels : k[1] = "calls" /\ CallOf(k) = c BY <1>3 DEF AllShown
    <2>3. CASE k \notin Olds(op.keys) BY <1>11, <2>2, <2>3
    <2>4. CASE k \in Olds(op.keys)
      <3>1. PICK p \in op.keys : k = p[1] BY <2>4 DEF Olds
      <3> DEFINE m == <<"calls", Source(p[1]), p[2]>>
      <3>2. m \in Bound(op.keys) BY DEF Bound
      <3>3. Source(m) = Source(k) /\ Target(m) = p[2] /\ m[1] = "calls" BY <3>1 DEF Source, Target
      <3>4. NameOf[p[2]] = Target(p[1]) BY <1>9 DEF Named
      <3>5. CallOf(m) = CallOf(k) BY <1>9, <3>1, <3>3, <3>4 DEF CallOf
      <3> QED BY <1>11, <2>2, <3>2, <3>3, <3>5
    <2> QED BY <2>3, <2>4
  <1>18. Settled' BY <1>1, <1>3, <1>13, <1>14, <1>16, <1>17 DEF Settled
  <1>19. \A k \in CallRels' : Target(k) \in Names => ~Unique(Target(k))
    <2>1. SUFFICES ASSUME NEW k \in CallRels', Target(k) \in Names, Unique(Target(k)) PROVE FALSE
      OBVIOUS
    <2>2. Target(k) \notin Decls BY <2>1, NamesApart
    <2>3. k \notin Bound(op.keys) BY <1>9, <1>10, <2>2
    <2>4. k \in CallRels /\ k \notin Olds(op.keys) BY <1>11, <2>1, <2>3
    <2>5. PICK e \in Named(live, Target(k)) : Named(live, Target(k)) = {e} BY <2>1 DEF Unique
    <2>6. e \in Decls BY <1>8, <2>5
    <2>7. k \in Rels BY <2>4 DEF CallRels
    <2>8. {d \in Decls : nodes[d] # 0 /\ NameOf[d] = Target(k)} = {e} BY <1>8, <2>5
    <2>9. <<k, e>> \in Bindings BY <2>1, <2>6, <2>7, <2>8 DEF Bindings
    <2> QED BY <1>3, <2>4, <2>9 DEF Olds
  <1>20. op.kind # "update" => \A k \in CallRels' : edges'[k] = head' BY <1>1, <1>3, <1>12
  <1>21. Resolved'
    <2>1. op'.pc \in {"idle", "baseline"} BY <1>5
    <2>2. op'.pc = "baseline" => \A k \in CallRels' : edges'[k] = head' BY <1>5, <1>20
    <2>3. \A k \in CallRels' : Target(k) \in Names => ~Unique(Target(k))'
      BY <1>1, <1>19 DEF Unique, Named
    <2> QED BY <2>1, <2>2, <2>3 DEF Resolved
  <1>22. Emptied' BY <1>1, <1>5 DEF CallsInv, Emptied
  <1>23. Upserted' /\ Found' /\ Moving' BY <1>5 DEF Upserted, Found, Moving
  <1> QED BY <1>18, <1>21, <1>22, <1>23 DEF CallsInv

\* Search sessions touch no declaration and no call.
LEMMA SameCalls ==
    ASSUME GraphTypes, GraphTypes', CallsInv, UNCHANGED <<live, severed, enriched, head, base, op>>,
           \A d \in Decls : nodes'[d] = nodes[d],
           \A k \in Keys : k[1] = "calls" => edges'[k] = edges[k]
    PROVE  CallsInv'
  <1>1. /\ CallRels' = CallRels /\ Standing' = Standing
        /\ \A k : Genuine(k)' <=> Genuine(k)
        /\ \A k \in CallRels : edges'[k] = edges[k]
        /\ Dated' <=> Dated
        /\ \A d \in Standing : nodes'[d] = nodes[d]
    BY CallsFrame DEF Standing
  <1>2. Settled' BY <1>1 DEF CallsInv, Settled, Calm, AllShown, CallOf
  <1>3. Emptied' BY <1>1 DEF CallsInv, Emptied
  <1>4. Upserted' BY <1>1 DEF CallsInv, Upserted, AllShown, CallOf, Ref
  <1>5. Paths' = Paths /\ Known' = Known BY <1>1 DEF Paths, Known
  <1>6. Purging => Purging' BY <1>1, <1>5 DEF Purging, CallOf, Kin, Identity
  <1>7. Found'
    <2>1. op.pc = "collect" =>
              /\ \A d \in Standing : d \in Declared(live) \/ (PathOf[d] \in Paths /\ nodes[d] # head)
              /\ Purging
      BY DEF CallsInv, Found
    <2>2. op'.pc = "collect" =>
              /\ \A d \in Standing' : d \in Declared(live') \/ (PathOf[d] \in Paths' /\ nodes'[d] # head')
              /\ Purging'
      BY <1>1, <1>5, <1>6, <2>1
    <2> QED BY <1>1, <1>5, <1>6, <2>2 DEF CallsInv, Found, Kin, Identity
  <1>8. Moving' BY <1>1 DEF CallsInv, Moving, AllShown, CallOf
  <1>9. Bindings' = Bindings
    <2>1. ASSUME NEW k \in Keys, Target(k) \in Names PROVE k[1] = "calls"
      BY <2>1, KeyShape, NamesApart
    <2>2. \A k \in Keys : Target(k) \in Names => (k \in Rels' <=> k \in Rels) BY <2>1 DEF Rels
    <2>3. \A n : {e \in Decls : nodes'[e] # 0 /\ NameOf[e] = n} = {e \in Decls : nodes[e] # 0 /\ NameOf[e] = n}
      OBVIOUS
    <2>4. ASSUME NEW p \in Keys \X Decls PROVE p \in Bindings' <=> p \in Bindings
      <3>1. p[1] \in Keys OBVIOUS
      <3> QED BY <2>2, <2>3, <3>1 DEF Bindings
    <2>5. Bindings \subseteq Keys \X Decls /\ Bindings' \subseteq Keys \X Decls BY DEF Bindings, Rels
    <2> QED BY <2>4, <2>5
  <1>10. Resolved' BY <1>1, <1>9 DEF CallsInv, Resolved, Unique, Named
  <1> QED BY <1>2, <1>3, <1>4, <1>7, <1>8, <1>10 DEF CallsInv

\* A search session is read and written.
LEMMA LearnCalls ==
    ASSUME GraphInv, GraphInv', CallsInv, LearnRead \/ LearnWrite
    PROVE  CallsInv'
  <1>1. GraphTypes /\ GraphTypes' BY DEF GraphInv
  <1>2. UNCHANGED <<live, severed, enriched, head, base, op>>
    BY DEF LearnRead, LearnWrite, pub
  <1>3. \A d \in Decls : nodes'[d] = nodes[d]
    BY GraphAssumption DEF LearnRead, LearnWrite, graphTables, Ids
  <1>4. \A k \in Keys : k[1] = "calls" => edges'[k] = edges[k]
    <2>1. CASE LearnRead BY <2>1 DEF LearnRead, graphTables
    <2>2. CASE LearnWrite
      <3>1. \A k \in Pairs : k[1] = "learned" BY DEF Pairs
      <3> QED BY <2>2, <3>1 DEF LearnWrite, PutEdges
    <2> QED BY <2>1, <2>2
  <1> QED BY <1>1, <1>2, <1>3, <1>4, SameCalls

\* A full index is the new baseline: no call is older.
LEMMA BaselineCalls ==
    ASSUME GraphInv, GraphInv', CallsInv, Undisturbed, mix' = mix, SetBaseline
    PROVE  CallsInv'
  <1>1. /\ op.pc = "baseline" /\ base' = head /\ op'.pc = "idle"
        /\ UNCHANGED <<graphTables, live, severed, enriched, head>>
    BY DEF SetBaseline, Idle
  <1>2. /\ nodes' = nodes /\ edges' = edges /\ live' = live /\ severed' = severed
        /\ enriched' = enriched /\ head' = head
    BY <1>1 DEF graphTables
  <1>3. GraphTypes BY DEF GraphInv
  <1>4. CallRels' = CallRels /\ Standing' = Standing BY <1>2 DEF CallRels, Rels, Standing
  <1>5. \A k : Genuine(k)' <=> Genuine(k) BY <1>2 DEF Genuine, CallOf
  <1>6. /\ Standing = Declared(live) /\ Dated /\ AllShown(CallRels)
        /\ \A k \in CallRels : Genuine(k)
        /\ \A k \in CallRels : edges[k] = head
    BY <1>1 DEF CallsInv, Settled, Calm, Resolved
  <1>7. Dated'
    <2>1. head \in Nat BY <1>3 DEF GraphTypes
    <2> QED BY <1>1, <1>2, <1>4, <1>6, <2>1 DEF Dated
  <1>8. AllShown(CallRels)' BY <1>2, <1>4, <1>6 DEF AllShown, CallOf
  <1>9. Settled' BY <1>2, <1>4, <1>5, <1>6, <1>7, <1>8 DEF Settled
  <1>10. Emptied' BY <1>1, <1>2 DEF CallsInv, Emptied
  <1>11. Upserted' /\ Found' /\ Moving' BY <1>1 DEF Upserted, Found, Moving
  <1>12. Resolved' BY <1>1, <1>2, <1>4 DEF CallsInv, Resolved, Unique, Named
  <1> QED BY <1>9, <1>10, <1>11, <1>12 DEF CallsInv

\* The collection sweep looks for old nodes.
LEMMA CollectStaleNodesCalls ==
    ASSUME GraphInv, GraphInv', CallsInv, Undisturbed, mix' = mix, CollectStaleNodes
    PROVE  CallsInv'
  <1>1. op.pc = "idle" /\ op'.pc = "gcnodes" /\ op'.kind = "gc" /\ UNCHANGED <<graphTables, pub>>
    BY DEF CollectStaleNodes, Idle
  <1>2. GraphTypes /\ GraphTypes' BY DEF GraphInv
  <1>3. /\ CallRels' = CallRels /\ Standing' = Standing /\ live' = live /\ severed' = severed
        /\ head' = head /\ enriched' = enriched /\ edges' = edges
        /\ (Dated' <=> Dated) /\ \A k : Genuine(k)' <=> Genuine(k)
    BY <1>1, <1>2, QuietCalls
  <1>4. Settled' BY <1>1, <1>3 DEF CallsInv, Settled, Calm, AllShown, CallOf
  <1>5. Emptied' BY <1>1, <1>3 DEF CallsInv, Emptied
  <1>6. Upserted' /\ Found' /\ Moving' BY <1>1 DEF Upserted, Found, Moving
  <1>7. Resolved' BY <1>1, <1>3 DEF CallsInv, Resolved, Unique, Named
  <1> QED BY <1>4, <1>5, <1>6, <1>7 DEF CallsInv

\* The collection sweep looks for old edges, none of which is a call.
LEMMA CollectStaleEdgesCalls ==
    ASSUME GraphInv, GraphInv', CallsInv, Undisturbed, mix' = mix, CollectStaleEdges
    PROVE  CallsInv'
  <1>1. op.pc = "gcrelate" /\ UNCHANGED <<graphTables, pub>> BY DEF CollectStaleEdges
  <1>2. GraphTypes /\ GraphTypes' BY DEF GraphInv
  <1>3. op'.pc = "gcedges" /\ op'.kind = op.kind /\ op'.keys = {k \in Rels : Stale(edges[k])}
    BY <1>2 DEF CollectStaleEdges, GraphTypes, IsOp
  <1>4. /\ CallRels' = CallRels /\ Standing' = Standing /\ live' = live /\ severed' = severed
        /\ head' = head /\ enriched' = enriched /\ edges' = edges
        /\ (Dated' <=> Dated) /\ \A k : Genuine(k)' <=> Genuine(k)
    BY <1>1, <1>2, QuietCalls
  <1>5. op'.keys \cap CallRels' = {}
    <2>1. \A k \in CallRels : base <= edges[k] /\ edges[k] \in Nat
      BY <1>1, <1>2, CallShape DEF CallsInv, Settled, Calm, Dated, GraphTypes
    <2>2. base \in Nat BY <1>2 DEF GraphTypes
    <2> QED BY <1>3, <1>4, <2>1, <2>2 DEF Stale
  <1>6. Settled' BY <1>1, <1>4 DEF CallsInv, Settled, Calm, AllShown, CallOf
  <1>7. Emptied' BY <1>3, <1>4 DEF CallsInv, Emptied
  <1>8. Upserted' /\ Found' /\ Moving' BY <1>3 DEF Upserted, Found, Moving
  <1>9. Resolved' BY <1>1, <1>3, <1>4, <1>5 DEF CallsInv, Resolved, Unique, Named
  <1> QED BY <1>6, <1>7, <1>8, <1>9 DEF CallsInv

\* While the tables are drained only their emptiness matters.
LEMMA DrainedCalls ==
    ASSUME Emptied', op'.pc \in {"wnodes", "wedges", "wout", "win"}
    PROVE  CallsInv'
  BY DEF CallsInv, Settled, Calm, Upserted, Found, Moving, Resolved

\* The drain of a repair begins.
LEMMA WipeBeginCalls ==
    ASSUME GraphInv, GraphInv', CallsInv, Undisturbed, mix' = mix, WipeBegin
    PROVE  CallsInv'
  <1>1. op'.pc = "wnodes" /\ live' = live /\ head' = head BY DEF WipeBegin, Idle, pub
  <1>2. Emptied' BY <1>1 DEF CallsInv, Emptied
  <1> QED BY <1>1, <1>2, DrainedCalls

\* The nodes are drained.
LEMMA DrainNodesCalls ==
    ASSUME GraphInv, GraphInv', CallsInv, Undisturbed, mix' = mix, DrainNodes
    PROVE  CallsInv'
  <1>1. op.pc = "wnodes" /\ live' = live /\ head' = head /\ edges' = edges BY DEF DrainNodes, pub
  <1>2. GraphTypes BY DEF GraphInv
  <1>3. \/ op'.pc = "wnodes"
        \/ op'.pc = "wedges" /\ Here = {} /\ nodes' = nodes
    BY <1>1, <1>2 DEF DrainNodes, GraphTypes, IsOp
  <1>4. op'.pc = "wedges" => Standing' = {} BY <1>3 DEF Standing, Here, Ids
  <1>5. Emptied' BY <1>1, <1>3, <1>4 DEF CallsInv, Emptied
  <1> QED BY <1>3, <1>5, DrainedCalls

\* The edges are drained.
LEMMA DrainEdgesCalls ==
    ASSUME GraphInv, GraphInv', CallsInv, Undisturbed, mix' = mix, DrainEdges
    PROVE  CallsInv'
  <1>1. op.pc = "wedges" /\ live' = live /\ head' = head /\ nodes' = nodes BY DEF DrainEdges, pub
  <1>2. GraphTypes BY DEF GraphInv
  <1>3. \/ op'.pc = "wedges"
        \/ op'.pc = "wout" /\ Rels = {} /\ edges' = edges
    BY <1>1, <1>2 DEF DrainEdges, GraphTypes, IsOp
  <1>4. Standing' = {} BY <1>1 DEF CallsInv, Emptied, Standing
  <1>5. op'.pc = "wout" => CallRels' = {} BY <1>3 DEF CallRels, Rels
  <1>6. Emptied' BY <1>1, <1>3, <1>4, <1>5 DEF CallsInv, Emptied
  <1> QED BY <1>3, <1>6, DrainedCalls

\* The outgoing mirror is drained.
LEMMA DrainOutCalls ==
    ASSUME GraphInv, GraphInv', CallsInv, Undisturbed, mix' = mix, DrainOut
    PROVE  CallsInv'
  <1>1. op.pc = "wout" /\ live' = live /\ head' = head /\ nodes' = nodes /\ edges' = edges
    BY DEF DrainOut, pub
  <1>2. GraphTypes BY DEF GraphInv
  <1>3. op'.pc \in {"wout", "win"} BY <1>1, <1>2 DEF DrainOut, GraphTypes, IsOp
  <1>4. Standing' = {} /\ CallRels' = {} BY <1>1 DEF CallsInv, Emptied, Standing, CallRels, Rels
  <1>5. Emptied' BY <1>1, <1>3, <1>4 DEF CallsInv, Emptied
  <1> QED BY <1>3, <1>5, DrainedCalls

\* The incoming mirror is drained, and the project is indexed again.
LEMMA DrainInCalls ==
    ASSUME GraphInv, GraphInv', CallsInv, Undisturbed, mix' = mix, DrainIn
    PROVE  CallsInv'
  <1>1. op.pc = "win" /\ live' = live /\ head' = head /\ nodes' = nodes /\ edges' = edges
    BY DEF DrainIn, pub
  <1>2. Standing' = {} /\ CallRels' = {} BY <1>1 DEF CallsInv, Emptied, Standing, CallRels, Rels
  <1>3. \/ op'.pc = "win"
        \/ op'.pc = "upsert" /\ op'.kind = "wipe"
    BY <1>1 DEF DrainIn, Idle
  <1>4. Emptied' BY <1>1, <1>2, <1>3 DEF CallsInv, Emptied
  <1>5. CASE op'.pc = "win" BY <1>4, <1>5, DrainedCalls
  <1>6. CASE op'.pc = "upsert" /\ op'.kind = "wipe"
    BY <1>4, <1>6 DEF CallsInv, Settled, Calm, Upserted, Found, Moving, Resolved
  <1> QED BY <1>3, <1>5, <1>6

\* The first state: no declarations and no calls.
LEMMA InitCalls == GraphInit => CallsInv
  <1>1. SUFFICES ASSUME GraphInit PROVE CallsInv OBVIOUS
  <1>2. op.pc = "idle" /\ enriched = FALSE BY <1>1 DEF GraphInit, Idle
  <1>3. Declared(live) = {} /\ Calls(live) = {}
    BY <1>1, GraphAssumption DEF GraphInit, Declared, Calls
  <1>4. Standing = {} BY <1>1 DEF GraphInit, Standing, Ids
  <1>5. CallRels = {} BY <1>1 DEF GraphInit, CallRels, Rels
  <1>6. Settled BY <1>3, <1>4, <1>5 DEF Settled, Dated, AllShown
  <1>7. Emptied BY <1>2, <1>3 DEF Emptied
  <1>8. Upserted /\ Found /\ Moving /\ Resolved BY <1>2 DEF Upserted, Found, Moving, Resolved
  <1> QED BY <1>6, <1>7, <1>8 DEF CallsInv

\* Every step of undisturbed flows keeps the calls.
LEMMA StepCalls ==
    GraphInv /\ GraphInv' /\ (Undisturbed => CallsInv) /\ [GraphNext /\ UNCHANGED mix]_<<graphVars, mix>>
        => (Undisturbed' => CallsInv')
  <1>1. SUFFICES ASSUME GraphInv, GraphInv', Undisturbed => CallsInv, Undisturbed',
                        [GraphNext /\ UNCHANGED mix]_<<graphVars, mix>>
                 PROVE  CallsInv'
    OBVIOUS
  <1>2. mix' = mix BY <1>1
  <1>3. Undisturbed BY <1>1, <1>2 DEF Undisturbed
  <1>4. CallsInv BY <1>1, <1>3
  <1>5. CASE UNCHANGED <<graphVars, mix>>
    <2>1. UNCHANGED <<live, severed, enriched, head, base, op, nodes, edges>>
      BY <1>5 DEF graphVars, graphTables, pub
    <2>2. GraphTypes /\ GraphTypes' BY <1>1 DEF GraphInv
    <2> QED BY <1>4, <2>1, <2>2, SameCalls
  <1>6. CASE GraphNext
    <2>1. ~Halt BY <1>1, <1>3 DEF Halt, Undisturbed, GraphInv, GraphTypes
    <2>2. CASE LearnRead \/ LearnWrite BY <1>1, <1>4, <2>2, LearnCalls
    <2>3. CASE \E kind \in {"index", "update", "only", "repair"}, paths \in SUBSET Files \ {{}} :
                   \E l \in Extractions(paths) : BeginFlow(kind, paths, l)
      BY <1>1, <1>2, <1>3, <1>4, <2>3, BeginCalls
    <2> QED BY <1>1, <1>2, <1>3, <1>4, <1>6, <2>1, <2>2, <2>3, UpsertCalls, PublishCalls,
               CollectCalls, DeleteNodesCalls, CollectEdgesCalls, DeleteEdgesCalls,
               InsertMovedCalls, ResolveReadCalls, ResolveWriteCalls, BaselineCalls,
               CollectStaleNodesCalls, CollectStaleEdgesCalls, WipeBeginCalls, DrainNodesCalls,
               DrainEdgesCalls, DrainOutCalls, DrainInCalls
            DEF GraphNext
  <1> QED BY <1>1, <1>5, <1>6

\* Between undisturbed flows the calls of the graph are those of the published
\* text: every bindable call is bound once the resolver ran, no other call is.
LEMMA CallsAreBound == GraphInv /\ (Undisturbed => CallsInv) => CallsBound
  <1>1. SUFFICES ASSUME GraphInv, CallsInv, op = Idle
                 PROVE  /\ enriched => \A c \in Calls(live) : Bindable(c) =>
                               \E e \in Named(live, c[2]) : <<"calls", c[1], e>> \in BoundCalls
                        /\ \A k \in BoundCalls : /\ <<Source(k), NameOf[Target(k)]>> \in Calls(live)
                                                 /\ Target(k) \in Declared(live)
    BY DEF CallsBound
  <1>2. op.pc = "idle" BY <1>1 DEF Idle
  <1>3. /\ AllShown(CallRels) /\ \A k \in CallRels : Genuine(k)
        /\ enriched = TRUE => \A k \in CallRels : Target(k) \in Names => ~Unique(Target(k))
    BY <1>1, <1>2 DEF CallsInv, Settled, Calm, Resolved
  <1>4. ASSUME enriched, NEW c \in Calls(live), Bindable(c)
        PROVE  \E e \in Named(live, c[2]) : <<"calls", c[1], e>> \in BoundCalls
    <2>1. PICK k \in CallRels : CallOf(k) = c BY <1>3, <1>4 DEF AllShown, Bindable
    <2>2. Unique(c[2]) BY <1>4 DEF Bindable, Unique
    <2>3. /\ k \in Rels /\ k[1] = "calls" /\ k = <<"calls", Source(k), Target(k)>>
          /\ Target(k) \in Decls \cup Names
      BY CallShape
    <2>4. Target(k) \in Decls
      <3>1. SUFFICES ASSUME Target(k) \notin Decls PROVE FALSE OBVIOUS
      <3>2. c[2] = Target(k) /\ Target(k) \in Names BY <2>1, <2>3, <3>1 DEF CallOf
      <3> QED BY <1>3, <1>4, <2>2, <3>2
    <2>5. Target(k) \in Declared(live) BY <1>3, <2>4 DEF Genuine
    <2>6. c[1] = Source(k) /\ c[2] = NameOf[Target(k)] BY <2>1, <2>4 DEF CallOf
    <2>7. Target(k) \in Named(live, c[2]) BY <2>5, <2>6 DEF Named
    <2>8. <<"calls", c[1], Target(k)>> \in BoundCalls BY <2>3, <2>4, <2>6 DEF BoundCalls
    <2> QED BY <2>7, <2>8
  <1>5. ASSUME NEW k \in BoundCalls
        PROVE  /\ <<Source(k), NameOf[Target(k)]>> \in Calls(live) /\ Target(k) \in Declared(live)
    <2>1. k \in CallRels /\ Target(k) \in Decls BY DEF BoundCalls, CallRels
    <2> QED BY <1>3, <2>1 DEF Genuine, CallOf
  <1> QED BY <1>4, <1>5

\* Between flows that nothing stops, every call of the published text whose
\* target is declared once is bound to it, and no call is bound that the text
\* does not make, for any files, texts, names and number of updates.
THEOREM CallsStayBound == GraphSpec => []CallsBound
  <1>1. GraphInit => (Undisturbed => CallsInv) BY InitCalls
  <1> QED BY <1>1, GraphInitInv, GraphStepStays, StepCalls, CallsAreBound, PTL DEF GraphSpec
=============================================================================
