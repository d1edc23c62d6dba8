------------------------------ MODULE MCStores ------------------------------
(***************************************************************************)
(* The stores beside the source snapshots, for TLC: the vector table with  *)
(* its route, and the code graph.  They share no variable: one is used     *)
(* while the other rests.                                                  *)
(*                                                                         *)
(* Vectors: searches beside rebuilds, collections and prunings of a store  *)
(* an earlier version left; two writers that race for the first table;     *)
(* and a writer and a search over tables of two embedding models.          *)
(*                                                                         *)
(* Graph: file a declares f, which may call g; file b declares g on one of *)
(* two lines, or not at all; a search hit in each.  The texts change over  *)
(* updates and graph repairs that nothing interrupts, or over updates,     *)
(* full repairs and sweeps beside search sessions and a crash.             *)
(***************************************************************************)
EXTENDS VectorEpochs, GraphStore

CONSTANTS r1, r2, w1, w2, d1, d2, m1, m2

VARIABLE part       \* the store that is used

VectorSettings ==
    {[readers |-> {r1, r2}, writers |-> {}, docs |-> {d1}, models |-> {m1},
      work |-> {"initialize", "recover", "collect", "prune"}, kinds |-> {},
      old |-> {"lexical", "legacy"}, tables |-> 3, errors |-> 2],
     [readers |-> {}, writers |-> {w1, w2}, docs |-> {d1, d2}, models |-> {m1, m2},
      work |-> {"recover"}, kinds |-> {"vector", "lexical"},
      old |-> {"none", "lexical"}, tables |-> 2, errors |-> 1],
     [readers |-> {r1}, writers |-> {w1}, docs |-> {d1}, models |-> {m1, m2},
      work |-> {"recover", "collect"}, kinds |-> {"vector"},
      old |-> {"none"}, tables |-> 2, errors |-> 1]}

InA     == {"f", "ka"}
Symbols == {"f", "g1", "g2"}
Text(ds, cs) == [decls |-> ds, calls |-> cs]
FText   == Text({"f"}, {<<"f", "::g">>})
GTexts  == {Text({"g1"}, {}), Text({"g2"}, {})}
Nothing == Text({}, {})
FileOf  == [i \in Symbols \cup {"ka", "kb"} |-> IF i \in InA THEN "a" ELSE "b"]
Called  == [d \in Symbols |-> IF d = "f" THEN "::f" ELSE "::g"]

GraphMixes ==
    {[layouts |-> [x \in {"a", "b"} |-> IF x = "a" THEN {FText, Text({"f"}, {}), Nothing}
                                                   ELSE GTexts \cup {Nothing}],
      flows |-> {"index", "update", "only", "wipe"}, gens |-> 4, learns |-> 0, halts |-> 0],
     [layouts |-> [x \in {"a", "b"} |-> IF x = "a" THEN {FText} ELSE GTexts],
      flows |-> {"index", "update", "only", "repair", "gc"}, gens |-> 3, learns |-> 1,
      halts |-> 1]}

\* The part that rests has one initial state.
StoresInit ==
    /\ part \in {"vectors", "graph"}
    /\ Init /\ (part = "graph" => setting.writers = {} /\ tables = {})
    /\ GraphInit /\ (part = "vectors" => mix.learns = 0)

StoresNext ==
    /\ part' = part
    /\ \/ part = "vectors" /\ Next /\ UNCHANGED <<setting, mix, graphVars>>
       \/ part = "graph" /\ GraphNext /\ UNCHANGED <<mix, setting, vars>>

StoresSpec == StoresInit /\ [][StoresNext]_<<part, setting, vars, mix, graphVars>>
=============================================================================
