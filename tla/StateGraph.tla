----------------------------- MODULE StateGraph -----------------------------
(***************************************************************************)
(* The graph of Python objects a portable checkpoint holds                 *)
(* (incremental/state_codec.py): its encoding as a table of nodes, and the *)
(* rebuilding of the objects from the table, with their sharing and their  *)
(* cycles.  The objects of a session are a sequence; a value is a scalar   *)
(* or a reference to one of them.  The items of a mapping are its keys and *)
(* values by turns, those of an object its attributes in sorted order.     *)
(***************************************************************************)
EXTENDS Integers, SequencesExt

CONSTANTS
    Graphs,        \* graphs to save, each with its first object as the root
    Budgets,       \* <<max_nodes, max_depth>> of a checkpoint
    NoTable        \* nothing saved, nothing loaded

VARIABLES graph,   \* the objects of the session
          budget,
          table,   \* the encoded graph: the root and the nodes
          loaded   \* what decoding it gave

vars == <<graph, budget, table, loaded>>

Scalar(n) == <<"scalar", n>>
Link(i) == <<"link", i>>
IsLink(v) == v[1] = "link"

\* Mappings, lists, deques and objects are filled after they are made; tuples
\* and frozen sets are made of their items.  A foreign object has no encoding.
Frozen == {"tuple", "frozenset"}
Sets == {"set", "frozenset"}
Ordered(node) ==                               \* sets are written in sorted order
    IF node.kind \in Sets THEN SetToSortSeq(ToSet(node.items), LAMBDA v, w : v[2] < w[2])
    ELSE node.items
Encodable(node) ==
    /\ node.kind # "foreign"
    /\ node.kind \in Sets => \A v \in ToSet(node.items) : ~IsLink(v)

Put(f, k, v) == [m \in DOMAIN f \cup {k} |-> IF m = k THEN v ELSE f[m]]
Failed(s) == [s EXCEPT !.ok = FALSE]

-----------------------------------------------------------------------------
(* _GraphEncoder: an object gets its number when it is met first, and its  *)
(* node when everything it refers to has been encoded.                     *)

Code(ids, v) == IF IsLink(v) THEN Link(ids[v[2]]) ELSE v
Coded(ids, items) == [k \in DOMAIN items |-> Code(ids, items[k])]

\* A bug the encoder could have: an object met again is written again.
Known(s, i) == i \in DOMAIN s.ids

RECURSIVE Encode(_, _, _)
EncodeNode(s, i, depth) ==
    LET number == Len(s.nodes) + 1
        opened == [s EXCEPT !.ids = Put(@, i, number), !.nodes = Append(@, [kind |-> "open", items |-> <<>>])]
        items == Ordered(graph[i])
        filled == FoldLeft(LAMBDA t, v : Encode(t, v, depth), opened, items)
    IN  IF filled.ok
        THEN [filled EXCEPT !.nodes[number] = [kind |-> graph[i].kind, items |-> Coded(filled.ids, items)]]
        ELSE filled
Encode(s, v, depth) ==
    CASE ~s.ok \/ depth > budget[2] -> Failed(s)
      [] s.ok /\ depth <= budget[2] /\ ~IsLink(v) -> s
      [] s.ok /\ depth <= budget[2] /\ IsLink(v) ->
            IF Known(s, v[2]) THEN s
            ELSE IF Len(s.nodes) >= budget[1] \/ ~Encodable(graph[v[2]]) THEN Failed(s)
            ELSE EncodeNode(s, v[2], depth + 1)
Encoded(v) ==
    LET s == Encode([ok |-> TRUE, ids |-> <<>>, nodes |-> <<>>], v, 0)
    IN  [ok |-> s.ok, ids |-> s.ids, nodes |-> s.nodes, root |-> IF s.ok THEN Code(s.ids, v) ELSE v]

-----------------------------------------------------------------------------
(* _GraphDecoder: an object that can be filled later is known to its items *)
(* while they are decoded; one that cannot is only being built meanwhile,  *)
(* and an item that refers to it is refused.  The stores of linefills are  *)
(* filled at the very end, when their entries are complete.                *)

Value(d, code) == IF IsLink(code) THEN Link(d.values[code[2]]) ELSE code
ValuesOf(d, items) == [k \in DOMAIN items |-> Value(d, items[k])]
Made(d, number, object) ==
    [d EXCEPT !.heap = Append(@, object), !.values = Put(@, number, Len(d.heap) + 1)]

RECURSIVE Decode(_, _, _)
DecodeItems(d, items, depth) == FoldLeft(LAMBDA t, code : Decode(t, code, depth), d, items)

FillsAtOnce(node) == node.kind \notin Frozen \cup {"store"}
DecodeMutable(d, number, node, depth) ==
    LET made == Made(d, number, [kind |-> node.kind, items |-> <<>>])
        done == DecodeItems(made, node.items, depth)
    IN  CASE ~done.ok -> done
          [] done.ok /\ FillsAtOnce(node) ->
                [done EXCEPT !.heap[done.values[number]].items = ValuesOf(done, node.items)]
          [] done.ok /\ ~FillsAtOnce(node) ->
                [done EXCEPT !.stores = Append(@, [at |-> done.values[number], items |-> ValuesOf(done, node.items)])]
DecodeFrozen(d, number, node, depth) ==
    LET done == DecodeItems([d EXCEPT !.building = @ \cup {number}], node.items, depth)
    IN  IF done.ok
        THEN Made([done EXCEPT !.building = @ \ {number}], number,
                  [kind |-> node.kind, items |-> ValuesOf(done, node.items)])
        ELSE done
Decode(d, code, depth) ==
    CASE ~d.ok \/ depth > budget[2] -> Failed(d)
      [] d.ok /\ depth <= budget[2] /\ ~IsLink(code) -> d
      [] d.ok /\ depth <= budget[2] /\ IsLink(code) ->
            IF code[2] \in DOMAIN d.values THEN d
            ELSE IF code[2] \in d.building THEN Failed(d)
            ELSE IF table.nodes[code[2]].kind \in Frozen
            THEN DecodeFrozen(d, code[2], table.nodes[code[2]], depth + 1)
            ELSE DecodeMutable(d, code[2], table.nodes[code[2]], depth + 1)

\* finish_linefill_stores: an entry is a mapping with the key it is kept under.
Complete(heap, store) ==
    \A k \in DOMAIN store.items :
        k % 2 = 0 => /\ IsLink(store.items[k])
                     /\ LET entry == heap[store.items[k][2]]
                        IN  entry.kind = "dict" /\ entry.items # <<>> /\ entry.items[1] = store.items[k - 1]
Finished(d) ==
    IF d.ok /\ \A k \in DOMAIN d.stores : Complete(d.heap, d.stores[k])
    THEN FoldLeft(LAMBDA t, store : [t EXCEPT !.heap[store.at].items = store.items], d, d.stores)
    ELSE Failed(d)
Decoded ==
    LET d == Finished(Decode([ok |-> Len(table.nodes) <= budget[1], heap |-> <<>>, values |-> <<>>,
                              building |-> {}, stores |-> <<>>], table.root, 0))
    IN  [ok |-> d.ok, heap |-> d.heap, values |-> d.values]

-----------------------------------------------------------------------------
Save ==
    /\ table = NoTable
    /\ table' = Encoded(Link(1))
    /\ UNCHANGED <<graph, budget, loaded>>
Load ==
    /\ table # NoTable /\ loaded = NoTable
    /\ table.ok
    /\ loaded' = Decoded
    /\ UNCHANGED <<graph, budget, table>>

Init == graph \in Graphs /\ budget \in Budgets /\ table = NoTable /\ loaded = NoTable
Next == Save \/ Load
Spec == Init /\ [][Next]_vars

-----------------------------------------------------------------------------
(* Properties.                                                             *)

LinksOf(i) == {v[2] : v \in {w \in ToSet(graph[i].items) : IsLink(w)}}
Beyond(i) ==                                   \* what i refers to, directly or not
    LET level[n \in 0 .. Len(graph)] ==
            IF n = 0 THEN LinksOf(i) ELSE level[n - 1] \cup UNION {LinksOf(j) : j \in level[n - 1]}
    IN  level[Len(graph)]

\* What is restored is the graph that was saved: one object for each, of its
\* kind, with its items in their places, shared where they were shared and
\* cyclic where they were cyclic.
Same(v, w) == IF IsLink(v) THEN w = Link(loaded.values[table.ids[v[2]]]) ELSE w = v
LoadedIsSaved ==
    loaded # NoTable /\ loaded.ok =>
        LET image == [i \in DOMAIN table.ids |-> loaded.values[table.ids[i]]]
        IN  /\ DOMAIN table.ids = {1} \cup Beyond(1)
            /\ IsInjective(image)
            /\ \A i \in DOMAIN image :
                  LET old == Ordered(graph[i])
                      new == loaded.heap[image[i]]
                  IN  /\ new.kind = graph[i].kind
                      /\ Len(new.items) = Len(old)
                      /\ \A k \in DOMAIN old : Same(old[k], new.items[k])

\* A checkpoint that could be written can be read with the same budgets, unless
\* a tuple is part of a cycle, or an entry of a store is not what it should be.
OnCycle(i) == i \in Beyond(i)
SoundStore(i) ==
    \A k \in DOMAIN graph[i].items :
        k % 2 = 0 => /\ IsLink(graph[i].items[k])
                     /\ LET entry == graph[graph[i].items[k][2]]
                        IN  entry.kind = "dict" /\ entry.items # <<>> /\ entry.items[1] = graph[i].items[k - 1]
WrittenIsReadable ==
    loaded # NoTable /\ ~loaded.ok =>
        \E i \in {1} \cup Beyond(1) :
            \/ graph[i].kind \in Frozen /\ OnCycle(i)
            \/ graph[i].kind = "store" /\ ~SoundStore(i)
=============================================================================
