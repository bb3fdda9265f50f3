--------------------------- MODULE CollectionHeap ---------------------------
(***************************************************************************)
(* The objects behind array.*, map.* and matrix.* (collections.py): arrays *)
(* with a list of their own, arrays that are a window of another array     *)
(* (_ArraySliceStorage), maps and matrices.  A heap is the sequence of the *)
(* objects a script has made; a value is missing, a number, or a reference *)
(* to an object.  Positions are counted from 0, as in the code.            *)
(***************************************************************************)
EXTENDS Integers, Sequences, SequencesExt

CONSTANTS MaxSize,      \* max_size of arrays and maps
          MaxCells,     \* max_cells of matrices
          MaxDepth      \* max_depth of them all

Na == <<"na", 0>>
Num(n) == <<"num", n>>
Ref(i) == <<"ref", i>>
IsRef(v) == v[1] = "ref"

List(items) == [kind |-> "array", items |-> items]
Window(parent, start, stop) ==
    [kind |-> "window", parent |-> parent, start |-> start, stop |-> stop]
Map(keys, items) == [kind |-> "map", keys |-> keys, items |-> items]
Matrix(rows, columns) == [kind |-> "matrix", rows |-> rows, columns |-> columns]

ArraysIn(h) == {i \in DOMAIN h : h[i].kind \in {"array", "window"}}
MapsIn(h) == {i \in DOMAIN h : h[i].kind = "map"}
MatricesIn(h) == {i \in DOMAIN h : h[i].kind = "matrix"}

Least(a, b) == IF a < b THEN a ELSE b
Most(a, b) == IF a > b THEN a ELSE b

-----------------------------------------------------------------------------
(* Windows: _root_path, __len__ and __getitem__.                           *)

IsWindow(h, a) == h[a].kind = "window"
Root(h, a) ==
    LET up[i \in DOMAIN h] == IF IsWindow(h, i) THEN up[h[i].parent] ELSE i
    IN  up[a]
Offset(h, a) ==
    LET sum[i \in DOMAIN h] == IF IsWindow(h, i) THEN h[i].start + sum[h[i].parent] ELSE 0
    IN  sum[a]
Size(h, a) ==
    LET length[i \in DOMAIN h] ==
            IF IsWindow(h, i)
            THEN Most(Least(h[i].stop, length[h[i].parent]) - h[i].start, 0)
            ELSE Len(h[i].items)
    IN  length[a]
Windows(h, a) ==
    LET path[i \in DOMAIN h] == IF IsWindow(h, i) THEN {i} \cup path[h[i].parent] ELSE {}
    IN  path[a]
Owners(h, a) == {h[w].parent : w \in Windows(h, a)}

Contents(h, a) ==
    IF IsWindow(h, a)
    THEN SubSeq(h[Root(h, a)].items, Offset(h, a) + 1, Offset(h, a) + Size(h, a))
    ELSE h[a].items

-----------------------------------------------------------------------------
(* The graph: _collection_children, _collection_references, _graph_depth,  *)
(* _collection_has_cycle.                                                  *)

Values(h, i) ==
    CASE h[i].kind = "matrix" -> UNION {ToSet(h[i].rows[r]) : r \in DOMAIN h[i].rows}
      [] h[i].kind = "map"    -> ToSet(h[i].items)
      [] OTHER                -> ToSet(Contents(h, i))
Children(h, i) == {v[2] : v \in {w \in Values(h, i) : IsRef(w)}}
Links(h, i) == Children(h, i) \cup (IF IsWindow(h, i) THEN {h[i].parent} ELSE {})

Closure(h, i, next(_, _)) ==
    LET level[n \in 0 .. Len(h)] ==
            IF n = 0 THEN {i}
            ELSE LET reached == level[n - 1] IN reached \cup UNION {next(h, j) : j \in reached}
    IN  level[Len(h)]

\* level n holds the objects at the end of a path of n children: the deepest
\* path that is not empty gives the height, a path longer than the heap a cycle.
Level(h, i) ==
    LET level[n \in 0 .. Len(h)] ==
            IF n = 0 THEN {i}
            ELSE LET reached == level[n - 1] IN UNION {Children(h, j) : j \in reached}
    IN  level
Height(h, v) ==
    IF IsRef(v) THEN LET level == Level(h, v[2]) IN Cardinality({n \in DOMAIN level : level[n] # {}})
    ELSE 0
HasCycle(h, i) == Level(h, i)[Len(h)] # {}

Storable(h, v) ==                              \* _validate_stored_value and the depth
    /\ IsRef(v) => ~HasCycle(h, v[2])
    /\ 1 + Height(h, v) <= MaxDepth
Admits(h, container, v) ==                     \* _validate_collection_assignment
    /\ Storable(h, v)
    /\ IsRef(v) => container \notin Closure(h, v[2], Links)

-----------------------------------------------------------------------------
(* Edits of an array through its storage.  Owners are validated before     *)
(* anything changes; every window on the path follows the length.          *)

CanInsert(h, a, at, v) ==
    /\ Size(h, a) + 1 <= MaxSize
    /\ Admits(h, a, v)
    /\ \A o \in Owners(h, a) :
          /\ Offset(h, a) - Offset(h, o) + at <= Size(h, o)
          /\ Size(h, o) + 1 <= MaxSize
          /\ Admits(h, o, v)
MutantOuterOnly(h, a, by) ==
    [i \in DOMAIN h |-> IF i = a /\ IsWindow(h, a) THEN [h[i] EXCEPT !.stop = @ + by] ELSE h[i]]
Resized(h, a, by) ==
    [i \in DOMAIN h |-> IF i \in Windows(h, a) THEN [h[i] EXCEPT !.stop = @ + by] ELSE h[i]]
Inserted(h, a, at, v) ==
    [Resized(h, a, 1) EXCEPT ![Root(h, a)].items = InsertAt(@, Offset(h, a) + at + 1, v)]
Deleted(h, a, at) ==
    [Resized(h, a, -1) EXCEPT ![Root(h, a)].items = RemoveAt(@, Offset(h, a) + at + 1)]

OwnersAdmit(h, a, v) == \A o \in Owners(h, a) : Admits(h, o, v)
Replaced(h, a, at, v) == [h EXCEPT ![Root(h, a)].items[Offset(h, a) + at + 1] = v]
Within(items, first, n, new) ==                \* n items from position first, if any, become new
    IF n = 0 THEN items
    ELSE SubSeq(items, 1, first) \o new \o SubSeq(items, first + n + 1, Len(items))
Rewritten(h, a, items) ==                      \* self._values[:] = items, of the same length
    [h EXCEPT ![Root(h, a)].items = Within(@, Offset(h, a), Size(h, a), items)]
Cleared(h, a) ==
    [Resized(h, a, -Size(h, a)) EXCEPT ![Root(h, a)].items = Within(@, Offset(h, a), Size(h, a), <<>>)]

(* Turning a window round swaps pair by pair, and each of the two          *)
(* assignments of a swap validates its item: when the second of them is    *)
(* refused (a stored child has grown too deep) the first has been made.    *)
Turned(h, a) ==
    LET n == Size(h, a)
        put(s, at, v) == IF s.ok /\ OwnersAdmit(s.heap, a, v)
                         THEN [s EXCEPT !.heap = Replaced(s.heap, a, at, v)]
                         ELSE [s EXCEPT !.ok = FALSE]
        swap(s, i) == LET items == Contents(s.heap, a)
                      IN  put(put(s, i, items[n - i]), n - 1 - i, items[i + 1])
    IN  IF IsWindow(h, a)
        THEN FoldLeft(swap, [heap |-> h, ok |-> TRUE], [k \in 1 .. n \div 2 |-> k - 1])
        ELSE [heap |-> Rewritten(h, a, Reverse(h[a].items)), ok |-> TRUE]

-----------------------------------------------------------------------------
(* sort and sort_indices: missing values are the greatest; the sort is     *)
(* stable in both directions; values of two kinds cannot be compared.      *)

Before(v, w) == IF v = Na \/ w = Na THEN v # Na /\ w = Na ELSE v[2] < w[2]
Sortable(items) ==
    LET present == ToSet(items) \ {Na}
    IN  Cardinality(present) <= 1 \/ \A v \in present : ~IsRef(v)
Order(items, descending) ==                    \* positions in sorted order
    LET first(i, j) == \/ IF descending THEN Before(items[j], items[i]) ELSE Before(items[i], items[j])
                       \/ /\ ~Before(items[i], items[j]) /\ ~Before(items[j], items[i])
                          /\ i < j
    IN  SetToSortSeq(DOMAIN items, first)
Sorted(items, descending) ==
    LET order == Order(items, descending) IN [k \in DOMAIN items |-> items[order[k]]]
SortIndices(items, descending) ==              \* the ascending permutation, or its reverse
    LET order == Order(items, FALSE)
        indices == [k \in DOMAIN items |-> Num(order[k] - 1)]
    IN  IF descending THEN Reverse(indices) ELSE indices

-----------------------------------------------------------------------------
(* Copies of graphs: _collection_snapshot.py and _collection_copy.py.  The *)
(* copy of an object is appended to the heap; an object reached by two     *)
(* ways is copied once.                                                    *)

Renamed(v, name) == IF IsRef(v) THEN Ref(name[v[2]]) ELSE v
RenamedAll(items, name) == [k \in DOMAIN items |-> Renamed(items[k], name)]
MutantShallow(h, i, name) == IF IsWindow(h, i) THEN List(Contents(h, i)) ELSE h[i]
Detached(h, i, name) ==                        \* allocate and assign: a window becomes a list
    CASE h[i].kind = "matrix" -> Matrix([r \in DOMAIN h[i].rows |-> RenamedAll(h[i].rows[r], name)],
                                        h[i].columns)
      [] h[i].kind = "map"    -> Map(h[i].keys, RenamedAll(h[i].items, name))
      [] OTHER                -> List(RenamedAll(Contents(h, i), name))
Duplicated(h, i, name) ==                      \* windows stay windows of the copied owner
    IF IsWindow(h, i) THEN [h[i] EXCEPT !.parent = name[@]] ELSE Detached(h, i, name)

\* Names of the copies, in the order of their originals.
NewNames(h, copied) ==
    [i \in copied |-> Len(h) + Cardinality({j \in copied : j <= i})]
Extended(h, copied, copy(_, _, _)) ==
    LET name == NewNames(h, copied)
        originals == SetToSortSeq(copied, LAMBDA i, j : i < j)
    IN  h \o [k \in DOMAIN originals |-> copy(h, originals[k], name)]

CanSnapshot(h, i) ==
    \A j \in Closure(h, i, Children) : Height(h, Ref(j)) <= MaxDepth
Snapshotted(h, i) == Extended(h, Closure(h, i, Children), Detached)
Deepcopied(h, i) == Extended(h, Closure(h, i, Links), Duplicated)
CopyOf(h, i, copied) == NewNames(h, copied)[i]

=============================================================================
