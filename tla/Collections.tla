----------------------------- MODULE Collections -----------------------------
(***************************************************************************)
(* What a script does with array.*, map.* and matrix.* (collections.py).   *)
(* One action is one call that is not refused; a refused call changes      *)
(* nothing, except that turning a window round may stop half-way.          *)
(***************************************************************************)
EXTENDS CollectionHeap

CONSTANTS StartHeaps,   \* heaps a script may have built so far
          Plain,        \* the scalar values it uses
          Keys,         \* the keys of its maps: numbers
          MaxObjects,   \* bound on the objects of a heap
          MaxCalls      \* bound on the calls

VARIABLES heap,         \* the objects, in the order in which they were made
          calls         \* calls made, for the bound

vars == <<heap, calls>>

AnyValue == Plain \cup {Ref(i) : i \in DOMAIN heap}
Indices(n) == -n .. n - 1
Resolved(at, n) == IF at < 0 THEN n + at ELSE at              \* _resolve_index

Init == heap \in StartHeaps /\ calls = 0

Becomes(h) ==
    /\ Len(h) <= MaxObjects
    /\ heap' = h /\ calls' = calls + 1
New(object) == Becomes(Append(heap, object))

-----------------------------------------------------------------------------
(* Arrays.                                                                 *)

NewArray(n, v) ==
    /\ n <= MaxSize /\ n > 0 => Storable(heap, v)
    /\ New(List([k \in 1 .. n |-> v]))
CopyArray(a) ==
    /\ \A v \in Values(heap, a) : Storable(heap, v)
    /\ New(List(Contents(heap, a)))
SliceArray(a, from, to) ==                     \* slice(from, to).indices
    LET n == Size(heap, a)
        clip(i) == Least(Most(IF i < 0 THEN i + n ELSE i, 0), n)
    IN  New(Window(a, clip(from), Most(clip(from), clip(to))))

Insert(a, at, v) ==
    /\ at <= Size(heap, a)
    /\ CanInsert(heap, a, at, v)
    /\ Becomes(Inserted(heap, a, at, v))
Push(a, v) == Insert(a, Size(heap, a), v)
Unshift(a, v) == Insert(a, 0, v)

RemoveItem(a, index) == Becomes(Deleted(heap, a, Resolved(index, Size(heap, a))))
Pop(a) == Size(heap, a) > 0 /\ RemoveItem(a, -1)
Shift(a) == Size(heap, a) > 0 /\ RemoveItem(a, 0)
Clear(a) == Becomes(Cleared(heap, a))

Set(a, index, v) ==
    /\ Admits(heap, a, v) /\ OwnersAdmit(heap, a, v)
    /\ Becomes(Replaced(heap, a, Resolved(index, Size(heap, a)), v))
FillArray(a, v, from, to) ==
    LET items == Contents(heap, a)
        filled == {k \in DOMAIN items : from < k /\ k <= to}
    IN  /\ Admits(heap, a, v)
        /\ filled # {} => OwnersAdmit(heap, a, v)
        /\ Becomes(Rewritten(heap, a, [k \in DOMAIN items |-> IF k \in filled THEN v ELSE items[k]]))
ReverseArray(a) == Becomes(Turned(heap, a).heap)
SortArray(a, descending) ==
    LET items == Contents(heap, a)
    IN  /\ Sortable(items)
        /\ \A v \in ToSet(items) : OwnersAdmit(heap, a, v)
        /\ Becomes(Rewritten(heap, a, Sorted(items, descending)))
NewSortIndices(a, descending) ==
    /\ Sortable(Contents(heap, a))
    /\ New(List(SortIndices(Contents(heap, a), descending)))

-----------------------------------------------------------------------------
(* Maps.                                                                   *)

Has(m, k) == k \in ToSet(heap[m].keys)
Placed(object, k, v) ==                        \* a known key keeps its place
    IF k \in ToSet(object.keys)
    THEN [object EXCEPT !.items[SelectInSeq(object.keys, LAMBDA j : j = k)] = v]
    ELSE [object EXCEPT !.keys = Append(@, k), !.items = Append(@, v)]

NewMap == New(Map(<<>>, <<>>))
Put(m, k, v) ==
    /\ Has(m, k) \/ Len(heap[m].keys) + 1 <= MaxSize
    /\ Admits(heap, m, v)
    /\ Becomes([heap EXCEPT ![m] = Placed(@, k, v)])
PutAll(m, other) ==
    LET merged == FoldLeft(LAMBDA object, i : Placed(object, heap[other].keys[i], heap[other].items[i]),
                           heap[m], [i \in DOMAIN heap[other].keys |-> i])
    IN  /\ \A v \in Values(heap, other) : Admits(heap, m, v)
        /\ Len(merged.keys) <= MaxSize
        /\ Becomes([heap EXCEPT ![m] = merged])
RemoveKey(m, k) ==
    LET at == SelectInSeq(heap[m].keys, LAMBDA j : j = k)
    IN  /\ Has(m, k)
        /\ Becomes([heap EXCEPT ![m] = Map(RemoveAt(@.keys, at), RemoveAt(@.items, at))])
ClearMap(m) == Becomes([heap EXCEPT ![m] = Map(<<>>, <<>>)])
CopyMap(m) ==
    /\ \A v \in Values(heap, m) : Storable(heap, v)
    /\ New(heap[m])
MapKeys(m) == New(List([i \in DOMAIN heap[m].keys |-> Num(heap[m].keys[i])]))
MapValues(m) ==
    /\ \A v \in Values(heap, m) : Storable(heap, v)
    /\ New(List(heap[m].items))

-----------------------------------------------------------------------------
(* Matrices.  A new matrix goes through from_rows, which takes the number  *)
(* of columns from the first row; the callers set it for no rows at all.   *)

Rectangular(rows) == \A r \in DOMAIN rows : Len(rows[r]) = Len(rows[1])
FromRows(rows) == Matrix(rows, IF rows = <<>> THEN 0 ELSE Len(rows[1]))
CanFromRows(rows) ==
    /\ Rectangular(rows)
    /\ Len(FlattenSeq(rows)) <= MaxCells
    /\ \A v \in ToSet(FlattenSeq(rows)) : Storable(heap, v)

NewMatrix(r, c, v) ==
    /\ r * c <= MaxCells /\ Storable(heap, v)
    /\ New(Matrix([i \in 1 .. r |-> [j \in 1 .. c |-> v]], c))
SetCell(m, i, j, v) ==
    /\ Admits(heap, m, v)
    /\ Becomes([heap EXCEPT ![m].rows[i][j] = v])
FillMatrix(m, v) ==
    /\ Admits(heap, m, v)
    /\ Becomes([heap EXCEPT ![m].rows = [i \in DOMAIN @ |-> [j \in DOMAIN @[i] |-> v]]])
CopyMatrix(m) ==
    /\ CanFromRows(heap[m].rows)
    /\ New([FromRows(heap[m].rows) EXCEPT !.columns = heap[m].columns])

Line(items) ==                                 \* row and col: an array of its own
    /\ Len(items) <= MaxSize /\ \A v \in ToSet(items) : Storable(heap, v)
    /\ New(List(items))
Row(m, i) == Line(heap[m].rows[i])
Column(m, j) == Line([i \in DOMAIN heap[m].rows |-> heap[m].rows[i][j]])

Transposed(x) ==
    LET rows == [j \in 1 .. x.columns |-> [i \in DOMAIN x.rows |-> x.rows[i][j]]]
    IN  [FromRows(rows) EXCEPT !.columns = Len(x.rows)]
Transpose(m) ==
    /\ CanFromRows(Transposed(heap[m]).rows)
    /\ New(Transposed(heap[m]))

Rebuilt(x, r, c) ==
    LET flat == FlattenSeq(x.rows)
    IN  Matrix([i \in 1 .. r |-> SubSeq(flat, (i - 1) * c + 1, i * c)], c)
Reshape(m, r, c) ==                            \* the same object: aliases see the new shape
    /\ r * c = Len(FlattenSeq(heap[m].rows))
    /\ CanFromRows(Rebuilt(heap[m], r, c).rows)
    /\ Becomes([heap EXCEPT ![m] = Rebuilt(@, r, c)])

\* add, sub and mult with a scalar or by elements; mult of two matrices.
Arithmetic(v, w, op(_, _)) == IF v = Na \/ w = Na THEN Na ELSE Num(op(v[2], w[2]))
Plus(x, y) == x + y
Minus(x, y) == x - y
TimesOf(x, y) == x * y
Numeric(x) == \A v \in ToSet(FlattenSeq(x.rows)) : ~IsRef(v)
Elementwise(x, w, op(_, _)) ==
    [x EXCEPT !.rows = [i \in DOMAIN @ |-> [j \in DOMAIN @[i] |-> Arithmetic(@[i][j], w[i][j], op)]]]
SameShape(x, y) == Len(x.rows) = Len(y.rows) /\ x.columns = y.columns
Product(x, y) ==
    LET cell(i, j) == FoldLeft(LAMBDA total, k : Arithmetic(total, Arithmetic(x.rows[i][k], y.rows[k][j], TimesOf), Plus),
                               Num(0), [k \in 1 .. x.columns |-> k])
        rows == [i \in DOMAIN x.rows |-> [j \in 1 .. y.columns |-> cell(i, j)]]
    IN  [FromRows(rows) EXCEPT !.columns = y.columns]

Combine(m, other, op(_, _)) ==
    /\ SameShape(heap[m], heap[other]) /\ Numeric(heap[m]) /\ Numeric(heap[other])
    /\ New(Elementwise(heap[m], heap[other].rows, op))
Scale(m, v, op(_, _)) ==
    /\ Numeric(heap[m]) /\ ~IsRef(v)
    /\ New(Elementwise(heap[m], [i \in DOMAIN heap[m].rows |-> [j \in DOMAIN heap[m].rows[i] |-> v]], op))
Multiply(m, other) ==
    /\ heap[m].columns = Len(heap[other].rows)
    /\ Len(heap[m].rows) * heap[other].columns <= MaxCells
    /\ Numeric(heap[m]) /\ Numeric(heap[other])
    /\ New(Product(heap[m], heap[other]))

-----------------------------------------------------------------------------
Snapshot(i) ==
    /\ CanSnapshot(heap, i)
    /\ Becomes(Snapshotted(heap, i))
Deepcopy(i) == Becomes(Deepcopied(heap, i))

ArrayCall(a) ==
    \/ \E v \in AnyValue : Push(a, v)
    \/ \E v \in AnyValue : Unshift(a, v)
    \/ \E v \in AnyValue, at \in 1 .. Size(heap, a) - 1 : Insert(a, at, v)
    \/ \E index \in Indices(Size(heap, a)) : RemoveItem(a, index)
    \/ Pop(a)
    \/ Shift(a)
    \/ Clear(a)
    \/ \E index \in Indices(Size(heap, a)), v \in AnyValue : Set(a, index, v)
    \/ \E v \in AnyValue, from \in 0 .. 1, to \in 1 .. 2 : FillArray(a, v, from, to)
    \/ ReverseArray(a)
    \/ \E descending \in BOOLEAN : SortArray(a, descending)
    \/ \E descending \in BOOLEAN : NewSortIndices(a, descending)
    \/ CopyArray(a)
    \/ \E from \in 0 .. 1, to \in -1 .. MaxSize : SliceArray(a, from, to)

MapCall(m) ==
    \/ \E k \in Keys, v \in AnyValue : Put(m, k, v)
    \/ \E other \in MapsIn(heap) : PutAll(m, other)
    \/ \E k \in Keys : RemoveKey(m, k)
    \/ ClearMap(m)
    \/ CopyMap(m)
    \/ MapKeys(m)
    \/ MapValues(m)

MatrixCall(m) ==
    \/ \E i \in DOMAIN heap[m].rows, j \in 1 .. heap[m].columns, v \in AnyValue : SetCell(m, i, j, v)
    \/ \E v \in AnyValue : FillMatrix(m, v)
    \/ CopyMatrix(m)
    \/ \E i \in DOMAIN heap[m].rows : Row(m, i)
    \/ \E j \in 1 .. heap[m].columns : Column(m, j)
    \/ Transpose(m)
    \/ \E r \in 0 .. MaxCells, c \in 0 .. MaxCells : Reshape(m, r, c)
    \/ \E other \in MatricesIn(heap) : Combine(m, other, Minus)
    \/ \E v \in Plain : Scale(m, v, Plus)
    \/ \E other \in MatricesIn(heap) : Multiply(m, other)

Construct ==
    \/ \E n \in 0 .. 2, v \in AnyValue : NewArray(n, v)
    \/ NewMap
    \/ \E r \in 0 .. 2, c \in 0 .. 2, v \in AnyValue : NewMatrix(r, c, v)

Next ==
    /\ calls < MaxCalls
    /\ \/ \E a \in ArraysIn(heap) : ArrayCall(a)
       \/ \E m \in MapsIn(heap) : MapCall(m)
       \/ \E m \in MatricesIn(heap) : MatrixCall(m)
       \/ \E i \in DOMAIN heap : Snapshot(i)
       \/ \E i \in DOMAIN heap : Deepcopy(i)
       \/ Construct

Spec == Init /\ [][Next]_vars

-----------------------------------------------------------------------------
(* Properties.                                                             *)

\* What a call on array a makes of it and of the arrays it is a part of: the view
\* reads like a list the call was made on, and around it nothing moved.
ActsOn(a, items) ==
    \A o \in {a} \cup Owners(heap, a) :
        LET old == Contents(heap, o)
            first == Least(Offset(heap, a) - Offset(heap, o), Len(old))
        IN  Contents(heap, o)' =
               SubSeq(old, 1, first) \o items \o SubSeq(old, first + Size(heap, a) + 1, Len(old))

Edited(a) == Len(heap') = Len(heap) /\ heap'[Root(heap, a)] # heap[Root(heap, a)]

\* A window is another name for a part of an array (array.slice): pushing,
\* inserting, removing, clearing or sorting through it, also through a window
\* of a window and after its owner has shrunk, acts on it as on a plain list
\* and leaves the rest of its owners alone.
ViewsActAsLists ==
    [][\A a \in {b \in ArraysIn(heap) : Edited(b)} :
          LET items == Contents(heap, a)
          IN  /\ \A at \in 0 .. Len(items), v \in AnyValue :
                    Insert(a, at, v) => ActsOn(a, InsertAt(items, at + 1, v))
              /\ \A index \in Indices(Len(items)) :
                    RemoveItem(a, index) => ActsOn(a, RemoveAt(items, Resolved(index, Len(items)) + 1))
              /\ Clear(a) => ActsOn(a, <<>>)
              /\ \A descending \in BOOLEAN :
                    SortArray(a, descending) => ActsOn(a, Sorted(items, descending))]_vars

\* Whatever is stored, no object reaches itself, not even through the hidden
\* link of a window to its owner; sizes keep to the limits, the keys of a map
\* are distinct, and every row of a matrix has its number of columns.
CollectionsStaySound ==
    \A i \in DOMAIN heap :
        /\ i \notin UNION {Closure(heap, j, Links) : j \in Links(heap, i)}
        /\ CASE i \in ArraysIn(heap) -> Size(heap, i) <= MaxSize
             [] heap[i].kind = "map" -> /\ Len(heap[i].keys) <= MaxSize
                                        /\ IsInjective(heap[i].keys)
             [] OTHER -> /\ \A r \in DOMAIN heap[i].rows : Len(heap[i].rows[r]) = heap[i].columns
                         /\ Len(heap[i].rows) * heap[i].columns <= MaxCells

\* Copies correspond to their originals in pairs: same kind, same shape, same
\* scalars, and links between the copies where the originals have links.
Corresponds(h, pairs) ==
    \A p \in pairs, q \in pairs :
        /\ (p[1] = q[1]) <=> (p[2] = q[2])
        /\ LET old == Contents(h, p[1])
               new == Contents(h, p[2])
           IN  (p[1] \in ArraysIn(h)) =>
                  /\ Len(old) = Len(new)
                  /\ \A k \in DOMAIN old :
                        IF IsRef(old[k]) THEN IsRef(new[k]) /\ <<old[k][2], new[k][2]>> \in pairs
                        ELSE new[k] = old[k]

\* A snapshot (and a deep copy) has the shape and the sharing of its original,
\* and nothing in it leads back, also not through a window, so that no later
\* edit of the original shows in it.
CopiesAreDetached ==
    [][\A i \in DOMAIN heap :
          /\ Snapshot(i) =>
                LET copied == Closure(heap, i, Children)
                    name == NewNames(heap, copied)
                IN  /\ Corresponds(heap', {<<j, name[j]>> : j \in copied})
                    /\ Closure(heap', name[i], Links) \cap DOMAIN heap = {}
          /\ Deepcopy(i) =>
                LET copied == Closure(heap, i, Links)
                    name == NewNames(heap, copied)
                IN  /\ Corresponds(heap', {<<j, name[j]>> : j \in copied})
                    /\ Closure(heap', name[i], Links) \cap DOMAIN heap = {}]_vars

\* The shape of a matrix survives every operation, empty ones too: transposing
\* twice gives the matrix back, the transpose of a product is the product of the
\* transposes in the other order, and a reshape keeps the order of the elements.
MatrixLaws ==
    \A m \in MatricesIn(heap) :
        LET x == heap[m]
        IN  /\ Transposed(Transposed(x)) = x
            /\ \A other \in MatricesIn(heap) :
                  LET y == heap[other]
                  IN  (x.columns = Len(y.rows) /\ Numeric(x) /\ Numeric(y)) =>
                         Transposed(Product(x, y)) = Product(Transposed(y), Transposed(x))
            /\ \A r \in 1 .. MaxCells, c \in 1 .. MaxCells :
                  r * c = Len(FlattenSeq(x.rows)) =>
                      FlattenSeq(Rebuilt(x, r, c).rows) = FlattenSeq(x.rows)

=============================================================================
