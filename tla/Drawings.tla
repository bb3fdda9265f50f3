------------------------------ MODULE Drawings ------------------------------
(***************************************************************************)
(* The drawing calls of a script in the two engines: the incremental       *)
(* context (incremental/drawing.py), which records an event for every      *)
(* change, and the collector of a batch run (plot/functions.py,            *)
(* plot/line_functions.py), which keeps the objects only.  A script may    *)
(* catch the exception of a call and go on; what the call had done stays.  *)
(***************************************************************************)
EXTENDS Integers, SequencesExt

CONSTANTS MaxObjects,     \* max_drawing_objects
          MaxTableCells,  \* max_table_cells
          TableSize,      \* <<columns, rows>> of the tables of a script
          EventLimits,    \* values of max_object_events
          RetainedBars,   \* bars whose events are kept
          Preludes,       \* kinds of the objects a script starts with
          UsedSetters,    \* bound of the model: setters of a behaviour
          Corners,        \* corners of the regions it merges
          MaxCalls, MaxBars

VARIABLES ctx,            \* the incremental context
          page,           \* the collector of the batch run
          seen,           \* what a reader of each bar's events has put together
          limit,          \* max_object_events
          bar, calls

vars == <<ctx, page, seen, limit, bar, calls>>

-----------------------------------------------------------------------------
(* The drawing objects of one run, which both engines keep alike: entries  *)
(* by kind and number, the index from a line to the fills that hang on it  *)
(* (plot/linefill_store.py), and the cells and merged regions of tables.   *)
(* One sequence stands for the dictionaries by kind: numbers are never     *)
(* shared between kinds, and each dictionary is this sequence filtered.    *)

NoLimit == -1
AtLimit(n, bound) == bound # NoLimit /\ n >= bound

\* The attributes a script may change are told apart by name; what a new
\* object has is 0.  The numbers of its lines, for a fill; the rest is for tables.
Entry(id, kind, attributes, lines) ==
    [id |-> id, kind |-> kind, look |-> [a \in attributes |-> 0],
     lines |-> lines, cells |-> <<>>, merges |-> <<>>]

EmptyStore ==
    [entries |-> <<>>,       \* the six dictionaries, in the order of creation
     byLine |-> <<>>,        \* LineFillStore._by_line
     cellAt |-> <<>>,        \* _table_cell_indices
     cells |-> 0,            \* cells reserved against max_table_cells
     counter |-> 0,          \* _object_counter
     raised |-> FALSE]       \* the last call ended with an exception

Raised(s) == [s EXCEPT !.raised = TRUE]
Full(s) == AtLimit(Len(s.entries), MaxObjects)

\* Where the object of a reference is, if it is alive and of the kind asked for.
Places(s, id, kind) ==
    {i \in DOMAIN s.entries : s.entries[i].id = id /\ s.entries[i].kind = kind}
Lives(s, id, kind) == Places(s, id, kind) # {}
Place(s, id, kind) == CHOOSE i \in Places(s, id, kind) : TRUE
EntryOf(s, id, kind) == s.entries[Place(s, id, kind)]

Coordinates(point, xloc) == <<IF xloc = 1 THEN point.time ELSE point.index, point.price>>

-----------------------------------------------------------------------------
(* LineFillStore.                                                          *)

Ends(fill) == ToSet(fill.lines)
Dependents(byLine, line) == IF line \in DOMAIN byLine THEN byLine[line] ELSE <<>>

Indexed(byLine, fill) ==
    [l \in DOMAIN byLine \cup Ends(fill) |->
        IF l \in Ends(fill) THEN Append(Dependents(byLine, l), fill.id) ELSE byLine[l]]
\* A bug the fill index could have: only the first line forgets the fill.
MutantHalfUnindexed(byLine, fill) ==
    LET left == [l \in DOMAIN byLine |->
                    IF l = fill.lines[1] THEN SelectSeq(byLine[l], LAMBDA f : f # fill.id) ELSE byLine[l]]
    IN  [l \in {m \in DOMAIN left : left[m] # <<>>} |-> left[l]]
Unindexed(byLine, fill) ==
    LET left == [l \in DOMAIN byLine |->
                    IF l \in Ends(fill) THEN SelectSeq(byLine[l], LAMBDA f : f # fill.id) ELSE byLine[l]]
    IN  [l \in {m \in DOMAIN left : left[m] # <<>>} |-> left[l]]

\* The index is not stored: a copy, and the first use after a restore, make it
\* anew from the fills.
Reindexed(entries) ==
    FoldLeft(Indexed, <<>>, SelectSeq(entries, LAMBDA e : e.kind = "linefill"))

-----------------------------------------------------------------------------
(* Tables.                                                                 *)

InTable(at) == at[1] \in 0 .. TableSize[1] - 1 /\ at[2] \in 0 .. TableSize[2] - 1
RowMajor(a, b) == a[2] < b[2] \/ (a[2] = b[2] /\ a[1] < b[1])

Positions(s, id) == IF id \in DOMAIN s.cellAt THEN s.cellAt[id] ELSE <<>>
WithPositions(s, id, positions) ==
    [s EXCEPT !.cellAt = [t \in DOMAIN @ \cup {id} |-> IF t = id THEN positions ELSE @[t]]]
Upserted(s, id, cell) ==
    LET i == Place(s, id, "table")
        known == Positions(s, id)
        next == Len(s.entries[i].cells) + 1
    IN  IF cell.at \in DOMAIN known
        THEN [s EXCEPT !.entries[i].cells[known[cell.at]] = cell]
        ELSE WithPositions([s EXCEPT !.entries[i].cells = Append(@, cell)], id,
                           [at \in DOMAIN known \cup {cell.at} |->
                               IF at = cell.at THEN next ELSE known[at]])

\* A region by two corners, given in any order.
Region(a, b) ==
    LET low(m, n) == IF m < n THEN m ELSE n
        high(m, n) == IF m < n THEN n ELSE m
    IN  [start |-> <<low(a[1], b[1]), low(a[2], b[2])>>, end |-> <<high(a[1], b[1]), high(a[2], b[2])>>]
Overlap(r, q) ==
    ~(\/ r.end[1] < q.start[1] \/ r.start[1] > q.end[1]
      \/ r.end[2] < q.start[2] \/ r.start[2] > q.end[2])
Merged(merges, region) ==                      \* append, then sort by start
    LET before == SelectSeq(merges, LAMBDA q : ~RowMajor(region.start, q.start))
    IN  before \o <<region>> \o SelectSeq(merges, LAMBDA q : RowMajor(region.start, q.start))

\* What is shown of an object: a table lists its cells row by row.
Shown(entry) ==
    [entry EXCEPT !.cells = SetToSortSeq(ToSet(@), LAMBDA c, d : RowMajor(c.at, d.at))]

-----------------------------------------------------------------------------
\* What holds of the store between two calls: every fill joins two lines that
\* are there, the index lists the fills of each line in order, each table's
\* index gives the place of each of its cells, the cells that count against the
\* limit are the ones there are, and merged regions are ordered and disjoint.
StoreSound(s) ==
    /\ Len(s.entries) <= s.counter
    /\ \A i, j \in DOMAIN s.entries : i < j => s.entries[i].id < s.entries[j].id
    /\ MaxObjects # NoLimit => Len(s.entries) <= MaxObjects
    /\ \A i \in DOMAIN s.entries : \A l \in Ends(s.entries[i]) : Lives(s, l, "line")
    /\ s.byLine = Reindexed(s.entries)
    /\ \A t \in DOMAIN s.cellAt : Lives(s, t, "table")
    /\ \A i \in DOMAIN s.entries :
          LET e == s.entries[i]
              at == Positions(s, e.id)
          IN  /\ \A c \in DOMAIN e.cells : InTable(e.cells[c].at)
              /\ DOMAIN at = {e.cells[c].at : c \in DOMAIN e.cells}
              /\ \A c \in DOMAIN e.cells : at[e.cells[c].at] = c
              /\ \A m, n \in DOMAIN e.merges :
                    m < n => /\ RowMajor(e.merges[m].start, e.merges[n].start)
                             /\ ~Overlap(e.merges[m], e.merges[n])
    /\ s.cells = FoldLeft(LAMBDA n, e : n + Len(e.cells), 0, s.entries)
    /\ MaxTableCells # NoLimit => s.cells <= MaxTableCells

-----------------------------------------------------------------------------
(* The two engines.                                                        *)

Attributes ==
    [line |-> {"x1", "y1", "x2", "y2", "color", "width", "style", "extend", "xloc"},
     label |-> {"x", "y", "text", "color", "textcolor", "style", "size", "xloc", "yloc"},
     box |-> {"left", "top", "right", "bottom", "bgcolor", "border_color", "border_width", "xloc"},
     table |-> {"position", "bgcolor", "frame_color", "border_color"},
     linefill |-> {"color"},
     polyline |-> {"points"}]

NewContext ==
    EmptyStore @@
    [events |-> <<>>,        \* _object_events
     current |-> <<>>,       \* _current_object_events
     used |-> 0,             \* the tracker's object_events
     kinds |-> <<>>,         \* the kind of each number, as its reference says
     missed |-> {}]          \* objects one of whose changes has no event

-----------------------------------------------------------------------------
(* The incremental engine.                                                 *)

Recorded(c, action, part, entry, object) ==
    IF AtLimit(c.used, limit)
    THEN [Raised(c) EXCEPT !.missed = IF action = "delete" THEN @ ELSE @ \cup {entry.id}]
    ELSE LET event == [action |-> action, part |-> part, id |-> entry.id, object |-> object, bar |-> bar]
         IN  [c EXCEPT !.events = Append(@, event), !.current = Append(@, event), !.used = @ + 1]

\* The object is there before its event is asked for.
Created(c, kind, lines) ==
    LET e == Entry(c.counter + 1, kind, Attributes[kind], lines)
        added == [c EXCEPT !.counter = @ + 1, !.kinds = Append(@, kind), !.entries = Append(@, e),
                           !.byLine = IF kind = "linefill" THEN Indexed(@, e) ELSE @]
    IN  IF Full(c) THEN Raised(c)
        ELSE Recorded(IF kind = "table" THEN WithPositions(added, e.id, <<>>) ELSE added,
                      "create", "all", e, e)

LineNew(c) == Created(c, "line", <<>>)
LabelNew(c) == Created(c, "label", <<>>)
BoxNew(c) == Created(c, "box", <<>>)
TableNew(c) == Created(c, "table", <<>>)
PolylineNew(c) == Created(c, "polyline", <<>>)
LinefillNew(c, first, second) ==
    IF Lives(c, first, "line") /\ Lives(c, second, "line")
    THEN Created(c, "linefill", <<first, second>>)
    ELSE Raised(c)

\* A dead reference, or one of another kind, is ignored.  The event of a table
\* carries what changed, any other event the whole object.
Updated(c, id, kind, updates) ==
    IF ~Lives(c, id, kind) THEN c
    ELSE LET i == Place(c, id, kind)
             changed == [c.entries[i] EXCEPT !.look = updates @@ @]
         IN  Recorded([c EXCEPT !.entries[i] = changed], "update",
                      IF kind = "table" THEN "look" ELSE "all", changed,
                      IF kind = "table" THEN [changed EXCEPT !.look = updates] ELSE changed)

\* A bug a deletion could have: the cells of the table stay reserved.
\* The event comes first: a deletion that is refused leaves the object alone.
Deleted(c, id, kind) ==
    IF ~Lives(c, id, kind) \/ c.raised THEN c
    ELSE LET e == EntryOf(c, id, kind)
             r == Recorded(c, "delete", "all", e, Shown(e))
         IN  IF r.raised THEN r
             ELSE [r EXCEPT !.entries = SelectSeq(@, LAMBDA x : x.id # id),
                            !.byLine = IF kind = "linefill" THEN Unindexed(@, e) ELSE @,
                            !.cellAt = [t \in DOMAIN @ \ {id} |-> @[t]],
                            !.cells = IF kind = "table" THEN @ - Len(e.cells) ELSE @]
LineDeleted(c, id) ==
    Deleted(FoldLeft(LAMBDA d, fill : Deleted(d, fill, "linefill"), c,
                     IF c.kinds[id] = "line" THEN Dependents(c.byLine, id) ELSE <<>>),
            id, "line")

TableCell(c, id, cell) ==
    LET e == EntryOf(c, id, "table")
        known == cell.at \in DOMAIN Positions(c, id)
        put == Upserted([c EXCEPT !.cells = IF known THEN @ ELSE @ + 1], id, cell)
    IN  IF ~Lives(c, id, "table") THEN c
        ELSE IF ~InTable(cell.at) \/ (~known /\ AtLimit(c.cells, MaxTableCells)) THEN Raised(c)
        ELSE Recorded(put, "update", "cells", e, [e EXCEPT !.cells = <<cell>>])
TableClear(c, id) ==
    LET i == Place(c, id, "table")
        empty == [c.entries[i] EXCEPT !.cells = <<>>, !.merges = <<>>]
    IN  IF ~Lives(c, id, "table") THEN c
        ELSE Recorded(WithPositions([c EXCEPT !.entries[i] = empty,
                                              !.cells = @ - Len(c.entries[i].cells)], id, <<>>),
                      "update", "cells", empty, empty)
TableMergeCells(c, id, region) ==
    LET i == Place(c, id, "table")
        merged == [c.entries[i] EXCEPT !.merges = Merged(@, region)]
    IN  IF ~Lives(c, id, "table") THEN c
        ELSE IF \/ ~InTable(region.start) \/ ~InTable(region.end)
                \/ \E q \in ToSet(c.entries[i].merges) : Overlap(region, q)
        THEN Raised(c)
        ELSE Recorded([c EXCEPT !.entries[i] = merged], "update", "merges", merged, merged)

\* The setters, by the attributes each of them writes.
LineSetters ==
    {{"x1", "y1"}, {"x2", "y2"}} \cup {{a} : a \in Attributes.line \ {"xloc"}}
LabelSetters == {{"x", "y"}} \cup {{a} : a \in Attributes.label}
BoxSetters ==
    {{"left", "top"}, {"right", "bottom"}} \cup {{a} : a \in Attributes.box \ {"xloc"}}
TableSetters == {{a} : a \in Attributes.table}
Setters ==
    [line |-> LineSetters, label |-> LabelSetters, box |-> BoxSetters, table |-> TableSetters,
     linefill |-> {{"color"}}, polyline |-> {}]

\* The setters that take a point: which coordinates they write.  The point is
\* read by the location the object has then.
PointSetters ==
    [line |-> {<<"x1", "y1">>, <<"x2", "y2">>}, label |-> {<<"x", "y">>},
     box |-> {<<"left", "top">>, <<"right", "bottom">>},
     table |-> {}, linefill |-> {}, polyline |-> {}]
SetPoint(c, id, kind, names, point) ==
    IF ~Lives(c, id, kind) THEN c
    ELSE LET xy == Coordinates(point, EntryOf(c, id, kind).look.xloc)
         IN  Updated(c, id, kind, [a \in ToSet(names) |-> IF a = names[1] THEN xy[1] ELSE xy[2]])

\* The bar is committed: events older than the retained bars are dropped, and
\* the next bar starts with no events of its own.
NextBarOf(c) ==
    LET kept == SelectSeq(c.events, LAMBDA e : e.bar > bar - RetainedBars)
    IN  [c EXCEPT !.events = kept, !.used = Len(kept), !.current = <<>>]

\* What a reader makes of an event.
Read(objects, event) ==
    LET of == {i \in DOMAIN objects : objects[i].id = event.id}
        put(f(_)) == [i \in DOMAIN objects |-> IF i \in of THEN f(objects[i]) ELSE objects[i]]
        cell == event.object.cells[1]
        cellPut(cells) == IF \E k \in DOMAIN cells : cells[k].at = cell.at
                          THEN [k \in DOMAIN cells |-> IF cells[k].at = cell.at THEN cell ELSE cells[k]]
                          ELSE Append(cells, cell)
    IN  CASE event.action = "create" -> Append(objects, event.object)
          [] event.action = "delete" -> SelectSeq(objects, LAMBDA x : x.id # event.id)
          [] event.part = "all" -> put(LAMBDA x : event.object)
          [] event.part = "look" -> put(LAMBDA x : [x EXCEPT !.look = event.object.look @@ @])
          [] event.part = "merges" -> put(LAMBDA x : [x EXCEPT !.merges = event.object.merges])
          [] event.object.cells = <<>> -> put(LAMBDA x : [x EXCEPT !.cells = <<>>, !.merges = <<>>])
          [] OTHER -> put(LAMBDA x : [x EXCEPT !.cells = cellPut(@)])

-----------------------------------------------------------------------------
(* The batch engine.                                                       *)

PageAttributes ==
    [Attributes EXCEPT !.box = @ \cup {"border_style", "extend", "text", "text_color", "text_size",
                                       "text_halign", "text_valign"},
                       !.label = @ \cup {"tooltip"}]

Added(p, kind, lines) ==
    LET e == Entry(p.counter + 1, kind, PageAttributes[kind], lines)
    IN  IF Full(p) THEN Raised(p)
        ELSE [p EXCEPT !.counter = @ + 1, !.entries = Append(@, e),
                       !.byLine = IF kind = "linefill" THEN Indexed(@, e) ELSE @]
PageLineNew(p) == Added(p, "line", <<>>)
PageLabelNew(p) == Added(p, "label", <<>>)
PageBoxNew(p) == Added(p, "box", <<>>)
PageTableNew(p) == Added(p, "table", <<>>)
PagePolylineNew(p) == Added(p, "polyline", <<>>)
PageLinefillNew(p, first, second) ==
    IF Lives(p, first, "line") /\ Lives(p, second, "line")
    THEN Added(p, "linefill", <<first, second>>)
    ELSE Raised(p)

Changed(p, id, kind, updates) ==
    IF Lives(p, id, kind)
    THEN [p EXCEPT !.entries[Place(p, id, kind)].look = updates @@ @]
    ELSE p
PageLineSetters ==
    {{"x1", "y1"}, {"x2", "y2"}} \cup {{a} : a \in PageAttributes.line \ {"xloc"}}
PageLabelSetters == {{"x", "y"}} \cup {{a} : a \in PageAttributes.label}
PageBoxSetters ==
    {{"left", "top"}, {"right", "bottom"}} \cup {{a} : a \in PageAttributes.box \ {"xloc"}}
PageTableSetters == {{a} : a \in PageAttributes.table}
PageSetters ==
    [line |-> PageLineSetters, label |-> PageLabelSetters, box |-> PageBoxSetters,
     table |-> PageTableSetters, linefill |-> {{"color"}}, polyline |-> {}]
PageSetPoint(p, id, kind, names, point) ==
    IF ~Lives(p, id, kind) THEN p
    ELSE LET xy == Coordinates(point, EntryOf(p, id, kind).look.xloc)
         IN  Changed(p, id, kind, [a \in ToSet(names) |-> IF a = names[1] THEN xy[1] ELSE xy[2]])

Removed(p, id, kind) ==
    IF Lives(p, id, kind)
    THEN [p EXCEPT !.entries = SelectSeq(@, LAMBDA x : x.id # id),
                   !.byLine = IF kind = "linefill" THEN Unindexed(@, EntryOf(p, id, kind)) ELSE @]
    ELSE p
\* The line goes first, then the fills that hang on it.
PageLineDelete(p, id) ==
    FoldLeft(LAMBDA q, fill : Removed(q, fill, "linefill"), Removed(p, id, "line"),
             IF ctx.kinds[id] = "line" THEN Dependents(p.byLine, id) ELSE <<>>)
PageTableDelete(p, id) ==
    IF Lives(p, id, "table")
    THEN [Removed(p, id, "table") EXCEPT !.cells = @ - Len(EntryOf(p, id, "table").cells),
                                         !.cellAt = [t \in DOMAIN @ \ {id} |-> @[t]]]
    ELSE p

PageTableCell(p, id, cell) ==
    LET known == cell.at \in DOMAIN Positions(p, id)
    IN  IF ~Lives(p, id, "table") THEN p
        ELSE IF ~InTable(cell.at) \/ (~known /\ AtLimit(p.cells, MaxTableCells)) THEN Raised(p)
        ELSE Upserted([p EXCEPT !.cells = IF known THEN @ ELSE @ + 1], id, cell)
PageTableClear(p, id) ==
    LET i == Place(p, id, "table")
    IN  IF ~Lives(p, id, "table") THEN p
        ELSE [p EXCEPT !.cells = @ - Len(p.entries[i].cells),
                       !.entries[i].cells = <<>>, !.entries[i].merges = <<>>,
                       !.cellAt = [t \in DOMAIN @ \ {id} |-> @[t]]]
PageTableMergeCells(p, id, region) ==
    LET i == Place(p, id, "table")
    IN  IF ~Lives(p, id, "table") THEN p
        ELSE IF \/ ~InTable(region.start) \/ ~InTable(region.end)
                \/ \E q \in ToSet(p.entries[i].merges) : Overlap(region, q)
        THEN Raised(p)
        ELSE [p EXCEPT !.entries[i].merges = Merged(@, region)]
BoxCopy(p, id) ==
    IF ~Lives(p, id, "box") THEN p
    ELSE IF Full(p) THEN Raised(p)
    ELSE [p EXCEPT !.counter = @ + 1,
                   !.entries = Append(@, [EntryOf(p, id, "box") EXCEPT !.id = p.counter + 1])]

-----------------------------------------------------------------------------
(* Behaviours: both engines take the same calls.  With a limit on events   *)
(* the engines may part, and the batch run is left out.                    *)

Point == [time |-> 5, index |-> 6, price |-> 7]
Refs == DOMAIN ctx.kinds
Both == limit = NoLimit

Start(kinds) == FoldLeft(LAMBDA c, kind : Created(c, kind, <<>>), NewContext, kinds)
StartPage(kinds) == FoldLeft(LAMBDA p, kind : Added(p, kind, <<>>), EmptyStore, kinds)

Init ==
    /\ limit \in EventLimits
    /\ bar = 0 /\ calls = 0 /\ seen = <<>>
    /\ \E kinds \in Preludes : ctx = Start(kinds) /\ page = StartPage(kinds)

Call(c, p) ==
    /\ ctx' = c
    /\ page' = IF Both THEN p ELSE page
    /\ calls' = calls + 1
    /\ UNCHANGED <<seen, limit, bar>>

Fresh == [ctx EXCEPT !.raised = FALSE]
FreshPage == [page EXCEPT !.raised = FALSE]

DrawNew ==
    \/ Call(LineNew(Fresh), PageLineNew(FreshPage))
    \/ Call(LabelNew(Fresh), PageLabelNew(FreshPage))
    \/ Call(BoxNew(Fresh), PageBoxNew(FreshPage))
    \/ Call(TableNew(Fresh), PageTableNew(FreshPage))
    \/ Call(PolylineNew(Fresh), PagePolylineNew(FreshPage))
    \/ \E first \in Refs, second \in Refs :
          Call(LinefillNew(Fresh, first, second), PageLinefillNew(FreshPage, first, second))
Write(s) == [a \in s[2] |-> 1]
DrawSet ==
    \/ \E id \in Refs, s \in UsedSetters :
          s[2] \in Setters[s[1]] /\ s[2] \in PageSetters[s[1]]
          /\ Call(Updated(Fresh, id, s[1], Write(s)), Changed(FreshPage, id, s[1], Write(s)))
    \/ \E id \in Refs : \E kind \in {ctx.kinds[id]} : \E names \in PointSetters[kind] :
          Call(SetPoint(Fresh, id, kind, names, Point), PageSetPoint(FreshPage, id, kind, names, Point))
DrawDelete ==
    \/ \E id \in Refs : Call(LineDeleted(Fresh, id), PageLineDelete(FreshPage, id))
    \/ \E id \in Refs : Call(Deleted(Fresh, id, "table"), PageTableDelete(FreshPage, id))
    \/ \E id \in Refs, kind \in {"label", "box", "linefill", "polyline"} :
          ctx.kinds[id] = kind /\ Call(Deleted(Fresh, id, kind), Removed(FreshPage, id, kind))
DrawTable ==
    \E id \in {i \in Refs : ctx.kinds[i] = "table"} :
       \/ \E at \in {<<0, 0>>, <<1, 0>>, <<2, 0>>}, text \in {0, 1} :
             LET cell == [at |-> at, text |-> text]
             IN  Call(TableCell(Fresh, id, cell), PageTableCell(FreshPage, id, cell))
       \/ Call(TableClear(Fresh, id), PageTableClear(FreshPage, id))
       \/ \E a \in Corners, b \in Corners :
             Call(TableMergeCells(Fresh, id, Region(a, b)), PageTableMergeCells(FreshPage, id, Region(a, b)))

\* box.copy() exists in a batch run only.
CopyBox ==
    \E id \in {i \in Refs : ctx.kinds[i] = "box"} :
        /\ calls < MaxCalls /\ Both /\ Lives(page, id, "box") /\ ~Full(page)
        /\ calls' = MaxCalls
        /\ page' = BoxCopy(FreshPage, id)
        /\ UNCHANGED <<ctx, seen, limit, bar>>

\* The context is copied or restored: the index of the fills is made anew.
Copied ==
    /\ ctx' = [ctx EXCEPT !.byLine = Reindexed(ctx.entries)]
    /\ UNCHANGED <<page, seen, limit, bar, calls>>

NextBar ==
    /\ bar < MaxBars
    /\ bar' = bar + 1
    /\ seen' = FoldLeft(Read, seen, ctx.current)
    /\ ctx' = NextBarOf(ctx)
    /\ UNCHANGED <<page, limit, calls>>

Next ==
    \/ calls < MaxCalls /\ (DrawNew \/ DrawSet \/ DrawDelete \/ DrawTable)
    \/ CopyBox
    \/ Copied
    \/ NextBar

Spec == Init /\ [][Next]_vars

-----------------------------------------------------------------------------
(* Properties.                                                             *)

\* The stores of both engines stay sound through creations, deletions and calls
\* that were refused half-way (StoreSound), and the event counter is the number
\* of events retained, at most the limit.
DrawingsSound ==
    /\ StoreSound(ctx) /\ StoreSound(page)
    /\ ctx.used = Len(ctx.events)
    /\ limit # NoLimit => ctx.used <= limit

Known(objects) == SelectSeq(objects, LAMBDA e : e.id \notin ctx.missed)
ShownAll(objects) == [i \in DOMAIN objects |-> Shown(objects[i])]

\* Whoever reads the events of each bar, output["object_events"], holds what
\* output["objects"] shows, table by table and in order, except for objects one
\* of whose changes was refused by the event limit.
EventsTellTheStory ==
    ShownAll(Known(FoldLeft(Read, seen, ctx.current))) = ShownAll(Known(ctx.entries))

Plainly(e) == [e EXCEPT !.look = [a \in Attributes[e.kind] |-> e.look[a]]]

\* The same calls draw the same objects in both engines, and refuse alike.
EnginesDrawAlike ==
    Both /\ page.counter = ctx.counter =>
        /\ ctx.raised = page.raised
        /\ [i \in DOMAIN page.entries |-> Shown(Plainly(page.entries[i]))] = ShownAll(ctx.entries)
=============================================================================
