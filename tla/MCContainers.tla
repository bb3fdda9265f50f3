---------------------------- MODULE MCContainers ----------------------------
(* What a run keeps for its script, for TLC: collections, drawings, plotted   *)
(* points, requested data, the cells of its state and their graph in a        *)
(* checkpoint.  They share no state, so that a behaviour is about one of them *)
(* and the others are left empty.                                            *)
EXTENDS Integers, Sequences

VARIABLES
    part,                                               \* what the behaviour is about
    heap, edits,                                        \* Collections
    ctx, page, seen, limit, bar, drawn,                 \* Drawings
    out, rows, script, retained, since, failed,         \* PlotOutputs
    chart, history, contexts, aliases, answer, requests, \* Requests
    cells, kept, phase, intrabar, payload, saved, bars, calls, previews, ends, fed, owned, \* StateCells
    graph, budget, table, loaded                        \* StateGraph

-----------------------------------------------------------------------------
C == INSTANCE CollectionHeap WITH MaxSize <- 3, MaxCells <- 2, MaxDepth <- 2

Numbers(s) == [k \in DOMAIN s |-> C!Num(s[k])]
\* Arrays with windows of windows, arrays in arrays, maps of arrays, and
\* matrices with and without elements.
Heaps ==
    {<<C!List(Numbers(<<2, 1, 3>>)), C!Window(1, 0, 2), C!Window(2, 1, 2)>>,
     <<C!List(Numbers(<<1>>)), C!List(<<C!Num(2), C!Ref(1)>>), C!Window(2, 0, 2), C!List(<<>>)>>,
     <<C!List(<<C!Na>>), C!Map(<<1, 2>>, <<C!Num(1), C!Ref(1)>>), C!Map(<<2, 3>>, <<C!Num(2), C!Na>>)>>,
     <<C!Matrix(<<Numbers(<<1, 2>>)>>, 2), C!Matrix(<<Numbers(<<1>>), <<C!Na>>>>, 1)>>,
     <<C!Matrix(<<>>, 2), C!Matrix(<<<<>>, <<>>>>, 0)>>}

Col == INSTANCE Collections
         WITH MaxSize <- 3, MaxCells <- 2, MaxDepth <- 2, StartHeaps <- Heaps,
              Plain <- {C!Na, C!Num(1)}, Keys <- {1, 2}, MaxObjects <- 6, MaxCalls <- 2,
              calls <- edits

\* Two lines or two tables to start with, or one of each other kind; one setter
\* of each kind; events without a limit and with one that is met.
Draw == INSTANCE Drawings
          WITH MaxObjects <- 4, MaxTableCells <- 2, TableSize <- <<2, 1>>, EventLimits <- {-1, 5},
               RetainedBars <- 1, Corners <- {<<0, 0>>, <<1, 0>>}, MaxCalls <- 3, MaxBars <- 1,
               Preludes <- {<<"line", "line">>, <<"table", "table">>, <<"box", "label", "polyline">>},
               UsedSetters <- {<<"line", {"x1", "y1"}>>, <<"label", {"xloc"}>>, <<"box", {"bgcolor"}>>,
                               <<"table", {"position"}>>, <<"linefill", {"color"}>>},
               calls <- drawn

\* Three lines whose names meet in one slug; bars with missing values, both
\* signs, equal heights and none.
Missing == -100
Everything == -200
Line(a, b, c, flag, complete) == [values |-> <<a, b, c>>, flag |-> flag, complete |-> complete]
Plotted == INSTANCE PlotOutputs
             WITH Na <- Missing, All <- Everything, MaxPoints <- 7, MaxSeries <- 4,
                  Rows <- {Line(Missing, Missing, 1, TRUE, TRUE), Line(3, 1, Missing, FALSE, TRUE),
                           Line(-2, Missing, Missing, TRUE, FALSE), Line(0, 1, 1, FALSE, FALSE),
                           Line(1, Missing, 1, TRUE, TRUE), Line(Missing, Missing, Missing, FALSE, FALSE)},
                  Scripts <- {[names |-> <<"a", "A", "a_2">>, showLast |-> n] : n \in {Everything, 0, 1}}
                             \cup {[names |-> <<"a_2", "a", "A">>, showLast |-> Everything]},
                  Stem <- [n \in {"a", "A", "a_2"} |-> IF n = "a_2" THEN <<"a", 2>> ELSE <<"a">>],
                  Retentions <- {Everything, 2}, Offsets <- {-1, 0, 1},
                  Heights <- {<<5, 30>>, <<4, 1>>, <<3, 3>>}, MaxBars <- 4

\* Charts with and without closes of the bars, with a gap, of one bar only, and of
\* a step that is long enough to be compared with lower timeframes; histories with
\* gaps, a repeated time, one row, and none.
Unknown == -1
ChartOf(times, step, closes) ==
    [times |-> times, step |-> step,
     closes |-> [i \in DOMAIN times |-> IF closes = <<>> THEN Unknown ELSE closes[i]]]
RowsOf(times) ==
    [i \in DOMAIN times |-> [time |-> times[i], close |-> IF times[i] = 41 THEN Missing ELSE 100 * i + times[i]]]
Durations ==
    [t \in {"one", "two", "three", "odd"} |->
        CASE t = "one" -> 1 [] t = "two" -> 2 [] t = "three" -> 3 [] OTHER -> Unknown]
Ask == INSTANCE Requests
         WITH Na <- Missing, UnknownStep <- Unknown, Minute <- 2,
              Charts <- {ChartOf(<<40, 41, 42>>, 1, <<>>), ChartOf(<<40, 41, 43>>, 1, <<41, Unknown, 45>>),
                         ChartOf(<<40>>, 1, <<>>), ChartOf(<<40, 42, 43, 44>>, 1, <<>>),
                         ChartOf(<<40, 42, 44>>, 2, <<>>)},
              Histories <- {RowsOf(<<4, 20, 36, 38, 40, 42, 44>>), RowsOf(<<30, 33, 36, 39, 42, 45>>),
                            RowsOf(<<10, 38, 40, 40, 41, 42, 43>>), RowsOf(<<42>>), <<>>},
              Timeframes <- DOMAIN Durations, StepOf <- Durations, Offsets <- {0, 1, 12},
              Symbols <- {"good", "bad"}, Invalid <- "bad", Factor <- 4, MaxWidenings <- 6,
              MaxRequests <- 2, cache <- contexts, last <- answer

None == <<>>

\* Arrays, a slice, a map that holds the slice, and arrays of arrays that are
\* one level too deep; a budget that some of them meet.
States ==
    <<C!List(Numbers(<<1>>)), C!List(Numbers(<<1, 2>>)), C!Window(2, 0, 1), C!Map(<<1>>, <<C!Ref(3)>>),
      C!List(<<C!Ref(1)>>), C!List(<<C!Ref(5)>>)>>
Kept == INSTANCE StateCells
          WITH MaxSize <- 3, MaxCells <- 2, MaxDepth <- 2, Store <- States,
               StateValues <- {C!Ref(2), C!Ref(3), C!Ref(6)}, IntrabarValues <- {C!Num(1), C!Ref(2)},
               StateNames <- {1, 2}, IntrabarNames <- {1}, RingSizes <- {2, 3}, RingName <- 1,
               MaxHistory <- 1, MaxKeys <- 2, MaxRing <- 2, MaxRingItems <- 3,
               PayloadLimits <- {Everything, 8}, Unlimited <- Everything, NoBar <- None, Nothing <- None,
               MaxBars <- 2, MaxCalls <- 2, MaxPreviews <- 1, ctx <- cells, limit <- payload

\* Lists, tuples and dicts that share items and that lead back to themselves;
\* stores whose entries are complete and not; sets and foreign objects.
One == <<"scalar", 1>>
To(i) == <<"link", i>>
Items == {One} \cup {To(i) : i \in 1 .. 3}
Node(kind, items) == [kind |-> kind, items |-> items]
Nodes(kinds, sizes) == {Node(k, items) : k \in kinds, items \in UNION {[1 .. n -> Items] : n \in sizes}}
Pickled ==
    INSTANCE StateGraph
      WITH Graphs <- {<<a, b, c>> : a \in Nodes({"list", "tuple"}, {2}), b \in Nodes({"list", "tuple"}, {1, 2}),
                                    c \in Nodes({"dict", "tuple"}, {1})}
                     \cup {<<Node("list", <<v, w>>), Node(k, <<One, x>>), Node(l, y)>> :
                              v \in Items, w \in Items, k \in {"store", "dict"}, x \in Items,
                              l \in {"dict", "set", "foreign"},
                              y \in {<<One, To(2)>>, <<<<"scalar", 2>>, One>>, <<>>}},
           Budgets <- {<<5, 5>>, <<2, 5>>, <<5, 2>>}, NoTable <- None

-----------------------------------------------------------------------------
collections == <<heap, edits>>
drawings == <<ctx, page, seen, limit, bar, drawn>>
plots == <<out, rows, script, retained, since, failed>>
asked == <<chart, history, contexts, aliases, answer, requests>>
state == <<cells, kept, phase, intrabar, payload, saved, bars, calls, previews, ends, fed, owned>>
codec == <<graph, budget, table, loaded>>

MCInit ==
    /\ part \in {"collections", "drawings", "plots", "requests", "state", "codec"}
    /\ IF part = "collections" THEN Col!Init ELSE heap = None /\ edits = None
    /\ IF part = "drawings" THEN Draw!Init
       ELSE ctx = None /\ page = None /\ seen = None /\ limit = None /\ bar = None /\ drawn = None
    /\ IF part = "plots" THEN Plotted!Init
       ELSE out = None /\ rows = None /\ script = None /\ retained = None /\ since = None /\ failed = None
    /\ IF part = "requests" THEN Ask!Init
       ELSE /\ chart = None /\ history = None /\ contexts = None /\ aliases = None
            /\ answer = [kind |-> "none"] /\ requests = None
    /\ IF part = "state" THEN Kept!Init
       ELSE /\ cells = None /\ kept = None /\ phase = None /\ intrabar = None /\ payload = None
            /\ saved = None /\ bars = None /\ calls = None /\ previews = None
            /\ ends = None /\ fed = None /\ owned = None
    /\ IF part = "codec" THEN Pickled!Init
       ELSE graph = None /\ budget = None /\ table = None /\ loaded = None

MCNext ==
    \/ part = "collections" /\ Col!Next /\ UNCHANGED <<part, drawings, plots, asked, state, codec>>
    \/ part = "drawings" /\ Draw!Next /\ UNCHANGED <<part, collections, plots, asked, state, codec>>
    \/ part = "plots" /\ Plotted!Next /\ UNCHANGED <<part, collections, drawings, asked, state, codec>>
    \/ part = "requests" /\ Ask!Next /\ UNCHANGED <<part, collections, drawings, plots, state, codec>>
    \/ part = "state" /\ Kept!Next /\ UNCHANGED <<part, collections, drawings, plots, asked, codec>>
    \/ part = "codec" /\ Pickled!Next /\ UNCHANGED <<part, collections, drawings, plots, asked, state>>

MCSpec == MCInit /\ [][MCNext]_<<part, collections, drawings, plots, asked, state, codec>>

-----------------------------------------------------------------------------
(* The properties of the six, by what they are about.                      *)

About(p, holds) == part = p => holds

\* A window reads and edits like a list, and its owner is otherwise left alone.
ViewsActAsLists == Col!ViewsActAsLists

\* Nothing in a copy of a collection leads back to the original.
CopiesAreDetached == Col!CopiesAreDetached

\* What is kept is well formed and is what the limits count: collections
\* without cycles, matrices that keep their shape, fills between lines that
\* live, cells, events and points as many as were counted, state with the
\* history it had, and in a checkpoint the objects that were saved.
StoresStaySound ==
    /\ About("collections", Col!CollectionsStaySound /\ Col!MatrixLaws)
    /\ About("drawings", Draw!DrawingsSound)
    /\ About("plots", Plotted!OutputsAccounted)
    /\ About("state", Kept!CountersCoverState /\ Kept!HistoryIsWhatWas /\ Kept!RingHoldsTheLast)
    /\ About("codec", Pickled!LoadedIsSaved /\ Pickled!WrittenIsReadable)

\* The incremental engine shows what the batch engine shows: the same objects,
\* told by events too, the same points, and arrows and marks on their bars.
EnginesShowTheSame ==
    /\ About("drawings", Draw!EnginesDrawAlike /\ Draw!EventsTellTheStory)
    /\ About("plots", Plotted!PlotsAgree /\ Plotted!ArrowsInProportion)

\* Requested values have enough history before the chart, are never those of a
\* bar that has not ended, are at the last bar those of a whole run (groups as far
\* as the end of that bar is known), and stay the same when they are asked again.
RequestsAreSteady ==
    /\ [](About("requests", Ask!EnoughHistory /\ Ask!AskingAgainHits))
    /\ [](About("requests", Ask!NeverAhead /\ Ask!CurrentBarAgrees /\ Ask!GroupsPartition))
    /\ Ask!AnswersAreStable

\* What the documentation says of lookahead: the latest requested bar at or before
\* the chart bar, and with it the next one at or after the chart bar.
DocumentedLookahead == About("requests", Ask!DocumentedLookahead)
=============================================================================
