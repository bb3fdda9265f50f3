------------------------------- MODULE MCHosts -------------------------------
(* What stands between a host and the engines, for TLC: the session manager,  *)
(* with two threads whose factories may nest and with three that wait for     *)
(* each other; the hosts of Hosts; the alarms of inline execution; the        *)
(* external broker; the values a trace shows; the portable checkpoints.  They *)
(* share no state, so that a behaviour is about one of them and the others    *)
(* are left as they begin.                                                    *)
EXTENDS SessionManager, Hosts

CONSTANTS k1, k2, t1, t2, t3

TwoKeys == {k1, k2}
TwoThreads == {t1, t2}

\* The factory of k1 acquires k2, and (a mistake of its author) k1 itself.
NestedFactories == {<<k1, k2>>, <<k1, k1>>}

VARIABLES
    table, creators, counts, legacy, hour, coined, stacks, held, closed, \* a second manager
    now, timer, levels, caller, raised, killed, expected, \* Alarms
    mode, script, passes, bar, pass, at, declared, pyramiding, intents, run, \* ExternalBroker
    value,                                               \* a value the trace shows
    checkpoint, limits, release, file, written, loader, loaded \* Checkpoint

-----------------------------------------------------------------------------
\* Three threads, one session at a time, factories that acquire nothing.
Waiters ==
    INSTANCE SessionManager
      WITH Threads <- {t1, t2, t3}, IdleTtl <- 0, Nests <- {}, MaxTime <- 0, MaxTokens <- 2,
           MaxLegacy <- 0,
           sessions <- table, pending <- creators, leaseCounts <- counts, legacyReleases <- legacy,
           clock <- hour, minted <- coined, calls <- stacks, leases <- held, forced <- closed

\* Two subscribers; a bar is previewed twice, one left behind with a preview, one
\* only closed, one left open.
MCPrices == {"a", "b", "c"}
MCFeed ==
    <<<<"preview", 3, "a">>, <<"preview", 3, "b">>, <<"closed", 3, "b">>, <<"preview", 4, "a">>,
      <<"closed", 5, "a">>, <<"preview", 6, "a">>, <<"preview", 6, "c">>>>
MCHistory == <<[time |-> 1, value |-> "a"], [time |-> 2, value |-> "b"]>>

\* Scripts whose titles meet each other and the names of untitled inputs, with
\* bounds, options, choices of equal tokens, and sources; the host gives numbers,
\* texts, tokens and series, by keys of any of them.
Of(kind, text) == [kind |-> kind, text |-> text]
One == Of("int", <<"int", 2>>)
Half == Of("float", <<"float", 1>>)
Word(w) == Of("text", <<"word", w>>)
MCMembers == <<Of("member", <<"word", "fast">>), Of("member", <<"int", 2>>), Of("member", <<"word", "slow">>)>>
Input(call, title, defval) ==
    [call |-> call, title |-> title, defval |-> defval, type |-> None, low |-> None, high |-> None,
     options |-> None]
MCPrograms ==
    {<<Input("int", <<"Len">>, One), Input("input", <<"Len">>, One), Input("bool", <<"Len", 2>>, One),
       Input("int", <<>>, One), [Input("input", <<"int", 4>>, One) EXCEPT !.type = "integer"],
       Input("int", <<>>, One)>>,
     <<[Input("int", <<"Len">>, One) EXCEPT !.high = One],
       [Input("float", <<"Len">>, Half) EXCEPT !.low = Half, !.high = One], Input("price", <<>>, One),
       Input("time", <<>>, Half), Input("bool", <<>>, Of("bool", <<"word", "true">>))>>,
     <<[Input("string", <<"Len">>, Word("fast")) EXCEPT !.options = <<Word("fast"), Word("slow")>>],
       Input("enum", <<"Len">>, MCMembers[1]),
       [Input("enum", <<>>, Word("close")) EXCEPT
          !.options = <<Word("close"), Of("member", <<"word", "close">>)>>],
       Input("source", <<"Source">>, None), Input("source", <<"Source">>, Of("series", <<"word", "hl2">>)),
       Input("input", <<>>, Of("series", <<"word", "own">>)), Input("input", <<>>, Word("fast")),
       [Input("input", <<>>, One) EXCEPT !.type = "enum"]>>}
MCOverrides ==
    {[k \in keys |-> v] :
        keys \in {{<<"Len">>}, {<<"Len">>, <<"Len", 2>>, <<"Source">>}},
        v \in {One, Half, Word("true"), Word("fast"), Word("slow"), Word("close"),
               Of("text", <<"int", 2>>), Of("text", <<"float", 2>>), Of("text", <<"float", NaN>>),
               Of("int", <<"int", 0>>), Of("series", <<"word", "high">>)}}

\* Every kind of caller, its alarm set once, repeated, or not at all; blocks in
\* blocks when it is not.
Alarm ==
    INSTANCE Alarms
      WITH Delays <- {1, 2}, Periods <- {0, 2}, Budgets <- {1, 3},
           Callers <- {"returns", "raises", "ignored", "default"},
           Off <- NoThread, MaxDepth <- 3, MaxNow <- 6

\* Scripts that declare in init or at the first call, twice, differently, late
\* or never; conditions that hold on some bars; groups of one and two passes,
\* and two that are refused.
Declare(n) == [op |-> "configure", value |-> n]
Order(id, bars) == [op |-> "order", id |-> id, when |-> bars]
Failure == [op |-> "fail"]
Functions(init, on_bar, on_fill) == [init |-> init, on_bar |-> on_bar, on_fill |-> on_fill]
ExternalScripts ==
    {Functions(init, on_bar, on_fill) :
        init \in {<<>>, <<Declare(1), Order("first", {0})>>},
        on_bar \in {<<Declare(1), Order("in", {2}), Order("out", {1, 2})>>,
                    <<Order("in", {1}), Order("out", {1, 2}), Order("in", {2})>>,
                    <<Declare(2), Order("in", {2}), Declare(1)>>, <<Order("in", {2}), Failure>>, <<>>},
        on_fill \in {<<Order("fill", {1, 2})>>, <<Declare(1), Order("fill", {2}), Order("in", {1, 2})>>}}
Pass(confirmed, time) == [confirmed |-> confirmed, time |-> time]
External ==
    INSTANCE ExternalBroker
      WITH Bars <- 2, Scripts <- ExternalScripts, NoPass <- NoThread,
           Groups <- {<<Pass(TRUE, 1)>>, <<Pass(FALSE, 1), Pass(FALSE, 1)>>,
                      <<Pass(FALSE, 1), Pass(FALSE, 2), Pass(TRUE, 2)>>,
                      <<Pass(TRUE, 1), Pass(FALSE, 2)>>, <<Pass(FALSE, 2), Pass(TRUE, 1)>>},
           Batch <- "batch", ByBar <- "bars", ByPass <- "passes", outcome <- run

\* Values one level deeper than is shown, longer than is shown, with and without
\* a secret.
Show == INSTANCE TraceValues WITH MaxDepth <- 2, MaxItems <- 1
Deeper(parts, sizes) ==
    UNION {{Show!Items(s) : s \in [1 .. n -> parts]} : n \in sizes}
    \cup UNION {{Show!Mapping(keys, s) : s \in [1 .. Len(keys) -> parts]} :
                   keys \in {<<"open">>, <<"secret">>, <<"open", "secret">>}}
Shallow == {Show!Plain} \cup Deeper({Show!Plain}, {0, 1, 2})
ShownValues == Deeper({Show!Plain} \cup Deeper(Shallow, {1}), {1})

\* Every kind of parameter, under limits that admit it or not, by one; loaded by
\* who computes the same, with a budget too small or larger, something else, or
\* has no settings of its own.
A == [kind |-> "scalar", value |-> "a"]
Tree(kind, items) == [kind |-> kind, items |-> items]
Budgeted(security, budget) ==
    [securityMode |-> Tree("list", <<security>>), syminfo |-> A,
     budgets |-> Tree("list", <<[kind |-> "scalar", value |-> budget]>>),
     allowedImports |-> Tree("tuple", <<A>>), executorMode |-> A]
MCCheckpoints ==
    {[params |-> Tree("mapping", [len |-> v]), retention |-> None, script |-> "s",
      seed |-> IF v = A THEN 2 ELSE 1,
      bars |-> <<Tree("mapping", [close |-> A]), Tree("mapping", [close |-> A])>>,
      settings |-> Budgeted(A, 2), provider |-> FALSE] :
        v \in {A, [kind |-> "numpy", value |-> "b"], [kind |-> "infinite"], [kind |-> "other"],
               Tree("tuple", <<A, Tree("list", <<>>)>>), Tree("frozenset", {A, Tree("tuple", <<A>>)}),
               Tree("mapping", [k \in {"$type"} |-> A]), Tree("list", <<Tree("tuple", <<A>>)>>)}}
    \cup {[script |-> "s", settings |-> Budgeted(A, 2), provider |-> TRUE, graph |-> [bars |-> 2]]}
Files ==
    INSTANCE Checkpoint
      WITH Checkpoints <- MCCheckpoints, Releases <- {41, 42}, Refused <- NotIdle,
           Limits <- {[bytes |-> 40, depth |-> 5, nodes |-> 40], [bytes |-> 18, depth |-> 5, nodes |-> 40],
                      [bytes |-> 40, depth |-> 2, nodes |-> 40], [bytes |-> 40, depth |-> 5, nodes |-> 15]},
           Loaders <- {[script |-> "s", settings |-> s, provider |-> p] :
                          s \in {None, Budgeted(A, 1), Budgeted(A, 3), Budgeted(Tree("list", <<>>), 2)},
                          p \in BOOLEAN} \cup {[script |-> "r", settings |-> None, provider |-> TRUE]}

-----------------------------------------------------------------------------
manager == <<sessions, pending, leaseCounts, legacyReleases, clock, minted, calls, leases, forced>>
second == <<table, creators, counts, legacy, hour, coined, stacks, held, closed>>
alarms == <<now, timer, levels, caller, raised, killed, expected>>
external == <<mode, script, passes, bar, pass, at, declared, pyramiding, intents, run>>
files == <<checkpoint, limits, release, file, written, loader, loaded>>

\* A part that the behaviour is not about starts in one state.
MCInit ==
    /\ part \in {"leases", "waiters", "shared", "executor", "historical", "trace", "inputs",
                 "alarms", "external", "values", "files"}
    /\ Init
    /\ Waiters!Init
    /\ HostsInit
    /\ part # "shared" => reads = [s \in TwoThreads |-> 0]
    /\ part # "executor" => deadline = None
    /\ part # "historical" => retention = None
    /\ part # "trace" => spanEvents
    /\ part # "inputs" => program = CHOOSE p \in MCPrograms : TRUE
    /\ part # "inputs" => params = CHOOSE p \in MCOverrides : TRUE
    /\ IF part = "alarms" THEN Alarm!Init
       ELSE /\ now = None /\ timer = None /\ levels = None /\ caller = None
            /\ raised = None /\ killed = None /\ expected = None
    /\ IF part = "external" THEN External!Init
       ELSE /\ mode = None /\ script = None /\ passes = None /\ bar = None /\ pass = None
            /\ at = None /\ declared = None /\ pyramiding = None /\ intents = None /\ run = None
    /\ IF part = "values" THEN value \in ShownValues ELSE value = None
    /\ IF part = "files" THEN Files!Init
       ELSE /\ checkpoint = None /\ limits = None /\ release = None /\ file = None
            /\ written = None /\ loader = None /\ loaded = None

\* While the caller has an alarm of its own, blocks are not nested here.
NestsBlocks == Len(levels) <= 1 \/ levels[1].prev = NoThread

MCNext ==
    \/ HostsNext /\ UNCHANGED <<manager, second, alarms, external, value, files>>
    \/ /\ part = "leases" /\ Next
       /\ UNCHANGED <<part, second, hosts, alarms, external, value, files>>
    \/ /\ part = "waiters" /\ Waiters!Next
       /\ UNCHANGED <<part, manager, hosts, alarms, external, value, files>>
    \/ /\ part = "alarms" /\ Alarm!Next /\ NestsBlocks'
       /\ UNCHANGED <<part, manager, second, hosts, external, value, files>>
    \/ /\ part = "external" /\ External!Next
       /\ UNCHANGED <<part, manager, second, hosts, alarms, value, files>>
    \/ /\ part = "files" /\ Files!Next
       /\ UNCHANGED <<part, manager, second, hosts, alarms, external, value>>

\* A thread inside acquire keeps running and factories end; the executor, its
\* clock, and the thread that writes an answer somebody reads keep running.
MCFairness ==
    /\ \A t \in {t1, t2, t3} :
          /\ WF_second(part = "waiters" /\ Waiters!AcquireStep(t))
          /\ WF_second(part = "waiters" /\ Waiters!FactoryEnds(t))
    /\ WF_executor(part = "executor" /\ Executor!Tick)
    /\ WF_executor(part = "executor" /\ Executor!ParentStep)
    /\ WF_executor(part = "executor" /\ Executor!EndWriting(TRUE))

MCSpec ==
    /\ MCInit
    /\ [][MCNext]_<<part, hosts, manager, second, alarms, external, value, files>>
    /\ MCFairness

-----------------------------------------------------------------------------
(* The properties of the rest; those of the manager and of the hosts are   *)
(* stated in their modules.                                                *)

About(p, holds) == part = p => holds

\* Deadlines survive each other, the intents a broker gets are the orders of
\* the script, a trace shows no secret, and a checkpoint is loaded as it was
\* kept or not at all (_timeouts.py, external.py, trace.py, checkpoint.py).
DeadlinesIntentsAndFilesHold ==
    /\ About("alarms", Alarm!DeadlinesSurvive)
    /\ About("external", External!IntentsAreTheScripts)
    /\ About("values", Show!ShowsOnlyTheRest(value))
    /\ About("files", Files!CheckpointsReturn)

\* Every thread that waits for a creation looks again, and every call of the
\* executor with a deadline returns, or its worker died in the middle of an
\* answer.
EveryCallReturns ==
    /\ Waiters!WaitersWake
    /\ Executor!CallReturns
=============================================================================
