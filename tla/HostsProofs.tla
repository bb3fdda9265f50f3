---------------------------- MODULE HostsProofs ----------------------------
(***************************************************************************)
(* What stands between a host and a script is right, for every feed, number *)
(* of subscribers, deadline, horizon, trace and program: the invariants of  *)
(* SharedEvents, ProcessExecutor, HistoricalSession, TraceRecorder and      *)
(* Inputs, and their composition in Hosts.                                  *)
(***************************************************************************)
EXTENDS Hosts, FiniteSetTheorems, SequenceTheorems, NaturalsInduction, WellFoundedInduction, TLAPS

-----------------------------------------------------------------------------
(* The process executor.  A worker that computes has sent nothing, a parent *)
(* that looks once more knows that the worker is gone, and one that judges  *)
(* knows this, or that the time is up.                                      *)

ExecutorInv ==
    /\ ticks \in Nat
    /\ deadline # None => deadline \in Nat
    /\ answer # "PYNE_TIMEOUT"
    /\ parent = "new" => worker = "none" /\ outcome = None
    /\ worker \in {"none", "computing"} => pipe # "full" /\ outcome # "result"
    /\ worker = "sending" => pipe # "full"
    /\ parent = "looking" => ~Executor!Alive
    /\ Executor!AnswersAreKept
    /\ Executor!NoWorkerIsLeft

LEMMA ExecutorInit == Executor!Init => ExecutorInv
BY HostConstants
   DEF ExecutorInv, Executor!Init, Executor!ConstantsAssumption, Executor!AnswersAreKept,
       Executor!NoWorkerIsLeft, Executor!Alive

LEMMA ExecutorStep == ExecutorInv /\ (Executor!Next \/ UNCHANGED executor) => ExecutorInv'
<1> SUFFICES ASSUME ExecutorInv, Executor!Next \/ UNCHANGED executor  PROVE ExecutorInv'
  OBVIOUS
<1> USE HostConstants DEF ExecutorInv, Executor!ConstantsAssumption, Executor!AnswersAreKept,
      Executor!NoWorkerIsLeft, Executor!Alive, Executor!Late, Executor!At, Executor!On
<1>1. CASE Executor!Tick
  BY <1>1 DEF Executor!Tick
<1>2. ASSUME NEW code \in {Executor!Unpicklable, Executor!Failed}, Executor!Refuse(code)
      PROVE  ExecutorInv'
  BY <1>2 DEF Executor!Refuse, Executor!Unpicklable, Executor!Failed
<1>3. CASE Executor!Start
  BY <1>3 DEF Executor!Start
<1>4. CASE Executor!ParentStep
  <2>1. CASE Executor!Poll  BY <2>1 DEF Executor!Poll
  <2>2. CASE Executor!Receive  BY <2>2 DEF Executor!Receive
  <2>3. CASE Executor!Check  BY <2>3 DEF Executor!Check
  <2>4. CASE Executor!LookAgain  BY <2>4 DEF Executor!LookAgain
  <2>5. CASE Executor!Judge  BY <2>5 DEF Executor!Judge, Executor!Failed
  <2>6. CASE Executor!Join  BY <2>6 DEF Executor!Join
  <2>7. ASSUME NEW obeys \in BOOLEAN, Executor!Terminate(obeys)  PROVE ExecutorInv'
    BY <2>7 DEF Executor!Terminate
  <2>8. CASE Executor!Kill  BY <2>8 DEF Executor!Kill
  <2> QED  BY <1>4, <2>1, <2>2, <2>3, <2>4, <2>5, <2>6, <2>7, <2>8 DEF Executor!ParentStep
<1>5. ASSUME NEW code \in {"interrupt", Executor!Failed}, Executor!Interrupted(code)
      PROVE  ExecutorInv'
  BY <1>5 DEF Executor!Interrupted, Executor!Failed
<1>6. ASSUME NEW with \in {"result", Executor!Failed, Executor!Unpicklable}, Executor!Finish(with)
      PROVE  ExecutorInv'
  BY <1>6 DEF Executor!Finish, Executor!Failed, Executor!Unpicklable
<1>7. CASE Executor!BeginWriting
  BY <1>7 DEF Executor!BeginWriting
<1>8. ASSUME NEW large \in BOOLEAN, Executor!EndWriting(large)  PROVE ExecutorInv'
  BY <1>8 DEF Executor!EndWriting
<1>9. CASE Executor!Exit
  BY <1>9 DEF Executor!Exit
<1>10. CASE Executor!Die
  BY <1>10 DEF Executor!Die
<1>11. CASE UNCHANGED executor
  BY <1>11 DEF executor
<1> QED  BY <1>1, <1>2, <1>3, <1>4, <1>5, <1>6, <1>7, <1>8, <1>9, <1>10, <1>11 DEF Executor!Next

-----------------------------------------------------------------------------
(* The historical session.  Of a session that is not torn, what the script *)
(* recorded ends with the last closed bar, which is the bar of the cursor  *)
(* or the one after it, depending on the stage; every point of the curve   *)
(* has the records up to its time; and a snapshot keeps all this.          *)

Cores == [records : Seq(Nat), last : Nat, closed : Nat, retained : Seq(Nat)]
Curve(e) ==
    \A i \in DOMAIN e : e[i].time \in Nat /\ e[i].value = Historical!Upto(e[i].time)
WholeUpto(c, n) == Len(c.records) = n /\ c.records = Historical!Upto(n)

\* The records and the clock at each stage of a bar.
AtStage ==
    /\ stage \in 0 .. 5
    /\ stage = 0 => core.last \in {cursor, cursor + 1} /\ WholeUpto(core, core.last)
    /\ stage = 1 => core.last = cursor /\ WholeUpto(core, cursor + 1)
    /\ stage \in 2 .. 4 => core.last = cursor + 1 /\ WholeUpto(core, cursor + 1)
    /\ stage = 5 => core.last = cursor /\ WholeUpto(core, cursor)
LiveSession ==
    /\ core \in Cores /\ cursor \in Nat /\ Curve(equity)
    /\ equity \in Seq([time : Nat, value : Seq(Nat)])
    /\ AtStage
KeptSession ==
    /\ kept.core \in Cores /\ kept.cursor \in Nat /\ Curve(kept.equity)
    /\ kept.equity \in Seq([time : Nat, value : Seq(Nat)])
    /\ kept.core.last \in {kept.cursor, kept.cursor + 1} /\ WholeUpto(kept.core, kept.core.last)
HistoricalInv ==
    /\ retention # None => retention \in Nat \ {0}
    /\ interrupted # "torn" => LiveSession
    /\ kept # None /\ kept.interrupted # "torn" => KeptSession

LEMMA UptoType == \A n \in Nat : Historical!Upto(n) \in Seq(Nat) /\ Len(Historical!Upto(n)) = n
BY DEF Historical!Upto
LEMMA UptoNext == \A n \in Nat : Append(Historical!Upto(n), n + 1) = Historical!Upto(n + 1)
<1> SUFFICES ASSUME NEW n \in Nat
             PROVE  Append(Historical!Upto(n), n + 1) = Historical!Upto(n + 1)
  OBVIOUS
<1> DEFINE longer == Append(Historical!Upto(n), n + 1)
<1>1. /\ longer \in Seq(Nat) /\ Len(longer) = n + 1
      /\ \A i \in 1 .. n + 1 : longer[i] = i
  BY UptoType DEF Historical!Upto
<1>2. longer = [i \in 1 .. n + 1 |-> i]
  BY <1>1
<1> QED  BY <1>2 DEF Historical!Upto

\* An update of one field of the session leaves the others alone.
LEMMA CoreRecords ==
    ASSUME NEW c \in Cores, NEW r \in Seq(Nat), NEW d, d = [c EXCEPT !.records = r]
    PROVE  d \in Cores /\ d.records = r /\ d.last = c.last
BY DEF Cores
LEMMA CoreLast ==
    ASSUME NEW c \in Cores, NEW n \in Nat, NEW d, d = [c EXCEPT !.last = n]
    PROVE  d \in Cores /\ d.records = c.records /\ d.last = n
BY DEF Cores
LEMMA CoreClosed ==
    ASSUME NEW c \in Cores, NEW n \in Nat, NEW d, d = [c EXCEPT !.closed = n]
    PROVE  d \in Cores /\ d.records = c.records /\ d.last = c.last
BY DEF Cores
LEMMA CoreRetained ==
    ASSUME NEW c \in Cores, NEW r \in Seq(Nat), NEW d, d = [c EXCEPT !.retained = r]
    PROVE  d \in Cores /\ d.records = c.records /\ d.last = c.last
BY DEF Cores

LEMMA NewestType ==
    ASSUME HistoricalInv, NEW s \in Seq(Nat)  PROVE Historical!Newest(s) \in Seq(Nat)
BY DEF HistoricalInv, Historical!Newest

LEMMA HistoricalInit == Historical!Init => HistoricalInv
<1> SUFFICES ASSUME Historical!Init  PROVE HistoricalInv
  OBVIOUS
<1>1. << >> = Historical!Upto(0)
  BY DEF Historical!Upto
<1>2. LiveSession
  BY <1>1 DEF Historical!Init, Historical!Fresh, LiveSession, Cores, Curve, AtStage, WholeUpto
<1> QED  BY <1>2, HostConstants DEF Historical!Init, HistoricalInv, Historical!ConstantsAssumption

\* What an invariant session looks like, in all the stages.
LEMMA HistoricalStep ==
    HistoricalInv /\ (Historical!Next \/ UNCHANGED historical) => HistoricalInv'
<1> SUFFICES ASSUME HistoricalInv, Historical!Next \/ UNCHANGED historical  PROVE HistoricalInv'
  OBVIOUS
<1> USE DEF HistoricalInv
<1>a. ASSUME UNCHANGED <<retention, kept>>, interrupted' # "torn" => LiveSession'
      PROVE  HistoricalInv'
  BY <1>a DEF KeptSession
<1>1. ASSUME NEW to \in 0 .. Horizon, Historical!Advance(to)  PROVE HistoricalInv'
  BY <1>1, <1>a DEF Historical!Advance, LiveSession, AtStage
<1>2. CASE Historical!Refuse
  BY <1>2, <1>a DEF Historical!Refuse, Historical!Stop, LiveSession, AtStage
<1>3. CASE Historical!Runs
  <2> SUFFICES ASSUME interrupted' # "torn"  PROVE LiveSession'
    BY <1>3, <1>a DEF Historical!Runs
  <2>1. /\ stage = 0 /\ stage' = 1 /\ core \in Cores /\ cursor \in Nat /\ core.last = cursor
        /\ WholeUpto(core, cursor) /\ UNCHANGED <<cursor, equity>> /\ LiveSession
        /\ core' = [core EXCEPT !.records = Append(@, cursor + 1)]
    BY <1>3 DEF Historical!Runs, LiveSession, AtStage, Cores
  <2>2. /\ core' \in Cores /\ core'.last = cursor
        /\ core'.records = Append(Historical!Upto(cursor), cursor + 1)
    <3> DEFINE longer == Append(core.records, cursor + 1)
    <3>1. core.records \in Seq(Nat) /\ cursor + 1 \in Nat
      BY <2>1 DEF Cores
    <3>2. longer \in Seq(Nat)
      BY ONLY <3>1
    <3>3. core' = [core EXCEPT !.records = longer] /\ core \in Cores
      BY <2>1
    <3>4. longer = Append(Historical!Upto(cursor), cursor + 1)
      BY <2>1 DEF WholeUpto
    <3> HIDE DEF longer
    <3>5. core' \in Cores /\ core'.records = longer /\ core'.last = core.last
      BY <3>2, <3>3, CoreRecords
    <3> QED  BY <2>1, <3>4, <3>5
  <2>3. WholeUpto(core', cursor + 1)
    BY <2>1, <2>2, UptoNext, UptoType DEF WholeUpto
  <2> QED  BY <2>1, <2>2, <2>3 DEF LiveSession, AtStage
<1>4. CASE Historical!Fails
  BY <1>4, <1>a DEF Historical!Fails, Historical!Stop, LiveSession, AtStage
<1>5. CASE Historical!MarkTime
  BY <1>5, <1>a DEF Historical!MarkTime, Historical!Advances, LiveSession, AtStage, Cores, WholeUpto
<1>6. CASE Historical!MarkCount
  <2> SUFFICES ASSUME interrupted' # "torn"  PROVE LiveSession'
    BY <1>6, <1>a DEF Historical!MarkCount, Historical!Advances
  <2>1. /\ core \in Cores /\ cursor + 1 \in Nat /\ LiveSession /\ stage = 2 /\ stage' = 3
        /\ core' = [core EXCEPT !.closed = cursor + 1] /\ UNCHANGED <<cursor, equity>>
    BY <1>6 DEF Historical!MarkCount, Historical!Advances, LiveSession
  <2>2. core' \in Cores /\ core'.records = core.records /\ core'.last = core.last
    BY <2>1, CoreClosed
  <2> QED  BY <2>1, <2>2 DEF LiveSession, AtStage, WholeUpto
<1>7. CASE Historical!MarkRetained
  <2> SUFFICES ASSUME interrupted' # "torn"  PROVE LiveSession'
    BY <1>7, <1>a DEF Historical!MarkRetained, Historical!Advances
  <2> DEFINE newest == Historical!Newest(Append(core.retained, cursor + 1))
  <2>1. /\ core \in Cores /\ cursor \in Nat /\ LiveSession /\ stage = 3 /\ stage' = 4
        /\ core' = [core EXCEPT !.retained = newest] /\ UNCHANGED <<cursor, equity>>
    BY <1>7 DEF Historical!MarkRetained, Historical!Advances, LiveSession
  <2>2. newest \in Seq(Nat)
    <3>1. Append(core.retained, cursor + 1) \in Seq(Nat)
      BY <2>1 DEF Cores
    <3> QED  BY <3>1, NewestType
  <2> HIDE DEF newest
  <2>3. core' \in Cores /\ core'.records = core.records /\ core'.last = core.last
    BY <2>1, <2>2, CoreRetained
  <2> QED  BY <2>1, <2>3 DEF LiveSession, AtStage, WholeUpto
<1>8. CASE Historical!MarkCursor
  BY <1>8, <1>a DEF Historical!MarkCursor, Historical!Advances, LiveSession, AtStage
<1>9. CASE Historical!MarkEquity
  <2> SUFFICES ASSUME interrupted' # "torn"  PROVE LiveSession'
    BY <1>9, <1>a DEF Historical!MarkEquity
  <2>1. /\ core \in Cores /\ cursor \in Nat /\ LiveSession /\ stage = 5 /\ stage' = 0
        /\ equity \in Seq([time : Nat, value : Seq(Nat)]) /\ Curve(equity)
        /\ equity' = Append(equity, [time |-> core.last, value |-> core.records])
        /\ UNCHANGED <<cursor, core>> /\ core.last = cursor /\ WholeUpto(core, cursor)
    BY <1>9 DEF Historical!MarkEquity, LiveSession, AtStage
  <2>2. /\ equity' \in Seq([time : Nat, value : Seq(Nat)]) /\ Curve(equity')
    BY <2>1 DEF Cores, Curve, WholeUpto
  <2> QED  BY <2>1, <2>2 DEF LiveSession, AtStage
<1>10. CASE Historical!Interrupt
  BY <1>10, <1>a DEF Historical!Interrupt, Historical!Stop, LiveSession, AtStage
<1>11. CASE Historical!Snapshot
  BY <1>11 DEF Historical!Snapshot, Historical!Taken, Historical!Idle, LiveSession, KeptSession, AtStage
<1>12. ASSUME NEW anew \in BOOLEAN, Historical!Restore(anew)  PROVE HistoricalInv'
  BY <1>12, <1>a DEF Historical!Restore, Historical!Idle, LiveSession, KeptSession, AtStage
<1>13. CASE UNCHANGED historical
  BY <1>13, <1>a DEF historical, LiveSession, AtStage
<1> QED  BY <1>1, <1>2, <1>3, <1>4, <1>5, <1>6, <1>7, <1>8, <1>9, <1>10, <1>11, <1>12, <1>13
            DEF Historical!Next

LEMMA HistoricalWhole == HistoricalInv => Historical!HistoryIsWhole
<1> SUFFICES ASSUME HistoricalInv, interrupted # "torn"  PROVE Historical!HistoryIsWhole
  BY DEF Historical!HistoryIsWhole
<1>1. LiveSession
  BY DEF HistoricalInv
<1>2. /\ core.records = Historical!Upto(Len(core.records))
      /\ Len(core.records) \in {cursor, cursor + 1}
  BY <1>1 DEF LiveSession, AtStage, WholeUpto
<1>3. ASSUME Historical!Idle, Historical!Accepts(Historical!Taken)
      PROVE  /\ core.records = Historical!Upto(cursor)
             /\ \A i \in 1 .. cursor : equity[i].value = Historical!Upto(i)
  <2>1. /\ core.last = cursor /\ Len(equity) = cursor
        /\ \A i \in DOMAIN equity : equity[i].time = i
    BY <1>3 DEF Historical!Accepts, Historical!Taken
  <2>2. core.records = Historical!Upto(cursor)
    BY <1>1, <1>3, <2>1 DEF LiveSession, AtStage, WholeUpto, Historical!Idle
  <2>3. DOMAIN equity = 1 .. cursor /\ Curve(equity)
    BY <1>1, <2>1 DEF LiveSession
  <2> QED  BY <2>1, <2>2, <2>3 DEF Curve
<1> QED  BY <1>2, <1>3 DEF Historical!HistoryIsWhole

-----------------------------------------------------------------------------
(* The execution trace.  A slow span is one that has ended; the rest of the *)
(* invariant is the property and types.                                    *)

SpanRecords == [name : Names, parent : Nat, open : BOOLEAN]
EventRecords == [sequence : Nat, event : {"event", "span.start", "span.complete"}, span : Nat]
EndedOf(ss, name) == {id \in DOMAIN ss : ss[id].name = name /\ ~ss[id].open}
Increasing(s) == \A i, j \in DOMAIN s : i < j => s[i] < s[j]
Elements(s) == {s[i] : i \in DOMAIN s}

LogSound ==
    /\ events \in Seq(EventRecords)
    /\ \A i \in DOMAIN events : events[i].sequence = i - 1
    /\ Len(events) <= MaxEvents /\ dropped \in Nat /\ Len(events) + dropped = emitted
StackSound ==
    /\ stack \in Seq(Nat) /\ Increasing(stack)
    /\ spans \in Seq(SpanRecords)
    /\ Elements(stack) = {id \in DOMAIN spans : spans[id].open}
    /\ \A id \in DOMAIN spans : spans[id].parent # 0 => spans[id].parent \in 1 .. id - 1
CountsSound ==
    /\ metrics \in [Names -> [count : Nat, errors : Nat]]
    /\ \A name \in Names : metrics[name].count = Cardinality(EndedOf(spans, name))
SlowSound ==
    /\ slow \in Seq(Nat) /\ Len(slow) <= MaxSlow
    /\ \A i, j \in DOMAIN slow : slow[i] = slow[j] => i = j
    /\ \A i \in DOMAIN slow : slow[i] \in DOMAIN spans /\ ~spans[slow[i]].open
TraceInv == LogSound /\ StackSound /\ CountsSound /\ SlowSound

LEMMA TraceInit == Trace!Init => TraceInv
<1> SUFFICES ASSUME Trace!Init  PROVE TraceInv
  OBVIOUS
<1>1. /\ stack = <<>> /\ spans = <<>> /\ events = <<>> /\ slow = <<>> /\ dropped = 0 /\ emitted = 0
      /\ metrics = [name \in Names |-> [count |-> 0, errors |-> 0]]
      /\ MaxEvents \in Nat /\ MaxSlow \in Nat
  BY HostConstants DEF Trace!Init, Trace!ConstantsAssumption
<1>2. LogSound /\ SlowSound
  BY <1>1 DEF LogSound, SlowSound
<1>3. StackSound
  BY <1>1 DEF StackSound, Increasing, Elements
<1>4. CountsSound
  <2>1. \A name \in Names : EndedOf(spans, name) = {}
    BY <1>1 DEF EndedOf
  <2> QED  BY <1>1, <2>1, FS_EmptySet DEF CountsSound
<1> QED  BY <1>2, <1>3, <1>4 DEF TraceInv

\* An entry is kept under its number, or counted.
LEMMA RecordsSound ==
    ASSUME LogSound, NEW entry \in EventRecords, Trace!Records(entry)
    PROVE  LogSound'
<1>1. CASE Len(events) >= MaxEvents
  BY <1>1 DEF LogSound, Trace!Records
<1>2. CASE ~(Len(events) >= MaxEvents)
  <2> DEFINE kind == [entry EXCEPT !.sequence = Len(events)]
  <2>1. kind \in EventRecords /\ kind.sequence = Len(events)
    <3>1. Len(events) \in Nat
      BY DEF LogSound
    <3> QED  BY <3>1 DEF EventRecords
  <2>2. events' = Append(events, kind) /\ dropped' = dropped /\ emitted' = emitted + 1
    BY <1>2 DEF Trace!Records
  <2>3. MaxEvents \in Nat
    BY HostConstants DEF Trace!ConstantsAssumption
  <2> HIDE DEF kind
  <2> QED  BY <1>2, <2>1, <2>2, <2>3 DEF LogSound
<1> QED  BY <1>1, <1>2

LEMMA RecordsSpanSound ==
    ASSUME LogSound, NEW kind \in {"event", "span.start", "span.complete"}, NEW span \in Nat, Trace!RecordsSpan(kind, span)
    PROVE  LogSound'
<1>1. Trace!Entry(kind, span) \in EventRecords
  BY DEF Trace!Entry, EventRecords
<1>2. CASE spanEvents
  BY <1>1, <1>2, RecordsSound DEF Trace!RecordsSpan
<1>3. CASE ~spanEvents
  BY <1>3 DEF Trace!RecordsSpan, LogSound
<1> QED  BY <1>2, <1>3

LEMMA CurrentOpen ==
    ASSUME StackSound
    PROVE  Trace!Current = 0 \/ Trace!Current \in DOMAIN spans
BY DEF StackSound, Elements, Trace!Current, Trace!Last

\* What is left of a stack when one of its spans ends.
LEMMA RemovedSound ==
    ASSUME NEW s \in Seq(Nat), Increasing(s), NEW p \in DOMAIN s
    PROVE  /\ Trace!RemoveAt(s, p) \in Seq(Nat)
           /\ Increasing(Trace!RemoveAt(s, p))
           /\ Elements(Trace!RemoveAt(s, p)) = Elements(s) \ {s[p]}
<1> DEFINE r == Trace!RemoveAt(s, p)
           a == SubSeq(s, 1, p - 1)
           b == SubSeq(s, p + 1, Len(s))
<1>1. /\ DOMAIN r = 1 .. Len(s) - 1 /\ r \in Seq(Nat)
      /\ \A i \in 1 .. Len(s) - 1 : r[i] = IF i < p THEN s[i] ELSE s[i + 1]
  <2>1. r = a \o b
    BY DEF Trace!RemoveAt
  <2>2. p \in 1 .. Len(s) /\ Len(s) \in Nat
    OBVIOUS
  <2>3. a \in Seq(Nat) /\ Len(a) = p - 1 /\ \A i \in 1 .. p - 1 : a[i] = s[i]
    <3>1. p - 1 \in Int /\ \A i \in 1 .. p - 1 : s[i] \in Nat
      BY <2>2
    <3> QED  BY <2>2, <3>1, SubSeqProperties
  <2>4. b \in Seq(Nat) /\ Len(b) = Len(s) - p /\ \A i \in 1 .. Len(s) - p : b[i] = s[p + i]
    <3>1. p + 1 \in Int /\ \A i \in p + 1 .. Len(s) : s[i] \in Nat
      BY <2>2
    <3>2. /\ b \in Seq(Nat) /\ Len(b) = IF p + 1 <= Len(s) THEN Len(s) - (p + 1) + 1 ELSE 0
          /\ \A i \in 1 .. Len(s) - (p + 1) + 1 : b[i] = s[p + 1 + i - 1]
      BY <2>2, <3>1, SubSeqProperties
    <3> HIDE DEF b
    <3> QED  BY <2>2, <3>2
  <2> HIDE DEF a, b, r
  <2>c. /\ r \in Seq(Nat) /\ Len(r) = Len(a) + Len(b)
        /\ \A i \in 1 .. Len(a) + Len(b) : r[i] = IF i <= Len(a) THEN a[i] ELSE b[i - Len(a)]
    BY <2>1, <2>3, <2>4, ConcatProperties
  <2>5. r \in Seq(Nat) /\ Len(r) = Len(s) - 1
    BY <2>2, <2>3, <2>4, <2>c
  <2>6. \A i \in 1 .. Len(s) - 1 : r[i] = IF i < p THEN s[i] ELSE s[i + 1]
    <3> SUFFICES ASSUME NEW i \in 1 .. Len(s) - 1  PROVE r[i] = IF i < p THEN s[i] ELSE s[i + 1]
      OBVIOUS
    <3>1. /\ Len(a) + Len(b) = Len(s) - 1 /\ Len(a) = p - 1
          /\ i \in 1 .. Len(a) + Len(b)
      BY <2>2, <2>3, <2>4
    <3>2. CASE i < p
      <4>1. i <= Len(a) /\ i \in 1 .. p - 1
        BY <2>2, <3>1, <3>2
      <4> QED  BY <2>3, <2>c, <3>1, <3>2, <4>1
    <3>3. CASE ~(i < p)
      <4>1. /\ i - Len(a) \in 1 .. Len(s) - p /\ p + (i - Len(a)) = i + 1
            /\ ~(i <= Len(a))
        <5>1. p \in Int /\ i \in Int /\ Len(s) \in Int /\ p <= i /\ i <= Len(s) - 1 /\ Len(a) = p - 1
          BY <2>2, <3>1, <3>3
        <5> QED  BY ONLY <5>1
      <4>2. r[i] = b[i - Len(a)]
        BY <2>c, <3>1, <4>1
      <4>3. b[i - Len(a)] = s[p + (i - Len(a))]
        BY <2>4, <4>1
      <4> QED  BY <3>3, <4>1, <4>2, <4>3
    <3> QED  BY <3>2, <3>3
  <2> QED  BY <2>5, <2>6
<1> HIDE DEF r
<1>2. Increasing(r)
  <2> SUFFICES ASSUME NEW i \in 1 .. Len(s) - 1, NEW j \in 1 .. Len(s) - 1, i < j  PROVE r[i] < r[j]
    BY <1>1 DEF Increasing
  <2> DEFINE m == IF i < p THEN i ELSE i + 1
             n == IF j < p THEN j ELSE j + 1
  <2>1. m \in DOMAIN s /\ n \in DOMAIN s /\ m < n
    OBVIOUS
  <2>2. r[i] = s[m] /\ r[j] = s[n]
    BY <1>1
  <2> HIDE DEF m, n
  <2> QED  BY <2>1, <2>2 DEF Increasing
<1>3. ASSUME NEW i \in 1 .. Len(s) - 1  PROVE r[i] \in Elements(s) \ {s[p]}
  <2> DEFINE m == IF i < p THEN i ELSE i + 1
  <2>1. m \in DOMAIN s /\ m # p /\ (m < p \/ p < m)
    OBVIOUS
  <2>2. r[i] = s[m]
    BY <1>1
  <2> HIDE DEF m
  <2>3. s[m] # s[p]
    <3>1. s[m] \in Nat /\ s[p] \in Nat
      BY <2>1
    <3> QED  BY <2>1, <3>1 DEF Increasing
  <2> QED  BY <2>1, <2>2, <2>3 DEF Elements
<1>4. ASSUME NEW i \in DOMAIN s, s[i] # s[p]  PROVE s[i] \in Elements(r)
  <2>1. CASE i < p
    <3>1. i \in 1 .. Len(s) - 1
      BY <2>1
    <3> QED  BY <1>1, <2>1, <3>1 DEF Elements
  <2>2. CASE i > p
    <3>1. i - 1 \in 1 .. Len(s) - 1 /\ ~(i - 1 < p) /\ (i - 1) + 1 = i
      BY <2>2
    <3>2. r[i - 1] = s[i]
      BY <1>1, <3>1
    <3> QED  BY <1>1, <3>1, <3>2 DEF Elements
  <2> QED  BY <1>4, <2>1, <2>2
<1>5. Elements(r) = Elements(s) \ {s[p]}
  BY <1>1, <1>3, <1>4 DEF Elements
<1> QED  BY <1>1, <1>2, <1>5 DEF r

LEMMA TraceStep == TraceInv /\ (Trace!Next \/ UNCHANGED trace) => TraceInv'
<1> SUFFICES ASSUME TraceInv, Trace!Next \/ UNCHANGED trace  PROVE TraceInv'
  OBVIOUS
<1> USE DEF TraceInv
<1>1. CASE Trace!Emit
  <2>1. UNCHANGED <<stack, spans, metrics, slow>> /\ Trace!Records(Trace!Entry("event", Trace!Current))
    BY <1>1 DEF Trace!Emit
  <2>2. Trace!Entry("event", Trace!Current) \in EventRecords
    <3>1. Trace!Current \in Nat
      BY CurrentOpen DEF StackSound
    <3> QED  BY <3>1 DEF Trace!Entry, EventRecords
  <2>3. LogSound'
    BY <2>1, <2>2, RecordsSound
  <2>4. (StackSound /\ CountsSound /\ SlowSound)'
    BY <2>1 DEF StackSound, CountsSound, SlowSound
  <2> QED  BY <2>3, <2>4
<1>2. ASSUME NEW name \in Names, Trace!Begin(name)  PROVE TraceInv'
  <2> DEFINE span == [name |-> name, parent |-> Trace!Current, open |-> TRUE]
             n == Len(spans) + 1
  <2>1. span \in SpanRecords /\ span.open /\ (span.parent # 0 => span.parent \in 1 .. n - 1)
    BY CurrentOpen DEF SpanRecords, StackSound
  <2>2. /\ spans' = Append(spans, span) /\ stack' = Append(stack, Len(spans')) /\ UNCHANGED <<metrics, slow>>
        /\ Trace!RecordsSpan("span.start", Len(spans'))
    BY <1>2 DEF Trace!Begin
  <2> HIDE DEF span
  <2>3. /\ spans' \in Seq(SpanRecords) /\ Len(spans') = n /\ n \in Nat /\ spans'[n] = span
        /\ \A id \in DOMAIN spans : id \in 1 .. n - 1 /\ spans'[id] = spans[id]
        /\ DOMAIN spans = 1 .. n - 1 /\ DOMAIN spans' = 1 .. n
    BY <2>1, <2>2 DEF StackSound
  <2>4. LogSound'
    <3>1. Trace!RecordsSpan("span.start", n) /\ LogSound /\ n \in Nat
      BY <2>2, <2>3
    <3> HIDE DEF n
    <3> QED  BY <3>1, RecordsSpanSound
  <2>5. StackSound'
    <3>1. /\ stack' \in Seq(Nat) /\ Len(stack') = Len(stack) + 1 /\ stack'[Len(stack) + 1] = n
          /\ \A i \in 1 .. Len(stack) : stack'[i] = stack[i]
      BY <2>2, <2>3 DEF StackSound
    <3>2. \A i \in DOMAIN stack : stack[i] \in 1 .. n - 1
      BY <2>3 DEF StackSound, Elements
    <3>3. Increasing(stack')
      <4> SUFFICES ASSUME NEW i \in 1 .. Len(stack) + 1, NEW j \in 1 .. Len(stack) + 1, i < j
                   PROVE  stack'[i] < stack'[j]
        BY <3>1 DEF Increasing
      <4>1. i \in 1 .. Len(stack) /\ stack'[i] = stack[i] /\ stack[i] \in 1 .. n - 1
        BY <3>1, <3>2 DEF StackSound
      <4>2. CASE j = Len(stack) + 1
        BY <2>3, <3>1, <4>1, <4>2
      <4>3. CASE j \in 1 .. Len(stack)
        <5>1. i \in DOMAIN stack /\ j \in DOMAIN stack /\ stack'[j] = stack[j]
          BY <3>1, <4>1, <4>3 DEF StackSound
        <5> QED  BY <4>1, <5>1 DEF StackSound, Increasing
      <4> QED  BY <4>2, <4>3 DEF StackSound
    <3>4. Elements(stack') = Elements(stack) \cup {n}
      <4>1. DOMAIN stack' = 1 .. Len(stack) + 1 /\ DOMAIN stack = 1 .. Len(stack) /\ Len(stack) \in Nat
        BY <3>1 DEF StackSound
      <4>2. \A i \in 1 .. Len(stack) + 1 : i \in 1 .. Len(stack) \/ i = Len(stack) + 1
        BY <4>1
      <4>3. 1 .. Len(stack) \subseteq 1 .. Len(stack) + 1 /\ Len(stack) + 1 \in 1 .. Len(stack) + 1
        BY <4>1
      <4> HIDE DEF n
      <4> QED  BY <3>1, <4>1, <4>2, <4>3 DEF Elements
    <3>5. Elements(stack') = {id \in DOMAIN spans' : spans'[id].open}
      BY <2>1, <2>3, <3>4 DEF StackSound
    <3>6. \A id \in DOMAIN spans' : spans'[id].parent # 0 => spans'[id].parent \in 1 .. id - 1
      BY <2>1, <2>3 DEF StackSound
    <3> QED  BY <2>3, <3>1, <3>3, <3>5, <3>6 DEF StackSound
  <2>6. CountsSound'
    <3>1. \A m \in Names : EndedOf(spans', m) = EndedOf(spans, m)
      BY <2>1, <2>3 DEF EndedOf
    <3> QED  BY <2>2, <3>1 DEF CountsSound
  <2>7. SlowSound'
    BY <2>2, <2>3 DEF SlowSound
  <2> QED  BY <2>4, <2>5, <2>6, <2>7
<1>3. ASSUME NEW id \in 1 .. MaxSpans, NEW status \in {"ok", "error"}, NEW isSlow \in BOOLEAN,
             Trace!End(id, status, isSlow)
      PROVE  TraceInv'
  <2> DEFINE span == [spans[id] EXCEPT !.open = FALSE]
  <2>1. /\ id \in DOMAIN spans /\ spans[id].open /\ UNCHANGED spanEvents
        /\ spans' = [spans EXCEPT ![id] = span]
        /\ stack' = IF id \in Trace!ToSet(stack) THEN Trace!RemoveAt(stack, Trace!Place(id)) ELSE stack
        /\ metrics' = [metrics EXCEPT ![spans[id].name] =
             [count |-> @.count + 1, errors |-> @.errors + IF status = "error" THEN 1 ELSE 0]]
        /\ slow' = IF isSlow /\ Len(slow) < MaxSlow THEN Append(slow, id) ELSE slow
        /\ Trace!RecordsSpan("span.complete", id)
    BY <1>3 DEF Trace!End
  <2>2. id \in Nat /\ spans[id] \in SpanRecords /\ spans \in Seq(SpanRecords)
    BY <2>1 DEF StackSound
  <2>3. /\ span \in SpanRecords /\ ~span.open /\ span.name = spans[id].name
        /\ span.parent = spans[id].parent
    BY <2>2 DEF SpanRecords
  <2> HIDE DEF span
  <2>4. /\ spans' \in Seq(SpanRecords) /\ spans'[id] = span /\ DOMAIN spans' = DOMAIN spans
        /\ \A i \in DOMAIN spans : i # id => spans'[i] = spans[i]
    BY <2>1, <2>2, <2>3
  <2>5. LogSound'
    <3>1. Trace!RecordsSpan("span.complete", id) /\ LogSound /\ id \in Nat
      BY <2>1, <2>2
    <3> QED  BY <3>1, RecordsSpanSound
  <2>6. StackSound'
    <3>1. id \in Elements(stack)
      BY <2>1 DEF StackSound
    <3>2. id \in Trace!ToSet(stack) /\ Trace!Place(id) \in DOMAIN stack /\ stack[Trace!Place(id)] = id
      BY <3>1 DEF Elements, Trace!ToSet, Trace!Place
    <3>3. /\ stack' \in Seq(Nat) /\ Increasing(stack') /\ Elements(stack') = Elements(stack) \ {id}
      BY <2>1, <3>2, RemovedSound DEF StackSound
    <3>4. Elements(stack') = {i \in DOMAIN spans' : spans'[i].open}
      BY <2>3, <2>4, <3>3 DEF StackSound
    <3>5. \A i \in DOMAIN spans' : spans'[i].parent # 0 => spans'[i].parent \in 1 .. i - 1
      BY <2>3, <2>4 DEF StackSound
    <3> QED  BY <2>4, <3>3, <3>4, <3>5 DEF StackSound
  <2>7. CountsSound'
    <3> DEFINE k == spans[id].name
    <3>1. k \in Names
      BY <2>2 DEF SpanRecords
    <3>2. EndedOf(spans', k) = EndedOf(spans, k) \cup {id} /\ id \notin EndedOf(spans, k)
      BY <2>1, <2>3, <2>4 DEF EndedOf
    <3>3. \A m \in Names : m # k => EndedOf(spans', m) = EndedOf(spans, m)
      BY <2>1, <2>3, <2>4 DEF EndedOf
    <3>4. IsFiniteSet(EndedOf(spans, k))
      <4>1. Len(spans) \in Nat /\ DOMAIN spans = 1 .. Len(spans)
        BY <2>2
      <4>2. IsFiniteSet(1 .. Len(spans))
        BY <4>1, FS_Interval
      <4>3. EndedOf(spans, k) \in SUBSET (1 .. Len(spans))
        BY <4>1 DEF EndedOf
      <4> QED  BY <4>2, <4>3, FS_Subset
    <3>5. Cardinality(EndedOf(spans', k)) = Cardinality(EndedOf(spans, k)) + 1
      BY <3>2, <3>4, FS_AddElement
    <3>6. /\ metrics' \in [Names -> [count : Nat, errors : Nat]]
          /\ metrics'[k].count = metrics[k].count + 1
          /\ \A m \in Names : m # k => metrics'[m] = metrics[m]
      BY <2>1, <3>1 DEF CountsSound
    <3> QED  BY <3>1, <3>3, <3>5, <3>6 DEF CountsSound
  <2>8. SlowSound'
    <3>1. \A i \in DOMAIN slow : slow[i] \in DOMAIN spans' /\ ~spans'[slow[i]].open
      BY <2>1, <2>3, <2>4 DEF SlowSound
    <3>2. \A i \in DOMAIN slow : slow[i] # id
      BY <2>1 DEF SlowSound
    <3>3. CASE slow' = slow
      BY <3>1, <3>3 DEF SlowSound
    <3>4. CASE slow' = Append(slow, id) /\ Len(slow) < MaxSlow
      <4>1. MaxSlow \in Nat
        BY HostConstants DEF Trace!ConstantsAssumption
      <4>2. /\ slow' \in Seq(Nat) /\ Len(slow') = Len(slow) + 1 /\ slow'[Len(slow) + 1] = id
            /\ \A i \in 1 .. Len(slow) : slow'[i] = slow[i]
        BY <2>2, <3>4 DEF SlowSound
      <4> QED  BY <2>1, <2>3, <2>4, <3>1, <3>2, <3>4, <4>1, <4>2 DEF SlowSound
    <3> QED  BY <2>1, <3>3, <3>4
  <2> QED  BY <2>5, <2>6, <2>7, <2>8
<1>4. CASE UNCHANGED trace
  BY <1>4 DEF trace, LogSound, StackSound, CountsSound, SlowSound
<1> QED  BY <1>1, <1>2, <1>3, <1>4 DEF Trace!Next

LEMMA TraceSound == TraceInv => Trace!TraceIsSound
<1> SUFFICES ASSUME TraceInv  PROVE Trace!TraceIsSound
  OBVIOUS
<1>1. Trace!ToSet(stack) = Elements(stack)
  BY DEF Trace!ToSet, Elements
<1>2. \A name \in Names : Trace!Cardinality({id \in DOMAIN spans : spans[id].name = name /\ ~spans[id].open})
                          = Cardinality(EndedOf(spans, name))
  BY DEF Trace!Cardinality, Cardinality, EndedOf
<1>3. Trace!IsInjective(slow)
  BY DEF TraceInv, SlowSound, Trace!IsInjective
<1> QED  BY <1>1, <1>2, <1>3
         DEF TraceInv, LogSound, StackSound, CountsSound, SlowSound, Increasing, Trace!TraceIsSound

-----------------------------------------------------------------------------
(* The events of a shared session.  What a subscriber delivered and was    *)
(* closed is committed; a preview leaves no closed bar behind; an answer   *)
(* is what was committed until its bar; and the answers to the previews of *)
(* a bar are each a beginning of what its cells hold now.                  *)

Closed(e) == e[1] = "closed"
ClosedUpto(n) == {Events!Bar(Feed[i]) : i \in {j \in DOMAIN Feed : Closed(Feed[j]) /\ Feed[j][2] <= n}}
ClosedTime(bars) == IF bars = <<>> THEN 0 ELSE bars[Len(bars)].time
BarOf(record) == [time |-> record.time, value |-> record.value]
Ordered(bars) == \A i, j \in DOMAIN bars : i < j => bars[i].time < bars[j].time
Begins(s, t) == Len(s) <= Len(t) /\ \A i \in 1 .. Len(s) : s[i] = t[i]
Past(n) == {bar \in Elements(History) : bar.time <= n}

EventTypes ==
    /\ committed \in Seq(Events!Records) /\ cells \in Seq(Events!Records)
    /\ previewing \in Nat \cup {None}
    /\ {started, poisoned, seeded} \subseteq BOOLEAN
    /\ DOMAIN reads = Subscribers /\ \A s \in Subscribers : reads[s] \in -1 .. Len(Feed)
    /\ told \in [Elements(Feed) -> SUBSET Events!Answers]
Untouched ==
    ~started /\ ~poisoned =>
        /\ committed = <<>> /\ previewing = None /\ last = None
        /\ \A s \in Subscribers : reads[s] <= 0
        /\ \A e \in DOMAIN told : told[e] = {}
CommitsSound ==
    /\ Ordered(committed)
    /\ \E past \in {{}, Past(ClosedTime(committed))} :
          /\ {BarOf(r) : r \in Elements(committed)} = past \cup ClosedUpto(ClosedTime(committed))
          /\ seeded => past = Elements(History)
          /\ ~seeded /\ ~poisoned => past = {}
DeliveriesCommitted ==
    ~poisoned => \A s \in Subscribers, i \in DOMAIN Feed :
        i <= reads[s] /\ Closed(Feed[i]) => Feed[i][2] <= ClosedTime(committed)
PreviewSound ==
    previewing # None => \A i \in DOMAIN Feed :
        Closed(Feed[i]) /\ Feed[i][2] < previewing => Feed[i][2] <= ClosedTime(committed)
SessionInv ==
    EventTypes /\ Untouched /\ CommitsSound /\ DeliveriesCommitted /\ PreviewSound

\* Of the committed bars, the answer to an event shows those until its bar, which
\* a preview has not closed.
Shows(bars, e) ==
    /\ Begins(bars, committed)
    /\ \A i \in DOMAIN committed :
          i <= Len(bars) <=> IF Closed(e) THEN committed[i].time <= e[2] ELSE committed[i].time < e[2]
Previewed(records, t) ==
    records # <<>> /\ \A i \in DOMAIN records : records[i].time = t /\ (records[i].isnew <=> i = 1)
AnswerRight(e, a) ==
    /\ Shows(a[1], e)
    /\ IF Closed(e) THEN a[2] = <<>>
       ELSE Previewed(a[2], e[2]) /\ a[2][Len(a[2])].value = e[3]
\* An event that was answered is closed or previewed, and a preview of the bar
\* that is previewed has its cells.
Current(e) ==
    \/ e[2] <= ClosedTime(committed)
    \/ ~Closed(e) /\ previewing # None /\ e[2] <= previewing
CellsSound ==
    /\ previewing # None =>
          /\ Previewed(cells, previewing)
          /\ \E e \in DOMAIN told : ~Closed(e) /\ e[2] = previewing /\ told[e] # {}
    /\ \A e \in DOMAIN told : \A a \in told[e] :
          /\ ~poisoned => Current(e)
          /\ ~Closed(e) /\ e[2] = previewing => Begins(a[2], cells)
ToldSound ==
    /\ \A e \in DOMAIN told : \A a \in told[e] : AnswerRight(e, a)
    /\ \A e, f \in DOMAIN told : \A a \in told[e], b \in told[f] :
          e[2] = f[2] => Begins(a[2], b[2]) \/ Begins(b[2], a[2])
NewsSound ==
    \A i \in DOMAIN committed :
        committed[i].isnew <=> \A e \in DOMAIN told : e[2] = committed[i].time /\ ~Closed(e) => told[e] = {}
LastSound ==
    last # None => last.event \in DOMAIN told /\ last.answer \in told[last.event]
AnswersInv == CellsSound /\ ToldSound /\ NewsSound /\ LastSound
EventsInv == SessionInv /\ AnswersInv

LEMMA FeedFacts ==
    /\ Feed \in Seq(Events!Events) /\ Len(Feed) \in Nat /\ DOMAIN Feed = 1 .. Len(Feed)
    /\ \A i \in DOMAIN Feed : Feed[i] \in Events!Events /\ Feed[i][2] \in Nat \ {0}
    /\ \A i, j \in DOMAIN Feed : i < j => Feed[i][2] <= Feed[j][2]
    /\ \A i, j \in DOMAIN Feed : i < j /\ Closed(Feed[i]) => Feed[i][2] < Feed[j][2]
    /\ History \in Seq(Events!Bars) /\ Ordered(History)
    /\ \A i \in DOMAIN History, j \in DOMAIN Feed : History[i].time < Feed[j][2]
    /\ None \notin Nat
BY HostConstants DEF Events!ConstantsAssumption, Events!Events, Closed, Ordered

LEMMA BarType ==
    ASSUME NEW i \in DOMAIN Feed
    PROVE  Events!Bar(Feed[i]) \in Events!Bars /\ Events!Bar(Feed[i]).time = Feed[i][2]
BY FeedFacts DEF Events!Bar, Events!Bars, Events!Events

LEMMA RecordType ==
    ASSUME NEW bar \in Events!Bars, NEW isnew \in BOOLEAN
    PROVE  /\ Events!Record(bar, isnew) \in Events!Records /\ BarOf(Events!Record(bar, isnew)) = bar
           /\ Events!Record(bar, isnew).time = bar.time /\ Events!Record(bar, isnew).value = bar.value
           /\ Events!Record(bar, isnew).isnew = isnew
BY DEF Events!Record, Events!Records, Events!Bars, BarOf

LEMMA ClosedTimeIs == Events!LastClosed = ClosedTime(committed)
BY DEF Events!LastClosed, Events!Last, ClosedTime
LEMMA ClosedTimeType ==
    ASSUME NEW bars \in Seq(Events!Records)
    PROVE  ClosedTime(bars) \in Nat
<1>1. CASE bars = <<>>
  BY <1>1 DEF ClosedTime
<1>2. CASE bars # <<>>
  <2>1. Len(bars) \in 1 .. Len(bars)
    BY <1>2, EmptySeq
  <2>2. bars[Len(bars)] \in Events!Records
    BY <2>1, ElementOfSeq
  <2> QED  BY <1>2, <2>2 DEF ClosedTime, Events!Records
<1> QED  BY <1>1, <1>2

\* No record is later than the last.
LEMMA ClosedTimeLast ==
    ASSUME NEW bars \in Seq(Events!Records), Ordered(bars), NEW i \in DOMAIN bars
    PROVE  bars[i].time \in Nat /\ bars[i].time <= ClosedTime(bars)
<1>1. /\ Len(bars) \in Nat /\ DOMAIN bars = 1 .. Len(bars) /\ bars # <<>>
      /\ Len(bars) \in DOMAIN bars /\ (i < Len(bars) \/ i = Len(bars))
  BY LenProperties, EmptySeq
<1>2. ASSUME NEW j \in DOMAIN bars  PROVE bars[j].time \in Nat
  <2>1. bars[j] \in Events!Records
    BY <1>1, ElementOfSeq
  <2> QED  BY <2>1 DEF Events!Records
<1> QED  BY <1>1, <1>2 DEF ClosedTime, Ordered

LEMMA PrefixIs ==
    ASSUME NEW S, NEW s \in Seq(S), NEW t \in Seq(S)
    PROVE  Events!IsPrefix(s, t) <=> Begins(s, t)
<1>1. Len(s) \in Nat /\ Len(t) \in Nat /\ DOMAIN s = 1 .. Len(s) /\ DOMAIN t = 1 .. Len(t)
  BY LenProperties
<1>2. SUFFICES ASSUME Len(s) <= Len(t)
               PROVE  SubSeq(s, 1, Len(s)) = SubSeq(t, 1, Len(s)) <=> \A i \in 1 .. Len(s) : s[i] = t[i]
  BY DEF Events!IsPrefix, Begins
<1>3. /\ SubSeq(s, 1, Len(s)) = [i \in 1 .. Len(s) |-> s[i]]
      /\ SubSeq(t, 1, Len(s)) = [i \in 1 .. Len(s) |-> t[i]]
  BY <1>1, <1>2
<1> QED  BY <1>3

LEMMA BeginsAppended ==
    ASSUME NEW S, NEW s \in Seq(S), NEW t \in Seq(S), NEW e \in S, Begins(s, t)
    PROVE  Begins(s, Append(t, e))
BY DEF Begins

-----------------------------------------------------------------------------
(* The session.                                                            *)

LEMMA SessionInit == Events!Init => SessionInv
<1> SUFFICES ASSUME Events!Init  PROVE SessionInv
  OBVIOUS
<1>1. /\ committed = <<>> /\ previewing = None /\ cells = <<>>
      /\ ~started /\ ~poisoned /\ ~seeded /\ last = None
      /\ {started, poisoned, seeded} \subseteq BOOLEAN
      /\ reads \in [Subscribers -> {-1, 0}] /\ told = [e \in Elements(Feed) |-> {}]
  BY DEF Events!Init, Events!ToSet, Elements
<1>2. ClosedTime(committed) = 0
  BY <1>1 DEF ClosedTime
<1>3. EventTypes /\ Untouched
  BY <1>1, FeedFacts DEF EventTypes, Untouched
<1>4. ClosedUpto(0) = {} /\ Elements(committed) = {}
  BY <1>1, FeedFacts DEF ClosedUpto, Elements
<1>5. CommitsSound
  BY <1>1, <1>2, <1>4 DEF CommitsSound, Ordered
<1>6. DeliveriesCommitted /\ PreviewSound
  BY <1>1, FeedFacts DEF DeliveriesCommitted, PreviewSound
<1> QED  BY <1>3, <1>5, <1>6 DEF SessionInv

\* What a step that changes the deliveries and nothing of the session keeps.
LEMMA SessionUnchanged ==
    ASSUME SessionInv, UNCHANGED <<committed, previewing, cells, started, poisoned, seeded, last, told>>,
           EventTypes', Untouched', DeliveriesCommitted'
    PROVE  SessionInv'
<1>1. ClosedTime(committed)' = ClosedTime(committed)
  OBVIOUS
<1>2. CommitsSound'
  BY <1>1 DEF SessionInv, CommitsSound
<1>3. PreviewSound'
  BY <1>1 DEF SessionInv, PreviewSound
<1> QED  BY <1>2, <1>3 DEF SessionInv

LEMMA DeliversFacts ==
    ASSUME SessionInv, NEW s \in Subscribers, Events!Delivers(s)
    PROVE  /\ reads[s] + 1 \in DOMAIN Feed /\ Events!Event(s) = Feed[reads[s] + 1]
           /\ Feed[reads[s] + 1] \in DOMAIN told
           /\ DOMAIN reads' = Subscribers /\ \A t \in Subscribers : reads'[t] \in -1 .. Len(Feed)
           /\ reads'[s] = reads[s] + 1 /\ \A t \in Subscribers : t # s => reads'[t] = reads[t]
BY FeedFacts DEF SessionInv, EventTypes, Events!Delivers, Events!Event, Elements

LEMMA AsksFacts ==
    ASSUME SessionInv, NEW s \in Subscribers, Events!Asks(s)
    PROVE  /\ DOMAIN reads' = Subscribers /\ \A t \in Subscribers : reads'[t] \in -1 .. Len(Feed)
           /\ \A t \in Subscribers : reads'[t] = reads[t] \/ reads'[t] = 0
BY FeedFacts DEF SessionInv, EventTypes, Events!Asks

\* The history up to a bar, as it is committed: before all of the feed.
LEMMA SeededFacts ==
    ASSUME NEW n \in 0 .. Len(History)
    PROVE  LET bars == [i \in 1 .. n |-> Events!Record(History[i], TRUE)]
           IN  /\ bars \in Seq(Events!Records) /\ Ordered(bars)
               /\ \A i \in DOMAIN bars : bars[i].isnew = TRUE
               /\ \A i \in DOMAIN bars, j \in DOMAIN Feed : bars[i].time < Feed[j][2]
               /\ {BarOf(r) : r \in Elements(bars)} = Past(ClosedTime(bars)) \cup ClosedUpto(ClosedTime(bars))
               /\ n = Len(History) => Past(ClosedTime(bars)) = Elements(History)
<1> DEFINE bars == [i \in 1 .. n |-> Events!Record(History[i], TRUE)]
<1>1. /\ Len(History) \in Nat /\ DOMAIN History = 1 .. Len(History) /\ n \in Nat
      /\ \A i \in DOMAIN History : History[i] \in Events!Bars /\ History[i].time \in Nat \ {0}
  <2>1. Len(History) \in Nat /\ DOMAIN History = 1 .. Len(History) /\ n \in Nat
    BY FeedFacts, LenProperties
  <2>2. \A i \in DOMAIN History : History[i] \in Events!Bars
    BY <2>1, FeedFacts, ElementOfSeq
  <2> QED  BY <2>1, <2>2 DEF Events!Bars
<1>2. ASSUME NEW i \in 1 .. n
      PROVE  /\ i \in DOMAIN History /\ bars[i] \in Events!Records /\ BarOf(bars[i]) = History[i]
             /\ bars[i].time = History[i].time /\ bars[i].isnew = TRUE
  <2>1. i \in DOMAIN History /\ bars[i] = Events!Record(History[i], TRUE)
    BY <1>1
  <2> HIDE DEF bars
  <2> QED  BY <1>1, <2>1, RecordType
<1>3. DOMAIN bars = 1 .. n
  OBVIOUS
<1>4. bars \in Seq(Events!Records) /\ Len(bars) = n
  <2>1. bars \in [1 .. n -> Events!Records]
    BY <1>2
  <2> HIDE DEF bars
  <2> QED  BY <1>1, <2>1
<1> HIDE DEF bars
<1>5. Ordered(bars)
  BY <1>1, <1>2, <1>3, FeedFacts DEF Ordered
<1>6. \A i \in DOMAIN bars, j \in DOMAIN Feed : bars[i].time < Feed[j][2]
  BY <1>2, <1>3, FeedFacts
<1>7. /\ ClosedTime(bars) \in Nat
      /\ n = 0 => ClosedTime(bars) = 0
      /\ n # 0 => n \in 1 .. n /\ ClosedTime(bars) = History[n].time
  <2>1. CASE n = 0
    BY <1>4, <2>1, EmptySeq DEF ClosedTime
  <2>2. CASE n # 0
    <3>1. bars # <<>> /\ n \in 1 .. n
      BY <1>1, <1>4, <2>2, EmptySeq
    <3>2. ClosedTime(bars) = bars[n].time
      BY <1>4, <3>1 DEF ClosedTime
    <3> QED  BY <1>1, <1>2, <2>2, <3>1, <3>2
  <2> QED  BY <2>1, <2>2
<1>8. ClosedUpto(ClosedTime(bars)) = {}
  <2> SUFFICES ASSUME NEW j \in DOMAIN Feed  PROVE ~(Feed[j][2] <= ClosedTime(bars))
    BY DEF ClosedUpto
  <2>1. Feed[j][2] \in Nat \ {0} /\ (n # 0 => History[n].time < Feed[j][2] /\ History[n].time \in Nat)
    BY <1>1, <1>2, <1>7, FeedFacts
  <2> QED  BY <1>7, <2>1
<1>9. ASSUME NEW i \in DOMAIN History  PROVE History[i].time <= ClosedTime(bars) <=> i \in 1 .. n
  <2>1. CASE n = 0
    BY <1>1, <1>7, <2>1
  <2>2. CASE n # 0
    <3>1. n \in DOMAIN History /\ ClosedTime(bars) = History[n].time
      BY <1>2, <1>7, <2>2
    <3>2. /\ i < n => History[i].time < History[n].time
          /\ n < i => History[n].time < History[i].time
      BY <3>1, FeedFacts DEF Ordered
    <3> QED  BY <1>1, <3>1, <3>2
  <2> QED  BY <2>1, <2>2
<1>10. {BarOf(r) : r \in Elements(bars)} = Past(ClosedTime(bars))
  <2>1. {BarOf(r) : r \in Elements(bars)} = {History[i] : i \in 1 .. n}
    BY <1>2, <1>3 DEF Elements
  <2>2. Past(ClosedTime(bars)) = {History[i] : i \in 1 .. n}
    BY <1>2, <1>9 DEF Past, Elements
  <2> QED  BY <2>1, <2>2
<1>11. n = Len(History) => Past(ClosedTime(bars)) = Elements(History)
  BY <1>1, <1>9 DEF Past, Elements
<1> QED  BY <1>2, <1>3, <1>4, <1>5, <1>6, <1>8, <1>10, <1>11 DEF bars

\* The session is seeded, wholly or up to a failure.
LEMMA SeedsFacts ==
    ASSUME SessionInv, NEW s \in Subscribers, Events!Seed(s) \/ Events!SeedFails(s)
    PROVE  /\ committed' \in Seq(Events!Records) /\ Ordered(committed')
           /\ \A i \in DOMAIN committed' : committed'[i].isnew = TRUE
           /\ {BarOf(r) : r \in Elements(committed')}
                = Past(ClosedTime(committed')) \cup ClosedUpto(ClosedTime(committed'))
           /\ Events!Asks(s) /\ ~started /\ ~poisoned /\ ~seeded
           /\ UNCHANGED <<previewing, cells, last, told>>
           /\ \/ /\ Past(ClosedTime(committed')) = Elements(History)
                 /\ started' = TRUE /\ seeded' = TRUE /\ poisoned' = poisoned
              \/ started' = started /\ seeded' = seeded /\ poisoned' = TRUE
<1>1. CASE Events!Seed(s)
  <2>1. Len(History) \in 0 .. Len(History) /\ DOMAIN History = 1 .. Len(History)
    BY FeedFacts, LenProperties
  <2>2. committed' = [i \in 1 .. Len(History) |-> Events!Record(History[i], TRUE)]
    BY <1>1, <2>1 DEF Events!Seed
  <2> QED  BY <1>1, <2>1, <2>2, SeededFacts DEF Events!Seed
<1>2. CASE Events!SeedFails(s)
  <2>1. PICK n \in 0 .. Len(History) : committed' = [i \in 1 .. n |-> Events!Record(History[i], TRUE)]
    BY <1>2 DEF Events!SeedFails
  <2> QED  BY <1>2, <2>1, SeededFacts DEF Events!SeedFails
<1> QED  BY <1>1, <1>2

\* The types are kept when those of what changes are.
LEMMA TypesKept ==
    ASSUME SessionInv, committed' \in Seq(Events!Records), cells' \in Seq(Events!Records),
           previewing' \in Nat \cup {None}, {started', poisoned', seeded'} \subseteq BOOLEAN,
           DOMAIN reads' = Subscribers, \A s \in Subscribers : reads'[s] \in -1 .. Len(Feed),
           told' = told
    PROVE  EventTypes'
BY DEF SessionInv, EventTypes

LEMMA SeedsStep ==
    ASSUME SessionInv, NEW s \in Subscribers, Events!Seed(s) \/ Events!SeedFails(s)  PROVE SessionInv'
<1>1. /\ previewing = None /\ last = None /\ UNCHANGED <<previewing, cells, last, told>>
      /\ \A t \in Subscribers : reads[t] <= 0
      /\ \A e \in DOMAIN told : told[e] = {}
      /\ started' \/ poisoned'
      /\ {started', poisoned', seeded'} \subseteq BOOLEAN
  BY SeedsFacts DEF SessionInv, EventTypes, Untouched
<1>2. /\ DOMAIN reads' = Subscribers
      /\ \A t \in Subscribers : reads'[t] \in -1 .. Len(Feed) /\ reads'[t] <= 0
  <2>1. Events!Asks(s)
    BY SeedsFacts
  <2> QED  BY <1>1, <2>1, AsksFacts
<1>3. EventTypes' /\ Untouched'
  <2>1. EventTypes'
    BY <1>1, <1>2, SeedsFacts, TypesKept DEF SessionInv, EventTypes
  <2> QED  BY <1>1, <2>1 DEF Untouched
<1>4. CommitsSound'
  <2>1. /\ seeded' => Past(ClosedTime(committed')) = Elements(History)
        /\ ~seeded' => poisoned'
    BY SeedsFacts
  <2> QED  BY <2>1, SeedsFacts DEF CommitsSound
<1>5. DeliveriesCommitted' /\ PreviewSound'
  BY <1>1, <1>2, FeedFacts DEF DeliveriesCommitted, PreviewSound
<1> QED  BY <1>3, <1>4, <1>5 DEF SessionInv

LEMMA ShowStep == ASSUME SessionInv, NEW s \in Subscribers, Events!Show(s)  PROVE SessionInv'
<1>1. /\ UNCHANGED <<committed, previewing, cells, started, poisoned, seeded, last, told>>
      /\ Events!Asks(s)
  BY DEF Events!Show
<1>2. /\ DOMAIN reads' = Subscribers
      /\ \A t \in Subscribers : reads'[t] \in -1 .. Len(Feed) /\ (reads'[t] = reads[t] \/ reads'[t] = 0)
  BY <1>1, AsksFacts
<1>3. EventTypes' /\ Untouched' /\ DeliveriesCommitted'
  <2>1. EventTypes'
    BY <1>1, <1>2, TypesKept DEF SessionInv, EventTypes
  <2>2. Untouched'
    BY <1>1, <1>2 DEF SessionInv, EventTypes, Untouched
  <2>3. DeliveriesCommitted'
    BY <1>1, <1>2, FeedFacts DEF SessionInv, EventTypes, DeliveriesCommitted
  <2> QED  BY <2>1, <2>2, <2>3
<1> QED  BY <1>1, <1>3, SessionUnchanged

\* A repeated event was answered: it is committed, or a preview.
LEMMA RepeatFacts ==
    ASSUME EventsInv, NEW s \in Subscribers, Events!Repeat(s)
    PROVE  /\ Events!Delivers(s) /\ told' = told
           /\ UNCHANGED <<committed, previewing, cells, started, poisoned, seeded, last>>
           /\ ~poisoned /\ Closed(Feed[reads[s] + 1]) => Feed[reads[s] + 1][2] <= ClosedTime(committed)
<1> DEFINE e == Feed[reads[s] + 1]
<1>1. /\ Events!Delivers(s) /\ Events!Event(s) = e /\ last # None /\ last.event = e
      /\ told' = [told EXCEPT ![e] = @ \cup {last.answer}]
      /\ UNCHANGED <<committed, previewing, cells, started, poisoned, seeded, last>>
  BY DeliversFacts DEF EventsInv, Events!Repeat, Events!Repeated, Events!Tell
<1>2. e \in DOMAIN told /\ last.answer \in told[e]
  BY <1>1 DEF EventsInv, AnswersInv, LastSound
<1>3. told' = told
  <2>1. told[e] \cup {last.answer} = told[e]
    BY <1>2
  <2>2. told \in [Elements(Feed) -> SUBSET Events!Answers]
    BY DEF EventsInv, SessionInv, EventTypes
  <2> HIDE DEF e
  <2> QED  BY <1>1, <1>2, <2>1, <2>2
<1>4. ~poisoned /\ Closed(e) => e[2] <= ClosedTime(committed)
  BY <1>2 DEF EventsInv, AnswersInv, CellsSound, Current
<1> QED  BY <1>1, <1>3, <1>4

\* A bar that is refused is closed or left behind, and if it was the last that
\* was heard of it, it was closed.
LEMMA RefuseFacts ==
    ASSUME SessionInv, NEW s \in Subscribers, Events!Refuse(s)
    PROVE  /\ Events!Delivers(s)
           /\ UNCHANGED <<committed, previewing, cells, started, poisoned, seeded, last, told>>
           /\ poisoned \/ started
           /\ ~poisoned /\ Closed(Feed[reads[s] + 1]) => Feed[reads[s] + 1][2] <= ClosedTime(committed)
<1> DEFINE e == Feed[reads[s] + 1]
<1>1. /\ Events!Delivers(s) /\ (poisoned \/ Events!IsStale(e)) /\ reads[s] + 1 \in DOMAIN Feed
      /\ UNCHANGED <<committed, previewing, cells, started, poisoned, seeded, last, told>>
  BY DeliversFacts DEF Events!Refuse
<1>2. ~poisoned /\ Closed(e) => e[2] <= ClosedTime(committed)
  BY <1>1, ClosedTimeIs DEF SessionInv, PreviewSound, Events!IsStale
<1>3. poisoned \/ started
  <2> SUFFICES ASSUME ~poisoned, ~started  PROVE FALSE
    OBVIOUS
  <2>1. ClosedTime(committed) = 0 /\ previewing = None
    BY DEF SessionInv, Untouched, ClosedTime
  <2> QED  BY <1>1, <2>1, ClosedTimeIs, FeedFacts DEF Events!IsStale
<1> QED  BY <1>1, <1>2, <1>3

LEMMA DeliveredStep ==
    ASSUME SessionInv, NEW s \in Subscribers, Events!Delivers(s),
           UNCHANGED <<committed, previewing, cells, started, poisoned, seeded, last, told>>,
           ~poisoned /\ Closed(Feed[reads[s] + 1]) => Feed[reads[s] + 1][2] <= ClosedTime(committed),
           poisoned \/ started
    PROVE  SessionInv'
<1> DEFINE i == reads[s] + 1
<1>1. /\ i \in DOMAIN Feed /\ i \in Nat
      /\ DOMAIN reads' = Subscribers /\ \A t \in Subscribers : reads'[t] \in -1 .. Len(Feed)
      /\ reads'[s] = i /\ \A t \in Subscribers : t # s => reads'[t] = reads[t]
  BY DeliversFacts, FeedFacts
<1>2. DeliveriesCommitted'
  <2> SUFFICES ASSUME ~poisoned, NEW t \in Subscribers, NEW j \in DOMAIN Feed, j <= reads'[t], Closed(Feed[j])
               PROVE  Feed[j][2] <= ClosedTime(committed)
    BY DEF DeliveriesCommitted
  <2>1. CASE t = s /\ j = i
    BY <2>1
  <2>2. CASE ~(t = s /\ j = i)
    <3>1. j <= reads[t]
      BY <1>1, <2>2, FeedFacts DEF SessionInv, EventTypes
    <3> QED  BY <3>1 DEF SessionInv, DeliveriesCommitted
  <2> QED  BY <2>1, <2>2
<1>3. EventTypes' /\ Untouched'
  BY <1>1 DEF SessionInv, EventTypes, Untouched
<1> QED  BY <1>2, <1>3, SessionUnchanged

LEMMA FailStep == ASSUME SessionInv, NEW s \in Subscribers, Events!Fail(s)  PROVE SessionInv'
<1>1. /\ Events!Delivers(s) /\ poisoned' = TRUE /\ started' = FALSE /\ previewing' = None /\ cells' = <<>>
      /\ ~poisoned /\ UNCHANGED <<committed, seeded, last, told>>
  BY DEF Events!Fail
<1>2. DOMAIN reads' = Subscribers /\ \A t \in Subscribers : reads'[t] \in -1 .. Len(Feed)
  BY <1>1, DeliversFacts
<1>3. EventTypes' /\ Untouched'
  <2>1. EventTypes'
    BY <1>1, <1>2, TypesKept, EmptySeq DEF SessionInv, EventTypes
  <2> QED  BY <1>1, <2>1 DEF Untouched
<1>4. CommitsSound' /\ DeliveriesCommitted' /\ PreviewSound'
  <2>1. CommitsSound'
    BY <1>1 DEF SessionInv, CommitsSound
  <2> QED  BY <1>1, <2>1 DEF DeliveriesCommitted, PreviewSound
<1> QED  BY <1>3, <1>4 DEF SessionInv

\* The event of a subscriber, and what a script records of it.
Due(s) == Feed[reads[s] + 1]
NewRecord(s) == Events!Record(Events!Bar(Due(s)), previewing # Due(s)[2])

\* What processing an event is.  Its bar is later than all that is closed, and
\* not before what is previewed.
LEMMA ProcessFacts ==
    ASSUME SessionInv, NEW s \in Subscribers, Events!Process(s),
           NEW e, e = Due(s), NEW record, record = NewRecord(s)
    PROVE  /\ Events!Delivers(s) /\ ~poisoned /\ e \in DOMAIN told
           /\ record \in Events!Records /\ BarOf(record) = Events!Bar(e)
           /\ record.time = e[2] /\ record.value = e[3] /\ (record.isnew <=> previewing # e[2])
           /\ e[2] \in Nat /\ ClosedTime(committed) \in Nat /\ ClosedTime(committed) < e[2]
           /\ previewing # None => previewing \in Nat /\ previewing <= e[2]
           /\ IF Closed(e)
                THEN committed' = Append(committed, record) /\ previewing' = None /\ cells' = <<>>
                ELSE /\ cells' = Append(IF previewing = e[2] THEN cells ELSE <<>>, record)
                     /\ previewing' = e[2] /\ committed' = committed
           /\ last' = [event |-> e, answer |-> <<committed', cells'>>]
           /\ told' = [told EXCEPT ![e] = @ \cup {<<committed', cells'>>}]
           /\ started' = TRUE /\ UNCHANGED <<poisoned, seeded>>
<1>1. /\ Events!Delivers(s) /\ ~poisoned /\ ~Events!IsStale(e) /\ e \in DOMAIN told
      /\ reads[s] + 1 \in DOMAIN Feed /\ Events!Event(s) = e /\ e = Feed[reads[s] + 1]
  <2>1. Events!Delivers(s) /\ ~poisoned /\ ~Events!IsStale(Events!Event(s))
    BY DEF Events!Process
  <2>2. Events!Event(s) = e
    BY <2>1, DeliversFacts DEF Due
  <2>3. e \in DOMAIN told /\ reads[s] + 1 \in DOMAIN Feed
    BY <2>1, DeliversFacts DEF Due
  <2>4. ~Events!IsStale(e)
    BY <2>1, <2>2 DEF Events!IsStale
  <2> QED  BY <2>1, <2>2, <2>3, <2>4 DEF Due
<1>2. /\ Events!Bar(e) \in Events!Bars /\ Events!Bar(e).time = e[2] /\ Events!Bar(e).value = e[3]
      /\ e[2] \in Nat
  BY <1>1, BarType, FeedFacts DEF Events!Bar
<1>3. /\ record \in Events!Records /\ BarOf(record) = Events!Bar(e)
      /\ record.time = e[2] /\ record.value = e[3] /\ (record.isnew <=> previewing # e[2])
  <2>1. (previewing # e[2]) \in BOOLEAN
    OBVIOUS
  <2>2. record = Events!Record(Events!Bar(e), previewing # e[2])
    BY DEF NewRecord
  <2> QED  BY <1>2, <2>1, <2>2, RecordType
<1>4. /\ ClosedTime(committed) \in Nat /\ ClosedTime(committed) < e[2]
      /\ previewing # None => previewing \in Nat /\ previewing <= e[2]
  <2>1. ClosedTime(committed) \in Nat /\ previewing \in Nat \cup {None}
    BY ClosedTimeType DEF SessionInv, EventTypes
  <2>2. ~(e[2] <= ClosedTime(committed)) /\ ~(previewing # None /\ e[2] < previewing)
    BY <1>1, ClosedTimeIs DEF Events!IsStale
  <2> QED  BY <1>2, <2>1, <2>2
<1>5. /\ IF Closed(e)
           THEN committed' = Append(committed, record) /\ previewing' = None /\ cells' = <<>>
           ELSE /\ cells' = Append(IF previewing = e[2] THEN cells ELSE <<>>, record)
                /\ previewing' = e[2] /\ committed' = committed
      /\ last' = [event |-> e, answer |-> <<committed', cells'>>]
      /\ told' = [told EXCEPT ![e] = @ \cup {<<committed', cells'>>}]
      /\ started' = TRUE /\ UNCHANGED <<poisoned, seeded>>
  BY <1>1 DEF Events!Process, Events!Tell, Closed, NewRecord
<1> QED  BY <1>1, <1>2, <1>3, <1>4, <1>5

LEMMA ProcessTypes ==
    ASSUME SessionInv, NEW s \in Subscribers, Events!Process(s),
           NEW e, e = Due(s), NEW record, record = NewRecord(s)
    PROVE  /\ EventTypes' /\ started'
           /\ ClosedTime(committed') = IF Closed(e) THEN e[2] ELSE ClosedTime(committed)
           /\ told'[e] = told[e] \cup {<<committed', cells'>>} /\ DOMAIN told' = DOMAIN told
           /\ \A f \in DOMAIN told : f # e => told'[f] = told[f]
<1> DEFINE answer_ == <<committed', cells'>>
<1>1. /\ record \in Events!Records /\ record.time = e[2] /\ e[2] \in Nat /\ e \in DOMAIN told
      /\ IF Closed(e)
           THEN committed' = Append(committed, record) /\ previewing' = None /\ cells' = <<>>
           ELSE /\ cells' = Append(IF previewing = e[2] THEN cells ELSE <<>>, record)
                /\ previewing' = e[2] /\ committed' = committed
      /\ told' = [told EXCEPT ![e] = @ \cup {answer_}]
      /\ started' = TRUE /\ UNCHANGED <<poisoned, seeded>> /\ Events!Delivers(s)
  BY ProcessFacts
<1>2. committed \in Seq(Events!Records) /\ cells \in Seq(Events!Records)
      /\ told \in [Elements(Feed) -> SUBSET Events!Answers]
  BY DEF SessionInv, EventTypes
<1>3. committed' \in Seq(Events!Records) /\ cells' \in Seq(Events!Records) /\ previewing' \in Nat \cup {None}
  <2>1. CASE Closed(e)
    <3>1. committed' = Append(committed, record) /\ record \in Events!Records /\ cells' = <<>> /\ previewing' = None
      BY <1>1, <2>1
    <3> QED  BY <1>2, <3>1, AppendProperties, EmptySeq
  <2>2. CASE ~Closed(e)
    <3> DEFINE old == IF previewing = e[2] THEN cells ELSE <<>>
    <3>1. old \in Seq(Events!Records)
      BY <1>2, EmptySeq
    <3>2. cells' = Append(old, record) /\ record \in Events!Records
      BY <1>1, <2>2
    <3> HIDE DEF old
    <3>3. cells' \in Seq(Events!Records)
      BY <3>1, <3>2, AppendProperties
    <3> QED  BY <1>1, <1>2, <2>2, <3>3
  <2> QED  BY <2>1, <2>2
<1>4. /\ told' \in [Elements(Feed) -> SUBSET Events!Answers]
      /\ told'[e] = told[e] \cup {answer_} /\ DOMAIN told' = DOMAIN told
      /\ \A f \in DOMAIN told : f # e => told'[f] = told[f]
  <2>1. answer_ \in Events!Answers
    BY <1>3 DEF Events!Answers
  <2> HIDE DEF answer_
  <2> QED  BY <1>1, <1>2, <2>1
<1>5. EventTypes'
  <2>1. {started', poisoned', seeded'} \subseteq BOOLEAN
    BY <1>1 DEF SessionInv, EventTypes
  <2>2. DOMAIN reads' = Subscribers /\ \A t \in Subscribers : reads'[t] \in -1 .. Len(Feed)
    BY <1>1, DeliversFacts
  <2> QED  BY <1>3, <1>4, <2>1, <2>2 DEF EventTypes
<1>6. ClosedTime(committed') = IF Closed(e) THEN e[2] ELSE ClosedTime(committed)
  <2>1. CASE Closed(e)
    <3>1. committed' # <<>> /\ Len(committed') = Len(committed) + 1 /\ committed'[Len(committed) + 1] = record
      BY <1>1, <1>2, <2>1, AppendProperties
    <3> QED  BY <1>1, <2>1, <3>1 DEF ClosedTime
  <2>2. CASE ~Closed(e)
    BY <1>1, <2>2
  <2> QED  BY <2>1, <2>2
<1> QED  BY <1>1, <1>4, <1>5, <1>6

\* Closed, the bar is the one of the feed that becomes due: the earlier ones
\* were delivered before.
LEMMA ProcessSession ==
    ASSUME SessionInv, NEW s \in Subscribers, Events!Process(s),
           NEW i, i = reads[s] + 1, NEW e, e = Due(s), NEW record, record = NewRecord(s)
    PROVE  SessionInv'
<1> DEFINE bar == Events!Bar(e)
           was == ClosedTime(committed)
           now == ClosedTime(committed')
<1>1. /\ i \in DOMAIN Feed /\ i \in Nat /\ e = Feed[i]
      /\ \A t \in Subscribers, j \in DOMAIN Feed : j <= reads'[t] => j = i \/ j < i \/ j <= reads[t]
      /\ \A j \in DOMAIN Feed : j < i => j <= reads[s]
  <2>1. /\ i \in DOMAIN Feed /\ reads'[s] = i /\ \A t \in Subscribers : t # s => reads'[t] = reads[t]
    BY DeliversFacts DEF Events!Process
  <2>2. i \in Nat /\ reads[s] \in Int /\ \A j \in DOMAIN Feed : j \in Nat
    BY <2>1, FeedFacts DEF SessionInv, EventTypes
  <2>3. ASSUME NEW t \in Subscribers, NEW j \in DOMAIN Feed, j <= reads'[t]
        PROVE  j = i \/ j < i \/ j <= reads[t]
    BY <2>1, <2>2, <2>3
  <2>4. \A j \in DOMAIN Feed : j < i => j <= reads[s]
    BY <2>2
  <2> QED  BY <2>1, <2>2, <2>3, <2>4 DEF Due
<1>2. /\ ~poisoned /\ record \in Events!Records /\ BarOf(record) = bar /\ record.time = e[2]
      /\ e[2] \in Nat /\ was \in Nat /\ was < e[2]
      /\ IF Closed(e) THEN committed' = Append(committed, record) /\ previewing' = None
         ELSE committed' = committed /\ previewing' = e[2]
      /\ UNCHANGED <<poisoned, seeded>>
  BY ProcessFacts
<1>3. EventTypes' /\ started' /\ now = IF Closed(e) THEN e[2] ELSE was
  BY ProcessTypes
<1>4. was <= now /\ now <= e[2] /\ now \in Nat
  <2> HIDE DEF was, now
  <2> QED  BY <1>2, <1>3
<1>5. Untouched'
  BY <1>3 DEF Untouched
\* Of the closed bars of the feed, the earlier ones are committed and the later
\* ones are not due.
<1>6. ASSUME NEW j \in DOMAIN Feed, Closed(Feed[j]), j # i
      PROVE  /\ j < i => Feed[j][2] <= was
             /\ Feed[j][2] < e[2] => Feed[j][2] <= was
             /\ Closed(e) /\ Feed[j][2] <= e[2] => Feed[j][2] <= was
  <2>1. j < i => Feed[j][2] <= was
    <3> QED  BY <1>1, <1>2, <1>6 DEF SessionInv, DeliveriesCommitted
  <2>2. j > i => e[2] <= Feed[j][2] /\ (Closed(e) => e[2] < Feed[j][2])
    BY <1>1, FeedFacts
  <2>3. Feed[j][2] \in Nat /\ j \in Nat
    BY FeedFacts
  <2> HIDE DEF was
  <2> QED  BY <1>1, <1>2, <1>6, <2>1, <2>2, <2>3
<1>7. CASE ~Closed(e)
  <2>1. committed' = committed /\ previewing' = e[2] /\ now = was
    BY <1>2, <1>3, <1>7
  <2>2. CommitsSound'
    BY <1>2, <2>1 DEF SessionInv, CommitsSound
  <2>3. DeliveriesCommitted'
    <3> SUFFICES ASSUME NEW t \in Subscribers, NEW j \in DOMAIN Feed, j <= reads'[t], Closed(Feed[j])
                 PROVE  Feed[j][2] <= was
      BY <2>1 DEF DeliveriesCommitted
    <3>1. j # i /\ (j <= reads[t] \/ j < i)
      BY <1>1, <1>7
    <3> QED  BY <1>2, <1>6, <3>1 DEF SessionInv, DeliveriesCommitted
  <2>4. PreviewSound'
    <3> SUFFICES ASSUME NEW j \in DOMAIN Feed, Closed(Feed[j]), Feed[j][2] < e[2]
                 PROVE  Feed[j][2] <= was
      BY <2>1 DEF PreviewSound
    <3> QED  BY <1>1, <1>6, <1>7
  <2> QED  BY <1>3, <1>5, <2>2, <2>3, <2>4 DEF SessionInv
<1>8. CASE Closed(e)
  <2>1. committed' = Append(committed, record) /\ previewing' = None /\ now = e[2]
    BY <1>2, <1>3, <1>8
  <2>2. /\ Len(committed') = Len(committed) + 1 /\ committed'[Len(committed) + 1] = record
        /\ \A m \in 1 .. Len(committed) : committed'[m] = committed[m]
        /\ Len(committed) \in Nat /\ DOMAIN committed = 1 .. Len(committed)
        /\ DOMAIN committed' = 1 .. Len(committed) + 1
        /\ committed \in Seq(Events!Records) /\ Ordered(committed)
    <3>1. committed \in Seq(Events!Records) /\ Ordered(committed)
      BY DEF SessionInv, EventTypes, CommitsSound
    <3> QED  BY <1>2, <2>1, <3>1, AppendProperties, LenProperties
  <2>3. Ordered(committed')
    <3> SUFFICES ASSUME NEW m \in 1 .. Len(committed) + 1, NEW n \in 1 .. Len(committed) + 1, m < n
                 PROVE  committed'[m].time < committed'[n].time
      BY <2>2 DEF Ordered
    <3>1. m \in DOMAIN committed /\ committed'[m] = committed[m]
      BY <2>2
    <3>2. CASE n = Len(committed) + 1
      <4>1. committed[m].time \in Nat /\ committed[m].time <= was
        BY <2>2, <3>1, ClosedTimeLast
      <4>2. committed'[n].time = e[2]
        BY <1>2, <2>2, <3>2
      <4> HIDE DEF was
      <4> QED  BY <1>2, <3>1, <4>1, <4>2
    <3>3. CASE n \in 1 .. Len(committed)
      BY <2>2, <3>1, <3>3 DEF Ordered
    <3> QED  BY <2>2, <3>2, <3>3
  <2>4. {BarOf(r) : r \in Elements(committed')} = {BarOf(r) : r \in Elements(committed)} \cup {bar}
    <3>1. /\ \A m \in 1 .. Len(committed) + 1 : m \in 1 .. Len(committed) \/ m = Len(committed) + 1
          /\ 1 .. Len(committed) \subseteq 1 .. Len(committed) + 1
          /\ Len(committed) + 1 \in 1 .. Len(committed) + 1
      BY <2>2
    <3>2. Elements(committed') = Elements(committed) \cup {record}
      <4> QED  BY <2>2, <3>1 DEF Elements
    <3> HIDE DEF bar
    <3> QED  BY <1>2, <3>2
  <2>5. ClosedUpto(now) = ClosedUpto(was) \cup {bar}
    <3>1. ASSUME NEW j \in DOMAIN Feed, Closed(Feed[j])
          PROVE  Feed[j][2] <= now <=> Feed[j][2] <= was \/ j = i
      <4>1. CASE j = i
        BY <1>1, <1>2, <2>1, <4>1
      <4>2. CASE j # i
        <5>1. Feed[j][2] <= now => Feed[j][2] <= was
          BY <1>6, <1>8, <2>1, <3>1, <4>2
        <5>2. Feed[j][2] <= was => Feed[j][2] <= now
          <6>1. Feed[j][2] \in Nat
            BY FeedFacts
          <6> HIDE DEF now, was
          <6> QED  BY <1>2, <1>4, <6>1
        <5> QED  BY <4>2, <5>1, <5>2
      <4> QED  BY <4>1, <4>2
    <3> HIDE DEF now, was
    <3> QED  BY <1>1, <1>8, <3>1 DEF ClosedUpto
  <2>6. CommitsSound'
    <3>1. PICK past \in {{}, Past(was)} :
             /\ {BarOf(r) : r \in Elements(committed)} = past \cup ClosedUpto(was)
             /\ seeded => past = Elements(History)
             /\ ~seeded /\ ~poisoned => past = {}
      BY DEF SessionInv, CommitsSound
    <3>2. {BarOf(r) : r \in Elements(committed')} = past \cup ClosedUpto(now)
      <4> HIDE DEF now, was, bar
      <4> QED  BY <2>4, <2>5, <3>1
    <3>3. past \in {{}, Past(now)}
      <4>1. past # {} => past = Elements(History)
        BY <1>2, <3>1
      <4>2. past = Past(was) => past \subseteq Past(now)
        <5>1. ASSUME NEW h \in Past(was)  PROVE h \in Past(now)
          <6>1. h \in Elements(History) /\ h.time <= was
            BY DEF Past
          <6>2. PICK k \in DOMAIN History : h = History[k]
            BY <6>1 DEF Elements
          <6>3. h.time \in Nat
            <7>1. h \in Events!Bars
              BY <6>2, FeedFacts, ElementOfSeq, LenProperties
            <7> QED  BY <7>1 DEF Events!Bars
          <6>4. h.time <= now
            <7> HIDE DEF was, now
            <7> QED  BY <1>2, <1>4, <6>1, <6>3
          <6> QED  BY <6>1, <6>4 DEF Past
        <5> QED  BY <5>1
      <4>3. Past(now) \subseteq Elements(History)
        BY DEF Past
      <4> HIDE DEF now, was
      <4> QED  BY <3>1, <4>1, <4>2, <4>3
    <3> HIDE DEF now, was
    <3> QED  BY <1>2, <2>3, <3>1, <3>2, <3>3 DEF CommitsSound, now
  <2>7. DeliveriesCommitted'
    <3> SUFFICES ASSUME NEW t \in Subscribers, NEW j \in DOMAIN Feed, j <= reads'[t], Closed(Feed[j])
                 PROVE  Feed[j][2] <= now
      BY DEF DeliveriesCommitted
    <3>1. CASE j = i
      BY <1>1, <1>2, <2>1, <3>1
    <3>2. CASE j # i
      <4>1. j <= reads[t] \/ j < i
        BY <1>1, <3>2
      <4>2. Feed[j][2] <= was /\ Feed[j][2] \in Nat
        BY <1>2, <1>6, <3>2, <4>1, FeedFacts DEF SessionInv, DeliveriesCommitted
      <4> HIDE DEF was, now
      <4> QED  BY <1>2, <1>4, <4>2
    <3> QED  BY <3>1, <3>2
  <2>8. PreviewSound'
    BY <2>1 DEF PreviewSound
  <2> QED  BY <1>3, <1>5, <2>6, <2>7, <2>8 DEF SessionInv
<1> QED  BY <1>7, <1>8

-----------------------------------------------------------------------------
(* The answers.                                                            *)

LEMMA AnswersInit == Events!Init => AnswersInv
<1> SUFFICES ASSUME Events!Init  PROVE AnswersInv
  OBVIOUS
<1>1. /\ committed = <<>> /\ previewing = None /\ last = None /\ told = [e \in Elements(Feed) |-> {}]
  BY DEF Events!Init, Events!ToSet, Elements
<1> QED  BY <1>1 DEF AnswersInv, CellsSound, ToldSound, NewsSound, LastSound

LEMMA AnswersUnchanged ==
    ASSUME AnswersInv, UNCHANGED <<committed, previewing, cells, poisoned, last, told>>
    PROVE  AnswersInv'
BY DEF AnswersInv, CellsSound, ToldSound, NewsSound, LastSound, Current, AnswerRight, Shows

LEMMA SeedsAnswers ==
    ASSUME EventsInv, NEW s \in Subscribers, Events!Seed(s) \/ Events!SeedFails(s)  PROVE AnswersInv'
<1>1. /\ previewing' = None /\ last' = None /\ told' = told /\ \A e \in DOMAIN told : told[e] = {}
      /\ \A i \in DOMAIN committed' : committed'[i].isnew = TRUE
  BY SeedsFacts DEF EventsInv, SessionInv, Untouched
<1> QED  BY <1>1 DEF AnswersInv, CellsSound, ToldSound, NewsSound, LastSound

LEMMA FailAnswers == ASSUME EventsInv, NEW s \in Subscribers, Events!Fail(s)  PROVE AnswersInv'
<1>1. previewing' = None /\ poisoned' = TRUE /\ UNCHANGED <<committed, last, told>>
  BY DEF Events!Fail
<1>2. CellsSound'
  <2>1. \A e \in DOMAIN told : e[2] # None
    BY FeedFacts DEF EventsInv, SessionInv, EventTypes, Elements
  <2> QED  BY <1>1, <2>1 DEF CellsSound
<1>3. ToldSound' /\ NewsSound' /\ LastSound'
  BY <1>1 DEF EventsInv, AnswersInv, ToldSound, NewsSound, LastSound, AnswerRight, Shows
<1> QED  BY <1>2, <1>3 DEF AnswersInv

\* Of the next bar, nobody was told anything unless it is previewed.
LEMMA Untold ==
    ASSUME EventsInv, ~poisoned, NEW t \in Nat, ClosedTime(committed) < t,
           previewing # None => previewing <= t,
           NEW f \in DOMAIN told, f[2] = t, told[f] # {}
    PROVE  ~Closed(f) /\ previewing = t
<1>1. Current(f)
  BY DEF EventsInv, AnswersInv, CellsSound
<1>2. ClosedTime(committed) \in Nat /\ previewing \in Nat \cup {None}
  BY ClosedTimeType DEF EventsInv, SessionInv, EventTypes
<1> QED  BY <1>1, <1>2 DEF Current

LEMMA ToldType ==
    ASSUME SessionInv, NEW f \in DOMAIN told
    PROVE  /\ f[2] \in Nat
           /\ \A a \in told[f] : a[1] \in Seq(Events!Records) /\ a[2] \in Seq(Events!Records)
<1>1. f \in Elements(Feed) /\ told[f] \subseteq Events!Answers
  BY DEF SessionInv, EventTypes
<1>2. f[2] \in Nat
  BY <1>1, FeedFacts DEF Elements
<1> QED  BY <1>1, <1>2 DEF Events!Answers

\* What an event was told stays true when the next bar closes.
LEMMA ShowsAppended ==
    ASSUME SessionInv, NEW record \in Events!Records, NEW f \in DOMAIN told, NEW a \in told[f], Shows(a[1], f),
           IF Closed(f) THEN f[2] < record.time ELSE f[2] <= record.time,
           committed' = Append(committed, record)
    PROVE  Shows(a[1], f)'
<1>1. /\ a[1] \in Seq(Events!Records) /\ committed \in Seq(Events!Records) /\ f[2] \in Nat /\ record.time \in Nat
  BY ToldType DEF SessionInv, EventTypes, Events!Records
<1>2. /\ Len(committed') = Len(committed) + 1 /\ committed'[Len(committed) + 1] = record
      /\ \A m \in 1 .. Len(committed) : committed'[m] = committed[m]
      /\ Len(committed) \in Nat /\ DOMAIN committed = 1 .. Len(committed)
      /\ DOMAIN committed' = 1 .. Len(committed) + 1 /\ Len(a[1]) \in Nat
  BY <1>1, AppendProperties, LenProperties
<1>3. Len(a[1]) <= Len(committed)
  BY DEF Shows, Begins
<1>4. Begins(a[1], committed')
  BY <1>2, <1>3 DEF Shows, Begins
<1>5. ASSUME NEW m \in DOMAIN committed'
      PROVE  m <= Len(a[1]) <=> IF Closed(f) THEN committed'[m].time <= f[2] ELSE committed'[m].time < f[2]
  <2>1. CASE m \in DOMAIN committed
    BY <1>2, <2>1 DEF Shows
  <2>2. CASE m = Len(committed) + 1
    BY <1>1, <1>2, <1>3, <2>2
  <2> QED  BY <1>2, <2>1, <2>2
<1> QED  BY <1>4, <1>5 DEF Shows

LEMMA ProcessAnswers ==
    ASSUME EventsInv, NEW s \in Subscribers, Events!Process(s),
           NEW e, e = Due(s), NEW record, record = NewRecord(s)
    PROVE  AnswersInv'
<1> DEFINE was == ClosedTime(committed)
           now == ClosedTime(committed')
           answer_ == <<committed', cells'>>
<1> SessionInv /\ AnswersInv
  BY DEF EventsInv
<1>1. /\ ~poisoned /\ e \in DOMAIN told /\ UNCHANGED poisoned
      /\ record \in Events!Records
      /\ record.time = e[2] /\ record.value = e[3] /\ (record.isnew <=> previewing # e[2])
      /\ e[2] \in Nat /\ was \in Nat /\ was < e[2]
      /\ previewing # None => previewing \in Nat /\ previewing <= e[2]
      /\ IF Closed(e)
           THEN committed' = Append(committed, record) /\ previewing' = None /\ cells' = <<>>
           ELSE /\ cells' = Append(IF previewing = e[2] THEN cells ELSE <<>>, record)
                /\ previewing' = e[2] /\ committed' = committed
      /\ last' = [event |-> e, answer |-> answer_]
  BY ProcessFacts
<1>2. /\ now = IF Closed(e) THEN e[2] ELSE was
      /\ told'[e] = told[e] \cup {answer_} /\ DOMAIN told' = DOMAIN told
      /\ \A f \in DOMAIN told : f # e => told'[f] = told[f]
  BY ProcessTypes
<1> HIDE DEF answer_, was, now
<1>3. ASSUME NEW f \in DOMAIN told, NEW a \in told'[f]  PROVE a \in told[f] \/ (f = e /\ a = answer_)
  <2>1. CASE f = e
    BY <1>2, <1>3, <2>1
  <2>2. CASE f # e
    BY <1>2, <1>3, <2>2
  <2> QED  BY <2>1, <2>2
<1>4. /\ committed \in Seq(Events!Records) /\ cells \in Seq(Events!Records) /\ Ordered(committed)
      /\ committed' \in Seq(Events!Records) /\ cells' \in Seq(Events!Records)
      /\ Len(committed) \in Nat /\ DOMAIN committed = 1 .. Len(committed)
      /\ Len(committed') \in Nat /\ DOMAIN committed' = 1 .. Len(committed')
  <2>1. EventTypes'
    BY ProcessTypes
  <2> QED  BY <2>1, LenProperties DEF SessionInv, EventTypes, CommitsSound
<1>5. ASSUME NEW m \in DOMAIN committed  PROVE committed[m].time \in Nat /\ committed[m].time < e[2]
  <2>1. committed[m].time \in Nat /\ committed[m].time <= was
    BY <1>4, ClosedTimeLast DEF was
  <2> QED  BY <1>1, <2>1
<1>6. ASSUME NEW f \in DOMAIN told, told[f] # {}, f[2] = e[2]  PROVE ~Closed(f) /\ previewing = e[2]
  BY <1>1, <1>6, Untold DEF was
<1>7. ASSUME NEW f \in DOMAIN told, told[f] # {}
      PROVE  f[2] \in Nat /\ f[2] <= e[2] /\ (Closed(f) => f[2] < e[2]) /\ Current(f)
  <2>1. f[2] \in Nat /\ Current(f)
    BY <1>1, <1>7, ToldType DEF AnswersInv, CellsSound
  <2> QED  BY <1>1, <2>1 DEF Current, was
\* The cells of a preview.
<1>8. CASE ~Closed(e)
  <2>1. Previewed(cells', e[2]) /\ cells'[Len(cells')].value = e[3]
    <3>1. CASE previewing = e[2]
      <4>1. Previewed(cells, e[2]) /\ cells' = Append(cells, record)
        BY <1>1, <1>8, <3>1, FeedFacts DEF AnswersInv, CellsSound
      <4>2. /\ Len(cells') = Len(cells) + 1 /\ cells'[Len(cells) + 1] = record /\ cells' # <<>>
            /\ \A m \in 1 .. Len(cells) : cells'[m] = cells[m]
            /\ Len(cells) \in Nat /\ DOMAIN cells = 1 .. Len(cells)
            /\ DOMAIN cells' = 1 .. Len(cells) + 1
        <5>1. cells \in Seq(Events!Records) /\ record \in Events!Records
          BY <1>1, <1>4
        <5> QED  BY <4>1, <5>1, AppendProperties, LenProperties
      <4>3. Len(cells) # 0
        BY <1>4, <4>1, EmptySeq DEF Previewed
      <4>4. ASSUME NEW m \in DOMAIN cells'  PROVE cells'[m].time = e[2] /\ (cells'[m].isnew <=> m = 1)
        <5>1. CASE m \in 1 .. Len(cells)
          BY <4>1, <4>2, <5>1 DEF Previewed
        <5>2. CASE m = Len(cells) + 1
          BY <1>1, <3>1, <4>2, <4>3, <5>2
        <5> QED  BY <4>2, <5>1, <5>2
      <4> QED  BY <1>1, <4>2, <4>4 DEF Previewed
    <3>2. CASE previewing # e[2]
      <4>1. cells' = <<record>>
        BY <1>1, <1>8, <3>2
      <4> QED  BY <1>1, <3>2, <4>1 DEF Previewed
    <3> QED  BY <3>1, <3>2
  <2>2. ASSUME NEW f \in DOMAIN told, NEW a \in told'[f], ~Closed(f), f[2] = e[2]  PROVE Begins(a[2], cells')
    <3>1. CASE a \in told[f]
      <4>1. previewing = e[2] /\ Begins(a[2], cells) /\ a[2] \in Seq(Events!Records)
        BY <1>6, <2>2, <3>1, ToldType DEF AnswersInv, CellsSound
      <4> QED  BY <1>1, <1>4, <1>8, <4>1, BeginsAppended
    <3>2. CASE a = answer_
      BY <1>4, <3>2, LenProperties DEF Begins, answer_
    <3> QED  BY <1>3, <2>2, <3>1, <3>2
  <2>3. CellsSound'
    <3>1. Previewed(cells', previewing') /\ \E f \in DOMAIN told' : ~Closed(f) /\ f[2] = previewing' /\ told'[f] # {}
      BY <1>1, <1>2, <1>8, <2>1
    <3>2. ASSUME NEW f \in DOMAIN told, NEW a \in told'[f]  PROVE Current(f)'
      <4>1. CASE f = e
        BY <1>1, <1>8, <4>1, FeedFacts DEF Current
      <4>2. CASE a \in told[f]
        <5>1. f[2] \in Nat /\ f[2] <= e[2] /\ Current(f)
          BY <1>7, <4>2
        <5>2. committed' = committed /\ previewing' = e[2] /\ e[2] # None
          BY <1>1, <1>8, FeedFacts
        <5> QED  BY <5>1, <5>2 DEF Current
      <4> QED  BY <1>3, <3>2, <4>1, <4>2
    <3>3. previewing' = e[2]
      BY <1>1, <1>8
    <3> QED  BY <1>2, <2>2, <3>1, <3>2, <3>3 DEF CellsSound
  <2>4. ASSUME NEW f \in DOMAIN told, NEW a \in told'[f]  PROVE AnswerRight(f, a)'
    <3>1. CASE a \in told[f]
      <4>1. AnswerRight(f, a) /\ committed' = committed
        BY <1>1, <1>8, <3>1 DEF AnswersInv, ToldSound
      <4> QED  BY <4>1 DEF AnswerRight, Shows
    <3>2. CASE f = e /\ a = answer_
      <4>1. a[1] = committed /\ a[2] = cells' /\ committed' = committed
        BY <1>1, <1>8, <3>2 DEF answer_
      <4>2. Shows(a[1], f)'
        <5>1. \A m \in DOMAIN committed : m <= Len(committed) /\ committed[m].time < e[2]
          BY <1>4, <1>5
        <5> QED  BY <1>4, <1>8, <3>2, <4>1, <5>1 DEF Shows, Begins
      <4> QED  BY <1>8, <2>1, <3>2, <4>1, <4>2 DEF AnswerRight
    <3> QED  BY <1>3, <2>4, <3>1, <3>2
  <2>5. ASSUME NEW f \in DOMAIN told, NEW g \in DOMAIN told, NEW a \in told'[f], NEW b \in told'[g], f[2] = g[2]
        PROVE  Begins(a[2], b[2]) \/ Begins(b[2], a[2])
    <3>1. CASE a \in told[f] /\ b \in told[g]
      BY <2>5, <3>1 DEF AnswersInv, ToldSound
    <3>2. CASE f = e /\ a = answer_
      <4>1. ~Closed(g)
        <5>1. CASE b \in told[g]
          BY <1>6, <2>5, <3>2, <5>1
        <5>2. CASE g = e
          BY <1>8, <5>2
        <5> QED  BY <1>3, <2>5, <5>1, <5>2
      <4>2. Begins(b[2], cells')
        BY <2>2, <2>5, <3>2, <4>1
      <4> QED  BY <3>2, <4>2 DEF answer_
    <3>3. CASE g = e /\ b = answer_
      <4>1. ~Closed(f)
        <5>1. CASE a \in told[f]
          BY <1>6, <2>5, <3>3, <5>1
        <5>2. CASE f = e
          BY <1>8, <5>2
        <5> QED  BY <1>3, <2>5, <5>1, <5>2
      <4>2. Begins(a[2], cells')
        BY <2>2, <2>5, <3>3, <4>1
      <4> QED  BY <3>3, <4>2 DEF answer_
    <3> QED  BY <1>3, <2>5, <3>1, <3>2, <3>3
  <2>6. ToldSound'
    BY <1>2, <2>4, <2>5 DEF ToldSound
  <2>7. NewsSound'
    <3>1. committed' = committed
      BY <1>1, <1>8
    <3>2. ASSUME NEW m \in DOMAIN committed, NEW f \in DOMAIN told, f[2] = committed[m].time
          PROVE  told'[f] = told[f]
      BY <1>1, <1>2, <1>5, <3>2
    <3> QED  BY <1>2, <3>1, <3>2 DEF AnswersInv, NewsSound
  <2>8. LastSound'
    BY <1>1, <1>2 DEF LastSound
  <2> QED  BY <2>3, <2>6, <2>7, <2>8 DEF AnswersInv
<1>9. CASE Closed(e)
  <2>1. committed' = Append(committed, record) /\ previewing' = None /\ cells' = <<>> /\ now = e[2]
    BY <1>1, <1>2, <1>9
  <2>2. /\ Len(committed') = Len(committed) + 1 /\ committed'[Len(committed) + 1] = record
        /\ \A m \in 1 .. Len(committed) : committed'[m] = committed[m]
        /\ DOMAIN committed' = 1 .. Len(committed) + 1
    <3>1. committed \in Seq(Events!Records) /\ record \in Events!Records /\ DOMAIN committed' = 1 .. Len(committed')
      BY <1>1, <1>4
    <3> QED  BY <2>1, <3>1, AppendProperties
  <2>3. CellsSound'
    <3>1. ASSUME NEW f \in DOMAIN told, NEW a \in told'[f]  PROVE Current(f)' /\ f[2] # previewing'
      <4>1. f[2] \in Nat /\ f[2] <= e[2]
        <5>1. CASE f = e
          BY <1>1, <5>1
        <5>2. CASE a \in told[f]
          BY <1>7, <5>2
        <5> QED  BY <1>3, <3>1, <5>1, <5>2
      <4> QED  BY <2>1, <4>1, FeedFacts DEF Current, now
    <3> QED  BY <1>2, <2>1, <3>1 DEF CellsSound
  <2>4. ASSUME NEW f \in DOMAIN told, NEW a \in told'[f]  PROVE AnswerRight(f, a)'
    <3>1. CASE a \in told[f]
      <4>1. AnswerRight(f, a)
        BY <3>1 DEF AnswersInv, ToldSound
      <4>2. IF Closed(f) THEN f[2] < record.time ELSE f[2] <= record.time
        BY <1>1, <1>7, <3>1
      <4>3. Shows(a[1], f)'
        BY <1>1, <2>1, <3>1, <4>1, <4>2, ShowsAppended DEF AnswerRight
      <4> QED  BY <4>1, <4>3 DEF AnswerRight
    <3>2. CASE f = e /\ a = answer_
      <4>1. a[1] = committed' /\ a[2] = <<>>
        BY <2>1, <3>2 DEF answer_
      <4>2. \A m \in DOMAIN committed' : m <= Len(committed') /\ committed'[m].time <= e[2]
        <5> SUFFICES ASSUME NEW m \in DOMAIN committed'
                     PROVE  m <= Len(committed') /\ committed'[m].time <= e[2]
          OBVIOUS
        <5>1. CASE m \in DOMAIN committed
          BY <1>1, <1>4, <1>5, <2>2, <5>1
        <5>2. CASE m = Len(committed) + 1
          BY <1>1, <1>4, <2>2, <5>2
        <5> QED  BY <1>4, <2>2, <5>1, <5>2
      <4>3. Shows(a[1], f)'
        BY <1>4, <1>9, <3>2, <4>1, <4>2 DEF Shows, Begins
      <4> QED  BY <1>9, <3>2, <4>1, <4>3 DEF AnswerRight
    <3> QED  BY <1>3, <2>4, <3>1, <3>2
  <2>5. ASSUME NEW f \in DOMAIN told, NEW g \in DOMAIN told, NEW a \in told'[f], NEW b \in told'[g], f[2] = g[2]
        PROVE  Begins(a[2], b[2]) \/ Begins(b[2], a[2])
    <3>1. CASE a \in told[f] /\ b \in told[g]
      BY <2>5, <3>1 DEF AnswersInv, ToldSound
    <3>2. /\ a[2] \in Seq(Events!Records) /\ b[2] \in Seq(Events!Records)
      <4>1. answer_[2] = <<>> /\ <<>> \in Seq(Events!Records)
        BY <2>1, EmptySeq DEF answer_
      <4> QED  BY <1>3, <2>5, <4>1, ToldType
    <3>3. Len(a[2]) \in Nat /\ Len(b[2]) \in Nat
      BY <3>2, LenProperties
    <3>4. CASE a = answer_ \/ b = answer_
      <4>1. a[2] = <<>> \/ b[2] = <<>>
        BY <2>1, <3>4 DEF answer_
      <4> QED  BY <3>3, <4>1 DEF Begins
    <3> QED  BY <1>3, <2>5, <3>1, <3>4
  <2>6. ToldSound'
    BY <1>2, <2>4, <2>5 DEF ToldSound
  <2>7. NewsSound'
    <3>1. ASSUME NEW f \in DOMAIN told, ~Closed(f)  PROVE told'[f] = told[f]
      BY <1>2, <1>9, <3>1
    <3>2. ASSUME NEW m \in DOMAIN committed'
          PROVE  committed'[m].isnew <=> \A f \in DOMAIN told : f[2] = committed'[m].time /\ ~Closed(f) => told[f] = {}
      <4>1. CASE m \in DOMAIN committed
        BY <1>4, <2>2, <4>1 DEF AnswersInv, NewsSound
      <4>2. CASE m = Len(committed) + 1
        <5>1. committed'[m].time = e[2] /\ (committed'[m].isnew <=> previewing # e[2])
          BY <1>1, <2>2, <4>2
        <5>2. previewing = e[2] => \E f \in DOMAIN told : ~Closed(f) /\ f[2] = e[2] /\ told[f] # {}
          BY <1>1, FeedFacts DEF AnswersInv, CellsSound
        <5>3. previewing # e[2] => \A f \in DOMAIN told : f[2] = e[2] => told[f] = {}
          BY <1>6
        <5> QED  BY <5>1, <5>2, <5>3
      <4> QED  BY <1>4, <2>2, <4>1, <4>2
    <3> QED  BY <1>2, <3>1, <3>2 DEF NewsSound
  <2>8. LastSound'
    BY <1>1, <1>2 DEF LastSound
  <2> QED  BY <2>3, <2>6, <2>7, <2>8 DEF AnswersInv
<1> QED  BY <1>8, <1>9

-----------------------------------------------------------------------------
LEMMA EventsInit == Events!Init => EventsInv
BY SessionInit, AnswersInit DEF EventsInv

LEMMA EventsStep == EventsInv /\ (Events!Next \/ UNCHANGED shared) => EventsInv'
<1> SUFFICES ASSUME EventsInv, Events!Next \/ UNCHANGED shared  PROVE EventsInv'
  OBVIOUS
<1> SessionInv /\ AnswersInv
  BY DEF EventsInv
<1>1. CASE UNCHANGED shared
  <2>1. UNCHANGED <<committed, previewing, cells, started, poisoned, seeded, last, told, reads>>
    BY <1>1 DEF shared
  <2>2. EventTypes' /\ Untouched' /\ DeliveriesCommitted'
    BY <2>1 DEF SessionInv, EventTypes, Untouched, DeliveriesCommitted
  <2> QED  BY <2>1, <2>2, SessionUnchanged, AnswersUnchanged DEF EventsInv
<1>2. CASE Events!Next
  <2>1. PICK s \in Subscribers :
           \/ Events!Seed(s) \/ Events!SeedFails(s) \/ Events!Show(s)
           \/ Events!Repeat(s) \/ Events!Refuse(s) \/ Events!Process(s) \/ Events!Fail(s)
    BY <1>2 DEF Events!Next
  <2>2. CASE Events!Seed(s) \/ Events!SeedFails(s)
    BY <2>2, SeedsStep, SeedsAnswers DEF EventsInv
  <2>3. CASE Events!Show(s)
    BY <2>3, ShowStep, AnswersUnchanged DEF Events!Show, EventsInv
  <2>4. CASE Events!Repeat(s)
    <3>1. poisoned \/ started
      <4>1. last # None
        BY <2>4 DEF Events!Repeat, Events!Repeated
      <4> QED  BY <4>1 DEF SessionInv, Untouched
    <3> QED  BY <2>4, <3>1, RepeatFacts, DeliveredStep, AnswersUnchanged DEF EventsInv
  <2>5. CASE Events!Refuse(s)
    BY <2>5, RefuseFacts, DeliveredStep, AnswersUnchanged DEF EventsInv
  <2>6. CASE Events!Process(s)
    BY <2>6, ProcessSession, ProcessAnswers DEF EventsInv
  <2>7. CASE Events!Fail(s)
    BY <2>7, FailStep, FailAnswers DEF EventsInv
  <2> QED  BY <2>1, <2>2, <2>3, <2>4, <2>5, <2>6, <2>7
<1> QED  BY <1>1, <1>2

LEMMA EventsCount == EventsInv => Events!EventsCountOnce
<1> SUFFICES ASSUME EventsInv  PROVE Events!EventsCountOnce
  OBVIOUS
<1> SessionInv /\ AnswersInv
  BY DEF EventsInv
<1>1. committed \in Seq(Events!Records)
  BY DEF SessionInv, EventTypes
<1>2. Events!CommitsAreTheFeed
  <2>1. Events!ToSet(committed) = Elements(committed) /\ Events!ToSet(History) = Elements(History)
    BY DEF Events!ToSet, Elements
  <2>2. Events!Recorded = {BarOf(r) : r \in Elements(committed)}
    BY <2>1 DEF Events!Recorded, BarOf
  <2>3. {Events!Bar(Feed[i]) : i \in {j \in Events!Closed : Feed[j][2] <= Events!LastClosed}}
        = ClosedUpto(ClosedTime(committed))
    BY ClosedTimeIs DEF ClosedUpto, Closed, Events!Closed
  <2>4. {bar \in Events!ToSet(History) : bar.time <= Events!LastClosed} = Past(ClosedTime(committed))
    BY <2>1, ClosedTimeIs DEF Past
  <2>5. \A i, j \in DOMAIN committed : i < j => committed[i].time < committed[j].time
    BY DEF SessionInv, CommitsSound, Ordered
  <2> QED  BY <2>1, <2>2, <2>3, <2>4, <2>5 DEF SessionInv, CommitsSound, Events!CommitsAreTheFeed
<1>3. ASSUME NEW e \in DOMAIN told, NEW a \in told[e]
      PROVE  IF e[1] = "closed"
               THEN Events!CommittedUntil(a[1], e[2]) /\ a[2] = <<>>
               ELSE Events!CommittedBefore(a[1], e[2]) /\ Events!PreviewsOf(a[2], e)
  <2>1. AnswerRight(e, a) /\ a[1] \in Seq(Events!Records)
    BY ToldType DEF AnswersInv, ToldSound
  <2>2. Events!IsPrefix(a[1], committed)
    BY <1>1, <2>1, PrefixIs DEF AnswerRight, Shows
  <2> QED  BY <2>1, <2>2 DEF AnswerRight, Shows, Previewed, Closed, Events!CommittedUntil,
              Events!CommittedBefore, Events!PreviewsOf, Events!Last
<1>4. ASSUME NEW e \in DOMAIN told, NEW f \in DOMAIN told, e[2] = f[2], NEW a \in told[e], NEW b \in told[f]
      PROVE  Events!IsPrefix(a[2], b[2]) \/ Events!IsPrefix(b[2], a[2])
  <2>1. a[2] \in Seq(Events!Records) /\ b[2] \in Seq(Events!Records)
    BY ToldType
  <2> QED  BY <1>4, <2>1, PrefixIs DEF AnswersInv, ToldSound
<1>5. \A i \in DOMAIN committed :
         committed[i].isnew <=> \A e \in DOMAIN told : e[2] = committed[i].time /\ e[1] = "preview" => told[e] = {}
  <2>1. \A e \in DOMAIN told : e[1] = "preview" <=> ~Closed(e)
    BY FeedFacts DEF SessionInv, EventTypes, Elements, Closed, Events!Events
  <2> QED  BY <2>1 DEF AnswersInv, NewsSound
<1> QED  BY <1>2, <1>3, <1>4, <1>5 DEF Events!EventsCountOnce
-----------------------------------------------------------------------------
(* The inputs of a script.  Sequences of entries are of no type: what holds *)
(* of all sequences holds of them.                                          *)

LEMMA AnySeq ==
    ASSUME NEW s, Declared!IsSequence(s), NEW e
    PROVE  /\ s \in Seq(Elements(s) \cup {e})
           /\ Declared!IsSequence(Append(s, e))
           /\ Len(s) \in Nat /\ DOMAIN s = 1 .. Len(s)
           /\ Len(Append(s, e)) = Len(s) + 1
           /\ DOMAIN Append(s, e) = 1 .. Len(s) + 1
           /\ \A i \in 1 .. Len(s) : Append(s, e)[i] = s[i]
           /\ Append(s, e)[Len(s) + 1] = e
<1> DEFINE S == Elements(s) \cup {e}
<1>1. Len(s) \in Nat /\ DOMAIN s = 1 .. Len(s)
  BY DEF Declared!IsSequence
<1>2. s \in Seq(S)
  <2>1. \A i \in 1 .. Len(s) : s[i] \in S
    BY <1>1 DEF Elements
  <2>2. s \in [1 .. Len(s) -> S]
    BY <1>1, <2>1 DEF Declared!IsSequence
  <2> HIDE DEF S
  <2> QED  BY <1>1, <2>2, SeqDef
<1>3. e \in S
  OBVIOUS
<1> HIDE DEF S
<1> DEFINE t == Append(s, e)
<1>4. /\ t \in Seq(S) /\ Len(t) = Len(s) + 1
      /\ \A i \in 1 .. Len(s) : t[i] = s[i]
      /\ t[Len(s) + 1] = e
  BY <1>2, <1>3, AppendProperties
<1> HIDE DEF t
<1>5. Len(t) \in Nat /\ t \in [1 .. Len(t) -> S]
  BY <1>4, LenProperties
<1>6. Declared!IsSequence(t)
  BY <1>5 DEF Declared!IsSequence
<1>7. t = Append(s, e) /\ S = Elements(s) \cup {e}
  BY DEF t, S
<1> QED  BY <1>1, <1>2, <1>4, <1>5, <1>6, <1>7

\* A numbered key tells the title and the number.
LEMMA NumberedKey ==
    ASSUME NEW base, Declared!IsSequence(base), NEW m, NEW n
    PROVE  /\ Append(base, m) # base
           /\ Append(base, m) = Append(base, n) => m = n
<1>1. Len(Append(base, m)) = Len(base) + 1 /\ Len(base) \in Nat
  BY AnySeq
<1>2. Append(base, m)[Len(base) + 1] = m
  BY AnySeq
<1>3. Append(base, n)[Len(base) + 1] = n
  BY AnySeq
<1> QED  BY <1>1, <1>2, <1>3

\* There is a least number in a set of them.
LEMMA LeastNumber ==
    ASSUME NEW T \in SUBSET Nat, T # {}
    PROVE  \E n \in T : \A m \in T : n <= m
<1>1. PICK n \in T : \A m \in T : <<m, n>> \notin OpToRel(<, Nat)
  BY WFMin, NatLessThanWellFounded
<1>2. ASSUME NEW m \in T  PROVE n <= m
  <2>1. m \in Nat /\ n \in Nat
    OBVIOUS
  <2>2. ~ (m < n)
    BY <1>1, <2>1, Zenon DEF OpToRel
  <2> QED  BY <2>1, <2>2
<1> QED  BY <1>2

LEMMA FewKeys ==
    ASSUME NEW entries, Declared!IsSequence(entries)
    PROVE  /\ IsFiniteSet(Declared!StateKeys(entries))
           /\ Cardinality(Declared!StateKeys(entries)) \in Nat
           /\ Cardinality(Declared!StateKeys(entries)) <= Len(entries)
<1> DEFINE L == Len(entries)
           K == Declared!StateKeys(entries)
           f == [i \in 1 .. L |-> entries[i].key]
<1>1. L \in Nat /\ DOMAIN entries = 1 .. L
  BY DEF Declared!IsSequence
<1>2. f \in Surjection(1 .. L, K)
  BY <1>1 DEF Surjection, Declared!StateKeys
<1> HIDE DEF K, f, L
<1>3. IsFiniteSet(1 .. L) /\ Cardinality(1 .. L) = L
  BY <1>1, FS_Interval
<1>4. IsFiniteSet(K) /\ Cardinality(K) <= L
  BY <1>2, <1>3, FS_Surjection
<1>5. Cardinality(K) \in Nat
  BY <1>4, FS_CardinalityType
<1> QED  BY <1>4, <1>5 DEF K, L

\* Of so many numbers one is free, and the least free one is chosen.
LEMMA FreeNumber ==
    ASSUME NEW entries, Declared!IsSequence(entries),
           NEW base, Declared!IsSequence(base), base \in Declared!StateKeys(entries)
    PROVE  \E n \in 2 .. Len(entries) + 1 : Declared!Free(Declared!StateKeys(entries), base, n)
<1> DEFINE L == Len(entries)
           K == Declared!StateKeys(entries)
           f == [n \in 1 .. L + 1 |-> IF n = 1 THEN base ELSE Append(base, n)]
           T == {n \in 2 .. L + 1 : Append(base, n) \notin K}
<1>1. L \in Nat
  BY AnySeq
<1>2. base \in K /\ IsFiniteSet(K) /\ Cardinality(K) \in Nat /\ Cardinality(K) <= L
  BY FewKeys
<1> HIDE DEF K, L
<1>3. T # {}
  <2> SUFFICES ASSUME \A n \in 2 .. L + 1 : Append(base, n) \in K  PROVE FALSE
    OBVIOUS
  <2>1. IsFiniteSet(1 .. L + 1) /\ Cardinality(1 .. L + 1) = L + 1
    BY <1>1, FS_Interval
  <2>2. f \in [1 .. L + 1 -> K]
    BY <1>1, <1>2
  <2>3. \A n \in 1 .. L + 1 : f[n] = IF n = 1 THEN base ELSE Append(base, n)
    OBVIOUS
  <2> HIDE DEF f
  <2>4. Cardinality(K) < Cardinality(1 .. L + 1)
    BY <1>1, <1>2, <2>1
  <2>5. PICK m, n \in 1 .. L + 1 : m # n /\ f[m] = f[n]
    BY <1>2, <2>1, <2>2, <2>4, FS_PigeonHole
  <2>6. f[m] = IF m = 1 THEN base ELSE Append(base, m)
    BY <2>3
  <2>7. f[n] = IF n = 1 THEN base ELSE Append(base, n)
    BY <2>3
  <2> QED  BY <2>5, <2>6, <2>7, NumberedKey
<1>4. T \in SUBSET Nat
  BY <1>1
<1>5. PICK n \in T : \A m \in T : n <= m
  BY <1>3, <1>4, LeastNumber
<1>6. n \in 2 .. L + 1 /\ Append(base, n) \notin K
  OBVIOUS
<1>7. ASSUME NEW m \in 2 .. n - 1  PROVE Append(base, m) \in K
  <2>1. m \in 2 .. L + 1 /\ ~ (n <= m)
    BY <1>1, <1>6
  <2> QED  BY <1>5, <2>1
<1>8. Declared!Free(K, base, n)
  BY <1>6, <1>7 DEF Declared!Free
<1> QED  BY <1>6, <1>8 DEF K, L

LEMMA NextKeyIsNew ==
    ASSUME NEW entries, Declared!IsSequence(entries),
           NEW d, Declared!IsSequence(d.title)
    PROVE  LET key == Declared!NextKey(entries, d)
               base == Declared!Base(entries, d)
           IN  /\ key \notin Declared!StateKeys(entries)
               /\ \/ key = base
                  \/ /\ base \in Declared!StateKeys(entries)
                     /\ \E n \in 2 .. Len(entries) + 1 :
                           /\ key = Append(base, n)
                           /\ \A m \in 2 .. n - 1 : Append(base, m) \in Declared!StateKeys(entries)
<1> DEFINE base == Declared!Base(entries, d)
           K == Declared!StateKeys(entries)
           key == Declared!NextKey(entries, d)
<1>1. Declared!IsSequence(base)
  <2>1. CASE d.title # <<>>  BY <2>1 DEF Declared!Base
  <2>2. CASE d.title = <<>>  BY <2>2 DEF Declared!Base, Declared!IsSequence
  <2> QED  BY <2>1, <2>2
<1>2. CASE base \notin K
  BY <1>2 DEF Declared!NextKey
<1>3. CASE base \in K
  <2> DEFINE n == CHOOSE n \in 2 .. Len(entries) + 1 : Declared!Free(K, base, n)
  <2>1. n \in 2 .. Len(entries) + 1 /\ Declared!Free(K, base, n)
    BY <1>1, <1>3, FreeNumber
  <2>2. key = Append(base, n)
    BY <1>3 DEF Declared!NextKey
  <2> HIDE DEF n, K, base, key
  <2>3. key \notin K
    BY <2>1, <2>2 DEF Declared!Free
  <2>4. \A m \in 2 .. n - 1 : Append(base, m) \in K
    BY <2>1 DEF Declared!Free
  <2> QED  BY <1>3, <2>1, <2>2, <2>3, <2>4 DEF key, base, K
<1> QED  BY <1>2, <1>3

\* A declaration that is given what it showed shows and returns the same.
LEMMA ResultsRepeat ==
    ASSUME NEW d, NEW v, Declared!Result(d, v).current # Declared!Invalid,
           Declared!Kind(d) = "source" => v.kind # "series"
    PROVE  Declared!Result(d, Declared!Result(d, v).current) = Declared!Result(d, v)
<1> DEFINE now == Declared!Result(d, v).current
<1> USE DEF Declared!Admitted, Declared!Answer, Declared!Refused, Declared!Invalid, Declared!Value
<1>1. CASE Declared!Kind(d) = "int"
  <2>1. Declared!Result(d, v) = Declared!IntInput(d, v)  BY <1>1 DEF Declared!Result
  <2>2. Declared!Result(d, now) = Declared!IntInput(d, now)  BY <1>1 DEF Declared!Result
  <2> HIDE DEF now
  <2>3. now = Declared!IntInput(d, v).current /\ now # Declared!Invalid  BY <2>1 DEF now
  <2> QED  BY <2>1, <2>2, <2>3 DEF Declared!IntInput, Declared!CoerceInt, Declared!Int1
<1>2. CASE Declared!Kind(d) = "float"
  <2>1. Declared!Result(d, v) = Declared!FloatInput(d, v)  BY <1>2 DEF Declared!Result
  <2>2. Declared!Result(d, now) = Declared!FloatInput(d, now)  BY <1>2 DEF Declared!Result
  <2> HIDE DEF now
  <2>3. now = Declared!FloatInput(d, v).current /\ now # Declared!Invalid  BY <2>1 DEF now
  <2> QED  BY <2>1, <2>2, <2>3 DEF Declared!FloatInput, Declared!CoerceFloat, Declared!Float, Declared!IsNumber, Declared!Number
<1>3. CASE Declared!Kind(d) = "price"
  <2>1. Declared!Result(d, v) = Declared!PriceInput(d, v)  BY <1>3 DEF Declared!Result
  <2>2. Declared!Result(d, now) = Declared!PriceInput(d, now)  BY <1>3 DEF Declared!Result
  <2> HIDE DEF now
  <2>3. now = Declared!PriceInput(d, v).current /\ now # Declared!Invalid  BY <2>1 DEF now
  <2> QED  BY <2>1, <2>2, <2>3 DEF Declared!PriceInput, Declared!CoerceFloat, Declared!Float, Declared!IsNumber, Declared!Number
<1>4. CASE Declared!Kind(d) = "bool"
  <2>1. Declared!Result(d, v) = Declared!BoolInput(d, v)  BY <1>4 DEF Declared!Result
  <2>2. Declared!Result(d, now) = Declared!BoolInput(d, now)  BY <1>4 DEF Declared!Result
  <2> HIDE DEF now
  <2>3. now = Declared!BoolInput(d, v).current /\ now # Declared!Invalid  BY <2>1 DEF now
  <2> QED  BY <2>1, <2>2, <2>3 DEF Declared!BoolInput, Declared!CoerceBool, Declared!Bool
<1>5. CASE Declared!Kind(d) = "string"
  <2>1. Declared!Result(d, v) = Declared!StringInput(d, v)  BY <1>5 DEF Declared!Result
  <2>2. Declared!Result(d, now) = Declared!StringInput(d, now)  BY <1>5 DEF Declared!Result
  <2> HIDE DEF now
  <2>3. now = Declared!StringInput(d, v).current /\ now # Declared!Invalid  BY <2>1 DEF now
  <2> QED  BY <2>1, <2>2, <2>3 DEF Declared!StringInput, Declared!CoerceStr
<1>6. CASE Declared!Kind(d) = "color"
  <2>1. Declared!Result(d, v) = Declared!ColorInput(d, v)  BY <1>6 DEF Declared!Result
  <2>2. Declared!Result(d, now) = Declared!ColorInput(d, now)  BY <1>6 DEF Declared!Result
  <2> HIDE DEF now
  <2>3. now = Declared!ColorInput(d, v).current /\ now # Declared!Invalid  BY <2>1 DEF now
  <2> QED  BY <2>1, <2>2, <2>3 DEF Declared!ColorInput, Declared!CoerceStr
<1>7. CASE Declared!Kind(d) = "timeframe"
  <2>1. Declared!Result(d, v) = Declared!TimeframeInput(d, v)  BY <1>7 DEF Declared!Result
  <2>2. Declared!Result(d, now) = Declared!TimeframeInput(d, now)  BY <1>7 DEF Declared!Result
  <2> HIDE DEF now
  <2>3. now = Declared!TimeframeInput(d, v).current /\ now # Declared!Invalid  BY <2>1 DEF now
  <2> QED  BY <2>1, <2>2, <2>3 DEF Declared!TimeframeInput, Declared!CoerceStr
<1>8. CASE Declared!Kind(d) = "symbol"
  <2>1. Declared!Result(d, v) = Declared!SymbolInput(d, v)  BY <1>8 DEF Declared!Result
  <2>2. Declared!Result(d, now) = Declared!SymbolInput(d, now)  BY <1>8 DEF Declared!Result
  <2> HIDE DEF now
  <2>3. now = Declared!SymbolInput(d, v).current /\ now # Declared!Invalid  BY <2>1 DEF now
  <2> QED  BY <2>1, <2>2, <2>3 DEF Declared!SymbolInput, Declared!CoerceStr
<1>9. CASE Declared!Kind(d) = "session"
  <2>1. Declared!Result(d, v) = Declared!SessionInput(d, v)  BY <1>9 DEF Declared!Result
  <2>2. Declared!Result(d, now) = Declared!SessionInput(d, now)  BY <1>9 DEF Declared!Result
  <2> HIDE DEF now
  <2>3. now = Declared!SessionInput(d, v).current /\ now # Declared!Invalid  BY <2>1 DEF now
  <2> QED  BY <2>1, <2>2, <2>3 DEF Declared!SessionInput, Declared!CoerceStr
<1>10. CASE Declared!Kind(d) = "time"
  <2>1. Declared!Result(d, v) = Declared!TimeInput(d, v)  BY <1>10 DEF Declared!Result
  <2>2. Declared!Result(d, now) = Declared!TimeInput(d, now)  BY <1>10 DEF Declared!Result
  <2> HIDE DEF now
  <2>3. now = Declared!TimeInput(d, v).current /\ now # Declared!Invalid  BY <2>1 DEF now
  <2> QED  BY <2>1, <2>2, <2>3 DEF Declared!TimeInput, Declared!CoerceTime, Declared!CoerceInt, Declared!Int1
<1>11. CASE Declared!Kind(d) = "text_area"
  <2>1. Declared!Result(d, v) = Declared!TextAreaInput(d, v)  BY <1>11 DEF Declared!Result
  <2>2. Declared!Result(d, now) = Declared!TextAreaInput(d, now)  BY <1>11 DEF Declared!Result
  <2> HIDE DEF now
  <2>3. now = Declared!TextAreaInput(d, v).current /\ now # Declared!Invalid  BY <2>1 DEF now
  <2> QED  BY <2>1, <2>2, <2>3 DEF Declared!TextAreaInput, Declared!CoerceStr
<1>12. CASE Declared!Kind(d) = "source"
  <2>1. Declared!Result(d, v) = Declared!SourceInput(d, v)  BY <1>12 DEF Declared!Result
  <2>2. Declared!Result(d, now) = Declared!SourceInput(d, now)  BY <1>12 DEF Declared!Result
  <2>3. now = Declared!SourceInput(d, v).current /\ now # Declared!Invalid  BY <2>1
  <2>4. v.kind # "series"  BY <1>12
  <2> HIDE DEF now
  <2> QED  BY <2>1, <2>2, <2>3, <2>4 DEF Declared!SourceInput, Declared!Text, Declared!Close, Declared!SourceNames
<1>13. CASE Declared!Kind(d) = "enum" /\ d.call = "enum"
  <2>1. Declared!Result(d, v) = Declared!EnumInput(d, v)  BY <1>13 DEF Declared!Result
  <2>2. Declared!Result(d, now) = Declared!EnumInput(d, now)  BY <1>13 DEF Declared!Result
  <2>3. now = Declared!EnumInput(d, v).current /\ now # Declared!Invalid  BY <2>1
  <2> HIDE DEF now
  <2>4. now = Declared!Token(v)
    BY <2>3 DEF Declared!EnumInput
  <2>5. Declared!Token(now) = Declared!Token(v)
    BY <2>4 DEF Declared!Token, Declared!Text
  <2> QED  BY <2>1, <2>2, <2>3, <2>5 DEF Declared!EnumInput
<1>14. d.call = "enum" => Declared!Kind(d) = "enum"
  BY DEF Declared!Kind
<1>15. CASE Declared!Kind(d) \notin {"int", "float", "price", "bool", "string", "color", "timeframe",
                                    "symbol", "session", "time", "text_area", "source"} /\ d.call # "enum"
  BY <1>15 DEF Declared!Result
<1> QED  BY <1>1, <1>2, <1>3, <1>4, <1>5, <1>6, <1>7, <1>8, <1>9, <1>10, <1>11, <1>12, <1>13, <1>14, <1>15

\* The first entries of a sequence, and one more.
LEMMA Prefixes ==
    ASSUME NEW s, Declared!IsSequence(s), NEW n \in 0 .. Len(s)
    PROVE  /\ Declared!IsSequence(SubSeq(s, 1, n))
           /\ Len(SubSeq(s, 1, n)) = n
           /\ \A i \in 1 .. n : SubSeq(s, 1, n)[i] = s[i]
           /\ n < Len(s) => Append(SubSeq(s, 1, n), s[n + 1]) = SubSeq(s, 1, n + 1)
           /\ SubSeq(s, 1, Len(s)) = s
<1> DEFINE S == Elements(s) \cup {0}
           t == SubSeq(s, 1, n)
<1>1. s \in Seq(S) /\ Len(s) \in Nat /\ DOMAIN s = 1 .. Len(s)
  BY AnySeq
<1>2. \A i \in 1 .. n : s[i] \in S
  BY <1>1 DEF Elements
<1>3. SubSeq(s, 1, Len(s)) = s
  BY <1>1, SubSeqFull
<1> HIDE DEF S
<1>4. n \in Int /\ n \in Nat /\ 1 \in Int
  BY <1>1
<1>5. /\ SubSeq(s, 1, n) \in Seq(S)
      /\ Len(SubSeq(s, 1, n)) = IF 1 <= n THEN n - 1 + 1 ELSE 0
      /\ \A i \in 1 .. n - 1 + 1 : SubSeq(s, 1, n)[i] = s[1 + i - 1]
  BY <1>2, <1>4, SubSeqProperties
<1>6. n - 1 + 1 = n /\ (n < 1 => n = 0)
  BY <1>4
<1>7. Len(SubSeq(s, 1, n)) = n
  BY <1>4, <1>5, <1>6
<1>8. ASSUME NEW i \in 1 .. n  PROVE SubSeq(s, 1, n)[i] = s[i]
  <2>1. 1 + i - 1 = i /\ i \in 1 .. n - 1 + 1
    BY <1>6
  <2>2. SubSeq(s, 1, n)[i] = s[1 + i - 1]
    BY <1>5, <2>1
  <2> QED  BY <2>1, <2>2
<1>9. Declared!IsSequence(t)
  <2>1. t \in [1 .. Len(t) -> S] /\ Len(t) \in Nat
    BY <1>5, LenProperties
  <2> HIDE DEF t
  <2> QED  BY <2>1 DEF Declared!IsSequence
<1>10. ASSUME n < Len(s)  PROVE Append(SubSeq(s, 1, n), s[n + 1]) = SubSeq(s, 1, n + 1)
  <2>1. n + 1 \in 1 .. Len(s) /\ 1 \in 1 .. Len(s) /\ n + 1 - 1 = n
    BY <1>1, <1>4, <1>10
  <2>2. SubSeq(s, 1, n + 1) = SubSeq(s, 1, n + 1 - 1) \o <<s[n + 1]>>
    BY <1>1, <2>1, SubSeqRecursiveSecond
  <2>3. s[n + 1] \in S
    BY <1>1, <2>1, ElementOfSeq
  <2>4. Append(SubSeq(s, 1, n), s[n + 1]) = SubSeq(s, 1, n) \o <<s[n + 1]>>
    BY <1>5, <2>3, AppendIsConcat
  <2> QED  BY <2>1, <2>2, <2>4
<1> QED  BY <1>3, <1>7, <1>8, <1>9, <1>10 DEF t

\* The entries before those of a longer sequence are the same.
LEMMA PrefixOfAppend ==
    ASSUME NEW s, Declared!IsSequence(s), NEW e, NEW n \in 0 .. Len(s)
    PROVE  SubSeq(Append(s, e), 1, n) = SubSeq(s, 1, n)
<1> DEFINE S == Elements(s) \cup {e}
<1>1. s \in Seq(S) /\ Len(s) \in Nat
  BY AnySeq
<1>2. e \in S
  OBVIOUS
<1> HIDE DEF S
<1>3. Append(s, e) = s \o <<e>> /\ <<e>> \in Seq(S)
  BY <1>1, <1>2, AppendIsConcat
<1>4. CASE n = 0
  BY <1>4, SubSeqEmpty
<1>5. CASE n # 0
  <2>1. n \in 1 .. Len(s) /\ 1 \in 1 .. Len(s)
    BY <1>1, <1>5
  <2> QED  BY <1>1, <1>3, <2>1, SubSeqOfConcat1
<1> QED  BY <1>4, <1>5

-----------------------------------------------------------------------------
(* Every key of a schema is new, and numbered only if it must be; a run that *)
(* was not refused took each declaration with the entries before it; and a   *)
(* run with what a whole run showed has taken the same so far.               *)

StemOf(entries, i) ==
    IF entries[i].title # <<>> THEN entries[i].title ELSE <<entries[i].kind, i - 1>>
Before(entries, i) == {entries[j].key : j \in 1 .. i - 1}
KeysStable(entries) ==
    \A i \in 1 .. Len(entries) :
        /\ entries[i].key \notin Before(entries, i)
        /\ \/ entries[i].key = StemOf(entries, i)
           \/ /\ StemOf(entries, i) \in Before(entries, i)
              /\ \E n \in 2 .. i :
                    /\ entries[i].key = Append(StemOf(entries, i), n)
                    /\ \A m \in 2 .. n - 1 : Append(StemOf(entries, i), m) \in Before(entries, i)
KeyOf(entries, d) == Declared!NextKey(entries, d)
Taken(entries, by, d) == Declared!Result(d, Declared!Selected(by, KeyOf(entries, d), d))
Accepts(entries, by, d, entry, value) ==
    /\ entry = Declared!Entry(d, KeyOf(entries, d), Taken(entries, by, d))
    /\ value = Taken(entries, by, d).value
    /\ Taken(entries, by, d).current # Declared!Invalid
Ran(declarations, entries, gave, by) ==
    \A i \in 1 .. Len(entries) :
        Accepts(SubSeq(entries, 1, i - 1), by, declarations[i], entries[i], gave[i])
RepeatsSoFar ==
    /\ Declared!IsSequence(shown.schema) /\ Declared!IsSequence(shown.given)
    /\ Len(shown.schema) = Len(program) /\ Len(shown.given) = Len(program)
    /\ KeysStable(shown.schema)
    /\ Ran(program, shown.schema, shown.given, shown.by)
    /\ params = Declared!Currents(shown.schema)
    /\ ~refused
    /\ schema = SubSeq(shown.schema, 1, place - 1)
    /\ given = SubSeq(shown.given, 1, place - 1)
InputsInv ==
    /\ program \in Programs
    /\ place \in 1 .. Len(program) + 1
    /\ Declared!IsSequence(schema) /\ Declared!IsSequence(given)
    /\ KeysStable(schema)
    /\ ~refused =>
          /\ Len(schema) = place - 1 /\ Len(given) = place - 1
          /\ Ran(program, schema, given, params)
    /\ shown # None /\ shown.whole /\ ~Declared!GaveSeries => RepeatsSoFar

LEMMA ProgramFacts ==
    ASSUME InputsInv
    PROVE  /\ Declared!IsSequence(program) /\ Len(program) \in Nat
           /\ \A i \in 1 .. Len(program) : Declared!IsSequence(program[i].title)
BY HostConstants DEF InputsInv, Declared!ConstantsAssumption, Declared!IsSequence

LEMMA NoEntries == Declared!IsSequence(<<>>) /\ Len(<<>>) = 0
BY DEF Declared!IsSequence

LEMMA InputsInit == Declared!Init => InputsInv
<1> SUFFICES ASSUME Declared!Init  PROVE InputsInv
  OBVIOUS
<1>1. program \in Programs /\ place = 1 /\ schema = <<>> /\ given = <<>> /\ ~refused /\ shown = None
  BY DEF Declared!Init
<1>2. Len(program) \in Nat
  BY <1>1, HostConstants DEF Declared!ConstantsAssumption, Declared!IsSequence
<1> QED  BY <1>1, <1>2, NoEntries DEF InputsInv, KeysStable, Ran

\* An entry that was accepted has a new key.
LEMMA AppendKeepsKeys ==
    ASSUME NEW entries, Declared!IsSequence(entries), KeysStable(entries),
           NEW d, Declared!IsSequence(d.title), NEW answer_
    PROVE  KeysStable(Append(entries, Declared!Entry(d, KeyOf(entries, d), answer_)))
<1> DEFINE e == Declared!Entry(d, KeyOf(entries, d), answer_)
           L == Len(entries)
           t == Append(entries, e)
<1>1. /\ L \in Nat /\ DOMAIN entries = 1 .. L /\ Len(t) = L + 1
      /\ \A i \in 1 .. L : t[i] = entries[i]
      /\ t[L + 1] = e
  BY AnySeq
<1>2. e.key = KeyOf(entries, d) /\ e.kind = Declared!Kind(d) /\ e.title = d.title
  BY DEF Declared!Entry
<1>3. Declared!StateKeys(entries) = Before(entries, L + 1)
  BY <1>1 DEF Declared!StateKeys, Before
<1> HIDE DEF e, t
<1>4. \A i \in 1 .. L + 1 : Before(t, i) = Before(entries, i)
  BY <1>1 DEF Before
<1>5. \A i \in 1 .. L : StemOf(t, i) = StemOf(entries, i)
  BY <1>1 DEF StemOf
<1>6. StemOf(t, L + 1) = Declared!Base(entries, d)
  BY <1>1, <1>2 DEF StemOf, Declared!Base
<1> HIDE DEF L
<1>7. ASSUME NEW i \in 1 .. L
      PROVE  /\ t[i].key \notin Before(t, i)
             /\ \/ t[i].key = StemOf(t, i)
                \/ /\ StemOf(t, i) \in Before(t, i)
                   /\ \E n \in 2 .. i :
                         /\ t[i].key = Append(StemOf(t, i), n)
                         /\ \A m \in 2 .. n - 1 : Append(StemOf(t, i), m) \in Before(t, i)
  <2>1. t[i] = entries[i] /\ Before(t, i) = Before(entries, i) /\ StemOf(t, i) = StemOf(entries, i)
    BY <1>1, <1>4, <1>5
  <2> QED  BY <2>1 DEF KeysStable, L
<1>8. /\ t[L + 1].key \notin Before(t, L + 1)
      /\ \/ t[L + 1].key = StemOf(t, L + 1)
         \/ /\ StemOf(t, L + 1) \in Before(t, L + 1)
            /\ \E n \in 2 .. L + 1 :
                  /\ t[L + 1].key = Append(StemOf(t, L + 1), n)
                  /\ \A m \in 2 .. n - 1 : Append(StemOf(t, L + 1), m) \in Before(t, L + 1)
  <2>1. t[L + 1].key = Declared!NextKey(entries, d)
    BY <1>1, <1>2 DEF KeyOf
  <2>2. Before(t, L + 1) = Declared!StateKeys(entries)
    BY <1>1, <1>3, <1>4
  <2> QED  BY <1>6, <2>1, <2>2, NextKeyIsNew DEF L
<1>9. 1 .. Len(t) = 1 .. L \cup {L + 1}
  BY <1>1
<1> QED  BY <1>7, <1>8, <1>9 DEF KeysStable, t, e

\* One more declaration that was accepted.
LEMMA AppendRan ==
    ASSUME NEW entries, Declared!IsSequence(entries), NEW gave, Declared!IsSequence(gave),
           NEW by, Ran(program, entries, gave, by), Len(gave) = Len(entries),
           NEW entry, NEW value, Accepts(entries, by, program[Len(entries) + 1], entry, value)
    PROVE  Ran(program, Append(entries, entry), Append(gave, value), by)
<1> DEFINE L == Len(entries)
           t == Append(entries, entry)
           g == Append(gave, value)
<1>1. /\ L \in Nat /\ Len(t) = L + 1
      /\ \A i \in 1 .. L : t[i] = entries[i]
      /\ t[L + 1] = entry
  BY AnySeq
<1>2. /\ \A i \in 1 .. L : g[i] = gave[i]
      /\ g[L + 1] = value
  BY AnySeq
<1>3. \A n \in 0 .. L : SubSeq(t, 1, n) = SubSeq(entries, 1, n)
  BY PrefixOfAppend
<1>4. SubSeq(entries, 1, L) = entries
  <2>1. L \in 0 .. Len(entries)
    BY <1>1
  <2> QED  BY <2>1, Prefixes
<1> HIDE DEF t, g, L
<1>5. ASSUME NEW i \in 1 .. L
      PROVE  Accepts(SubSeq(t, 1, i - 1), by, program[i], t[i], g[i])
  <2>1. i - 1 \in 0 .. L
    BY <1>1
  <2>2. SubSeq(t, 1, i - 1) = SubSeq(entries, 1, i - 1)
    BY <1>3, <2>1
  <2>3. Accepts(SubSeq(entries, 1, i - 1), by, program[i], entries[i], gave[i])
    BY DEF Ran, L
  <2> QED  BY <1>1, <1>2, <2>2, <2>3
<1>6. Accepts(SubSeq(t, 1, L + 1 - 1), by, program[L + 1], t[L + 1], g[L + 1])
  <2>1. L + 1 - 1 = L /\ L \in 0 .. L
    BY <1>1
  <2>2. SubSeq(t, 1, L + 1 - 1) = entries
    BY <1>3, <1>4, <2>1
  <2>3. Accepts(entries, by, program[L + 1], entry, value)
    BY DEF L
  <2> QED  BY <1>1, <1>2, <2>2, <2>3
<1>7. 1 .. Len(t) = 1 .. L \cup {L + 1}
  BY <1>1
<1>8. Ran(program, t, g, by)
  <2>1. ASSUME NEW i \in 1 .. Len(t)
        PROVE  Accepts(SubSeq(t, 1, i - 1), by, program[i], t[i], g[i])
    <3>1. CASE i \in 1 .. L  BY <1>5, <3>1
    <3>2. CASE i = L + 1
      <4>1. i - 1 = L + 1 - 1  BY <1>1, <3>2
      <4> QED  BY <1>6, <3>2, <4>1
    <3> QED  BY <1>7, <3>1, <3>2
  <2> QED  BY <2>1 DEF Ran
<1> QED  BY <1>8 DEF t, g

\* The current value of a key is that of its only entry.
LEMMA CurrentOfKey ==
    ASSUME NEW entries, Declared!IsSequence(entries), KeysStable(entries), NEW i \in 1 .. Len(entries)
    PROVE  /\ entries[i].key \in DOMAIN Declared!Currents(entries)
           /\ Declared!Currents(entries)[entries[i].key] = entries[i].current
<1> DEFINE k == entries[i].key
           j == CHOOSE n \in DOMAIN entries : entries[n].key = k
<1>1. DOMAIN entries = 1 .. Len(entries) /\ Len(entries) \in Nat
  BY DEF Declared!IsSequence
<1>2. j \in 1 .. Len(entries) /\ entries[j].key = k
  BY <1>1
<1>3. k \in Declared!StateKeys(entries)
  BY <1>1 DEF Declared!StateKeys
<1>4. Declared!Currents(entries)[k] = entries[j].current
  BY <1>3 DEF Declared!Currents
<1>5. DOMAIN Declared!Currents(entries) = Declared!StateKeys(entries)
  BY DEF Declared!Currents
<1> HIDE DEF k, j
<1>6. j = i
  <2>0. i \in Int /\ j \in Int
    BY <1>1, <1>2
  <2>1. CASE j < i
    <3>1. j \in 1 .. i - 1  BY <1>2, <2>0, <2>1
    <3>2. entries[j].key \in Before(entries, i)  BY <3>1 DEF Before
    <3> QED  BY <1>2, <3>2 DEF KeysStable, k
  <2>2. CASE i < j
    <3>1. i \in 1 .. j - 1  BY <1>2, <2>0, <2>2
    <3>2. entries[i].key \in Before(entries, j)  BY <3>1 DEF Before
    <3> QED  BY <1>2, <3>2 DEF KeysStable, k
  <2> QED  BY <2>0, <2>1, <2>2
<1> QED  BY <1>3, <1>4, <1>5, <1>6 DEF k

\* The next declaration of a run with what was shown takes what it took.
LEMMA RepeatsNext ==
    ASSUME InputsInv, shown # None /\ shown.whole /\ ~Declared!GaveSeries, place <= Len(program)
    PROVE  /\ Accepts(schema, params, program[place], shown.schema[place], shown.given[place])
<1> DEFINE d == program[place]
           old == shown.schema
           key == KeyOf(schema, d)
           by == shown.by
           v == Declared!Selected(by, key, d)
           r == Declared!Result(d, v)
<1>1. RepeatsSoFar
  BY DEF InputsInv
<1>2. place \in 1 .. Len(program) /\ place \in 1 .. Len(old)
  BY <1>1, ProgramFacts DEF InputsInv, RepeatsSoFar
<1>3. Accepts(schema, by, d, old[place], shown.given[place])
  <2>1. Accepts(SubSeq(old, 1, place - 1), by, d, old[place], shown.given[place])
    BY <1>1, <1>2 DEF RepeatsSoFar, Ran
  <2>2. SubSeq(old, 1, place - 1) = schema
    BY <1>1 DEF RepeatsSoFar
  <2> QED  BY <2>1, <2>2
<1>4. old[place] = Declared!Entry(d, key, r) /\ shown.given[place] = r.value /\ r.current # Declared!Invalid
  BY <1>3 DEF Accepts, Taken
<1>5. old[place].key = key /\ old[place].current = r.current
  BY <1>4 DEF Declared!Entry
<1>6. key \in DOMAIN params /\ params[key] = r.current
  <2>1. old[place].key \in DOMAIN Declared!Currents(old)
        /\ Declared!Currents(old)[old[place].key] = old[place].current
    BY <1>1, <1>2, CurrentOfKey DEF RepeatsSoFar
  <2>2. params = Declared!Currents(old)
    BY <1>1 DEF RepeatsSoFar
  <2> QED  BY <1>5, <2>1, <2>2
<1>7. Declared!Selected(params, key, d) = r.current
  BY <1>6 DEF Declared!Selected
<1>8. Declared!Kind(d) = "source" => v.kind # "series"
  <2>1. CASE key \in DOMAIN by
    BY <2>1 DEF Declared!Selected, Declared!GaveSeries
  <2>2. CASE key \notin DOMAIN by /\ Declared!Kind(d) = "source"
    <3>1. v = Declared!SourceName(d.defval)
      BY <2>2 DEF Declared!Selected, Declared!Default
    <3> QED  BY <3>1 DEF Declared!SourceName, Declared!Text, Declared!Token, Declared!Value
  <2> QED  BY <2>1, <2>2
<1>9. Declared!Result(d, r.current) = r
  BY <1>4, <1>8, ResultsRepeat
<1>10. Taken(schema, params, d) = r
  BY <1>7, <1>9 DEF Taken
<1> QED  BY <1>4, <1>10 DEF Accepts

LEMMA DeclareStep == InputsInv /\ Declared!Declare => InputsInv'
<1> SUFFICES ASSUME InputsInv, Declared!Declare  PROVE InputsInv'
  OBVIOUS
<1> DEFINE d == program[place]
           answer_ == Taken(schema, params, d)
           e == Declared!Entry(d, KeyOf(schema, d), answer_)
           L == Len(schema)
<1>1. /\ place <= Len(program) /\ place' = place + 1
      /\ answer_.current # Declared!Invalid
      /\ schema' = Append(schema, e) /\ given' = Append(given, answer_.value)
      /\ program' = program /\ params' = params /\ refused' = refused /\ shown' = shown
  BY DEF Declared!Declare, Declared!Selection, Taken, KeyOf
<1>2. Accepts(schema, params, d, e, answer_.value)
  BY <1>1 DEF Accepts
<1>3. Declared!IsSequence(schema) /\ Declared!IsSequence(given) /\ KeysStable(schema)
  BY DEF InputsInv
<1>4. place \in 1 .. Len(program) /\ Len(program) \in Nat /\ place \in Nat
  BY <1>1, ProgramFacts DEF InputsInv
<1>5. /\ Declared!IsSequence(Append(schema, e))
      /\ Len(Append(schema, e)) = Len(schema) + 1 /\ Len(schema) \in Nat
  BY <1>3, AnySeq
<1>6. /\ Declared!IsSequence(Append(given, answer_.value))
      /\ Len(Append(given, answer_.value)) = Len(given) + 1 /\ Len(given) \in Nat
  BY <1>3, AnySeq
<1>7. KeysStable(Append(schema, e))
  <2>1. Declared!IsSequence(d.title)
    BY <1>4, ProgramFacts
  <2> QED  BY <1>3, <2>1, AppendKeepsKeys
<1>8. ASSUME ~refused
      PROVE  /\ Len(schema') = place' - 1 /\ Len(given') = place' - 1
             /\ Ran(program, schema', given', params')
  <2>1. Len(schema) = place - 1 /\ Len(given) = place - 1 /\ Ran(program, schema, given, params)
    BY <1>8 DEF InputsInv
  <2>2. Len(schema) + 1 = place /\ place' - 1 = place
    BY <1>1, <1>4, <2>1
  <2>3. Accepts(schema, params, program[Len(schema) + 1], e, answer_.value)
    BY <1>2, <2>2
  <2> HIDE DEF e, answer_, d
  <2>4. Ran(program, Append(schema, e), Append(given, answer_.value), params)
    BY <1>3, <2>1, <2>3, AppendRan
  <2>5. Len(schema') = place /\ Len(given') = place
    BY <1>1, <1>5, <1>6, <2>1, <2>2
  <2> QED  BY <1>1, <2>2, <2>4, <2>5
<1>9. ASSUME shown # None, shown.whole, ~Declared!GaveSeries  PROVE RepeatsSoFar'
  <2>1. RepeatsSoFar
    BY <1>9 DEF InputsInv
  <2>2. Accepts(schema, params, d, shown.schema[place], shown.given[place])
    BY <1>1, <1>9, RepeatsNext
  <2>3. e = shown.schema[place] /\ answer_.value = shown.given[place]
    BY <2>2 DEF Accepts
  <2> HIDE DEF e, answer_, d
  <2>4. place - 1 + 1 = place /\ place' - 1 = place /\ place - 1 \in 0 .. Len(program) /\ place - 1 < Len(program)
    BY <1>1, <1>4
  <2>5. Append(SubSeq(shown.schema, 1, place - 1), shown.schema[place]) = SubSeq(shown.schema, 1, place)
    BY <2>1, <2>4, Prefixes DEF RepeatsSoFar
  <2>6. Append(SubSeq(shown.given, 1, place - 1), shown.given[place]) = SubSeq(shown.given, 1, place)
    BY <2>1, <2>4, Prefixes DEF RepeatsSoFar
  <2>7. schema' = SubSeq(shown.schema, 1, place' - 1) /\ given' = SubSeq(shown.given, 1, place' - 1)
    BY <1>1, <2>1, <2>3, <2>4, <2>5, <2>6 DEF RepeatsSoFar
  <2> QED  BY <1>1, <2>1, <2>7 DEF RepeatsSoFar, Ran, Accepts
<1> HIDE DEF e, answer_, d
<1>10. place + 1 \in 1 .. Len(program) + 1
  BY <1>4
<1>11. shown' = shown /\ Declared!GaveSeries' = Declared!GaveSeries /\ refused' = refused
  BY <1>1 DEF Declared!GaveSeries
<1>12. Declared!IsSequence(schema') /\ Declared!IsSequence(given') /\ KeysStable(schema')
  BY <1>1, <1>5, <1>6, <1>7
<1>13. program' \in Programs /\ place' \in 1 .. Len(program') + 1
  BY <1>1, <1>10 DEF InputsInv
<1>14. (shown # None /\ shown.whole /\ ~Declared!GaveSeries => RepeatsSoFar)'
  BY <1>9, <1>11
<1>15. (~refused =>
          /\ Len(schema) = place - 1 /\ Len(given) = place - 1
          /\ Ran(program, schema, given, params))'
  BY <1>1, <1>8, <1>11
<1> QED  BY <1>12, <1>13, <1>14, <1>15 DEF InputsInv

LEMMA RefuseInputStep ==
    ASSUME InputsInv, NEW caught \in BOOLEAN, Declared!Refuse(caught)  PROVE InputsInv'
<1>1. /\ place <= Len(program)
      /\ place' = IF caught THEN place + 1 ELSE Len(program) + 1
      /\ refused' = TRUE
      /\ program' = program /\ params' = params /\ schema' = schema /\ given' = given /\ shown' = shown
  BY DEF Declared!Refuse
<1>2. Taken(schema, params, program[place]).current = Declared!Invalid
  BY DEF Declared!Refuse, Declared!Selection, Taken, KeyOf
<1>3. ~ (shown # None /\ shown.whole /\ ~Declared!GaveSeries)
  BY <1>1, <1>2, RepeatsNext DEF Accepts
<1>4. place' \in 1 .. Len(program) + 1
  BY <1>1, ProgramFacts DEF InputsInv
<1>5. (~refused =>
          /\ Len(schema) = place - 1 /\ Len(given) = place - 1
          /\ Ran(program, schema, given, params))'
  BY <1>1
<1>6. (shown # None /\ shown.whole /\ ~Declared!GaveSeries => RepeatsSoFar)'
  BY <1>1, <1>3 DEF Declared!GaveSeries
<1>7. (Declared!IsSequence(schema) /\ Declared!IsSequence(given) /\ KeysStable(schema))'
  BY <1>1 DEF InputsInv
<1>8. (program \in Programs /\ place \in 1 .. Len(program) + 1)'
  BY <1>1, <1>4 DEF InputsInv
<1> QED  BY <1>5, <1>6, <1>7, <1>8 DEF InputsInv

LEMMA RerunStep == InputsInv /\ Declared!Rerun => InputsInv'
<1> SUFFICES ASSUME InputsInv, Declared!Rerun  PROVE InputsInv'
  OBVIOUS
<1>1. /\ place > Len(program)
      /\ shown' = [schema |-> schema, given |-> given, whole |-> ~refused, by |-> params]
      /\ params' = Declared!Currents(schema)
      /\ place' = 1 /\ schema' = <<>> /\ given' = <<>> /\ refused' = FALSE
      /\ program' = program
  BY DEF Declared!Rerun
<1>2. Len(program) \in Nat
  BY ProgramFacts
<1>3. (program \in Programs /\ place \in 1 .. Len(program) + 1)'
  BY <1>1, <1>2 DEF InputsInv
<1>4. (Declared!IsSequence(schema) /\ Declared!IsSequence(given) /\ KeysStable(schema))'
  BY <1>1, NoEntries DEF KeysStable
<1>5. (~refused =>
          /\ Len(schema) = place - 1 /\ Len(given) = place - 1
          /\ Ran(program, schema, given, params))'
  BY <1>1, NoEntries DEF Ran
<1>6. ASSUME shown'.whole  PROVE RepeatsSoFar'
  <2>1. ~refused /\ shown'.schema = schema /\ shown'.given = given /\ shown'.by = params
    BY <1>1, <1>6
  <2>2. /\ Declared!IsSequence(schema) /\ Declared!IsSequence(given) /\ KeysStable(schema)
        /\ Len(schema) = place - 1 /\ Len(given) = place - 1 /\ Ran(program, schema, given, params)
        /\ place \in 1 .. Len(program) + 1
    BY <2>1 DEF InputsInv
  <2>3. place - 1 = Len(program)
    BY <1>1, <1>2, <2>2
  <2>4. SubSeq(schema, 1, 0) = <<>> /\ SubSeq(given, 1, 0) = <<>>
    BY SubSeqEmpty
  <2>5. place' - 1 = 0
    BY <1>1
  <2> QED  BY <1>1, <2>1, <2>2, <2>3, <2>4, <2>5 DEF RepeatsSoFar
<1>7. (shown # None /\ shown.whole /\ ~Declared!GaveSeries => RepeatsSoFar)'
  BY <1>6
<1> QED  BY <1>3, <1>4, <1>5, <1>7 DEF InputsInv

LEMMA InputsStep == InputsInv /\ (Declared!Next \/ UNCHANGED inputs) => InputsInv'
<1>1. ASSUME InputsInv, UNCHANGED inputs  PROVE InputsInv'
  BY <1>1 DEF inputs, InputsInv, RepeatsSoFar, Declared!GaveSeries
<1> QED  BY <1>1, DeclareStep, RefuseInputStep, RerunStep DEF Declared!Next

LEMMA InputsRepeat == InputsInv => Declared!KeysAreStable /\ Declared!RerunRepeats
<1> SUFFICES ASSUME InputsInv  PROVE Declared!KeysAreStable /\ Declared!RerunRepeats
  OBVIOUS
<1>1. DOMAIN schema = 1 .. Len(schema) /\ KeysStable(schema)
  BY DEF InputsInv, Declared!IsSequence
<1>2. Declared!KeysAreStable
  BY <1>1 DEF Declared!KeysAreStable, KeysStable, Declared!Stem, Declared!KeysBefore, StemOf, Before
<1>3. Declared!RerunRepeats
  BY DEF InputsInv, RepeatsSoFar, Declared!RerunRepeats
<1> QED  BY <1>2, <1>3

-----------------------------------------------------------------------------
(* A behaviour of Hosts is about one part, and leaves the others alone.     *)

HostsInv == ExecutorInv /\ HistoricalInv /\ TraceInv /\ EventsInv /\ InputsInv

LEMMA HostsInvInit == HostsInit => HostsInv
BY ExecutorInit, HistoricalInit, TraceInit, EventsInit, InputsInit DEF HostsInit, HostsInv

LEMMA HostsInvStep == HostsInv /\ [HostsNext]_<<part, hosts>> => HostsInv'
<1> SUFFICES ASSUME HostsInv, [HostsNext]_<<part, hosts>>  PROVE HostsInv'
  OBVIOUS
<1>1. /\ Events!Next \/ UNCHANGED shared
      /\ Executor!Next \/ UNCHANGED executor
      /\ Historical!Next \/ UNCHANGED historical
      /\ Trace!Next \/ UNCHANGED trace
      /\ Declared!Next \/ UNCHANGED inputs
  BY DEF HostsNext, hosts
<1> QED  BY <1>1, ExecutorStep, HistoricalStep, TraceStep, EventsStep, InputsStep DEF HostsInv

\* What a host is given is what happened: for every feed of bars and number of
\* subscribers, shared events count once (manager.py); for every deadline, no
\* answer of a worker process is lost and no worker is left (executor.py); for
\* every horizon, a history is whole up to its cursor (historical.py); for every
\* limit, a trace accounts for its spans (trace.py); and for every script, keys
\* of inputs are stable and what a run showed is what the next one gets
\* (input.py).
THEOREM HostsRight == HostsSpec => []HostsAnswerRight
<1>1. HostsInv => HostsAnswerRight
  BY EventsCount, HistoricalWhole, TraceSound, InputsRepeat
     DEF HostsInv, HostsAnswerRight, ExecutorInv
<1> QED  BY <1>1, HostsInvInit, HostsInvStep, PTL DEF HostsSpec
=============================================================================
