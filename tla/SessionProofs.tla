--------------------------- MODULE SessionProofs ---------------------------
(***************************************************************************)
(* What a session holds is what it has committed: for every retention,     *)
(* recording budget, number of bars and mixture of calls, failures,        *)
(* interrupts, restarts and restores.  One invariant (IInv) describes the  *)
(* fields of a session, and those of the checkpoint its host keeps, by the *)
(* feed of committed bars; the lemmas say that each way to go on keeps it. *)
(***************************************************************************)
EXTENDS Session, SequenceTheorems, FiniteSetTheorems, TLAPS

LastTime(f) == IF f = << >> THEN NoTime ELSE f[Len(f)].time

\* The clocks of a session with retention r that has committed feed f.
ClocksTell(f, r, last, count, times) ==
    /\ f \in Seq(Record)
    /\ Increasing(TimesOf(f))
    /\ last = LastTime(f)
    /\ count = Len(f)
    /\ times = Newest(TimesOf(f), r)

\* Its recording.
RecordingTells(f, bars, seeded, whole) ==
    /\ bars = IF whole THEN TimesOf(f) ELSE << >>
    /\ seeded \in 0 .. Len(bars)
    /\ whole \in BOOLEAN

\* The places its script has written to.  The committed history of the cell
\* holds how many records there were after each bar.
Counting(f) == [i \in DOMAIN f |-> i]
ContextTells(f, r, c) ==
    /\ c.state = f
    /\ c.requestBars = Newest(TimesOf(f), r)
    /\ c.history = Newest(Counting(f), r)
    /\ c.barTime = LastTime(f)
    /\ c.barIndex = Len(f) - 1
    /\ Len(c.varip) <= 1
    /\ \A i \in DOMAIN c.varip : c.varip[i].time = LastTime(f)
PlacesTell(f, r, c, outside) ==
    /\ outside = <<f, f>>
    /\ c # NoContext => ContextTells(f, r, c)

\* A session that has no context yet has done nothing yet.
UnusedInv == Healthy /\ ctx = NoContext => feed = << >> /\ visited = {}

\* The calls a seed or a replay has still to make come after the bars it
\* has committed, and no preview is open meanwhile.
QueueInv ==
    /\ \A i, j \in DOMAIN queue : i < j => queue[i].time < queue[j].time
    /\ \A i \in DOMAIN queue : queue[i].time > lastClosed
    /\ queue # << >> => Healthy /\ previewTime = NoTime /\ torn = NoTime

\* The cells of the bar that is open at a time, and those that an interrupted
\* preview of a later bar has put in their place.
Intrabar(time, cells, strays) ==
    /\ strays = NoTime =>
          /\ time = NoTime <=> cells = << >>
          /\ \A i \in DOMAIN cells : cells[i].time = time /\ (cells[i].isnew <=> i = 1)
    /\ strays # NoTime =>
          /\ strays > time
          /\ \A i \in DOMAIN cells :
                IF i = 1 /\ cells[i].isnew THEN cells[i].time = strays
                ELSE cells[i].time = time /\ ~cells[i].isnew

\* The open preview is the newest of the bars this session has previewed.
PreviewInv ==
    /\ previewTime # NoTime => previewTime > lastClosed /\ previewTime \in visited
    /\ Intrabar(previewTime, previewVarip, torn)
    /\ Healthy => \A v \in visited : v <= lastClosed \/ v <= previewTime

\* The checkpoint of the host tells the same of its own feed.
SavedStateInv(s) ==
    /\ ClocksTell(s.feed, s.retention, s.lastClosed, s.closedCount, s.retained)
    /\ RecordingTells(s.feed, s.recorded, s.seedCount, s.complete)
    /\ s.ctx \in ContextOf(s.retention) \cup {NoContext}
    /\ s.globals \in Seq(Record) /\ s.cache \in Seq(Record)
    /\ s.interrupted \in BOOLEAN
    /\ s.ctx = NoContext => s.feed = << >>
    /\ ~s.interrupted => PlacesTell(s.feed, s.retention, s.ctx, <<s.globals, s.cache>>)
SavedReplayInv(s) ==
    /\ s.retention \in Retentions
    /\ s.recorded \in Seq(Times) /\ Increasing(s.recorded)
    /\ s.seedCount \in 0 .. Len(s.recorded)
SavedInv ==
    saved # NoSnapshot =>
        IF saved.kind = "replay" THEN SavedReplayInv(saved) ELSE SavedStateInv(saved)

IInv ==
    /\ TypeOK
    /\ ClocksTell(feed, retention, lastClosed, closedCount, retained)
    /\ RecordingTells(feed, recorded, seedCount, complete)
    /\ Healthy /\ ~interrupted => PlacesTell(feed, retention, ctx, <<globals, cache>>)
    /\ poisoned => ctx = NoContext
    /\ UnusedInv /\ QueueInv /\ PreviewInv /\ SavedInv

-----------------------------------------------------------------------------
(* Deques and feeds.                                                       *)

Limits == (Nat \ {0}) \cup {NoLimit}

\* A deque holds the newest items, in their order.
LEMMA NewestProperties ==
    ASSUME NEW S, NEW s \in Seq(S), NEW n \in Limits
    PROVE  /\ Newest(s, n) \in Seq(S)
           /\ Len(Newest(s, n)) = RetainedLength(Len(s), n)
           /\ RetainedLength(Len(s), n) \in 0 .. Len(s)
           /\ \A i \in 1 .. Len(Newest(s, n)) :
                 Newest(s, n)[i] = s[i + Len(s) - RetainedLength(Len(s), n)]
           /\ Newest(s, n) = SubSeq(s, Len(s) - RetainedLength(Len(s), n) + 1, Len(s))
<1>1. Len(s) \in Nat /\ DOMAIN s = 1 .. Len(s) /\ \A i \in 1 .. Len(s) : s[i] \in S
  BY LenProperties, ElementOfSeq
<1>2. NoLimit \notin Nat
  BY ConstantsAssumption
<1>3. CASE n = NoLimit \/ Len(s) <= n
  <2>1. Newest(s, n) = s /\ RetainedLength(Len(s), n) = Len(s)
    BY <1>3 DEF Newest, RetainedLength
  <2>2. SubSeq(s, 1, Len(s)) = s
    BY SubSeqFull
  <2>3. Len(s) - Len(s) + 1 = 1 /\ \A i \in 1 .. Len(s) : i + Len(s) - Len(s) = i
    BY <1>1
  <2> QED  BY <1>1, <2>1, <2>2, <2>3
<1>4. CASE ~(n = NoLimit \/ Len(s) <= n)
  <2>1. n \in Nat /\ n > 0 /\ n < Len(s)
    BY <1>1, <1>4 DEF Limits
  <2>2. Newest(s, n) = SubSeq(s, Len(s) - n + 1, Len(s)) /\ RetainedLength(Len(s), n) = n
    BY <1>4 DEF Newest, RetainedLength
  <2> DEFINE m == Len(s) - n + 1
  <2>3. m \in Int /\ Len(s) \in Int /\ \A i \in m .. Len(s) : s[i] \in S
    BY <1>1, <2>1
  <2>4. /\ SubSeq(s, m, Len(s)) \in Seq(S)
        /\ Len(SubSeq(s, m, Len(s))) = IF m <= Len(s) THEN Len(s) - m + 1 ELSE 0
        /\ \A i \in 1 .. Len(s) - m + 1 : SubSeq(s, m, Len(s))[i] = s[m + i - 1]
    BY <2>3, SubSeqProperties
  <2>5. Len(SubSeq(s, m, Len(s))) = n
    BY <1>1, <2>1, <2>4
  <2>6. \A i \in 1 .. n : SubSeq(s, m, Len(s))[i] = s[i + Len(s) - n]
    <3> TAKE i \in 1 .. n
    <3>1. i \in 1 .. Len(s) - m + 1 /\ m + i - 1 = i + Len(s) - n
      BY <1>1, <2>1
    <3> QED  BY <2>4, <3>1
  <2>7. n \in 0 .. Len(s)
    BY <1>1, <2>1
  <2> HIDE DEF m
  <2>8. m = Len(s) - n + 1
    BY DEF m
  <2> QED  BY <2>2, <2>4, <2>5, <2>6, <2>7, <2>8
<1> QED  BY <1>3, <1>4

\* Forgetting before an item comes makes no difference.
LEMMA NewestAppend ==
    ASSUME NEW S, NEW s \in Seq(S), NEW x \in S, NEW n \in Limits
    PROVE  Newest(Append(Newest(s, n), x), n) = Newest(Append(s, x), n)
<1> DEFINE short == Newest(s, n)
           k == RetainedLength(Len(s), n)
<1>1. /\ short \in Seq(S) /\ Len(short) = k /\ k \in 0 .. Len(s)
      /\ \A i \in 1 .. k : short[i] = s[i + Len(s) - k]
      /\ Len(s) \in Nat
  BY NewestProperties, LenProperties
<1> DEFINE a == Append(short, x)
           b == Append(s, x)
<1>2. k = IF n = NoLimit \/ Len(s) <= n THEN Len(s) ELSE n
  BY DEF RetainedLength
<1> HIDE DEF short, k
<1>3. /\ a \in Seq(S) /\ Len(a) = k + 1 /\ a[k + 1] = x
      /\ \A i \in 1 .. k : a[i] = s[i + Len(s) - k]
  BY <1>1, AppendProperties
<1>4. /\ b \in Seq(S) /\ Len(b) = Len(s) + 1 /\ b[Len(s) + 1] = x
      /\ \A i \in 1 .. Len(s) : b[i] = s[i]
  BY AppendProperties
<1>5. \A i \in 1 .. k + 1 : a[i] = b[i + Len(s) - k]
  <2> TAKE i \in 1 .. k + 1
  <2>1. CASE i = k + 1
    <3>1. i + Len(s) - k = Len(s) + 1
      BY <1>1, <2>1
    <3> QED  BY <1>3, <1>4, <2>1, <3>1
  <2>2. CASE i \in 1 .. k
    <3>1. i + Len(s) - k \in 1 .. Len(s)
      BY <1>1, <2>2
    <3> QED  BY <1>3, <1>4, <2>2, <3>1
  <2> QED  BY <1>1, <2>1, <2>2
<1> HIDE DEF a, b
<1> DEFINE ka == RetainedLength(k + 1, n)
           kb == RetainedLength(Len(s) + 1, n)
<1>6. /\ Newest(a, n) \in Seq(S) /\ Len(Newest(a, n)) = ka /\ ka \in 0 .. k + 1
      /\ \A i \in 1 .. ka : Newest(a, n)[i] = a[i + (k + 1) - ka]
  <2>1. /\ Newest(a, n) \in Seq(S) /\ Len(Newest(a, n)) = RetainedLength(Len(a), n)
        /\ RetainedLength(Len(a), n) \in 0 .. Len(a)
        /\ \A i \in 1 .. Len(Newest(a, n)) :
              Newest(a, n)[i] = a[i + Len(a) - RetainedLength(Len(a), n)]
    BY <1>3, NewestProperties
  <2> QED  BY <1>3, <2>1
<1>7. /\ Newest(b, n) \in Seq(S) /\ Len(Newest(b, n)) = kb /\ kb \in 0 .. Len(s) + 1
      /\ \A i \in 1 .. kb : Newest(b, n)[i] = b[i + (Len(s) + 1) - kb]
  <2>1. /\ Newest(b, n) \in Seq(S) /\ Len(Newest(b, n)) = RetainedLength(Len(b), n)
        /\ RetainedLength(Len(b), n) \in 0 .. Len(b)
        /\ \A i \in 1 .. Len(Newest(b, n)) :
              Newest(b, n)[i] = b[i + Len(b) - RetainedLength(Len(b), n)]
    BY <1>4, NewestProperties
  <2> QED  BY <1>4, <2>1
<1>8. ka = kb
  BY <1>1, <1>2, ConstantsAssumption DEF RetainedLength, Limits
<1> HIDE DEF ka, kb
<1>9. \A i \in 1 .. ka : Newest(a, n)[i] = Newest(b, n)[i]
  <2> TAKE i \in 1 .. ka
  <2>1. i + (k + 1) - ka \in 1 .. k + 1
    BY <1>1, <1>6
  <2>2. (i + (k + 1) - ka) + Len(s) - k = i + (Len(s) + 1) - kb
    BY <1>1, <1>6, <1>8
  <2>3. a[i + (k + 1) - ka] = b[i + (Len(s) + 1) - kb]
    BY <1>5, <2>1, <2>2
  <2> QED  BY <1>6, <1>7, <1>8, <2>3
<1>10. Newest(a, n) = Newest(b, n)
  BY <1>6, <1>7, <1>8, <1>9, SeqEqual
<1> QED  BY <1>10 DEF a, b, short

LEMMA AFunctionIsASeq ==
    ASSUME NEW S, NEW n \in Nat, NEW g \in [1 .. n -> S]
    PROVE  g \in Seq(S) /\ Len(g) = n /\ DOMAIN g = 1 .. n
<1>1. g \in Seq(S)
  BY SeqDef
<1>2. Len(g) \in Nat /\ DOMAIN g = 1 .. Len(g)
  BY <1>1, LenProperties
<1> QED  BY <1>1, <1>2

LEMMA TimesOfProperties ==
    ASSUME NEW f \in Seq(Record)
    PROVE  /\ TimesOf(f) \in Seq(Times)
           /\ Len(TimesOf(f)) = Len(f) /\ Len(f) \in Nat
           /\ DOMAIN TimesOf(f) = 1 .. Len(f) /\ DOMAIN f = 1 .. Len(f)
           /\ \A i \in 1 .. Len(f) : TimesOf(f)[i] = f[i].time /\ f[i].time \in Times
<1>1. Len(f) \in Nat /\ DOMAIN f = 1 .. Len(f) /\ \A i \in 1 .. Len(f) : f[i] \in Record
  BY LenProperties, ElementOfSeq
<1>2. \A i \in 1 .. Len(f) : f[i].time \in Times
  BY <1>1 DEF Record
<1>3. TimesOf(f) \in [1 .. Len(f) -> Times]
  BY <1>1, <1>2 DEF TimesOf
<1>4. \A i \in 1 .. Len(f) : TimesOf(f)[i] = f[i].time
  BY <1>1 DEF TimesOf
<1> QED  BY <1>1, <1>2, <1>3, <1>4, AFunctionIsASeq

LEMMA TimesOfAppend ==
    ASSUME NEW f \in Seq(Record), NEW r \in Record
    PROVE  TimesOf(Append(f, r)) = Append(TimesOf(f), r.time)
<1> DEFINE g == Append(f, r)
           T == TimesOf(f)
<1>1. /\ g \in Seq(Record) /\ Len(g) = Len(f) + 1 /\ g[Len(f) + 1] = r
      /\ \A i \in 1 .. Len(f) : g[i] = f[i]
  BY AppendProperties
<1>2. r.time \in Times
  BY DEF Record
<1>3. T \in Seq(Times) /\ Len(T) = Len(f) /\ Len(f) \in Nat
      /\ \A i \in 1 .. Len(f) : T[i] = f[i].time
  BY TimesOfProperties
<1> HIDE DEF g, T
<1>4. TimesOf(g) \in Seq(Times) /\ Len(TimesOf(g)) = Len(g)
      /\ \A i \in 1 .. Len(g) : TimesOf(g)[i] = g[i].time
  BY <1>1, TimesOfProperties
<1>5. /\ Append(T, r.time) \in Seq(Times) /\ Len(Append(T, r.time)) = Len(T) + 1
      /\ \A i \in 1 .. Len(T) : Append(T, r.time)[i] = T[i]
      /\ Append(T, r.time)[Len(T) + 1] = r.time
  BY <1>2, <1>3, AppendProperties
<1>6. \A i \in 1 .. Len(g) : TimesOf(g)[i] = Append(T, r.time)[i]
  <2> TAKE i \in 1 .. Len(g)
  <2>1. CASE i = Len(f) + 1
    BY <1>1, <1>3, <1>4, <1>5, <2>1
  <2>2. CASE i \in 1 .. Len(f)
    BY <1>1, <1>3, <1>4, <1>5, <2>2
  <2> QED  BY <1>1, <1>3, <2>1, <2>2
<1>7. TimesOf(g) = Append(T, r.time)
  BY <1>1, <1>3, <1>4, <1>5, <1>6, SeqEqual
<1> QED  BY <1>7 DEF g, T

LEMMA CountingType ==
    ASSUME NEW f \in Seq(Record)
    PROVE  Counting(f) \in Seq(Nat) /\ Len(Counting(f)) = Len(f)
<1>1. Len(f) \in Nat /\ DOMAIN f = 1 .. Len(f)
  BY LenProperties
<1>2. Counting(f) \in [1 .. Len(f) -> Nat]
  BY <1>1 DEF Counting
<1> QED  BY <1>1, <1>2, AFunctionIsASeq

LEMMA CountingAppend ==
    ASSUME NEW f \in Seq(Record), NEW r \in Record
    PROVE  /\ Counting(f) \in Seq(Nat) /\ Len(Counting(f)) = Len(f)
           /\ Counting(Append(f, r)) = Append(Counting(f), Len(f) + 1)
<1> DEFINE g == Append(f, r)
           C == Counting(f)
<1>1. /\ g \in Seq(Record) /\ Len(g) = Len(f) + 1
      /\ Len(f) \in Nat /\ DOMAIN f = 1 .. Len(f) /\ DOMAIN g = 1 .. Len(g)
  BY AppendProperties, LenProperties
<1> HIDE DEF g
<1>2. C \in [1 .. Len(f) -> Nat] /\ \A i \in 1 .. Len(f) : C[i] = i
  BY <1>1 DEF Counting
<1>3. Counting(g) \in [1 .. Len(g) -> Nat] /\ \A i \in 1 .. Len(g) : Counting(g)[i] = i
  BY <1>1 DEF Counting
<1> HIDE DEF C
<1>4. C \in Seq(Nat) /\ Len(C) = Len(f) /\ Counting(g) \in Seq(Nat) /\ Len(Counting(g)) = Len(g)
  BY <1>1, <1>2, <1>3, AFunctionIsASeq
<1>5. Len(f) + 1 \in Nat
  BY <1>1
<1> DEFINE A == Append(C, Len(f) + 1)
<1>6. /\ A \in Seq(Nat) /\ Len(A) = Len(C) + 1
      /\ \A i \in 1 .. Len(C) : A[i] = C[i]
      /\ A[Len(C) + 1] = Len(f) + 1
  BY <1>4, <1>5, AppendProperties
<1> HIDE DEF A
<1>7. \A i \in 1 .. Len(g) : Counting(g)[i] = A[i]
  BY <1>1, <1>2, <1>3, <1>4, <1>6
<1>8. Counting(g) = A
  BY <1>1, <1>4, <1>6, <1>7, SeqEqual
<1> QED  BY <1>4, <1>8 DEF A, g, C

LEMMA IncreasingAppend ==
    ASSUME NEW s \in Seq(Times), Increasing(s), NEW t \in Times,
           s # << >> => s[Len(s)] < t
    PROVE  /\ Increasing(Append(s, t))
           /\ \A i \in 1 .. Len(s) : s[i] < t
<1> DEFINE a == Append(s, t)
<1>1. /\ a \in Seq(Times) /\ Len(a) = Len(s) + 1 /\ a[Len(s) + 1] = t
      /\ \A i \in 1 .. Len(s) : a[i] = s[i]
  BY AppendProperties
<1>2. /\ Len(s) \in Nat /\ DOMAIN s = 1 .. Len(s) /\ DOMAIN a = 1 .. Len(a)
      /\ Times \subseteq Int /\ \A i \in 1 .. Len(s) : s[i] \in Times
  BY <1>1, LenProperties, ElementOfSeq, ConstantsAssumption DEF Times
<1>3. \A i, j \in 1 .. Len(s) : i < j => s[i] < s[j]
  BY <1>2 DEF Increasing
<1>4. \A i \in 1 .. Len(s) : s[i] < t
  <2> TAKE i \in 1 .. Len(s)
  <2>1. s # << >> /\ Len(s) \in 1 .. Len(s)
    BY <1>2, EmptySeq
  <2>2. s[Len(s)] < t /\ s[i] \in Int /\ s[Len(s)] \in Int /\ t \in Int
    BY <1>2, <2>1
  <2>3. CASE i = Len(s)
    BY <2>2, <2>3
  <2>4. CASE i # Len(s)
    <3>1. Len(s) \in Nat
      BY <1>2
    <3>2. i < Len(s)
      BY <2>4, <3>1
    <3>3. s[i] < s[Len(s)]
      BY <1>3, <2>1, <3>2
    <3> QED  BY <2>2, <3>3
  <2> QED  BY <2>3, <2>4
<1> HIDE DEF a
<1>5. \A i, j \in 1 .. Len(a) : i < j => a[i] < a[j]
  <2> SUFFICES ASSUME NEW i \in 1 .. Len(a), NEW j \in 1 .. Len(a), i < j
               PROVE  a[i] < a[j]
    OBVIOUS
  <2>1. i \in 1 .. Len(s) /\ a[i] = s[i]
    BY <1>1, <1>2
  <2>2. CASE j = Len(s) + 1
    BY <1>1, <1>4, <2>1, <2>2
  <2>3. CASE j \in 1 .. Len(s)
    BY <1>1, <1>3, <2>1, <2>3
  <2> QED  BY <1>1, <1>2, <2>2, <2>3
<1>6. Increasing(a)
  BY <1>2, <1>5 DEF Increasing
<1> QED  BY <1>4, <1>6 DEF a

LEMMA PrunedType ==
    ASSUME NEW bars \in Seq(Times), NEW t \in Times
    PROVE  /\ Pruned(bars, t) \in Seq(Times)
           /\ CommittedBar(Pruned(bars, t), t) \in Seq(Times)
<1>1. Len(bars) \in Nat /\ DOMAIN bars = 1 .. Len(bars) /\ \A i \in 1 .. Len(bars) : bars[i] \in Times
  BY LenProperties, ElementOfSeq
<1>2. ASSUME NEW E, E \subseteq DOMAIN bars
      PROVE  SubSeq(bars, Cardinality(E) + 1, Len(bars)) \in Seq(Times)
  <2>1. IsFiniteSet(1 .. Len(bars))
    BY <1>1, FS_Interval
  <2>2. Cardinality(E) \in Nat
    BY <1>1, <1>2, <2>1, FS_Subset, FS_CardinalityType
  <2> DEFINE m == Cardinality(E) + 1
  <2>3. m \in Int /\ Len(bars) \in Int /\ m >= 1
    BY <1>1, <2>2
  <2> HIDE DEF m
  <2>4. \A i \in m .. Len(bars) : bars[i] \in Times
    BY <1>1, <2>3
  <2>5. SubSeq(bars, m, Len(bars)) \in Seq(Times)
    BY <2>3, <2>4, SubSeqProperties
  <2> QED  BY <2>5 DEF m
<1>3. ASSUME NEW cutoff
      PROVE  SubSeq(bars, Cardinality({i \in DOMAIN bars : bars[i] < cutoff}) + 1, Len(bars)) \in Seq(Times)
  BY <1>2
<1>4. Pruned(bars, t) \in Seq(Times)
  BY <1>3, Zenon DEF Pruned
<1> QED  BY <1>4, AppendProperties DEF CommittedBar

\* The request history is dropped before the bar, the retained times after
\* it, by different rules: they describe the same bars again.
LEMMA PrunedKeepsPace ==
    ASSUME NEW T \in Seq(Times), Increasing(T), NEW t \in Times,
           \A i \in 1 .. Len(T) : T[i] < t,
           retention \in Limits, retained = Newest(T, retention)
    PROVE  CommittedBar(Pruned(retained, t), t) = Newest(Append(T, t), retention)
<1> DEFINE B == Newest(T, retention)
           n == Len(B)
<1>1. /\ B \in Seq(Times) /\ n = RetainedLength(Len(T), retention)
      /\ n \in 0 .. Len(T)
      /\ \A i \in 1 .. n : B[i] = T[i + Len(T) - n]
  BY NewestProperties
<1>2. Len(T) \in Nat /\ DOMAIN T = 1 .. Len(T) /\ Times \subseteq Int /\ n \in Nat
  BY <1>1, LenProperties, ConstantsAssumption DEF Times
<1>3. Newest(Append(B, t), retention) = Newest(Append(T, t), retention)
  BY NewestAppend
<1>4. B = retained
  OBVIOUS
<1> HIDE DEF B
<1>5. DOMAIN B = 1 .. n /\ Len(B) = n /\ \A i \in 1 .. n : B[i] \in Times
  BY <1>1, LenProperties, ElementOfSeq
<1> HIDE DEF n
<1>6. \A i \in 1 .. n : i + Len(T) - n \in 1 .. Len(T)
  BY <1>1, <1>2
<1>7. \A i \in 1 .. n : B[i] < t
  BY <1>1, <1>6
<1>8. \A i, j \in 1 .. n : i < j => B[i] < B[j]
  <2> SUFFICES ASSUME NEW i \in 1 .. n, NEW j \in 1 .. n, i < j
               PROVE  B[i] < B[j]
    OBVIOUS
  <2>1. i + Len(T) - n < j + Len(T) - n
    BY <1>1, <1>2
  <2>2. T[i + Len(T) - n] < T[j + Len(T) - n]
    BY <1>2, <1>6, <2>1 DEF Increasing
  <2> QED  BY <1>1, <2>2
<1>9. /\ Append(B, t) \in Seq(Times) /\ Len(Append(B, t)) = n + 1
      /\ \A i \in 1 .. n : Append(B, t)[i] = B[i]
      /\ Append(B, t)[n + 1] = t
  BY <1>1, <1>5, AppendProperties
<1>10. ASSUME NEW bars \in Seq(Times), \A i \in 1 .. Len(bars) : bars[i] < t
       PROVE  CommittedBar(bars, t) = Append(bars, t)
  <2>1. bars # << >> => Len(bars) \in 1 .. Len(bars)
    BY EmptySeq
  <2>2. bars # << >> => bars[Len(bars)] # t
    BY <1>2, <1>10, <2>1
  <2> QED  BY <2>2 DEF CommittedBar
<1>11. CASE ~(retention # NoLimit /\ n >= retention)
  <2>1. Pruned(B, t) = B
    BY <1>4, <1>5, <1>11 DEF Pruned
  <2>2. CommittedBar(B, t) = Append(B, t)
    BY <1>1, <1>5, <1>7, <1>10
  <2>3. retention = NoLimit \/ n + 1 <= retention
    BY <1>2, <1>11 DEF Limits
  <2>4. Newest(Append(B, t), retention) = Append(B, t)
    BY <1>9, <2>3 DEF Newest
  <2> QED  BY <1>3, <1>4, <2>1, <2>2, <2>4
<1>12. CASE retention # NoLimit /\ n >= retention
  <2>1. retention \in Nat /\ retention >= 1
    BY <1>12 DEF Limits
  <2>2. n = retention
    <3>1. n = IF retention = NoLimit \/ Len(T) <= retention THEN Len(T) ELSE retention
      BY <1>1 DEF RetainedLength
    <3>2. n = IF Len(T) <= retention THEN Len(T) ELSE retention
      BY <1>12, <3>1
    <3>3. Len(T) \in Nat /\ n \in Nat
      BY <1>2
    <3> QED  BY <1>12, <2>1, <3>2, <3>3
  <2> DEFINE cutoff == IF retention > 1 THEN B[2] ELSE t
             expired == {i \in DOMAIN B : B[i] < cutoff}
  <2>3. expired = {1}
    <3>1. CASE retention > 1
      <4>1. 2 \in 1 .. n /\ 1 \in 1 .. n
        BY <1>2, <2>1, <2>2, <3>1
      <4>2. B[1] < B[2]
        BY <1>8, <4>1
      <4>3. \A i \in 1 .. n : B[i] < B[2] => i = 1
        <5> SUFFICES ASSUME NEW i \in 1 .. n, i # 1, B[i] < B[2]
                     PROVE  FALSE
          OBVIOUS
        <5>1. i = 2 \/ i > 2
          BY <1>2
        <5>2. B[i] \in Int /\ B[2] \in Int
          BY <1>2, <1>5, <4>1
        <5>3. i > 2 => B[2] < B[i]
          BY <1>8, <4>1
        <5> QED  BY <5>1, <5>2, <5>3
      <4> QED  BY <1>5, <3>1, <4>1, <4>2, <4>3
    <3>2. CASE ~(retention > 1)
      <4>1. n = 1
        BY <2>1, <2>2, <3>2
      <4>2. 1 .. n = {1}
        BY <4>1
      <4>3. B[1] < t
        BY <1>7, <4>2
      <4> QED  BY <1>5, <3>2, <4>2, <4>3
    <3> QED  BY <3>1, <3>2
  <2>4. Cardinality(expired) + 1 = 2
    <3>1. Cardinality({1}) = 1
      BY FS_Singleton
    <3>2. Cardinality(expired) = Cardinality({1})
      BY <2>3, Zenon
    <3> QED  BY <3>1, <3>2
  <2>5. Pruned(B, t) = SubSeq(B, Cardinality(expired) + 1, n)
    BY <1>4, <1>5, <1>12 DEF Pruned
  <2> HIDE DEF expired, cutoff
  <2> DEFINE C == SubSeq(B, 2, n)
  <2>6. Pruned(B, t) = C
    BY <2>4, <2>5
  <2>7. /\ C \in Seq(Times) /\ Len(C) = n - 1
        /\ \A i \in 1 .. n - 1 : C[i] = B[i + 1]
    <3>1. 2 \in Int /\ n \in Int /\ \A i \in 2 .. n : B[i] \in Times
      BY <1>2, <1>5
    <3>2. /\ C \in Seq(Times) /\ Len(C) = IF 2 <= n THEN n - 2 + 1 ELSE 0
          /\ \A i \in 1 .. n - 2 + 1 : C[i] = B[2 + i - 1]
      BY <3>1, SubSeqProperties
    <3> HIDE DEF C
    <3>3. Len(C) = n - 1
      BY <2>1, <2>2, <3>2
    <3>4. \A i \in 1 .. n - 1 : C[i] = B[i + 1]
      <4> TAKE i \in 1 .. n - 1
      <4>1. i \in 1 .. n - 2 + 1 /\ 2 + i - 1 = i + 1
        BY <2>1, <2>2
      <4> QED  BY <3>2, <4>1
    <3> QED  BY <3>2, <3>3, <3>4
  <2> HIDE DEF C
  <2>8. \A i \in 1 .. n - 1 : i + 1 \in 1 .. n
    BY <1>2
  <2>9. \A i \in 1 .. Len(C) : C[i] < t
    BY <1>7, <2>7, <2>8
  <2>10. CommittedBar(C, t) = Append(C, t)
    BY <1>10, <2>7, <2>9
  <2>11. /\ Append(C, t) \in Seq(Times) /\ Len(Append(C, t)) = n
         /\ \A i \in 1 .. n - 1 : Append(C, t)[i] = C[i]
         /\ Append(C, t)[n] = t
    BY <1>2, <2>7, AppendProperties
  <2> DEFINE N == Newest(Append(B, t), retention)
  <2>12. /\ N \in Seq(Times) /\ Len(N) = n
         /\ \A i \in 1 .. n : N[i] = Append(B, t)[i + 1]
    <3>1. RetainedLength(Len(Append(B, t)), retention) = n
      BY <1>9, <1>12, <2>1, <2>2 DEF RetainedLength
    <3>2. /\ N \in Seq(Times) /\ Len(N) = n
          /\ \A i \in 1 .. n : N[i] = Append(B, t)[i + (n + 1) - n]
      <4>1. /\ N \in Seq(Times) /\ Len(N) = RetainedLength(Len(Append(B, t)), retention)
            /\ \A i \in 1 .. Len(N) :
                  N[i] = Append(B, t)[i + Len(Append(B, t)) - RetainedLength(Len(Append(B, t)), retention)]
        BY <1>9, NewestProperties
      <4> QED  BY <1>9, <3>1, <4>1
    <3>3. \A i \in 1 .. n : i + (n + 1) - n = i + 1
      BY <1>2
    <3> QED  BY <3>2, <3>3
  <2> HIDE DEF N
  <2>13. \A i \in 1 .. n : N[i] = Append(C, t)[i]
    <3> TAKE i \in 1 .. n
    <3>1. CASE i = n
      BY <1>9, <2>11, <2>12, <3>1
    <3>2. CASE i \in 1 .. n - 1
      BY <1>9, <2>7, <2>8, <2>11, <2>12, <3>2
    <3>3. n \in Nat
      BY <1>2
    <3>4. i = n \/ i \in 1 .. n - 1
      BY <3>3
    <3> QED  BY <3>1, <3>2, <3>4
  <2>14. N = Append(C, t)
    BY <2>11, <2>12, <2>13, SeqEqual
  <2> QED  BY <1>3, <1>4, <2>6, <2>10, <2>14 DEF N
<1> QED  BY <1>11, <1>12

-----------------------------------------------------------------------------
(* A committed bar.                                                        *)

LEMMA LimitsHold == TypeOK => retention \in Limits
BY ConstantsAssumption DEF TypeOK, Limits

LEMMA DequeType ==
    ASSUME NEW S, NEW s \in Seq(S), NEW n \in Limits
    PROVE  Newest(s, n) \in Deque(S, n)
<1>1. /\ Newest(s, n) \in Seq(S) /\ Len(Newest(s, n)) = RetainedLength(Len(s), n)
      /\ Len(s) \in Nat
  BY NewestProperties, LenProperties
<1>2. RetainedLength(RetainedLength(Len(s), n), n) = RetainedLength(Len(s), n)
  BY <1>1, ConstantsAssumption DEF RetainedLength, Limits
<1> QED  BY <1>1, <1>2, Zenon DEF Deque

LEMMA FreshContextType ==
    ASSUME NEW r \in Limits
    PROVE  FreshContext \in ContextOf(r)
<1>1. << >> \in Deque(Nat, r)
  <2>1. << >> \in Seq(Nat) /\ Len(<< >>) = 0
    BY EmptySeq
  <2>2. RetainedLength(0, r) = 0
    BY DEF RetainedLength, Limits
  <2> QED  BY <2>1, <2>2 DEF Deque
<1>2. FreshContext \in AnyContext
  BY EmptySeq DEF FreshContext, AnyContext
<1>3. FreshContext.history = << >>
  BY DEF FreshContext
<1> QED  BY <1>1, <1>2, <1>3, Zenon DEF ContextOf

LEMMA OpenContextType ==
    ASSUME TypeOK
    PROVE  OpenContext \in ContextOf(retention)
BY LimitsHold, FreshContextType DEF TypeOK, OpenContext

\* What the context is after the callback of a committed bar.
BarContext(c, t, r) ==
    [state |-> Append(c.state, r),
     history |-> Newest(Append(c.history, Len(Append(c.state, r))), retention),
     varip |-> Append(<< >>, r),
     requestBars |-> CommittedBar(Pruned(c.requestBars, t), t),
     barTime |-> t, barIndex |-> closedCount]
Fields == {"state", "history", "varip", "requestBars", "barTime", "barIndex"}
HasFields(c) == DOMAIN c = Fields /\ c = [i \in Fields |-> c[i]]
LEMMA BarContextIs ==
    ASSUME NEW c \in AnyContext, NEW t, NEW r
    PROVE  Committed(Wrote(Begun(c, t), r, Places)) = BarContext(c, t, r)
<1>1. HasFields(c)
  BY DEF AnyContext, HasFields, Fields
<1>2. ASSUME NEW d, HasFields(d)
      PROVE  d = [state |-> d.state, history |-> d.history, varip |-> d.varip,
                  requestBars |-> d.requestBars, barTime |-> d.barTime, barIndex |-> d.barIndex]
  BY <1>2 DEF HasFields, Fields
<1> DEFINE b == Begun(c, t)
           w == Wrote(b, r, Places)
           d == Committed(w)
<1>3. /\ HasFields(b)
      /\ b.state = c.state /\ b.history = c.history /\ b.varip = << >>
      /\ b.requestBars = Pruned(c.requestBars, t) /\ b.barTime = t /\ b.barIndex = closedCount
  BY <1>1 DEF HasFields, Fields, Begun
<1> HIDE DEF b
<1>4. /\ HasFields(w)
      /\ w.state = Append(b.state, r) /\ w.history = b.history /\ w.varip = Append(b.varip, r)
      /\ w.requestBars = b.requestBars /\ w.barTime = b.barTime /\ w.barIndex = b.barIndex
  BY <1>3 DEF HasFields, Fields, Wrote, Places
<1> HIDE DEF w
<1>5. /\ HasFields(d)
      /\ d.state = w.state /\ d.varip = w.varip /\ d.barTime = w.barTime /\ d.barIndex = w.barIndex
      /\ d.requestBars = CommittedBar(w.requestBars, w.barTime)
      /\ d.history = Newest(Append(w.history, Len(w.state)), retention)
  BY <1>4 DEF HasFields, Fields, Committed
<1> HIDE DEF d
<1>6. d = [state |-> d.state, history |-> d.history, varip |-> d.varip,
           requestBars |-> d.requestBars, barTime |-> d.barTime, barIndex |-> d.barIndex]
  BY <1>2, <1>5
<1>7. /\ d.state = Append(c.state, r) /\ d.varip = Append(<< >>, r)
      /\ d.barTime = t /\ d.barIndex = closedCount
      /\ d.requestBars = CommittedBar(Pruned(c.requestBars, t), t)
      /\ d.history = Newest(Append(c.history, Len(Append(c.state, r))), retention)
  BY <1>3, <1>4, <1>5, Zenon
<1>8. d = BarContext(c, t, r)
  BY <1>6, <1>7, Zenon DEF BarContext
<1> QED  BY <1>8 DEF d, w, b

LEMMA BarContextType ==
    ASSUME TypeOK, NEW c \in AnyContext, NEW t \in Times, NEW r \in Record
    PROVE  BarContext(c, t, r) \in ContextOf(retention)
<1>1. /\ c.state \in Seq(Record) /\ c.history \in Seq(Nat) /\ c.requestBars \in Seq(Times)
      /\ closedCount \in Nat
  BY DEF AnyContext, TypeOK
<1>2. Append(c.state, r) \in Seq(Record) /\ Len(Append(c.state, r)) \in Nat
  BY <1>1, AppendProperties, LenProperties
<1>3. Append(c.history, Len(Append(c.state, r))) \in Seq(Nat)
  BY <1>1, <1>2, AppendProperties
<1>4. /\ Newest(Append(c.history, Len(Append(c.state, r))), retention) \in Deque(Nat, retention)
      /\ Newest(Append(c.history, Len(Append(c.state, r))), retention) \in Seq(Nat)
  BY <1>3, LimitsHold, DequeType, NewestProperties
<1>5. Append(<< >>, r) \in Seq(Record)
  BY EmptySeq, AppendProperties
<1>6. CommittedBar(Pruned(c.requestBars, t), t) \in Seq(Times)
  BY <1>1, PrunedType
<1> DEFINE h == Newest(Append(c.history, Len(Append(c.state, r))), retention)
           q == CommittedBar(Pruned(c.requestBars, t), t)
           v == Append(<< >>, r)
           s == Append(c.state, r)
<1>7. BarContext(c, t, r) = [state |-> s, history |-> h, varip |-> v,
                             requestBars |-> q, barTime |-> t, barIndex |-> closedCount]
  BY DEF BarContext
<1>8. s \in Seq(Record) /\ h \in Seq(Nat) /\ v \in Seq(Record) /\ q \in Seq(Times)
  BY <1>2, <1>4, <1>5, <1>6
<1>9. h \in Deque(Nat, retention)
  BY <1>4
<1> HIDE DEF h, q, v, s
<1>10. BarContext(c, t, r) \in AnyContext /\ BarContext(c, t, r).history = h
  BY <1>1, <1>7, <1>8 DEF AnyContext
<1> QED  BY <1>9, <1>10 DEF ContextOf

LEMMA NoContextIsNone ==
    ASSUME NEW r, NEW c \in ContextOf(r)
    PROVE  c # NoContext /\ c \in AnyContext
BY NoContextAssumption DEF ContextOf

LEMMA FreshContextTells ==
    ASSUME NEW r \in Limits
    PROVE  ContextTells(<< >>, r, FreshContext)
<1>1. << >> \in Seq(Record) /\ Len(<< >>) = 0
  BY EmptySeq
<1>2. TimesOf(<< >>) = << >> /\ Counting(<< >>) = << >>
  <2>1. /\ TimesOf(<< >>) \in Seq(Times) /\ Len(TimesOf(<< >>)) = 0
        /\ Counting(<< >>) \in Seq(Nat) /\ Len(Counting(<< >>)) = 0
    BY <1>1, TimesOfProperties, CountingType
  <2> QED  BY <2>1, EmptySeq
<1>3. Newest(<< >>, r) = << >>
  <2>1. Len(<< >>) <= r \/ r = NoLimit
    BY <1>1 DEF Limits
  <2> QED  BY <2>1 DEF Newest
<1>4. /\ FreshContext.state = << >> /\ FreshContext.requestBars = << >>
      /\ FreshContext.history = << >> /\ FreshContext.varip = << >>
      /\ FreshContext.barTime = NoTime /\ FreshContext.barIndex = -1
  BY DEF FreshContext
<1>5. LastTime(<< >>) = NoTime /\ Len(<< >>) - 1 = -1
  BY <1>1 DEF LastTime
<1>6. Len(<< >>) <= 1 /\ DOMAIN << >> = {}
  BY <1>1
<1> QED  BY <1>2, <1>3, <1>4, <1>5, <1>6 DEF ContextTells

\* The bar before which nothing was committed finds a fresh context.
LEMMA OpenContextTells ==
    ASSUME TypeOK, UnusedInv, Healthy,
           PlacesTell(feed, retention, ctx, <<globals, cache>>)
    PROVE  ContextTells(feed, retention, OpenContext)
<1>1. CASE ctx = NoContext
  <2>1. feed = << >> /\ OpenContext = FreshContext
    BY <1>1 DEF UnusedInv, OpenContext
  <2>2. ContextTells(<< >>, retention, FreshContext)
    BY LimitsHold, FreshContextTells
  <2> QED  BY <2>1, <2>2, Zenon
<1>2. CASE ctx # NoContext
  BY <1>2, Zenon DEF PlacesTell, OpenContext
<1> QED  BY <1>1, <1>2

LEMMA ClocksKeep ==
    ASSUME NEW f, NEW n \in Limits, NEW last, NEW count, NEW times,
           ClocksTell(f, n, last, count, times),
           NEW r \in Record, r.time > last
    PROVE  /\ ClocksTell(Append(f, r), n, r.time, count + 1, Newest(Append(times, r.time), n))
           /\ TimesOf(Append(f, r)) = Append(TimesOf(f), r.time)
           /\ TimesOf(f) \in Seq(Times) /\ Increasing(TimesOf(f))
           /\ \A i \in 1 .. Len(TimesOf(f)) : TimesOf(f)[i] < r.time
<1> DEFINE T == TimesOf(f)
           t == r.time
<1>1. /\ f \in Seq(Record) /\ Increasing(T) /\ last = LastTime(f) /\ count = Len(f)
      /\ times = Newest(T, n)
  BY DEF ClocksTell
<1>2. t \in Times
  BY DEF Record
<1>3. /\ T \in Seq(Times) /\ Len(T) = Len(f) /\ Len(f) \in Nat
      /\ \A i \in 1 .. Len(f) : T[i] = f[i].time
  BY <1>1, TimesOfProperties
<1>4. TimesOf(Append(f, r)) = Append(T, t)
  BY <1>1, TimesOfAppend
<1>5. T # << >> => T[Len(T)] < t
  <2> SUFFICES ASSUME T # << >>  PROVE T[Len(T)] < t
    OBVIOUS
  <2>1. Len(T) \in 1 .. Len(T) /\ f # << >>
    BY <1>3, EmptySeq
  <2>2. last = T[Len(T)]
    BY <1>1, <1>3, <2>1 DEF LastTime
  <2>3. last \in Int /\ t \in Int
    BY <1>2, <1>3, <2>1, <2>2, ElementOfSeq, ConstantsAssumption DEF Times
  <2> QED  BY <2>2, <2>3
<1>6. /\ Increasing(Append(T, t))
      /\ \A i \in 1 .. Len(T) : T[i] < t
  BY <1>1, <1>2, <1>3, <1>5, IncreasingAppend
<1>7. Newest(Append(times, t), n) = Newest(Append(T, t), n)
  BY <1>1, <1>2, <1>3, NewestAppend
<1>8. /\ Append(f, r) \in Seq(Record) /\ Append(f, r) # << >>
      /\ Len(Append(f, r)) = count + 1 /\ Append(f, r)[count + 1] = r
  BY <1>1, AppendProperties
<1>9. LastTime(Append(f, r)) = t
  BY <1>8 DEF LastTime
<1>10. ClocksTell(Append(f, r), n, t, count + 1, Newest(Append(times, t), n))
  BY <1>4, <1>6, <1>7, <1>8, <1>9 DEF ClocksTell
<1> QED  BY <1>1, <1>3, <1>4, <1>6, <1>10

\* What every committed bar does, in a seed, in a replay or live.
LEMMA CommitKeeps ==
    ASSUME IInv, NEW t \in Times, t > lastClosed, NEW isnew \in BOOLEAN,
           CommitBar(t, isnew)
    PROVE  /\ ctx' \in ContextOf(retention) /\ ctx' # NoContext
           /\ globals' \in Seq(Record) /\ cache' \in Seq(Record)
           /\ lastClosed' = t /\ closedCount' \in Nat
           /\ retained' \in Deque(Times, retention)
           /\ feed' = Append(feed, [time |-> t, isnew |-> isnew]) /\ feed' \in Seq(Record)
           /\ ClocksTell(feed', retention, lastClosed', closedCount', retained')
           /\ TimesOf(feed') = Append(TimesOf(feed), t)
           /\ Healthy /\ ~interrupted =>
                 PlacesTell(feed', retention, ctx', <<globals', cache'>>)
<1> DEFINE r == [time |-> t, isnew |-> isnew]
           T == TimesOf(feed)
<1>1. r \in Record /\ r.time = t
  BY DEF Record
<1>2. /\ TypeOK /\ retention \in Limits /\ globals \in Seq(Record) /\ cache \in Seq(Record)
      /\ feed \in Seq(Record) /\ closedCount \in Nat /\ retained \in Seq(Times)
  BY LimitsHold DEF IInv, TypeOK, Deque
<1>3. ClocksTell(feed, retention, lastClosed, closedCount, retained)
  BY DEF IInv
<1>4. /\ lastClosed' = t /\ closedCount' = closedCount + 1
      /\ retained' = Newest(Append(retained, t), retention)
      /\ feed' = Append(feed, r)
      /\ ctx' = Committed(Wrote(Begun(OpenContext, t), r, Places))
      /\ globals' = Append(globals, r) /\ cache' = Append(cache, r)
  BY DEF CommitBar, WroteOutside, Places
<1> HIDE DEF r
<1>5. OpenContext \in AnyContext
  BY <1>2, OpenContextType, NoContextIsNone
<1>6. ctx' = BarContext(OpenContext, t, r)
  BY <1>4, <1>5, BarContextIs
<1>7. ctx' \in ContextOf(retention) /\ ctx' # NoContext
  BY <1>1, <1>2, <1>5, <1>6, BarContextType, NoContextIsNone
<1>8. /\ globals' \in Seq(Record) /\ cache' \in Seq(Record) /\ feed' \in Seq(Record)
      /\ Append(retained, t) \in Seq(Times)
  BY <1>1, <1>2, <1>4, AppendProperties
<1>9. retained' \in Deque(Times, retention)
  BY <1>2, <1>4, <1>8, DequeType
<1>10. /\ ClocksTell(feed', retention, lastClosed', closedCount', retained')
       /\ TimesOf(feed') = Append(T, t)
       /\ T \in Seq(Times) /\ Increasing(T)
       /\ \A i \in 1 .. Len(T) : T[i] < t
  BY <1>1, <1>2, <1>3, <1>4, ClocksKeep
<1>11. ASSUME Healthy, ~interrupted
       PROVE  PlacesTell(feed', retention, ctx', <<globals', cache'>>)
  <2>1. PlacesTell(feed, retention, ctx, <<globals, cache>>)
    BY <1>11 DEF IInv
  <2>2. ContextTells(feed, retention, OpenContext)
    BY <1>2, <1>11, <2>1, OpenContextTells DEF IInv
  <2>3. /\ OpenContext.state = feed /\ OpenContext.requestBars = Newest(T, retention)
        /\ OpenContext.history = Newest(Counting(feed), retention)
    BY <2>2 DEF ContextTells
  <2>4. /\ ctx'.state = Append(OpenContext.state, r)
        /\ ctx'.history = Newest(Append(OpenContext.history, Len(Append(OpenContext.state, r))), retention)
        /\ ctx'.varip = Append(<< >>, r)
        /\ ctx'.requestBars = CommittedBar(Pruned(OpenContext.requestBars, t), t)
        /\ ctx'.barTime = t /\ ctx'.barIndex = closedCount
    BY <1>6 DEF BarContext
  <2>5. retained = Newest(T, retention)
    BY <1>3 DEF ClocksTell
  <2>6. ctx'.requestBars = Newest(Append(T, t), retention)
    BY <1>2, <1>10, <2>3, <2>4, <2>5, PrunedKeepsPace
  <2>7. ctx'.history = Newest(Counting(feed'), retention)
    <3>1. Counting(feed) \in Seq(Nat) /\ Counting(feed') = Append(Counting(feed), Len(feed) + 1)
      BY <1>1, <1>2, <1>4, CountingAppend
    <3>2. Len(Append(feed, r)) = Len(feed) + 1 /\ Len(feed) + 1 \in Nat
      BY <1>1, <1>2, AppendProperties, LenProperties
    <3>3. ctx'.history = Newest(Append(Newest(Counting(feed), retention), Len(feed) + 1), retention)
      BY <2>3, <2>4, <3>2, Zenon
    <3>4. /\ Counting(feed) \in Seq(Nat) /\ Len(feed) + 1 \in Nat
          /\ retention \in Limits
      BY <1>2, <3>1, <3>2
    <3>5. Newest(Append(Newest(Counting(feed), retention), Len(feed) + 1), retention)
            = Newest(Append(Counting(feed), Len(feed) + 1), retention)
      BY <3>4, NewestAppend
    <3> QED  BY <3>1, <3>3, <3>5, Zenon
  <2>8. closedCount = Len(feed) /\ Len(feed') = Len(feed) + 1 /\ LastTime(feed') = t
    <3>1. lastClosed' = LastTime(feed')
      BY <1>10 DEF ClocksTell
    <3>2. closedCount = Len(feed)
      BY <1>3 DEF ClocksTell
    <3>3. Len(feed') = Len(feed) + 1
      BY <1>1, <1>2, <1>4, AppendProperties
    <3> QED  BY <1>4, <3>1, <3>2, <3>3
  <2>9. ctx'.barTime = LastTime(feed') /\ ctx'.barIndex = Len(feed') - 1
    BY <1>2, <2>4, <2>8
  <2>10. Len(ctx'.varip) <= 1 /\ \A i \in DOMAIN ctx'.varip : ctx'.varip[i].time = LastTime(feed')
    <3>1. << >> \in Seq(Record) /\ Len(<< >>) = 0
      BY EmptySeq
    <3> DEFINE v == Append(<< >>, r)
    <3>2. v \in Seq(Record) /\ Len(v) = 0 + 1 /\ v[0 + 1] = r
      BY <1>1, <3>1, AppendProperties
    <3>3. DOMAIN v = 1 .. Len(v)
      BY <3>2, LenProperties
    <3> HIDE DEF v
    <3>4. ctx'.varip = v
      BY <2>4 DEF v
    <3>5. Len(v) <= 1 /\ \A i \in DOMAIN v : v[i].time = t
      BY <1>1, <3>2, <3>3
    <3> QED  BY <2>8, <3>4, <3>5
  <2>11. ctx'.state = feed'
    BY <1>4, <2>3, <2>4
  <2>12. ContextTells(feed', retention, ctx')
    BY <1>10, <2>6, <2>7, <2>9, <2>10, <2>11 DEF ContextTells
  <2>13. <<globals', cache'>> = <<feed', feed'>>
    BY <1>4, <2>1 DEF PlacesTell
  <2> QED  BY <2>12, <2>13 DEF PlacesTell
<1> QED  BY <1>2, <1>4, <1>7, <1>8, <1>9, <1>10, <1>11 DEF r

-----------------------------------------------------------------------------
(* Failures and interrupts.                                                *)

LEMMA SavedStays == SavedInv /\ UNCHANGED saved => SavedInv'
BY DEF SavedInv

LEMMA RecordingType ==
    ASSUME NEW f \in Seq(Record), NEW bars, NEW seeded, NEW whole,
           RecordingTells(f, bars, seeded, whole)
    PROVE  bars \in Seq(Times) /\ seeded \in Nat /\ whole \in BOOLEAN
<1>1. bars \in Seq(Times)
  BY TimesOfProperties, EmptySeq DEF RecordingTells
<1>2. Len(bars) \in Nat
  BY <1>1, LenProperties
<1> QED  BY <1>1, <1>2 DEF RecordingTells

LEMMA OutsideType ==
    ASSUME globals \in Seq(Record), cache \in Seq(Record), NEW r \in Record, NEW W,
           WroteOutside(r, W)
    PROVE  globals' \in Seq(Record) /\ cache' \in Seq(Record)
BY AppendProperties DEF WroteOutside

LEMMA NoCells == Intrabar(NoTime, << >>, NoTime)
BY EmptySeq DEF Intrabar

\* Whatever a call wrote before it failed: nobody can see it.
LEMMA PoisonKeeps ==
    ASSUME IInv, Poison, globals' \in Seq(Record), cache' \in Seq(Record),
           UNCHANGED <<settingVars, clockVars, replayVars, saved, feed, hostVars>>
    PROVE  IInv'
<1>1. /\ poisoned' = TRUE /\ ctx' = NoContext /\ previewTime' = NoTime
      /\ previewVarip' = << >> /\ torn' = NoTime /\ queue' = << >>
  BY DEF Poison
<1>2. /\ retention' = retention /\ budget' = budget /\ lastClosed' = lastClosed
      /\ closedCount' = closedCount /\ retained' = retained /\ recorded' = recorded
      /\ seedCount' = seedCount /\ complete' = complete /\ saved' = saved /\ feed' = feed
      /\ visited' = visited /\ interrupted' = interrupted
  BY DEF settingVars, clockVars, replayVars, hostVars
<1>3. << >> \in Seq(Record) /\ << >> \in Seq([op: {"seed", "closed"}, time: Times])
  BY EmptySeq
<1>4. TypeOK
  BY DEF IInv
<1>5. TypeOK'
  BY <1>1, <1>2, <1>3, <1>4 DEF TypeOK
<1>6. ClocksTell(feed, retention, lastClosed, closedCount, retained)'
  BY <1>2 DEF IInv
<1>7. RecordingTells(feed, recorded, seedCount, complete)'
  BY <1>2 DEF IInv
<1>8. UnusedInv' /\ (Healthy /\ ~interrupted => PlacesTell(feed, retention, ctx, <<globals, cache>>))'
  BY <1>1 DEF UnusedInv, Healthy
<1>9. QueueInv'
  BY <1>1 DEF QueueInv
<1>10. PreviewInv'
  BY <1>1, NoCells DEF PreviewInv, Healthy
<1>11. SavedInv'
  BY <1>2, SavedStays DEF IInv
<1> QED  BY <1>1, <1>5, <1>6, <1>7, <1>8, <1>9, <1>10, <1>11 DEF IInv

LEMMA BarFailsKeeps ==
    ASSUME IInv, NEW t \in Times, NEW isnew \in BOOLEAN, BarFails(t, isnew)
    PROVE  IInv'
<1> DEFINE r == [time |-> t, isnew |-> isnew]
<1>1. r \in Record
  BY DEF Record
<1>2. globals \in Seq(Record) /\ cache \in Seq(Record)
  BY DEF IInv, TypeOK
<1>3. PICK W \in SUBSET {"globals", "cache"} : WroteOutside(r, W)
  BY DEF BarFails
<1>4. globals' \in Seq(Record) /\ cache' \in Seq(Record)
  BY <1>1, <1>2, <1>3, OutsideType
<1>5. Poison /\ UNCHANGED <<settingVars, clockVars, replayVars, saved, feed, hostVars>>
  BY DEF BarFails
<1> QED  BY <1>4, <1>5, PoisonKeeps

\* An interrupted callback leaves a context of some kind, and the clocks and
\* the recording as they were.
LEMMA BarInterruptedKeeps ==
    ASSUME IInv, NEW t \in Times, NEW isnew \in BOOLEAN, BarInterrupted(t, isnew),
           Healthy
    PROVE  IInv'
<1> DEFINE r == [time |-> t, isnew |-> isnew]
<1>1. r \in Record
  BY DEF Record
<1>2. /\ TypeOK /\ globals \in Seq(Record) /\ cache \in Seq(Record)
      /\ closedCount \in Nat
  BY DEF IInv, TypeOK
<1>3. PICK W \in PartialWrites : /\ ctx' = Wrote(Begun(OpenContext, t), r, W)
                                 /\ WroteOutside(r, W)
  BY DEF BarInterrupted
<1>4. globals' \in Seq(Record) /\ cache' \in Seq(Record)
  BY <1>1, <1>2, <1>3, OutsideType
<1>5. /\ OpenContext \in ContextOf(retention) /\ OpenContext \in AnyContext
  BY <1>2, OpenContextType, NoContextIsNone
<1> HIDE DEF r
<1>6. ctx' \in ContextOf(retention)
  <2> DEFINE c == OpenContext
             b == Begun(c, t)
             w == Wrote(b, r, W)
  <2>1. /\ c.state \in Seq(Record) /\ c.history \in Seq(Nat) /\ c.requestBars \in Seq(Times)
        /\ c.history \in Deque(Nat, retention)
    BY <1>5 DEF AnyContext, ContextOf
  <2>2. HasFields(c)
    BY <1>5 DEF AnyContext, HasFields, Fields
  <2>3. Pruned(c.requestBars, t) \in Seq(Times)
    BY <2>1, PrunedType
  <2> HIDE DEF c
  <2>4. /\ HasFields(b)
        /\ b.state = c.state /\ b.history = c.history /\ b.varip = << >>
        /\ b.requestBars = Pruned(c.requestBars, t) /\ b.barTime = t /\ b.barIndex = closedCount
    BY <2>2 DEF HasFields, Fields, Begun
  <2> HIDE DEF b
  <2>5. /\ HasFields(w)
        /\ w.state = IF "state" \in W THEN Append(b.state, r) ELSE b.state
        /\ w.varip = IF "varip" \in W THEN Append(b.varip, r) ELSE b.varip
        /\ w.history = b.history /\ w.requestBars = b.requestBars
        /\ w.barTime = b.barTime /\ w.barIndex = b.barIndex
    BY <2>4 DEF HasFields, Fields, Wrote
  <2>6. ctx' = w
    BY <1>3 DEF b, c
  <2> HIDE DEF w
  <2>7. w.state \in Seq(Record) /\ w.varip \in Seq(Record)
    <3>1. b.state \in Seq(Record) /\ b.varip \in Seq(Record)
      BY <2>1, <2>4, EmptySeq
    <3>2. Append(b.state, r) \in Seq(Record) /\ Append(b.varip, r) \in Seq(Record)
      BY <1>1, <3>1, AppendProperties
    <3> QED  BY <2>5, <3>1, <3>2
  <2>8. /\ w.history \in Seq(Nat) /\ w.history \in Deque(Nat, retention)
        /\ w.requestBars \in Seq(Times) /\ w.barTime \in Times /\ w.barIndex \in Nat
    BY <1>2, <2>1, <2>3, <2>4, <2>5
  <2>9. w = [state |-> w.state, history |-> w.history, varip |-> w.varip,
             requestBars |-> w.requestBars, barTime |-> w.barTime, barIndex |-> w.barIndex]
    BY <2>5 DEF HasFields, Fields
  <2>10. w \in AnyContext
    BY <2>7, <2>8, <2>9 DEF AnyContext
  <2> QED  BY <2>6, <2>8, <2>10 DEF ContextOf
<1>7. ctx' # NoContext
  BY <1>6, NoContextIsNone
<1>8. /\ retention' = retention /\ budget' = budget /\ lastClosed' = lastClosed
      /\ closedCount' = closedCount /\ retained' = retained /\ recorded' = recorded
      /\ seedCount' = seedCount /\ complete' = complete /\ saved' = saved /\ feed' = feed
      /\ visited' = visited /\ interrupted' = TRUE /\ queue' = << >>
      /\ previewTime' = previewTime /\ previewVarip' = previewVarip /\ torn' = torn
      /\ poisoned' = poisoned
  BY DEF BarInterrupted, settingVars, clockVars, replayVars, previewVars
<1>9. << >> \in Seq([op: {"seed", "closed"}, time: Times])
  BY EmptySeq
<1>10. TypeOK'
  BY <1>2, <1>4, <1>6, <1>8, <1>9 DEF TypeOK
<1>11. ClocksTell(feed, retention, lastClosed, closedCount, retained)'
  BY <1>8 DEF IInv
<1>12. RecordingTells(feed, recorded, seedCount, complete)'
  BY <1>8 DEF IInv
<1>13. UnusedInv' /\ (Healthy /\ ~interrupted => PlacesTell(feed, retention, ctx, <<globals, cache>>))'
  BY <1>7, <1>8 DEF UnusedInv
<1>14. QueueInv'
  BY <1>8 DEF QueueInv
<1>15. PreviewInv'
  BY <1>8 DEF IInv, PreviewInv, Healthy
<1>16. SavedInv'
  BY <1>8, SavedStays DEF IInv
<1>17. (poisoned => ctx = NoContext)'
  BY <1>8 DEF Healthy
<1> QED  BY <1>10, <1>11, <1>12, <1>13, <1>14, <1>15, <1>16, <1>17 DEF IInv

-----------------------------------------------------------------------------
(* Seeds, replays and live bars.                                           *)

Call == [op: {"seed", "closed"}, time: Times]

LEMMA RecordingKeeps ==
    ASSUME IInv, NEW t \in Times, TimesOf(feed') = Append(TimesOf(feed), t), Recording(t)
    PROVE  RecordingTells(feed', recorded', seedCount', complete')
<1>1. RecordingTells(feed, recorded, seedCount, complete) /\ feed \in Seq(Record)
  BY DEF IInv, TypeOK
<1>2. /\ recorded \in Seq(Times) /\ complete \in BOOLEAN /\ Len(recorded) \in Nat
  BY <1>1, RecordingType, LenProperties
<1>3. CASE ~complete
  <2>1. recorded' = recorded /\ seedCount' = seedCount /\ complete' = complete
    BY <1>3 DEF Recording, replayVars
  <2> QED  BY <1>1, <1>3, <2>1 DEF RecordingTells
<1>4. CASE complete /\ Fits(Len(recorded) + 1)
  <2>1. recorded' = Append(recorded, t) /\ seedCount' = seedCount /\ complete' = complete
    BY <1>4 DEF Recording
  <2>2. recorded' = TimesOf(feed')
    BY <1>1, <1>4, <2>1 DEF RecordingTells
  <2>3. Len(recorded') = Len(recorded) + 1
    BY <1>2, <2>1, AppendProperties
  <2>4. seedCount' \in 0 .. Len(recorded')
    BY <1>1, <1>2, <2>1, <2>3 DEF RecordingTells
  <2> QED  BY <1>4, <2>1, <2>2, <2>4 DEF RecordingTells
<1>5. CASE complete /\ ~Fits(Len(recorded) + 1)
  <2>1. recorded' = << >> /\ seedCount' = 0 /\ complete' = FALSE
    BY <1>5 DEF Recording
  <2>2. Len(recorded') = 0
    BY <2>1, EmptySeq
  <2>3. seedCount' \in 0 .. Len(recorded')
    BY <2>1, <2>2
  <2>4. ~complete' /\ complete' \in BOOLEAN
    BY <2>1
  <2> QED  BY <2>1, <2>3, <2>4 DEF RecordingTells
<1> QED  BY <1>3, <1>4, <1>5

LEMMA CommitStep ==
    ASSUME IInv, Healthy, NEW t \in Times, t > lastClosed, t >= previewTime,
           NEW isnew \in BOOLEAN, CommitBar(t, isnew),
           UNCHANGED <<settingVars, poisoned, saved, hostVars>>,
           RecordingTells(feed', recorded', seedCount', complete'),
           previewTime' = NoTime, Intrabar(NoTime, previewVarip', torn'),
           previewVarip' \in Seq(Record), torn' \in Times \cup {NoTime},
           queue' \in Seq(Call), QueueInv'
    PROVE  IInv'
<1>1. /\ retention' = retention /\ budget' = budget /\ poisoned' = poisoned
      /\ saved' = saved /\ visited' = visited /\ interrupted' = interrupted
  BY DEF settingVars, hostVars
<1>2. /\ ctx' \in ContextOf(retention) /\ ctx' # NoContext
      /\ globals' \in Seq(Record) /\ cache' \in Seq(Record)
      /\ lastClosed' = t /\ closedCount' \in Nat
      /\ retained' \in Deque(Times, retention)
      /\ feed' \in Seq(Record)
      /\ ClocksTell(feed', retention, lastClosed', closedCount', retained')
      /\ Healthy /\ ~interrupted =>
            PlacesTell(feed', retention, ctx', <<globals', cache'>>)
  BY CommitKeeps
<1>3. recorded' \in Seq(Times) /\ seedCount' \in Nat /\ complete' \in BOOLEAN
  BY <1>2, RecordingType
<1>5. TypeOK
  BY DEF IInv
<1>6. TypeOK'
  BY <1>1, <1>2, <1>3, <1>5 DEF TypeOK, Call
<1>7. ClocksTell(feed, retention, lastClosed, closedCount, retained)'
  BY <1>1, <1>2
<1>8. (Healthy /\ ~interrupted => PlacesTell(feed, retention, ctx, <<globals, cache>>))'
  BY <1>1, <1>2 DEF Healthy
<1>9. UnusedInv' /\ (poisoned => ctx = NoContext)'
  BY <1>1, <1>2 DEF UnusedInv, Healthy
<1>10. PreviewInv'
  <2>1. \A v \in visited : v <= lastClosed \/ v <= previewTime
    BY DEF IInv, PreviewInv
  <2>2. /\ visited \subseteq Int /\ lastClosed \in Int /\ previewTime \in Int /\ t \in Int
    BY <1>5, ConstantsAssumption DEF TypeOK, Times, NoTime
  <2>3. \A v \in visited : v <= t
    BY <2>1, <2>2
  <2> QED  BY <1>1, <1>2, <2>3 DEF PreviewInv
<1>11. SavedInv'
  BY <1>1, SavedStays DEF IInv
<1> QED  BY <1>6, <1>7, <1>8, <1>9, <1>10, <1>11 DEF IInv

\* The calls after the first one.
LEMMA NextCall ==
    ASSUME TypeOK, QueueInv, queue # << >>,
           queue' = Tail(queue), lastClosed' = Head(queue).time,
           previewTime' = NoTime, torn' = NoTime, poisoned' = poisoned
    PROVE  /\ QueueInv' /\ queue' \in Seq(Call)
           /\ Head(queue) \in Call /\ Head(queue).time \in Times
           /\ Head(queue).time > lastClosed /\ Head(queue).time >= previewTime
           /\ Healthy /\ previewTime = NoTime
<1>1. queue \in Seq(Call)
  BY DEF TypeOK, Call
<1>2. Healthy /\ previewTime = NoTime
  BY DEF QueueInv
<1> DEFINE n == Len(queue)
<1>3. /\ n \in Nat /\ n >= 1 /\ DOMAIN queue = 1 .. n
      /\ \A i \in 1 .. n : queue[i] \in Call
  BY <1>1, EmptySeq, LenProperties, ElementOfSeq
<1>4. /\ Tail(queue) \in Seq(Call) /\ Len(Tail(queue)) = n - 1
      /\ \A i \in 1 .. Len(Tail(queue)) : Tail(queue)[i] = queue[i + 1]
      /\ Head(queue) \in Call
  BY <1>1, HeadTailProperties
<1>5. Head(queue) = queue[1]
  BY <1>1
<1>6. DOMAIN queue' = 1 .. n - 1 /\ \A i \in 1 .. n - 1 : queue'[i] = queue[i + 1]
  BY <1>4, LenProperties
<1> HIDE DEF n
<1>7. \A i \in 1 .. n - 1 : i + 1 \in 1 .. n
  BY <1>3
<1>8. \A i \in 1 .. n : queue[i].time \in Int
  BY <1>3, ConstantsAssumption DEF Call, Times
<1>9. \A i, j \in 1 .. n : i < j => queue[i].time < queue[j].time
  BY <1>3 DEF QueueInv
<1>10. \A i, j \in DOMAIN queue' : i < j => queue'[i].time < queue'[j].time
  <2> SUFFICES ASSUME NEW i \in 1 .. n - 1, NEW j \in 1 .. n - 1, i < j
               PROVE  queue'[i].time < queue'[j].time
    BY <1>6
  <2>1. i + 1 < j + 1 /\ i + 1 \in 1 .. n /\ j + 1 \in 1 .. n
    BY <1>7
  <2>2. queue[i + 1].time < queue[j + 1].time
    BY <1>9, <2>1
  <2> QED  BY <1>6, <2>2
<1>11. \A i \in DOMAIN queue' : queue'[i].time > lastClosed'
  <2> SUFFICES ASSUME NEW i \in 1 .. n - 1
               PROVE  queue'[i].time > lastClosed'
    BY <1>6
  <2>1. 1 < i + 1 /\ i + 1 \in 1 .. n /\ 1 \in 1 .. n
    BY <1>3, <1>7
  <2>2. queue[1].time < queue[i + 1].time
    BY <1>9, <2>1
  <2>3. queue[1].time \in Int /\ queue[i + 1].time \in Int
    BY <1>8, <2>1
  <2> QED  BY <1>5, <1>6, <2>2, <2>3
<1>12. QueueInv'
  BY <1>2, <1>10, <1>11 DEF QueueInv, Healthy
<1>13. Head(queue).time \in Times /\ Head(queue).time > lastClosed
  <2>1. 1 \in DOMAIN queue
    BY <1>3
  <2> QED  BY <1>4, <1>5, <2>1 DEF Call, QueueInv
<1>14. Head(queue).time >= previewTime
  BY <1>2, <1>13, ConstantsAssumption DEF Times, NoTime
<1> QED  BY <1>2, <1>4, <1>12, <1>13, <1>14

LEMMA SeedBarKeeps == IInv /\ SeedBar => IInv'
<1> SUFFICES ASSUME IInv, SeedBar PROVE IInv'
  OBVIOUS
<1> DEFINE t == Head(queue).time
<1>1. /\ TypeOK /\ QueueInv /\ queue # << >> /\ CommitBar(t, TRUE) /\ queue' = Tail(queue)
      /\ UNCHANGED <<settingVars, previewVars, poisoned, saved, hostVars>>
  BY DEF IInv, SeedBar, Seeding, Idle
<1>2. previewTime = NoTime /\ previewVarip = << >> /\ torn = NoTime
  BY <1>1 DEF IInv, QueueInv, PreviewInv, Intrabar
<1>3. /\ lastClosed' = t /\ previewTime' = NoTime /\ previewVarip' = << >> /\ torn' = NoTime
      /\ poisoned' = poisoned
  BY <1>1, <1>2 DEF CommitBar, previewVars
<1>4. /\ QueueInv' /\ queue' \in Seq(Call) /\ Healthy
      /\ t \in Times /\ t > lastClosed /\ t >= previewTime
  BY <1>1, <1>3, NextCall
<1> HIDE DEF t
<1>5. TimesOf(feed') = Append(TimesOf(feed), t) /\ feed' \in Seq(Record)
  BY <1>1, <1>4, CommitKeeps
<1>6. RecordingTells(feed', recorded', seedCount', complete')
  <2>1. CASE ~LastOfSeed
    BY <1>4, <1>5, <2>1, RecordingKeeps DEF SeedBar, t
  <2>2. CASE LastOfSeed
    <3> DEFINE fits == complete /\ Fits(Len(recorded) + 1)
    <3>1. /\ recorded' = IF fits THEN Append(recorded, t) ELSE << >>
          /\ complete' = fits
          /\ seedCount' = IF fits THEN Len(recorded) + 1 ELSE 0
      BY <2>2 DEF SeedBar, t
    <3>2. RecordingTells(feed, recorded, seedCount, complete) /\ feed \in Seq(Record)
      BY DEF IInv, TypeOK
    <3>3. recorded \in Seq(Times) /\ Len(recorded) \in Nat
      BY <3>2, RecordingType, LenProperties
    <3>4. CASE fits
      <4>1. recorded' = Append(recorded, t) /\ seedCount' = Len(recorded) + 1
        BY <3>1, <3>4
      <4>2. complete' /\ complete' \in BOOLEAN
        BY <3>1, <3>4
      <4>3. recorded = TimesOf(feed)
        BY <3>2, <3>4 DEF RecordingTells
      <4>4. recorded' = TimesOf(feed')
        BY <1>5, <4>1, <4>3
      <4>5. Len(recorded') = Len(recorded) + 1
        BY <1>4, <3>3, <4>1, AppendProperties
      <4>6. seedCount' \in 0 .. Len(recorded')
        BY <3>3, <4>1, <4>5
      <4> QED  BY <4>2, <4>4, <4>6 DEF RecordingTells
    <3>5. CASE ~fits
      <4>1. recorded' = << >> /\ seedCount' = 0 /\ ~complete' /\ complete' \in BOOLEAN
        BY <3>1, <3>5
      <4>2. seedCount' \in 0 .. Len(recorded')
        BY <4>1, EmptySeq
      <4> QED  BY <4>1, <4>2 DEF RecordingTells
    <3> QED  BY <3>4, <3>5
  <2> QED  BY <2>1, <2>2
<1>7. Intrabar(NoTime, previewVarip', torn') /\ previewVarip' \in Seq(Record)
  BY <1>3, NoCells, EmptySeq
<1> QED  BY <1>1, <1>3, <1>4, <1>6, <1>7, CommitStep

\* on_bar_closed, by the host or by a replay.
LEMMA CloseKeeps ==
    ASSUME IInv, Healthy, NEW t \in Times, t > lastClosed, t >= previewTime,
           CloseBar(t), UNCHANGED <<settingVars, poisoned, saved, hostVars>>,
           queue' \in Seq(Call), QueueInv'
    PROVE  IInv'
<1>1. Recording(t) /\ CommitBar(t, IsNew(t)) /\ IsNew(t) \in BOOLEAN
  BY DEF CloseBar, IsNew
<1>2. TimesOf(feed') = Append(TimesOf(feed), t)
  BY <1>1, CommitKeeps
<1>3. RecordingTells(feed', recorded', seedCount', complete')
  BY <1>1, <1>2, RecordingKeeps
<1>4. /\ previewTime' = NoTime /\ Intrabar(NoTime, previewVarip', torn')
      /\ previewVarip' \in Seq(Record) /\ torn' \in Times \cup {NoTime}
  <2>1. CASE previewTime # NoTime
    <3>1. previewTime' = NoTime /\ previewVarip' = << >> /\ torn' = NoTime
      BY <2>1 DEF CloseBar
    <3> QED  BY <3>1, NoCells, EmptySeq
  <2>2. CASE previewTime = NoTime
    <3>1. previewTime' = previewTime /\ previewVarip' = previewVarip /\ torn' = torn
      BY <2>2 DEF CloseBar, previewVars
    <3> QED  BY <2>2, <3>1 DEF IInv, PreviewInv, TypeOK
  <2> QED  BY <2>1, <2>2
<1> QED  BY <1>1, <1>3, <1>4, CommitStep

LEMMA OnBarClosedKeeps ==
    ASSUME IInv, NEW t \in Times, OnBarClosed(t)
    PROVE  IInv'
<1>1. /\ Healthy /\ t > lastClosed /\ t >= previewTime /\ CloseBar(t)
      /\ queue = << >> /\ queue' = queue
      /\ UNCHANGED <<settingVars, poisoned, saved, hostVars>>
  BY DEF OnBarClosed, Admissible, Idle
<1>2. queue' \in Seq(Call) /\ QueueInv'
  BY <1>1, EmptySeq DEF QueueInv
<1> QED  BY <1>1, <1>2, CloseKeeps

LEMMA ReplayBarKeeps == IInv /\ ReplayBar => IInv'
<1> SUFFICES ASSUME IInv, ReplayBar PROVE IInv'
  OBVIOUS
<1> DEFINE t == Head(queue).time
<1>1. /\ TypeOK /\ QueueInv /\ queue # << >> /\ CloseBar(t) /\ queue' = Tail(queue)
      /\ UNCHANGED <<settingVars, poisoned, saved, hostVars>>
  BY DEF IInv, ReplayBar, Replaying, Idle
<1>2. previewTime = NoTime /\ lastClosed' = t /\ poisoned' = poisoned
  BY <1>1 DEF QueueInv, CloseBar, CommitBar
<1>3. previewTime' = NoTime /\ torn' = NoTime
  BY <1>1, <1>2 DEF QueueInv, CloseBar, previewVars
<1>4. /\ QueueInv' /\ queue' \in Seq(Call) /\ Healthy
      /\ t \in Times /\ t > lastClosed /\ t >= previewTime
  BY <1>1, <1>2, <1>3, NextCall
<1> HIDE DEF t
<1> QED  BY <1>1, <1>4, CloseKeeps

-----------------------------------------------------------------------------
(* Beginnings.                                                             *)

LEMMA CallsProperties ==
    ASSUME NEW op \in {"seed", "closed"}, NEW bars \in Seq(Times)
    PROVE  /\ Calls(op, bars) \in Seq(Call) /\ Len(Calls(op, bars)) = Len(bars)
           /\ \A i \in 1 .. Len(bars) : Calls(op, bars)[i].time = bars[i]
<1>1. Len(bars) \in Nat /\ DOMAIN bars = 1 .. Len(bars) /\ \A i \in 1 .. Len(bars) : bars[i] \in Times
  BY LenProperties, ElementOfSeq
<1>2. Calls(op, bars) \in [1 .. Len(bars) -> Call]
  BY <1>1 DEF Calls, Call
<1>3. \A i \in 1 .. Len(bars) : Calls(op, bars)[i].time = bars[i]
  BY <1>1 DEF Calls
<1> QED  BY <1>1, <1>2, <1>3, AFunctionIsASeq

\* Calls for bars in order, on a session without bars and previews.
LEMMA QueueBegins ==
    ASSUME NEW bars \in Seq(Times), Increasing(bars), queue' \in Seq(Call),
           Len(queue') = Len(bars),
           \A i \in 1 .. Len(bars) : queue'[i].time = bars[i],
           lastClosed' = NoTime, previewTime' = NoTime, torn' = NoTime, poisoned' = FALSE
    PROVE  QueueInv'
<1>1. /\ Len(bars) \in Nat /\ DOMAIN bars = 1 .. Len(bars) /\ DOMAIN queue' = 1 .. Len(bars)
      /\ \A i \in 1 .. Len(bars) : bars[i] \in Times
  BY LenProperties, ElementOfSeq
<1>2. \A i, j \in DOMAIN queue' : i < j => queue'[i].time < queue'[j].time
  BY <1>1 DEF Increasing
<1>3. \A i \in DOMAIN queue' : queue'[i].time > lastClosed'
  BY <1>1, ConstantsAssumption DEF Times, NoTime
<1> QED  BY <1>2, <1>3 DEF QueueInv, Healthy

\* The clocks, the recording and the preview of a session before its first bar.
LEMMA ClearedTells ==
    ASSUME Cleared, feed' = << >>, NEW n \in Limits
    PROVE  /\ ClocksTell(feed', n, lastClosed', closedCount', retained')
           /\ RecordingTells(feed', recorded', seedCount', complete')
           /\ lastClosed' = NoTime /\ closedCount' \in Nat
           /\ retained' \in Deque(Times, n)
           /\ previewTime' = NoTime /\ previewVarip' = << >> /\ torn' = NoTime
           /\ recorded' \in Seq(Times) /\ seedCount' \in Nat /\ complete' \in BOOLEAN
<1>1. /\ lastClosed' = NoTime /\ closedCount' = 0 /\ retained' = << >> /\ recorded' = << >>
      /\ seedCount' = 0 /\ complete' = TRUE /\ previewTime' = NoTime /\ previewVarip' = << >>
      /\ torn' = NoTime
  BY DEF Cleared
<1>2. << >> \in Seq(Record) /\ << >> \in Seq(Times) /\ Len(<< >>) = 0 /\ DOMAIN << >> = {}
  BY EmptySeq
<1>3. ContextTells(<< >>, n, FreshContext)
  BY FreshContextTells
<1>4. TimesOf(<< >>) = << >>
  <2>1. TimesOf(<< >>) \in Seq(Times) /\ Len(TimesOf(<< >>)) = 0
    BY <1>2, TimesOfProperties
  <2> QED  BY <2>1, EmptySeq
<1>5. Newest(TimesOf(<< >>), n) = << >>
  BY <1>3 DEF ContextTells, FreshContext
<1>6. Increasing(<< >>)
  BY <1>2 DEF Increasing
<1>7. LastTime(<< >>) = NoTime
  BY DEF LastTime
<1>8. ClocksTell(<< >>, n, NoTime, 0, << >>)
  BY <1>2, <1>4, <1>5, <1>6, <1>7 DEF ClocksTell
<1>9. RecordingTells(<< >>, << >>, 0, TRUE)
  BY <1>2, <1>4 DEF RecordingTells
<1>10. << >> \in Deque(Times, n)
  <2>1. RetainedLength(0, n) = 0
    BY DEF RetainedLength, Limits
  <2> QED  BY <1>2, <2>1 DEF Deque
<1> QED  BY <1>1, <1>2, <1>8, <1>9, <1>10

LEMMA SeedKeeps ==
    ASSUME IInv, NEW bars \in Seq(Times), Increasing(bars), Seed(bars)
    PROVE  IInv'
<1>1. /\ Healthy /\ ctx = NoContext /\ ctx' = FreshContext /\ Cleared
      /\ queue' = Calls("seed", bars)
      /\ retention' = retention /\ budget' = budget /\ globals' = globals /\ cache' = cache
      /\ poisoned' = poisoned /\ saved' = saved /\ feed' = feed
      /\ visited' = visited /\ interrupted' = interrupted
  BY DEF Seed, settingVars, hostVars
<1>2. feed = << >> /\ visited = {}
  BY <1>1 DEF IInv, UnusedInv
<1>3. TypeOK /\ retention \in Limits
  BY LimitsHold DEF IInv
<1>4. /\ ClocksTell(feed', retention, lastClosed', closedCount', retained')
      /\ RecordingTells(feed', recorded', seedCount', complete')
      /\ lastClosed' = NoTime /\ closedCount' \in Nat /\ retained' \in Deque(Times, retention)
      /\ previewTime' = NoTime /\ previewVarip' = << >> /\ torn' = NoTime
      /\ recorded' \in Seq(Times) /\ seedCount' \in Nat /\ complete' \in BOOLEAN
  BY <1>1, <1>2, <1>3, ClearedTells
<1>5. FreshContext \in ContextOf(retention) /\ FreshContext # NoContext
  BY <1>3, FreshContextType, NoContextIsNone
<1>6. poisoned = FALSE
  BY <1>1, <1>3 DEF Healthy, TypeOK
<1>7. queue' \in Seq(Call) /\ QueueInv'
  <2>1. /\ queue' \in Seq(Call) /\ Len(queue') = Len(bars)
        /\ \A i \in 1 .. Len(bars) : queue'[i].time = bars[i]
    BY <1>1, CallsProperties
  <2> QED  BY <1>1, <1>4, <1>6, <2>1, QueueBegins
<1>8. << >> \in Seq(Record)
  BY EmptySeq
<1>9. TypeOK'
  BY <1>1, <1>2, <1>3, <1>4, <1>5, <1>7, <1>8 DEF TypeOK, Call
<1>10. ClocksTell(feed, retention, lastClosed, closedCount, retained)'
  BY <1>1, <1>4
<1>11. (Healthy /\ ~interrupted => PlacesTell(feed, retention, ctx, <<globals, cache>>))'
  <2>1. ~interrupted => <<globals, cache>> = <<feed, feed>>
    BY <1>1 DEF IInv, PlacesTell
  <2>2. ContextTells(<< >>, retention, FreshContext)
    BY <1>3, FreshContextTells
  <2>3. ContextTells(feed, retention, FreshContext)
    BY <1>2, <2>2, Zenon
  <2> QED  BY <1>1, <2>1, <2>3 DEF PlacesTell
<1>12. UnusedInv' /\ (poisoned => ctx = NoContext)'
  BY <1>1, <1>5, <1>6 DEF UnusedInv
<1>13. PreviewInv'
  BY <1>1, <1>2, <1>4, NoCells DEF PreviewInv
<1>14. SavedInv'
  BY <1>1, SavedStays DEF IInv
<1> QED  BY <1>4, <1>7, <1>9, <1>10, <1>11, <1>12, <1>13, <1>14 DEF IInv

\* A new session object, whatever queue of calls it gets.
LEMMA NewObjectKeeps ==
    ASSUME IInv, NEW r \in Retentions, NEW b \in Budgets, NewObject(r, b),
           ctx' \in {FreshContext, NoContext}, saved' = saved,
           queue' \in Seq(Call), QueueInv'
    PROVE  IInv'
<1>1. /\ retention' = r /\ budget' = b /\ globals' = << >> /\ cache' = << >> /\ Cleared
      /\ poisoned' = FALSE /\ feed' = << >> /\ visited' = {} /\ interrupted' = FALSE
  BY DEF NewObject
<1>2. r \in Limits
  BY ConstantsAssumption DEF Limits
<1>3. /\ ClocksTell(feed', r, lastClosed', closedCount', retained')
      /\ RecordingTells(feed', recorded', seedCount', complete')
      /\ lastClosed' = NoTime /\ closedCount' \in Nat /\ retained' \in Deque(Times, r)
      /\ previewTime' = NoTime /\ previewVarip' = << >> /\ torn' = NoTime
      /\ recorded' \in Seq(Times) /\ seedCount' \in Nat /\ complete' \in BOOLEAN
  BY <1>1, <1>2, ClearedTells
<1>4. ctx' \in ContextOf(r) \cup {NoContext}
  BY <1>2, FreshContextType
<1>5. << >> \in Seq(Record)
  BY EmptySeq
<1>6. TypeOK'
  BY <1>1, <1>3, <1>4, <1>5 DEF TypeOK, Call
<1>7. (Healthy /\ ~interrupted => PlacesTell(feed, retention, ctx, <<globals, cache>>))'
  <2>1. ContextTells(<< >>, r, FreshContext)
    BY <1>2, FreshContextTells
  <2>2. ctx' # NoContext => ContextTells(feed', r, ctx')
    BY <1>1, <2>1, Zenon
  <2> QED  BY <1>1, <2>2 DEF PlacesTell
<1>8. UnusedInv' /\ (poisoned => ctx = NoContext)'
  BY <1>1 DEF UnusedInv
<1>9. PreviewInv'
  BY <1>1, <1>3, NoCells DEF PreviewInv
<1>10. SavedInv'
  BY SavedStays DEF IInv
<1>11. ClocksTell(feed, retention, lastClosed, closedCount, retained)'
  BY <1>1, <1>3
<1> QED  BY <1>1, <1>3, <1>6, <1>7, <1>8, <1>9, <1>10, <1>11 DEF IInv

LEMMA NewSessionKeeps ==
    ASSUME IInv, NEW r \in Retentions, NEW b \in Budgets, NewSession(r, b)
    PROVE  IInv'
<1>1. NewObject(r, b) /\ ctx' = NoContext /\ queue' = << >> /\ saved' = saved
  BY DEF NewSession
<1>2. queue' \in Seq(Call) /\ QueueInv'
  BY <1>1, EmptySeq DEF QueueInv
<1> QED  BY <1>1, <1>2, NewObjectKeeps

\* A replay begins with the calls for the recorded bars, in their order.
LEMMA RestoreReplayKeeps ==
    ASSUME IInv, NEW b \in Budgets, RestoreReplay(b)
    PROVE  IInv'
<1> DEFINE s == saved
           n == s.seedCount
           bars == s.recorded
           m == Len(bars)
<1>1. /\ saved # NoSnapshot /\ s.kind = "replay" /\ NewObject(s.retention, b)
      /\ ctx' \in {FreshContext, NoContext} /\ queue' = ReplayCalls(s) /\ saved' = saved
  BY DEF RestoreReplay
<1>2. /\ s.retention \in Retentions /\ bars \in Seq(Times) /\ Increasing(bars)
      /\ n \in 0 .. m
  BY <1>1 DEF IInv, SavedInv, SavedReplayInv
<1> DEFINE front == SubSeq(bars, 1, n)
           back == SubSeq(bars, n + 1, m)
<1>3. queue' = Calls("seed", front) \o Calls("closed", back)
  BY <1>1 DEF ReplayCalls, Oldest
<1>4. m \in Nat /\ n \in Nat /\ n <= m /\ \A i \in 1 .. m : bars[i] \in Times
  BY <1>2, LenProperties, ElementOfSeq
<1> HIDE DEF n, m, bars
<1>5. /\ front \in Seq(Times) /\ Len(front) = n /\ \A i \in 1 .. n : front[i] = bars[i]
  <2>1. 1 \in Int /\ n \in Int /\ \A i \in 1 .. n : bars[i] \in Times
    BY <1>4
  <2>2. /\ front \in Seq(Times) /\ Len(front) = IF 1 <= n THEN n - 1 + 1 ELSE 0
        /\ \A i \in 1 .. n - 1 + 1 : front[i] = bars[1 + i - 1]
    BY <2>1, SubSeqProperties
  <2> HIDE DEF front
  <2>3. n - 1 + 1 = n /\ \A i \in 1 .. n : 1 + i - 1 = i
    BY <1>4
  <2>4. Len(front) = n
    BY <1>4, <2>2
  <2> QED  BY <2>2, <2>3, <2>4
<1>6. /\ back \in Seq(Times) /\ Len(back) = m - n
      /\ \A i \in 1 .. m - n : back[i] = bars[n + i]
  <2>1. n + 1 \in Int /\ m \in Int /\ \A i \in n + 1 .. m : bars[i] \in Times
    BY <1>4
  <2>2. /\ back \in Seq(Times) /\ Len(back) = IF n + 1 <= m THEN m - (n + 1) + 1 ELSE 0
        /\ \A i \in 1 .. m - (n + 1) + 1 : back[i] = bars[n + 1 + i - 1]
    BY <2>1, SubSeqProperties
  <2> HIDE DEF back
  <2>3. m - (n + 1) + 1 = m - n /\ \A i \in 1 .. m - n : n + 1 + i - 1 = n + i
    BY <1>4
  <2>4. Len(back) = m - n
    BY <1>4, <2>2
  <2> QED  BY <2>2, <2>3, <2>4
<1> HIDE DEF front, back
<1> DEFINE p == Calls("seed", front)
           q == Calls("closed", back)
<1>7. /\ p \in Seq(Call) /\ Len(p) = n /\ \A i \in 1 .. n : p[i].time = bars[i]
      /\ q \in Seq(Call) /\ Len(q) = m - n /\ \A i \in 1 .. m - n : q[i].time = bars[n + i]
  BY <1>5, <1>6, CallsProperties
<1>8. queue' = p \o q
  BY <1>3
<1> HIDE DEF p, q
<1>9. /\ queue' \in Seq(Call) /\ Len(queue') = n + (m - n)
      /\ \A i \in 1 .. n + (m - n) : queue'[i] = IF i <= n THEN p[i] ELSE q[i - n]
  <2>1. /\ p \o q \in Seq(Call) /\ Len(p \o q) = Len(p) + Len(q)
        /\ \A i \in 1 .. Len(p) + Len(q) :
              (p \o q)[i] = IF i <= Len(p) THEN p[i] ELSE q[i - Len(p)]
    BY <1>7, ConcatProperties
  <2> QED  BY <1>7, <1>8, <2>1
<1>10. \A i \in 1 .. m : queue'[i].time = bars[i]
  <2> TAKE i \in 1 .. m
  <2>1. i \in 1 .. n + (m - n)
    BY <1>4
  <2>2. CASE i <= n
    BY <1>4, <1>7, <1>9, <2>1, <2>2
  <2>3. CASE ~(i <= n)
    <3>1. i - n \in 1 .. m - n /\ n + (i - n) = i
      BY <1>4, <2>3
    <3>2. queue'[i] = q[i - n]
      BY <1>9, <2>1, <2>3
    <3> QED  BY <1>7, <3>1, <3>2
  <2> QED  BY <2>2, <2>3
<1>11. Len(queue') = m
  BY <1>4, <1>9
<1>12. lastClosed' = NoTime /\ previewTime' = NoTime /\ torn' = NoTime /\ poisoned' = FALSE
  BY <1>1 DEF NewObject, Cleared
<1>13. QueueInv'
  BY <1>2, <1>9, <1>10, <1>11, <1>12, QueueBegins DEF m, bars
<1> QED  BY <1>1, <1>2, <1>9, <1>13, NewObjectKeeps

-----------------------------------------------------------------------------
(* Checkpoints and previews.                                               *)

LEMMA ClocksType ==
    ASSUME NEW f, NEW n \in Limits, NEW last, NEW count, NEW times,
           ClocksTell(f, n, last, count, times)
    PROVE  /\ f \in Seq(Record) /\ last \in Times \cup {NoTime} /\ count \in Nat
           /\ times \in Deque(Times, n)
           /\ count = 0 <=> f = << >>
           /\ f # << >> => last \in Times
<1>1. f \in Seq(Record)
  BY DEF ClocksTell
<1>2. count = Len(f) /\ count \in Nat /\ (count = 0 <=> f = << >>)
  <2>1. count = Len(f)
    BY DEF ClocksTell
  <2>2. Len(f) \in Nat /\ (f # << >> => Len(f) \in Nat \ {0}) /\ Len(<< >>) = 0
    BY <1>1, EmptySeq, LenProperties
  <2> QED  BY <2>1, <2>2
<1>3. f # << >> => Len(f) \in 1 .. Len(f)
  BY <1>2
<1>4. f # << >> => LastTime(f) \in Times
  BY <1>1, <1>3, TimesOfProperties DEF LastTime
<1>5. last = LastTime(f)
  BY DEF ClocksTell
<1>6. times \in Deque(Times, n)
  BY <1>1, TimesOfProperties, DequeType DEF ClocksTell
<1> QED  BY <1>1, <1>2, <1>4, <1>5, <1>6 DEF LastTime

\* restore_state puts two histories side by side: all of the fields are taken.
LEMMA RestoreKeeps == IInv /\ Restore => IInv'
<1> SUFFICES ASSUME IInv, Restore PROVE IInv'
  OBVIOUS
<1>1. /\ Healthy /\ queue = << >> /\ saved # NoSnapshot /\ saved.kind # "replay"
      /\ saved.retention = retention
      /\ ctx' = saved.ctx /\ globals' = saved.globals /\ cache' = saved.cache
      /\ lastClosed' = saved.lastClosed /\ closedCount' = saved.closedCount
      /\ retained' = saved.retained /\ recorded' = saved.recorded
      /\ seedCount' = saved.seedCount /\ complete' = saved.complete
      /\ previewTime' = NoTime /\ previewVarip' = << >> /\ torn' = NoTime
      /\ feed' = saved.feed /\ visited' = {} /\ interrupted' = saved.interrupted
      /\ retention' = retention /\ budget' = budget /\ poisoned' = poisoned
      /\ queue' = queue /\ saved' = saved
  BY DEF Restore, RestoredFrom, Adopt, Idle, settingVars
<1>2. SavedStateInv(saved)
  BY <1>1 DEF IInv, SavedInv
<1>3. TypeOK /\ retention \in Limits
  BY LimitsHold DEF IInv
<1>4. ClocksTell(feed', retention, lastClosed', closedCount', retained')
  BY <1>1, <1>2 DEF SavedStateInv
<1>5. /\ feed' \in Seq(Record) /\ lastClosed' \in Times \cup {NoTime} /\ closedCount' \in Nat
      /\ retained' \in Deque(Times, retention)
  BY <1>3, <1>4, ClocksType
<1>6. RecordingTells(feed', recorded', seedCount', complete')
  BY <1>1, <1>2 DEF SavedStateInv
<1>7. recorded' \in Seq(Times) /\ seedCount' \in Nat /\ complete' \in BOOLEAN
  BY <1>5, <1>6, RecordingType
<1>8. << >> \in Seq(Record) /\ DOMAIN << >> = {}
  BY EmptySeq
<1>9. /\ ctx' \in ContextOf(retention) \cup {NoContext}
      /\ globals' \in Seq(Record) /\ cache' \in Seq(Record) /\ interrupted' \in BOOLEAN
  BY <1>1, <1>2 DEF SavedStateInv
<1>10. TypeOK'
  BY <1>1, <1>3, <1>5, <1>7, <1>8, <1>9 DEF TypeOK
<1>11. (Healthy /\ ~interrupted => PlacesTell(feed, retention, ctx, <<globals, cache>>))'
  BY <1>1, <1>2 DEF SavedStateInv
<1>12. UnusedInv' /\ (poisoned => ctx = NoContext)'
  BY <1>1, <1>2 DEF UnusedInv, SavedStateInv, Healthy
<1>13. PreviewInv'
  BY <1>1, NoCells DEF PreviewInv
<1>14. QueueInv'
  BY <1>1, <1>8 DEF QueueInv
<1>15. SavedInv'
  BY <1>1, SavedStays DEF IInv
<1> QED  BY <1>1, <1>4, <1>6, <1>10, <1>11, <1>12, <1>13, <1>14, <1>15 DEF IInv

LEMMA CheckpointKeeps == IInv /\ Checkpoint => IInv'
<1> SUFFICES ASSUME IInv, Checkpoint PROVE IInv'
  OBVIOUS
<1>1. /\ Healthy
      /\ retention' = retention /\ budget' = budget /\ ctx' = ctx /\ globals' = globals
      /\ cache' = cache /\ lastClosed' = lastClosed /\ closedCount' = closedCount
      /\ retained' = retained /\ recorded' = recorded /\ seedCount' = seedCount
      /\ complete' = complete /\ previewTime' = previewTime /\ previewVarip' = previewVarip
      /\ torn' = torn /\ poisoned' = poisoned /\ queue' = queue /\ feed' = feed
      /\ visited' = visited /\ interrupted' = interrupted
  BY DEF Checkpoint, settingVars, scriptVars, clockVars, replayVars, previewVars, hostVars
<1>2. /\ ClocksTell(feed, retention, lastClosed, closedCount, retained)
      /\ RecordingTells(feed, recorded, seedCount, complete)
      /\ TypeOK /\ UnusedInv
      /\ ~interrupted => PlacesTell(feed, retention, ctx, <<globals, cache>>)
  BY <1>1 DEF IInv
<1>3. SavedInv'
  <2>1. ASSUME NEW kind \in {"local", "state"}, saved' = Captured(kind)
        PROVE  SavedInv'
    <3> DEFINE s == Captured(kind)
    <3>1. /\ s.kind = kind /\ s.retention = retention /\ s.ctx = ctx /\ s.globals = globals
          /\ s.cache = cache /\ s.lastClosed = lastClosed /\ s.closedCount = closedCount
          /\ s.retained = retained /\ s.feed = feed /\ s.interrupted = interrupted
          /\ s.recorded = IF kind = "local" THEN recorded ELSE << >>
          /\ s.seedCount = IF kind = "local" THEN seedCount ELSE 0
          /\ s.complete = (kind = "local" /\ complete)
      BY DEF Captured
    <3> HIDE DEF s
    <3>2. RecordingTells(s.feed, s.recorded, s.seedCount, s.complete)
      <4>1. CASE kind = "local"
        <5>1. s.recorded = recorded /\ s.seedCount = seedCount /\ s.feed = feed
          BY <3>1, <4>1
        <5>2. complete \in BOOLEAN
          BY <1>2 DEF TypeOK
        <5>3. s.complete = complete
          BY <3>1, <4>1, <5>2
        <5> QED  BY <1>2, <5>1, <5>3, Zenon
      <4>2. CASE kind # "local"
        <5>1. s.recorded = << >> /\ s.seedCount = 0 /\ ~s.complete /\ s.complete \in BOOLEAN
          BY <3>1, <4>2
        <5>2. s.seedCount \in 0 .. Len(s.recorded)
          BY <5>1, EmptySeq
        <5> QED  BY <5>1, <5>2 DEF RecordingTells
      <4> QED  BY <4>1, <4>2
    <3>3. ClocksTell(s.feed, s.retention, s.lastClosed, s.closedCount, s.retained)
      BY <1>2, <3>1
    <3>4. /\ s.ctx \in ContextOf(s.retention) \cup {NoContext}
          /\ s.globals \in Seq(Record) /\ s.cache \in Seq(Record) /\ s.interrupted \in BOOLEAN
      BY <1>2, <3>1 DEF TypeOK
    <3>5. s.ctx = NoContext => s.feed = << >>
      BY <1>1, <1>2, <3>1 DEF UnusedInv
    <3>6. ~s.interrupted => PlacesTell(s.feed, s.retention, s.ctx, <<s.globals, s.cache>>)
      BY <1>2, <3>1
    <3>7. SavedStateInv(s)
      BY <3>2, <3>3, <3>4, <3>5, <3>6 DEF SavedStateInv
    <3>8. saved' = s /\ s.kind # "replay"
      BY <2>1, <3>1 DEF s
    <3> QED  BY <3>7, <3>8 DEF SavedInv
  <2>2. ASSUME complete, saved' = CapturedReplay
        PROVE  SavedInv'
    <3> DEFINE s == CapturedReplay
    <3>1. /\ s.kind = "replay" /\ s.retention = retention /\ s.recorded = recorded
          /\ s.seedCount = seedCount
      BY DEF CapturedReplay
    <3> HIDE DEF s
    <3>2. recorded = TimesOf(feed) /\ seedCount \in 0 .. Len(recorded)
      BY <1>2, <2>2 DEF RecordingTells
    <3>3. Increasing(recorded) /\ recorded \in Seq(Times) /\ retention \in Retentions
      BY <1>2, <3>2 DEF ClocksTell, TypeOK
    <3>4. SavedReplayInv(s)
      BY <3>1, <3>2, <3>3 DEF SavedReplayInv
    <3>5. saved' = s
      BY <2>2 DEF s
    <3> QED  BY <3>1, <3>4, <3>5 DEF SavedInv
  <2> QED  BY <2>1, <2>2 DEF Checkpoint
<1>4. TypeOK'
  BY <1>1, <1>2 DEF TypeOK
<1>5. UnusedInv' /\ QueueInv' /\ PreviewInv'
  BY <1>1 DEF IInv, UnusedInv, QueueInv, PreviewInv, Healthy
<1>6. (Healthy /\ ~interrupted => PlacesTell(feed, retention, ctx, <<globals, cache>>))'
  BY <1>1, <1>2
<1>7. (poisoned => ctx = NoContext)'
  BY <1>1 DEF IInv
<1>8. /\ ClocksTell(feed, retention, lastClosed, closedCount, retained)'
      /\ RecordingTells(feed, recorded, seedCount, complete)'
  BY <1>1, <1>2
<1> QED  BY <1>3, <1>4, <1>5, <1>6, <1>7, <1>8 DEF IInv

\* A call that opens a context and writes nothing to it.
LEMMA OpenKeeps ==
    ASSUME IInv, Healthy, ctx' = OpenContext,
           UNCHANGED <<settingVars, globals, cache, clockVars, replayVars, poisoned, queue,
                       saved, feed, interrupted>>,
           previewTime' \in Times \cup {NoTime}, previewVarip' \in Seq(Record),
           torn' \in Times \cup {NoTime}, visited' \subseteq Times, PreviewInv', QueueInv'
    PROVE  IInv'
<1>1. /\ retention' = retention /\ budget' = budget /\ globals' = globals
      /\ cache' = cache /\ lastClosed' = lastClosed /\ closedCount' = closedCount
      /\ retained' = retained /\ recorded' = recorded /\ seedCount' = seedCount
      /\ complete' = complete /\ poisoned' = poisoned /\ queue' = queue /\ saved' = saved
      /\ feed' = feed /\ interrupted' = interrupted
  BY DEF settingVars, clockVars, replayVars
<1>2. TypeOK /\ UnusedInv
  BY DEF IInv
<1>3. ctx' \in ContextOf(retention) /\ ctx' # NoContext
  BY <1>2, OpenContextType, NoContextIsNone
<1>4. TypeOK'
  BY <1>1, <1>2, <1>3 DEF TypeOK
<1>5. /\ ClocksTell(feed, retention, lastClosed, closedCount, retained)'
      /\ RecordingTells(feed, recorded, seedCount, complete)'
  BY <1>1 DEF IInv
<1>6. (Healthy /\ ~interrupted => PlacesTell(feed, retention, ctx, <<globals, cache>>))'
  <2> SUFFICES ASSUME ~interrupted
               PROVE  PlacesTell(feed, retention, OpenContext, <<globals, cache>>)
    BY <1>1
  <2>1. PlacesTell(feed, retention, ctx, <<globals, cache>>)
    BY DEF IInv
  <2>2. ContextTells(feed, retention, OpenContext)
    BY <1>2, <2>1, OpenContextTells
  <2> QED  BY <2>1, <2>2 DEF PlacesTell
<1>7. UnusedInv' /\ (poisoned => ctx = NoContext)'
  BY <1>1, <1>3 DEF UnusedInv, Healthy
<1>8. SavedInv'
  BY <1>1, SavedStays DEF IInv
<1> QED  BY <1>4, <1>5, <1>6, <1>7, <1>8 DEF IInv

LEMMA SnapshotResultKeeps == IInv /\ SnapshotResult => IInv'
<1> SUFFICES ASSUME IInv, SnapshotResult PROVE IInv'
  OBVIOUS
<1>1. /\ Healthy /\ ctx' = OpenContext
      /\ UNCHANGED <<settingVars, globals, cache, clockVars, replayVars, poisoned, queue,
                     saved, feed, interrupted>>
      /\ previewTime' = previewTime /\ previewVarip' = previewVarip /\ torn' = torn
      /\ visited' = visited /\ lastClosed' = lastClosed /\ queue' = queue /\ poisoned' = poisoned
  BY DEF SnapshotResult, previewVars, hostVars, clockVars
<1>2. /\ previewTime \in Times \cup {NoTime} /\ previewVarip \in Seq(Record)
      /\ torn \in Times \cup {NoTime} /\ visited \subseteq Times
  BY DEF IInv, TypeOK
<1>3. PreviewInv' /\ QueueInv'
  BY <1>1 DEF IInv, PreviewInv, QueueInv, Healthy
<1> QED  BY <1>1, <1>2, <1>3, OpenKeeps

\* What a preview of an admissible bar finds.
LEMMA AdoptedCells ==
    ASSUME IInv, NEW t \in Times, t >= previewTime
    PROVE  /\ IsNew(t) \in BOOLEAN /\ AdoptedVarip(t) \in Seq(Record)
           /\ IsNew(t) => AdoptedVarip(t) = << >>
           /\ ~IsNew(t) => /\ previewTime = t /\ AdoptedVarip(t) = previewVarip
                           /\ Intrabar(t, AdoptedVarip(t), torn)
           /\ torn # NoTime => torn > previewTime
<1>1. previewVarip \in Seq(Record) /\ Intrabar(previewTime, previewVarip, torn)
  BY DEF IInv, TypeOK, PreviewInv
<1>2. torn # NoTime => torn > previewTime
  BY <1>1 DEF Intrabar
<1> QED  BY <1>1, <1>2, EmptySeq DEF AdoptedVarip, IsNew

\* One more record of a preview of bar t.
LEMMA OneMoreCell ==
    ASSUME NEW t \in Times, NEW before \in Seq(Record), NEW strays, NEW isnew \in BOOLEAN,
           IF isnew THEN before = << >> /\ strays = NoTime ELSE Intrabar(t, before, strays)
    PROVE  LET after == Append(before, [time |-> t, isnew |-> isnew])
           IN  after \in Seq(Record) /\ Intrabar(t, after, strays)
<1> DEFINE r == [time |-> t, isnew |-> isnew]
           after == Append(before, r)
           n == Len(before)
<1>1. r \in Record /\ r.time = t /\ r.isnew = isnew /\ t # NoTime
  BY ConstantsAssumption DEF Record, Times, NoTime
<1>2. n \in Nat /\ DOMAIN before = 1 .. n /\ (n = 0 <=> before = << >>)
  BY EmptySeq, LenProperties
<1> HIDE DEF r
<1>3. /\ after \in Seq(Record) /\ Len(after) = n + 1
      /\ \A i \in 1 .. n : after[i] = before[i]
      /\ after[n + 1] = r /\ after # << >>
  BY <1>1, AppendProperties
<1>4. DOMAIN after = 1 .. n + 1
  BY <1>3, LenProperties
<1> HIDE DEF after, n
<1>5. \A i \in DOMAIN after : i = n + 1 \/ (i \in 1 .. n /\ i # n + 1)
  BY <1>2, <1>4
<1>6. CASE strays = NoTime
  <2>1. isnew <=> n + 1 = 1
    <3>1. ~isnew => before # << >>
      BY <1>1, <1>6 DEF Intrabar
    <3> QED  BY <1>2, <3>1
  <2>2. \A i \in 1 .. n : before[i].time = t /\ (before[i].isnew <=> i = 1)
    <3>1. CASE isnew
      BY <1>2, <3>1
    <3>2. CASE ~isnew
      BY <1>2, <1>6, <3>2 DEF Intrabar
    <3> QED  BY <3>1, <3>2
  <2>3. \A i \in DOMAIN after : after[i].time = t /\ (after[i].isnew <=> i = 1)
    <3> TAKE i \in DOMAIN after
    <3>1. CASE i = n + 1
      BY <1>1, <1>3, <2>1, <3>1
    <3>2. CASE i \in 1 .. n
      BY <1>3, <2>2, <3>2
    <3> QED  BY <1>5, <3>1, <3>2
  <2> QED  BY <1>1, <1>3, <1>6, <2>3 DEF Intrabar, after, r
<1>7. CASE strays # NoTime
  <2>1. ~isnew /\ Intrabar(t, before, strays)
    BY <1>7
  <2>2. /\ strays > t
        /\ \A i \in 1 .. n : IF i = 1 /\ before[i].isnew THEN before[i].time = strays
                             ELSE before[i].time = t /\ ~before[i].isnew
    BY <1>2, <1>7, <2>1 DEF Intrabar
  <2>3. \A i \in DOMAIN after : IF i = 1 /\ after[i].isnew THEN after[i].time = strays
                                ELSE after[i].time = t /\ ~after[i].isnew
    <3> TAKE i \in DOMAIN after
    <3>1. CASE i = n + 1
      BY <1>1, <1>3, <2>1, <3>1
    <3>2. CASE i \in 1 .. n
      BY <1>3, <2>2, <3>2
    <3> QED  BY <1>5, <3>1, <3>2
  <2> QED  BY <1>3, <1>7, <2>2, <2>3 DEF Intrabar, after, r
<1> QED  BY <1>6, <1>7

\* A preview writes to clones, and to the cells of its own bar.
LEMMA OnBarUpdatedKeeps ==
    ASSUME IInv, NEW t \in Times, OnBarUpdated(t)
    PROVE  IInv'
<1> DEFINE r == [time |-> t, isnew |-> IsNew(t)]
           before == AdoptedVarip(t)
<1>1. /\ Healthy /\ queue = << >> /\ t > lastClosed /\ t >= previewTime
      /\ ctx' = [OpenContext EXCEPT !.state = Kept("state", @, r)]
      /\ globals' = Kept("globals", globals, r) /\ cache' = Kept("cache", cache, r)
      /\ previewVarip' = Kept("varip", before, r)
      /\ previewTime' = t /\ torn' = (IF IsNew(t) THEN NoTime ELSE torn)
      /\ visited' = visited \cup {t}
      /\ UNCHANGED <<settingVars, clockVars, replayVars, poisoned, queue, saved, feed, interrupted>>
  BY DEF OnBarUpdated, Admissible, Idle
<1>2. /\ TypeOK /\ PreviewInv /\ visited \subseteq Times /\ torn \in Times \cup {NoTime}
  BY DEF IInv, TypeOK
<1>3. globals' = globals /\ cache' = cache /\ previewVarip' = Append(before, r)
  BY <1>1 DEF Kept, SharedWithPreview
<1>4. ctx' = OpenContext
  <2>1. OpenContext \in AnyContext
    BY <1>2, OpenContextType, NoContextIsNone
  <2>2. ctx' = [OpenContext EXCEPT !.state = OpenContext.state]
    BY <1>1 DEF Kept, SharedWithPreview
  <2> QED  BY <2>1, <2>2 DEF AnyContext
<1>5. lastClosed' = lastClosed /\ queue' = queue /\ poisoned' = poisoned
  BY <1>1 DEF clockVars
<1>6. /\ IsNew(t) \in BOOLEAN /\ before \in Seq(Record)
      /\ IF IsNew(t) THEN before = << >> /\ torn' = NoTime ELSE Intrabar(t, before, torn')
  BY <1>1, AdoptedCells
<1> HIDE DEF before
<1>7. Append(before, r) \in Seq(Record) /\ Intrabar(t, Append(before, r), torn')
  BY <1>6, OneMoreCell
<1>8. \A v \in visited' : v <= lastClosed' \/ v <= previewTime'
  <2>1. \A v \in visited : v <= lastClosed \/ v <= previewTime
    BY <1>1, <1>2 DEF PreviewInv
  <2>2. /\ visited \subseteq Int /\ t \in Int /\ previewTime \in Int /\ lastClosed \in Int
    BY <1>2, ConstantsAssumption DEF TypeOK, Times, NoTime
  <2> QED  BY <1>1, <1>5, <2>1, <2>2
<1>9. PreviewInv'
  BY <1>1, <1>3, <1>5, <1>7, <1>8 DEF PreviewInv
<1>10. QueueInv'
  BY <1>1, <1>5, EmptySeq DEF QueueInv
<1>11. /\ previewTime' \in Times \cup {NoTime} /\ visited' \subseteq Times
       /\ previewVarip' \in Seq(Record) /\ torn' \in Times \cup {NoTime}
  BY <1>1, <1>2, <1>3, <1>7
<1>12. UNCHANGED <<settingVars, globals, cache, clockVars, replayVars, poisoned, queue,
                  saved, feed, interrupted>>
  BY <1>1, <1>3
<1> QED  BY <1>1, <1>4, <1>9, <1>10, <1>11, <1>12, OpenKeeps

\* An interrupted one does the same to the cells, but not to the clock.
LEMMA OnBarUpdatedInterruptedKeeps ==
    ASSUME IInv, NEW t \in Times, OnBarUpdatedInterrupted(t)
    PROVE  IInv'
<1> DEFINE r == [time |-> t, isnew |-> IsNew(t)]
           before == AdoptedVarip(t)
<1>1. /\ Healthy /\ queue = << >> /\ t > lastClosed /\ t >= previewTime /\ ctx' = OpenContext
      /\ previewVarip' \in {before, Append(before, r)}
      /\ previewTime' = previewTime /\ torn' = (IF IsNew(t) THEN t ELSE torn)
      /\ visited' = visited
      /\ UNCHANGED <<settingVars, globals, cache, clockVars, replayVars, poisoned, queue,
                     saved, feed, interrupted>>
  BY DEF OnBarUpdatedInterrupted, Admissible, Idle, hostVars
<1>2. /\ TypeOK /\ PreviewInv /\ visited \subseteq Times /\ torn \in Times \cup {NoTime}
      /\ previewTime \in Times \cup {NoTime}
  BY DEF IInv, TypeOK
<1>3. lastClosed' = lastClosed /\ queue' = queue /\ poisoned' = poisoned
  BY <1>1 DEF clockVars
<1>4. /\ IsNew(t) \in BOOLEAN /\ before \in Seq(Record)
      /\ IsNew(t) => before = << >>
      /\ ~IsNew(t) => previewTime = t /\ Intrabar(t, before, torn)
  BY <1>1, AdoptedCells
<1> HIDE DEF before
<1>5. previewVarip' \in Seq(Record) /\ Intrabar(previewTime, previewVarip', torn')
  <2>1. CASE ~IsNew(t)
    <3>1. Append(before, r) \in Seq(Record) /\ Intrabar(t, Append(before, r), torn)
      BY <1>4, <2>1, OneMoreCell
    <3> QED  BY <1>1, <1>4, <2>1, <3>1
  <2>2. CASE IsNew(t)
    <3>1. torn' = t /\ t # NoTime /\ t > previewTime
      <4>1. t \in Int /\ previewTime \in Int /\ t # NoTime
        BY <1>2, ConstantsAssumption DEF Times, NoTime
      <4> QED  BY <1>1, <2>2, <4>1 DEF IsNew
    <3>2. previewVarip' \in {<< >>, Append(<< >>, r)} /\ r \in Record
      BY <1>1, <1>4, <2>2 DEF Record
    <3>3. r.time = t /\ r.isnew = TRUE
      BY <1>4, <2>2
    <3> HIDE DEF r
    <3>4. << >> \in Seq(Record) /\ DOMAIN << >> = {} /\ Len(<< >>) = 0
      BY EmptySeq
    <3>5. /\ Append(<< >>, r) \in Seq(Record) /\ Len(Append(<< >>, r)) = 1
          /\ Append(<< >>, r)[1] = r
      BY <3>2, <3>4, AppendProperties
    <3>6. DOMAIN Append(<< >>, r) = 1 .. 1
      BY <3>5, LenProperties
    <3>7. Intrabar(previewTime, << >>, t)
      BY <3>1, <3>4 DEF Intrabar
    <3>8. Intrabar(previewTime, Append(<< >>, r), t)
      BY <3>1, <3>3, <3>5, <3>6 DEF Intrabar
    <3> QED  BY <3>1, <3>2, <3>4, <3>5, <3>7, <3>8
  <2> QED  BY <1>4, <2>1, <2>2
<1>6. PreviewInv'
  BY <1>1, <1>2, <1>3, <1>5 DEF PreviewInv, Healthy
<1>7. QueueInv'
  BY <1>1, <1>3, EmptySeq DEF QueueInv
<1>8. torn' \in Times \cup {NoTime}
  BY <1>1, <1>2
<1> QED  BY <1>1, <1>2, <1>5, <1>6, <1>7, <1>8, OpenKeeps

-----------------------------------------------------------------------------
(* The invariant, and what follows from it.                                *)

LEMMA InitHolds == Init => IInv
<1> SUFFICES ASSUME Init PROVE IInv
  OBVIOUS
<1>1. /\ retention \in Retentions /\ budget \in Budgets /\ ctx = NoContext
      /\ globals = << >> /\ cache = << >> /\ lastClosed = NoTime /\ closedCount = 0
      /\ previewTime = NoTime /\ previewVarip = << >> /\ torn = NoTime /\ retained = << >>
      /\ recorded = << >> /\ seedCount = 0 /\ complete = TRUE /\ poisoned = FALSE
      /\ queue = << >> /\ saved = NoSnapshot /\ feed = << >> /\ visited = {}
      /\ interrupted = FALSE
  BY DEF Init
<1>2. << >> \in Seq(Record) /\ << >> \in Seq(Times) /\ Len(<< >>) = 0 /\ DOMAIN << >> = {}
      /\ << >> \in Seq(Call)
  BY EmptySeq
<1>3. retention \in Limits
  BY <1>1, ConstantsAssumption DEF Limits
<1>4. TimesOf(<< >>) = << >>
  <2>1. TimesOf(<< >>) \in Seq(Times) /\ Len(TimesOf(<< >>)) = 0
    BY <1>2, TimesOfProperties
  <2> QED  BY <2>1, EmptySeq
<1>5. Newest(TimesOf(<< >>), retention) = << >>
  BY <1>3, FreshContextTells DEF ContextTells, FreshContext
<1>6. Increasing(<< >>) /\ LastTime(<< >>) = NoTime
  BY <1>2 DEF Increasing, LastTime
<1>7. ClocksTell(<< >>, retention, NoTime, 0, << >>)
  BY <1>2, <1>4, <1>5, <1>6 DEF ClocksTell
<1>8. RecordingTells(<< >>, << >>, 0, TRUE)
  BY <1>2, <1>4 DEF RecordingTells
<1>9. ClocksTell(feed, retention, lastClosed, closedCount, retained)
  BY <1>1, <1>7
<1>10. RecordingTells(feed, recorded, seedCount, complete)
  BY <1>1, <1>8
<1>11. << >> \in Deque(Times, retention)
  <2>1. RetainedLength(0, retention) = 0
    BY <1>3 DEF RetainedLength, Limits
  <2> QED  BY <1>2, <2>1 DEF Deque
<1>12. TypeOK
  BY <1>1, <1>2, <1>11 DEF TypeOK, Call
<1>13. PlacesTell(feed, retention, ctx, <<globals, cache>>)
  BY <1>1 DEF PlacesTell
<1>14. UnusedInv /\ QueueInv /\ PreviewInv /\ SavedInv /\ (poisoned => ctx = NoContext)
  BY <1>1, <1>2, NoCells DEF UnusedInv, QueueInv, PreviewInv, SavedInv
<1> QED  BY <1>9, <1>10, <1>12, <1>13, <1>14 DEF IInv

LEMMA StutterKeeps == IInv /\ UNCHANGED vars => IInv'
<1> SUFFICES ASSUME IInv, UNCHANGED vars PROVE IInv'
  OBVIOUS
<1>1. /\ retention' = retention /\ budget' = budget /\ ctx' = ctx /\ globals' = globals
      /\ cache' = cache /\ lastClosed' = lastClosed /\ closedCount' = closedCount
      /\ retained' = retained /\ recorded' = recorded /\ seedCount' = seedCount
      /\ complete' = complete /\ previewTime' = previewTime /\ previewVarip' = previewVarip
      /\ torn' = torn /\ poisoned' = poisoned /\ queue' = queue /\ feed' = feed /\ saved' = saved
      /\ visited' = visited /\ interrupted' = interrupted
  BY DEF vars, settingVars, scriptVars, clockVars, replayVars, previewVars, hostVars
<1>2. TypeOK'
  BY <1>1 DEF IInv, TypeOK
<1>3. UnusedInv' /\ QueueInv' /\ PreviewInv' /\ SavedInv'
  BY <1>1 DEF IInv, UnusedInv, QueueInv, PreviewInv, SavedInv, Healthy
<1>4. (Healthy /\ ~interrupted => PlacesTell(feed, retention, ctx, <<globals, cache>>))'
  BY <1>1 DEF IInv, Healthy
<1>5. /\ ClocksTell(feed, retention, lastClosed, closedCount, retained)'
      /\ RecordingTells(feed, recorded, seedCount, complete)'
      /\ (poisoned => ctx = NoContext)'
  BY <1>1 DEF IInv
<1> QED  BY <1>2, <1>3, <1>4, <1>5 DEF IInv

LEMMA StepKeeps == IInv /\ [Next]_vars => IInv'
<1> SUFFICES ASSUME IInv, [Next]_vars PROVE IInv'
  OBVIOUS
<1>1. ASSUME NEW bars \in Histories, Seed(bars) PROVE IInv'
  <2>1. bars \in Seq(Times) /\ Increasing(bars)
    BY SeqDef DEF Histories
  <2> QED  BY <1>1, <2>1, SeedKeeps
<1>2. CASE InitFails
  <2>1. globals \in Seq(Record) /\ cache \in Seq(Record)
    BY DEF IInv, TypeOK
  <2> QED  BY <1>2, <2>1, PoisonKeeps DEF InitFails
<1>3. CASE SeedBar
  BY <1>3, SeedBarKeeps
<1>4. ASSUME queue # << >>
      PROVE  Head(queue).time \in Times /\ Healthy
  <2>1. queue \in Seq(Call)
    BY DEF IInv, TypeOK, Call
  <2>2. Head(queue) \in Call
    BY <1>4, <2>1, HeadTailProperties
  <2> QED  BY <1>4, <2>2 DEF Call, IInv, QueueInv
<1>5. CASE SeedBarFails
  BY <1>4, <1>5, BarFailsKeeps DEF SeedBarFails, Seeding, Idle
<1>6. CASE SeedBarInterrupted
  BY <1>4, <1>6, BarInterruptedKeeps DEF SeedBarInterrupted, Seeding, Idle
<1>7. CASE ReplayBar
  BY <1>7, ReplayBarKeeps
<1>8. \A t : IsNew(t) \in BOOLEAN
  BY DEF IsNew
<1>9. CASE ReplayBarFails
  BY <1>4, <1>8, <1>9, BarFailsKeeps DEF ReplayBarFails, Replaying, Idle
<1>10. ASSUME NEW t \in Times, OnBarClosed(t) PROVE IInv'
  BY <1>10, OnBarClosedKeeps
<1>11. ASSUME NEW t \in Times, OnBarClosedFails(t) PROVE IInv'
  BY <1>8, <1>11, BarFailsKeeps, BarInterruptedKeeps DEF OnBarClosedFails
<1>12. ASSUME NEW t \in Times, OnBarUpdated(t) PROVE IInv'
  BY <1>12, OnBarUpdatedKeeps
<1>21. ASSUME NEW t \in Times, OnBarUpdatedInterrupted(t) PROVE IInv'
  BY <1>21, OnBarUpdatedInterruptedKeeps
<1>13. ASSUME NEW t \in Times, OnBarUpdatedFails(t) PROVE IInv'
  <2>1. globals \in Seq(Record) /\ cache \in Seq(Record)
    BY DEF IInv, TypeOK
  <2> QED  BY <1>13, <2>1, PoisonKeeps DEF OnBarUpdatedFails
<1>14. CASE SnapshotResult
  BY <1>14, SnapshotResultKeeps
<1>15. CASE Checkpoint
  BY <1>15, CheckpointKeeps
<1>16. CASE Restore
  BY <1>16, RestoreKeeps
<1>17. ASSUME NEW b \in Budgets, RestoreReplay(b) PROVE IInv'
  BY <1>17, RestoreReplayKeeps
<1>18. ASSUME NEW b \in Budgets, NEW r \in Retentions, NewSession(r, b) PROVE IInv'
  BY <1>18, NewSessionKeeps
<1>19. CASE UNCHANGED vars
  BY <1>19, StutterKeeps
<1>20. \A t \in 1 .. (IF interrupted THEN MaxInterrupted ELSE MaxTime) : t \in Times
  BY ConstantsAssumption DEF Times
<1> QED  BY <1>1, <1>2, <1>3, <1>5, <1>6, <1>7, <1>9, <1>10, <1>11, <1>12, <1>13, <1>14,
            <1>15, <1>16, <1>17, <1>18, <1>19, <1>20, <1>21 DEF Next

LEMMA InvariantHolds == Spec => []IInv
BY InitHolds, StepKeeps, PTL DEF Spec

\* Type correctness: among it, that the retained times and the committed
\* history of a cell never exceed the retention, whatever it is.
THEOREM TypeCorrect == Spec => []TypeOK
<1>1. IInv => TypeOK
  BY DEF IInv
<1> QED  BY <1>1, InvariantHolds, PTL

\* The three places a script writes to, and the four bounded structures
\* beside them, describe the committed bars and nothing else.
THEOREM StateIsTheFeed == Spec => []CommittedStateIsTheFeed
<1>1. IInv => CommittedStateIsTheFeed
  <2> SUFFICES ASSUME IInv, Healthy, ~interrupted
               PROVE  /\ globals = feed /\ cache = feed /\ closedCount = Len(feed)
                      /\ retained = NewestOnes(TimesOf(feed))
                      /\ IF ctx = NoContext THEN feed = << >>
                         ELSE /\ ctx.state = feed
                              /\ ctx.requestBars = retained
                              /\ ctx.history = NewestOnes([i \in DOMAIN feed |-> i])
    BY DEF CommittedStateIsTheFeed
  <2>1. /\ ClocksTell(feed, retention, lastClosed, closedCount, retained)
        /\ PlacesTell(feed, retention, ctx, <<globals, cache>>)
        /\ TypeOK /\ UnusedInv /\ retention \in Limits
    BY LimitsHold DEF IInv
  <2>2. TimesOf(feed) \in Seq(Times) /\ Counting(feed) \in Seq(Nat)
    BY <2>1, TimesOfProperties, CountingType DEF TypeOK
  <2>3. /\ Newest(TimesOf(feed), retention) = NewestOnes(TimesOf(feed))
        /\ Newest(Counting(feed), retention) = NewestOnes(Counting(feed))
    BY <2>1, <2>2, NewestProperties DEF NewestOnes
  <2>4. /\ closedCount = Len(feed) /\ retained = Newest(TimesOf(feed), retention)
        /\ globals = feed /\ cache = feed
    BY <2>1 DEF ClocksTell, PlacesTell
  <2>5. CASE ctx = NoContext
    BY <2>1, <2>3, <2>4, <2>5 DEF UnusedInv
  <2>6. CASE ctx # NoContext
    <3>1. /\ ctx.state = feed /\ ctx.requestBars = Newest(TimesOf(feed), retention)
          /\ ctx.history = Newest(Counting(feed), retention)
      BY <2>1, <2>6 DEF PlacesTell, ContextTells
    <3> QED  BY <2>3, <2>4, <2>6, <3>1 DEF Counting
  <2> QED  BY <2>5, <2>6
<1> QED  BY <1>1, InvariantHolds, PTL

\* A complete recording is the feed, for every budget and every interrupt.
THEOREM RecordingIsComplete == Spec => []RecordingIsTheFeed
<1>1. IInv => RecordingIsTheFeed
  <2> SUFFICES ASSUME IInv
               PROVE  /\ recorded = IF complete THEN TimesOf(feed) ELSE << >>
                      /\ seedCount <= Len(recorded)
    BY DEF RecordingIsTheFeed
  <2>1. RecordingTells(feed, recorded, seedCount, complete) /\ feed \in Seq(Record)
    BY DEF IInv, TypeOK
  <2>2. Len(recorded) \in Nat
    BY <2>1, RecordingType, LenProperties
  <2> QED  BY <2>1, <2>2 DEF RecordingTells
<1> QED  BY <1>1, InvariantHolds, PTL

\* What validate_restore_shape demands of a checkpoint, a session's own have.
THEOREM CheckpointsRestore == Spec => []OwnCheckpointsRestore
<1>1. IInv => OwnCheckpointsRestore
  <2> SUFFICES ASSUME IInv, Healthy, ~interrupted, NEW kind \in {"local", "state"}
               PROVE  Valid(Captured(kind))
    BY DEF OwnCheckpointsRestore
  <2> DEFINE s == Captured(kind)
             T == TimesOf(feed)
  <2>1. /\ s.retention = retention /\ s.ctx = ctx /\ s.lastClosed = lastClosed
        /\ s.closedCount = closedCount /\ s.retained = retained
        /\ s.recorded = IF kind = "local" THEN recorded ELSE << >>
        /\ s.seedCount = IF kind = "local" THEN seedCount ELSE 0
        /\ s.complete = (kind = "local" /\ complete)
    BY DEF Captured
  <2> HIDE DEF s
  <2>2. /\ ClocksTell(feed, retention, lastClosed, closedCount, retained)
        /\ RecordingTells(feed, recorded, seedCount, complete)
        /\ PlacesTell(feed, retention, ctx, <<globals, cache>>)
        /\ TypeOK /\ UnusedInv /\ retention \in Limits
    BY LimitsHold DEF IInv
  <2>3. /\ feed \in Seq(Record) /\ Increasing(T) /\ lastClosed = LastTime(feed)
        /\ closedCount = Len(feed) /\ retained = Newest(T, retention)
    BY <2>2 DEF ClocksTell
  <2>4. /\ T \in Seq(Times) /\ Len(T) = Len(feed) /\ Len(feed) \in Nat /\ DOMAIN T = 1 .. Len(feed)
        /\ \A i \in 1 .. Len(feed) : T[i] = feed[i].time /\ feed[i].time \in Times
    BY <2>3, TimesOfProperties
  <2> DEFINE n == Len(feed)
             k == RetainedLength(n, retention)
  <2> HIDE DEF T
  <2>5. /\ retained \in Seq(Times) /\ Len(retained) = k /\ k \in 0 .. n
        /\ \A i \in 1 .. k : retained[i] = T[i + n - k]
    <3>1. /\ retained \in Seq(Times) /\ Len(retained) = RetainedLength(Len(T), retention)
          /\ RetainedLength(Len(T), retention) \in 0 .. Len(T)
          /\ \A i \in 1 .. Len(retained) : retained[i] = T[i + Len(T) - RetainedLength(Len(T), retention)]
      BY <2>2, <2>3, <2>4, NewestProperties
    <3> QED  BY <2>4, <3>1
  <2>6. n > 0 => k > 0
    BY <2>2, <2>4, ConstantsAssumption DEF RetainedLength, Limits
  <2> HIDE DEF k
  <2>7. DOMAIN retained = 1 .. k /\ (k > 0 <=> retained # << >>)
    BY <2>5, LenProperties, EmptySeq
  <2>8. Increasing(retained)
    <3> SUFFICES ASSUME NEW i \in 1 .. k, NEW j \in 1 .. k, i < j
                 PROVE  retained[i] < retained[j]
      BY <2>7 DEF Increasing
    <3>1. i + n - k \in 1 .. n /\ j + n - k \in 1 .. n /\ i + n - k < j + n - k
      BY <2>4, <2>5
    <3>2. T[i + n - k] < T[j + n - k]
      BY <2>3, <2>4, <3>1 DEF Increasing
    <3> QED  BY <2>5, <3>2
  <2>9. closedCount = 0 => retained = << >> /\ lastClosed = NoTime
    <3> SUFFICES ASSUME closedCount = 0 PROVE retained = << >> /\ lastClosed = NoTime
      OBVIOUS
    <3>1. feed = << >> /\ k = 0
      BY <2>3, <2>5, EmptySeq
    <3> QED  BY <2>3, <2>7, <3>1 DEF LastTime
  <2>10. closedCount # 0 => /\ retained # << >> /\ retained[Len(retained)] = lastClosed
                            /\ lastClosed # NoTime
    <3> SUFFICES ASSUME closedCount # 0
                 PROVE  /\ retained # << >> /\ retained[Len(retained)] = lastClosed
                        /\ lastClosed # NoTime
      OBVIOUS
    <3>1. n > 0 /\ k > 0 /\ n \in 1 .. n
      BY <2>3, <2>4, <2>6
    <3>2. feed # << >>
      BY <3>1, EmptySeq
    <3>3. lastClosed = T[n]
      BY <2>3, <2>4, <3>1, <3>2 DEF LastTime
    <3>4. k \in 1 .. k /\ k + n - k = n
      BY <2>4, <2>5, <3>1
    <3>5. retained[k] = T[n]
      BY <2>5, <3>4
    <3>6. T[n] \in Times
      BY <2>4, <3>1
    <3> QED  BY <2>5, <2>7, <3>1, <3>3, <3>5, <3>6, ConstantsAssumption DEF Times, NoTime
  <2>11. ctx = NoContext => closedCount = 0
    BY <2>2, <2>3, EmptySeq DEF UnusedInv
  <2>12. ctx # NoContext => ctx.barIndex = closedCount - 1 /\ ctx.barTime = lastClosed
    BY <2>2, <2>3 DEF PlacesTell, ContextTells
  <2>13. /\ s.seedCount \in 0 .. Len(s.recorded)
         /\ s.complete => Len(s.recorded) = s.closedCount
         /\ ~s.complete => s.recorded = << >> /\ s.seedCount = 0
    <3>1. /\ recorded = IF complete THEN T ELSE << >>
          /\ seedCount \in 0 .. Len(recorded) /\ complete \in BOOLEAN
      BY <2>2 DEF RecordingTells, T
    <3>2. Len(<< >>) = 0
      BY EmptySeq
    <3>3. CASE kind = "local" /\ complete
      BY <2>1, <2>3, <2>4, <3>1, <3>3
    <3>4. CASE kind = "local" /\ ~complete
      <4>1. s.recorded = << >> /\ s.seedCount \in 0 .. 0 /\ ~s.complete
        BY <2>1, <3>1, <3>2, <3>4
      <4> QED  BY <3>2, <4>1
    <3>5. CASE kind # "local"
      <4>1. s.recorded = << >> /\ s.seedCount = 0 /\ ~s.complete
        BY <2>1, <3>5
      <4> QED  BY <3>2, <4>1
    <3> QED  BY <3>3, <3>4, <3>5
  <2>14. Len(s.retained) = RetainedLength(s.closedCount, s.retention)
    BY <2>1, <2>3, <2>5 DEF k
  <2>15. s.closedCount = 0 <=> s.lastClosed = NoTime
    BY <2>1, <2>9, <2>10
  <2>16. IF s.closedCount = 0 THEN s.retained = << >>
         ELSE s.retained # << >> /\ s.retained[Len(s.retained)] = s.lastClosed
    BY <2>1, <2>9, <2>10
  <2>17. /\ Increasing(s.retained)
         /\ s.ctx = NoContext => s.closedCount = 0
         /\ s.ctx # NoContext => /\ s.ctx.barIndex = s.closedCount - 1
                                 /\ s.ctx.barTime = s.lastClosed
    BY <2>1, <2>8, <2>11, <2>12
  <2>18. Valid(s)
    BY <2>13, <2>14, <2>15, <2>16, <2>17, Zenon DEF Valid
  <2> QED  BY <2>18 DEF s
<1> QED  BY <1>1, InvariantHolds, PTL

\* Intrabar cells hold what previews of the open bar wrote, and a confirmed
\* callback finds none of it, for every mixture of calls; what an interrupted
\* preview leaves among them is one record of its own bar.
THEOREM PreviewsStayIntrabar == Spec => []PreviewIsIntrabar
<1>1. IInv => PreviewIsIntrabar
  <2> SUFFICES ASSUME IInv PROVE PreviewIsIntrabar
    OBVIOUS
  <2>1. PreviewInv
    BY DEF IInv
  <2>2. ASSUME ctx # NoContext, ~interrupted
        PROVE  /\ Len(ctx.varip) <= 1
               /\ \A i \in DOMAIN ctx.varip : ctx.varip[i].time = lastClosed
    <3>1. PlacesTell(feed, retention, ctx, <<globals, cache>>)
      BY <2>2 DEF IInv, Healthy
    <3>2. lastClosed = LastTime(feed)
      BY DEF IInv, ClocksTell
    <3> QED  BY <2>2, <3>1, <3>2 DEF PlacesTell, ContextTells
  <2> QED  BY <2>1, <2>2 DEF PreviewInv, Intrabar, PreviewIsIntrabar
<1> QED  BY <1>1, InvariantHolds, PTL

\* barstate.isnew of a close is true exactly when the bar was not previewed.
THEOREM NewBarsAreNew == Spec => IsNewIsTrue
<1> DEFINE Step == /\ \A t \in Times : OnBarClosed(t) => (LastIsNew <=> t \notin visited)
                   /\ SeedBar \/ ReplayBar => LastIsNew
<1>1. IInv /\ [Next]_vars => [Step]_vars
  <2> SUFFICES ASSUME IInv PROVE Step
    OBVIOUS
  <2>1. ASSUME NEW t \in Times, t > lastClosed, NEW isnew \in BOOLEAN, CommitBar(t, isnew)
        PROVE  LastIsNew <=> isnew
    <3> DEFINE r == [time |-> t, isnew |-> isnew]
    <3>1. feed' = Append(feed, r) /\ feed \in Seq(Record) /\ r \in Record
      BY <2>1, CommitKeeps DEF IInv, TypeOK, Record
    <3>2. r.isnew = isnew
      OBVIOUS
    <3> HIDE DEF r
    <3>3. feed'[Len(feed')] = r
      BY <3>1, AppendProperties
    <3> QED  BY <3>2, <3>3 DEF LastIsNew
  <2>2. ASSUME NEW t \in Times, OnBarClosed(t)
        PROVE  LastIsNew <=> t \notin visited
    <3>1. /\ Healthy /\ t > lastClosed /\ t >= previewTime /\ CommitBar(t, IsNew(t))
          /\ IsNew(t) \in BOOLEAN
      BY <2>2 DEF OnBarClosed, Admissible, CloseBar, IsNew
    <3>2. LastIsNew <=> IsNew(t)
      BY <2>1, <3>1
    <3>3. /\ \A v \in visited : v <= lastClosed \/ v <= previewTime
          /\ previewTime # NoTime => previewTime \in visited
      BY <3>1 DEF IInv, PreviewInv
    <3>4. /\ visited \subseteq Int /\ t \in Int /\ previewTime \in Int /\ lastClosed \in Int
          /\ t # NoTime
      BY ConstantsAssumption DEF IInv, TypeOK, Times, NoTime
    <3>5. t \in visited => previewTime = t
      BY <3>1, <3>3, <3>4
    <3> QED  BY <3>2, <3>3, <3>4, <3>5 DEF IsNew
  <2>3. ASSUME SeedBar \/ ReplayBar
        PROVE  LastIsNew
    <3> DEFINE t == Head(queue).time
    <3>1. queue # << >> /\ queue \in Seq(Call)
      BY <2>3 DEF SeedBar, Seeding, ReplayBar, Replaying, Idle, IInv, TypeOK, Call
    <3>2. t \in Times /\ t > lastClosed /\ previewTime = NoTime
      <4>1. Head(queue) \in Call /\ Head(queue) = queue[1] /\ 1 \in DOMAIN queue
        BY <3>1, HeadTailProperties, EmptySeq, LenProperties
      <4> QED  BY <3>1, <4>1 DEF Call, IInv, QueueInv
    <3>3. IsNew(t)
      BY <3>2, ConstantsAssumption DEF IsNew, Times, NoTime
    <3>4. CommitBar(t, TRUE) \/ CommitBar(t, IsNew(t))
      BY <2>3 DEF SeedBar, ReplayBar, CloseBar
    <3> HIDE DEF t
    <3>5. IsNew(t) = TRUE
      BY <3>3 DEF IsNew
    <3> QED  BY <2>1, <3>2, <3>4, <3>5
  <2> QED  BY <2>2, <2>3
<1> QED  BY <1>1, InvariantHolds, PTL DEF Spec, IsNewIsTrue

=============================================================================
