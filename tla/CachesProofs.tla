---------------------------- MODULE CachesProofs ----------------------------
(***************************************************************************)
(* The caches of a callback.  Of the range cache alone: whatever a script  *)
(* requests, it gets the rows its provider has now, and what is kept for it *)
(* stays within the limits.  What this and PyneCacheProofs say of each     *)
(* cache alone holds of the two side by side: Proofs is the same instance  *)
(* of the script cache as Script, with its theorems.                       *)
(***************************************************************************)
EXTENDS Caches, FiniteSetTheorems, NaturalsInduction, WellFoundedInduction, TLAPS

Proofs == INSTANCE PyneCacheProofs WITH Keys <- Names, clock <- time

-----------------------------------------------------------------------------
(* The range cache alone.                                                  *)

\* The promise under which k is kept has not been withdrawn.
Stands(k) == final[k] # NoPromise /\ ~Lower(word[k], final[k])

\* What is kept under a standing promise is what the provider has, and has ended.
KeptIsTrue(k) ==
    /\ \A t \in DOMAIN bars[k] :
        /\ t <= final[k] /\ bars[k][t] = rows[k][t]
        /\ rows[k][t] # NoRow /\ Ended(rows[k][t], t, clock)
    /\ \A t \in covered[k] :
        /\ t <= final[k] /\ Ended(NoRow, t, clock)
        /\ t \in DOMAIN bars[k] \/ rows[k][t] = NoRow

Sound(k) ==
    /\ final[k] = NoPromise => DOMAIN bars[k] = {} /\ covered[k] = {}
    /\ final[k] # NoPromise /\ Lower(word[k], final[k]) => owed[k]
    /\ Stands(k) => KeptIsTrue(k)

CacheInv == TypeOK /\ \A k \in Keys : Sound(k)
-----------------------------------------------------------------------------
(* The order of watermarks.                                                *)

\* The values a watermark takes when it is read are ordered by Lower.
LEMMA LowerIsOrder ==
    ASSUME NEW k \in Keys, NEW u \in Words(k), NEW v \in Words(k), NEW w \in Words(k)
    PROVE  /\ ~Lower(u, u)
           /\ Lower(u, v) /\ Lower(v, w) => Lower(u, w)
           /\ ~Lower(v, u) /\ Lower(v, w) => Lower(u, w)
           /\ ~Lower(v, w) /\ Lower(u, w) => Lower(u, v)
    <1>1. \A z \in {u, v, w} : z \in Int \/ z = NoPromise \/ z = Invalid
        BY ConstantsAssumption DEF Words
    <1>2. NoPromise \notin Int /\ Invalid \notin Int /\ Invalid # NoPromise
        BY ConstantsAssumption
    <1> QED BY <1>1, <1>2 DEF Lower

LEMMA TypeInit == Init => TypeOK
    <1> SUFFICES ASSUME Init PROVE TypeOK OBVIOUS
    <1>1. \A k \in Keys : rows[k] \in [Coordinates[k] -> Row \cup {NoRow}]
        <2> TAKE k \in Keys
        <2>1. rows[k] \in UNION {[Coordinates[j] -> Row \cup {NoRow}] : j \in Keys}
            BY DEF Init
        <2>2. PICK j \in Keys : rows[k] \in [Coordinates[j] -> Row \cup {NoRow}]
            BY <2>1
        <2>3. DOMAIN rows[k] = Coordinates[k]
            BY DEF Init
        <2> QED BY <2>2, <2>3
    <1>2. \A k \in Keys : bars[k] \in [{} -> Row]
        BY DEF Init, None
    <1> QED BY <1>1, <1>2 DEF Init, TypeOK

-----------------------------------------------------------------------------
(* What one read keeps.                                                    *)

\* Rows b and instants c may be kept for k under the promise f.
MayKeep(k, b, c, f) ==
    /\ \E kept \in SUBSET Coordinates[k] : b \in [kept -> Row]
    /\ c \subseteq Coordinates[k]
    /\ f \in Watermarks[k] \cup {NoPromise}
    /\ f = NoPromise => DOMAIN b = {} /\ c = {}
    /\ f # NoPromise => ~Lower(word[k], f)
    /\ \A t \in DOMAIN b : /\ t <= f /\ b[t] = rows[k][t]
                           /\ rows[k][t] # NoRow /\ Ended(rows[k][t], t, clock)
    /\ \A t \in c : /\ t <= f /\ Ended(NoRow, t, clock)
                    /\ t \in DOMAIN b \/ rows[k][t] = NoRow

\* What a dropped context keeps is no risk.
LEMMA NothingMayBeKept ==
    ASSUME NEW k \in Keys
    PROVE  MayKeep(k, None, {}, NoPromise)
    <1>1. DOMAIN None = {} /\ None \in [{} -> Row]
        BY DEF None
    <1>2. \E kept \in SUBSET Coordinates[k] : None \in [kept -> Row]
        <2>1. {} \in SUBSET Coordinates[k] OBVIOUS
        <2> QED BY <1>1, <2>1
    <1> QED BY <1>1, <1>2 DEF MayKeep

\* A read does not drop what it keeps only under a promise that stands, or
\* when nothing is kept.
LEMMA KeptStands ==
    ASSUME CacheInv, NEW k \in Keys, ~Dropped(k)
    PROVE  \/ final[k] = NoPromise /\ word[k] = NoPromise
           \/ Stands(k) /\ word[k] \in Watermarks[k] /\ final[k] <= word[k]
    <1>1. word[k] \in Words(k) /\ final[k] \in Watermarks[k] \cup {NoPromise}
        BY DEF CacheInv, TypeOK
    <1>2. Watermarks[k] \subseteq Int /\ NoPromise \notin Int /\ Invalid \notin Int
        BY ConstantsAssumption
    <1> QED BY <1>1, <1>2 DEF Dropped, Stands, Lower, Words

\* What is still kept when a read has asked for the watermark.
LEMMA KeptIsSound ==
    ASSUME CacheInv, NEW k \in Keys
    PROVE  /\ \A t \in DOMAIN Kept(k) :
                /\ word[k] \in Watermarks[k] /\ t <= final[k] /\ t <= word[k]
                /\ t \in Coordinates[k] /\ Kept(k)[t] \in Row
                /\ Kept(k)[t] = rows[k][t] /\ rows[k][t] # NoRow
                /\ Ended(rows[k][t], t, clock)
           /\ \A t \in Coverage(k) :
                /\ word[k] \in Watermarks[k] /\ t <= final[k] /\ t <= word[k]
                /\ t \in Coordinates[k] /\ Ended(NoRow, t, clock)
                /\ t \in DOMAIN Kept(k) \/ rows[k][t] = NoRow
    <1>1. CASE Dropped(k)
        BY <1>1 DEF Kept, Coverage, None
    <1>2. CASE ~Dropped(k)
        <2>1. Kept(k) = bars[k] /\ Coverage(k) = covered[k]
            BY <1>2 DEF Kept, Coverage
        <2>2. CASE final[k] = NoPromise
            BY <2>1, <2>2 DEF CacheInv, Sound
        <2>3. CASE final[k] # NoPromise
            <3>1. /\ Stands(k) /\ word[k] \in Watermarks[k] /\ final[k] <= word[k]
                  /\ final[k] \in Watermarks[k]
                BY <1>2, <2>3, KeptStands DEF CacheInv, TypeOK
            <3>2. KeptIsTrue(k)
                BY <3>1 DEF CacheInv, Sound
            <3>3. PICK kept \in SUBSET Coordinates[k] : bars[k] \in [kept -> Row]
                BY DEF CacheInv, TypeOK
            <3>4. covered[k] \subseteq Coordinates[k]
                BY DEF CacheInv, TypeOK
            <3>5. Coordinates[k] \subseteq Int /\ Watermarks[k] \subseteq Int
                BY ConstantsAssumption
            <3>6. \A t \in Coordinates[k] : t <= final[k] => t <= word[k]
                BY <3>1, <3>5
            <3> QED BY <2>1, <3>1, <3>2, <3>3, <3>4, <3>6 DEF KeptIsTrue
        <2> QED BY <2>2, <2>3
    <1> QED BY <1>1, <1>2

\* What a read leaves for k, whatever the limits say of it.
LEMMA ReadIsSound ==
    ASSUME CacheInv, NEW k \in Keys, NEW s \in Int, NEW span \in SUBSET Coordinates[k],
           \A t \in span : s <= t,
           NEW b, b = BarsAfter(k, span),
           NEW c, c = CoveredAfter(k, s, span),
           NEW f, f = FinalAfter(k, b, c)
    PROVE  MayKeep(k, b, c, f)
    <1> DEFINE fresh == Durable(k, span)
               gaps == NewlyCovered(k, s, span)
    <1>1. /\ DOMAIN b = DOMAIN Kept(k) \cup fresh
          /\ \A t \in DOMAIN Kept(k) : b[t] = Kept(k)[t]
          /\ \A t \in fresh : b[t] = rows[k][t]
        BY DEF BarsAfter, Durable
    <1>2. c = Coverage(k) \cup gaps
        BY DEF CoveredAfter
    <1>3. /\ word[k] \in Words(k) /\ final[k] \in Watermarks[k] \cup {NoPromise}
          /\ rows[k] \in [Coordinates[k] -> Row \cup {NoRow}]
        BY DEF CacheInv, TypeOK
    <1>4. Watermarks[k] \subseteq Int /\ Coordinates[k] \subseteq Int
          /\ NoPromise \notin Int /\ Invalid \notin Int
        BY ConstantsAssumption
    <1>5. \A t \in fresh : /\ t \in Coordinates[k] /\ rows[k][t] # NoRow
                           /\ Promised(k, t) /\ Ended(rows[k][t], t, clock)
        BY DEF Durable
    <1>6. \A t \in gaps : /\ t \in span /\ t \in Coordinates[k] /\ Promised(k, t)
                          /\ Ended(NoRow, t, clock) /\ ~Open(k, t)
        <2> TAKE t \in gaps
        <2>1. t \in span /\ t \in Coordinates[k] /\ Promised(k, t) /\ t <= HistoryEnd(s)
            BY DEF NewlyCovered
        <2>2. ~Open(k, t)
            <3>1. t <= t BY <2>1, <1>4
            <3> QED BY <2>1, <3>1 DEF NewlyCovered
        <2>3. Step # NoStep /\ t + Step <= clock
            <3>1. t \in Int /\ clock \in Int
                BY <2>1, <1>4, ConstantsAssumption DEF CacheInv, TypeOK
            <3>2. Step # NoStep
                <4> SUFFICES ASSUME Step = NoStep PROVE FALSE OBVIOUS
                <4>1. t <= s - 1 BY <2>1 DEF HistoryEnd
                <4> QED BY <2>1, <3>1, <4>1
            <3>3. Step \in Int /\ t <= clock - Step
                BY <2>1, <3>2, ConstantsAssumption DEF HistoryEnd
            <3> QED BY <3>1, <3>2, <3>3
        <2> QED BY <2>1, <2>2, <2>3 DEF Ended
    <1>7. \A t \in fresh : rows[k][t] \in Row
        BY <1>3, <1>5
    <1>8. /\ DOMAIN b \subseteq Coordinates[k] /\ c \subseteq Coordinates[k]
          /\ \A t \in DOMAIN b : b[t] \in Row
        BY <1>1, <1>2, <1>5, <1>6, <1>7, KeptIsSound
    <1>9. b \in [DOMAIN b -> Row]
        BY <1>8 DEF BarsAfter
    <1>10. \A t \in DOMAIN b \cup c : word[k] \in Watermarks[k] /\ t <= word[k]
                                     /\ Promised(k, word[k])
        <2>1. \A t \in fresh \cup gaps : Promised(k, t)
            BY <1>5, <1>6
        <2>2. \A t \in fresh \cup gaps : word[k] \in Watermarks[k] /\ t <= word[k]
                                         /\ Promised(k, word[k])
            BY <2>1, <1>4 DEF Promised
        <2>3. \A t \in DOMAIN Kept(k) \cup Coverage(k) :
                /\ word[k] \in Watermarks[k] /\ t <= word[k] /\ ~Dropped(k) /\ final[k] # NoPromise
            <3>1. Dropped(k) => DOMAIN Kept(k) = {} /\ Coverage(k) = {}
                BY DEF Kept, Coverage, None
            <3>2. ~Dropped(k) => Kept(k) = bars[k] /\ Coverage(k) = covered[k]
                BY DEF Kept, Coverage
            <3>3. final[k] = NoPromise => DOMAIN bars[k] = {} /\ covered[k] = {}
                BY DEF CacheInv, Sound
            <3> QED BY <3>1, <3>2, <3>3, KeptIsSound
        <2>4. (word[k] \in Watermarks[k] /\ ~Dropped(k)) => Promised(k, word[k])
            BY <1>4 DEF Promised, Dropped
        <2> QED BY <1>1, <1>2, <2>2, <2>3, <2>4
    <1>11. f \in Watermarks[k] \cup {NoPromise}
        BY <1>3 DEF FinalAfter, Standing
    <1>12. DOMAIN b \cup c # {} => f = word[k] /\ word[k] \in Watermarks[k]
        BY <1>10 DEF FinalAfter
    <1>13. f = NoPromise => DOMAIN b = {} /\ c = {}
        BY <1>12, <1>4
    <1>14. f # NoPromise => ~Lower(word[k], f)
        <2> SUFFICES ASSUME f # NoPromise PROVE ~Lower(word[k], f) OBVIOUS
        <2>1. CASE f = word[k]
            BY <2>1, <1>3, LowerIsOrder
        <2>2. CASE f # word[k]
            <3>1. f = final[k] /\ ~Dropped(k)
                BY <2>2 DEF FinalAfter, Standing
            <3> QED BY <3>1 DEF Dropped
        <2> QED BY <2>1, <2>2
    <1>15. \A t \in DOMAIN b : /\ b[t] = rows[k][t]
                               /\ rows[k][t] # NoRow /\ Ended(rows[k][t], t, clock)
        BY <1>1, <1>5, KeptIsSound
    <1>16. \A t \in c : Ended(NoRow, t, clock)
        BY <1>2, <1>6, KeptIsSound
    <1>17. \A t \in c : t \in DOMAIN b \/ rows[k][t] = NoRow
        <2>1. ASSUME NEW t \in Coverage(k) PROVE t \in DOMAIN b \/ rows[k][t] = NoRow
            BY <1>1, KeptIsSound
        <2>2. ASSUME NEW t \in gaps, rows[k][t] # NoRow, t \notin DOMAIN Kept(k)
              PROVE  t \in fresh
            BY <2>2, <1>6 DEF Open, Durable
        <2> QED BY <1>1, <1>2, <2>1, <2>2
    <1> QED BY <1>8, <1>9, <1>10, <1>11, <1>12, <1>13, <1>14, <1>15, <1>16, <1>17 DEF MayKeep

-----------------------------------------------------------------------------
(* The steps.                                                              *)

\* A context that a step leaves alone stays sound.
LEMMA OthersStaySound ==
    ASSUME CacheInv, NEW j \in Keys, clock' = clock,
           bars'[j] = bars[j], covered'[j] = covered[j], final'[j] = final[j],
           rows'[j] = rows[j], word'[j] = word[j], owed'[j] = owed[j]
    PROVE  Sound(j)'
    BY DEF CacheInv, Sound, Stands, KeptIsTrue, Ended

LEMMA CallbackKeepsInv ==
    ASSUME CacheInv, NEW now \in Clocks, Callback(now)
    PROVE  CacheInv'
    <1>1. TypeOK'
        <2>1. CASE Forgets(now)
            <3>1. \A k \in Keys : bars'[k] \in [{} -> Row] /\ covered'[k] = {} /\ final'[k] = NoPromise
                <4>1. /\ bars' = [k \in Keys |-> None] /\ covered' = [k \in Keys |-> {}]
                      /\ final' = [k \in Keys |-> NoPromise]
                    BY <2>1 DEF Callback
                <4>2. None \in [{} -> Row]
                    BY DEF None
                <4> QED BY <4>1, <4>2
            <3>2. \A k \in Keys : \E kept \in SUBSET Coordinates[k] : bars'[k] \in [kept -> Row]
                BY <3>1
            <3>3. DOMAIN bars' = Keys /\ DOMAIN covered' = Keys /\ DOMAIN final' = Keys
                BY <2>1 DEF Callback
            <3>4. clock' \in Clocks /\ rows' = rows /\ word' = word /\ owed' = owed
                BY DEF Callback, provider
            <3> QED BY <3>1, <3>2, <3>3, <3>4 DEF CacheInv, TypeOK
        <2>2. CASE ~Forgets(now)
            BY <2>2 DEF Callback, CacheInv, TypeOK, provider, cache
        <2> QED BY <2>1, <2>2
    <1>2. ASSUME NEW k \in Keys PROVE Sound(k)'
        <2>1. CASE Forgets(now)
            BY <2>1 DEF Callback, Sound, Stands, None
        <2>2. CASE ~Forgets(now)
            <3>1. now \in Int /\ clock \in Int /\ clock <= now
                BY <2>2, ConstantsAssumption DEF Forgets, CacheInv, TypeOK
            <3>2. \A row \in Row \cup {NoRow}, t \in Int : Ended(row, t, clock) => Ended(row, t, now)
                <4>1. \A row \in Row : row.close # NoClose => row.close \in Int
                    BY ConstantsAssumption DEF Row
                <4>2. Step # NoStep => Step \in Int
                    BY ConstantsAssumption
                <4> QED BY <3>1, <4>1, <4>2 DEF Ended
            <3>3. /\ \A t \in DOMAIN bars[k] : t \in Int /\ rows[k][t] \in Row \cup {NoRow}
                  /\ \A t \in covered[k] : t \in Int
                <4>1. Coordinates[k] \subseteq Int /\ covered[k] \subseteq Coordinates[k]
                    BY ConstantsAssumption DEF CacheInv, TypeOK
                <4>2. PICK kept \in SUBSET Coordinates[k] : bars[k] \in [kept -> Row]
                    BY DEF CacheInv, TypeOK
                <4>3. DOMAIN bars[k] \subseteq Coordinates[k]
                    BY <4>2
                <4>4. rows[k] \in [Coordinates[k] -> Row \cup {NoRow}]
                    BY DEF CacheInv, TypeOK
                <4> QED BY <4>1, <4>3, <4>4
            <3>4. /\ clock' = now /\ bars' = bars /\ covered' = covered /\ final' = final
                  /\ rows' = rows /\ word' = word /\ owed' = owed
                BY <2>2 DEF Callback, cache, provider
            <3> QED BY <3>2, <3>3, <3>4 DEF CacheInv, Sound, Stands, KeptIsTrue
        <2> QED BY <2>1, <2>2
    <1> QED BY <1>1, <1>2 DEF CacheInv

\* Both ends of a read keep the types of what belongs to k, and soundness
\* needs a look at k only.
LEMMA KeepKeepsInv ==
    ASSUME CacheInv, NEW k \in Keys, NEW b, NEW c, NEW f, Keep(k, b, c, f),
           owed' = [owed EXCEPT ![k] = FALSE], UNCHANGED <<clock, rows, word>>,
           MayKeep(k, b, c, f)
    PROVE  CacheInv'
    <1>1. /\ bars'[k] = b /\ covered'[k] = c /\ final'[k] = f
          /\ \A j \in Keys \ {k} :
                /\ bars'[j] = bars[j] /\ covered'[j] = covered[j]
                /\ final'[j] = final[j] /\ owed'[j] = owed[j]
        BY DEF Keep, CacheInv, TypeOK
    <1>2. clock' = clock /\ rows' = rows /\ word' = word
        OBVIOUS
    <1>3. TypeOK'
        <2>1. /\ DOMAIN bars' = Keys /\ DOMAIN covered' = Keys /\ DOMAIN final' = Keys
              /\ owed' \in [Keys -> BOOLEAN]
            BY DEF Keep, CacheInv, TypeOK
        <2>2. \A j \in Keys : \E kept \in SUBSET Coordinates[j] : bars'[j] \in [kept -> Row]
            BY <1>1 DEF CacheInv, TypeOK, MayKeep
        <2>3. \A j \in Keys : covered'[j] \subseteq Coordinates[j]
            BY <1>1 DEF CacheInv, TypeOK, MayKeep
        <2>4. \A j \in Keys : final'[j] \in Watermarks[j] \cup {NoPromise}
            BY <1>1 DEF CacheInv, TypeOK, MayKeep
        <2> QED BY <1>2, <2>1, <2>2, <2>3, <2>4 DEF CacheInv, TypeOK
    <1>4. Sound(k)'
        BY <1>1, <1>2 DEF Sound, Stands, KeptIsTrue, MayKeep
    <1>5. ASSUME NEW j \in Keys \ {k} PROVE Sound(j)'
        BY <1>1, <1>2, <1>5, OthersStaySound
    <1> QED BY <1>3, <1>4, <1>5 DEF CacheInv

\* A span starts no earlier than the request.
LEMMA SpanIsInside ==
    ASSUME NEW k \in Keys, NEW s \in Coordinates[k], NEW e \in Coordinates[k]
    PROVE  Span(k, s, e) \subseteq Coordinates[k] /\ \A t \in Span(k, s, e) : s <= t
    <1>1. Coordinates[k] \subseteq Int
        BY ConstantsAssumption
    <1>2. Span(k, s, e) \subseteq Coordinates[k]
        BY DEF Span, Between
    <1>3. ASSUME NEW t \in Span(k, s, e) PROVE s <= t
        <2>1. PICK i \in Unknown(k, s, e) : i <= t
            BY DEF Span, Between
        <2>2. i \in Coordinates[k] /\ s <= i
            BY DEF Unknown, Window
        <2> QED BY <1>1, <1>2, <2>1, <2>2
    <1> QED BY <1>2, <1>3

LEMMA RequestKeepsInv ==
    ASSUME CacheInv, NEW k \in Keys, NEW s \in Coordinates[k], NEW e \in Coordinates[k],
           Request(k, s, e)
    PROVE  CacheInv'
    <1> DEFINE span == Span(k, s, e)
               b == BarsAfter(k, span)
               c == CoveredAfter(k, s, span)
               f == FinalAfter(k, b, c)
    <1>1. /\ UNCHANGED <<clock, rows, word>> /\ owed' = [owed EXCEPT ![k] = FALSE]
          /\ Read(k, b, c)
        BY DEF Request
    <1>2. Coordinates[k] \subseteq Int /\ s \in Int
        BY ConstantsAssumption
    <1>3. span \in SUBSET Coordinates[k] /\ \A t \in span : s <= t
        BY SpanIsInside
    <1> HIDE DEF span, b, c, f
    <1>4. CASE Overflows(k, b, c)
        <2>1. Keep(k, None, {}, NoPromise)
            BY <1>1, <1>4 DEF Read
        <2> QED BY <1>1, <2>1, NothingMayBeKept, KeepKeepsInv
    <1>5. CASE ~Overflows(k, b, c)
        <2>1. Keep(k, b, c, f)
            BY <1>1, <1>5 DEF Read, f
        <2>2. MayKeep(k, b, c, f)
            BY <1>2, <1>3, ReadIsSound DEF b, c, f
        <2> QED BY <1>1, <2>1, <2>2, KeepKeepsInv
    <1> QED BY <1>4, <1>5

LEMMA RequestFailsKeepsInv ==
    ASSUME CacheInv, NEW k \in Keys, NEW s \in Coordinates[k], NEW e \in Coordinates[k],
           RequestFails(k, s, e)
    PROVE  CacheInv'
    <1>1. /\ UNCHANGED <<clock, rows, word>> /\ owed' = [owed EXCEPT ![k] = FALSE]
          /\ Keep(k, Kept(k), Coverage(k), Standing(k))
        BY DEF RequestFails
    <1>2. CASE Dropped(k)
        <2>1. Kept(k) = None /\ Coverage(k) = {} /\ Standing(k) = NoPromise
            BY <1>2 DEF Kept, Coverage, Standing
        <2> QED BY <1>1, <2>1, NothingMayBeKept, KeepKeepsInv
    <1>3. CASE ~Dropped(k)
        <2>1. Kept(k) = bars[k] /\ Coverage(k) = covered[k] /\ Standing(k) = final[k]
            BY <1>3 DEF Kept, Coverage, Standing
        <2>2. /\ \E kept \in SUBSET Coordinates[k] : bars[k] \in [kept -> Row]
              /\ covered[k] \subseteq Coordinates[k]
              /\ final[k] \in Watermarks[k] \cup {NoPromise}
            BY DEF CacheInv, TypeOK
        <2>3. final[k] = NoPromise => DOMAIN bars[k] = {} /\ covered[k] = {}
            BY DEF CacheInv, Sound
        <2>4. final[k] # NoPromise => ~Lower(word[k], final[k])
            BY <1>3 DEF Dropped
        <2>5. MayKeep(k, bars[k], covered[k], final[k])
            BY <2>1, <2>2, <2>3, <2>4, KeptIsSound DEF MayKeep
        <2>6. Keep(k, bars[k], covered[k], final[k])
            BY <1>1, <2>1
        <2> QED BY <1>1, <2>5, <2>6, KeepKeepsInv
    <1> QED BY <1>2, <1>3

LEMMA AnnounceKeepsInv ==
    ASSUME CacheInv, NEW k \in Keys, NEW w \in Words(k), Announce(k, w)
    PROVE  CacheInv'
    <1>1. /\ clock' = clock /\ bars' = bars /\ covered' = covered /\ final' = final
          /\ rows' = rows
          /\ word' = [word EXCEPT ![k] = w]
          /\ owed' = [owed EXCEPT ![k] = owed[k] \/ Lower(w, word[k])]
          /\ Lower(w, word[k]) \/ ~owed[k]
        BY DEF Announce
    <1>2. /\ word'[k] = w /\ (owed'[k] <=> owed[k] \/ Lower(w, word[k]))
          /\ \A j \in Keys \ {k} : word'[j] = word[j] /\ owed'[j] = owed[j]
        BY <1>1 DEF CacheInv, TypeOK
    <1>3. TypeOK'
        <2>1. DOMAIN word' = Keys /\ \A j \in Keys : word'[j] \in Words(j)
            BY <1>1, <1>2 DEF CacheInv, TypeOK
        <2>2. owed[k] \/ Lower(w, word[k]) \in BOOLEAN
            BY DEF Lower, CacheInv, TypeOK
        <2>3. owed' \in [Keys -> BOOLEAN]
            BY <1>1, <2>2 DEF CacheInv, TypeOK
        <2> QED BY <1>1, <2>1, <2>3 DEF CacheInv, TypeOK
    <1>4. Sound(k)'
        <2>1. CASE final[k] = NoPromise
            BY <1>1, <2>1 DEF CacheInv, Sound, Stands
        <2>2. CASE final[k] # NoPromise
            <3>1. /\ word[k] \in Words(k) /\ final[k] \in Words(k)
                  /\ Sound(k)
                BY DEF CacheInv, TypeOK, Words
            <3>2. /\ ~Lower(word[k], final[k]) /\ Lower(w, final[k]) => Lower(w, word[k])
                  /\ Lower(w, word[k]) /\ Lower(word[k], final[k]) => Lower(w, final[k])
                BY <3>1, LowerIsOrder
            <3>3. Lower(w, final[k]) => owed'[k]
                BY <1>2, <2>2, <3>1, <3>2 DEF Sound
            <3>4. ~Lower(w, final[k]) => ~Lower(word[k], final[k])
                BY <1>1, <2>2, <3>1, <3>2 DEF Sound
            <3> QED BY <1>1, <1>2, <2>2, <3>1, <3>3, <3>4 DEF Sound, Stands, KeptIsTrue
        <2> QED BY <2>1, <2>2
    <1>5. ASSUME NEW j \in Keys \ {k} PROVE Sound(j)'
        BY <1>1, <1>2, <1>5, OthersStaySound
    <1> QED BY <1>3, <1>4, <1>5 DEF CacheInv

LEMMA ReviseKeepsInv ==
    ASSUME CacheInv, NEW k \in Keys, NEW t \in Coordinates[k], NEW row \in Row \cup {NoRow},
           Revise(k, t, row)
    PROVE  CacheInv'
    <1>1. /\ clock' = clock /\ bars' = bars /\ covered' = covered /\ final' = final
          /\ word' = word /\ owed' = owed
          /\ rows' = [rows EXCEPT ![k] = [rows[k] EXCEPT ![t] = row]]
          /\ ~(word[k] \in Watermarks[k] /\ t <= word[k] /\ Ended(rows[k][t], t, clock))
        BY DEF Revise
    <1>2. /\ \A i \in Coordinates[k] \ {t} : rows'[k][i] = rows[k][i]
          /\ \A j \in Keys \ {k} : rows'[j] = rows[j]
          /\ rows'[k] \in [Coordinates[k] -> Row \cup {NoRow}]
        BY <1>1 DEF CacheInv, TypeOK
    <1>3. TypeOK'
        <2>1. DOMAIN rows' = Keys
            BY <1>1 DEF CacheInv, TypeOK
        <2>2. \A j \in Keys : rows'[j] \in [Coordinates[j] -> Row \cup {NoRow}]
            BY <1>2 DEF CacheInv, TypeOK
        <2> QED BY <1>1, <2>1, <2>2 DEF CacheInv, TypeOK
    <1>4. Sound(k)'
        <2>1. Sound(k)
            BY DEF CacheInv
        <2>2. CASE ~Stands(k)
            BY <1>1, <2>1, <2>2 DEF Sound, Stands
        <2>3. CASE Stands(k)
            <3>1. KeptIsTrue(k)
                BY <2>1, <2>3 DEF Sound
            <3>2. /\ word[k] \in Watermarks[k] /\ word[k] \in Int
                  /\ final[k] \in Int /\ final[k] <= word[k] /\ t \in Int
                BY <2>3, ConstantsAssumption DEF CacheInv, TypeOK, Stands, Lower, Words
            <3>3. ~(t <= final[k] /\ Ended(rows[k][t], t, clock))
                BY <1>1, <3>2
            <3>4. t \notin DOMAIN bars[k] /\ t \notin covered[k]
                <4>1. t \notin DOMAIN bars[k]
                    BY <3>1, <3>3 DEF KeptIsTrue
                <4> QED BY <3>1, <3>3, <4>1 DEF KeptIsTrue
            <3>5. DOMAIN bars[k] \subseteq Coordinates[k] /\ covered[k] \subseteq Coordinates[k]
                BY DEF CacheInv, TypeOK
            <3>6. KeptIsTrue(k)'
                BY <1>1, <1>2, <3>1, <3>4, <3>5 DEF KeptIsTrue
            <3> QED BY <1>1, <2>1, <3>6 DEF Sound, Stands
        <2> QED BY <2>2, <2>3
    <1>5. ASSUME NEW j \in Keys \ {k} PROVE Sound(j)'
        BY <1>1, <1>2, <1>5, OthersStaySound
    <1> QED BY <1>3, <1>4, <1>5 DEF CacheInv

-----------------------------------------------------------------------------
(* What one read leaves to the next.                                       *)

\* A read that keeps its answer keeps it under a promise, and its rows and
\* gaps together with what was kept before.
LEMMA KeptAnswer ==
    ASSUME CacheInv, NEW k \in Keys, NEW s \in Coordinates[k], NEW e \in Coordinates[k],
           Request(k, s, e), final'[k] # NoPromise
    PROVE  /\ bars'[k] = BarsAfter(k, Span(k, s, e))
           /\ covered'[k] = CoveredAfter(k, s, Span(k, s, e))
           /\ ~(final[k] # NoPromise /\ Lower(word[k], final[k]))
    <1> DEFINE b == BarsAfter(k, Span(k, s, e))
               c == CoveredAfter(k, s, Span(k, s, e))
    <1>1. Read(k, b, c)
        BY DEF Request
    <1>2. k \in DOMAIN bars /\ k \in DOMAIN covered /\ k \in DOMAIN final
        BY DEF CacheInv, TypeOK
    <1> HIDE DEF b, c
    <1>3. ~Overflows(k, b, c)
        BY <1>1, <1>2 DEF Read, Keep
    <1>4. bars'[k] = b /\ covered'[k] = c /\ final'[k] = FinalAfter(k, b, c)
        BY <1>1, <1>2, <1>3 DEF Read, Keep
    <1>5. final[k] # NoPromise /\ Lower(word[k], final[k]) => FinalAfter(k, b, c) = NoPromise
        BY DEF FinalAfter, Promised, Standing, Dropped
    <1> QED BY <1>4, <1>5 DEF b, c

LEMMA NothingSettledIsUnknown ==
    ASSUME CacheInv, NEW k \in Keys, NEW s \in Coordinates[k], NEW e \in Coordinates[k],
           Request(k, s, e), final'[k] # NoPromise
    PROVE  ~Refetches(k, s, e)'
    <1> SUFFICES ASSUME Refetches(k, s, e)' PROVE FALSE
        OBVIOUS
    <1> DEFINE span == Span(k, s, e)
    <1>1. clock' = clock /\ rows' = rows /\ word' = word
        BY DEF Request
    <1>2. PICK t \in Span(k, s, e)' : \A i \in Window(k, s, t)' : Settled(k, s, i)'
        BY DEF Refetches
    <1>3. PICK i \in Unknown(k, s, e)' : i <= t
        BY <1>2 DEF Span, Between
    <1>4. Coordinates[k] \subseteq Int /\ t \in Coordinates[k]
        BY <1>2, ConstantsAssumption DEF Span, Between
    <1>5. i \in Coordinates[k] /\ s <= i /\ i <= e
        BY <1>3 DEF Unknown, Window
    <1>6. \A j \in Coordinates[k] : s <= j /\ j <= i => Settled(k, s, j)'
        BY <1>2, <1>3, <1>4, <1>5 DEF Window
    <1>7. HistoryEnd(s)' = HistoryEnd(s)
        BY <1>1 DEF HistoryEnd
    <1>8. \A j \in Coordinates[k] : s <= j /\ j <= i =>
              /\ Promised(k, j) /\ ~Open(k, j) /\ Promised(k, j)'
              /\ j <= HistoryEnd(s) \/ rows[k][j] # NoRow
        BY <1>1, <1>6, <1>7, KeptAnswer DEF Settled, Promised, Open, Ended
    <1>9. i <= i
        BY <1>4, <1>5
    <1>10. ~Dropped(k)'
        BY <1>1, <1>5, <1>8, <1>9, ConstantsAssumption DEF Promised, Dropped
    <1>11. Kept(k)' = bars'[k] /\ Coverage(k)' = covered'[k]
        BY <1>10 DEF Kept, Coverage
    <1>12. i \notin DOMAIN Kept(k) /\ i \notin Durable(k, span)
        <2>1. i \notin DOMAIN Kept(k)'
            BY <1>3 DEF Unknown
        <2>2. bars'[k] = BarsAfter(k, span)
            BY KeptAnswer
        <2>3. DOMAIN BarsAfter(k, span) = DOMAIN Kept(k) \cup Durable(k, span)
            BY DEF BarsAfter
        <2>4. DOMAIN Kept(k)' = DOMAIN BarsAfter(k, span)
            BY <1>11, <2>2
        <2> QED BY <2>1, <2>3, <2>4
    <1>13. ~(i <= HistoryEnd(s) /\ (i \in Coverage(k) \/ i \in NewlyCovered(k, s, span)))
        BY <1>3, <1>7, <1>11, KeptAnswer DEF Unknown, CoveredAfter
    <1>14. i \in span
        <2>1. i \in Unknown(k, s, e)
            BY <1>5, <1>12, <1>13 DEF Unknown, Window
        <2> QED BY <1>5, <1>9, <2>1 DEF Span, Between
    <1>15. CASE rows[k][i] # NoRow
        <2>1. Promised(k, i) /\ Ended(rows[k][i], i, clock)
            BY <1>5, <1>8, <1>9, <1>15 DEF Open
        <2> QED BY <1>12, <1>14, <1>15, <2>1 DEF Durable
    <1>16. CASE rows[k][i] = NoRow
        <2>1. Promised(k, i) /\ i <= HistoryEnd(s)
            BY <1>5, <1>8, <1>9, <1>16
        <2>2. \A open \in span : open <= i => ~Open(k, open)
            BY <1>8, SpanIsInside
        <2> QED BY <1>13, <1>14, <2>1, <2>2 DEF NewlyCovered
    <1> QED BY <1>15, <1>16

-----------------------------------------------------------------------------
(* The theorems.                                                           *)

LEMMA CacheInvHolds == Spec => []CacheInv
    <1>1. Init => CacheInv
        BY TypeInit DEF Init, CacheInv, Sound, Stands, None
    <1>2. CacheInv /\ [Next]_vars => CacheInv'
        <2> SUFFICES ASSUME CacheInv, [Next]_vars PROVE CacheInv'
            OBVIOUS
        <2>1. CASE UNCHANGED vars
            BY <2>1 DEF vars, CacheInv, TypeOK, Sound, Stands, KeptIsTrue, Ended
        <2>2. ASSUME NEW now \in Clocks, Callback(now) PROVE CacheInv'
            BY <2>2, CallbackKeepsInv
        <2>3. ASSUME NEW k \in Keys, NEW s \in Coordinates[k], NEW e \in Coordinates[k],
                     Request(k, s, e) \/ RequestFails(k, s, e)
              PROVE  CacheInv'
            BY <2>3, RequestKeepsInv, RequestFailsKeepsInv
        <2>4. ASSUME NEW k \in Keys, NEW w \in Words(k), Announce(k, w) PROVE CacheInv'
            BY <2>4, AnnounceKeepsInv
        <2>5. ASSUME NEW k \in Keys, NEW t \in Coordinates[k], NEW row \in Row \cup {NoRow},
                     Revise(k, t, row)
              PROVE  CacheInv'
            BY <2>5, ReviseKeepsInv
        <2> QED BY <2>1, <2>2, <2>3, <2>4, <2>5 DEF Next
    <1> QED BY <1>1, <1>2, PTL DEF Spec

\* Every variable of the range cache keeps its type: rows are kept only at
\* coordinates of their context, under a watermark its provider returned.
THEOREM TypeCorrect == Spec => []TypeOK
    <1>1. CacheInv => TypeOK
        BY DEF CacheInv
    <1> QED BY <1>1, CacheInvHolds, PTL

\* Whatever is requested next, get_ohlcv_view answers with the rows the
\* provider has now, for any number of contexts, coordinates and watermarks.
THEOREM ProviderServed == Spec => []ServesTheProvider
    <1>1. CacheInv => ServesTheProvider
        <2> SUFFICES ASSUME CacheInv, NEW k \in Keys,
                            NEW s \in Coordinates[k], NEW e \in Coordinates[k]
                     PROVE  Answer(k, Window(k, s, e), Span(k, s, e))
                              = [t \in Window(k, s, e) |-> rows[k][t]]
            BY DEF ServesTheProvider
        <2> SUFFICES ASSUME NEW t \in Window(k, s, e),
                            t \notin DOMAIN Kept(k), t \notin Span(k, s, e)
                     PROVE  rows[k][t] = NoRow
            BY KeptIsSound DEF Answer
        <2>1. t \in Coordinates[k] /\ t \in Int
            BY ConstantsAssumption DEF Window
        <2>2. t \notin Unknown(k, s, e)
            <3>1. t <= t BY <2>1
            <3> QED BY <2>1, <3>1 DEF Span, Between
        <2>3. t \in Coverage(k)
            BY <2>2 DEF Unknown
        <2> QED BY <2>3, KeptIsSound
    <1> QED BY <1>1, CacheInvHolds, PTL

\* No request whose answer is kept leaves it so that repeating it asks the
\* provider again for what is settled: later callbacks fetch only the tail
\* (get_ohlcv_view).
THEOREM OnlyTheTailIsFetched == Spec => FetchesOnlyTheTail
    <1>1. CacheInv =>
            \A k \in Keys : (UNCHANGED <<clock, rows, word>> /\ final'[k] # NoPromise) =>
                \A s, e \in Coordinates[k] :
                    s <= e /\ Refetches(k, s, e)' => ~Request(k, s, e)
        BY NothingSettledIsUnknown
    <1> QED BY <1>1, CacheInvHolds, PTL DEF FetchesOnlyTheTail

-----------------------------------------------------------------------------
(* Sums over the keys.  h is the recursive function that MapThenSumSet of   *)
(* the community modules builds for the values f.                           *)

Some(s) == CHOOSE x \in s : TRUE
IsSum(S, f, h) ==
    h = [s \in SUBSET S |-> IF s = {} THEN 0 ELSE f[Some(s)] + h[s \ {Some(s)}]]
SumIs(S, f, n) == \E h : IsSum(S, f, h) /\ n = h[S]

\* Sets of numbers that hold 0, and with every number the next, hold them all.
LEMMA AllUpTo ==
    ASSUME NEW N \in Nat, NEW S, 0 \in S, \A i \in 1 .. N : i - 1 \in S => i \in S
    PROVE  N \in S
    <1> DEFINE T == {i \in 0 .. N : i \notin S}
    <1>1. T \in SUBSET Nat
        OBVIOUS
    <1>2. ASSUME T # {}  PROVE FALSE
        <2>1. PICK n \in T : \A m \in T : <<m, n>> \notin OpToRel(<, Nat)
            BY <1>1, <1>2, WFMin, NatLessThanWellFounded
        <2>2. n \in 1 .. N /\ n \notin S
            OBVIOUS
        <2>3. n - 1 \in T
            BY <2>2
        <2>4. n - 1 \in Nat /\ n \in Nat /\ n - 1 < n
            BY <2>2
        <2>5. <<n - 1, n>> \in OpToRel(<, Nat)
            BY <2>4, Zenon DEF OpToRel
        <2> QED BY <2>1, <2>3, <2>5
    <1>3. N \in 0 .. N
        OBVIOUS
    <1> QED BY <1>2, <1>3

LEMMA SomeIsIn ==
    ASSUME NEW S, IsFiniteSet(S), NEW s \in SUBSET S, s # {}
    PROVE  /\ Some(s) \in s /\ Some(s) \in S /\ s \ {Some(s)} \in SUBSET S
           /\ Cardinality(s) \in Nat /\ Cardinality(s) > 0
           /\ Cardinality(s \ {Some(s)}) = Cardinality(s) - 1
    <1>1. Some(s) \in s
        BY DEF Some
    <1>2. IsFiniteSet(s)
        BY FS_Subset
    <1>3. Cardinality(s) \in Nat /\ Cardinality(s) # 0
        BY <1>2, FS_CardinalityType, FS_EmptySet
    <1>4. Cardinality(s \ {Some(s)}) = Cardinality(s) - 1
        BY <1>1, <1>2, FS_RemoveElement
    <1> QED BY <1>1, <1>3, <1>4

\* There is such a function.
LEMMA SumExists ==
    ASSUME NEW S, IsFiniteSet(S), NEW f
    PROVE  \E h : IsSum(S, f, h)
    <1> DEFINE Small(n) == {s \in SUBSET S : Cardinality(s) <= n}
               Is(h, n) == h = [s \in Small(n) |-> IF s = {} THEN 0
                                                   ELSE f[Some(s)] + h[s \ {Some(s)}]]
               N == Cardinality(S)
               M == {n \in 0 .. N : \E h : Is(h, n)}
    <1>1. N \in Nat
        BY FS_CardinalityType
    <1>2. \A s \in SUBSET S : Cardinality(s) \in Nat /\ Cardinality(s) <= N
        BY FS_Subset, FS_CardinalityType
    <1>3. \A s \in SUBSET S : Cardinality(s) = 0 <=> s = {}
        BY FS_Subset, FS_EmptySet
    <1>4. 0 \in M
        <2> DEFINE g == [s \in Small(0) |-> 0]
        <2>1. \A s \in Small(0) : s = {}
            BY <1>2, <1>3
        <2>2. Is(g, 0)
            BY <2>1
        <2> HIDE DEF g
        <2>3. \E h : Is(h, 0)
            BY <2>2
        <2> HIDE DEF Is
        <2> QED BY <1>1, <2>3
    <1>5. ASSUME NEW n \in 1 .. N, n - 1 \in M  PROVE n \in M
        <2>1. PICK h : Is(h, n - 1)
            BY <1>5
        <2> DEFINE Value(s) == IF s = {} THEN 0 ELSE f[Some(s)] + h[s \ {Some(s)}]
                   g == [s \in Small(n) |-> Value(s)]
        <2>2. ASSUME NEW s \in Small(n)
              PROVE  g[s] = IF s = {} THEN 0 ELSE f[Some(s)] + g[s \ {Some(s)}]
            <3>1. CASE s = {}
                BY <3>1
            <3>2. CASE s # {}
                <4> DEFINE r == s \ {Some(s)}
                <4>1. /\ r \in SUBSET S /\ Cardinality(r) = Cardinality(s) - 1
                      /\ Cardinality(s) \in Nat /\ Cardinality(s) <= n
                    BY <3>2, SomeIsIn
                <4>2. r \in Small(n - 1) /\ r \in Small(n)
                    BY <4>1
                <4>3. h[r] = Value(r)
                    BY <2>1, <4>2
                <4>4. g[r] = h[r]
                    BY <4>2, <4>3
                <4>5. g[s] = f[Some(s)] + h[r]
                    BY <3>2
                <4> QED BY <3>2, <4>4, <4>5
            <3> QED BY <3>1, <3>2
        <2>3. Is(g, n)
            <3> HIDE DEF Value
            <3>1. g = [s \in Small(n) |-> g[s]]
                OBVIOUS
            <3> HIDE DEF g
            <3> QED BY <2>2, <3>1
        <2> HIDE DEF g
        <2>4. \E a : Is(a, n)
            BY <2>3
        <2> HIDE DEF Is
        <2> QED BY <2>4
    <1>6. N \in M
        <2> HIDE DEF M, N
        <2> QED BY <1>1, <1>4, <1>5, AllUpTo
    <1>7. PICK h : Is(h, N)
        BY <1>6
    <1>8. Small(N) = SUBSET S
        BY <1>2
    <1> QED BY <1>7, <1>8 DEF IsSum

\* Sums of natural numbers are natural, and grow with what is summed.
LEMMA SumsGrow ==
    ASSUME NEW S, IsFiniteSet(S), NEW f, NEW g, NEW m, NEW n, SumIs(S, f, m), SumIs(S, g, n),
           \A x \in S : f[x] \in Nat /\ g[x] \in Nat /\ f[x] <= g[x]
    PROVE  m \in Nat /\ n \in Nat /\ m <= n
    <1>1. PICK a : IsSum(S, f, a) /\ m = a[S]
        BY DEF SumIs
    <1>2. PICK b : IsSum(S, g, b) /\ n = b[S]
        BY DEF SumIs
    <1> DEFINE N == Cardinality(S)
               Good(s) == a[s] \in Nat /\ b[s] \in Nat /\ a[s] <= b[s]
               M == {i \in 0 .. N : \A s \in SUBSET S : Cardinality(s) <= i => Good(s)}
    <1>3. N \in Nat
        BY FS_CardinalityType
    <1>4. \A s \in SUBSET S : Cardinality(s) \in Nat /\ Cardinality(s) <= N
                              /\ (Cardinality(s) = 0 <=> s = {})
        BY FS_Subset, FS_CardinalityType, FS_EmptySet
    <1>5. Good({})
        BY <1>1, <1>2 DEF IsSum
    <1>6. 0 \in M
        BY <1>3, <1>4, <1>5
    <1>7. ASSUME NEW i \in 1 .. N, i - 1 \in M  PROVE i \in M
        <2>1. ASSUME NEW s \in SUBSET S, Cardinality(s) <= i  PROVE Good(s)
            <3>1. CASE s = {}
                BY <1>5, <3>1
            <3>2. CASE s # {}
                <4> DEFINE x == Some(s)
                           r == s \ {x}
                <4>1. /\ x \in S /\ r \in SUBSET S /\ Cardinality(r) = Cardinality(s) - 1
                      /\ Cardinality(s) \in Nat
                    BY <3>2, SomeIsIn
                <4>2. Good(r)
                    BY <1>7, <2>1, <4>1
                <4>3. a[s] = f[x] + a[r] /\ b[s] = g[x] + b[r]
                    BY <1>1, <1>2, <3>2 DEF IsSum
                <4> HIDE DEF x, r
                <4>4. f[x] \in Nat /\ g[x] \in Nat /\ f[x] <= g[x]
                    BY <4>1
                <4> QED BY <4>2, <4>3, <4>4
            <3> QED BY <3>1, <3>2
        <2> QED BY <2>1
    <1>8. N \in M
        <2> HIDE DEF M, N
        <2> QED BY <1>3, <1>6, <1>7, AllUpTo
    <1>9. Good(S)
        BY <1>4, <1>8
    <1> QED BY <1>1, <1>2, <1>9

LEMMA SumOfNothing ==
    ASSUME NEW S, IsFiniteSet(S), NEW f, NEW m, SumIs(S, f, m), \A x \in S : f[x] = 0
    PROVE  m = 0
    <1> DEFINE z == [s \in SUBSET S |-> 0]
    <1>1. IsSum(S, f, z)
        <2>1. \A s \in SUBSET S : s # {} => f[Some(s)] = 0
            BY SomeIsIn
        <2> QED BY <2>1 DEF IsSum
    <1>2. SumIs(S, f, 0)
        BY <1>1 DEF SumIs
    <1>3. m \in Nat /\ m <= 0
        BY <1>2, SumsGrow
    <1> QED BY <1>3

-----------------------------------------------------------------------------
(* The limits.                                                             *)

\* What is kept, and what would be kept, were that of k b and c.
Stored(b) == MapThenSumSet(LAMBDA k : Cardinality(DOMAIN b[k]), Keys)
Listed(c) == MapThenSumSet(LAMBDA k : Runs(c[k]), Keys)
StoredWith(k, b, all) ==
    MapThenSumSet(LAMBDA j : Cardinality(IF j = k THEN DOMAIN b ELSE DOMAIN all[j]), Keys)
ListedWith(k, c, all) == MapThenSumSet(LAMBDA j : Runs(IF j = k THEN c ELSE all[j]), Keys)

SizesOf(b) == [k \in Keys |-> Cardinality(DOMAIN b[k])]
RunsOf(c) == [k \in Keys |-> Runs(c[k])]
SizesWith(k, b, all) == [j \in Keys |-> Cardinality(IF j = k THEN DOMAIN b ELSE DOMAIN all[j])]
RunsWith(k, c, all) == [j \in Keys |-> Runs(IF j = k THEN c ELSE all[j])]

LEMMA StoredIs == ASSUME NEW b  PROVE SumIs(Keys, SizesOf(b), Stored(b))
    <1> DEFINE Body(a) == [s \in SUBSET Keys |-> IF s = {} THEN 0
                              ELSE Cardinality(DOMAIN b[Some(s)]) + a[s \ {Some(s)}]]
               g == CHOOSE a : a = Body(a)
    <1>1. ASSUME NEW a  PROVE IsSum(Keys, SizesOf(b), a) <=> a = Body(a)
        <2>1. \A s \in SUBSET Keys : s # {} => SizesOf(b)[Some(s)] = Cardinality(DOMAIN b[Some(s)])
            BY SomeIsIn, ConstantsAssumption DEF SizesOf
        <2> QED BY <2>1 DEF IsSum
    <1>2. Stored(b) = g[Keys]
        BY DEF Stored, MapThenSumSet, MapThenFoldSet, Some
    <1>3. IsSum(Keys, SizesOf(b), g)
        <2> HIDE DEF Body
        <2>1. \E a : a = Body(a)
            BY <1>1, SumExists, ConstantsAssumption
        <2>2. g = Body(g)
            BY <2>1
        <2> QED BY <1>1, <2>2
    <1> HIDE DEF g
    <1> QED BY <1>2, <1>3 DEF SumIs

LEMMA ListedIs == ASSUME NEW c  PROVE SumIs(Keys, RunsOf(c), Listed(c))
    <1> DEFINE Body(a) == [s \in SUBSET Keys |-> IF s = {} THEN 0
                              ELSE Runs(c[Some(s)]) + a[s \ {Some(s)}]]
               g == CHOOSE a : a = Body(a)
    <1>1. ASSUME NEW a  PROVE IsSum(Keys, RunsOf(c), a) <=> a = Body(a)
        <2>1. \A s \in SUBSET Keys : s # {} => RunsOf(c)[Some(s)] = Runs(c[Some(s)])
            BY SomeIsIn, ConstantsAssumption DEF RunsOf
        <2> QED BY <2>1 DEF IsSum
    <1>2. Listed(c) = g[Keys]
        BY DEF Listed, MapThenSumSet, MapThenFoldSet, Some
    <1>3. IsSum(Keys, RunsOf(c), g)
        <2> HIDE DEF Body
        <2>1. \E a : a = Body(a)
            BY <1>1, SumExists, ConstantsAssumption
        <2>2. g = Body(g)
            BY <2>1
        <2> QED BY <1>1, <2>2
    <1> HIDE DEF g
    <1> QED BY <1>2, <1>3 DEF SumIs

LEMMA StoredWithIs ==
    ASSUME NEW k, NEW b, NEW all  PROVE SumIs(Keys, SizesWith(k, b, all), StoredWith(k, b, all))
    <1> DEFINE Body(a) == [s \in SUBSET Keys |-> IF s = {} THEN 0
                              ELSE Cardinality(IF Some(s) = k THEN DOMAIN b ELSE DOMAIN all[Some(s)])
                                   + a[s \ {Some(s)}]]
               g == CHOOSE a : a = Body(a)
    <1>1. ASSUME NEW a  PROVE IsSum(Keys, SizesWith(k, b, all), a) <=> a = Body(a)
        <2>1. \A s \in SUBSET Keys : s # {} =>
                 SizesWith(k, b, all)[Some(s)]
                   = Cardinality(IF Some(s) = k THEN DOMAIN b ELSE DOMAIN all[Some(s)])
            BY SomeIsIn, ConstantsAssumption DEF SizesWith
        <2> QED BY <2>1 DEF IsSum
    <1>2. StoredWith(k, b, all) = g[Keys]
        BY DEF StoredWith, MapThenSumSet, MapThenFoldSet, Some
    <1>3. IsSum(Keys, SizesWith(k, b, all), g)
        <2> HIDE DEF Body
        <2>1. \E a : a = Body(a)
            BY <1>1, SumExists, ConstantsAssumption
        <2>2. g = Body(g)
            BY <2>1
        <2> QED BY <1>1, <2>2
    <1> HIDE DEF g
    <1> QED BY <1>2, <1>3 DEF SumIs

LEMMA ListedWithIs ==
    ASSUME NEW k, NEW c, NEW all  PROVE SumIs(Keys, RunsWith(k, c, all), ListedWith(k, c, all))
    <1> DEFINE Body(a) == [s \in SUBSET Keys |-> IF s = {} THEN 0
                              ELSE Runs(IF Some(s) = k THEN c ELSE all[Some(s)])
                                   + a[s \ {Some(s)}]]
               g == CHOOSE a : a = Body(a)
    <1>1. ASSUME NEW a  PROVE IsSum(Keys, RunsWith(k, c, all), a) <=> a = Body(a)
        <2>1. \A s \in SUBSET Keys : s # {} =>
                 RunsWith(k, c, all)[Some(s)] = Runs(IF Some(s) = k THEN c ELSE all[Some(s)])
            BY SomeIsIn, ConstantsAssumption DEF RunsWith
        <2> QED BY <2>1 DEF IsSum
    <1>2. ListedWith(k, c, all) = g[Keys]
        BY DEF ListedWith, MapThenSumSet, MapThenFoldSet, Some
    <1>3. IsSum(Keys, RunsWith(k, c, all), g)
        <2> HIDE DEF Body
        <2>1. \E a : a = Body(a)
            BY <1>1, SumExists, ConstantsAssumption
        <2>2. g = Body(g)
            BY <2>1
        <2> QED BY <1>1, <2>2
    <1> HIDE DEF g
    <1> QED BY <1>2, <1>3 DEF SumIs

\* Rows and ranges of a context are counted by natural numbers.
LEMMA CountsAreNumbers ==
    ASSUME NEW k \in Keys, NEW rs \in SUBSET Coordinates[k], NEW c \in SUBSET Coordinates[k]
    PROVE  /\ Cardinality(rs) \in Nat /\ Runs(c) \in Nat
           /\ Cardinality(DOMAIN None) = 0 /\ Runs({}) = 0
    <1>1. IsFiniteSet(Coordinates[k])
        BY ConstantsAssumption
    <1>2. {t \in c : t - 1 \notin c} \in SUBSET Coordinates[k]
        OBVIOUS
    <1>3. Cardinality(rs) \in Nat
        BY <1>1, FS_Subset, FS_CardinalityType
    <1>4. Runs(c) \in Nat
        BY <1>1, <1>2, FS_Subset, FS_CardinalityType DEF Runs
    <1>5. DOMAIN None = {} /\ {t \in {} : t - 1 \notin {}} = {}
        BY DEF None
    <1>6. Cardinality(DOMAIN None) = 0 /\ Runs({}) = 0
        BY <1>5, FS_EmptySet DEF Runs
    <1> QED BY <1>3, <1>4, <1>6

LEMMA KeptIsPlaced ==
    ASSUME TypeOK, NEW k \in Keys
    PROVE  /\ DOMAIN bars[k] \in SUBSET Coordinates[k] /\ covered[k] \in SUBSET Coordinates[k]
           /\ Cardinality(DOMAIN bars[k]) \in Nat /\ Runs(covered[k]) \in Nat
           /\ Cardinality(DOMAIN None) = 0 /\ Runs({}) = 0
    <1>1. DOMAIN bars[k] \in SUBSET Coordinates[k] /\ covered[k] \in SUBSET Coordinates[k]
        BY DEF TypeOK
    <1> QED BY <1>1, CountsAreNumbers

LEMMA LimitsAre == WithinLimits <=> Stored(bars) <= MaxBars /\ Listed(covered) <= MaxRanges
BY Zenon DEF WithinLimits, Stored, Listed
LEMMA LimitsAreNext == (WithinLimits <=> Stored(bars) <= MaxBars /\ Listed(covered) <= MaxRanges)'
BY LimitsAre, PTL
LEMMA OverflowsIs ==
    ASSUME NEW k, NEW b, NEW c
    PROVE  Overflows(k, b, c) <=> StoredWith(k, b, bars) > MaxBars \/ ListedWith(k, c, covered) > MaxRanges
BY Zenon DEF Overflows, StoredWith, ListedWith

\* A step that keeps no more of any context stays within the limits.
LEMMA LessFits ==
    ASSUME TypeOK, TypeOK', WithinLimits,
           \A k \in Keys : bars'[k] \in {bars[k], None} /\ covered'[k] \in {covered[k], {}}
    PROVE  WithinLimits'
    <1>1. IsFiniteSet(Keys) /\ MaxBars \in Nat /\ MaxRanges \in Nat
        BY ConstantsAssumption
    <1>2. Stored(bars') \in Nat /\ Stored(bars) \in Nat /\ Stored(bars') <= Stored(bars)
        <2> DEFINE f == SizesOf(bars')
                   g == SizesOf(bars)
        <2>1. SumIs(Keys, f, Stored(bars')) /\ SumIs(Keys, g, Stored(bars))
            BY StoredIs
        <2>2. \A k \in Keys : f[k] \in Nat /\ g[k] \in Nat /\ f[k] <= g[k]
            <3> TAKE k \in Keys
            <3>1. g[k] \in Nat /\ Cardinality(DOMAIN None) = 0
                BY KeptIsPlaced DEF SizesOf
            <3>2. CASE bars'[k] = bars[k]
                BY <3>1, <3>2 DEF SizesOf
            <3>3. CASE bars'[k] = None
                <4>1. f[k] = 0
                    BY <3>1, <3>3 DEF SizesOf
                <4> QED BY <3>1, <4>1
            <3> QED BY <3>2, <3>3
        <2> HIDE DEF f, g
        <2> QED BY <1>1, <2>1, <2>2, SumsGrow
    <1>3. Listed(covered') \in Nat /\ Listed(covered) \in Nat /\ Listed(covered') <= Listed(covered)
        <2> DEFINE f == RunsOf(covered')
                   g == RunsOf(covered)
        <2>1. SumIs(Keys, f, Listed(covered')) /\ SumIs(Keys, g, Listed(covered))
            BY ListedIs
        <2>2. \A k \in Keys : f[k] \in Nat /\ g[k] \in Nat /\ f[k] <= g[k]
            <3> TAKE k \in Keys
            <3>1. g[k] \in Nat /\ Runs({}) = 0
                BY KeptIsPlaced DEF RunsOf
            <3>2. CASE covered'[k] = covered[k]
                BY <3>1, <3>2 DEF RunsOf
            <3>3. CASE covered'[k] = {}
                <4>1. f[k] = 0
                    BY <3>1, <3>3 DEF RunsOf
                <4> QED BY <3>1, <4>1
            <3> QED BY <3>2, <3>3
        <2> HIDE DEF f, g
        <2> QED BY <1>1, <2>1, <2>2, SumsGrow
    <1>4. Stored(bars) <= MaxBars /\ Listed(covered) <= MaxRanges
        BY LimitsAre
    <1>5. Stored(bars') <= MaxBars /\ Listed(covered') <= MaxRanges
        BY <1>1, <1>2, <1>3, <1>4
    <1> QED BY <1>5, LimitsAreNext

\* What does not overflow stays within the limits.
LEMMA KeptFits ==
    ASSUME TypeOK, TypeOK', NEW k \in Keys, NEW b, NEW c, ~Overflows(k, b, c),
           bars' = [bars EXCEPT ![k] = b], covered' = [covered EXCEPT ![k] = c]
    PROVE  WithinLimits'
    <1>1. IsFiniteSet(Keys) /\ MaxBars \in Nat /\ MaxRanges \in Nat
        BY ConstantsAssumption
    <1>2. DOMAIN bars = Keys /\ DOMAIN covered = Keys
        BY DEF TypeOK
    <1>3. \A j \in Keys : Cardinality(DOMAIN bars'[j]) \in Nat /\ Runs(covered'[j]) \in Nat
        <2> TAKE j \in Keys
        <2>1. DOMAIN bars'[j] \in SUBSET Coordinates[j] /\ covered'[j] \in SUBSET Coordinates[j]
            BY DEF TypeOK
        <2> QED BY <2>1, CountsAreNumbers
    <1>4. /\ Stored(bars') \in Nat /\ StoredWith(k, b, bars) \in Nat
          /\ Stored(bars') <= StoredWith(k, b, bars)
        <2> DEFINE f == SizesOf(bars')
                   g == SizesWith(k, b, bars)
        <2>1. SumIs(Keys, f, Stored(bars')) /\ SumIs(Keys, g, StoredWith(k, b, bars))
            BY StoredIs, StoredWithIs
        <2>2. \A j \in Keys : f[j] = Cardinality(DOMAIN bars'[j]) /\ g[j] = f[j]
            BY <1>2 DEF SizesOf, SizesWith
        <2> HIDE DEF f, g
        <2>3. \A j \in Keys : f[j] \in Nat /\ g[j] \in Nat /\ f[j] <= g[j]
            BY <1>3, <2>2
        <2> QED BY <1>1, <2>1, <2>3, SumsGrow
    <1>5. /\ Listed(covered') \in Nat /\ ListedWith(k, c, covered) \in Nat
          /\ Listed(covered') <= ListedWith(k, c, covered)
        <2> DEFINE f == RunsOf(covered')
                   g == RunsWith(k, c, covered)
        <2>1. SumIs(Keys, f, Listed(covered')) /\ SumIs(Keys, g, ListedWith(k, c, covered))
            BY ListedIs, ListedWithIs
        <2>2. \A j \in Keys : f[j] = Runs(covered'[j]) /\ g[j] = f[j]
            BY <1>2 DEF RunsOf, RunsWith
        <2> HIDE DEF f, g
        <2>3. \A j \in Keys : f[j] \in Nat /\ g[j] \in Nat /\ f[j] <= g[j]
            BY <1>3, <2>2
        <2> QED BY <1>1, <2>1, <2>3, SumsGrow
    <1>6. ~(StoredWith(k, b, bars) > MaxBars) /\ ~(ListedWith(k, c, covered) > MaxRanges)
        BY OverflowsIs
    <1>7. Stored(bars') <= MaxBars /\ Listed(covered') <= MaxRanges
        BY <1>1, <1>4, <1>5, <1>6
    <1> QED BY <1>7, LimitsAreNext

LEMMA InitFits == Init => WithinLimits
    <1> SUFFICES ASSUME Init PROVE WithinLimits OBVIOUS
    <1>1. IsFiniteSet(Keys) /\ MaxBars \in Nat /\ MaxRanges \in Nat
        BY ConstantsAssumption
    <1>2. TypeOK
        BY TypeInit
    <1>3. Stored(bars) = 0
        <2> DEFINE f == SizesOf(bars)
        <2>1. SumIs(Keys, f, Stored(bars))
            BY StoredIs
        <2>2. \A k \in Keys : f[k] = 0
            BY <1>2, KeptIsPlaced DEF SizesOf, Init
        <2> HIDE DEF f
        <2> QED BY <1>1, <2>1, <2>2, SumOfNothing
    <1>4. Listed(covered) = 0
        <2> DEFINE f == RunsOf(covered)
        <2>1. SumIs(Keys, f, Listed(covered))
            BY ListedIs
        <2>2. \A k \in Keys : f[k] = 0
            BY <1>2, KeptIsPlaced DEF RunsOf, Init
        <2> HIDE DEF f
        <2> QED BY <1>1, <2>1, <2>2, SumOfNothing
    <1>5. Stored(bars) <= MaxBars /\ Listed(covered) <= MaxRanges
        BY <1>1, <1>3, <1>4
    <1> QED BY <1>5, LimitsAre

\* However many contexts there are, the rows and ranges kept for all of them never
\* exceed the limits, whatever fails and whoever revises (_enforce_limits).
THEOREM LimitsRespected == Spec => []WithinLimits
    <1>1. TypeOK /\ TypeOK' /\ WithinLimits /\ [Next]_vars => WithinLimits'
        <2> SUFFICES ASSUME TypeOK, TypeOK', WithinLimits, [Next]_vars  PROVE WithinLimits'
            OBVIOUS
        <2>0. DOMAIN bars = Keys /\ DOMAIN covered = Keys
            BY DEF TypeOK
        <2>1. CASE UNCHANGED <<bars, covered>>
            BY <2>1, LessFits
        <2>2. ASSUME NEW now \in Clocks, Callback(now)  PROVE WithinLimits'
            <3>1. \A k \in Keys : bars'[k] \in {bars[k], None} /\ covered'[k] \in {covered[k], {}}
                BY <2>2 DEF Callback, cache
            <3> QED BY <3>1, LessFits
        <2>3. ASSUME NEW k \in Keys, NEW s \in Coordinates[k], NEW e \in Coordinates[k], Request(k, s, e)
              PROVE  WithinLimits'
            <3> DEFINE b == BarsAfter(k, Span(k, s, e))
                       c == CoveredAfter(k, s, Span(k, s, e))
            <3>1. Read(k, b, c)
                BY <2>3 DEF Request
            <3> HIDE DEF b, c
            <3>2. CASE Overflows(k, b, c)
                <4>1. bars' = [bars EXCEPT ![k] = None] /\ covered' = [covered EXCEPT ![k] = {}]
                    BY <3>1, <3>2 DEF Read, Keep
                <4>2. \A j \in Keys : bars'[j] \in {bars[j], None} /\ covered'[j] \in {covered[j], {}}
                    BY <2>0, <4>1
                <4> QED BY <4>2, LessFits
            <3>3. CASE ~Overflows(k, b, c)
                <4>1. bars' = [bars EXCEPT ![k] = b] /\ covered' = [covered EXCEPT ![k] = c]
                    BY <3>1, <3>3 DEF Read, Keep
                <4> QED BY <3>3, <4>1, KeptFits
            <3> QED BY <3>2, <3>3
        <2>4. ASSUME NEW k \in Keys, NEW s \in Coordinates[k], NEW e \in Coordinates[k],
                     RequestFails(k, s, e)
              PROVE  WithinLimits'
            <3>1. /\ bars' = [bars EXCEPT ![k] = Kept(k)]
                  /\ covered' = [covered EXCEPT ![k] = Coverage(k)]
                BY <2>4 DEF RequestFails, Keep
            <3>2. Kept(k) \in {bars[k], None} /\ Coverage(k) \in {covered[k], {}}
                BY DEF Kept, Coverage
            <3>3. \A j \in Keys : bars'[j] \in {bars[j], None} /\ covered'[j] \in {covered[j], {}}
                BY <2>0, <3>1, <3>2
            <3> QED BY <3>3, LessFits
        <2>5. ASSUME NEW k \in Keys, NEW w \in Words(k), Announce(k, w)  PROVE WithinLimits'
            BY <2>1, <2>5 DEF Announce
        <2>6. ASSUME NEW k \in Keys, NEW t \in Coordinates[k], NEW row \in Row \cup {NoRow},
                     Revise(k, t, row)
              PROVE  WithinLimits'
            BY <2>1, <2>6 DEF Revise
        <2>7. CASE UNCHANGED vars
            BY <2>1, <2>7 DEF vars
        <2> QED BY <2>2, <2>3, <2>4, <2>5, <2>6, <2>7 DEF Next
    <1> QED BY <1>1, InitFits, TypeCorrect, PTL DEF Spec

-----------------------------------------------------------------------------
(* The sweeps over ranges.  A list is worked through place by place, and   *)
(* each of the loops is described by what its state says of the places     *)
(* passed.                                                                 *)

\* Sets of places that hold 0, and with every place the next, hold them all.
LEMMA AllPlaces ==
    ASSUME NEW N \in Nat, NEW S, 0 \in S, \A i \in 1 .. N : i - 1 \in S => i \in S
    PROVE  \A n \in 0 .. N : n \in S
    <1> TAKE n \in 0 .. N
    <1>1. n \in Nat /\ \A i \in 1 .. n : i - 1 \in S => i \in S
        OBVIOUS
    <1> QED BY <1>1, AllUpTo

\* order puts the elements of S in a row.
Orders(S, order) ==
    /\ \A x \in S : <<x, x>> \notin order
    /\ \A x, y, z \in S : <<x, y>> \in order /\ <<y, z>> \in order => <<x, z>> \in order
    /\ \A x, y \in S : x = y \/ <<x, y>> \in order \/ <<y, x>> \in order

\* list has each element of S at one place, in that order.
Lists(list, S, order) ==
    /\ list \in [1 .. Cardinality(S) -> S]
    /\ \A i, j \in 1 .. Cardinality(S) : i < j => <<list[i], list[j]>> \in order
    /\ \A x \in S : \E i \in 1 .. Cardinality(S) : list[i] = x

\* The place of an element is one more than the number of those before it.
LEMMA PlacesDiffer ==
    ASSUME NEW S, IsFiniteSet(S), NEW order, Orders(S, order)
    PROVE  \E place \in [S -> 1 .. Cardinality(S)] :
               \A x, y \in S : <<x, y>> \in order => place[x] < place[y]
    <1> DEFINE n == Cardinality(S)
               Before(x) == {y \in S : <<y, x>> \in order}
               place == [x \in S |-> Cardinality(Before(x)) + 1]
    <1>1. n \in Nat
        BY FS_CardinalityType
    <1>2. ASSUME NEW x \in S
          PROVE  /\ IsFiniteSet(Before(x)) /\ Cardinality(Before(x)) \in Nat
                 /\ Cardinality(Before(x)) + 1 \in 1 .. n
        <2>1. Before(x) \in SUBSET S /\ x \notin Before(x)
            BY DEF Orders
        <2>2. IsFiniteSet(Before(x)) /\ Cardinality(Before(x)) <= n /\ Cardinality(Before(x)) # n
            BY <2>1, FS_Subset
        <2>3. Cardinality(Before(x)) \in Nat
            BY <2>2, FS_CardinalityType
        <2> HIDE DEF Before, n
        <2> QED BY <1>1, <2>2, <2>3
    <1>3. place \in [S -> 1 .. n]
        BY <1>2
    <1>4. ASSUME NEW x \in S, NEW y \in S, <<x, y>> \in order
          PROVE  place[x] < place[y]
        <2>1. Before(x) \in SUBSET Before(y) /\ x \in Before(y) /\ x \notin Before(x)
            BY <1>4 DEF Orders
        <2>2. IsFiniteSet(Before(y))
            BY <1>2
        <2> HIDE DEF Before
        <2>3. Cardinality(Before(x)) <= Cardinality(Before(y)) /\ Cardinality(Before(x)) # Cardinality(Before(y))
            BY <2>1, <2>2, FS_Subset
        <2>4. place[x] = Cardinality(Before(x)) + 1 /\ place[y] = Cardinality(Before(y)) + 1
            OBVIOUS
        <2>5. Cardinality(Before(x)) \in Nat /\ Cardinality(Before(y)) \in Nat
            BY <1>2
        <2> QED BY <2>3, <2>4, <2>5
    <1> QED BY <1>3, <1>4

\* sorted finds such a list.
LEMMA OrderedLists ==
    ASSUME NEW S, IsFiniteSet(S), NEW order, Orders(S, order)
    PROVE  /\ Cardinality(S) \in Nat
           /\ Lists(Ordered(S, order), S, order)
    <1> DEFINE n == Cardinality(S)
               Rising(list) == \A i, j \in 1 .. n : i < j => <<list[i], list[j]>> \in order
    <1>1. n \in Nat
        BY FS_CardinalityType
    <1>2. PICK place \in [S -> 1 .. n] :
              \A x, y \in S : <<x, y>> \in order => place[x] < place[y]
        BY PlacesDiffer
    <1>3. \A x, y \in S : place[x] = place[y] => x = y
        <2> TAKE x, y \in S
        <2> HIDE DEF n
        <2>1. place[x] \in Int /\ place[y] \in Int
            BY <1>1, <1>2
        <2>2. x = y \/ <<x, y>> \in order \/ <<y, x>> \in order
            BY DEF Orders
        <2> HAVE place[x] = place[y]
        <2>3. ~(place[x] < place[y]) /\ ~(place[y] < place[x])
            BY <2>1
        <2> QED BY <1>2, <2>2, <2>3
    <1>4. IsFiniteSet(1 .. n) /\ Cardinality(1 .. n) = n
        BY <1>1, FS_Interval
    <1>5. place \in Surjection(S, 1 .. n)
        <2>1. place \in Injection(S, 1 .. n)
            BY <1>2, <1>3 DEF Injection, IsInjective
        <2> HIDE DEF n
        <2> QED BY <1>4, <2>1, FS_Injection DEF n
    <1>6. \A i \in 1 .. n : \E x \in S : place[x] = i
        BY <1>5 DEF Surjection
    <1> DEFINE found == [i \in 1 .. n |-> CHOOSE x \in S : place[x] = i]
    <1>7. \A i \in 1 .. n : found[i] \in S /\ place[found[i]] = i
        BY <1>6
    <1>8. found \in [1 .. n -> S]
        BY <1>7
    <1>9. Rising(found)
        <2> TAKE i, j \in 1 .. n
        <2> HAVE i < j
        <2> HIDE DEF found
        <2>1. found[i] \in S /\ found[j] \in S /\ place[found[i]] = i /\ place[found[j]] = j
            BY <1>7
        <2>2. <<found[j], found[i]>> \notin order /\ found[i] # found[j]
            BY <1>1, <1>2, <2>1
        <2> QED BY <2>1, <2>2 DEF Orders
    <1>10. \E list \in [1 .. n -> S] : Rising(list)
        BY <1>8, <1>9
    <1> DEFINE list == Ordered(S, order)
    <1>11. list \in [1 .. n -> S] /\ Rising(list)
        BY <1>10 DEF Ordered
    <1> HIDE DEF list
    <1>12. ASSUME NEW i \in 1 .. n, NEW j \in 1 .. n, list[i] = list[j]  PROVE i = j
        <2>1. list[i] \in S /\ <<list[i], list[i]>> \notin order
            BY <1>11 DEF Orders
        <2>2. ~(i < j) /\ ~(j < i)
            BY <1>11, <1>12, <2>1
        <2> HIDE DEF n
        <2> QED BY <1>1, <2>2
    <1>13. list \in Injection(1 .. n, S)
        BY <1>11, <1>12 DEF Injection, IsInjective
    <1>14. list \in Surjection(1 .. n, S)
        BY <1>4, <1>13, FS_Injection
    <1>15. \A x \in S : \E i \in 1 .. n : list[i] = x
        BY <1>14 DEF Surjection
    <1> QED BY <1>1, <1>11, <1>15 DEF Lists, list

\* sorted on pairs and on instants.
LEMMA SortedLists ==
    ASSUME NEW ranges \in SUBSET (Int \X Int), IsFiniteSet(ranges)
    PROVE  LET n == Cardinality(ranges)
               list == Sorted(ranges)
           IN  /\ n \in Nat
               /\ list \in [1 .. n -> ranges]
               /\ \A i, j \in 1 .. n : i < j => list[i][1] <= list[j][1]
               /\ \A r \in ranges : \E i \in 1 .. n : list[i] = r
    <1> DEFINE order == {p \in ranges \X ranges : Precedes(p[1], p[2])}
    <1>1. \A p, q \in ranges : <<p, q>> \in order <=> Precedes(p, q)
        OBVIOUS
    <1>2. \A p \in ranges : p[1] \in Int /\ p[2] \in Int /\ p = <<p[1], p[2]>>
        OBVIOUS
    <1>3. Orders(ranges, order)
        <2> HIDE DEF order
        <2>1. \A p \in ranges : ~Precedes(p, p)
            BY <1>2 DEF Precedes
        <2>2. \A p, q, r \in ranges : Precedes(p, q) /\ Precedes(q, r) => Precedes(p, r)
            BY <1>2 DEF Precedes
        <2>3. \A p, q \in ranges : p = q \/ Precedes(p, q) \/ Precedes(q, p)
            BY <1>2 DEF Precedes
        <2> QED BY <1>1, <2>1, <2>2, <2>3 DEF Orders
    <1>4. Cardinality(ranges) \in Nat /\ Lists(Sorted(ranges), ranges, order)
        BY <1>3, OrderedLists DEF Sorted
    <1>5. \A p, q \in ranges : Precedes(p, q) => p[1] <= q[1]
        BY <1>2 DEF Precedes
    <1> HIDE DEF order
    <1> QED BY <1>1, <1>4, <1>5 DEF Lists

LEMMA InOrderLists ==
    ASSUME NEW times \in SUBSET Int, IsFiniteSet(times)
    PROVE  LET n == Cardinality(times)
               list == InOrder(times)
           IN  /\ n \in Nat
               /\ list \in [1 .. n -> times]
               /\ \A i, j \in 1 .. n : i < j => list[i] < list[j]
               /\ \A t \in times : \E i \in 1 .. n : list[i] = t
    <1> DEFINE order == {p \in times \X times : p[1] < p[2]}
    <1>1. \A p, q \in times : <<p, q>> \in order <=> p < q
        OBVIOUS
    <1>2. Orders(times, order)
        <2> HIDE DEF order
        <2> QED BY <1>1 DEF Orders
    <1>3. Cardinality(times) \in Nat /\ Lists(InOrder(times), times, order)
        BY <1>2, OrderedLists DEF InOrder
    <1> HIDE DEF order
    <1> QED BY <1>1, <1>3 DEF Lists

\* The first and the last of finitely many instants.
LEMMA LeastIs ==
    ASSUME NEW S \in SUBSET Int, NEW x \in S, \A y \in S : x <= y
    PROVE  Min(S) = x
    <1>1. Min(S) \in S /\ \A y \in S : Min(S) <= y
        BY DEF Min
    <1>2. x \in Int /\ Min(S) \in Int /\ x <= Min(S) /\ Min(S) <= x
        BY <1>1
    <1> QED BY ONLY <1>2

LEMMA GreatestIs ==
    ASSUME NEW S \in SUBSET Int, NEW x \in S, \A y \in S : y <= x
    PROVE  Max(S) = x
    <1>1. \A y \in S : x >= y
        OBVIOUS
    <1>2. Max(S) \in S /\ \A y \in S : Max(S) >= y
        BY <1>1 DEF Max
    <1>3. x \in Int /\ Max(S) \in Int /\ x <= Max(S) /\ Max(S) <= x
        BY <1>2
    <1> QED BY ONLY <1>3

LEMMA LargerIs ==
    ASSUME NEW x \in Int, NEW y \in Int
    PROVE  Max({x, y}) = IF x <= y THEN y ELSE x
    <1>1. CASE x <= y
        <2>1. Max({x, y}) = y
            BY <1>1, GreatestIs
        <2> QED BY <1>1, <2>1
    <1>2. CASE ~(x <= y)
        <2>1. Max({x, y}) = x
            BY <1>2, GreatestIs
        <2> QED BY <1>2, <2>1
    <1> QED BY <1>1, <1>2

LEMMA SmallerIs ==
    ASSUME NEW x \in Int, NEW y \in Int
    PROVE  Min({x, y}) = IF x <= y THEN x ELSE y
    <1>1. CASE x <= y
        <2>1. Min({x, y}) = x
            BY <1>1, LeastIs
        <2> QED BY <1>1, <2>1
    <1>2. CASE ~(x <= y)
        <2>1. Min({x, y}) = y
            BY <1>2, LeastIs
        <2> QED BY <1>2, <2>1
    <1> QED BY <1>1, <1>2

LEMMA Extremes ==
    ASSUME NEW S \in SUBSET Int, IsFiniteSet(S), S # {}
    PROVE  /\ Min(S) \in S /\ \A y \in S : Min(S) <= y
           /\ Max(S) \in S /\ \A y \in S : y <= Max(S)
    <1> DEFINE n == Cardinality(S)
               list == InOrder(S)
    <1>1. /\ n \in Nat /\ list \in [1 .. n -> S]
          /\ \A i, j \in 1 .. n : i < j => list[i] < list[j]
          /\ \A t \in S : \E i \in 1 .. n : list[i] = t
        BY InOrderLists
    <1> HIDE DEF n, list
    <1>2. 1 \in 1 .. n /\ n \in 1 .. n /\ \A i \in 1 .. n : list[i] \in Int
        <2>1. \E i \in 1 .. n : TRUE
            BY <1>1
        <2>2. \A i \in 1 .. n : list[i] \in Int
            BY <1>1
        <2> QED BY <1>1, <2>1, <2>2
    <1>3. list[1] \in S /\ \A y \in S : list[1] <= y
        <2>1. ASSUME NEW i \in 1 .. n  PROVE list[1] <= list[i]
            <3>1. i = 1 \/ 1 < i
                BY <1>1
            <3> QED BY <1>1, <1>2, <3>1
        <2> QED BY <1>1, <1>2, <2>1
    <1>4. list[n] \in S /\ \A y \in S : y <= list[n]
        <2>1. ASSUME NEW i \in 1 .. n  PROVE list[i] <= list[n]
            <3>1. i = n \/ i < n
                BY <1>1
            <3> QED BY <1>1, <1>2, <3>1
        <2> QED BY <1>1, <1>2, <2>1
    <1> QED BY <1>3, <1>4, LeastIs, GreatestIs

-----------------------------------------------------------------------------
(* Merging.                                                                *)

Within(t, r) == r[1] <= t /\ t <= r[2]
Spans(list, t) == \E i \in 1 .. Len(list) : Within(t, list[i])

\* Ranges with instants between them, in order.
Gapped(m) ==
    /\ m \in Seq(Int \X Int)
    /\ \A i \in 1 .. Len(m) : m[i][1] <= m[i][2]
    /\ \A i, j \in 1 .. Len(m) : i < j => m[i][2] + 1 < m[j][1]

\* A range that starts after the others adds itself and no more.
JoinedTo(n, m, r) ==
    /\ Gapped(n)
    /\ \A i \in 1 .. Len(n) : n[i][1] <= r[1]
    /\ \A t \in Int : Spans(n, t) <=> Spans(m, t) \/ Within(t, r)

LEMMA JoinedIs ==
    ASSUME NEW m, Gapped(m), NEW r \in Int \X Int, \A i \in 1 .. Len(m) : m[i][1] <= r[1]
    PROVE  JoinedTo(Joined(m, r), m, r)
    <1> DEFINE k == Len(m)
               n == Joined(m, r)
    <1>1. /\ m \in Seq(Int \X Int) /\ k \in Nat /\ r[1] \in Int /\ r[2] \in Int
          /\ \A i \in 1 .. k : m[i] \in Int \X Int /\ m[i][1] \in Int /\ m[i][2] \in Int
        BY DEF Gapped
    <1>2. CASE r[2] < r[1]
        <2>1. n = m
            BY <1>2 DEF Joined
        <2>2. \A t \in Int : ~Within(t, r)
            BY <1>1, <1>2 DEF Within
        <2> QED BY <2>1, <2>2 DEF JoinedTo
    <1>3. CASE r[1] <= r[2] /\ (m = <<>> \/ r[1] > m[k][2] + 1)
        <2>1. n = Append(m, r)
            BY <1>1, <1>3 DEF Joined, Last
        <2>2. /\ n \in Seq(Int \X Int) /\ Len(n) = k + 1 /\ n[k + 1] = r
              /\ \A i \in 1 .. k : n[i] = m[i]
            BY <1>1, <2>1
        <2> HIDE DEF n
        <2>3. \A i \in 1 .. k : m[i][2] + 1 < r[1]
            <3> TAKE i \in 1 .. k
            <3>1. k \in 1 .. k /\ m # <<>>
                BY <1>1
            <3>2. m[i][2] <= m[k][2]
                <4>1. CASE i = k
                    BY <1>1, <4>1
                <4>2. CASE i < k
                    <5>1. m[i][2] + 1 < m[k][1] /\ m[k][1] <= m[k][2]
                        BY <3>1, <4>2 DEF Gapped
                    <5>2. m[i][2] \in Int /\ m[k][1] \in Int /\ m[k][2] \in Int
                        BY <1>1, <3>1
                    <5> QED BY ONLY <5>1, <5>2
                <4> QED BY <1>1, <4>1, <4>2
            <3> QED BY <1>1, <1>3, <3>1, <3>2
        <2>4. Gapped(n)
            <3>1. \A i \in 1 .. k + 1 : i = k + 1 \/ i \in 1 .. k
                BY <1>1
            <3>2. \A i \in 1 .. Len(n) : n[i][1] <= n[i][2]
                BY <1>3, <2>2, <3>1 DEF Gapped
            <3>3. ASSUME NEW i \in 1 .. Len(n), NEW j \in 1 .. Len(n), i < j
                  PROVE  n[i][2] + 1 < n[j][1]
                <4>1. i \in 1 .. k
                    BY <1>1, <2>2, <3>3
                <4>2. CASE j = k + 1
                    BY <2>2, <2>3, <4>1, <4>2
                <4>3. CASE j \in 1 .. k
                    BY <2>2, <3>3, <4>1, <4>3 DEF Gapped
                <4> QED BY <2>2, <3>1, <4>2, <4>3
            <3> QED BY <2>2, <3>2, <3>3 DEF Gapped
        <2>5. \A i \in 1 .. Len(n) : n[i][1] <= r[1]
            <3>1. \A i \in 1 .. k + 1 : i = k + 1 \/ i \in 1 .. k
                BY <1>1
            <3>2. r[1] <= r[1]
                BY <1>1
            <3> QED BY <2>2, <3>1, <3>2
        <2>6. \A t \in Int : Spans(n, t) <=> Spans(m, t) \/ Within(t, r)
            <3> TAKE t \in Int
            <3>1. \A i \in 1 .. k + 1 : i = k + 1 \/ i \in 1 .. k
                BY <1>1
            <3>2. k + 1 \in 1 .. k + 1 /\ \A i \in 1 .. k : i \in 1 .. k + 1
                BY <1>1
            <3>3. ASSUME NEW i \in 1 .. k + 1, Within(t, n[i])
                  PROVE  Spans(m, t) \/ Within(t, r)
                BY <2>2, <3>1, <3>3 DEF Spans
            <3>4. ASSUME NEW i \in 1 .. k, Within(t, m[i])  PROVE Spans(n, t)
                <4>1. i \in 1 .. Len(n) /\ n[i] = m[i]
                    BY <2>2, <3>2
                <4> QED BY <3>4, <4>1 DEF Spans
            <3>5. ASSUME Within(t, r)  PROVE Spans(n, t)
                BY <2>2, <3>2, <3>5 DEF Spans
            <3>6. Spans(n, t) => \E i \in 1 .. k + 1 : Within(t, n[i])
                BY <2>2 DEF Spans
            <3>7. Spans(m, t) => \E i \in 1 .. k : Within(t, m[i])
                BY DEF Spans
            <3> HIDE DEF k
            <3> QED BY <3>3, <3>4, <3>5, <3>6, <3>7
        <2> QED BY <2>4, <2>5, <2>6 DEF JoinedTo, n
    <1>4. CASE r[1] <= r[2] /\ m # <<>> /\ ~(r[1] > m[k][2] + 1)
        <2> DEFINE last == Max({m[k][2], r[2]})
        <2>1. k \in 1 .. k
            BY <1>1, <1>4
        <2>2. last \in Int /\ last = IF m[k][2] <= r[2] THEN r[2] ELSE m[k][2]
            <3>1. m[k][2] \in Int /\ r[2] \in Int
                BY <1>1, <2>1
            <3> QED BY ONLY <3>1, LargerIs DEF last
        <2>3. n = [m EXCEPT ![k] = <<m[k][1], last>>]
            BY <1>1, <1>4 DEF Joined, Last
        <2> HIDE DEF last
        <2>4. /\ n \in Seq(Int \X Int) /\ Len(n) = k /\ n[k][1] = m[k][1] /\ n[k][2] = last
              /\ \A i \in 1 .. k - 1 : n[i] = m[i]
            BY <1>1, <2>1, <2>2, <2>3
        <2> HIDE DEF n
        <2>5. \A i \in 1 .. k : i = k \/ i \in 1 .. k - 1
            BY <1>1
        <2>6. Gapped(n)
            <3>1. m[k][1] <= last
                BY <1>1, <2>1, <2>2 DEF Gapped
            <3>2. \A i \in 1 .. Len(n) : n[i][1] <= n[i][2]
                BY <2>4, <2>5, <3>1 DEF Gapped
            <3>3. ASSUME NEW i \in 1 .. Len(n), NEW j \in 1 .. Len(n), i < j
                  PROVE  n[i][2] + 1 < n[j][1]
                <4>1. i \in 1 .. k - 1 /\ i \in 1 .. k /\ j \in 1 .. k
                    BY <1>1, <2>4, <3>3
                <4>2. m[i][2] + 1 < m[j][1]
                    BY <3>3, <4>1 DEF Gapped
                <4>3. n[i] = m[i] /\ n[j][1] = m[j][1]
                    BY <2>4, <2>5, <4>1
                <4> QED BY <4>2, <4>3
            <3> QED BY <2>4, <3>2, <3>3 DEF Gapped
        <2>7. \A i \in 1 .. Len(n) : n[i][1] <= r[1]
            BY <2>4, <2>5, <2>1
        <2>8. \A t \in Int : Spans(n, t) <=> Spans(m, t) \/ Within(t, r)
            <3> TAKE t \in Int
            <3>1. m[k][1] <= r[1] /\ m[k][1] \in Int /\ m[k][2] \in Int /\ m[k][1] <= m[k][2]
                BY <1>1, <2>1 DEF Gapped
            <3>2. Within(t, n[k]) <=> Within(t, m[k]) \/ Within(t, r)
                <4>1. /\ Within(t, n[k]) <=> m[k][1] <= t /\ t <= last
                      /\ Within(t, m[k]) <=> m[k][1] <= t /\ t <= m[k][2]
                      /\ Within(t, r) <=> r[1] <= t /\ t <= r[2]
                    BY <2>4 DEF Within
                <4>2. r[1] \in Int /\ r[2] \in Int /\ r[1] <= m[k][2] + 1
                    BY <1>1, <1>4, <3>1
                <4>3. t \in Int
                    OBVIOUS
                <4> QED BY ONLY <2>2, <3>1, <4>1, <4>2, <4>3, SMTT(30)
            <3>3. \A i \in 1 .. k - 1 : i \in 1 .. k
                BY <1>1
            <3>4. ASSUME NEW i \in 1 .. k, Within(t, n[i])
                  PROVE  Spans(m, t) \/ Within(t, r)
                BY <2>4, <2>5, <3>2, <3>4 DEF Spans
            <3>5. ASSUME NEW i \in 1 .. k, Within(t, m[i])  PROVE Spans(n, t)
                <4>1. Within(t, n[i])
                    BY <2>4, <2>5, <3>2, <3>5
                <4> QED BY <2>4, <4>1 DEF Spans
            <3>6. ASSUME Within(t, r)  PROVE Spans(n, t)
                BY <2>1, <2>4, <3>2, <3>6 DEF Spans
            <3>7. Spans(n, t) => \E i \in 1 .. k : Within(t, n[i])
                BY <2>4 DEF Spans
            <3>8. Spans(m, t) => \E i \in 1 .. k : Within(t, m[i])
                BY DEF Spans
            <3> HIDE DEF k
            <3> QED BY <3>4, <3>5, <3>6, <3>7, <3>8
        <2> QED BY <2>6, <2>7, <2>8 DEF JoinedTo, n
    <1> QED BY <1>1, <1>2, <1>3, <1>4

\* The ranges of a list in order, merged one after the other.
Merges(f, list, n) ==
    /\ f[0] = <<>>
    /\ \A i \in 1 .. n : f[i] = Joined(f[i - 1], list[i])

LEMMA MergedUnfold ==
    ASSUME NEW ranges, Cardinality(ranges) \in Nat
    PROVE  \E f : /\ Merges(f, Sorted(ranges), Cardinality(ranges))
                  /\ Merged(ranges) = f[Cardinality(ranges)]
    <1> DEFINE N == Cardinality(ranges)
               list == Sorted(ranges)
               Is(f, n) == f = [i \in 0 .. n |-> IF i = 0 THEN <<>> ELSE Joined(f[i - 1], list[i])]
               S == {n \in 0 .. N : \E f : Is(f, n)}
               C == CHOOSE f : Is(f, N)
    <1>0. N \in Nat
        OBVIOUS
    <1>1. Merged(ranges) = C[N]
        BY DEF Merged
    <1> HIDE DEF C, N, list
    <1>2. 0 \in S
        <2> DEFINE g == [i \in 0 .. 0 |-> <<>>]
        <2>1. g = [i \in 0 .. 0 |-> IF i = 0 THEN <<>> ELSE Joined(g[i - 1], list[i])]
            OBVIOUS
        <2>2. \E f : Is(f, 0)
            BY <2>1
        <2> QED BY <1>0, <2>2
    <1>3. ASSUME NEW n \in 1 .. N, n - 1 \in S  PROVE n \in S
        <2>1. PICK f : Is(f, n - 1)
            BY <1>3
        <2> DEFINE g == [i \in 0 .. n |-> IF i = n THEN Joined(f[n - 1], list[n]) ELSE f[i]]
        <2>2. ASSUME NEW i \in 0 .. n  PROVE g[i] = IF i = 0 THEN <<>> ELSE Joined(g[i - 1], list[i])
            <3>1. CASE i = n
                BY <1>0, <3>1
            <3>2. CASE i # n
                <4>1. i \in 0 .. n - 1 /\ (i # 0 => i - 1 \in 0 .. n /\ i - 1 # n)
                    BY <1>0, <3>2
                <4>2. f[i] = IF i = 0 THEN <<>> ELSE Joined(f[i - 1], list[i])
                    BY <2>1, <4>1
                <4> QED BY <3>2, <4>1, <4>2
            <3> QED BY <3>1, <3>2
        <2>3. g = [i \in 0 .. n |-> IF i = 0 THEN <<>> ELSE Joined(g[i - 1], list[i])]
            BY <2>2
        <2>4. \E h : Is(h, n)
            BY <2>3
        <2> QED BY <1>0, <2>4
    <1>4. N \in S
        <2> HIDE DEF S
        <2> QED BY <1>0, <1>2, <1>3, AllUpTo
    <1>5. Is(C, N)
        BY <1>4 DEF C
    <1>6. Merges(C, list, N)
        BY <1>0, <1>5 DEF Merges
    <1> QED BY <1>1, <1>6 DEF N, list

\* Merging leaves ranges with gaps between them, and the same instants.
LEMMA MergedIs ==
    ASSUME NEW ranges \in SUBSET (Int \X Int), IsFiniteSet(ranges)
    PROVE  /\ Gapped(Merged(ranges))
           /\ \A t \in Int : Spans(Merged(ranges), t) <=> \E r \in ranges : Within(t, r)
    <1> DEFINE n == Cardinality(ranges)
               list == Sorted(ranges)
    <1>1. /\ n \in Nat
          /\ list \in [1 .. n -> ranges]
          /\ \A i, j \in 1 .. n : i < j => list[i][1] <= list[j][1]
          /\ \A r \in ranges : \E i \in 1 .. n : list[i] = r
        BY SortedLists
    <1>2. PICK f : Merges(f, list, n) /\ Merged(ranges) = f[n]
        BY <1>1, MergedUnfold
    <1> DEFINE Passed(i) ==
                   /\ Gapped(f[i])
                   /\ \A j \in 1 .. Len(f[i]), l \in 1 .. n : i < l => f[i][j][1] <= list[l][1]
                   /\ \A t \in Int : Spans(f[i], t) <=> \E j \in 1 .. i : Within(t, list[j])
               S == {i \in 0 .. n : Passed(i)}
    <1> HIDE DEF n, list
    <1>3. 0 \in S
        <2>1. f[0] = <<>>
            BY <1>2 DEF Merges
        <2>2. Passed(0)
            BY <2>1 DEF Gapped, Spans
        <2> QED BY <1>1, <2>2
    <1>4. ASSUME NEW i \in 1 .. n, i - 1 \in S  PROVE i \in S
        <2>1. list[i] \in Int \X Int /\ i \in Int /\ n \in Int /\ i - 1 < i
            BY <1>1
        <2>2. f[i] = Joined(f[i - 1], list[i])
            BY <1>2 DEF Merges
        <2>3. Passed(i - 1)
            BY <1>4
        <2>4. JoinedTo(f[i], f[i - 1], list[i])
            <3>1. Gapped(f[i - 1]) /\ \A j \in 1 .. Len(f[i - 1]) : f[i - 1][j][1] <= list[i][1]
                BY <2>1, <2>3
            <3> QED BY ONLY <2>1, <2>2, <3>1, JoinedIs
        <2>5. Gapped(f[i])
            BY <2>4 DEF JoinedTo
        <2>6. ASSUME NEW j \in 1 .. Len(f[i]), NEW l \in 1 .. n, i < l
              PROVE  f[i][j][1] <= list[l][1]
            <3>1. f[i][j][1] <= list[i][1] /\ list[i][1] <= list[l][1]
                BY <1>1, <2>4, <2>6 DEF JoinedTo
            <3>2. f[i][j][1] \in Int /\ list[i][1] \in Int /\ list[l][1] \in Int
                BY <1>1, <2>5 DEF Gapped
            <3> QED BY ONLY <3>1, <3>2
        <2>7. ASSUME NEW t \in Int
              PROVE  Spans(f[i], t) <=> \E j \in 1 .. i : Within(t, list[j])
            <3>1. Spans(f[i], t) <=> Spans(f[i - 1], t) \/ Within(t, list[i])
                BY <2>4 DEF JoinedTo
            <3>2. Spans(f[i - 1], t) <=> \E j \in 1 .. i - 1 : Within(t, list[j])
                BY <2>3
            <3>3. \A j \in 1 .. i : j = i \/ j \in 1 .. i - 1
                BY <2>1
            <3>4. i \in 1 .. i /\ \A j \in 1 .. i - 1 : j \in 1 .. i
                BY <2>1
            <3> QED BY <3>1, <3>2, <3>3, <3>4
        <2> QED BY <2>5, <2>6, <2>7
    <1>5. n \in S
        <2> HIDE DEF S
        <2> QED BY <1>1, <1>3, <1>4, AllUpTo
    <1>6. \A t \in Int : (\E j \in 1 .. n : Within(t, list[j])) <=> \E r \in ranges : Within(t, r)
        BY <1>1
    <1> QED BY <1>2, <1>5, <1>6

\* Such a list holds the maximal ranges of its instants.
LEMMA GappedRanges ==
    ASSUME NEW m, Gapped(m), NEW U \in SUBSET Int, \A t \in Int : Spans(m, t) <=> t \in U
    PROVE  ToSet(m) = RangesOf(U)
    <1> DEFINE n == Len(m)
    <1>1. /\ n \in Nat /\ DOMAIN m = 1 .. n
          /\ \A i \in 1 .. n : /\ m[i][1] \in Int /\ m[i][2] \in Int /\ m[i] = <<m[i][1], m[i][2]>>
                               /\ m[i][1] <= m[i][2]
          /\ \A i, j \in 1 .. n : i < j => m[i][2] + 1 < m[j][1]
        BY DEF Gapped
    <1>2. \A t \in Int : t \in U <=> \E i \in 1 .. n : Within(t, m[i])
        BY DEF Spans
    <1> HIDE DEF n
    <1>3. ASSUME NEW i \in 1 .. n
          PROVE  /\ \A t \in Int : Within(t, m[i]) => t \in U
                 /\ m[i][1] - 1 \notin U /\ m[i][2] + 1 \notin U
        <2>1. \A t \in Int : Within(t, m[i]) => t \in U
            BY <1>2
        <2>2. ASSUME NEW t \in U, t = m[i][1] - 1 \/ t = m[i][2] + 1  PROVE FALSE
            <3>1. PICK j \in 1 .. n : Within(t, m[j])
                BY <1>2
            <3>2. j = i \/ j < i \/ i < j
                BY <1>1
            <3>3. /\ m[i][1] \in Int /\ m[i][2] \in Int /\ m[j][1] \in Int /\ m[j][2] \in Int
                  /\ m[j][1] <= t /\ t <= m[j][2] /\ t \in Int
                  /\ m[i][1] <= m[i][2] /\ m[j][1] <= m[j][2]
                BY <1>1, <3>1 DEF Within
            <3>4. j < i => m[j][2] + 1 < m[i][1]
                BY <1>1
            <3>5. i < j => m[i][2] + 1 < m[j][1]
                BY <1>1
            <3> QED BY ONLY <2>2, <3>2, <3>3, <3>4, <3>5
        <2> QED BY <2>1, <2>2
    <1>4. ASSUME NEW i \in 1 .. n  PROVE m[i] \in RangesOf(U)
        <2>1. m[i][1] .. m[i][2] \subseteq U
            BY <1>1, <1>3 DEF Within
        <2>2. m[i][1] \in U /\ m[i][2] \in U
            BY <1>1, <2>1
        <2>3. m[i] \in U \X U
            <3>1. m[i] = <<m[i][1], m[i][2]>>
                BY <1>1
            <3> QED BY <2>2, <3>1
        <2>4. m[i][1] <= m[i][2] /\ m[i][1] - 1 \notin U /\ m[i][2] + 1 \notin U
            BY <1>1, <1>3
        <2> QED BY <2>1, <2>3, <2>4, Zenon DEF RangesOf
    <1>5. ASSUME NEW r \in RangesOf(U)  PROVE \E i \in 1 .. n : r = m[i]
        <2>1. /\ r = <<r[1], r[2]>> /\ r[1] \in U /\ r[2] \in U /\ r[1] <= r[2]
              /\ r[1] .. r[2] \subseteq U /\ r[1] - 1 \notin U /\ r[2] + 1 \notin U
              /\ r[1] \in Int /\ r[2] \in Int
            <3>1. r \in U \X U
                BY DEF RangesOf
            <3>2. /\ r[1] <= r[2] /\ r[1] .. r[2] \subseteq U
                  /\ r[1] - 1 \notin U /\ r[2] + 1 \notin U
                <4>1. r \in RangesOf(U)
                    OBVIOUS
                <4> QED BY ONLY <4>1, SMTT(20) DEF RangesOf
            <3>3. r = <<r[1], r[2]>> /\ r[1] \in U /\ r[2] \in U
                BY ONLY <3>1
            <3>4. r[1] \in Int /\ r[2] \in Int
                BY <3>3
            <3> QED BY ONLY <3>2, <3>3, <3>4
        <2>2. PICK i \in 1 .. n : Within(r[1], m[i])
            BY <1>2, <2>1
        <2>3. m[i][1] = r[1]
            <3>1. r[1] - 1 \in Int /\ ~Within(r[1] - 1, m[i])
                BY <1>3, <2>1
            <3> QED BY <1>1, <2>1, <2>2, <3>1 DEF Within
        <2>4. m[i][2] >= r[2]
            <3>1. CASE m[i][2] < r[2]
                <4>1. m[i][2] + 1 \in r[1] .. r[2]
                    BY <1>1, <2>1, <2>3, <3>1
                <4> QED BY <1>3, <2>1, <4>1
            <3> QED BY <1>1, <2>1, <3>1
        <2>5. m[i][2] <= r[2]
            <3>1. r[2] + 1 \in Int /\ ~Within(r[2] + 1, m[i])
                BY <1>3, <2>1
            <3> QED BY <1>1, <2>1, <2>3, <3>1 DEF Within
        <2> QED BY <1>1, <2>1, <2>3, <2>4, <2>5
    <1>6. ToSet(m) = {m[i] : i \in 1 .. n}
        BY <1>1 DEF ToSet
    <1> QED BY <1>4, <1>5, <1>6

\* The maximal ranges of finitely many instants hold these and no other.
LEMMA RangesCover ==
    ASSUME NEW U \in SUBSET Int, IsFiniteSet(U)
    PROVE  /\ RangesOf(U) \in SUBSET (Int \X Int) /\ IsFiniteSet(RangesOf(U))
           /\ \A t \in Int : (\E r \in RangesOf(U) : Within(t, r)) <=> t \in U
    <1>1. RangesOf(U) \in SUBSET (U \X U)
        BY DEF RangesOf
    <1>2. IsFiniteSet(RangesOf(U))
        BY <1>1, FS_Product, FS_Subset
    <1>3. ASSUME NEW r \in RangesOf(U)
          PROVE  /\ r[1] \in Int /\ r[2] \in Int /\ r[1] .. r[2] \subseteq U
        <2>1. r[1] \in U /\ r[2] \in U
            BY <1>1
        <2>2. r \in RangesOf(U)
            OBVIOUS
        <2>3. r[1] .. r[2] \subseteq U
            BY ONLY <2>2, SMTT(20) DEF RangesOf
        <2> QED BY <2>1, <2>3
    <1>4. ASSUME NEW t \in U  PROVE \E r \in RangesOf(U) : Within(t, r)
        <2> DEFINE L == {a \in U : a <= t /\ a .. t \subseteq U}
                   R == {b \in U : t <= b /\ t .. b \subseteq U}
                   a == Min(L)
                   b == Max(R)
        <2>1. t \in L /\ t \in R /\ t \in Int
            OBVIOUS
        <2>2. IsFiniteSet(L) /\ IsFiniteSet(R) /\ L \in SUBSET Int /\ R \in SUBSET Int
            <3>1. L \in SUBSET U /\ R \in SUBSET U
                OBVIOUS
            <3> QED BY <3>1, FS_Subset
        <2>3. a \in L /\ (\A y \in L : a <= y) /\ b \in R /\ (\A y \in R : y <= b)
            <3> HIDE DEF L, R
            <3> QED BY <2>1, <2>2, Extremes
        <2> HIDE DEF a, b
        <2>4. a \in U /\ b \in U /\ a \in Int /\ b \in Int /\ a <= t /\ t <= b
            BY <2>3
        <2>5. a .. b \subseteq U
            <3>1. \A i \in a .. b : i \in a .. t \/ i \in t .. b
                BY <2>1, <2>4
            <3> QED BY <2>3, <3>1
        <2>6. a - 1 \notin U
            <3>1. ASSUME a - 1 \in U  PROVE a - 1 \in L
                <4>1. \A i \in (a - 1) .. t : i = a - 1 \/ i \in a .. t
                    BY <2>1, <2>4
                <4> QED BY <2>3, <2>4, <3>1, <4>1
            <3>2. ~(a <= a - 1)
                BY <2>4
            <3> QED BY <2>3, <3>1, <3>2
        <2>7. b + 1 \notin U
            <3>1. ASSUME b + 1 \in U  PROVE b + 1 \in R
                <4>1. \A i \in t .. (b + 1) : i = b + 1 \/ i \in t .. b
                    BY <2>1, <2>4
                <4> QED BY <2>3, <2>4, <3>1, <4>1
            <3>2. ~(b + 1 <= b)
                BY <2>4
            <3> QED BY <2>3, <3>1, <3>2
        <2>8. <<a, b>> \in RangesOf(U)
            <3>1. <<a, b>> \in U \X U /\ a <= b
                BY <2>1, <2>4
            <3> QED BY <2>5, <2>6, <2>7, <3>1 DEF RangesOf
        <2>9. Within(t, <<a, b>>)
            BY <2>4 DEF Within
        <2> QED BY <2>8, <2>9
    <1>5. \A t \in Int : \A r \in RangesOf(U) : Within(t, r) => t \in U
        BY <1>3 DEF Within
    <1> QED BY <1>1, <1>2, <1>4, <1>5

-----------------------------------------------------------------------------
(* The holes.                                                              *)

\* Ranges between start and end, one after the other.
Holes(h, start, end) ==
    /\ h \in Seq(Int \X Int)
    /\ \A i \in 1 .. Len(h) : start <= h[i][1] /\ h[i][1] <= h[i][2] /\ h[i][2] <= end
    /\ \A i, j \in 1 .. Len(h) : i < j => h[i][2] < h[j][1]

Before(h, cursor) == \A i \in 1 .. Len(h) : h[i][2] < cursor

LEMMA HoleAdded ==
    ASSUME NEW start \in Int, NEW end \in Int, NEW h, Holes(h, start, end),
           NEW a \in Int, NEW b \in Int, Before(h, a), start <= a, a <= b, b <= end
    PROVE  /\ Holes(Append(h, <<a, b>>), start, end)
           /\ \A c \in Int : b < c => Before(Append(h, <<a, b>>), c)
           /\ \A t \in Int : Spans(Append(h, <<a, b>>), t) <=> Spans(h, t) \/ (a <= t /\ t <= b)
    <1> DEFINE n == Append(h, <<a, b>>)
               k == Len(h)
    <1>1. /\ k \in Nat /\ n \in Seq(Int \X Int) /\ Len(n) = k + 1
          /\ n[k + 1][1] = a /\ n[k + 1][2] = b
          /\ \A i \in 1 .. k : n[i] = h[i]
          /\ \A i \in 1 .. k : h[i][1] \in Int /\ h[i][2] \in Int
        BY DEF Holes
    <1>2. \A i \in 1 .. k : start <= h[i][1] /\ h[i][1] <= h[i][2] /\ h[i][2] <= end /\ h[i][2] < a
        BY DEF Holes, Before
    <1>3. \A i, j \in 1 .. k : i < j => h[i][2] < h[j][1]
        BY DEF Holes
    <1>4. \A t \in Int : Spans(h, t) <=> \E i \in 1 .. k : Within(t, h[i])
        BY DEF Spans
    <1> HIDE DEF n, k
    <1>5. /\ \A i \in 1 .. k + 1 : i = k + 1 \/ i \in 1 .. k
          /\ k + 1 \in 1 .. k + 1 /\ \A i \in 1 .. k : i \in 1 .. k + 1 /\ i < k + 1
        BY <1>1
    <1>6. Holes(n, start, end)
        <2>1. ASSUME NEW i \in 1 .. k + 1, NEW j \in 1 .. k + 1, i < j
              PROVE  n[i][2] < n[j][1]
            <3>1. i \in 1 .. k
                BY <1>1, <2>1
            <3> QED BY <1>1, <1>2, <1>3, <1>5, <2>1, <3>1
        <2>2. \A i \in 1 .. k + 1 : start <= n[i][1] /\ n[i][1] <= n[i][2] /\ n[i][2] <= end
            BY <1>1, <1>2, <1>5
        <2> QED BY <1>1, <2>1, <2>2 DEF Holes
    <1>7. ASSUME NEW c \in Int, b < c  PROVE Before(n, c)
        <2>1. \A i \in 1 .. k : h[i][2] < c
            <3> TAKE i \in 1 .. k
            <3>1. h[i][2] \in Int /\ h[i][2] < a
                BY <1>1, <1>2
            <3> QED BY <1>7, <3>1
        <2>2. \A i \in 1 .. k + 1 : n[i][2] < c
            BY <1>1, <1>5, <1>7, <2>1
        <2> QED BY <1>1, <2>2 DEF Before
    <1>8. ASSUME NEW t \in Int
          PROVE  Spans(n, t) <=> Spans(h, t) \/ (a <= t /\ t <= b)
        <2>1. Spans(n, t) <=> \E i \in 1 .. k + 1 : Within(t, n[i])
            BY <1>1 DEF Spans
        <2>2. Within(t, n[k + 1]) <=> a <= t /\ t <= b
            BY <1>1 DEF Within
        <2>3. \A i \in 1 .. k : Within(t, n[i]) <=> Within(t, h[i])
            BY <1>1
        <2> QED BY <1>4, <1>5, <2>1, <2>2, <2>3
    <1> QED BY <1>6, <1>7, <1>8 DEF n

\* Where a sweep from start to end over the ranges of m stands after i of them.
At(x, i, m, start, end) ==
    /\ x.cursor \in Int /\ start <= x.cursor
    /\ Holes(x.holes, start, end) /\ Before(x.holes, x.cursor)
    /\ x.cursor = start \/ \E j \in 1 .. i : x.cursor = m[j][2] + 1
    /\ \A j \in 1 .. i : m[j][2] < x.cursor \/ end < m[j][1]
    /\ \A t \in start .. end :
           t < x.cursor => (Spans(x.holes, t) <=> \A j \in 1 .. i : ~Within(t, m[j]))

LEMMA SweptIs ==
    ASSUME NEW m, Gapped(m), NEW start \in Int, NEW end \in Int, NEW i \in 1 .. Len(m),
           NEW x, At(x, i - 1, m, start, end)
    PROVE  At(Swept(x, m[i], end), i, m, start, end)
    <1> DEFINE r == m[i]
               c == x.cursor
               h == x.holes
               n == Swept(x, m[i], end)
    <1>1. /\ Len(m) \in Nat /\ i \in Int
          /\ \A j \in 1 .. Len(m) : m[j][1] \in Int /\ m[j][2] \in Int /\ m[j][1] <= m[j][2]
          /\ \A j \in 1 .. i - 1 : j \in 1 .. Len(m) /\ m[j][2] + 1 < r[1]
        <2>1. /\ Len(m) \in Nat /\ i \in Int /\ 1 <= i /\ i <= Len(m)
              /\ \A j \in 1 .. Len(m) : m[j][1] \in Int /\ m[j][2] \in Int /\ m[j][1] <= m[j][2]
            BY DEF Gapped
        <2>2. \A j \in 1 .. i - 1 : j \in 1 .. Len(m) /\ j < i
            BY <2>1
        <2>3. \A j \in 1 .. i - 1 : m[j][2] + 1 < r[1]
            BY <2>2 DEF Gapped
        <2> QED BY <2>1, <2>2, <2>3
    <1>2. r[1] \in Int /\ r[2] \in Int /\ r[1] <= r[2] /\ c \in Int /\ start <= c
        BY <1>1 DEF At
    <1>3. Holes(h, start, end) /\ Before(h, c)
        BY DEF At
    <1>4. c = start \/ \E j \in 1 .. i - 1 : c = m[j][2] + 1
        BY DEF At
    <1>5. \A j \in 1 .. i - 1 : m[j][2] < c \/ end < m[j][1]
        BY DEF At
    <1>6. \A t \in start .. end :
              t < c => (Spans(h, t) <=> \A j \in 1 .. i - 1 : ~Within(t, m[j]))
        BY DEF At
    <1>7. c = start \/ c < r[1]
        BY <1>1, <1>2, <1>4
    <1>8. \A t \in start .. end : t < c => ~Within(t, r)
        BY <1>2, <1>7 DEF Within
    <1>9. /\ \A j \in 1 .. i : j = i \/ j \in 1 .. i - 1
          /\ i \in 1 .. i /\ \A j \in 1 .. i - 1 : j \in 1 .. i
        BY <1>1
    <1>10. \A t \in start .. end :
               t < c => (Spans(h, t) <=> \A j \in 1 .. i : ~Within(t, m[j]))
        BY <1>6, <1>8, <1>9
    <1>11. \A t \in start .. end : c <= t => ~Spans(h, t) /\ \A j \in 1 .. i - 1 : ~Within(t, m[j])
        <2> TAKE t \in start .. end
        <2> HAVE c <= t
        <2>1. ~Spans(h, t)
            <3>1. \A j \in 1 .. Len(h) : h[j][2] \in Int /\ h[j][2] < c
                BY <1>3 DEF Holes, Before
            <3> QED BY <1>2, <3>1 DEF Spans, Within
        <2>2. \A j \in 1 .. i - 1 : ~Within(t, m[j])
            <3> TAKE j \in 1 .. i - 1
            <3>1. m[j][1] \in Int /\ m[j][2] \in Int /\ t \in Int /\ t <= end
                BY <1>1
            <3>2. m[j][2] < c \/ end < m[j][1]
                BY <1>5
            <3> HIDE DEF c
            <3> QED BY <1>2, <3>1, <3>2 DEF Within
        <2> QED BY <2>1, <2>2
    <1>12. CASE r[2] < c \/ r[1] > end
        <2>1. n = x
            BY <1>12 DEF Swept
        <2>2. \A j \in 1 .. i : m[j][2] < c \/ end < m[j][1]
            BY <1>2, <1>5, <1>9, <1>12
        <2> HIDE DEF n
        <2> QED BY <1>2, <1>3, <1>4, <1>9, <1>10, <2>1, <2>2 DEF At, n
    <1>13. CASE ~(r[2] < c \/ r[1] > end) /\ r[1] <= c
        <2>1. n = [holes |-> h, cursor |-> r[2] + 1]
            BY <1>13 DEF Swept
        <2>2. n.holes = h /\ n.cursor = r[2] + 1
            BY <2>1
        <2>3. Before(h, r[2] + 1)
            <3> SUFFICES ASSUME NEW j \in 1 .. Len(h)  PROVE h[j][2] < r[2] + 1
                BY DEF Before
            <3>1. h[j][2] \in Int
                BY <1>3 DEF Holes
            <3>2. h[j][2] < c
                BY <1>3 DEF Before
            <3> HIDE DEF c, h
            <3> QED BY <1>2, <1>13, <3>1, <3>2
        <2>4. \A j \in 1 .. i : m[j][2] < r[2] + 1 \/ end < m[j][1]
            BY <1>1, <1>2, <1>5, <1>9, <1>13
        <2>5. \A t \in start .. end :
                  t < r[2] + 1 => (Spans(h, t) <=> \A j \in 1 .. i : ~Within(t, m[j]))
            <3> TAKE t \in start .. end
            <3> HAVE t < r[2] + 1
            <3>1. CASE t < c
                BY <1>10, <3>1
            <3>2. CASE c <= t
                <4>1. Within(t, r)
                    BY <1>2, <1>13, <3>2 DEF Within
                <4> QED BY <1>9, <1>11, <3>2, <4>1
            <3> QED BY <1>2, <3>1, <3>2
        <2> HIDE DEF n, h, c
        <2>6. r[2] + 1 \in Int /\ start <= r[2] + 1
            BY <1>2, <1>13
        <2>7. \E j \in 1 .. i : r[2] + 1 = m[j][2] + 1
            BY <1>9
        <2> QED BY <1>3, <2>2, <2>3, <2>4, <2>5, <2>6, <2>7 DEF At, n
    <1>14. CASE ~(r[2] < c \/ r[1] > end) /\ ~(r[1] <= c)
        <2> DEFINE g == Append(h, <<c, r[1] - 1>>)
        <2>1. Min({r[1] - 1, end}) = r[1] - 1
            <3>1. r[1] - 1 \in Int /\ r[1] - 1 <= end
                BY <1>2, <1>14
            <3> QED BY <3>1, SmallerIs
        <2>2. n = [holes |-> g, cursor |-> r[2] + 1]
            BY <1>14, <2>1 DEF Swept
        <2>3. n.holes = g /\ n.cursor = r[2] + 1
            BY <2>2
        <2> HIDE DEF n, h, c
        <2>4. /\ Holes(g, start, end)
              /\ \A b \in Int : r[1] - 1 < b => Before(g, b)
              /\ \A t \in Int : Spans(g, t) <=> Spans(h, t) \/ (c <= t /\ t <= r[1] - 1)
            <3>1. r[1] - 1 \in Int /\ c <= r[1] - 1 /\ r[1] - 1 <= end
                BY <1>2, <1>14
            <3> QED BY <1>2, <1>3, <3>1, HoleAdded
        <2> HIDE DEF g
        <2>5. r[2] + 1 \in Int /\ start <= r[2] + 1 /\ r[1] - 1 < r[2] + 1
            BY <1>2, <1>14
        <2>6. \A j \in 1 .. i : m[j][2] < r[2] + 1 \/ end < m[j][1]
            BY <1>1, <1>2, <1>5, <1>9, <1>14
        <2>7. \A t \in start .. end :
                  t < r[2] + 1 => (Spans(g, t) <=> \A j \in 1 .. i : ~Within(t, m[j]))
            <3> TAKE t \in start .. end
            <3> HAVE t < r[2] + 1
            <3>1. CASE t < c
                <4>1. Spans(g, t) <=> Spans(h, t)
                    BY <1>2, <2>4, <3>1
                <4> QED BY <1>10, <3>1, <4>1
            <3>2. CASE c <= t /\ t < r[1]
                <4>1. Spans(g, t)
                    BY <1>2, <2>4, <3>2
                <4>2. ~Within(t, r)
                    BY <1>2, <3>2 DEF Within
                <4> QED BY <1>9, <1>11, <3>2, <4>1, <4>2
            <3>3. CASE r[1] <= t
                <4>1. Within(t, r) /\ c <= t
                    BY <1>2, <1>14, <3>3 DEF Within
                <4>2. ~Spans(g, t)
                    BY <1>2, <1>11, <2>4, <3>3, <4>1
                <4> QED BY <1>9, <4>1, <4>2
            <3> QED BY <1>2, <3>1, <3>2, <3>3
        <2>8. \E j \in 1 .. i : r[2] + 1 = m[j][2] + 1
            BY <1>9
        <2> QED BY <2>3, <2>4, <2>5, <2>6, <2>7, <2>8 DEF At, n
    <1> QED BY <1>12, <1>13, <1>14

\* The ranges of a list, swept over one after the other.
Sweeps(f, start, end, list) ==
    /\ f[0] = [holes |-> <<>>, cursor |-> start]
    /\ \A i \in 1 .. Len(list) : f[i] = Swept(f[i - 1], list[i], end)

LEMMA SweepUnfold ==
    ASSUME NEW start, NEW end, NEW list, Len(list) \in Nat
    PROVE  \E f : Sweeps(f, start, end, list) /\ Sweep(start, end, list) = f[Len(list)]
    <1> DEFINE N == Len(list)
               first == [holes |-> <<>>, cursor |-> start]
               Is(f, n) == f = [i \in 0 .. n |-> IF i = 0 THEN first ELSE Swept(f[i - 1], list[i], end)]
               S == {n \in 0 .. N : \E f : Is(f, n)}
               C == CHOOSE f : Is(f, N)
    <1>0. N \in Nat
        OBVIOUS
    <1>1. Sweep(start, end, list) = C[N]
        BY DEF Sweep
    <1> HIDE DEF C, N, first
    <1>2. 0 \in S
        <2> DEFINE g == [i \in 0 .. 0 |-> first]
        <2>1. g = [i \in 0 .. 0 |-> IF i = 0 THEN first ELSE Swept(g[i - 1], list[i], end)]
            OBVIOUS
        <2>2. \E f : Is(f, 0)
            BY <2>1
        <2> QED BY <1>0, <2>2
    <1>3. ASSUME NEW n \in 1 .. N, n - 1 \in S  PROVE n \in S
        <2>1. PICK f : Is(f, n - 1)
            BY <1>3
        <2> DEFINE g == [i \in 0 .. n |-> IF i = n THEN Swept(f[n - 1], list[n], end) ELSE f[i]]
        <2>2. ASSUME NEW i \in 0 .. n
              PROVE  g[i] = IF i = 0 THEN first ELSE Swept(g[i - 1], list[i], end)
            <3>1. CASE i = n
                BY <1>0, <3>1
            <3>2. CASE i # n
                <4>1. i \in 0 .. n - 1 /\ (i # 0 => i - 1 \in 0 .. n /\ i - 1 # n)
                    BY <1>0, <3>2
                <4>2. f[i] = IF i = 0 THEN first ELSE Swept(f[i - 1], list[i], end)
                    BY <2>1, <4>1
                <4> QED BY <3>2, <4>1, <4>2
            <3> QED BY <3>1, <3>2
        <2>3. g = [i \in 0 .. n |-> IF i = 0 THEN first ELSE Swept(g[i - 1], list[i], end)]
            BY <2>2
        <2>4. \E h : Is(h, n)
            BY <2>3
        <2> QED BY <1>0, <2>4
    <1>4. N \in S
        <2> HIDE DEF S
        <2> QED BY <1>0, <1>2, <1>3, AllUpTo
    <1>5. Is(C, N)
        BY <1>4 DEF C
    <1>6. C[0] = first /\ \A i \in 1 .. N : C[i] = Swept(C[i - 1], list[i], end)
        BY <1>0, <1>5
    <1>7. Sweeps(C, start, end, list)
        BY <1>6 DEF Sweeps, first, N
    <1> QED BY <1>1, <1>7 DEF N

\* The holes hold what no range holds.
LEMMA MissingIs ==
    ASSUME NEW start \in Int, NEW end \in Int, start <= end,
           NEW ranges \in SUBSET (Int \X Int), IsFiniteSet(ranges)
    PROVE  LET h == MissingRanges(start, end, ranges)
           IN  /\ Holes(h, start, end)
               /\ \A t \in Int : Spans(h, t) <=> t \in start .. end /\ \A r \in ranges : ~Within(t, r)
    <1> DEFINE m == Merged(ranges)
               N == Len(m)
               h == MissingRanges(start, end, ranges)
               sweep == Sweep(start, end, m)
    <1>1. Gapped(m) /\ \A t \in Int : Spans(m, t) <=> \E r \in ranges : Within(t, r)
        BY MergedIs
    <1> HIDE DEF m
    <1>2. N \in Nat
        BY <1>1 DEF Gapped
    <1>3. PICK f : Sweeps(f, start, end, m) /\ sweep = f[N]
        BY <1>2, SweepUnfold
    <1> DEFINE S == {i \in 0 .. N : At(f[i], i, m, start, end)}
    <1>4. 0 \in S
        <2>1. f[0].holes = <<>> /\ f[0].cursor = start
            BY <1>3 DEF Sweeps
        <2>2. At(f[0], 0, m, start, end)
            BY <2>1 DEF At, Holes, Before
        <2> QED BY <1>2, <2>2
    <1>5. ASSUME NEW i \in 1 .. N, i - 1 \in S  PROVE i \in S
        <2>1. f[i] = Swept(f[i - 1], m[i], end)
            BY <1>3 DEF Sweeps
        <2>2. At(f[i - 1], i - 1, m, start, end)
            BY <1>5
        <2>3. At(f[i], i, m, start, end)
            BY <1>1, <2>1, <2>2, SweptIs
        <2> QED BY <1>2, <2>3
    <1>6. N \in S
        <2> HIDE DEF S
        <2> QED BY <1>2, <1>4, <1>5, AllUpTo
    <1>7. At(sweep, N, m, start, end)
        BY <1>3, <1>6
    <1> HIDE DEF sweep
    <1>8. /\ sweep.cursor \in Int /\ start <= sweep.cursor
          /\ Holes(sweep.holes, start, end) /\ Before(sweep.holes, sweep.cursor)
          /\ \A j \in 1 .. N : m[j][2] < sweep.cursor \/ end < m[j][1]
          /\ \A t \in start .. end :
                 t < sweep.cursor => (Spans(sweep.holes, t) <=> \A j \in 1 .. N : ~Within(t, m[j]))
        BY <1>7 DEF At
    <1>9. h = IF sweep.cursor <= end THEN Append(sweep.holes, <<sweep.cursor, end>>) ELSE sweep.holes
        <2>1. ~(end < start)
            OBVIOUS
        <2> QED BY <2>1 DEF MissingRanges, sweep, m
    <1>10. \A t \in start .. end :
               sweep.cursor <= t => ~Spans(sweep.holes, t) /\ ~Spans(m, t)
        <2> SUFFICES ASSUME NEW t \in start .. end, sweep.cursor <= t
                     PROVE  ~Spans(sweep.holes, t) /\ ~Spans(m, t)
            OBVIOUS
        <2>1. ~Spans(sweep.holes, t)
            <3>1. \A j \in 1 .. Len(sweep.holes) :
                      sweep.holes[j][2] \in Int /\ sweep.holes[j][2] < sweep.cursor
                BY <1>8 DEF Holes, Before
            <3> QED BY <1>8, <3>1 DEF Spans, Within
        <2>2. ASSUME NEW j \in 1 .. N  PROVE ~Within(t, m[j])
            <3>1. m[j][1] \in Int /\ m[j][2] \in Int /\ t \in Int /\ t <= end
                BY <1>1 DEF Gapped
            <3>2. m[j][2] < sweep.cursor \/ end < m[j][1]
                BY <1>8
            <3> QED BY <1>8, <3>1, <3>2 DEF Within
        <2> QED BY <2>1, <2>2 DEF Spans
    <1>11. \A t \in start .. end :
               t < sweep.cursor => (Spans(sweep.holes, t) <=> ~Spans(m, t))
        BY <1>8 DEF Spans
    <1>12. ASSUME NEW g, Holes(g, start, end), NEW t \in Int, Spans(g, t)  PROVE t \in start .. end
        <2>1. PICK j \in 1 .. Len(g) : Within(t, g[j])
            BY <1>12 DEF Spans
        <2>2. g[j][1] \in Int /\ g[j][2] \in Int /\ start <= g[j][1] /\ g[j][2] <= end
            BY <1>12 DEF Holes
        <2> QED BY <2>1, <2>2 DEF Within
    <1> HIDE DEF h, N
    <1>13. CASE sweep.cursor <= end
        <2>1. h = Append(sweep.holes, <<sweep.cursor, end>>)
            BY <1>9, <1>13
        <2>2. end <= end
            OBVIOUS
        <2>3. /\ Holes(h, start, end)
              /\ \A t \in Int : Spans(h, t) <=> Spans(sweep.holes, t) \/ (sweep.cursor <= t /\ t <= end)
            BY <1>8, <1>13, <2>1, <2>2, HoleAdded
        <2>4. ASSUME NEW t \in start .. end  PROVE Spans(h, t) <=> ~Spans(m, t)
            <3>1. t \in Int /\ t <= end
                OBVIOUS
            <3>2. CASE t < sweep.cursor
                <4>1. ~(sweep.cursor <= t)
                    BY <1>8, <3>1, <3>2
                <4> QED BY <1>11, <2>3, <3>1, <3>2, <4>1
            <3>3. CASE sweep.cursor <= t
                BY <1>10, <2>3, <3>1, <3>3
            <3> QED BY <1>8, <3>1, <3>2, <3>3
        <2> QED BY <1>1, <1>12, <2>3, <2>4 DEF h
    <1>14. CASE ~(sweep.cursor <= end)
        <2>1. h = sweep.holes
            BY <1>9, <1>14
        <2>2. \A t \in start .. end : t \in Int /\ t < sweep.cursor
            BY <1>8, <1>14
        <2>3. \A t \in start .. end : Spans(h, t) <=> ~Spans(m, t)
            BY <1>11, <2>1, <2>2
        <2>4. Holes(h, start, end)
            BY <1>8, <2>1
        <2> QED BY <1>1, <1>12, <2>3, <2>4 DEF h
    <1> QED BY <1>13, <1>14

-----------------------------------------------------------------------------
(* The span to ask for.                                                    *)

\* The edges of a range move past the instants of a list at either end.
Moved(edges, first, last) ==
    <<IF first = edges[1] THEN edges[1] + 1 ELSE edges[1],
      IF last = edges[2] THEN edges[2] - 1 ELSE edges[2]>>
Trims(f, range, times, n) ==
    /\ f[0] = range
    /\ \A i \in 1 .. n : f[i] = Moved(f[i - 1], times[i], times[n + 1 - i])

LEMMA ObservedUnfold ==
    ASSUME NEW range, NEW observed, Cardinality(observed) \in Nat
    PROVE  LET n == Cardinality(observed)
           IN  \E f : /\ Trims(f, range, InOrder(observed), n)
                      /\ ObservedSpan(range, observed)
                            = IF f[n][1] <= f[n][2] THEN <<f[n]>> ELSE <<>>
    <1> DEFINE N == Cardinality(observed)
               times == InOrder(observed)
               Is(f, n) == f = [i \in 0 .. n |->
                                   IF i = 0 THEN range
                                   ELSE Moved(f[i - 1], times[i], times[N + 1 - i])]
               S == {n \in 0 .. N : \E f : Is(f, n)}
               C == CHOOSE f : Is(f, N)
    <1>0. N \in Nat
        OBVIOUS
    <1>1. ObservedSpan(range, observed) = IF C[N][1] <= C[N][2] THEN <<C[N]>> ELSE <<>>
        BY DEF ObservedSpan, Moved
    <1> HIDE DEF C, N, times
    <1>2. 0 \in S
        <2> DEFINE g == [i \in 0 .. 0 |-> range]
        <2>1. g = [i \in 0 .. 0 |-> IF i = 0 THEN range
                                    ELSE Moved(g[i - 1], times[i], times[N + 1 - i])]
            OBVIOUS
        <2>2. \E f : Is(f, 0)
            BY <2>1
        <2> QED BY <1>0, <2>2
    <1>3. ASSUME NEW n \in 1 .. N, n - 1 \in S  PROVE n \in S
        <2>1. PICK f : Is(f, n - 1)
            BY <1>3
        <2> DEFINE g == [i \in 0 .. n |-> IF i = n THEN Moved(f[n - 1], times[n], times[N + 1 - n])
                                          ELSE f[i]]
        <2>2. ASSUME NEW i \in 0 .. n
              PROVE  g[i] = IF i = 0 THEN range ELSE Moved(g[i - 1], times[i], times[N + 1 - i])
            <3>1. CASE i = n
                BY <1>0, <3>1
            <3>2. CASE i # n
                <4>1. i \in 0 .. n - 1 /\ (i # 0 => i - 1 \in 0 .. n /\ i - 1 # n)
                    BY <1>0, <3>2
                <4>2. f[i] = IF i = 0 THEN range ELSE Moved(f[i - 1], times[i], times[N + 1 - i])
                    BY <2>1, <4>1
                <4> QED BY <3>2, <4>1, <4>2
            <3> QED BY <3>1, <3>2
        <2>3. g = [i \in 0 .. n |-> IF i = 0 THEN range
                                    ELSE Moved(g[i - 1], times[i], times[N + 1 - i])]
            BY <2>2
        <2>4. \E h : Is(h, n)
            BY <2>3
        <2> QED BY <1>0, <2>4
    <1>4. N \in S
        <2> HIDE DEF S
        <2> QED BY <1>0, <1>2, <1>3, AllUpTo
    <1>5. Is(C, N)
        BY <1>4 DEF C
    <1>6. C[0] = range /\ \A i \in 1 .. N : C[i] = Moved(C[i - 1], times[i], times[N + 1 - i])
        BY <1>0, <1>5
    <1>7. Trims(C, range, times, N)
        BY <1>6 DEF Trims
    <1> QED BY <1>1, <1>7 DEF N, times

\* span is the range from the first instant of X to the last, or none.
FromFirstToLast(span, X) ==
    \/ X = {} /\ span = <<>>
    \/ \E a, b \in X : span = <<<<a, b>>>> /\ \A x \in X : a <= x /\ x <= b

\* What remains of a hole reaches from the first instant not observed to the last.
LEMMA ObservedSpanIs ==
    ASSUME NEW a \in Int, NEW b \in Int, NEW observed \in SUBSET (a .. b), a <= b
    PROVE  FromFirstToLast(ObservedSpan(<<a, b>>, observed), (a .. b) \ observed)
    <1> DEFINE n == Cardinality(observed)
               times == InOrder(observed)
               X == (a .. b) \ observed
    <1>1. IsFiniteSet(observed) /\ observed \in SUBSET Int
        <2>1. IsFiniteSet(a .. b)
            BY FS_Interval
        <2>2. observed \in SUBSET (a .. b)
            OBVIOUS
        <2>3. IsFiniteSet(observed)
            BY ONLY <2>1, <2>2, FS_Subset
        <2>4. \A t \in a .. b : t \in Int
            OBVIOUS
        <2> QED BY <2>2, <2>3, <2>4
    <1>2. /\ n \in Nat /\ times \in [1 .. n -> observed]
          /\ \A i, j \in 1 .. n : i < j => times[i] < times[j]
          /\ \A t \in observed : \E i \in 1 .. n : times[i] = t
        BY <1>1, InOrderLists
    <1>3. PICK f : /\ Trims(f, <<a, b>>, times, n)
                   /\ ObservedSpan(<<a, b>>, observed) = IF f[n][1] <= f[n][2] THEN <<f[n]>> ELSE <<>>
        BY <1>2, ObservedUnfold
    <1> HIDE DEF n, times, X
    <1>4. \A i \in 1 .. n : /\ times[i] \in Int /\ times[i] \in observed
                            /\ n + 1 - i \in 1 .. n /\ times[n + 1 - i] \in Int
        <2>1. \A i \in 1 .. n : times[i] \in Int /\ times[i] \in observed
            BY <1>1, <1>2
        <2>2. \A i \in 1 .. n : n + 1 - i \in 1 .. n
            BY <1>2
        <2> QED BY <2>1, <2>2
    <1> DEFINE Left(e, i) == /\ e[1] \in Int /\ a <= e[1]
                             /\ \A j \in 1 .. i : times[j] # e[1]
                             /\ \A t \in a .. e[1] - 1 : t \in observed
               Right(e, i) == /\ e[2] \in Int /\ e[2] <= b
                              /\ \A j \in 1 .. i : times[n + 1 - j] # e[2]
                              /\ \A t \in e[2] + 1 .. b : t \in observed
               S == {i \in 0 .. n : Left(f[i], i) /\ Right(f[i], i) /\ f[i] = <<f[i][1], f[i][2]>>}
    <1>5. 0 \in S
        <2>1. f[0] = <<a, b>>
            BY <1>3 DEF Trims
        <2>2. Left(f[0], 0) /\ Right(f[0], 0)
            BY <2>1
        <2> QED BY <1>2, <2>1, <2>2
    <1>6. ASSUME NEW i \in 1 .. n, i - 1 \in S  PROVE i \in S
        <2> DEFINE e == f[i - 1]
                   g == f[i]
        <2>1. Left(e, i - 1) /\ Right(e, i - 1)
            BY <1>6
        <2>2. /\ g = <<g[1], g[2]>>
              /\ g[1] = (IF times[i] = e[1] THEN e[1] + 1 ELSE e[1])
              /\ g[2] = (IF times[n + 1 - i] = e[2] THEN e[2] - 1 ELSE e[2])
            BY <1>3 DEF Trims, Moved
        <2> HIDE DEF e, g
        <2>3. /\ i \in Int /\ i \in 1 .. n
              /\ \A j \in 1 .. i : j = i \/ j \in 1 .. i - 1
              /\ \A j \in 1 .. i - 1 : j \in 1 .. n /\ j < i /\ n + 1 - j \in 1 .. n /\ n + 1 - i < n + 1 - j
            BY <1>2
        <2>4. Left(g, i)
            <3>1. \A j \in 1 .. i - 1 : times[j] < times[i]
                BY <1>2, <2>3
            <3>2. CASE times[i] = e[1]
                <4>1. g[1] = e[1] + 1 /\ g[1] \in Int /\ a <= g[1]
                    BY <2>1, <2>2, <3>2
                <4>2. \A j \in 1 .. i : times[j] \in Int /\ times[j] <= e[1]
                    BY <1>4, <2>1, <2>3, <3>1, <3>2
                <4>3. \A t \in a .. g[1] - 1 : t = e[1] \/ t \in a .. e[1] - 1
                    BY <2>1, <4>1
                <4>4. e[1] \in observed
                    BY <1>4, <3>2
                <4>5. \A j \in 1 .. i : times[j] # g[1]
                    BY <2>1, <4>1, <4>2
                <4> QED BY <2>1, <4>1, <4>3, <4>4, <4>5
            <3>3. CASE times[i] # e[1]
                BY <2>1, <2>2, <2>3, <3>3
            <3> QED BY <3>2, <3>3
        <2>5. Right(g, i)
            <3>1. \A j \in 1 .. i - 1 : times[n + 1 - i] < times[n + 1 - j]
                BY <1>2, <1>4, <2>3
            <3>2. CASE times[n + 1 - i] = e[2]
                <4>1. g[2] = e[2] - 1 /\ g[2] \in Int /\ g[2] <= b
                    BY <2>1, <2>2, <3>2
                <4>2. \A j \in 1 .. i : times[n + 1 - j] \in Int /\ e[2] <= times[n + 1 - j]
                    <5>1. e[2] <= e[2]
                        BY <2>1
                    <5>2. \A j \in 1 .. i - 1 : times[n + 1 - j] \in Int /\ e[2] <= times[n + 1 - j]
                        <6> TAKE j \in 1 .. i - 1
                        <6>1. times[n + 1 - j] \in Int
                            BY <1>4, <2>3
                        <6>2. times[n + 1 - i] < times[n + 1 - j]
                            BY <3>1
                        <6>3. e[2] \in Int
                            BY <2>1
                        <6> QED BY ONLY <3>2, <6>1, <6>2, <6>3
                    <5>3. times[n + 1 - i] \in Int /\ e[2] <= times[n + 1 - i]
                        BY <2>1, <3>2, <5>1
                    <5> QED BY <2>3, <5>2, <5>3
                <4>3. \A t \in g[2] + 1 .. b : t = e[2] \/ t \in e[2] + 1 .. b
                    BY <2>1, <4>1
                <4>4. e[2] \in observed
                    BY <1>2, <1>4, <3>2
                <4>5. \A j \in 1 .. i : times[n + 1 - j] # g[2]
                    BY <2>1, <4>1, <4>2
                <4> QED BY <2>1, <4>1, <4>3, <4>4, <4>5
            <3>3. CASE times[n + 1 - i] # e[2]
                BY <2>1, <2>2, <2>3, <3>3
            <3> QED BY <3>2, <3>3
        <2> HIDE DEF Left, Right
        <2> QED BY <1>2, <2>2, <2>4, <2>5 DEF g
    <1>7. n \in S
        <2> HIDE DEF S
        <2> QED BY <1>2, <1>5, <1>6, AllUpTo
    <1> DEFINE l == f[n][1]
               r == f[n][2]
    <1>8. /\ l \in Int /\ a <= l /\ l \notin observed /\ \A t \in a .. l - 1 : t \in observed
          /\ r \in Int /\ r <= b /\ r \notin observed /\ \A t \in r + 1 .. b : t \in observed
          /\ f[n] = <<l, r>>
        <2>1. Left(f[n], n) /\ Right(f[n], n) /\ f[n] = <<l, r>>
            BY <1>7
        <2>2. l \notin observed
            BY <1>2, <2>1
        <2>3. r \notin observed
            <3>1. \A j \in 1 .. n : times[j] # r
                <4> TAKE j \in 1 .. n
                <4>1. n + 1 - j \in 1 .. n /\ n + 1 - (n + 1 - j) = j
                    BY <1>2
                <4> QED BY <2>1, <4>1
            <3> QED BY <1>2, <3>1
        <2> QED BY <2>1, <2>2, <2>3
    <1> HIDE DEF l, r
    <1>9. \A x \in X : l <= x /\ x <= r
        <2> TAKE x \in X
        <2>1. x \in Int /\ a <= x /\ x <= b /\ x \notin observed
            BY DEF X
        <2>2. x \notin a .. l - 1 /\ x \notin r + 1 .. b
            BY <1>8, <2>1
        <2> QED BY <1>8, <2>1, <2>2
    <1>10. CASE X = {}
        <2>1. l > b /\ r < a
            BY <1>8, <1>10 DEF X
        <2>2. ~(l <= r)
            BY <1>8, <2>1
        <2> QED BY <1>3, <1>10, <2>2 DEF FromFirstToLast, X, l, r
    <1>11. CASE X # {}
        <2>1. PICK x \in X : TRUE
            BY <1>11
        <2>2. x \in Int /\ a <= x /\ x <= b
            BY DEF X
        <2>3. l \in X /\ r \in X /\ l <= r
            BY <1>8, <1>9, <2>1, <2>2 DEF X
        <2>4. ObservedSpan(<<a, b>>, observed) = <<<<l, r>>>>
            BY <1>3, <1>8, <2>3 DEF l, r
        <2> QED BY <1>9, <2>3, <2>4 DEF FromFirstToLast, X
    <1> QED BY <1>10, <1>11

\* The holes of a list, one after the other.
Bridges(f, holes, times) ==
    /\ f[0] = <<>>
    /\ \A i \in 1 .. Len(holes) : f[i] = Spanned(f[i - 1], holes[i], times)

LEMMA LiveSpanUnfold ==
    ASSUME NEW start, NEW end, NEW times, NEW ranges, Len(MissingRanges(start, end, ranges)) \in Nat
    PROVE  LET holes == MissingRanges(start, end, ranges)
           IN  \E f : Bridges(f, holes, times) /\ LiveSpan(start, end, times, ranges) = f[Len(holes)]
    <1> DEFINE holes == MissingRanges(start, end, ranges)
               N == Len(holes)
               Is(f, n) == f = [i \in 0 .. n |-> IF i = 0 THEN <<>> ELSE Spanned(f[i - 1], holes[i], times)]
               S == {n \in 0 .. N : \E f : Is(f, n)}
               C == CHOOSE f : Is(f, N)
    <1>0. N \in Nat
        OBVIOUS
    <1>1. LiveSpan(start, end, times, ranges) = C[N]
        BY DEF LiveSpan
    <1> HIDE DEF C, N, holes
    <1>2. 0 \in S
        <2> DEFINE g == [i \in 0 .. 0 |-> <<>>]
        <2>1. g = [i \in 0 .. 0 |-> IF i = 0 THEN <<>> ELSE Spanned(g[i - 1], holes[i], times)]
            OBVIOUS
        <2>2. \E f : Is(f, 0)
            BY <2>1
        <2> QED BY <1>0, <2>2
    <1>3. ASSUME NEW n \in 1 .. N, n - 1 \in S  PROVE n \in S
        <2>1. PICK f : Is(f, n - 1)
            BY <1>3
        <2> DEFINE g == [i \in 0 .. n |-> IF i = n THEN Spanned(f[n - 1], holes[n], times) ELSE f[i]]
        <2>2. ASSUME NEW i \in 0 .. n
              PROVE  g[i] = IF i = 0 THEN <<>> ELSE Spanned(g[i - 1], holes[i], times)
            <3>1. CASE i = n
                BY <1>0, <3>1
            <3>2. CASE i # n
                <4>1. i \in 0 .. n - 1 /\ (i # 0 => i - 1 \in 0 .. n /\ i - 1 # n)
                    BY <1>0, <3>2
                <4>2. f[i] = IF i = 0 THEN <<>> ELSE Spanned(f[i - 1], holes[i], times)
                    BY <2>1, <4>1
                <4> QED BY <3>2, <4>1, <4>2
            <3> QED BY <3>1, <3>2
        <2>3. g = [i \in 0 .. n |-> IF i = 0 THEN <<>> ELSE Spanned(g[i - 1], holes[i], times)]
            BY <2>2
        <2>4. \E h : Is(h, n)
            BY <2>3
        <2> QED BY <1>0, <2>4
    <1>4. N \in S
        <2> HIDE DEF S
        <2> QED BY <1>0, <1>2, <1>3, AllUpTo
    <1>5. Is(C, N)
        BY <1>4 DEF C
    <1>6. C[0] = <<>> /\ \A i \in 1 .. N : C[i] = Spanned(C[i - 1], holes[i], times)
        BY <1>0, <1>5
    <1>7. Bridges(C, holes, times)
        BY <1>6 DEF Bridges, N
    <1> QED BY <1>1, <1>7 DEF N, holes

\* One more hole, after those the span X is from.
LEMMA SpannedIs ==
    ASSUME NEW X \in SUBSET Int, NEW span, FromFirstToLast(span, X), NEW times,
           NEW a \in Int, NEW b \in Int, a <= b, \A x \in X : x < a
    PROVE  FromFirstToLast(Spanned(span, <<a, b>>, times), X \cup ((a .. b) \ times))
    <1> DEFINE Y == (a .. b) \ (times \cap a .. b)
               rest == ObservedSpan(<<a, b>>, times \cap a .. b)
               n == Spanned(span, <<a, b>>, times)
    <1>1. Y = (a .. b) \ times
        OBVIOUS
    <1>2. FromFirstToLast(rest, Y)
        BY ObservedSpanIs
    <1>3. n = IF rest = <<>> THEN span
              ELSE <<<<IF span = <<>> THEN rest[1][1] ELSE span[1][1], rest[1][2]>>>>
        BY DEF Spanned
    <1>4. \A y \in Y : y \in Int /\ a <= y
        OBVIOUS
    <1> HIDE DEF Y, rest, n
    <1>5. CASE Y = {}
        <2>1. rest = <<>>
            BY <1>2, <1>5 DEF FromFirstToLast
        <2> QED BY <1>1, <1>3, <1>5, <2>1 DEF n
    <1>6. CASE Y # {}
        <2>1. PICK c, d \in Y : rest = <<<<c, d>>>> /\ \A y \in Y : c <= y /\ y <= d
            BY <1>2, <1>6 DEF FromFirstToLast
        <2>2. rest # <<>> /\ rest[1][1] = c /\ rest[1][2] = d
            BY <2>1
        <2>3. CASE X = {}
            <3>1. span = <<>>
                BY <2>3 DEF FromFirstToLast
            <3>2. n = <<<<c, d>>>>
                BY <1>3, <2>2, <3>1
            <3> QED BY <1>1, <2>1, <2>3, <3>2 DEF FromFirstToLast, n
        <2>4. CASE X # {}
            <3>1. PICK p, q \in X : span = <<<<p, q>>>> /\ \A x \in X : p <= x /\ x <= q
                BY <2>4 DEF FromFirstToLast
            <3>2. span # <<>> /\ span[1][1] = p
                BY <3>1
            <3>3. n = <<<<p, d>>>>
                BY <1>3, <2>2, <3>2
            <3>4. ASSUME NEW x \in X \cup Y  PROVE p <= x /\ x <= d
                <4>1. p \in Int /\ d \in Int /\ p < a /\ a <= d /\ d \in Y
                    BY <1>4, <2>1, <3>1
                <4>2. CASE x \in X
                    <5>1. p <= x /\ x < a /\ x \in Int
                        BY <3>1, <4>2
                    <5> QED BY <4>1, <5>1
                <4>3. CASE x \in Y
                    <5>1. x <= d /\ a <= x /\ x \in Int
                        BY <1>4, <2>1, <4>3
                    <5> QED BY <4>1, <5>1
                <4> QED BY <4>2, <4>3
            <3>5. p \in X \cup Y /\ d \in X \cup Y
                BY <2>1, <3>1
            <3>6. FromFirstToLast(n, X \cup Y)
                BY <3>3, <3>4, <3>5 DEF FromFirstToLast
            <3> QED BY <1>1, <3>6 DEF n
        <2> QED BY <2>3, <2>4
    <1> QED BY <1>5, <1>6

\* The live span reaches from the first instant that is in no range and was not
\* observed to the last one.
LEMMA LiveSpanIs ==
    ASSUME NEW start \in Int, NEW end \in Int, start <= end, NEW times,
           NEW ranges \in SUBSET (Int \X Int), IsFiniteSet(ranges)
    PROVE  FromFirstToLast(LiveSpan(start, end, times, ranges),
                           {t \in start .. end : t \notin times /\ \A r \in ranges : ~Within(t, r)})
    <1> DEFINE h == MissingRanges(start, end, ranges)
               N == Len(h)
    <1>1. /\ Holes(h, start, end)
          /\ \A t \in Int : Spans(h, t) <=> t \in start .. end /\ \A r \in ranges : ~Within(t, r)
        BY MissingIs
    <1>2. N \in Nat
        BY <1>1 DEF Holes
    <1>3. PICK f : Bridges(f, h, times) /\ LiveSpan(start, end, times, ranges) = f[N]
        BY <1>2, LiveSpanUnfold
    <1> HIDE DEF h
    <1> DEFINE X(i) == {t \in Int : t \notin times /\ \E j \in 1 .. i : Within(t, h[j])}
               S == {i \in 0 .. N : FromFirstToLast(f[i], X(i))}
    <1>4. 0 \in S
        <2>1. f[0] = <<>> /\ X(0) = {}
            BY <1>3 DEF Bridges
        <2> HIDE DEF X
        <2> QED BY <1>2, <2>1 DEF FromFirstToLast
    <1>5. ASSUME NEW i \in 1 .. N, i - 1 \in S  PROVE i \in S
        <2> DEFINE a == h[i][1]
                   b == h[i][2]
        <2>1. h[i] = <<a, b>> /\ a \in Int /\ b \in Int /\ a <= b /\ i \in Int /\ i \in 0 .. N
            BY <1>1, <1>2 DEF Holes
        <2>2. f[i] = Spanned(f[i - 1], <<a, b>>, times)
            BY <1>3, <2>1 DEF Bridges
        <2>3. FromFirstToLast(f[i - 1], X(i - 1))
            BY <1>5
        <2>4. \A j \in 1 .. i - 1 : h[j][1] \in Int /\ h[j][2] \in Int /\ h[j][2] < a
            <3>1. \A j \in 1 .. i - 1 : j \in 1 .. N /\ j < i
                BY <1>2, <2>1
            <3>2. \A j \in 1 .. N : h[j][1] \in Int /\ h[j][2] \in Int
                BY <1>1 DEF Holes
            <3>3. \A j \in 1 .. N : j < i => h[j][2] < a
                BY <1>1 DEF Holes
            <3> QED BY <3>1, <3>2, <3>3
        <2> HIDE DEF a, b
        <2>5. X(i - 1) \in SUBSET Int /\ \A x \in X(i - 1) : x < a
            BY <2>1, <2>4 DEF Within
        <2>6. X(i) = X(i - 1) \cup ((a .. b) \ times)
            <3>1. /\ \A j \in 1 .. i : j = i \/ j \in 1 .. i - 1
                  /\ i \in 1 .. i /\ \A j \in 1 .. i - 1 : j \in 1 .. i
                BY <2>1
            <3>2. \A t \in Int : Within(t, h[i]) <=> t \in a .. b
                BY <2>1 DEF Within, a, b
            <3>3. \A t \in Int : (\E j \in 1 .. i : Within(t, h[j]))
                                 <=> t \in a .. b \/ \E j \in 1 .. i - 1 : Within(t, h[j])
                BY <3>1, <3>2
            <3>4. a .. b \subseteq Int
                BY <2>1
            <3> QED BY <3>3, <3>4
        <2> HIDE DEF X
        <2>7. FromFirstToLast(f[i], X(i))
            BY <2>1, <2>2, <2>3, <2>5, <2>6, SpannedIs
        <2> QED BY <2>1, <2>7
    <1>6. N \in S
        <2> HIDE DEF S
        <2> QED BY <1>2, <1>4, <1>5, AllUpTo
    <1>7. X(N) = {t \in start .. end : t \notin times /\ \A r \in ranges : ~Within(t, r)}
        <2>1. \A t \in Int : (\E j \in 1 .. N : Within(t, h[j])) <=> Spans(h, t)
            BY DEF Spans
        <2>2. start .. end \subseteq Int
            OBVIOUS
        <2> HIDE DEF N
        <2> QED BY <1>1, <2>1, <2>2
    <1> QED BY <1>3, <1>6, <1>7

-----------------------------------------------------------------------------
(* The ranges of the cache.                                                *)

\* The interval of coordinates of one context.
LEMMA CoordinatesAre ==
    ASSUME NEW k \in Keys
    PROVE  /\ Coordinates[k] \in SUBSET Int /\ IsFiniteSet(Coordinates[k])
           /\ \A a, b \in Coordinates[k] : \A t \in Int : a <= t /\ t <= b => t \in Coordinates[k]
    <1>1. Coordinates[k] \in SUBSET Int /\ IsFiniteSet(Coordinates[k])
        BY ConstantsAssumption
    <1>2. \A a, b \in Coordinates[k] : a .. b \subseteq Coordinates[k]
        BY ConstantsAssumption
    <1> QED BY <1>1, <1>2

LEMMA CoverageIs ==
    ASSUME TypeOK, NEW k \in Keys
    PROVE  Coverage(k) \in SUBSET Int /\ IsFiniteSet(Coverage(k)) /\ Coverage(k) \subseteq Coordinates[k]
    <1>1. Coverage(k) \in SUBSET Coordinates[k]
        BY DEF Coverage, TypeOK
    <1> QED BY <1>1, CoordinatesAre, FS_Subset

LEMMA HistoryEndIs ==
    ASSUME TypeOK, NEW s \in Int
    PROVE  HistoryEnd(s) \in Int
    BY ConstantsAssumption DEF TypeOK, HistoryEnd

\* The trusted ranges hold what is covered up to the end of the history.
LEMMA TrustedIs ==
    ASSUME TypeOK, NEW k \in Keys, NEW s \in Int
    PROVE  /\ Trusted(k, s) \in SUBSET (Int \X Int) /\ IsFiniteSet(Trusted(k, s))
           /\ \A t \in Int : (\E p \in Trusted(k, s) : Within(t, p)) <=> t \in Coverage(k) /\ t <= HistoryEnd(s)
    <1> DEFINE C == Coverage(k)
               H == HistoryEnd(s)
               Q == {q \in RangesOf(C) : q[1] <= H}
               T == Trusted(k, s)
               Cut(r) == <<r[1], Min({r[2], H})>>
    <1>1. /\ RangesOf(C) \in SUBSET (Int \X Int) /\ IsFiniteSet(RangesOf(C))
          /\ \A t \in Int : (\E r \in RangesOf(C) : Within(t, r)) <=> t \in C
        BY CoverageIs, RangesCover
    <1>2. H \in Int
        BY HistoryEndIs
    <1>3. T = {Cut(r) : r \in Q}
        BY DEF Trusted
    <1> HIDE DEF C, H, T
    <1>4. ASSUME NEW r \in Q
          PROVE  /\ Cut(r)[1] = r[1] /\ Cut(r)[1] \in Int /\ Cut(r)[2] \in Int
                 /\ Cut(r)[2] = IF r[2] <= H THEN r[2] ELSE H
                 /\ r[1] <= H /\ r[1] \in Int /\ r[2] \in Int
                 /\ Cut(r) \in Int \X Int
        <2>1. r[1] \in Int /\ r[2] \in Int /\ r[1] <= H
            BY <1>1
        <2>2. Min({r[2], H}) = IF r[2] <= H THEN r[2] ELSE H
            BY ONLY <1>2, <2>1, SmallerIs
        <2> QED BY <1>2, <2>1, <2>2
    <1>5. T \in SUBSET (Int \X Int)
        <2> HIDE DEF Cut, Q
        <2> QED BY <1>3, <1>4
    <1>6. IsFiniteSet(T)
        <2> DEFINE g == [r \in Q |-> Cut(r)]
        <2>1. IsFiniteSet(Q)
            BY <1>1, FS_Subset
        <2>2. g \in Surjection(Q, T)
            <3> HIDE DEF Q, Cut
            <3> QED BY <1>3 DEF Surjection
        <2> HIDE DEF g, Q
        <2> QED BY ONLY <2>1, <2>2, FS_Surjection
    <1>7. ASSUME NEW t \in Int
          PROVE  (\E p \in T : Within(t, p)) <=> t \in C /\ t <= H
        <2>1. ASSUME NEW r \in Q, Within(t, Cut(r))  PROVE Within(t, r) /\ t <= H
            <3> DEFINE c == Cut(r)[2]
            <3>1. r[1] <= t /\ t <= c
                BY <1>4, <2>1 DEF Within
            <3>2. c = IF r[2] <= H THEN r[2] ELSE H
                BY <1>4
            <3>3. r[1] \in Int /\ r[2] \in Int
                BY <1>4
            <3> HIDE DEF c
            <3> QED BY ONLY <1>2, <3>1, <3>2, <3>3, t \in Int DEF Within
        <2>2. ASSUME NEW r \in RangesOf(C), Within(t, r), t <= H  PROVE r \in Q /\ Within(t, Cut(r))
            <3>1. r[1] \in Int /\ r[2] \in Int /\ r[1] <= t /\ t <= r[2]
                BY <1>1, <2>2 DEF Within
            <3>2. r \in Q
                BY <1>2, <2>2, <3>1
            <3>3. Cut(r)[1] = r[1] /\ Cut(r)[2] = IF r[2] <= H THEN r[2] ELSE H
                BY <1>4, <3>2
            <3> HIDE DEF Cut, Q
            <3> QED BY <1>2, <2>2, <3>1, <3>2, <3>3 DEF Within
        <2>3. \A r \in Q : r \in RangesOf(C)
            OBVIOUS
        <2> HIDE DEF Cut, Q
        <2> QED BY <1>1, <1>3, <2>1, <2>2, <2>3
    <1> QED BY <1>5, <1>6, <1>7 DEF T, C, H

\* The sweeps and the sets agree on what to ask for.
LEMMA SpanIsSwept ==
    ASSUME TypeOK, NEW k \in Keys, NEW s \in Coordinates[k], NEW e \in Coordinates[k], s <= e
    PROVE  ToSet(LiveSpan(s, e, DOMAIN Kept(k) \cap s .. e, Trusted(k, s))) = AsRange(Span(k, s, e))
    <1> DEFINE O == DOMAIN Kept(k) \cap s .. e
               L == LiveSpan(s, e, O, Trusted(k, s))
               X == Unknown(k, s, e)
               B == Between(k, X)
    <1>1. /\ s \in Int /\ e \in Int /\ Coordinates[k] \in SUBSET Int
          /\ \A t \in Int : s <= t /\ t <= e => t \in Coordinates[k]
        BY CoordinatesAre
    <1>2. /\ Trusted(k, s) \in SUBSET (Int \X Int) /\ IsFiniteSet(Trusted(k, s))
          /\ \A t \in Int : (\E p \in Trusted(k, s) : Within(t, p)) <=> t \in Coverage(k) /\ t <= HistoryEnd(s)
        BY <1>1, TrustedIs
    <1>3. FromFirstToLast(L, {t \in s .. e : t \notin O /\ \A p \in Trusted(k, s) : ~Within(t, p)})
        BY <1>1, <1>2, LiveSpanIs
    <1>4. X = {t \in s .. e : t \notin O /\ \A p \in Trusted(k, s) : ~Within(t, p)}
        <2>1. \A t : t \in Window(k, s, e) <=> t \in s .. e
            BY <1>1 DEF Window
        <2>2. \A t \in s .. e : t \in Int /\ (t \in O <=> t \in DOMAIN Kept(k))
            BY <1>1
        <2>3. \A t : t \in X <=> t \in s .. e /\ ~(t \in Coverage(k) /\ t <= HistoryEnd(s)) /\ t \notin DOMAIN Kept(k)
            BY <2>1 DEF Unknown
        <2> HIDE DEF X, O
        <2>4. \A t : t \in X <=> t \in s .. e /\ t \notin O /\ \A p \in Trusted(k, s) : ~Within(t, p)
            BY <1>2, <2>2, <2>3
        <2> QED BY <2>4
    <1> HIDE DEF L, O
    <1>5. FromFirstToLast(L, X) /\ X \in SUBSET Coordinates[k]
        BY <1>1, <1>3, <1>4
    <1> HIDE DEF X
    <1>6. CASE X = {}
        <2>1. L = <<>>
            BY <1>5, <1>6 DEF FromFirstToLast
        <2>2. B = {}
            BY <1>6 DEF Between
        <2>3. ToSet(<<>>) = {}
            BY DEF ToSet
        <2> QED BY <2>1, <2>2, <2>3 DEF AsRange, Span, X, L, O
    <1>7. CASE X # {}
        <2>1. PICK a, b \in X : L = <<<<a, b>>>> /\ \A x \in X : a <= x /\ x <= b
            BY <1>5, <1>7 DEF FromFirstToLast
        <2>2. \A t \in B : t \in Int /\ a <= t /\ t <= b
            <3> TAKE t \in B
            <3>1. PICK i, j \in X : i <= t /\ t <= j
                BY DEF Between
            <3>2. t \in Int /\ i \in Int /\ j \in Int /\ a \in Int /\ b \in Int
                BY <1>1, <1>5 DEF Between
            <3>3. a <= i /\ j <= b
                BY <2>1
            <3> QED BY <3>1, <3>2, <3>3
        <2>3. a \in B /\ b \in B
            <3>1. a \in Int /\ b \in Int /\ a \in Coordinates[k] /\ b \in Coordinates[k]
                BY <1>1, <1>5
            <3>2. a <= a /\ b <= b
                BY <3>1
            <3> QED BY <3>1, <3>2 DEF Between
        <2>4. B \in SUBSET Int
            BY <2>2
        <2> HIDE DEF B
        <2>5. Min(B) = a /\ Max(B) = b
            BY <2>2, <2>3, <2>4, LeastIs, GreatestIs
        <2>6. AsRange(B) = {<<a, b>>}
            BY <2>3, <2>5 DEF AsRange
        <2>7. ToSet(<<<<a, b>>>>) = {<<a, b>>}
            BY DEF ToSet
        <2> QED BY <2>1, <2>6, <2>7 DEF Span, B, X, L, O
    <1> QED BY <1>6, <1>7

\* And on what is covered after a read.
LEMMA CoverageIsMerged ==
    ASSUME TypeOK, NEW k \in Keys, NEW s \in Coordinates[k], NEW e \in Coordinates[k], s <= e
    PROVE  LET span == Span(k, s, e)
           IN  ToSet(Merged(RangesOf(Coverage(k)) \cup AsRange(NewlyCovered(k, s, span))))
                  = RangesOf(CoveredAfter(k, s, span))
    <1> DEFINE C == Coverage(k)
               span == Span(k, s, e)
               N == NewlyCovered(k, s, span)
               R == RangesOf(C) \cup AsRange(N)
    <1>1. /\ s \in Int /\ Coordinates[k] \in SUBSET Int /\ IsFiniteSet(Coordinates[k])
          /\ \A a, b \in Coordinates[k] : \A t \in Int : a <= t /\ t <= b => t \in Coordinates[k]
        BY CoordinatesAre
    <1>2. /\ C \in SUBSET Int /\ IsFiniteSet(C)
          /\ RangesOf(C) \in SUBSET (Int \X Int) /\ IsFiniteSet(RangesOf(C))
          /\ \A t \in Int : (\E r \in RangesOf(C) : Within(t, r)) <=> t \in C
        BY CoverageIs, RangesCover
    <1>3. N \in SUBSET Coordinates[k] /\ N \in SUBSET Int /\ IsFiniteSet(N)
        <2>1. N \in SUBSET Coordinates[k]
            BY DEF NewlyCovered, Span, Between
        <2> HIDE DEF N
        <2> QED BY <1>1, <2>1, FS_Subset
    <1>4. ASSUME NEW a \in N, NEW b \in N, NEW t \in Int, a <= t, t <= b  PROVE t \in N
        <2>1. /\ a \in span /\ b \in span /\ Promised(k, b) /\ b <= HistoryEnd(s)
              /\ ~\E open \in span : open <= b /\ Open(k, open)
            BY DEF NewlyCovered
        <2>2. /\ a \in Int /\ b \in Int /\ HistoryEnd(s) \in Int
              /\ a \in Coordinates[k] /\ b \in Coordinates[k] /\ span \in SUBSET Int
            BY <1>1, <1>3, HistoryEndIs DEF Span, Between
        <2>3. t \in span
            <3>1. PICK i, j \in Unknown(k, s, e) : i <= a /\ b <= j
                <4>1. PICK i, m \in Unknown(k, s, e) : i <= a /\ a <= m
                    BY <2>1 DEF Span, Between
                <4>2. PICK l, j \in Unknown(k, s, e) : l <= b /\ b <= j
                    BY <2>1 DEF Span, Between
                <4> QED BY <4>1, <4>2
            <3>2. i \in Int /\ j \in Int
                BY <1>1 DEF Unknown, Window
            <3>3. i <= t /\ t <= j
                BY <1>4, <2>2, <3>1, <3>2
            <3>4. t \in Coordinates[k]
                BY <1>1, <1>4, <2>2
            <3> QED BY <3>3, <3>4 DEF Span, Between
        <2>4. Promised(k, t)
            <3>1. word[k] \in Int /\ b <= word[k] /\ word[k] \in Watermarks[k]
                BY <2>1, ConstantsAssumption DEF Promised
            <3>2. t <= word[k]
                BY <1>4, <2>2, <3>1
            <3> QED BY <2>1, <3>1, <3>2 DEF Promised
        <2>5. t <= HistoryEnd(s)
            BY <1>4, <2>1, <2>2
        <2>6. ~\E open \in span : open <= t /\ Open(k, open)
            <3>1. \A open \in span : open <= t => open <= b
                BY <1>4, <2>2
            <3> QED BY <2>1, <3>1
        <2> QED BY <2>3, <2>4, <2>5, <2>6 DEF NewlyCovered
    <1> HIDE DEF N, C, span
    <1>5. /\ R \in SUBSET (Int \X Int) /\ IsFiniteSet(R)
          /\ \A t \in Int : (\E r \in R : Within(t, r)) <=> t \in C \cup N
        <2>1. CASE N = {}
            <3>1. R = RangesOf(C) /\ C \cup N = C
                BY <2>1 DEF AsRange
            <3> HIDE DEF R
            <3> QED BY <1>2, <3>1
        <2>2. CASE N # {}
            <3> DEFINE a == Min(N)
                       b == Max(N)
            <3>1. a \in N /\ b \in N /\ \A y \in N : a <= y /\ y <= b
                BY <1>3, <2>2, Extremes
            <3>2. R = RangesOf(C) \cup {<<a, b>>}
                BY <2>2 DEF AsRange
            <3> HIDE DEF a, b, R
            <3>3. a \in Int /\ b \in Int
                BY <1>3, <3>1
            <3>4. \A t \in Int : Within(t, <<a, b>>) <=> t \in N
                BY <1>4, <3>1, <3>3 DEF Within
            <3>5. R \in SUBSET (Int \X Int)
                BY <1>2, <3>2, <3>3
            <3>6. IsFiniteSet(R)
                <4>1. IsFiniteSet({<<a, b>>})
                    BY FS_Singleton
                <4> QED BY <1>2, <3>2, <4>1, FS_Union
            <3>7. \A t \in Int : (\E r \in R : Within(t, r)) <=> t \in C \cup N
                BY <1>2, <3>2, <3>4
            <3> QED BY <3>5, <3>6, <3>7
        <2> QED BY <2>1, <2>2
    <1> HIDE DEF R
    <1>6. /\ Gapped(Merged(R))
          /\ \A t \in Int : Spans(Merged(R), t) <=> t \in C \cup N
        BY <1>5, MergedIs
    <1>7. ToSet(Merged(R)) = RangesOf(C \cup N)
        <2>1. C \cup N \in SUBSET Int
            BY <1>2, <1>3
        <2> QED BY <1>6, <2>1, GappedRanges
    <1> QED BY <1>7 DEF R, C, N, span, CoveredAfter

LEMMA SweepsAreRight == TypeOK => SweepsAreExact
    <1> SUFFICES ASSUME TypeOK, NEW k \in Keys, NEW s \in Coordinates[k], NEW e \in Coordinates[k], s <= e
                 PROVE  LET span == Span(k, s, e)
                        IN  /\ ToSet(LiveSpan(s, e, DOMAIN Kept(k) \cap s .. e, Trusted(k, s))) = AsRange(span)
                            /\ ToSet(Merged(RangesOf(Coverage(k)) \cup AsRange(NewlyCovered(k, s, span))))
                                 = RangesOf(CoveredAfter(k, s, span))
        BY DEF SweepsAreExact
    <1> QED BY SpanIsSwept, CoverageIsMerged

-----------------------------------------------------------------------------
(* Script and Proofs have the same definitions.                            *)

LEMMA SameSets ==
    /\ Script!ConstantsAssumption => Proofs!ConstantsAssumption
    /\ Script!Present = Proofs!Present
    /\ \A tab : Script!PresentIn(tab) = Proofs!PresentIn(tab)
    /\ \A tab, n : Script!Remaining(tab, n) = Proofs!Remaining(tab, n)
    /\ \A tab, kept : Script!Only(tab, kept) = Proofs!Only(tab, kept)
    <1>1. Script!ConstantsAssumption => Proofs!ConstantsAssumption
        BY DEF Script!ConstantsAssumption, Proofs!ConstantsAssumption, Script!Entry, Proofs!Entry,
               Script!IsFiniteSet, Proofs!IsFiniteSet
    <1>2. \A tab : Script!PresentIn(tab) = Proofs!PresentIn(tab)
        BY DEF Script!PresentIn, Proofs!PresentIn
    <1>3. \A tab, j, k : Script!Older(tab, j, k) <=> Proofs!Older(tab, j, k)
        BY DEF Script!Older, Proofs!Older
    <1>4. \A tab, k : Script!Newer(tab, k) = Proofs!Newer(tab, k)
        BY <1>2, <1>3 DEF Script!Newer, Proofs!Newer
    <1>5. \A S : Script!Cardinality(S) = Proofs!Cardinality(S)
        BY DEF Script!Cardinality, Proofs!Cardinality
    <1>6. \A tab, n : Script!Remaining(tab, n) = Proofs!Remaining(tab, n)
        BY <1>2, <1>4, <1>5 DEF Script!Remaining, Proofs!Remaining
    <1>7. \A tab, kept : Script!Only(tab, kept) = Proofs!Only(tab, kept)
        BY DEF Script!Only, Proofs!Only
    <1>8. Script!Present = Proofs!Present
        BY <1>2 DEF Script!Present, Proofs!Present
    <1> QED BY <1>1, <1>2, <1>6, <1>7, <1>8

LEMMA SameEntries ==
    /\ \A e : Script!Expired(e) <=> Proofs!Expired(e)
    /\ \A e : Script!Used(e) = Proofs!Used(e) /\ Script!Aged(e) = Proofs!Aged(e)
    /\ \A t : Script!Loaded(t) = Proofs!Loaded(t)
    /\ \A e : Script!Copied(e) = Proofs!Copied(e)
    /\ Script!Restored = Proofs!Restored
    <1>1. \A e : Script!Expired(e) <=> Proofs!Expired(e)
        BY DEF Script!Expired, Proofs!Expired
    <1>2. \A e : Script!Used(e) = Proofs!Used(e) /\ Script!Aged(e) = Proofs!Aged(e)
        BY DEF Script!Used, Proofs!Used, Script!Aged, Proofs!Aged
    <1>3. \A t : Script!Loaded(t) = Proofs!Loaded(t)
        BY SameSets DEF Script!Loaded, Proofs!Loaded
    <1>4. \A e : Script!Copied(e) = Proofs!Copied(e)
        BY DEF Script!Copied, Proofs!Copied, Script!Remainder, Proofs!Remainder
    <1>5. Script!Restored = Proofs!Restored
        BY DEF Script!Restored, Proofs!Restored, Script!Revived, Proofs!Revived
    <1> QED BY <1>1, <1>2, <1>3, <1>4, <1>5

LEMMA SameSteps ==
    /\ \A t : Script!Store(t) <=> Proofs!Store(t)
    /\ \A n : Script!Configure(n) <=> Proofs!Configure(n)
    /\ Script!Next => Proofs!Next
    <1>1. \A tab, n : Script!Become(tab, n) <=> Proofs!Become(tab, n)
        BY SameSets DEF Script!Become, Proofs!Become
    <1>2. \A t : Script!Store(t) <=> Proofs!Store(t)
        BY <1>1, SameEntries DEF Script!Store, Proofs!Store
    <1>3. \A n : Script!Configure(n) <=> Proofs!Configure(n)
        BY <1>1 DEF Script!Configure, Proofs!Configure
    <1>4. \A n : Script!Restore(n) <=> Proofs!Restore(n)
        BY <1>1, SameEntries DEF Script!Restore, Proofs!Restore
    <1>5. \A t, k : Script!Hit(t, k) <=> Proofs!Hit(t, k)
        BY SameEntries DEF Script!Hit, Proofs!Hit
    <1>6. \A t, k, ttl : Script!Miss(t, k, ttl) <=> Proofs!Miss(t, k, ttl)
        BY SameEntries DEF Script!Miss, Proofs!Miss
    <1>7. \A t : Script!LoaderFails(t) <=> Proofs!LoaderFails(t)
        BY DEF Script!LoaderFails, Proofs!LoaderFails, Script!cacheVars, Proofs!cacheVars
    <1>8. \A keys : Script!Clear(keys) <=> Proofs!Clear(keys)
        BY SameSets DEF Script!Clear, Proofs!Clear
    <1>9. Script!Snapshot <=> Proofs!Snapshot
        BY SameSets, SameEntries
        DEF Script!Snapshot, Proofs!Snapshot, Script!cacheVars, Proofs!cacheVars
    <1>10. Script!Tick <=> Proofs!Tick
        BY SameEntries DEF Script!Tick, Proofs!Tick
    <1> QED BY <1>2, <1>3, <1>4, <1>5, <1>6, <1>7, <1>8, <1>9, <1>10
            DEF Script!Next, Proofs!Next

\* A behaviour of the two caches is one of the script cache.
LEMMA ScriptCacheRuns == CachesSpec => Proofs!Spec
    <1>1. CachesInit => Proofs!Init
        BY DEF CachesInit, Script!Init, Proofs!Init
    <1>2. [CachesNext]_<<used, vars, script>> => [Proofs!Next]_(Proofs!vars)
        BY SameSteps DEF CachesNext, Proofs!vars, Proofs!cacheVars, script
    <1> QED BY <1>1, <1>2, PTL DEF CachesSpec, Proofs!Spec

\* And one of the range cache.
LEMMA RangeCacheRuns == CachesSpec => Spec
    <1>1. CachesInit => Init
        BY DEF CachesInit
    <1>2. [CachesNext]_<<used, vars, script>> => [Next]_vars
        BY DEF CachesNext
    <1> QED BY <1>1, <1>2, PTL DEF CachesSpec, Spec

-----------------------------------------------------------------------------

\* The script cache holds at most max_items entries and no key twice
\* (_enforce_limit), the range cache at most max_cached_bars rows and
\* max_covered_ranges ranges of all contexts together (_enforce_limits).
THEOREM LimitsRespectedByBoth == CachesSpec => []CachesAreInOrder
    <1>1. Proofs!ConstantsAssumption
        BY ScriptConstants, SameSets
    <1>2. Proofs!Spec => []Proofs!TypeOK
        BY <1>1, Proofs!WithinItsLimit
    <1>3. Proofs!TypeOK => Script!TypeOK
        <2>1. \A S : Script!Cardinality(S) = Proofs!Cardinality(S)
            BY DEF Script!Cardinality, Proofs!Cardinality
        <2>2. Script!Entry = Proofs!Entry
            BY DEF Script!Entry, Proofs!Entry
        <2> QED BY SameSets, <2>1, <2>2 DEF Proofs!TypeOK, Script!TypeOK
    <1>4. TypeOK /\ WithinLimits /\ Script!TypeOK => CachesAreInOrder
        BY DEF CachesAreInOrder
    <1> QED BY <1>2, <1>3, <1>4, ScriptCacheRuns, RangeCacheRuns, TypeCorrect, LimitsRespected, PTL

\* The sweeps over sorted ranges and times find the span that the sets define, and
\* merging leaves the maximal ranges of what is covered (_merge_ranges,
\* _missing_ranges, _missing_observed_span, _missing_live_span).
THEOREM SweepsFindTheSets == CachesSpec => []SweepsHold
    <1>1. TypeOK => SweepsHold
        BY SweepsAreRight DEF SweepsHold
    <1> QED BY <1>1, RangeCacheRuns, TypeCorrect, PTL

\* What has been in live caches for more than the time to live it was loaded
\* with is expired, through any number of snapshots and restores
\* (snapshot_state, restore_state).
THEOREM TimeToLiveHolds == CachesSpec => []NothingOutlivesItsTtl
    <1>1. Proofs!ConstantsAssumption
        BY ScriptConstants, SameSets
    <1>2. Proofs!Spec => []Proofs!NothingOutlivesItsTtl
        BY <1>1, Proofs!TimeToLiveHolds
    <1>3. Proofs!NothingOutlivesItsTtl => NothingOutlivesItsTtl
        BY SameSets, SameEntries
        DEF Proofs!NothingOutlivesItsTtl, NothingOutlivesItsTtl, Script!NothingOutlivesItsTtl
    <1> QED BY <1>2, <1>3, ScriptCacheRuns, PTL

\* A store over the limit and a smaller limit take what was unused for the
\* longest time, and never what a call just loaded (_enforce_limit).
THEOREM ColdestEvicted == CachesSpec => EvictsColdest
    <1>1. Proofs!ConstantsAssumption
        BY ScriptConstants, SameSets
    <1>2. Proofs!Spec => Proofs!EvictsColdest
        BY <1>1, Proofs!ColdestEvicted
    <1>3. [/\ (\E t \in Threads : Proofs!Store(t)) \/ (\E n \in Limits : Proofs!Configure(n)) =>
                  \A j \in Proofs!Present \ Proofs!Present', k \in Proofs!Present \cap Proofs!Present' :
                      items[j].unused >= items'[k].unused
           /\ \A t \in Threads : Proofs!Store(t) => items'[loading[t].key] # NoEntry]_(Proofs!vars)
          => [/\ (\E t \in Threads : Script!Store(t)) \/ (\E n \in Limits : Script!Configure(n)) =>
                     \A j \in Script!Present \ Script!Present', k \in Script!Present \cap Script!Present' :
                         items[j].unused >= items'[k].unused
              /\ \A t \in Threads : Script!Store(t) => items'[loading[t].key] # NoEntry]_(Script!vars)
        <2>1. Script!Present = Proofs!Present /\ Script!Present' = Proofs!Present'
            BY DEF Script!Present, Proofs!Present, Script!PresentIn, Proofs!PresentIn
        <2> QED BY <2>1, SameSteps
                DEF Script!vars, Script!cacheVars, Proofs!vars, Proofs!cacheVars
    <1> QED BY <1>2, <1>3, ScriptCacheRuns, PTL
            DEF EvictsColdest, Script!EvictsColdest, Proofs!EvictsColdest
=============================================================================
