--------------------------- MODULE PyneCacheProofs ---------------------------
(***************************************************************************)
(* The script cache stays within its limit, serves nothing after its time  *)
(* to live and evicts what was unused for the longest time, for any        *)
(* finite set of keys, any limits, times to live, threads and loads.       *)
(***************************************************************************)
EXTENDS PyneCache, FiniteSetTheorems, TLAPS

-----------------------------------------------------------------------------
(* The inductive invariant: an entry's clock readings say what its history *)
(* says, in the live cache at clock reading now and in the snapshot, when n *)
(* loads have returned.                                                    *)

TimesAgree(e, now, n) ==
    /\ e.place <= n
    /\ e.lastAccess = now - e.unused
    /\ e.granted = NoTtl <=> e.ttl = NoTtl
    /\ e.ttl # NoTtl => e.granted - e.lived = e.ttl - (now - e.created)

GoodTable(tab, now, n) ==
    /\ tab \in [Keys -> Entry \cup {NoEntry}]
    /\ \A k \in PresentIn(tab) : TimesAgree(tab[k], now, n)
    /\ \A j, k \in PresentIn(tab) : tab[j].place = tab[k].place => j = k

SavedEntry == [value: Nat, remaining: Nat \cup {NoTtl}, age: Nat, place: Nat,
               lived: Nat, granted: Nat \cup {NoTtl}]
SavedAgrees(s, n) ==
    /\ s \in SavedEntry
    /\ s.place <= n
    /\ s.granted = NoTtl <=> s.remaining = NoTtl
    /\ s.remaining # NoTtl => s.granted - s.lived = s.remaining
GoodSnapshot(snapshot, n) ==
    /\ DOMAIN snapshot \subseteq Keys
    /\ \A k \in DOMAIN snapshot : SavedAgrees(snapshot[k], n)
    /\ \A j, k \in DOMAIN snapshot : snapshot[j].place = snapshot[k].place => j = k

CountersOK ==
    /\ maxItems \in Limits
    /\ clock \in Nat /\ loads \in Nat
    /\ loading \in [Threads -> [key: Keys, ttl: Ttls] \cup {NoCall}]

IInv ==
    /\ CountersOK
    /\ GoodTable(items, clock, loads)
    /\ Cardinality(Present) <= maxItems
    /\ saved # NoSnapshot => GoodSnapshot(saved, loads)

-----------------------------------------------------------------------------
(* Eviction.  tab is a dict in which no two keys have one place.           *)

\* The order of eviction is strict and total on the keys of the dict.
LEMMA OlderIsStrict ==
    ASSUME NEW tab, NEW now \in Nat, NEW n \in Nat, GoodTable(tab, now, n)
    PROVE  /\ \A j \in PresentIn(tab) : ~Older(tab, j, j)
           /\ \A i, j, k \in PresentIn(tab) : Older(tab, i, j) /\ Older(tab, j, k) => Older(tab, i, k)
           /\ \A j, k \in PresentIn(tab) : j = k \/ Older(tab, j, k) \/ Older(tab, k, j)
    <1>1. \A k \in PresentIn(tab) : tab[k].lastAccess \in Int /\ tab[k].place \in Nat
        BY DEF GoodTable, PresentIn, Entry
    <1>2. \A j, k \in PresentIn(tab) : tab[j].place = tab[k].place => j = k
        BY DEF GoodTable
    <1> QED BY <1>1, <1>2 DEF Older

\* Fewer keys are newer than a newer key.
LEMMA NewerHaveFewer ==
    ASSUME ConstantsAssumption,
           NEW tab, NEW now \in Nat, NEW n \in Nat, GoodTable(tab, now, n),
           NEW j \in PresentIn(tab), NEW k \in PresentIn(tab), Older(tab, j, k)
    PROVE  /\ Cardinality(Newer(tab, j)) \in Nat /\ Cardinality(Newer(tab, k)) \in Nat
           /\ Cardinality(Newer(tab, k)) < Cardinality(Newer(tab, j))
    <1>1. IsFiniteSet(Keys)
        BY DEF ConstantsAssumption
    <1>2. IsFiniteSet(Newer(tab, j)) /\ IsFiniteSet(Newer(tab, k))
        <2>1. Newer(tab, j) \in SUBSET Keys /\ Newer(tab, k) \in SUBSET Keys
            BY DEF Newer, PresentIn
        <2> QED BY <1>1, <2>1, FS_Subset
    <1>3. Newer(tab, k) \in SUBSET Newer(tab, j)
        BY OlderIsStrict DEF Newer
    <1>4. k \in Newer(tab, j) /\ k \notin Newer(tab, k)
        BY OlderIsStrict DEF Newer
    <1>5. /\ Cardinality(Newer(tab, k)) <= Cardinality(Newer(tab, j))
          /\ Cardinality(Newer(tab, j)) = Cardinality(Newer(tab, k)) => Newer(tab, j) = Newer(tab, k)
        BY <1>2, <1>3, FS_Subset
    <1>6. Cardinality(Newer(tab, j)) \in Nat /\ Cardinality(Newer(tab, k)) \in Nat
        BY <1>2, FS_CardinalityType
    <1> QED BY <1>4, <1>5, <1>6

\* _enforce_limit leaves a dict of at most m entries.
LEMMA RemainingFits ==
    ASSUME ConstantsAssumption,
           NEW tab, NEW now \in Nat, NEW n \in Nat, GoodTable(tab, now, n), NEW m \in Nat
    PROVE  Cardinality(Remaining(tab, m)) <= m
    <1> DEFINE Rank(k) == Cardinality(Newer(tab, k))
               rank == [k \in Remaining(tab, m) |-> Rank(k)]
    <1>1. \A k \in PresentIn(tab) : Rank(k) \in Nat
        <2> SUFFICES ASSUME NEW k \in PresentIn(tab) PROVE Rank(k) \in Nat
            OBVIOUS
        <2>1. IsFiniteSet(Keys) /\ Newer(tab, k) \in SUBSET Keys
            BY DEF ConstantsAssumption, Newer, PresentIn
        <2>2. IsFiniteSet(Newer(tab, k))
            BY <2>1, FS_Subset
        <2> QED BY <2>2, FS_CardinalityType
    <1>2. \A j, k \in Remaining(tab, m) : Rank(j) = Rank(k) => j = k
        <2> SUFFICES ASSUME NEW j \in PresentIn(tab), NEW k \in PresentIn(tab), j # k
                     PROVE  Rank(j) # Rank(k)
            BY DEF Remaining
        <2>1. Older(tab, j, k) \/ Older(tab, k, j)
            BY OlderIsStrict
        <2>2. CASE Older(tab, j, k)
            <3>1. Rank(j) \in Nat /\ Rank(k) \in Nat /\ Rank(k) < Rank(j)
                BY <2>2, NewerHaveFewer
            <3> QED BY <3>1
        <2>3. CASE Older(tab, k, j)
            <3>1. Rank(j) \in Nat /\ Rank(k) \in Nat /\ Rank(j) < Rank(k)
                BY <2>3, NewerHaveFewer
            <3> QED BY <3>1
        <2> QED BY <2>1, <2>2, <2>3
    <1>3. rank \in [Remaining(tab, m) -> 0 .. m - 1]
        BY <1>1 DEF Remaining
    <1>4. rank \in Injection(Remaining(tab, m), 0 .. m - 1)
        BY <1>2, <1>3 DEF Injection, IsInjective
    <1>5. IsFiniteSet(0 .. m - 1) /\ Cardinality(0 .. m - 1) = m
        <2>1. /\ IsFiniteSet(0 .. m - 1)
              /\ Cardinality(0 .. m - 1) = IF 0 > m - 1 THEN 0 ELSE (m - 1) - 0 + 1
            BY FS_Interval
        <2> QED BY <2>1
    <1>6. Cardinality(Remaining(tab, m)) <= Cardinality(0 .. m - 1)
        BY <1>4, <1>5, FS_Injection
    <1> QED BY <1>5, <1>6

\* Taking entries away leaves a good dict.
LEMMA OnlyIsGood ==
    ASSUME NEW tab, NEW now, NEW n, GoodTable(tab, now, n), NEW kept, kept \subseteq PresentIn(tab)
    PROVE  /\ GoodTable(Only(tab, kept), now, n)
           /\ PresentIn(Only(tab, kept)) = kept
           /\ \A k \in kept : Only(tab, kept)[k] = tab[k]
    <1>1. \A k \in kept : k \in Keys /\ Only(tab, kept)[k] = tab[k]
        BY DEF Only, PresentIn
    <1>2. \A k \in Keys \ kept : Only(tab, kept)[k] = NoEntry
        BY DEF Only
    <1>3. PresentIn(Only(tab, kept)) = kept
        BY <1>1, <1>2 DEF PresentIn
    <1>4. Only(tab, kept) \in [Keys -> Entry \cup {NoEntry}]
        BY DEF Only, GoodTable
    <1> QED BY <1>1, <1>3, <1>4 DEF GoodTable

LEMMA CutIsGood ==
    ASSUME ConstantsAssumption,
           NEW tab, NEW now \in Nat, NEW n \in Nat, GoodTable(tab, now, n), NEW m \in Nat
    PROVE  /\ GoodTable(Only(tab, Remaining(tab, m)), now, n)
           /\ PresentIn(Only(tab, Remaining(tab, m))) = Remaining(tab, m)
           /\ Cardinality(PresentIn(Only(tab, Remaining(tab, m)))) <= m
           /\ \A k \in Remaining(tab, m) : Only(tab, Remaining(tab, m))[k] = tab[k]
    <1>1. Remaining(tab, m) \subseteq PresentIn(tab)
        BY DEF Remaining
    <1> QED BY <1>1, OnlyIsGood, RemainingFits

\* An entry that goes was used no later than one that stays.
LEMMA ColdestGo ==
    ASSUME ConstantsAssumption,
           NEW tab, NEW now \in Nat, NEW n \in Nat, GoodTable(tab, now, n), NEW m \in Nat,
           NEW j \in PresentIn(tab) \ Remaining(tab, m), NEW k \in Remaining(tab, m)
    PROVE  tab[j].lastAccess <= tab[k].lastAccess
    <1>1. k \in PresentIn(tab) /\ j # k
        BY DEF Remaining
    <1>2. ~Older(tab, k, j)
        <2> SUFFICES ASSUME Older(tab, k, j) PROVE FALSE
            OBVIOUS
        <2>1. /\ Cardinality(Newer(tab, j)) \in Nat /\ Cardinality(Newer(tab, k)) \in Nat
              /\ Cardinality(Newer(tab, j)) < Cardinality(Newer(tab, k))
            BY <1>1, NewerHaveFewer
        <2> QED BY <2>1 DEF Remaining
    <1>3. Older(tab, j, k)
        BY <1>1, <1>2, OlderIsStrict
    <1>4. tab[j].lastAccess \in Int /\ tab[k].lastAccess \in Int
        BY <1>1 DEF GoodTable, PresentIn, Entry
    <1> QED BY <1>3, <1>4 DEF Older

-----------------------------------------------------------------------------
(* Entries.                                                                *)

LEMMA UsedAgrees ==
    ASSUME ConstantsAssumption, CountersOK, NEW e \in Entry, TimesAgree(e, clock, loads)
    PROVE  Used(e) \in Entry /\ TimesAgree(Used(e), clock, loads) /\ Used(e).place = e.place
    <1>1. /\ Used(e).value = e.value /\ Used(e).created = e.created /\ Used(e).ttl = e.ttl
          /\ Used(e).place = e.place /\ Used(e).lived = e.lived /\ Used(e).granted = e.granted
          /\ Used(e).lastAccess = clock /\ Used(e).unused = 0
        BY DEF Used, Entry
    <1>2. clock \in Int
        BY DEF CountersOK
    <1>3. Used(e) \in Entry
        BY <1>2 DEF Used, Entry
    <1> QED BY <1>1, <1>2, <1>3 DEF TimesAgree

LEMMA LivedOn ==
    ASSUME NEW e \in Entry, NEW l \in Nat, NEW u \in Nat
    PROVE  [e EXCEPT !.lived = l, !.unused = u] \in Entry
    BY DEF Entry

LEMMA AgedAgrees ==
    ASSUME ConstantsAssumption, CountersOK, NEW e \in Entry, TimesAgree(e, clock, loads)
    PROVE  Aged(e) \in Entry /\ TimesAgree(Aged(e), clock + 1, loads) /\ Aged(e).place = e.place
    <1>1. /\ Aged(e).value = e.value /\ Aged(e).created = e.created /\ Aged(e).ttl = e.ttl
          /\ Aged(e).place = e.place /\ Aged(e).granted = e.granted
          /\ Aged(e).lastAccess = e.lastAccess
          /\ Aged(e).lived = e.lived + 1 /\ Aged(e).unused = e.unused + 1
        BY DEF Aged, Entry
    <1>2. Aged(e) \in Entry
        <2>1. e.lived + 1 \in Nat /\ e.unused + 1 \in Nat
            BY DEF Entry
        <2> QED BY <2>1, LivedOn DEF Aged
    <1>3. clock \in Nat /\ e.created \in Nat /\ e.lived \in Nat /\ e.unused \in Nat
        BY DEF CountersOK, Entry
    <1>4. e.ttl # NoTtl => e.ttl \in Nat
        BY DEF Entry
    <1>5. e.granted # NoTtl => e.granted \in Nat
        BY DEF Entry
    <1>6. Aged(e).lastAccess = (clock + 1) - Aged(e).unused
        BY <1>1, <1>3 DEF TimesAgree
    <1>7. Aged(e).ttl # NoTtl
            => Aged(e).granted - Aged(e).lived = Aged(e).ttl - ((clock + 1) - Aged(e).created)
        <2> SUFFICES ASSUME e.ttl # NoTtl
                     PROVE  e.granted - (e.lived + 1) = e.ttl - ((clock + 1) - e.created)
            BY <1>1
        <2>1. e.granted \in Nat /\ e.ttl \in Nat
            BY <1>4, <1>5 DEF TimesAgree
        <2>2. e.granted - e.lived = e.ttl - (clock - e.created)
            BY DEF TimesAgree
        <2> QED BY <1>3, <2>1, <2>2
    <1>8. Aged(e).place <= loads
        BY <1>1 DEF TimesAgree
    <1>9. Aged(e).granted = NoTtl <=> Aged(e).ttl = NoTtl
        BY <1>1 DEF TimesAgree
    <1>10. Aged(e).place = e.place
        BY <1>1
    <1>11. TimesAgree(Aged(e), clock + 1, loads)
        BY <1>6, <1>7, <1>8, <1>9 DEF TimesAgree
    <1> QED BY <1>2, <1>10, <1>11

LEMMA LoadedAgrees ==
    ASSUME ConstantsAssumption, CountersOK, GoodTable(items, clock, loads),
           NEW t \in Threads, loading[t] # NoCall
    PROVE  /\ loading[t].key \in Keys
           /\ Loaded(t) \in Entry
           /\ TimesAgree(Loaded(t), clock, loads + 1)
           /\ Loaded(t).lastAccess = clock /\ Loaded(t).unused = 0
    <1>1. loading[t].key \in Keys /\ loading[t].ttl \in Nat \cup {NoTtl}
        BY DEF CountersOK, ConstantsAssumption
    <1>2. clock \in Nat /\ loads \in Nat
        BY DEF CountersOK
    <1>3. Loaded(t).place \in Nat /\ Loaded(t).place <= loads + 1
        <2>1. CASE loading[t].key \in Present
            <3>1. items[loading[t].key] \in Entry /\ items[loading[t].key].place <= loads
                BY <2>1 DEF GoodTable, Present, PresentIn, TimesAgree
            <3>2. items[loading[t].key].place \in Nat
                BY <3>1 DEF Entry
            <3> QED BY <1>2, <2>1, <3>1, <3>2 DEF Loaded
        <2>2. CASE loading[t].key \notin Present
            BY <1>2, <2>2 DEF Loaded
        <2> QED BY <2>1, <2>2
    <1>4. /\ Loaded(t).value = loads + 1 /\ Loaded(t).created = clock
          /\ Loaded(t).lastAccess = clock /\ Loaded(t).ttl = loading[t].ttl
          /\ Loaded(t).lived = 0 /\ Loaded(t).unused = 0 /\ Loaded(t).granted = loading[t].ttl
        BY DEF Loaded
    <1>5. Loaded(t) \in Entry
        <2>1. Loaded(t) = [value |-> loads + 1, created |-> clock, lastAccess |-> clock,
                           ttl |-> loading[t].ttl, place |-> Loaded(t).place,
                           lived |-> 0, unused |-> 0, granted |-> loading[t].ttl]
            BY DEF Loaded
        <2> QED BY <1>1, <1>2, <1>3, <2>1 DEF Entry
    <1> QED BY <1>1, <1>2, <1>3, <1>4, <1>5 DEF TimesAgree

\* What a snapshot says of an entry that is served.
LEMMA CopiedAgrees ==
    ASSUME ConstantsAssumption, CountersOK,
           NEW e \in Entry, TimesAgree(e, clock, loads), ~Expired(e)
    PROVE  SavedAgrees(Copied(e), loads) /\ Copied(e).place = e.place
    <1>1. clock \in Nat /\ e.created \in Nat /\ e.lived \in Nat /\ e.unused \in Nat
        BY DEF CountersOK, Entry
    <1>2. clock - e.lastAccess = e.unused
        BY <1>1 DEF TimesAgree
    <1>3. CASE e.ttl = NoTtl
        <2>1. Remainder(e) = NoTtl /\ e.granted = NoTtl
            BY <1>3 DEF Remainder, TimesAgree
        <2> QED BY <1>1, <1>2, <2>1 DEF Copied, SavedAgrees, SavedEntry, Entry, TimesAgree
    <1>4. CASE e.ttl # NoTtl
        <2>1. e.ttl \in Nat /\ e.granted \in Nat
            BY <1>4 DEF Entry, TimesAgree
        <2>2. clock - e.created <= e.ttl
            BY <1>1, <1>4, <2>1 DEF Expired
        <2>3. Remainder(e) = e.ttl - (clock - e.created)
            BY <1>1, <1>4, <2>1, <2>2 DEF Remainder
        <2>4. e.granted - e.lived = Remainder(e)
            BY <1>4, <2>3 DEF TimesAgree
        <2>5. Remainder(e) \in Int
            BY <1>1, <2>1, <2>3
        <2>6. Remainder(e) <= e.granted /\ e.granted # NoTtl /\ Remainder(e) # NoTtl
            BY <1>1, <2>1, <2>4, <2>5 DEF ConstantsAssumption
        <2>7. Remainder(e) \in Nat
            BY <1>1, <2>1, <2>2, <2>3, <2>5
        <2> QED BY <1>1, <1>2, <2>1, <2>4, <2>6, <2>7
                DEF Copied, SavedAgrees, SavedEntry, Entry, TimesAgree
    <1> QED BY <1>3, <1>4

LEMMA RevivedAgrees ==
    ASSUME ConstantsAssumption, CountersOK, NEW s, SavedAgrees(s, loads)
    PROVE  Revived(s) \in Entry /\ TimesAgree(Revived(s), clock, loads) /\ Revived(s).place = s.place
    <1>1. clock \in Nat /\ s.age \in Nat /\ s \in SavedEntry
        BY DEF CountersOK, SavedAgrees, SavedEntry
    <1>2. Revived(s) \in Entry
        BY <1>1 DEF Revived, Entry, SavedEntry
    <1>3. s.remaining # NoTtl => s.remaining \in Nat
        BY <1>1 DEF SavedEntry
    <1> QED BY <1>1, <1>2, <1>3 DEF Revived, TimesAgree, SavedAgrees

-----------------------------------------------------------------------------
(* Dicts.                                                                  *)

\* The entry e goes to the key k of tab, at the place it has there or at one
\* of its own.
Inserts(tab, now, m, n, k, e) ==
    /\ m \in Nat /\ n \in Nat /\ m <= n
    /\ GoodTable(tab, now, m)
    /\ k \in Keys /\ e \in Entry /\ TimesAgree(e, now, n)
    /\ \A j \in PresentIn(tab) : tab[j].place = e.place <=> j = k

With(tab, k, e) == [tab EXCEPT ![k] = e]

LEMMA InsertIsGood ==
    ASSUME ConstantsAssumption,
           NEW tab, NEW now, NEW m, NEW n, NEW k, NEW e, Inserts(tab, now, m, n, k, e)
    PROVE  /\ GoodTable(With(tab, k, e), now, n)
           /\ PresentIn(With(tab, k, e)) = PresentIn(tab) \cup {k}
    <1> DEFINE new == [tab EXCEPT ![k] = e]
    <1> USE DEF Inserts
    <1>1. new \in [Keys -> Entry \cup {NoEntry}]
        BY DEF GoodTable
    <1>2. new[k] = e /\ \A j \in Keys \ {k} : new[j] = tab[j]
        BY DEF GoodTable
    <1>3. PresentIn(new) = PresentIn(tab) \cup {k}
        <2>1. e # NoEntry
            BY DEF ConstantsAssumption
        <2> QED BY <1>2, <2>1 DEF PresentIn
    <1> HIDE DEF new
    <1>4. ASSUME NEW j \in PresentIn(new) PROVE TimesAgree(new[j], now, n)
        <2>1. CASE j = k
            BY <1>2, <2>1
        <2>2. CASE j # k
            <3>1. j \in PresentIn(tab) /\ j \in Keys /\ new[j] = tab[j]
                BY <1>2, <1>3, <2>2 DEF PresentIn
            <3>2. tab[j].place \in Nat
                BY <3>1 DEF GoodTable, PresentIn, Entry
            <3> QED BY <3>1, <3>2 DEF GoodTable, TimesAgree
        <2> QED BY <2>1, <2>2
    <1>5. ASSUME NEW i \in PresentIn(new), NEW j \in PresentIn(new), new[i].place = new[j].place
          PROVE  i = j
        <2>1. \A l \in PresentIn(new) : l # k => l \in PresentIn(tab) /\ new[l] = tab[l]
            BY <1>2, <1>3 DEF PresentIn
        <2>2. CASE i = k \/ j = k
            BY <1>2, <1>5, <2>1, <2>2
        <2>3. CASE i # k /\ j # k
            BY <1>5, <2>1, <2>3 DEF GoodTable
        <2> QED BY <2>2, <2>3
    <1>6. GoodTable(new, now, n)
        BY <1>1, <1>4, <1>5 DEF GoodTable
    <1> QED BY <1>3, <1>6 DEF new, With

LEMMA FewerFit ==
    ASSUME ConstantsAssumption, CountersOK, Cardinality(Present) <= maxItems,
           NEW kept, kept \subseteq Present
    PROVE  Cardinality(kept) <= maxItems
    <1>1. IsFiniteSet(Keys) /\ Present \in SUBSET Keys
        BY DEF ConstantsAssumption, Present, PresentIn
    <1>2. IsFiniteSet(Present)
        BY <1>1, FS_Subset
    <1>3. IsFiniteSet(kept) /\ Cardinality(kept) <= Cardinality(Present)
        BY <1>2, FS_Subset
    <1>4. Cardinality(kept) \in Nat /\ Cardinality(Present) \in Nat
        BY <1>2, <1>3, FS_CardinalityType
    <1>5. maxItems \in Int
        BY DEF CountersOK, ConstantsAssumption
    <1> QED BY <1>3, <1>4, <1>5

\* What a restore puts in place of the live dict.
LEMMA RestoredIsGood ==
    ASSUME ConstantsAssumption, CountersOK, GoodSnapshot(saved, loads)
    PROVE  GoodTable(Restored, clock, loads)
    <1> DEFINE alive == {k \in DOMAIN saved : saved[k].remaining # 0}
    <1>1. \A k \in alive : k \in Keys /\ Restored[k] = Revived(saved[k])
        BY DEF Restored, GoodSnapshot
    <1>2. \A k \in Keys \ alive : Restored[k] = NoEntry
        BY DEF Restored
    <1>3. \A k \in alive : /\ Revived(saved[k]) \in Entry
                           /\ TimesAgree(Revived(saved[k]), clock, loads)
                           /\ Revived(saved[k]).place = saved[k].place
        BY RevivedAgrees DEF GoodSnapshot
    <1>4. PresentIn(Restored) \subseteq alive
        BY <1>2 DEF PresentIn
    <1>5. Restored \in [Keys -> Entry \cup {NoEntry}]
        <2>1. \A k \in Keys : Restored[k] \in Entry \cup {NoEntry}
            BY <1>1, <1>2, <1>3
        <2>2. Restored = [k \in Keys |-> Restored[k]]
            BY DEF Restored
        <2> HIDE DEF Restored
        <2> QED BY <2>1, <2>2
    <1>6. ASSUME NEW j \in PresentIn(Restored), NEW k \in PresentIn(Restored),
                 Restored[j].place = Restored[k].place
          PROVE  j = k
        <2>1. saved[j].place = saved[k].place
            BY <1>1, <1>3, <1>4, <1>6
        <2> QED BY <1>4, <2>1 DEF GoodSnapshot
    <1> HIDE DEF Restored
    <1> QED BY <1>1, <1>3, <1>4, <1>5, <1>6 DEF GoodTable

\* Time passes.
LEMMA AgedIsGood ==
    ASSUME ConstantsAssumption, CountersOK, GoodTable(items, clock, loads), Tick
    PROVE  GoodTable(items', clock + 1, loads) /\ PresentIn(items') = PresentIn(items)
    <1>1. \A k \in PresentIn(items) :
              /\ k \in Keys /\ items[k] \in Entry /\ items'[k] = Aged(items[k])
              /\ Aged(items[k]) \in Entry
              /\ TimesAgree(Aged(items[k]), clock + 1, loads)
              /\ Aged(items[k]).place = items[k].place
        <2> SUFFICES ASSUME NEW k \in PresentIn(items)
                     PROVE  /\ k \in Keys /\ items[k] \in Entry /\ items'[k] = Aged(items[k])
                            /\ Aged(items[k]) \in Entry
                            /\ TimesAgree(Aged(items[k]), clock + 1, loads)
                            /\ Aged(items[k]).place = items[k].place
            OBVIOUS
        <2>1. k \in Keys /\ items[k] # NoEntry
            BY DEF PresentIn
        <2>2. items[k] \in Entry /\ TimesAgree(items[k], clock, loads)
            BY <2>1 DEF GoodTable
        <2>3. items'[k] = Aged(items[k])
            BY <2>1 DEF Tick
        <2> QED BY <2>1, <2>2, <2>3, AgedAgrees
    <1>2. \A k \in Keys \ PresentIn(items) : items'[k] = NoEntry
        BY DEF Tick, PresentIn
    <1>3. PresentIn(items') = PresentIn(items)
        <2>1. \A k \in PresentIn(items) : items'[k] # NoEntry
            BY <1>1 DEF ConstantsAssumption
        <2> QED BY <1>1, <1>2, <2>1 DEF PresentIn
    <1>4. items' \in [Keys -> Entry \cup {NoEntry}]
        <2>1. \A k \in Keys : items'[k] \in Entry \cup {NoEntry}
            BY <1>1, <1>2
        <2>2. items' = [k \in Keys |-> items'[k]]
            BY DEF Tick
        <2> QED BY <2>1, <2>2
    <1>5. \A j, k \in PresentIn(items') : items'[j].place = items'[k].place => j = k
        BY <1>1, <1>3 DEF GoodTable
    <1> QED BY <1>1, <1>3, <1>4, <1>5 DEF GoodTable

-----------------------------------------------------------------------------
(* Steps.                                                                  *)

LEMMA InitIsGood == ASSUME ConstantsAssumption, Init PROVE IInv
    <1>1. Present = {}
        BY DEF Init, Present, PresentIn
    <1>2. Cardinality(Present) = 0
        BY <1>1, FS_EmptySet
    <1>3. GoodTable(items, clock, loads)
        BY <1>1 DEF Init, GoodTable, Present, PresentIn
    <1>4. CountersOK
        BY DEF Init, CountersOK
    <1>5. 0 <= maxItems
        BY <1>4 DEF CountersOK, ConstantsAssumption
    <1> QED BY <1>2, <1>3, <1>4, <1>5 DEF IInv, Init

LEMMA HitKeepsInv ==
    ASSUME ConstantsAssumption, IInv, NEW t \in Threads, NEW k \in Keys, Hit(t, k)
    PROVE  IInv'
    <1>1. items[k] \in Entry /\ TimesAgree(items[k], clock, loads) /\ k \in PresentIn(items)
        BY DEF Hit, IInv, GoodTable, PresentIn
    <1>2. /\ Used(items[k]) \in Entry /\ TimesAgree(Used(items[k]), clock, loads)
          /\ Used(items[k]).place = items[k].place
        BY <1>1, UsedAgrees DEF IInv
    <1>3. \A j \in PresentIn(items) : items[j].place = Used(items[k]).place <=> j = k
        BY <1>1, <1>2 DEF IInv, GoodTable
    <1>4. items' = [items EXCEPT ![k] = Used(items[k])]
        BY DEF Hit
    <1>5. GoodTable(items', clock, loads) /\ PresentIn(items') = PresentIn(items) \cup {k}
        <2> DEFINE e == Used(items[k])
        <2>1. loads \in Nat /\ loads <= loads /\ GoodTable(items, clock, loads)
            BY DEF IInv, CountersOK
        <2>2. e \in Entry /\ TimesAgree(e, clock, loads)
            BY <1>2
        <2>3. \A j \in PresentIn(items) : items[j].place = e.place <=> j = k
            BY <1>3
        <2>4. items' = With(items, k, e)
            BY <1>4 DEF With
        <2> HIDE DEF e
        <2>5. /\ GoodTable(With(items, k, e), clock, loads)
              /\ PresentIn(With(items, k, e)) = PresentIn(items) \cup {k}
            <3>1. Inserts(items, clock, loads, loads, k, e)
                BY <2>1, <2>2, <2>3 DEF Inserts
            <3> QED BY <3>1, InsertIsGood
        <2> QED BY <2>4, <2>5
    <1>6. Present' = Present
        BY <1>1, <1>5 DEF Present
    <1> QED BY <1>5, <1>6 DEF IInv, CountersOK, Hit

LEMMA MissKeepsInv ==
    ASSUME ConstantsAssumption, IInv, NEW t \in Threads, NEW k \in Keys, NEW ttl \in Ttls,
           Miss(t, k, ttl)
    PROVE  IInv'
    <1>1. items' = Only(items, Present \ {k})
        BY DEF Miss, Only, Present, PresentIn, IInv, GoodTable
    <1>2. GoodTable(items', clock, loads) /\ PresentIn(items') = Present \ {k}
        BY <1>1, OnlyIsGood DEF IInv, Present
    <1>3. Cardinality(Present') <= maxItems
        BY <1>2, FewerFit DEF IInv, Present
    <1>4. loading' \in [Threads -> [key: Keys, ttl: Ttls] \cup {NoCall}]
        BY DEF Miss, IInv, CountersOK
    <1> QED BY <1>2, <1>3, <1>4 DEF IInv, CountersOK, Miss

\* What a Store does to the dict before the limit is enforced.
LEMMA StoredIsGood ==
    ASSUME ConstantsAssumption, IInv, NEW t \in Threads, loading[t] # NoCall
    PROVE  /\ GoodTable([items EXCEPT ![loading[t].key] = Loaded(t)], clock, loads + 1)
           /\ PresentIn([items EXCEPT ![loading[t].key] = Loaded(t)]) = Present \cup {loading[t].key}
    <1>1. /\ loading[t].key \in Keys /\ Loaded(t) \in Entry
          /\ TimesAgree(Loaded(t), clock, loads + 1)
        BY LoadedAgrees DEF IInv
    <1>2. loads \in Nat /\ loads + 1 \in Nat /\ loads <= loads + 1
        BY DEF IInv, CountersOK
    <1>3. \A j \in PresentIn(items) : items[j].place = Loaded(t).place <=> j = loading[t].key
        <2> SUFFICES ASSUME NEW j \in PresentIn(items)
                     PROVE  items[j].place = Loaded(t).place <=> j = loading[t].key
            OBVIOUS
        <2>1. items[j].place \in Nat /\ items[j].place <= loads
            BY DEF IInv, GoodTable, PresentIn, Entry, TimesAgree
        <2>2. CASE loading[t].key \in Present
            BY <2>2 DEF Loaded, IInv, GoodTable, Present
        <2>3. CASE loading[t].key \notin Present
            <3>1. Loaded(t).place = loads + 1
                BY <2>3 DEF Loaded
            <3> QED BY <1>2, <2>1, <2>3, <3>1 DEF Present
        <2> QED BY <2>2, <2>3
    <1>4. GoodTable(items, clock, loads)
        BY DEF IInv
    <1> DEFINE k == loading[t].key
               e == Loaded(t)
    <1>5. k \in Keys /\ e \in Entry /\ TimesAgree(e, clock, loads + 1)
        BY <1>1
    <1>6. \A j \in PresentIn(items) : items[j].place = e.place <=> j = k
        BY <1>3
    <1> HIDE DEF k, e
    <1>7. /\ GoodTable(With(items, k, e), clock, loads + 1)
          /\ PresentIn(With(items, k, e)) = PresentIn(items) \cup {k}
        <2>1. Inserts(items, clock, loads, loads + 1, k, e)
            BY <1>2, <1>4, <1>5, <1>6 DEF Inserts
        <2> QED BY <2>1, InsertIsGood
    <1> QED BY <1>7 DEF Present, With, k, e

\* Whatever the cache becomes is good when it is made of a good dict.
LEMMA BecomeIsGood ==
    ASSUME ConstantsAssumption, NEW tab, NEW now \in Nat, NEW n \in Nat, GoodTable(tab, now, n),
           NEW m \in Limits, Become(tab, m)
    PROVE  /\ GoodTable(items', now, n) /\ maxItems' \in Limits
           /\ Cardinality(Present') <= maxItems'
           /\ Present' = Remaining(tab, m)
           /\ \A k \in Present' : k \in PresentIn(tab) /\ items'[k] = tab[k]
    <1>1. m \in Nat
        BY DEF ConstantsAssumption
    <1>2. /\ GoodTable(Only(tab, Remaining(tab, m)), now, n)
          /\ PresentIn(Only(tab, Remaining(tab, m))) = Remaining(tab, m)
          /\ Cardinality(PresentIn(Only(tab, Remaining(tab, m)))) <= m
          /\ \A k \in Remaining(tab, m) : Only(tab, Remaining(tab, m))[k] = tab[k]
        BY <1>1, CutIsGood
    <1>3. items' = Only(tab, Remaining(tab, m)) /\ maxItems' = m
        BY DEF Become
    <1>4. Present' = Remaining(tab, m)
        BY <1>2, <1>3 DEF Present
    <1>5. Remaining(tab, m) \subseteq PresentIn(tab)
        BY DEF Remaining
    <1> QED BY <1>2, <1>3, <1>4, <1>5

LEMMA SnapshotGrows ==
    ASSUME NEW m \in Nat, GoodSnapshot(saved, m)
    PROVE  GoodSnapshot(saved, m + 1)
    <1>1. \A k \in DOMAIN saved : SavedAgrees(saved[k], m + 1)
        <2> SUFFICES ASSUME NEW k \in DOMAIN saved PROVE SavedAgrees(saved[k], m + 1)
            OBVIOUS
        <2>1. SavedAgrees(saved[k], m)
            BY DEF GoodSnapshot
        <2>2. saved[k].place \in Nat
            BY <2>1 DEF SavedAgrees, SavedEntry
        <2>3. saved[k].place <= m + 1
            BY <2>1, <2>2 DEF SavedAgrees
        <2> QED BY <2>1, <2>3 DEF SavedAgrees
    <1> QED BY <1>1 DEF GoodSnapshot

LEMMA StoreKeepsInv ==
    ASSUME ConstantsAssumption, IInv, NEW t \in Threads, Store(t)
    PROVE  IInv'
    <1>1. clock \in Nat /\ loads \in Nat /\ loads + 1 \in Nat /\ maxItems \in Limits
        BY DEF IInv, CountersOK
    <1>2. GoodTable([items EXCEPT ![loading[t].key] = Loaded(t)], clock, loads + 1)
        BY StoredIsGood DEF Store
    <1>3. Become([items EXCEPT ![loading[t].key] = Loaded(t)], maxItems)
        BY DEF Store
    <1>4. /\ GoodTable(items', clock, loads + 1) /\ maxItems' \in Limits
          /\ Cardinality(Present') <= maxItems'
        BY <1>1, <1>2, <1>3, BecomeIsGood
    <1>5. loading' \in [Threads -> [key: Keys, ttl: Ttls] \cup {NoCall}]
        BY DEF Store, IInv, CountersOK
    <1>6. clock' = clock /\ loads' = loads + 1 /\ saved' = saved
        BY DEF Store
    <1>7. CountersOK'
        BY <1>1, <1>4, <1>5, <1>6 DEF CountersOK
    <1>8. saved # NoSnapshot => GoodSnapshot(saved, loads + 1)
        BY <1>1, SnapshotGrows DEF IInv
    <1> QED BY <1>4, <1>6, <1>7, <1>8 DEF IInv

LEMMA ClearKeepsInv ==
    ASSUME ConstantsAssumption, IInv, NEW keys, Clear(keys)
    PROVE  IInv'
    <1>1. GoodTable(items', clock, loads) /\ PresentIn(items') = Present \ keys
        BY OnlyIsGood DEF IInv, Present, Clear
    <1>2. Cardinality(Present') <= maxItems
        BY <1>1, FewerFit DEF IInv, Present
    <1> QED BY <1>1, <1>2 DEF IInv, CountersOK, Clear

LEMMA ConfigureKeepsInv ==
    ASSUME ConstantsAssumption, IInv, NEW n \in Limits, Configure(n) \/ Restore(n)
    PROVE  IInv'
    <1>1. clock \in Nat /\ loads \in Nat
        BY DEF IInv, CountersOK
    <1>2. PICK tab : GoodTable(tab, clock, loads) /\ Become(tab, n)
        <2>1. CASE Configure(n)
            BY <2>1 DEF Configure, IInv
        <2>2. CASE Restore(n)
            BY <2>2, RestoredIsGood DEF Restore, IInv
        <2> QED BY <2>1, <2>2
    <1>3. /\ GoodTable(items', clock, loads) /\ maxItems' \in Limits
          /\ Cardinality(Present') <= maxItems'
        BY <1>1, <1>2, BecomeIsGood
    <1> QED BY <1>3 DEF IInv, CountersOK, Configure, Restore

LEMMA SnapshotKeepsInv ==
    ASSUME ConstantsAssumption, IInv, Snapshot
    PROVE  IInv'
    <1> DEFINE live == {k \in Present : ~Expired(items[k])}
    <1>1. DOMAIN saved' = live /\ \A k \in live : saved'[k] = Copied(items[k])
        BY DEF Snapshot
    <1>2. \A k \in live : SavedAgrees(Copied(items[k]), loads) /\ Copied(items[k]).place = items[k].place
        <2> SUFFICES ASSUME NEW k \in live
                     PROVE  SavedAgrees(Copied(items[k]), loads) /\ Copied(items[k]).place = items[k].place
            OBVIOUS
        <2>1. items[k] \in Entry /\ TimesAgree(items[k], clock, loads) /\ ~Expired(items[k])
            BY DEF IInv, GoodTable, Present, PresentIn
        <2> QED BY <2>1, CopiedAgrees DEF IInv
    <1>3. live \subseteq Keys /\ live \subseteq PresentIn(items)
        BY DEF Present, PresentIn
    <1>4. \A j, k \in live : items[j].place = items[k].place => j = k
        BY <1>3 DEF IInv, GoodTable
    <1> HIDE DEF live
    <1>5. GoodSnapshot(saved', loads)
        BY <1>1, <1>2, <1>3, <1>4 DEF GoodSnapshot
    <1> QED BY <1>5 DEF IInv, CountersOK, Snapshot, cacheVars, Present, PresentIn

LEMMA TickKeepsInv ==
    ASSUME ConstantsAssumption, IInv, Tick
    PROVE  IInv'
    <1>1. GoodTable(items', clock + 1, loads) /\ PresentIn(items') = PresentIn(items)
        BY AgedIsGood DEF IInv
    <1>2. /\ clock' = clock + 1 /\ clock \in Nat
          /\ UNCHANGED <<maxItems, loading, loads, saved>>
        BY DEF IInv, CountersOK, Tick
    <1>3. CountersOK'
        BY <1>2 DEF IInv, CountersOK
    <1> QED BY <1>1, <1>2, <1>3 DEF IInv, Present

LEMMA IInvHolds == ASSUME ConstantsAssumption PROVE Spec => []IInv
    <1>1. Init => IInv
        BY InitIsGood
    <1>2. IInv /\ [Next]_vars => IInv'
        <2> SUFFICES ASSUME IInv, [Next]_vars PROVE IInv'
            OBVIOUS
        <2>1. CASE UNCHANGED vars
            BY <2>1 DEF vars, cacheVars, IInv, CountersOK, Present, PresentIn
        <2>2. ASSUME NEW t \in Threads, NEW k \in Keys, Hit(t, k) PROVE IInv'
            BY <2>2, HitKeepsInv
        <2>3. ASSUME NEW t \in Threads, NEW k \in Keys, NEW ttl \in Ttls, Miss(t, k, ttl) PROVE IInv'
            BY <2>3, MissKeepsInv
        <2>4. ASSUME NEW t \in Threads, Store(t) PROVE IInv'
            BY <2>4, StoreKeepsInv
        <2>5. ASSUME NEW t \in Threads, LoaderFails(t) PROVE IInv'
            BY <2>5 DEF LoaderFails, cacheVars, IInv, CountersOK, Present, PresentIn
        <2>6. ASSUME NEW keys, Clear(keys) PROVE IInv'
            BY <2>6, ClearKeepsInv
        <2>7. ASSUME NEW n \in Limits, Configure(n) \/ Restore(n) PROVE IInv'
            BY <2>7, ConfigureKeepsInv
        <2>8. CASE Snapshot
            BY <2>8, SnapshotKeepsInv
        <2>9. CASE Tick
            BY <2>9, TickKeepsInv
        <2> QED BY <2>1, <2>2, <2>3, <2>4, <2>5, <2>6, <2>7, <2>8, <2>9 DEF Next
    <1> QED BY <1>1, <1>2, PTL DEF Spec

-----------------------------------------------------------------------------
(* What goes, and what stays.                                              *)

\* Of a dict cut down to m entries, what goes was unused no shorter than what
\* stays.
LEMMA LongestUnusedGo ==
    ASSUME ConstantsAssumption, clock \in Nat, NEW tab, NEW n \in Nat, GoodTable(tab, clock, n),
           NEW m \in Limits, Become(tab, m),
           NEW j \in PresentIn(tab) \ Present', NEW k \in Present'
    PROVE  tab[j].unused >= items'[k].unused
    <1>1. Present' = Remaining(tab, m) /\ k \in PresentIn(tab) /\ items'[k] = tab[k] /\ m \in Nat
        BY BecomeIsGood DEF ConstantsAssumption
    <1>2. tab[j].lastAccess <= tab[k].lastAccess
        BY <1>1, ColdestGo
    <1>3. \A l \in PresentIn(tab) : tab[l].unused \in Nat /\ tab[l].lastAccess = clock - tab[l].unused
        BY DEF GoodTable, PresentIn, Entry, TimesAgree
    <1>4. /\ tab[j].unused \in Nat /\ tab[j].lastAccess = clock - tab[j].unused
          /\ tab[k].unused \in Nat /\ tab[k].lastAccess = clock - tab[k].unused
        BY <1>1, <1>3
    <1> QED BY <1>1, <1>2, <1>4

\* What a call just loaded stays: it is the newest entry of the dict or, where
\* it keeps its place, all that may be newer are the other entries, which are
\* fewer than the limit.
LEMMA LoadedStays ==
    ASSUME ConstantsAssumption, IInv, NEW t \in Threads, Store(t)
    PROVE  loading[t].key \in Present'
    <1> DEFINE k == loading[t].key
               tab == [items EXCEPT ![k] = Loaded(t)]
    <1>1. loading[t] # NoCall /\ Become(tab, maxItems)
        BY DEF Store
    <1>2. /\ clock \in Nat /\ loads \in Nat /\ loads + 1 \in Nat
          /\ maxItems \in Limits /\ maxItems \in Nat \ {0}
        BY DEF IInv, CountersOK, ConstantsAssumption
    <1>3. GoodTable(tab, clock, loads + 1) /\ PresentIn(tab) = Present \cup {k}
        BY <1>1, StoredIsGood
    <1>4. k \in Keys /\ tab[k] = Loaded(t) /\ \A j \in Keys \ {k} : tab[j] = items[j]
        BY <1>1, LoadedAgrees DEF IInv, GoodTable
    <1>5. Loaded(t) \in Entry /\ Loaded(t).lastAccess = clock
        BY <1>1, LoadedAgrees DEF IInv
    <1>6. Present' = Remaining(tab, maxItems)
        BY <1>1, <1>2, <1>3, BecomeIsGood
    <1> HIDE DEF k, tab
    <1>7. ASSUME NEW j \in Newer(tab, k)
          PROVE  j \in Present \ {k} /\ Loaded(t).place < items[j].place
        <2>1. j \in PresentIn(tab) /\ Older(tab, k, j)
            BY DEF Newer
        <2>2. j # k
            BY <1>2, <1>3, <2>1, OlderIsStrict
        <2>3. j \in Present /\ tab[j] = items[j]
            BY <1>3, <1>4, <2>1, <2>2 DEF PresentIn
        <2>4. items[j] \in Entry /\ TimesAgree(items[j], clock, loads)
            BY <2>3 DEF IInv, GoodTable, Present, PresentIn
        <2>5. items[j].lastAccess \in Int /\ items[j].unused \in Nat /\ items[j].place \in Nat
            BY <2>4 DEF Entry
        <2>6. items[j].lastAccess <= clock
            BY <1>2, <2>4, <2>5 DEF TimesAgree
        <2> QED BY <1>2, <1>4, <1>5, <2>1, <2>2, <2>3, <2>5, <2>6 DEF Older
    <1>8. Cardinality(Newer(tab, k)) < maxItems
        <2>1. CASE k \in Present
            <3>1. IsFiniteSet(Keys) /\ Present \in SUBSET Keys
                BY DEF ConstantsAssumption, Present, PresentIn
            <3>2. IsFiniteSet(Present)
                BY <3>1, FS_Subset
            <3>3. /\ IsFiniteSet(Present \ {k})
                  /\ Cardinality(Present \ {k}) = Cardinality(Present) - 1
                BY <2>1, <3>2, FS_RemoveElement
            <3>4. Newer(tab, k) \in SUBSET (Present \ {k})
                BY <1>7
            <3>5. /\ IsFiniteSet(Newer(tab, k))
                  /\ Cardinality(Newer(tab, k)) <= Cardinality(Present \ {k})
                BY <3>3, <3>4, FS_Subset
            <3>6. Cardinality(Newer(tab, k)) \in Nat /\ Cardinality(Present) \in Nat
                BY <3>2, <3>5, FS_CardinalityType
            <3>7. Cardinality(Present) <= maxItems
                BY DEF IInv
            <3> QED BY <1>2, <3>3, <3>5, <3>6, <3>7
        <2>2. CASE k \notin Present
            <3>1. Loaded(t).place = loads + 1
                BY <2>2 DEF Loaded, k
            <3>2. \A j \in Present : items[j].place \in Nat /\ items[j].place <= loads
                BY DEF IInv, GoodTable, Present, PresentIn, Entry, TimesAgree
            <3>3. Newer(tab, k) = {}
                <4> SUFFICES ASSUME NEW j \in Newer(tab, k) PROVE FALSE
                    OBVIOUS
                <4>1. j \in Present /\ Loaded(t).place < items[j].place
                    BY <1>7
                <4> QED BY <1>2, <3>1, <3>2, <4>1
            <3>4. Cardinality(Newer(tab, k)) = 0
                BY <3>3, FS_EmptySet
            <3> QED BY <1>2, <3>4
        <2> QED BY <2>1, <2>2
    <1>9. k \in PresentIn(tab)
        BY <1>3
    <1>10. k \in Present'
        BY <1>6, <1>8, <1>9 DEF Remaining
    <1> QED BY <1>10 DEF k

-----------------------------------------------------------------------------

\* The cache never holds more than its limit, and no key twice, whatever loaders
\* finish, limits shrink and checkpoints are restored (_enforce_limit).
THEOREM WithinItsLimit == ASSUME ConstantsAssumption PROVE Spec => []TypeOK
    <1>1. IInv => TypeOK
        BY DEF IInv, CountersOK, GoodTable, TypeOK, Present
    <1> QED BY <1>1, IInvHolds, PTL

\* What has been in live caches for more than the time to live it was loaded
\* with is expired, through any number of snapshots and restores.
THEOREM TimeToLiveHolds == ASSUME ConstantsAssumption PROVE Spec => []NothingOutlivesItsTtl
    <1>1. ConstantsAssumption /\ IInv => NothingOutlivesItsTtl
        <2> SUFFICES ASSUME ConstantsAssumption, IInv, NEW k \in Present,
                            items[k].granted # NoTtl, items[k].lived > items[k].granted
                     PROVE  Expired(items[k])
            BY DEF NothingOutlivesItsTtl
        <2>1. items[k] \in Entry /\ TimesAgree(items[k], clock, loads)
            BY DEF IInv, GoodTable, Present, PresentIn
        <2>2. /\ items[k].ttl \in Nat /\ items[k].granted \in Nat /\ items[k].lived \in Nat
              /\ items[k].created \in Nat /\ clock \in Nat /\ items[k].ttl # NoTtl
            BY <2>1 DEF Entry, TimesAgree, IInv, CountersOK
        <2>3. items[k].granted - items[k].lived = items[k].ttl - (clock - items[k].created)
            BY <2>1, <2>2 DEF TimesAgree
        <2> QED BY <2>2, <2>3 DEF Expired
    <1> QED BY <1>1, IInvHolds, PTL

\* A store over the limit and a smaller limit take what was unused for the
\* longest time, and never what a call just loaded (_enforce_limit).
THEOREM ColdestEvicted == ASSUME ConstantsAssumption PROVE Spec => EvictsColdest
    <1>1. ASSUME ConstantsAssumption, IInv, NEW t \in Threads, Store(t),
                 NEW j \in Present \ Present', NEW k \in Present'
          PROVE  items[j].unused >= items'[k].unused
        <2> DEFINE tab == [items EXCEPT ![loading[t].key] = Loaded(t)]
        <2>1. GoodTable(tab, clock, loads + 1) /\ PresentIn(tab) = Present \cup {loading[t].key}
            BY <1>1, StoredIsGood DEF Store
        <2>2. j # loading[t].key
            BY <1>1, LoadedStays
        <2>3. j \in PresentIn(tab) \ Present' /\ tab[j] = items[j]
            BY <2>1, <2>2 DEF Present, PresentIn, IInv, GoodTable
        <2>4. Become(tab, maxItems)
            BY <1>1 DEF Store
        <2>5. clock \in Nat /\ loads + 1 \in Nat /\ maxItems \in Limits
            BY <1>1 DEF IInv, CountersOK
        <2> HIDE DEF tab
        <2>6. tab[j].unused >= items'[k].unused
            BY <1>1, <2>1, <2>3, <2>4, <2>5, LongestUnusedGo
        <2> QED BY <2>3, <2>6
    <1>2. ASSUME ConstantsAssumption, IInv, NEW n \in Limits, Configure(n),
                 NEW j \in Present \ Present', NEW k \in Present'
          PROVE  items[j].unused >= items'[k].unused
        <2>1. GoodTable(items, clock, loads) /\ Become(items, n) /\ clock \in Nat /\ loads \in Nat
            BY <1>2 DEF IInv, CountersOK, Configure
        <2>2. j \in PresentIn(items) \ Present'
            BY DEF Present
        <2> QED BY <1>2, <2>1, <2>2, LongestUnusedGo
    <1>3. ASSUME ConstantsAssumption, IInv, NEW t \in Threads, Store(t)
          PROVE  items'[loading[t].key] # NoEntry
        BY <1>3, LoadedStays DEF Present, PresentIn
    <1>4. ConstantsAssumption /\ IInv =>
            /\ (\E t \in Threads : Store(t)) \/ (\E n \in Limits : Configure(n)) =>
                  \A j \in Present \ Present', k \in Present \cap Present' :
                      items[j].unused >= items'[k].unused
            /\ \A t \in Threads : Store(t) => items'[loading[t].key] # NoEntry
        BY <1>1, <1>2, <1>3
    <1> QED BY <1>4, IInvHolds, PTL DEF EvictsColdest
=============================================================================
