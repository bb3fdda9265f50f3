----------------------------- MODULE PyneCache -----------------------------
(***************************************************************************)
(* The script cache of pyne_runtime/cache.py: get_or_load with a time to   *)
(* live, least-recently-used eviction, and the copy of a cache through a   *)
(* checkpoint.                                                             *)
(*                                                                         *)
(* The lock is let go while a loader runs, so that get_or_load is two      *)
(* steps per thread.  A value is the number of the loader call that made   *)
(* it.  Ages are kept twice: as the code does, by clock readings, and as   *)
(* history, by counting the ticks an entry spends in a live cache.         *)
(*                                                                         *)
(* An operator named Mutant... is a plausible mistake in the definition    *)
(* that follows it, used by no specification.                              *)
(***************************************************************************)
EXTENDS Integers, FiniteSets

CONSTANTS
    Keys,
    Threads,
    Limits,      \* values of max_items
    Ttls,        \* values of ttl, NoTtl among them
    NoTtl,       \* ttl is None
    NoEntry,     \* _items has no such key
    NoCall,      \* the thread is not inside get_or_load
    NoSnapshot,
    MaxTime,     \* bound of the model: the last clock reading
    MaxLoads     \* bound of the model: loader calls that return

VARIABLES
    items,     \* _items
    maxItems,  \* _max_items
    clock,     \* time.time()
    loading,   \* per thread, the get_or_load call whose loader runs
    loads,     \* how many loader calls have returned
    saved      \* a PyneCacheSnapshot

cacheVars == <<items, maxItems>>
vars == <<cacheVars, clock, loading, loads, saved>>

\* _CacheEntry, its place in the insertion order of the dict, which is the
\* number of the load that inserted its key, and its history: the ticks it
\* spent in a live cache, those since it was last returned, and the time to
\* live it was loaded with.  A restored entry may have been used before time 0
\* of this process, whence the negative last access.
Entry == [value: Nat, created: Nat, lastAccess: Int, ttl: Nat \cup {NoTtl}, place: Nat,
          lived: Nat, unused: Nat, granted: Nat \cup {NoTtl}]

\* Whatever the constants are: a limit lets one entry stay, and "no entry" and
\* "no time to live" are no entry and no number.
ConstantsAssumption ==
    /\ IsFiniteSet(Keys)
    /\ Limits \subseteq Nat \ {0}
    /\ Ttls \subseteq Nat \cup {NoTtl} /\ NoTtl \notin Int
    /\ NoEntry \notin Entry

PresentIn(tab) == {k \in Keys : tab[k] # NoEntry}
Present == PresentIn(items)

\* _CacheEntry.expired
Expired(e) ==
    IF e.ttl = NoTtl THEN FALSE ELSE e.ttl = 0 \/ clock - e.created > e.ttl

-----------------------------------------------------------------------------
(* _enforce_limit.                                                         *)

\* min() and sorted() are stable: of two keys used at the same time the one
\* that comes first in the dict is the older.
Older(tab, j, k) ==
    \/ tab[j].lastAccess < tab[k].lastAccess
    \/ tab[j].lastAccess = tab[k].lastAccess /\ tab[j].place < tab[k].place

\* The keys that remain of the dict tab.
Newer(tab, k) == {j \in PresentIn(tab) : Older(tab, k, j)}
Remaining(tab, n) == {k \in PresentIn(tab) : Cardinality(Newer(tab, k)) < n}

Only(tab, kept) == [k \in Keys |-> IF k \in kept THEN tab[k] ELSE NoEntry]

\* The cache becomes tab, cut down to n entries.
Become(tab, n) ==
    /\ items' = Only(tab, Remaining(tab, n))
    /\ maxItems' = n

-----------------------------------------------------------------------------
Init ==
    /\ items = [k \in Keys |-> NoEntry]
    /\ maxItems \in Limits
    /\ clock = 0
    /\ loading = [t \in Threads |-> NoCall]
    /\ loads = 0
    /\ saved = NoSnapshot

\* The first locked section found a live entry.
MutantHitLeavesNoTrace(e) == [e EXCEPT !.unused = 0]
Used(e) == [e EXCEPT !.lastAccess = clock, !.unused = 0]

Hit(t, k) ==
    /\ loading[t] = NoCall
    /\ items[k] # NoEntry
    /\ ~Expired(items[k])
    /\ items' = [items EXCEPT ![k] = Used(@)]
    /\ UNCHANGED <<maxItems, clock, loading, loads, saved>>

\* It found none, or one that it dropped because it had expired.
Miss(t, k, ttl) ==
    /\ loading[t] = NoCall
    /\ loads < MaxLoads
    /\ items[k] # NoEntry => Expired(items[k])
    /\ items' = [items EXCEPT ![k] = NoEntry]
    /\ loading' = [loading EXCEPT ![t] = [key |-> k, ttl |-> ttl]]
    /\ UNCHANGED <<maxItems, clock, loads, saved>>

\* The loader returned: the second locked section inserts its value, whatever
\* happened to the key meanwhile.  A key that is there keeps its place.
Loaded(t) ==
    LET k == loading[t].key
    IN  [value |-> loads + 1, created |-> clock, lastAccess |-> clock,
         ttl |-> loading[t].ttl,
         place |-> IF k \in Present THEN items[k].place ELSE loads + 1,
         lived |-> 0, unused |-> 0, granted |-> loading[t].ttl]
Store(t) ==
    /\ loading[t] # NoCall
    /\ Become([items EXCEPT ![loading[t].key] = Loaded(t)], maxItems)
    /\ loads' = loads + 1
    /\ loading' = [loading EXCEPT ![t] = NoCall]
    /\ UNCHANGED <<clock, saved>>

\* The loader raised.
LoaderFails(t) ==
    /\ loading[t] # NoCall
    /\ loading' = [loading EXCEPT ![t] = NoCall]
    /\ UNCHANGED <<cacheVars, clock, loads, saved>>

Clear(keys) ==
    /\ items' = Only(items, Present \ keys)
    /\ UNCHANGED <<maxItems, clock, loading, loads, saved>>

Configure(n) ==
    /\ Become(items, n)
    /\ UNCHANGED <<clock, loading, loads, saved>>

-----------------------------------------------------------------------------
(* Checkpoints.                                                            *)

\* The remaining time to live of a live entry.
MutantWholeTtl(e) == e.ttl
Remainder(e) ==
    IF e.ttl = NoTtl THEN NoTtl
    ELSE IF clock - e.created > e.ttl THEN 0 ELSE e.ttl - (clock - e.created)

\* snapshot_state
Copied(e) ==
    [value |-> e.value, remaining |-> Remainder(e), age |-> clock - e.lastAccess,
     place |-> e.place, lived |-> e.lived, granted |-> e.granted]
Snapshot ==
    /\ saved' = [k \in {j \in Present : ~Expired(items[j])} |-> Copied(items[k])]
    /\ UNCHANGED <<cacheVars, clock, loading, loads>>

\* restore_state into a new cache, configure(cache_max_items) on it, and
\* adopt_state of its contents by the live cache.  A snapshot holds no more
\* than the limit it was taken under.
Revived(s) ==
    [value |-> s.value, created |-> clock, lastAccess |-> clock - s.age,
     ttl |-> s.remaining, place |-> s.place,
     lived |-> s.lived, unused |-> s.age, granted |-> s.granted]
Restored ==
    [k \in Keys |-> IF k \in DOMAIN saved /\ saved[k].remaining # 0
                    THEN Revived(saved[k]) ELSE NoEntry]
Restore(n) ==
    /\ saved # NoSnapshot
    /\ Become(Restored, n)
    /\ UNCHANGED <<clock, loading, loads, saved>>

Aged(e) == [e EXCEPT !.lived = @ + 1, !.unused = @ + 1]
Tick ==
    /\ clock < MaxTime
    /\ clock' = clock + 1
    /\ items' = [k \in Keys |-> IF items[k] = NoEntry THEN NoEntry ELSE Aged(items[k])]
    /\ UNCHANGED <<maxItems, loading, loads, saved>>

Next ==
    \/ \E t \in Threads, k \in Keys : Hit(t, k) \/ \E ttl \in Ttls : Miss(t, k, ttl)
    \/ \E t \in Threads : Store(t) \/ LoaderFails(t)
    \/ \E k \in Keys : Clear({k})
    \/ Clear(Keys)
    \/ \E n \in Limits : Configure(n) \/ Restore(n)
    \/ Snapshot
    \/ Tick

Spec == Init /\ [][Next]_vars

-----------------------------------------------------------------------------
(* Properties.                                                             *)

\* A key is in the dict once, at a place of its own.  Loaders of several keys
\* may finish in any order, limits may shrink and larger checkpoints be
\* restored: the cache stays within its limit.
TypeOK ==
    /\ items \in [Keys -> Entry \cup {NoEntry}]
    /\ \A j, k \in Present : items[j].place = items[k].place => j = k
    /\ Cardinality(Present) <= maxItems
    /\ maxItems \in Limits
    /\ clock \in Nat /\ loads \in Nat
    /\ loading \in [Threads -> [key: Keys, ttl: Ttls] \cup {NoCall}]

\* A trip through a checkpoint gives no entry a longer life: what has been in
\* live caches for more than its time to live is expired, so not served.
NothingOutlivesItsTtl ==
    \A k \in Present :
        items[k].granted # NoTtl =>
            (items[k].lived > items[k].granted => Expired(items[k]))

\* The limit takes the entries that were not returned for the longest time,
\* counting hits, late stores over an existing key and restored ages; what a
\* call just loaded is never among them, even if every other entry was used
\* within the same clock reading.
EvictsColdest ==
    [][/\ (\E t \in Threads : Store(t)) \/ (\E n \in Limits : Configure(n)) =>
            \A j \in Present \ Present', k \in Present \cap Present' :
                items[j].unused >= items'[k].unused
       /\ \A t \in Threads : Store(t) => items'[loading[t].key] # NoEntry]_vars

=============================================================================
