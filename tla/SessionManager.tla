--------------------------- MODULE SessionManager ---------------------------
(***************************************************************************)
(* The shared-session cache of pyne_runtime/incremental/manager.py.        *)
(*                                                                         *)
(* Threads acquire and release sessions by key.  Everything that touches   *)
(* the tables runs under one lock and is one step here; the lock is let go *)
(* in two places only, which are the two phases a call can rest in:        *)
(*   "wait"    - waiting for the event of somebody else's creation,        *)
(*   "factory" - running the caller's factory, unlocked.                   *)
(* A factory is the caller's code and may itself call acquire; Nests says  *)
(* for which keys.  So a thread has a stack of calls in progress.          *)
(*                                                                         *)
(* An operator named Mutant... is a plausible mistake in the definition    *)
(* that follows it.  The specification uses none of them; put in the place *)
(* of that definition it must make a property fail.                        *)
(***************************************************************************)
EXTENDS Integers, FiniteSets, Sequences

CONSTANTS
    Keys,
    Threads,
    NoSession,    \* _sessions has no entry for the key
    NoThread,     \* _pending_creations has no entry for the key
    NotIdle,      \* idle_since is None
    MaxSessions,  \* max_sessions
    IdleTtl,      \* idle_ttl_seconds, in clock ticks
    Nests,        \* <<k, n>>: the factory of k may acquire n
    MaxTime,      \* bound of the model: the last clock value
    MaxTokens,    \* bound of the model: how many sessions are ever created
    MaxLegacy     \* bound of the model: unattributed releases of one key

ASSUME ConstantsAssumption ==
    /\ IsFiniteSet(Keys)
    /\ MaxSessions \in Nat \ {0}
    /\ IdleTtl \in Nat
    /\ Nests \subseteq Keys \X Keys
    /\ MaxTime \in Nat
    /\ MaxTokens \in Nat
    /\ MaxLegacy \in Nat
    /\ NoThread \notin Threads
    /\ NotIdle \notin Nat
    /\ NoSession \notin Nat
    /\ NoSession \notin [token: Nat, refCount: Nat, created: Nat, lastAccess: Nat,
                         idleSince: Nat \cup {NotIdle}]

VARIABLES
    sessions,        \* _sessions
    pending,         \* _pending_creations with _creation_owners: the creator
    leaseCounts,     \* _ambiguous_leases, NoCounts where it has no entry
    legacyReleases,  \* _legacy_releases, 0 where the dict has no entry
    clock,
    minted,          \* how many lease tokens exist: the next one is minted + 1
    calls,           \* per thread, its stack of unfinished acquire calls
    leases,          \* acquisitions handed out and not yet returned
    forced           \* history: tokens of the sessions closed with force=True

vars == <<sessions, pending, leaseCounts, legacyReleases, clock, minted,
          calls, leases, forced>>

Token == Nat \ {0}

\* SharedPyneIncrementalSession, as far as the manager reads it.
Session == [token: Token, refCount: Nat, created: Nat, lastAccess: Nat,
            idleSince: Nat \cup {NotIdle}]

Lease == [holder: Threads, key: Keys, token: Token]

Call == [key: Keys, phase: {"check", "wait", "factory"}]

\* A dict from token to a positive count.  The code drops an entry of
\* _ambiguous_leases with its last count, so that an absent entry and an
\* empty dict are one value here.
NoCounts == << >>
IsCounts(c) ==
    /\ IsFiniteSet(DOMAIN c)
    /\ \A tk \in DOMAIN c : tk \in Token /\ c[tk] \in Nat \ {0}

-----------------------------------------------------------------------------
(* Helpers of manager.py.                                                  *)

AtLeastZero(n) == IF n < 0 THEN 0 ELSE n
Smaller(m, n) == IF m <= n THEN m ELSE n

LiveKeys(tab) == {k \in Keys : tab[k] # NoSession}
IdleKeys(tab) == {k \in LiveKeys(tab) : tab[k].refCount = 0}

Expired(tab, k) ==
    /\ k \in IdleKeys(tab)
    /\ tab[k].idleSince # NotIdle
    /\ clock - tab[k].idleSince >= IdleTtl

\* _collect_expired_locked
Collected(tab) == [k \in Keys |-> IF Expired(tab, k) THEN NoSession ELSE tab[k]]

CountOf(c, token) == IF token \in DOMAIN c THEN c[token] ELSE 0

MutantCountsKeepZero(c, token, n) ==
    [tk \in DOMAIN c \cup {token} |-> IF tk = token THEN n ELSE c[tk]]
WithCount(c, token, n) ==
    [tk \in (DOMAIN c \ {token}) \cup (IF n > 0 THEN {token} ELSE {})
        |-> IF tk = token THEN n ELSE c[tk]]

\* sum(counts.values()), counted as one ticket per unreturned acquisition.
Tickets(c) == UNION {{tk} \X (1 .. c[tk]) : tk \in DOMAIN c}
SumOf(c) == Cardinality(Tickets(c))

\* Enough releases came back for every acquisition on record.
MutantResolvedLate(c, legacy) == SumOf(c) - legacy < 0
Resolved(c, legacy) == SumOf(c) - legacy <= 0

\* _reference_bound_locked, on the counts and legacy releases after the change
MutantBlamesCurrent(c, legacy, token) == AtLeastZero(CountOf(c, token) - legacy)
ReferenceBound(c, legacy, token) ==
    Smaller(CountOf(c, token), AtLeastZero(SumOf(c) - legacy))

\* The idle sessions that min() may pick as the victim.
Older(s, u) == \/ s.lastAccess < u.lastAccess
               \/ s.lastAccess = u.lastAccess /\ s.created <= u.created
MutantVictimsInUse(tab) ==
    {k \in LiveKeys(tab) : \A j \in LiveKeys(tab) : Older(tab[k], tab[j])}
Victims(tab) ==
    {k \in IdleKeys(tab) : \A j \in IdleKeys(tab) : Older(tab[k], tab[j])}

Full(tab) == Cardinality(LiveKeys(tab)) >= MaxSessions

\* _ensure_slot_locked: the tables with room it may leave, none if it raises.
MutantSlotUnchecked(tab) == {tab}
SlotEnsured(tab) ==
    IF ~Full(tab) THEN {tab} ELSE {[tab EXCEPT ![v] = NoSession] : v \in Victims(tab)}

-----------------------------------------------------------------------------
(* The threads' calls.                                                     *)

Depth(t) == Len(calls[t])
Top(t) == calls[t][Depth(t)]
InCall(t, phase) == Depth(t) > 0 /\ Top(t).phase = phase

\* The thread runs its own code: outside the manager, or inside a factory.
InUserCode(t) == Depth(t) = 0 \/ InCall(t, "factory")

Without(stack) == [i \in 1 .. Len(stack) - 1 |-> stack[i]]

Entering(stack, p) == [stack EXCEPT ![Len(stack)] = [key |-> @.key, phase |-> p]]

Holds(t, k) == \E l \in leases : l.holder = t /\ l.key = k

\* Event.set(): every thread that waits for the creation of k looks again.
Woken(stack, k) ==
    [i \in DOMAIN stack |->
        IF stack[i] = [key |-> k, phase |-> "wait"]
        THEN [key |-> k, phase |-> "check"]
        ELSE stack[i]]

-----------------------------------------------------------------------------
Init ==
    /\ sessions = [k \in Keys |-> NoSession]
    /\ pending = [k \in Keys |-> NoThread]
    /\ leaseCounts = [k \in Keys |-> NoCounts]
    /\ legacyReleases = [k \in Keys |-> 0]
    /\ clock = 0
    /\ minted = 0
    /\ calls = [t \in Threads |-> << >>]
    /\ leases = {}
    /\ forced = {}

\* A thread calls acquire(k, factory).  A thread that wants a second lease of
\* the same key is a second thread here.
CallAcquire(t, k) ==
    /\ InUserCode(t)
    /\ ~Holds(t, k)
    /\ Depth(t) > 0 => <<Top(t).key, k>> \in Nests
    /\ calls' = [calls EXCEPT ![t] = Append(@, [key |-> k, phase |-> "check"])]
    /\ UNCHANGED <<sessions, pending, leaseCounts, legacyReleases, clock,
                   minted, leases, forced>>

\* The first locked section found the session: one more reference.
Referenced(s, n) ==
    [s EXCEPT !.refCount = n, !.lastAccess = clock, !.idleSince = NotIdle]

AcquireExisting(t) ==
    LET k == Top(t).key
        tab == Collected(sessions)
        s == tab[k]
        c == WithCount(leaseCounts[k], s.token,
                       CountOf(leaseCounts[k], s.token) + 1)
    IN  /\ InCall(t, "check")
        /\ s # NoSession
        /\ IF leaseCounts[k] = NoCounts
           THEN /\ sessions' = [tab EXCEPT ![k] = Referenced(s, s.refCount + 1)]
                /\ UNCHANGED leaseCounts
           ELSE /\ sessions' =
                     [tab EXCEPT ![k] =
                        Referenced(s, ReferenceBound(c, legacyReleases[k], s.token))]
                /\ leaseCounts' = [leaseCounts EXCEPT ![k] = c]
        /\ leases' = leases \cup {[holder |-> t, key |-> k, token |-> s.token]}
        /\ calls' = [calls EXCEPT ![t] = Without(@)]
        /\ UNCHANGED <<pending, legacyReleases, clock, minted, forced>>

\* No session and nobody creating it: this thread registers as the creator.
AcquireCreate(t) ==
    LET k == Top(t).key
        tab == Collected(sessions)
    IN  /\ InCall(t, "check")
        /\ tab[k] = NoSession
        /\ pending[k] = NoThread
        /\ Full(tab) => IdleKeys(tab) # {}
        /\ sessions' = tab
        /\ pending' = [pending EXCEPT ![k] = t]
        /\ calls' = [calls EXCEPT ![t] = Entering(@, "factory")]
        /\ UNCHANGED <<leaseCounts, legacyReleases, clock, minted, leases, forced>>

\* Every slot is actively referenced: PyneIncrementalSessionCapacityError.
AcquireRefused(t) ==
    LET k == Top(t).key
        tab == Collected(sessions)
    IN  /\ InCall(t, "check")
        /\ tab[k] = NoSession
        /\ pending[k] = NoThread
        /\ Full(tab) /\ IdleKeys(tab) = {}
        /\ sessions' = tab
        /\ calls' = [calls EXCEPT ![t] = Without(@)]
        /\ UNCHANGED <<pending, leaseCounts, legacyReleases, clock, minted,
                       leases, forced>>

\* The thread is itself creating this key: RuntimeError, not self-deadlock.
AcquireReentrant(t) ==
    LET k == Top(t).key
        tab == Collected(sessions)
    IN  /\ InCall(t, "check")
        /\ tab[k] = NoSession
        /\ pending[k] = t
        /\ sessions' = tab
        /\ calls' = [calls EXCEPT ![t] = Without(@)]
        /\ UNCHANGED <<pending, leaseCounts, legacyReleases, clock, minted,
                       leases, forced>>

\* Another thread is creating this key: wait for its event.
AcquireWait(t) ==
    LET k == Top(t).key
        tab == Collected(sessions)
    IN  /\ InCall(t, "check")
        /\ tab[k] = NoSession
        /\ pending[k] \notin {NoThread, t}
        /\ sessions' = tab
        /\ calls' = [calls EXCEPT ![t] = Entering(@, "wait")]
        /\ UNCHANGED <<pending, leaseCounts, legacyReleases, clock, minted,
                       leases, forced>>

\* What every end of a creation does: drop the record, set the event, return.
MutantRecordLeft(t, k) ==
    /\ calls' = [u \in Threads |->
                    Woken(IF u = t THEN Without(calls[t]) ELSE calls[u], k)]
    /\ UNCHANGED pending
MutantEventNotSet(t, k) ==
    /\ pending' = [pending EXCEPT ![k] = NoThread]
    /\ calls' = [calls EXCEPT ![t] = Without(@)]
EndCreation(t, k) ==
    /\ pending' = [pending EXCEPT ![k] = NoThread]
    /\ calls' = [u \in Threads |->
                    Woken(IF u = t THEN Without(calls[t]) ELSE calls[u], k)]

\* The factory raises.
FactoryFails(t) ==
    /\ InCall(t, "factory")
    /\ EndCreation(t, Top(t).key)
    /\ UNCHANGED <<sessions, leaseCounts, legacyReleases, clock, minted,
                   leases, forced>>

\* The factory returned, a slot is free or can be freed: install the session.
FactoryInstalls(t) ==
    LET k == Top(t).key
        tab == Collected(sessions)
        token == minted + 1
        new == [token |-> token, refCount |-> 1, created |-> clock,
                lastAccess |-> clock, idleSince |-> NotIdle]
    IN  /\ InCall(t, "factory")
        /\ minted < MaxTokens
        /\ \E room \in SlotEnsured(tab) : sessions' = [room EXCEPT ![k] = new]
        /\ leaseCounts' =
             IF leaseCounts[k] = NoCounts THEN leaseCounts
             ELSE [leaseCounts EXCEPT ![k] = WithCount(@, token, 1)]
        /\ minted' = token
        /\ leases' = leases \cup {[holder |-> t, key |-> k, token |-> token]}
        /\ EndCreation(t, k)
        /\ UNCHANGED <<legacyReleases, clock, forced>>

\* The factory returned but the last slot was taken meanwhile.
FactoryFindsNoSlot(t) ==
    LET tab == Collected(sessions)
    IN  /\ InCall(t, "factory")
        /\ SlotEnsured(tab) = {}
        /\ sessions' = tab
        /\ EndCreation(t, Top(t).key)
        /\ UNCHANGED <<leaseCounts, legacyReleases, clock, minted, leases, forced>>

-----------------------------------------------------------------------------
(* release(key, shared=lease) when exact, release(key) when not.           *)

\* What release leaves of a session whose count becomes n.
Settled(s, n) ==
    IF n > 0 THEN [s EXCEPT !.refCount = n]
    ELSE IF IdleTtl = 0 THEN NoSession
    ELSE [s EXCEPT !.refCount = 0, !.idleSince = clock, !.lastAccess = clock]

\* One record per key: the count of every acquisition is the session's own.
ReleasePlain(l, exact) ==
    LET k == l.key
        s == sessions[k]
        ignored == s = NoSession \/ (exact /\ s.token # l.token)
    IN  /\ leaseCounts[k] = NoCounts
        /\ sessions' = IF ignored THEN sessions
                       ELSE [sessions EXCEPT ![k] = Settled(s, s.refCount - 1)]
        /\ UNCHANGED <<leaseCounts, legacyReleases>>

\* After a forced close: counts by token, and releases no token is known for.
ReleaseAmbiguous(l, exact) ==
    LET k == l.key
        s == sessions[k]
        old == leaseCounts[k]
        c == IF exact THEN WithCount(old, l.token, CountOf(old, l.token) - 1) ELSE old
        legacy == legacyReleases[k] + (IF exact THEN 0 ELSE 1)
        ignored == IF exact THEN CountOf(old, l.token) = 0
                            ELSE SumOf(old) <= legacyReleases[k]
        resolved == Resolved(c, legacy)
    IN  /\ old # NoCounts
        /\ IF ignored
           THEN UNCHANGED <<sessions, leaseCounts, legacyReleases>>
           ELSE /\ leaseCounts' =
                     [leaseCounts EXCEPT ![k] = IF resolved THEN NoCounts ELSE c]
                /\ legacyReleases' =
                     [legacyReleases EXCEPT ![k] = IF resolved THEN 0 ELSE legacy]
                /\ sessions' =
                     IF s = NoSession THEN sessions
                     ELSE [sessions EXCEPT ![k] =
                             Settled(s, ReferenceBound(c, legacy, s.token))]

Release(t, l, exact) ==
    /\ InUserCode(t)
    /\ l.holder = t
    /\ ~exact => legacyReleases[l.key] < MaxLegacy
    /\ ReleasePlain(l, exact) \/ ReleaseAmbiguous(l, exact)
    /\ leases' = leases \ {l}
    /\ UNCHANGED <<pending, clock, minted, calls, forced>>

-----------------------------------------------------------------------------
(* close, collect_expired (snapshot collects too), _touch.                 *)

MutantCloseInUse(k) ==
    /\ k \in LiveKeys(sessions)
    /\ sessions' = [sessions EXCEPT ![k] = NoSession]
    /\ UNCHANGED <<pending, leaseCounts, legacyReleases, clock, minted, calls,
                   leases, forced>>
CloseIdle(k) ==
    /\ k \in IdleKeys(sessions)
    /\ sessions' = [sessions EXCEPT ![k] = NoSession]
    /\ UNCHANGED <<pending, leaseCounts, legacyReleases, clock, minted, calls,
                   leases, forced>>

\* close(key, force=True) on a session in use: keep the tokens and counts.
ForceClose(k) ==
    LET s == sessions[k]
        c == leaseCounts[k]
    IN  /\ k \in LiveKeys(sessions) \ IdleKeys(sessions)
        /\ leaseCounts' =
             [leaseCounts EXCEPT ![k] =
                IF s.token \in DOMAIN c THEN c ELSE WithCount(c, s.token, s.refCount)]
        /\ sessions' = [sessions EXCEPT ![k] = NoSession]
        /\ forced' = forced \cup {s.token}
        /\ UNCHANGED <<pending, legacyReleases, clock, minted, calls, leases>>

CollectExpired ==
    /\ \E k \in Keys : Expired(sessions, k)
    /\ sessions' = Collected(sessions)
    /\ UNCHANGED <<pending, leaseCounts, legacyReleases, clock, minted, calls,
                   leases, forced>>

\* _touch: seed_or_snapshot and process_bar touch the lease's session first.
Touched(s) ==
    [s EXCEPT !.lastAccess = clock,
              !.idleSince = IF s.refCount > 0 THEN NotIdle ELSE @]

Touch(t, l) ==
    /\ InUserCode(t)
    /\ l.holder = t
    /\ sessions[l.key] # NoSession
    /\ sessions[l.key].token = l.token
    /\ sessions' = [sessions EXCEPT ![l.key] = Touched(@)]
    /\ UNCHANGED <<pending, leaseCounts, legacyReleases, clock, minted, calls,
                   leases, forced>>

Tick ==
    /\ clock < MaxTime
    /\ clock' = clock + 1
    /\ UNCHANGED <<sessions, pending, leaseCounts, legacyReleases, minted,
                   calls, leases, forced>>

-----------------------------------------------------------------------------
\* The part of acquire that runs once the call was made.
AcquireStep(t) ==
    \/ AcquireExisting(t) \/ AcquireCreate(t) \/ AcquireRefused(t)
    \/ AcquireReentrant(t) \/ AcquireWait(t)

FactoryEnds(t) == FactoryFails(t) \/ FactoryInstalls(t) \/ FactoryFindsNoSlot(t)

Next ==
    \/ \E t \in Threads :
        \/ \E k \in Keys : CallAcquire(t, k)
        \/ AcquireStep(t)
        \/ FactoryEnds(t)
        \/ \E l \in leases : Touch(t, l) \/ \E exact \in BOOLEAN : Release(t, l, exact)
    \/ \E k \in Keys : CloseIdle(k) \/ ForceClose(k)
    \/ CollectExpired
    \/ Tick

Spec == Init /\ [][Next]_vars

\* A thread inside acquire keeps running, and a factory, which is ordinary
\* code, ends.
Fairness ==
    \A t \in Threads : WF_vars(AcquireStep(t)) /\ WF_vars(FactoryEnds(t))

FairSpec == Spec /\ Fairness

-----------------------------------------------------------------------------
(* Properties.                                                             *)

TypeOK ==
    /\ sessions \in [Keys -> Session \cup {NoSession}]
    /\ pending \in [Keys -> Threads \cup {NoThread}]
    /\ DOMAIN leaseCounts = Keys
    /\ \A k \in Keys : IsCounts(leaseCounts[k])
    /\ legacyReleases \in [Keys -> Nat]
    /\ clock \in Nat
    /\ minted \in Nat
    /\ calls \in [Threads -> Seq(Call)]
    /\ leases \subseteq Lease
    /\ forced \subseteq Token

LeasesOf(k) == {l \in leases : l.key = k}
HoldersOf(k, token) == {l \in leases : l.key = k /\ l.token = token}

\* The manager never keeps more sessions than max_sessions, although the
\* capacity test of acquire and the insertion are two locked sections with
\* the factory between them.
WithinCapacity == Cardinality(LiveKeys(sessions)) <= MaxSessions

\* Expiry, eviction, close without force and other callers' releases (exact,
\* key-only, or stale ones of an earlier session of the key) never take a
\* session from somebody who still holds it: only close(force=True) does.
HeldSessionStays ==
    \A l \in leases :
        l.token \in forced \/ (/\ sessions[l.key] # NoSession
                               /\ sessions[l.key].token = l.token)

\* The reference count is a conservative upper bound of the current session's
\* holders, and exact as long as no forced close left the key ambiguous.
RefCountCoversHolders ==
    \A k \in LiveKeys(sessions) :
        LET holders == Cardinality(HoldersOf(k, sessions[k].token))
        IN  /\ sessions[k].refCount >= holders
            /\ leaseCounts[k] = NoCounts => sessions[k].refCount = holders

\* Balanced releases resolve the ambiguity: once every acquisition of a key
\* is returned, no count survives and the session, if kept, is idle.
BalancedReleasesSettle ==
    \A k \in Keys :
        LeasesOf(k) = {} =>
            /\ leaseCounts[k] = NoCounts
            /\ legacyReleases[k] = 0
            /\ sessions[k] # NoSession => sessions[k].refCount = 0

\* At most one factory per key is running, none runs while the key has a
\* session (its result would overwrite one in use), and a creation record is
\* never left behind by a creator that is gone.
RunsFactory(t, i, k) == calls[t][i] = [key |-> k, phase |-> "factory"]
SingleFlight ==
    \A k \in Keys :
        /\ \A t, u \in Threads : \A i \in 1 .. Depth(t), j \in 1 .. Depth(u) :
              RunsFactory(t, i, k) /\ RunsFactory(u, j, k) => t = u /\ i = j
        /\ pending[k] # NoThread =>
              /\ sessions[k] = NoSession
              /\ \E i \in 1 .. Depth(pending[k]) : RunsFactory(pending[k], i, k)

\* Nobody sleeps on an event that will not be set again: a waiting thread
\* always has a creator to wait for (no wake-up is lost).
WaitersHaveCreator ==
    \A t \in Threads : InCall(t, "wait") => pending[Top(t).key] \notin {NoThread, t}
\* Creations run one at a time for a key, and whoever waits for one is woken.
CreationsAreSound == SingleFlight /\ WaitersHaveCreator

\* The manager implements the lease table of SessionLeases: whatever it does
\* with counts, clocks and creation records, its users see sessions that are
\* shared while leased, dropped only when unleased or forced, and bounded.
LeaseTable == INSTANCE SessionLeases
    WITH current <- [k \in Keys |->
                        IF sessions[k] = NoSession THEN NoSession
                        ELSE sessions[k].token]
ImplementsLeaseTable == LeaseTable!Spec

\* Every thread that waits for a creation eventually looks again.
WaitersWake ==
    \A t \in Threads : InCall(t, "wait") ~> ~InCall(t, "wait")
=============================================================================
