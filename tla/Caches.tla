------------------------------- MODULE Caches -------------------------------
(***************************************************************************)
(* The two caches of the program side by side: the rows requested from a   *)
(* provider (RangeCache) and the values a script loads (PyneCache).  They  *)
(* share nothing, so that a behaviour uses one of them.                    *)
(***************************************************************************)
EXTENDS RangeCache

CONSTANTS
    Names, Threads, Limits, Ttls,   \* of the script cache, see PyneCache
    NoTtl, NoEntry, NoCall, NoSnapshot, MaxTime, MaxLoads

VARIABLES
    used,                           \* the cache the behaviour is about
    items, maxItems, time, loading, loads, saved

script == <<items, maxItems, time, loading, loads, saved>>
Script == INSTANCE PyneCache WITH Keys <- Names, clock <- time

ASSUME ScriptConstants == Script!ConstantsAssumption

CachesInit ==
    /\ Init
    /\ Script!Init
    /\ used \in {"ranges", "script"}
CachesNext ==
    \/ used = "ranges" /\ Next /\ UNCHANGED <<used, script>>
    \/ used = "script" /\ Script!Next /\ UNCHANGED <<used, vars>>
CachesSpec == CachesInit /\ [][CachesNext]_<<used, vars, script>>

\* Both caches hold what they may and no more than their limits, whatever fails in
\* between (_enforce_limits, _enforce_limit).
CachesAreInOrder == TypeOK /\ WithinLimits /\ Script!TypeOK

\* The ranges are swept as the sets they stand for.
SweepsHold == used = "ranges" => SweepsAreExact

\* A loaded value is not served after its time to live, and only the value used
\* longest ago makes room for a new one.
NothingOutlivesItsTtl == Script!NothingOutlivesItsTtl
EvictsColdest == Script!EvictsColdest
=============================================================================
