------------------------------ MODULE MCCaches ------------------------------
(* The caches with small constants, for TLC: two contexts of three instants  *)
(* and of one, two keys and two threads.                                     *)
EXTENDS Caches, TLC

CONSTANTS
    long, short, x,          \* a key with three instants, one with a single one
    v1, v2, t1, t2           \* keys and threads of the script cache

MCKeys == {long, short}
MCCoordinates == (long :> 0..2) @@ (short :> 1..1)
MCContents == {x}
MCCloses == {3}
MCClocks == {1, 3}
MCWatermarks == (long :> {2}) @@ (short :> {2})
MCNames == {v1, v2}
MCThreads == {t1, t2}
MCLimits == {1, 2}
MCTtls == {1, NoTtl}

\* The cache that is not used starts in one state.
MCInit ==
    /\ CachesInit
    /\ used = "ranges" => maxItems = 1
    /\ used = "script" =>
          /\ clock = 1
          /\ rows = [k \in Keys |-> [t \in Coordinates[k] |-> NoRow]]
          /\ word = [k \in Keys |-> NoPromise]
MCSpec == MCInit /\ [][CachesNext]_<<used, vars, script>>

\* Nothing tells two script keys or two threads apart.
MCSymmetry == Permutations(MCNames) \cup Permutations(MCThreads)
=============================================================================
