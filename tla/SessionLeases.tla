---------------------------- MODULE SessionLeases ----------------------------
(***************************************************************************)
(* What a user of the session manager may rely on, with no word about      *)
(* reference counts, creation records, clocks or ambiguous releases:       *)
(*   - a key has at most one current session, and at most MaxSessions keys *)
(*     have one;                                                           *)
(*   - an acquisition leases the key's current session, or a new one when  *)
(*     the key has none;                                                   *)
(*   - a session may be dropped at any step, but only while nobody leases  *)
(*     it, unless it is closed by force.                                   *)
(* SessionManager is shown to implement this specification.                *)
(***************************************************************************)
EXTENDS Integers, FiniteSets

CONSTANTS Keys, Threads, NoSession, MaxSessions

VARIABLES
    current,  \* the token of the key's session, or NoSession
    leases,   \* unreturned acquisitions
    minted,   \* tokens used so far
    forced    \* tokens of the sessions somebody closed by force

vars == <<current, leases, minted, forced>>

Live(cur) == {k \in Keys : cur[k] # NoSession}
Leased(k) == \E l \in leases : l.key = k /\ l.token = current[k]
Lease(t, k, token) == [holder |-> t, key |-> k, token |-> token]

\* The sessions that survive a step: all that are leased, and perhaps others.
Survivors == {keep \in SUBSET Live(current) : \A k \in Live(current) : Leased(k) => k \in keep}
Kept(keep) == [k \in Keys |-> IF k \in keep THEN current[k] ELSE NoSession]

Init ==
    /\ current = [k \in Keys |-> NoSession]
    /\ leases = {}
    /\ minted = 0
    /\ forced = {}

Drop == \E keep \in Survivors :
    /\ current' = Kept(keep)
    /\ UNCHANGED <<leases, minted, forced>>

Share(t, k) == \E keep \in Survivors :
    /\ k \in keep
    /\ current' = Kept(keep)
    /\ leases' = leases \cup {Lease(t, k, current[k])}
    /\ UNCHANGED <<minted, forced>>

Create(t, k) == \E keep \in Survivors :
    /\ k \notin keep
    /\ Cardinality(keep) < MaxSessions
    /\ minted' = minted + 1
    /\ current' = [Kept(keep) EXCEPT ![k] = minted + 1]
    /\ leases' = leases \cup {Lease(t, k, minted + 1)}
    /\ UNCHANGED forced

\* The returned lease no longer protects its session.
Return(l) ==
    /\ leases' = leases \ {l}
    /\ \/ UNCHANGED current
       \/ /\ \A m \in leases \ {l} : m.key = l.key => m.token # current[l.key]
          /\ current' = [current EXCEPT ![l.key] = NoSession]
    /\ UNCHANGED <<minted, forced>>

\* Recorded, so that no other way of losing a leased session passes for it.
ForceClose(k) ==
    /\ current[k] # NoSession
    /\ current' = [current EXCEPT ![k] = NoSession]
    /\ forced' = forced \cup {current[k]}
    /\ UNCHANGED <<leases, minted>>

Next ==
    \/ Drop
    \/ \E t \in Threads, k \in Keys : Share(t, k) \/ Create(t, k)
    \/ \E l \in leases : Return(l)
    \/ \E k \in Keys : ForceClose(k)

Spec == Init /\ [][Next]_vars
=============================================================================
