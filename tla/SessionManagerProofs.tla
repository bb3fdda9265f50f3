------------------------ MODULE SessionManagerProofs ------------------------
(***************************************************************************)
(* Proofs about SessionManager, for any number of keys, threads, sessions, *)
(* any time-to-live and any way factories nest.                            *)
(***************************************************************************)
EXTENDS SessionManager, FiniteSetTheorems, SequenceTheorems, TLAPS

-----------------------------------------------------------------------------
(* Helpers keep their types.                                               *)

LEMMA WithoutType ==
    ASSUME NEW S, NEW stack \in Seq(S), stack # << >>
    PROVE  /\ Without(stack) \in Seq(S)
           /\ Len(Without(stack)) = Len(stack) - 1
           /\ \A i \in 1 .. Len(stack) - 1 : Without(stack)[i] = stack[i]
BY DEF Without

LEMMA WokenType ==
    ASSUME NEW stack \in Seq(Call), NEW k \in Keys
    PROVE  /\ Woken(stack, k) \in Seq(Call)
           /\ Len(Woken(stack, k)) = Len(stack)
BY DEF Woken, Call

LEMMA EnteringType ==
    ASSUME NEW stack \in Seq(Call), stack # << >>, NEW p \in {"check", "wait", "factory"}
    PROVE  /\ Entering(stack, p) \in Seq(Call)
           /\ Len(Entering(stack, p)) = Len(stack)
           /\ \A i \in 1 .. Len(stack) - 1 : Entering(stack, p)[i] = stack[i]
           /\ Entering(stack, p)[Len(stack)] = [key |-> stack[Len(stack)].key, phase |-> p]
<1> DEFINE top == [key |-> stack[Len(stack)].key, phase |-> p]
<1>1. Len(stack) \in 1 .. Len(stack)
  BY EmptySeq, LenProperties
<1>2. top \in Call
  BY <1>1, ElementOfSeq DEF Call
<1>3. Entering(stack, p) = [stack EXCEPT ![Len(stack)] = top]
  BY DEF Entering
<1> HIDE DEF top
<1>4. /\ [stack EXCEPT ![Len(stack)] = top] \in Seq(Call)
      /\ Len([stack EXCEPT ![Len(stack)] = top]) = Len(stack)
      /\ \A i \in 1 .. Len(stack) : [stack EXCEPT ![Len(stack)] = top][i]
                                   = IF i = Len(stack) THEN top ELSE stack[i]
  BY <1>1, <1>2, ExceptSeq
<1> QED  BY <1>1, <1>3, <1>4 DEF top

LEMMA CollectedType ==
    ASSUME NEW tab \in [Keys -> Session \cup {NoSession}]
    PROVE  /\ Collected(tab) \in [Keys -> Session \cup {NoSession}]
           /\ \A k \in Keys : Collected(tab)[k] \in {tab[k], NoSession}
BY DEF Collected

\* A table with room is the old one, or the old one without a victim.
LEMMA SlotEnsuredType ==
    ASSUME NEW tab \in [Keys -> Session \cup {NoSession}], NEW room \in SlotEnsured(tab)
    PROVE  /\ room \in [Keys -> Session \cup {NoSession}]
           /\ \A k \in Keys : room[k] \in {tab[k], NoSession}
           /\ \/ ~Full(tab)
              \/ \E v \in LiveKeys(tab) : LiveKeys(room) \subseteq LiveKeys(tab) \ {v}
<1>1. CASE ~Full(tab)
  BY <1>1 DEF SlotEnsured
<1>2. CASE Full(tab)
  <2>1. PICK v \in Victims(tab) : room = [tab EXCEPT ![v] = NoSession]
    BY <1>2 DEF SlotEnsured
  <2> QED  BY <2>1 DEF Victims, IdleKeys, LiveKeys
<1> QED  BY <1>1, <1>2

LEMMA CountsType ==
    ASSUME NEW c, IsCounts(c), NEW token \in Token, NEW n \in Int
    PROVE  IsCounts(WithCount(c, token, n))
<1>1. /\ IsFiniteSet(DOMAIN c \ {token})
      /\ IsFiniteSet((DOMAIN c \ {token}) \cup {token})
      /\ (DOMAIN c \ {token}) \cup {} = DOMAIN c \ {token}
  BY FS_AddElement, FS_RemoveElement DEF IsCounts
<1>2. IsFiniteSet(DOMAIN WithCount(c, token, n))
  BY <1>1 DEF WithCount
<1>3. ASSUME NEW tk \in DOMAIN WithCount(c, token, n)
      PROVE  tk \in Token /\ WithCount(c, token, n)[tk] \in Nat \ {0}
  BY <1>3 DEF IsCounts, WithCount
<1> QED  BY <1>2, <1>3 DEF IsCounts

LEMMA NoCountsIsEmpty == IsCounts(NoCounts)
BY FS_EmptySet DEF IsCounts, NoCounts

LEMMA CountOfType ==
    ASSUME NEW c, IsCounts(c), NEW token
    PROVE  CountOf(c, token) \in Nat
BY DEF IsCounts, CountOf

LEMMA TicketsFinite ==
    ASSUME NEW c, IsCounts(c)
    PROVE  IsFiniteSet(Tickets(c)) /\ SumOf(c) \in Nat
<1> DEFINE books == {{tk} \X (1 .. c[tk]) : tk \in DOMAIN c}
<1>1. IsFiniteSet(books)
  <2> DEFINE book == [tk \in DOMAIN c |-> {tk} \X (1 .. c[tk])]
  <2>1. book \in Surjection(DOMAIN c, books)
    BY DEF Surjection
  <2>2. IsFiniteSet(DOMAIN c)
    BY DEF IsCounts
  <2> HIDE DEF book, books
  <2> QED  BY <2>1, <2>2, FS_Surjection
<1>2. ASSUME NEW b \in books
      PROVE  IsFiniteSet(b)
  <2>1. PICK tk \in DOMAIN c : b = {tk} \X (1 .. c[tk])
    OBVIOUS
  <2>2. c[tk] \in Int
    BY DEF IsCounts
  <2>3. IsFiniteSet(1 .. c[tk])
    BY <2>2, FS_Interval
  <2>4. IsFiniteSet({tk})
    BY FS_Singleton
  <2> QED  BY <2>1, <2>3, <2>4, FS_Product
<1>3. IsFiniteSet(UNION books)
  BY <1>1, <1>2, FS_UNION
<1> QED  BY <1>3, FS_CardinalityType DEF Tickets, SumOf

\* One more acquisition of a token is one more ticket.
LEMMA TicketsGrow ==
    ASSUME NEW c, IsCounts(c), NEW token \in Token
    PROVE  SumOf(WithCount(c, token, CountOf(c, token) + 1)) = SumOf(c) + 1
<1> DEFINE n == CountOf(c, token) + 1
           d == WithCount(c, token, n)
<1>1. n \in Nat \ {0} /\ CountOf(c, token) = n - 1
  BY CountOfType
<1>2. <<token, n>> \notin Tickets(c)
  BY <1>1 DEF Tickets, CountOf
<1>3. Tickets(d) = Tickets(c) \cup {<<token, n>>}
  <2>1. DOMAIN d = DOMAIN c \cup {token}
    BY <1>1 DEF WithCount
  <2>2. \A tk \in DOMAIN d : d[tk] = IF tk = token THEN n ELSE c[tk]
    BY <1>1 DEF WithCount
  <2>3. 1 .. n = (1 .. (n - 1)) \cup {n}
    BY <1>1
  <2>4. token \in DOMAIN c => c[token] = n - 1
    BY <1>1 DEF CountOf
  <2>5. token \notin DOMAIN c => 1 .. n = {n}
    BY <1>1 DEF CountOf
  <2> HIDE DEF d, n
  <2>6. ASSUME NEW tk, NEW i
        PROVE  <<tk, i>> \in Tickets(d) <=> <<tk, i>> \in Tickets(c) \cup {<<token, n>>}
    BY <2>1, <2>2, <2>3, <2>4, <2>5 DEF Tickets
  <2> QED  BY <2>6 DEF Tickets
<1> HIDE DEF d, n
<1> QED  BY <1>2, <1>3, TicketsFinite, FS_AddElement DEF SumOf, d, n

\* One acquisition less is one ticket less.
LEMMA TicketsShrink ==
    ASSUME NEW c, IsCounts(c), NEW token \in Token, CountOf(c, token) > 0
    PROVE  SumOf(WithCount(c, token, CountOf(c, token) - 1)) = SumOf(c) - 1
<1> DEFINE n == CountOf(c, token)
           d == WithCount(c, token, n - 1)
<1>1. n \in Nat \ {0} /\ token \in DOMAIN c /\ c[token] = n
  BY CountOfType DEF CountOf
<1>2. <<token, n>> \in Tickets(c)
  BY <1>1 DEF Tickets
<1>3. Tickets(d) = Tickets(c) \ {<<token, n>>}
  <2>1. DOMAIN d = IF n = 1 THEN DOMAIN c \ {token} ELSE DOMAIN c
    BY <1>1 DEF WithCount
  <2>2. \A tk \in DOMAIN d : d[tk] = IF tk = token THEN n - 1 ELSE c[tk]
    BY <1>1 DEF WithCount
  <2>3. (1 .. n) \ {n} = 1 .. (n - 1)
    BY <1>1
  <2>4. n = 1 => 1 .. (n - 1) = {}
    BY <1>1
  <2> HIDE DEF d, n
  <2>5. ASSUME NEW tk, NEW i
        PROVE  <<tk, i>> \in Tickets(d) <=> <<tk, i>> \in Tickets(c) \ {<<token, n>>}
    BY <1>1, <2>1, <2>2, <2>3, <2>4 DEF Tickets
  <2> QED  BY <2>5 DEF Tickets
<1> HIDE DEF d, n
<1> QED  BY <1>2, <1>3, TicketsFinite, FS_RemoveElement DEF SumOf, d, n

\* The counts of a key that just became ambiguous.
LEMMA TicketsStart ==
    ASSUME NEW token \in Token, NEW n \in Nat \ {0}
    PROVE  SumOf(WithCount(NoCounts, token, n)) = n
<1> DEFINE d == WithCount(NoCounts, token, n)
<1>1. DOMAIN d = {token} /\ d[token] = n
  BY DEF WithCount, NoCounts
<1> HIDE DEF d
<1>2. Tickets(d) = {token} \X (1 .. n)
  BY <1>1 DEF Tickets
<1>3. IsFiniteSet({token}) /\ Cardinality({token}) = 1
  BY FS_Singleton
<1>4. IsFiniteSet(1 .. n)
  BY FS_Interval
<1>5. Cardinality(1 .. n) = n
  BY FS_Interval
<1>6. Cardinality(Tickets(d)) = Cardinality({token}) * Cardinality(1 .. n)
  BY <1>2, <1>3, <1>4, FS_Product
<1> QED  BY <1>3, <1>5, <1>6 DEF SumOf, d

LEMMA ReferenceBoundType ==
    ASSUME NEW c, IsCounts(c), NEW legacy \in Nat, NEW token
    PROVE  ReferenceBound(c, legacy, token) \in Nat
BY CountOfType, TicketsFinite DEF ReferenceBound, Smaller, AtLeastZero

LEMMA SettledType ==
    ASSUME clock \in Nat, NEW s \in Session, NEW n \in Int
    PROVE  Settled(s, n) \in Session \cup {NoSession}
<1>1. CASE n > 0
  BY <1>1 DEF Settled, Session
<1>2. CASE ~(n > 0) /\ IdleTtl = 0
  BY <1>2 DEF Settled
<1>3. CASE ~(n > 0) /\ IdleTtl # 0
  BY <1>3 DEF Settled, Session
<1> QED  BY <1>1, <1>2, <1>3

LEMMA ReferencedType ==
    ASSUME clock \in Nat, NEW s \in Session, NEW n \in Nat
    PROVE  Referenced(s, n) \in Session
BY DEF Referenced, Session

LEMMA TopType ==
    ASSUME TypeOK, NEW t \in Threads, NEW p, InCall(t, p)
    PROVE  /\ calls[t] \in Seq(Call)
           /\ calls[t] # << >>
           /\ Depth(t) \in 1 .. Len(calls[t])
           /\ Top(t) \in Call
           /\ Top(t).key \in Keys
           /\ Top(t) = [key |-> Top(t).key, phase |-> p]
<1>1. calls[t] \in Seq(Call)
  BY DEF TypeOK
<1>2. Depth(t) \in 1 .. Len(calls[t]) /\ calls[t] # << >>
  BY <1>1, LenProperties DEF InCall, Depth
<1>3. Top(t) \in Call
  BY <1>1, <1>2, ElementOfSeq DEF Top, Depth
<1> QED  BY <1>1, <1>2, <1>3 DEF InCall, Call

-----------------------------------------------------------------------------
(* Type correctness.                                                       *)

\* The end of a creation keeps the stacks and the creation records typed.
LEMMA EndCreationType ==
    ASSUME TypeOK, NEW t \in Threads, InCall(t, "factory"), EndCreation(t, Top(t).key)
    PROVE  /\ pending' \in [Keys -> Threads \cup {NoThread}]
           /\ calls' \in [Threads -> Seq(Call)]
<1> DEFINE k == Top(t).key
           stack(u) == IF u = t THEN Without(calls[t]) ELSE calls[u]
<1>1. k \in Keys /\ calls[t] \in Seq(Call) /\ calls[t] # << >>
  BY TopType
<1>2. ASSUME NEW u \in Threads
      PROVE  Woken(stack(u), k) \in Seq(Call)
  <2>1. stack(u) \in Seq(Call)
    BY <1>1, WithoutType DEF TypeOK
  <2> QED  BY <1>1, <2>1, WokenType
<1>3. calls' = [u \in Threads |-> Woken(stack(u), k)]
  BY DEF EndCreation
<1> HIDE DEF stack
<1>4. calls' \in [Threads -> Seq(Call)]
  BY <1>2, <1>3
<1> QED  BY <1>1, <1>4 DEF EndCreation, TypeOK

THEOREM TypeCorrect == Spec => []TypeOK
<1>1. Init => TypeOK
  BY NoCountsIsEmpty DEF Init, TypeOK
<1>2. TypeOK /\ [Next]_vars => TypeOK'
  <2> SUFFICES ASSUME TypeOK, [Next]_vars  PROVE TypeOK'
    OBVIOUS
  <2> USE DEF Token
  <2>1. ASSUME NEW t \in Threads, NEW k \in Keys, CallAcquire(t, k)
        PROVE  TypeOK'
    <3>1. Append(calls[t], [key |-> k, phase |-> "check"]) \in Seq(Call)
      BY AppendProperties DEF TypeOK, Call
    <3> QED  BY <2>1, <3>1 DEF CallAcquire, TypeOK
  <2>2. ASSUME NEW t \in Threads, AcquireExisting(t)
        PROVE  TypeOK'
    <3> DEFINE k == Top(t).key
               tab == Collected(sessions)
               s == tab[k]
               c == WithCount(leaseCounts[k], s.token, CountOf(leaseCounts[k], s.token) + 1)
    <3>1. /\ k \in Keys
          /\ Without(calls[t]) \in Seq(Call)
          /\ tab \in [Keys -> Session \cup {NoSession}]
          /\ s \in Session
      BY <2>2, TopType, WithoutType, CollectedType DEF AcquireExisting, TypeOK
    <3>2. [holder |-> t, key |-> k, token |-> s.token] \in Lease
      BY <3>1 DEF Lease, Session
    <3>3. CASE leaseCounts[k] = NoCounts
      <4>1. s.refCount + 1 \in Nat /\ clock \in Nat
        BY <3>1 DEF TypeOK, Session
      <4>2. Referenced(s, s.refCount + 1) \in Session
        <5> HIDE DEF s
        <5> QED  BY <3>1, <4>1, ReferencedType
      <4> QED  BY <2>2, <3>1, <3>2, <3>3, <4>2 DEF AcquireExisting, TypeOK
    <3>4. CASE leaseCounts[k] # NoCounts
      <4>1. s.token \in Token /\ IsCounts(leaseCounts[k])
        BY <3>1, <3>4 DEF Session, TypeOK
      <4>2. IsCounts(c)
        BY <4>1, CountOfType, CountsType
      <4>3. Referenced(s, ReferenceBound(c, legacyReleases[k], s.token)) \in Session
        BY <3>1, <4>2, ReferenceBoundType, ReferencedType DEF TypeOK
      <4> QED  BY <2>2, <3>1, <3>2, <3>4, <4>2, <4>3 DEF AcquireExisting, TypeOK
    <3> QED  BY <3>3, <3>4
  <2>3. ASSUME NEW t \in Threads, AcquireCreate(t)
        PROVE  TypeOK'
    <3>1. /\ Entering(calls[t], "factory") \in Seq(Call)
          /\ Collected(sessions) \in [Keys -> Session \cup {NoSession}]
      BY <2>3, TopType, EnteringType, CollectedType DEF AcquireCreate, TypeOK
    <3> QED  BY <2>3, <3>1 DEF AcquireCreate, TypeOK
  <2>4. ASSUME NEW t \in Threads, AcquireRefused(t)
        PROVE  TypeOK'
    <3>1. /\ Without(calls[t]) \in Seq(Call)
          /\ Collected(sessions) \in [Keys -> Session \cup {NoSession}]
      BY <2>4, TopType, WithoutType, CollectedType DEF AcquireRefused, TypeOK
    <3> QED  BY <2>4, <3>1 DEF AcquireRefused, TypeOK
  <2>5. ASSUME NEW t \in Threads, AcquireReentrant(t)
        PROVE  TypeOK'
    <3>1. /\ Without(calls[t]) \in Seq(Call)
          /\ Collected(sessions) \in [Keys -> Session \cup {NoSession}]
      BY <2>5, TopType, WithoutType, CollectedType DEF AcquireReentrant, TypeOK
    <3> QED  BY <2>5, <3>1 DEF AcquireReentrant, TypeOK
  <2>6. ASSUME NEW t \in Threads, AcquireWait(t)
        PROVE  TypeOK'
    <3>1. /\ Entering(calls[t], "wait") \in Seq(Call)
          /\ Collected(sessions) \in [Keys -> Session \cup {NoSession}]
      BY <2>6, TopType, EnteringType, CollectedType DEF AcquireWait, TypeOK
    <3> QED  BY <2>6, <3>1 DEF AcquireWait, TypeOK
  <2>7. ASSUME NEW t \in Threads, FactoryFails(t)
        PROVE  TypeOK'
    BY <2>7, EndCreationType DEF FactoryFails, TypeOK
  <2>8. ASSUME NEW t \in Threads, FactoryInstalls(t)
        PROVE  TypeOK'
    <3> DEFINE k == Top(t).key
               tab == Collected(sessions)
               token == minted + 1
               new == [token |-> token, refCount |-> 1, created |-> clock,
                       lastAccess |-> clock, idleSince |-> NotIdle]
    <3>1. k \in Keys /\ token \in Token /\ new \in Session
      BY <2>8, TopType DEF FactoryInstalls, TypeOK, Session
    <3>2. tab \in [Keys -> Session \cup {NoSession}]
      BY CollectedType DEF TypeOK
    <3>3. sessions' \in [Keys -> Session \cup {NoSession}]
      <4>1. PICK room \in SlotEnsured(tab) : sessions' = [room EXCEPT ![k] = new]
        BY <2>8 DEF FactoryInstalls
      <4>2. room \in [Keys -> Session \cup {NoSession}]
        BY <3>2, SlotEnsuredType
      <4> QED  BY <3>1, <4>1, <4>2
    <3>4. IsCounts(WithCount(leaseCounts[k], token, 1))
      <4>1. IsCounts(leaseCounts[k])
        BY <3>1 DEF TypeOK
      <4> HIDE DEF k, token
      <4> QED  BY <3>1, <4>1, CountsType
    <3>5. [holder |-> t, key |-> k, token |-> token] \in Lease
      BY <3>1 DEF Lease
    <3>6. /\ pending' \in [Keys -> Threads \cup {NoThread}]
          /\ calls' \in [Threads -> Seq(Call)]
      BY <2>8, EndCreationType DEF FactoryInstalls
    <3> HIDE DEF new
    <3> QED  BY <2>8, <3>1, <3>3, <3>4, <3>5, <3>6 DEF FactoryInstalls, TypeOK
  <2>9. ASSUME NEW t \in Threads, FactoryFindsNoSlot(t)
        PROVE  TypeOK'
    BY <2>9, EndCreationType, CollectedType DEF FactoryFindsNoSlot, TypeOK
  <2>10. ASSUME NEW t \in Threads, NEW l \in leases, Touch(t, l)
         PROVE  TypeOK'
    <3>1. l.key \in Keys /\ sessions[l.key] \in Session
      BY <2>10 DEF Touch, TypeOK, Lease
    <3>2. Touched(sessions[l.key]) \in Session
      BY <3>1 DEF Touched, TypeOK, Session
    <3> QED  BY <2>10, <3>1, <3>2 DEF Touch, TypeOK
  <2>11. ASSUME NEW t \in Threads, NEW l \in leases, NEW exact \in BOOLEAN,
                Release(t, l, exact)
         PROVE  TypeOK'
    <3> DEFINE k == l.key
               s == sessions[k]
    <3>1. k \in Keys /\ l.token \in Token /\ s \in Session \cup {NoSession}
      BY DEF TypeOK, Lease
    <3>2. CASE ReleasePlain(l, exact)
      <4>1. s # NoSession => Settled(s, s.refCount - 1) \in Session \cup {NoSession}
        BY <3>1, SettledType DEF TypeOK, Session
      <4> QED  BY <2>11, <3>1, <3>2, <4>1 DEF Release, ReleasePlain, TypeOK
    <3>3. CASE ReleaseAmbiguous(l, exact)
      <4> DEFINE old == leaseCounts[k]
                 c == IF exact THEN WithCount(old, l.token, CountOf(old, l.token) - 1) ELSE old
                 legacy == legacyReleases[k] + (IF exact THEN 0 ELSE 1)
      <4>1. IsCounts(old)
        BY <3>1, <3>3 DEF ReleaseAmbiguous, TypeOK
      <4>2. IsCounts(c) /\ legacy \in Nat
        BY <3>1, <4>1, CountsType, CountOfType DEF TypeOK
      <4>3. s # NoSession =>
               Settled(s, ReferenceBound(c, legacy, s.token)) \in Session \cup {NoSession}
        <5> HIDE DEF c, legacy
        <5> QED  BY <3>1, <4>2, ReferenceBoundType, SettledType DEF TypeOK
      <4>4. CASE UNCHANGED <<sessions, leaseCounts, legacyReleases>>
        BY <2>11, <4>4 DEF Release, TypeOK
      <4>5. CASE ~UNCHANGED <<sessions, leaseCounts, legacyReleases>>
        <5>1. /\ leaseCounts' \in {[leaseCounts EXCEPT ![k] = NoCounts],
                                  [leaseCounts EXCEPT ![k] = c]}
              /\ legacyReleases' \in {[legacyReleases EXCEPT ![k] = 0],
                                     [legacyReleases EXCEPT ![k] = legacy]}
              /\ sessions' = IF s = NoSession THEN sessions
                             ELSE [sessions EXCEPT ![k] =
                                     Settled(s, ReferenceBound(c, legacy, s.token))]
          BY <3>3, <4>5 DEF ReleaseAmbiguous
        <5> HIDE DEF c, legacy
        <5>2. sessions' \in [Keys -> Session \cup {NoSession}]
          <6>1. CASE s = NoSession
            BY <5>1, <6>1 DEF TypeOK
          <6>2. CASE s # NoSession
            <7> DEFINE new == Settled(s, ReferenceBound(c, legacy, s.token))
            <7>1. new \in Session \cup {NoSession} /\ sessions' = [sessions EXCEPT ![k] = new]
              BY <4>3, <5>1, <6>2
            <7> HIDE DEF new
            <7> QED  BY <7>1 DEF TypeOK
          <6> QED  BY <6>1, <6>2
        <5>3. legacyReleases' \in [Keys -> Nat]
          BY <4>2, <5>1 DEF TypeOK
        <5>4. /\ DOMAIN leaseCounts' = Keys
              /\ \A j \in Keys : IsCounts(leaseCounts'[j])
          BY <3>1, <4>2, <5>1, NoCountsIsEmpty DEF TypeOK
        <5> QED  BY <2>11, <5>2, <5>3, <5>4 DEF Release, TypeOK
      <4> QED  BY <4>4, <4>5
    <3> QED  BY <2>11, <3>2, <3>3 DEF Release
  <2>12. ASSUME NEW k \in Keys, CloseIdle(k)
         PROVE  TypeOK'
    BY <2>12 DEF CloseIdle, TypeOK
  <2>13. ASSUME NEW k \in Keys, ForceClose(k)
         PROVE  TypeOK'
    <3> DEFINE s == sessions[k]
               c == leaseCounts[k]
    <3>1. s \in Session
      BY <2>13 DEF ForceClose, LiveKeys, TypeOK
    <3>2. IsCounts(c)
      BY DEF TypeOK
    <3>3. IsCounts(WithCount(c, s.token, s.refCount))
      BY <3>1, <3>2, CountsType DEF Session
    <3> QED  BY <2>13, <3>1, <3>2, <3>3 DEF ForceClose, TypeOK, Session
  <2>14. ASSUME CollectExpired
         PROVE  TypeOK'
    BY <2>14, CollectedType DEF CollectExpired, TypeOK
  <2>15. ASSUME Tick
         PROVE  TypeOK'
    BY <2>15 DEF Tick, TypeOK
  <2>16. CASE UNCHANGED vars
    BY <2>16 DEF vars, TypeOK
  <2> QED
    BY <2>1, <2>2, <2>3, <2>4, <2>5, <2>6, <2>7, <2>8, <2>9, <2>10, <2>11, <2>12,
       <2>13, <2>14, <2>15, <2>16 DEF Next, AcquireStep, FactoryEnds
<1> QED  BY <1>1, <1>2, PTL DEF Spec

-----------------------------------------------------------------------------
(* Capacity.                                                               *)

\* Dropping sessions keeps the number of live keys in bounds.
LEMMA FewerLiveKeys ==
    ASSUME NEW tab, NEW tab2,
           \A k \in Keys : tab2[k] # NoSession => tab[k] # NoSession
    PROVE  /\ IsFiniteSet(LiveKeys(tab)) /\ IsFiniteSet(LiveKeys(tab2))
           /\ Cardinality(LiveKeys(tab)) \in Nat
           /\ Cardinality(LiveKeys(tab2)) \in Nat
           /\ Cardinality(LiveKeys(tab2)) <= Cardinality(LiveKeys(tab))
<1>1. LiveKeys(tab) \subseteq Keys /\ LiveKeys(tab2) \subseteq LiveKeys(tab)
  BY DEF LiveKeys
<1>2. IsFiniteSet(LiveKeys(tab))
  BY <1>1, ConstantsAssumption, FS_Subset
<1> QED  BY <1>1, <1>2, FS_Subset, FS_CardinalityType

\* Only FactoryInstalls adds an entry to the table.
LEMMA OnlyInstallAdds ==
    ASSUME TypeOK, [Next]_vars, ~\E t \in Threads : FactoryInstalls(t)
    PROVE  \A k \in Keys : sessions'[k] # NoSession => sessions[k] # NoSession
<1> SUFFICES ASSUME NEW k \in Keys, sessions'[k] # NoSession
             PROVE  sessions[k] # NoSession
  OBVIOUS
<1>1. Collected(sessions)[k] \in {sessions[k], NoSession}
  BY DEF Collected
<1>2. ASSUME NEW t \in Threads, AcquireExisting(t)
      PROVE  sessions[k] # NoSession
  BY <1>1, <1>2 DEF AcquireExisting, Collected
<1>3. ASSUME NEW l \in leases, NEW exact \in BOOLEAN, NEW t \in Threads, Release(t, l, exact)
      PROVE  sessions[k] # NoSession
  BY <1>3 DEF Release, ReleasePlain, ReleaseAmbiguous, TypeOK
<1> QED
  BY <1>1, <1>2, <1>3 DEF Next, vars, TypeOK, AcquireStep, FactoryEnds, CallAcquire,
     AcquireCreate, AcquireRefused, AcquireReentrant, AcquireWait, FactoryFails,
     FactoryFindsNoSlot, Touch, CloseIdle, ForceClose, CollectExpired, Tick

\* The table never outgrows max_sessions, whatever happens between the test
\* of acquire and the insertion.
THEOREM CapacityRespected == Spec => []WithinCapacity
<1>1. Init => WithinCapacity
  <2>1. Init => LiveKeys(sessions) = {}
    BY DEF Init, LiveKeys
  <2> QED  BY <2>1, FS_EmptySet, ConstantsAssumption DEF WithinCapacity
<1>2. TypeOK /\ WithinCapacity /\ [Next]_vars => WithinCapacity'
  <2> SUFFICES ASSUME TypeOK, WithinCapacity, [Next]_vars
               PROVE  WithinCapacity'
    OBVIOUS
  <2>1. ASSUME NEW t \in Threads, FactoryInstalls(t)
        PROVE  WithinCapacity'
    <3> DEFINE k == Top(t).key
               tab == Collected(sessions)
    <3>1. /\ IsFiniteSet(LiveKeys(tab))
          /\ Cardinality(LiveKeys(tab)) \in Nat
          /\ Cardinality(LiveKeys(tab)) <= MaxSessions
      BY FewerLiveKeys, ConstantsAssumption DEF Collected, WithinCapacity
    <3>2. tab \in [Keys -> Session \cup {NoSession}]
      BY CollectedType DEF TypeOK
    <3> HIDE DEF tab
    <3> HIDE DEF k
    <3>3. CASE ~Full(tab) /\ LiveKeys(sessions') \subseteq LiveKeys(tab) \cup {k}
      <4>1. Cardinality(LiveKeys(tab)) < MaxSessions
        BY <3>1, <3>3, ConstantsAssumption DEF Full
      <4>2. /\ IsFiniteSet(LiveKeys(tab) \cup {k})
            /\ Cardinality(LiveKeys(tab) \cup {k}) \in
                  {Cardinality(LiveKeys(tab)), Cardinality(LiveKeys(tab)) + 1}
        BY <3>1, FS_AddElement
      <4>3. /\ Cardinality(LiveKeys(sessions')) <= Cardinality(LiveKeys(tab) \cup {k})
            /\ Cardinality(LiveKeys(sessions')) \in Nat
        BY <3>3, <4>2, FS_Subset, FS_CardinalityType
      <4> QED  BY <3>1, <4>1, <4>2, <4>3, ConstantsAssumption DEF WithinCapacity
    <3>4. ASSUME NEW v \in LiveKeys(tab),
                 LiveKeys(sessions') \subseteq (LiveKeys(tab) \ {v}) \cup {k}
          PROVE  WithinCapacity'
      <4>1. /\ IsFiniteSet(LiveKeys(tab) \ {v})
            /\ Cardinality(LiveKeys(tab) \ {v}) = Cardinality(LiveKeys(tab)) - 1
        BY <3>1, FS_RemoveElement
      <4> DEFINE rest == LiveKeys(tab) \ {v}
      <4> HIDE DEF rest
      <4>2. /\ IsFiniteSet(rest \cup {k})
            /\ Cardinality(rest \cup {k}) \in {Cardinality(rest), Cardinality(rest) + 1}
        BY <4>1, FS_AddElement DEF rest
      <4>3. /\ Cardinality(LiveKeys(sessions')) <= Cardinality(rest \cup {k})
            /\ Cardinality(LiveKeys(sessions')) \in Nat
        BY <3>4, <4>2, FS_Subset, FS_CardinalityType DEF rest
      <4> QED  BY <3>1, <4>1, <4>2, <4>3, ConstantsAssumption DEF WithinCapacity, rest
    <3>5. PICK room \in SlotEnsured(tab) : \E new : sessions' = [room EXCEPT ![k] = new]
      BY <2>1 DEF FactoryInstalls, tab, k
    <3>6. /\ room \in [Keys -> Session \cup {NoSession}]
          /\ \A j \in Keys : room[j] \in {tab[j], NoSession}
          /\ ~Full(tab) \/ \E v \in LiveKeys(tab) : LiveKeys(room) \subseteq LiveKeys(tab) \ {v}
      BY <3>2, SlotEnsuredType
    <3>7. LiveKeys(sessions') \subseteq LiveKeys(room) \cup {k} /\ LiveKeys(room) \subseteq LiveKeys(tab)
      BY <3>5, <3>6 DEF LiveKeys
    <3> QED  BY <3>3, <3>4, <3>6, <3>7
  <2>2. CASE ~\E t \in Threads : FactoryInstalls(t)
    <3>1. \A k \in Keys : sessions'[k] # NoSession => sessions[k] # NoSession
      BY <2>2, OnlyInstallAdds
    <3> QED  BY <3>1, FewerLiveKeys, ConstantsAssumption DEF WithinCapacity
  <2> QED  BY <2>1, <2>2
<1> QED  BY <1>1, <1>2, TypeCorrect, PTL DEF Spec

-----------------------------------------------------------------------------
(* Who is creating what.                                                   *)

Factory(k) == [key |-> k, phase |-> "factory"]
Wait(k) == [key |-> k, phase |-> "wait"]

\* The stacks cs, the creation records pend and the table tab tell one story:
\* a running factory is the one on record, once; only the innermost call is
\* not inside its factory; a recorded creation runs, and its key has no
\* session; who waits, waits for somebody else.
CallsMatch(cs, pend, tab) ==
    /\ \A t \in Threads : \A i \in 1 .. Len(cs[t]), k \in Keys :
          cs[t][i] = Factory(k) => pend[k] = t
    /\ \A t \in Threads : \A i, j \in 1 .. Len(cs[t]), k \in Keys :
          cs[t][i] = Factory(k) /\ cs[t][j] = Factory(k) => i = j
    /\ \A t \in Threads : \A i \in 1 .. Len(cs[t]) :
          i < Len(cs[t]) => cs[t][i].phase = "factory"
    /\ \A k \in Keys : pend[k] # NoThread => tab[k] = NoSession
    /\ \A k \in Keys : pend[k] # NoThread =>
          \E i \in 1 .. Len(cs[pend[k]]) : cs[pend[k]][i] = Factory(k)
    /\ \A t \in Threads : \A i \in 1 .. Len(cs[t]), k \in Keys :
          cs[t][i] = Wait(k) => pend[k] \notin {NoThread, t}

CallInv == CallsMatch(calls, pending, sessions)

\* A new call in "check" on top of a stack.
LEMMA PushKeepsMatch ==
    ASSUME NEW cs \in [Threads -> Seq(Call)], NEW pend \in [Keys -> Threads \cup {NoThread}],
           NEW tab, CallsMatch(cs, pend, tab),
           NEW t \in Threads, NEW k \in Keys,
           Len(cs[t]) > 0 => cs[t][Len(cs[t])].phase = "factory",
           NEW ds, ds = [cs EXCEPT ![t] = Append(@, [key |-> k, phase |-> "check"])]
    PROVE  CallsMatch(ds, pend, tab)
<1> DEFINE f == [key |-> k, phase |-> "check"]
           n == Len(cs[t])
<1>1. cs[t] \in Seq(Call) /\ f \in Call
  BY DEF Call
<1>2. \A u \in Threads : u # t => ds[u] = cs[u]
  OBVIOUS
<1>3. /\ n \in Nat /\ Len(ds[t]) = n + 1
      /\ \A i \in 1 .. n : ds[t][i] = cs[t][i]
      /\ ds[t][n + 1] = f
  BY <1>1, AppendProperties, LenProperties
<1>4. f.phase = "check" /\ \A j \in Keys : f # Factory(j) /\ f # Wait(j)
  BY DEF Factory, Wait
<1>5. \A i \in 1 .. (n + 1) : i \in 1 .. n \/ i = n + 1
  BY <1>3
<1> HIDE DEF f, n
<1>6. \A u \in Threads : \A i \in 1 .. Len(ds[u]), j \in Keys :
        /\ ds[u][i] = Factory(j) => i \in 1 .. Len(cs[u]) /\ cs[u][i] = Factory(j)
        /\ ds[u][i] = Wait(j) => i \in 1 .. Len(cs[u]) /\ cs[u][i] = Wait(j)
  BY <1>2, <1>3, <1>4, <1>5 DEF n
<1>7. \A u \in Threads : \A i \in 1 .. Len(ds[u]) :
        i < Len(ds[u]) => ds[u][i].phase = "factory"
  <2> TAKE u \in Threads
  <2>1. CASE u # t
    BY <1>2, <2>1 DEF CallsMatch
  <2>2. CASE u = t
    BY <1>3, <2>2 DEF CallsMatch, n
  <2> QED  BY <2>1, <2>2
<1>8. \A u \in Threads : \A i \in 1 .. Len(cs[u]) :
        i \in 1 .. Len(ds[u]) /\ ds[u][i] = cs[u][i]
  BY <1>2, <1>3 DEF n
<1>9. \A j \in Keys : pend[j] # NoThread =>
        \E i \in 1 .. Len(ds[pend[j]]) : ds[pend[j]][i] = Factory(j)
  BY <1>8 DEF CallsMatch
<1>10. \A u \in Threads : \A i \in 1 .. Len(ds[u]), j \in Keys :
          ds[u][i] = Factory(j) => pend[j] = u
  BY <1>6 DEF CallsMatch
<1>11. \A u \in Threads : \A i, l \in 1 .. Len(ds[u]), j \in Keys :
          ds[u][i] = Factory(j) /\ ds[u][l] = Factory(j) => i = l
  BY <1>6 DEF CallsMatch
<1>12. \A u \in Threads : \A i \in 1 .. Len(ds[u]), j \in Keys :
          ds[u][i] = Wait(j) => pend[j] \notin {NoThread, u}
  BY <1>6 DEF CallsMatch
<1>13. \A j \in Keys : pend[j] # NoThread => tab[j] = NoSession
  BY DEF CallsMatch
<1> QED  BY <1>7, <1>9, <1>10, <1>11, <1>12, <1>13 DEF CallsMatch

\* A call that is not in its factory returns.
LEMMA PopKeepsMatch ==
    ASSUME NEW cs \in [Threads -> Seq(Call)], NEW pend \in [Keys -> Threads \cup {NoThread}],
           NEW tab, CallsMatch(cs, pend, tab),
           NEW t \in Threads, cs[t] # << >>, cs[t][Len(cs[t])].phase # "factory",
           NEW ds, ds = [cs EXCEPT ![t] = Without(@)]
    PROVE  CallsMatch(ds, pend, tab)
<1> DEFINE n == Len(cs[t])
<1>1. /\ \A u \in Threads : u # t => ds[u] = cs[u]
      /\ n \in Nat \ {0} /\ Len(ds[t]) = n - 1
      /\ \A i \in 1 .. n - 1 : ds[t][i] = cs[t][i]
  <2>1. cs[t] \in Seq(Call) /\ ds[t] = Without(cs[t])
    OBVIOUS
  <2>2. n \in Nat \ {0}
    BY <2>1, LenProperties, EmptySeq
  <2>3. /\ Len(Without(cs[t])) = n - 1
        /\ \A i \in 1 .. n - 1 : Without(cs[t])[i] = cs[t][i]
    BY <2>1, WithoutType
  <2> QED  BY <2>1, <2>2, <2>3
<1>2. \A j \in Keys : cs[t][n] # Factory(j)
  BY DEF Factory
<1>3. \A u \in Threads : \A i \in 1 .. Len(ds[u]) :
        i \in 1 .. Len(cs[u]) /\ ds[u][i] = cs[u][i]
  BY <1>1
<1>4. \A u \in Threads : \A i \in 1 .. Len(cs[u]), j \in Keys :
        cs[u][i] = Factory(j) => i \in 1 .. Len(ds[u]) /\ ds[u][i] = Factory(j)
  BY <1>1, <1>2
<1>5. \A u \in Threads : \A i \in 1 .. Len(ds[u]) :
        i < Len(ds[u]) => ds[u][i].phase = "factory"
  BY <1>1, <1>3 DEF CallsMatch
<1>6. \A j \in Keys : pend[j] # NoThread =>
        \E i \in 1 .. Len(ds[pend[j]]) : ds[pend[j]][i] = Factory(j)
  BY <1>4 DEF CallsMatch
<1> QED  BY <1>3, <1>5, <1>6 DEF CallsMatch

\* A call in "check" starts to wait for the creator of its key.
LEMMA WaitKeepsMatch ==
    ASSUME NEW cs \in [Threads -> Seq(Call)], NEW pend \in [Keys -> Threads \cup {NoThread}],
           NEW tab, CallsMatch(cs, pend, tab),
           NEW t \in Threads, cs[t] # << >>, NEW k \in Keys,
           cs[t][Len(cs[t])] = [key |-> k, phase |-> "check"],
           pend[k] \notin {NoThread, t},
           NEW ds, ds = [cs EXCEPT ![t] = Entering(@, "wait")]
    PROVE  CallsMatch(ds, pend, tab)
<1> DEFINE n == Len(cs[t])
<1>1. /\ \A u \in Threads : u # t => ds[u] = cs[u]
      /\ n \in Nat \ {0} /\ Len(ds[t]) = n
      /\ \A i \in 1 .. n - 1 : ds[t][i] = cs[t][i]
      /\ ds[t][n] = Wait(k)
  <2>1. cs[t] \in Seq(Call) /\ ds[t] = Entering(cs[t], "wait")
    OBVIOUS
  <2>2. n \in Nat \ {0}
    BY <2>1, LenProperties, EmptySeq
  <2>3. /\ Len(Entering(cs[t], "wait")) = n
        /\ \A i \in 1 .. n - 1 : Entering(cs[t], "wait")[i] = cs[t][i]
        /\ Entering(cs[t], "wait")[n] = [key |-> cs[t][n].key, phase |-> "wait"]
    BY <2>1, EnteringType
  <2>4. cs[t][n].key = k
    OBVIOUS
  <2> QED  BY <2>1, <2>2, <2>3, <2>4 DEF Wait
<1>2. \A j \in Keys : Wait(k) # Factory(j) /\ (Wait(k) = Wait(j) => k = j)
  BY DEF Factory, Wait
<1>3. \A j \in Keys : cs[t][n] # Factory(j)
  BY DEF Factory
<1>4. \A u \in Threads : \A i \in 1 .. Len(ds[u]) :
        i \in 1 .. Len(cs[u]) /\ (ds[u][i] = cs[u][i] \/ (u = t /\ i = n))
  <2> TAKE u \in Threads
  <2>1. CASE u # t
    BY <1>1, <2>1
  <2>2. CASE u = t
    <3>1. \A i \in 1 .. n : i \in 1 .. n - 1 \/ i = n
      BY <1>1
    <3> QED  BY <1>1, <2>2, <3>1
  <2> QED  BY <2>1, <2>2
<1>5. \A u \in Threads : \A i \in 1 .. Len(cs[u]), j \in Keys :
        cs[u][i] = Factory(j) => i \in 1 .. Len(ds[u]) /\ ds[u][i] = Factory(j)
  BY <1>1, <1>3
<1>6. \A u \in Threads : \A i \in 1 .. Len(ds[u]) :
        i < Len(ds[u]) => ds[u][i].phase = "factory"
  BY <1>1, <1>4 DEF CallsMatch
<1>7. \A j \in Keys : pend[j] # NoThread =>
        \E i \in 1 .. Len(ds[pend[j]]) : ds[pend[j]][i] = Factory(j)
  BY <1>5 DEF CallsMatch
<1>8. \A u \in Threads : \A i \in 1 .. Len(ds[u]), j \in Keys :
        ds[u][i] = Factory(j) => cs[u][i] = Factory(j)
  BY <1>1, <1>2, <1>4
<1>9. \A u \in Threads : \A i \in 1 .. Len(ds[u]), j \in Keys :
        ds[u][i] = Wait(j) => pend[j] \notin {NoThread, u}
  <2> SUFFICES ASSUME NEW u \in Threads, NEW i \in 1 .. Len(ds[u]), NEW j \in Keys,
                      ds[u][i] = Wait(j)
               PROVE  pend[j] \notin {NoThread, u}
    OBVIOUS
  <2>1. CASE ds[u][i] = cs[u][i]
    BY <1>4, <2>1 DEF CallsMatch
  <2>2. CASE u = t /\ i = n
    <3>1. j = k
      BY <1>1, <1>2, <2>2
    <3> QED  BY <2>2, <3>1
  <2> QED  BY <1>4, <2>1, <2>2
<1> QED  BY <1>4, <1>6, <1>7, <1>8, <1>9 DEF CallsMatch

\* A call in "check" registers as the creator of its key.
LEMMA CreateKeepsMatch ==
    ASSUME NEW cs \in [Threads -> Seq(Call)], NEW pend \in [Keys -> Threads \cup {NoThread}],
           NEW tab, CallsMatch(cs, pend, tab),
           NEW t \in Threads, cs[t] # << >>, NEW k \in Keys,
           cs[t][Len(cs[t])] = [key |-> k, phase |-> "check"],
           pend[k] = NoThread, tab[k] = NoSession,
           NEW ds, ds = [cs EXCEPT ![t] = Entering(@, "factory")],
           NEW qend, qend = [pend EXCEPT ![k] = t]
    PROVE  CallsMatch(ds, qend, tab)
<1> DEFINE n == Len(cs[t])
<1>1. /\ \A u \in Threads : u # t => ds[u] = cs[u]
      /\ n \in Nat \ {0} /\ Len(ds[t]) = n
      /\ \A i \in 1 .. n - 1 : ds[t][i] = cs[t][i]
      /\ ds[t][n] = Factory(k)
  <2>1. cs[t] \in Seq(Call) /\ ds[t] = Entering(cs[t], "factory")
    OBVIOUS
  <2>2. n \in Nat \ {0}
    BY <2>1, LenProperties, EmptySeq
  <2>3. /\ Len(Entering(cs[t], "factory")) = n
        /\ \A i \in 1 .. n - 1 : Entering(cs[t], "factory")[i] = cs[t][i]
        /\ Entering(cs[t], "factory")[n] = [key |-> cs[t][n].key, phase |-> "factory"]
    BY <2>1, EnteringType
  <2>4. cs[t][n].key = k
    OBVIOUS
  <2> QED  BY <2>1, <2>2, <2>3, <2>4 DEF Factory
<1>2. \A j \in Keys : Factory(k) # Wait(j) /\ (Factory(k) = Factory(j) => k = j)
  BY DEF Factory, Wait
<1>3. \A j \in Keys : cs[t][n] # Factory(j)
  BY DEF Factory
<1>4. \A u \in Threads : \A i \in 1 .. Len(ds[u]) :
        i \in 1 .. Len(cs[u]) /\ (ds[u][i] = cs[u][i] \/ (u = t /\ i = n))
  <2> TAKE u \in Threads
  <2>1. CASE u # t
    BY <1>1, <2>1
  <2>2. CASE u = t
    <3>1. \A i \in 1 .. n : i \in 1 .. n - 1 \/ i = n
      BY <1>1
    <3> QED  BY <1>1, <2>2, <3>1
  <2> QED  BY <2>1, <2>2
<1>5. \A u \in Threads : \A i \in 1 .. Len(cs[u]), j \in Keys :
        cs[u][i] = Factory(j) => i \in 1 .. Len(ds[u]) /\ ds[u][i] = Factory(j)
  BY <1>1, <1>3
<1>6. \A u \in Threads : \A i \in 1 .. Len(ds[u]) :
        i < Len(ds[u]) => ds[u][i].phase = "factory"
  BY <1>1, <1>4 DEF CallsMatch
<1>7. /\ qend[k] = t
      /\ \A j \in Keys : j # k => qend[j] = pend[j]
      /\ t # NoThread
  BY ConstantsAssumption
<1>8. \A j \in Keys : qend[j] # NoThread =>
        \E i \in 1 .. Len(ds[qend[j]]) : ds[qend[j]][i] = Factory(j)
  BY <1>1, <1>5, <1>7 DEF CallsMatch
<1>9. \A u \in Threads : \A i \in 1 .. Len(cs[u]) : cs[u][i] # Factory(k) /\ cs[u][i] # Wait(k)
  BY ConstantsAssumption DEF CallsMatch
<1>10. \A u \in Threads : \A i \in 1 .. Len(ds[u]), j \in Keys :
         ds[u][i] = Factory(j) =>
            \/ u = t /\ i = n /\ j = k
            \/ j # k /\ cs[u][i] = Factory(j)
  BY <1>1, <1>2, <1>4, <1>9
<1>11. \A u \in Threads : \A i \in 1 .. Len(ds[u]), j \in Keys :
         ds[u][i] = Wait(j) => j # k /\ cs[u][i] = Wait(j)
  BY <1>1, <1>2, <1>4, <1>9
<1> HIDE DEF n
<1>12. \A u \in Threads : \A i \in 1 .. Len(ds[u]), j \in Keys :
         ds[u][i] = Factory(j) => qend[j] = u
  BY <1>4, <1>7, <1>10 DEF CallsMatch
<1>13. \A u \in Threads : \A i, h \in 1 .. Len(ds[u]), j \in Keys :
         ds[u][i] = Factory(j) /\ ds[u][h] = Factory(j) => i = h
  BY <1>4, <1>10 DEF CallsMatch
<1>14. \A u \in Threads : \A i \in 1 .. Len(ds[u]), j \in Keys :
         ds[u][i] = Wait(j) => qend[j] \notin {NoThread, u}
  BY <1>4, <1>7, <1>11 DEF CallsMatch
<1>15. \A j \in Keys : qend[j] # NoThread => tab[j] = NoSession
  BY <1>7 DEF CallsMatch
<1> QED  BY <1>6, <1>8, <1>12, <1>13, <1>14, <1>15 DEF CallsMatch

\* A creation ends: the creator returns, those who waited for it look again.
LEMMA EndKeepsMatch ==
    ASSUME NEW cs \in [Threads -> Seq(Call)], NEW pend \in [Keys -> Threads \cup {NoThread}],
           NEW tab, CallsMatch(cs, pend, tab),
           NEW t \in Threads, cs[t] # << >>, NEW k \in Keys,
           cs[t][Len(cs[t])] = Factory(k),
           NEW ds,
           ds[t] = Woken(Without(cs[t]), k),
           \A u \in Threads \ {t} : ds[u] = Woken(cs[u], k),
           NEW qend, qend = [pend EXCEPT ![k] = NoThread]
    PROVE  CallsMatch(ds, qend, tab)
<1> DEFINE n == Len(cs[t])
           m(u) == IF u = t THEN n - 1 ELSE Len(cs[u])
<1>1. /\ n \in Nat \ {0} /\ n \in 1 .. n
      /\ Without(cs[t]) \in Seq(Call) /\ Len(Without(cs[t])) = n - 1
      /\ \A i \in 1 .. n - 1 : Without(cs[t])[i] = cs[t][i]
  <2>1. cs[t] \in Seq(Call)
    OBVIOUS
  <2>2. n \in Nat \ {0}
    BY <2>1, LenProperties, EmptySeq
  <2> QED  BY <2>1, <2>2, WithoutType
<1>2. ASSUME NEW u \in Threads
      PROVE  /\ Len(ds[u]) = m(u) /\ m(u) \in Nat
             /\ \A i \in 1 .. m(u) : i \in 1 .. Len(cs[u])
             /\ \A i \in 1 .. m(u) :
                   ds[u][i] = IF cs[u][i] = Wait(k) THEN [key |-> k, phase |-> "check"]
                              ELSE cs[u][i]
  <2> DEFINE base == IF u = t THEN Without(cs[t]) ELSE cs[u]
  <2>1. /\ base \in Seq(Call) /\ Len(base) = m(u)
        /\ \A i \in 1 .. m(u) : base[i] = cs[u][i] /\ i \in 1 .. Len(cs[u])
    BY <1>1, LenProperties
  <2>2. ds[u] = Woken(base, k)
    OBVIOUS
  <2> HIDE DEF base, m
  <2>3. DOMAIN base = 1 .. m(u) /\ m(u) \in Nat
    BY <2>1, LenProperties
  <2>4. Len(Woken(base, k)) = m(u)
    BY <2>1, WokenType
  <2>5. \A i \in 1 .. m(u) :
          Woken(base, k)[i] = IF base[i] = Wait(k) THEN [key |-> k, phase |-> "check"]
                              ELSE base[i]
    BY <2>3 DEF Woken, Wait
  <2> QED  BY <2>1, <2>2, <2>3, <2>4, <2>5
<1>3. \A j \in Keys : [key |-> k, phase |-> "check"] # Factory(j)
                     /\ [key |-> k, phase |-> "check"] # Wait(j)
                     /\ (j # k => Factory(j) # Factory(k))
                     /\ Wait(k) # Factory(j)
  BY DEF Factory, Wait
<1>4. pend[k] = t
  BY <1>1 DEF CallsMatch
<1>5. \A u \in Threads : \A i \in 1 .. Len(cs[u]) :
         cs[u][i] = Factory(k) => u = t /\ i = n
  BY <1>1, <1>4 DEF CallsMatch
<1>6. \A u \in Threads : \A i \in 1 .. m(u), j \in Keys :
         ds[u][i] = Factory(j) => cs[u][i] = Factory(j) /\ j # k
  <2> SUFFICES ASSUME NEW u \in Threads, NEW i \in 1 .. m(u), NEW j \in Keys,
                      ds[u][i] = Factory(j)
               PROVE  cs[u][i] = Factory(j) /\ j # k
    OBVIOUS
  <2>1. cs[u][i] = Factory(j) /\ i \in 1 .. Len(cs[u])
    BY <1>2, <1>3
  <2>2. ~(u = t /\ i = n)
    BY <1>1
  <2> QED  BY <1>5, <2>1, <2>2
<1>7. \A u \in Threads : \A i \in 1 .. m(u), j \in Keys :
         ds[u][i] = Wait(j) => cs[u][i] = Wait(j) /\ j # k
  BY <1>2, <1>3
<1>8. \A u \in Threads : \A i \in 1 .. Len(cs[u]), j \in Keys :
         j # k /\ cs[u][i] = Factory(j) => i \in 1 .. m(u) /\ ds[u][i] = Factory(j)
  BY <1>1, <1>2, <1>3
<1>9. \A u \in Threads : \A i \in 1 .. m(u) : i < m(u) => ds[u][i].phase = "factory"
  <2> SUFFICES ASSUME NEW u \in Threads, NEW i \in 1 .. m(u), i < m(u)
               PROVE  ds[u][i].phase = "factory"
    OBVIOUS
  <2>1. cs[u][i].phase = "factory"
    BY <1>1, <1>2 DEF CallsMatch
  <2>2. cs[u][i] # Wait(k)
    BY <2>1 DEF Wait
  <2> QED  BY <1>2, <2>1, <2>2
<1>10. /\ qend[k] = NoThread
       /\ \A j \in Keys : j # k => qend[j] = pend[j]
  OBVIOUS
<1> HIDE DEF m, n
<1>11. \A j \in Keys : qend[j] # NoThread =>
         \E i \in 1 .. Len(ds[qend[j]]) : ds[qend[j]][i] = Factory(j)
  <2> SUFFICES ASSUME NEW j \in Keys, qend[j] # NoThread
               PROVE  \E i \in 1 .. Len(ds[qend[j]]) : ds[qend[j]][i] = Factory(j)
    OBVIOUS
  <2>1. j # k /\ qend[j] = pend[j] /\ pend[j] \in Threads
    BY <1>10
  <2>2. PICK i \in 1 .. Len(cs[pend[j]]) : cs[pend[j]][i] = Factory(j)
    BY <2>1 DEF CallsMatch
  <2>3. i \in 1 .. m(pend[j]) /\ ds[pend[j]][i] = Factory(j)
    BY <1>8, <2>1, <2>2
  <2> QED  BY <1>2, <2>1, <2>3
<1>12. \A u \in Threads : Len(ds[u]) = m(u)
  BY <1>2
<1>13. \A u \in Threads : \A i \in 1 .. m(u) : i \in 1 .. Len(cs[u])
  BY <1>2
<1>14. \A u \in Threads : \A i \in 1 .. Len(ds[u]), j \in Keys :
          ds[u][i] = Factory(j) => qend[j] = u
  <2> SUFFICES ASSUME NEW u \in Threads, NEW i \in 1 .. m(u), NEW j \in Keys,
                      ds[u][i] = Factory(j)
               PROVE  qend[j] = u
    BY <1>12
  <2>1. cs[u][i] = Factory(j) /\ j # k /\ i \in 1 .. Len(cs[u])
    BY <1>6, <1>13
  <2> QED  BY <1>10, <2>1 DEF CallsMatch
<1>15. \A u \in Threads : \A i, l \in 1 .. Len(ds[u]), j \in Keys :
          ds[u][i] = Factory(j) /\ ds[u][l] = Factory(j) => i = l
  <2> SUFFICES ASSUME NEW u \in Threads, NEW i \in 1 .. m(u), NEW l \in 1 .. m(u),
                      NEW j \in Keys, ds[u][i] = Factory(j), ds[u][l] = Factory(j)
               PROVE  i = l
    BY <1>12
  <2>1. cs[u][i] = Factory(j) /\ cs[u][l] = Factory(j)
    BY <1>6
  <2> QED  BY <1>13, <2>1 DEF CallsMatch
<1>16. \A u \in Threads : \A i \in 1 .. Len(ds[u]) :
          i < Len(ds[u]) => ds[u][i].phase = "factory"
  BY <1>9, <1>12
<1>17. \A j \in Keys : qend[j] # NoThread => tab[j] = NoSession
  BY <1>10 DEF CallsMatch
<1>18. \A u \in Threads : \A i \in 1 .. Len(ds[u]), j \in Keys :
          ds[u][i] = Wait(j) => qend[j] \notin {NoThread, u}
  <2> SUFFICES ASSUME NEW u \in Threads, NEW i \in 1 .. m(u), NEW j \in Keys,
                      ds[u][i] = Wait(j)
               PROVE  qend[j] \notin {NoThread, u}
    BY <1>12
  <2>1. cs[u][i] = Wait(j) /\ j # k /\ i \in 1 .. Len(cs[u])
    BY <1>7, <1>13
  <2> QED  BY <1>10, <2>1 DEF CallsMatch
<1> QED  BY <1>11, <1>14, <1>15, <1>16, <1>17, <1>18 DEF CallsMatch

\* Only the keys being created must have no session.
LEMMA FewerSessionsKeepMatch ==
    ASSUME NEW cs, NEW pend, NEW tab, CallsMatch(cs, pend, tab),
           NEW tab2,
           \A j \in Keys : pend[j] # NoThread /\ tab[j] = NoSession => tab2[j] = NoSession
    PROVE  CallsMatch(cs, pend, tab2)
BY DEF CallsMatch

LEMMA CallInvInductive == TypeOK /\ CallInv /\ [Next]_vars => CallInv'
<1> SUFFICES ASSUME TypeOK, CallInv, [Next]_vars  PROVE CallInv'
  OBVIOUS
<1> USE DEF CallInv
<1>0. /\ calls \in [Threads -> Seq(Call)]
      /\ pending \in [Keys -> Threads \cup {NoThread}]
      /\ sessions \in [Keys -> Session \cup {NoSession}]
      /\ \A k \in Keys : sessions[k] = NoSession => Collected(sessions)[k] = NoSession
  BY DEF TypeOK, Collected
<1>1. ASSUME NEW t \in Threads, NEW k \in Keys, CallAcquire(t, k)
      PROVE  CallInv'
  <2>1. Len(calls[t]) > 0 => calls[t][Len(calls[t])].phase = "factory"
    BY <1>0, <1>1, LenProperties DEF CallAcquire, InUserCode, InCall, Depth, Top
  <2> QED  BY <1>0, <1>1, <2>1, PushKeepsMatch DEF CallAcquire
\* Every return of acquire from "check".
<1>2. ASSUME NEW t \in Threads, InCall(t, "check"), UNCHANGED pending,
             calls' = [calls EXCEPT ![t] = Without(@)],
             \A k \in Keys : sessions[k] = NoSession => sessions'[k] = NoSession
      PROVE  CallInv'
  <2>1. calls[t] # << >> /\ calls[t][Len(calls[t])].phase # "factory"
    <3>1. calls[t] # << >> /\ calls[t][Len(calls[t])] = Top(t)
      BY <1>2, TopType DEF Top, Depth
    <3>2. Top(t).phase = "check"
      BY <1>2 DEF InCall
    <3> QED  BY <3>1, <3>2
  <2>2. CallsMatch(calls', pending, sessions)
    BY <1>0, <1>2, <2>1, PopKeepsMatch
  <2> QED  BY <1>2, <2>2, FewerSessionsKeepMatch
<1>3. ASSUME NEW t \in Threads, AcquireExisting(t)
      PROVE  CallInv'
  <2>1. \A k \in Keys : sessions[k] = NoSession => sessions'[k] = NoSession
    BY <1>0, <1>3 DEF AcquireExisting, Collected
  <2> QED  BY <1>2, <1>3, <2>1 DEF AcquireExisting
<1>4. ASSUME NEW t \in Threads, AcquireCreate(t)
      PROVE  CallInv'
  <2> DEFINE k == Top(t).key
  <2>1. k \in Keys /\ calls[t] # << >> /\ calls[t][Len(calls[t])] = [key |-> k, phase |-> "check"]
    BY <1>4, TopType DEF AcquireCreate, Top, Depth
  <2>2. CallsMatch(calls, pending, sessions')
    BY <1>0, <1>4, FewerSessionsKeepMatch DEF AcquireCreate
  <2>3. /\ pending[k] = NoThread /\ sessions'[k] = NoSession
        /\ pending' = [pending EXCEPT ![k] = t]
        /\ calls' = [calls EXCEPT ![t] = Entering(@, "factory")]
    BY <1>4 DEF AcquireCreate
  <2> HIDE DEF k
  <2> QED  BY <1>0, <2>1, <2>2, <2>3, CreateKeepsMatch
<1>5. ASSUME NEW t \in Threads, AcquireRefused(t)
      PROVE  CallInv'
  BY <1>0, <1>2, <1>5 DEF AcquireRefused
<1>6. ASSUME NEW t \in Threads, AcquireReentrant(t)
      PROVE  CallInv'
  BY <1>0, <1>2, <1>6 DEF AcquireReentrant
<1>7. ASSUME NEW t \in Threads, AcquireWait(t)
      PROVE  CallInv'
  <2> DEFINE k == Top(t).key
  <2>1. k \in Keys /\ calls[t] # << >> /\ calls[t][Len(calls[t])] = [key |-> k, phase |-> "check"]
    BY <1>7, TopType DEF AcquireWait, Top, Depth
  <2>2. CallsMatch(calls, pending, sessions')
    BY <1>0, <1>7, FewerSessionsKeepMatch DEF AcquireWait
  <2>3. /\ pending[k] \notin {NoThread, t} /\ UNCHANGED pending
        /\ calls' = [calls EXCEPT ![t] = Entering(@, "wait")]
    BY <1>7 DEF AcquireWait
  <2> HIDE DEF k
  <2> QED  BY <1>0, <2>1, <2>2, <2>3, WaitKeepsMatch
\* Every end of a creation.
<1>8. ASSUME NEW t \in Threads, InCall(t, "factory"), EndCreation(t, Top(t).key),
             \A j \in Keys : j # Top(t).key /\ sessions[j] = NoSession => sessions'[j] = NoSession
      PROVE  CallInv'
  <2> DEFINE k == Top(t).key
  <2>1. k \in Keys /\ calls[t] # << >> /\ calls[t][Len(calls[t])] = Factory(k)
    BY <1>8, TopType DEF Top, Depth, Factory
  <2>2. /\ pending' = [pending EXCEPT ![k] = NoThread]
        /\ calls'[t] = Woken(Without(calls[t]), k)
        /\ \A u \in Threads \ {t} : calls'[u] = Woken(calls[u], k)
    BY <1>8 DEF EndCreation
  <2>3. \A j \in Keys : j # k /\ sessions[j] = NoSession => sessions'[j] = NoSession
    BY <1>8
  <2> HIDE DEF k
  <2>4. CallsMatch(calls, pending, sessions)
    OBVIOUS
  <2>5. CallsMatch(calls', pending', sessions)
    BY <1>0, <2>1, <2>2, <2>4, EndKeepsMatch
  <2>6. \A j \in Keys : pending'[j] # NoThread => j # k
    BY <1>0, <2>2
  <2> QED  BY <2>3, <2>5, <2>6, FewerSessionsKeepMatch
<1>9. ASSUME NEW t \in Threads, FactoryFails(t)
      PROVE  CallInv'
  BY <1>8, <1>9 DEF FactoryFails
<1>10. ASSUME NEW t \in Threads, FactoryInstalls(t)
       PROVE  CallInv'
  <2>1. \A j \in Keys : j # Top(t).key /\ sessions[j] = NoSession => sessions'[j] = NoSession
    <3>1. Collected(sessions) \in [Keys -> Session \cup {NoSession}]
      BY <1>0, CollectedType
    <3> QED  BY <1>0, <1>10, <3>1, SlotEnsuredType DEF FactoryInstalls
  <2>2. InCall(t, "factory") /\ EndCreation(t, Top(t).key)
    BY <1>10 DEF FactoryInstalls
  <2> QED  BY <1>8, <2>1, <2>2
<1>11. ASSUME NEW t \in Threads, FactoryFindsNoSlot(t)
       PROVE  CallInv'
  BY <1>0, <1>8, <1>11 DEF FactoryFindsNoSlot
\* Everything else leaves the calls alone and adds no session.
<1>12. ASSUME UNCHANGED <<pending, calls>>, ~\E t \in Threads : FactoryInstalls(t)
       PROVE  CallInv'
  BY <1>12, OnlyInstallAdds, FewerSessionsKeepMatch
<1>13. CASE UNCHANGED <<pending, calls>>
  BY <1>10, <1>12, <1>13
<1>14. CASE ~UNCHANGED <<pending, calls>>
  BY <1>1, <1>3, <1>4, <1>5, <1>6, <1>7, <1>9, <1>10, <1>11, <1>14
     DEF Next, vars, AcquireStep, FactoryEnds, Touch, Release, CloseIdle, ForceClose,
         CollectExpired, Tick
<1> QED  BY <1>13, <1>14

LEMMA CallInvAlways == Spec => []CallInv
<1>1. Init => CallInv
  BY DEF Init, CallInv, CallsMatch
<1> QED  BY <1>1, CallInvInductive, TypeCorrect, PTL DEF Spec

\* No two factories run for one key, none runs over an existing session, and
\* no creation record outlives its creator.
LEMMA SingleFlightHolds == Spec => []SingleFlight
<1>1. TypeOK /\ CallInv => SingleFlight
  <2> SUFFICES ASSUME TypeOK, CallInv  PROVE SingleFlight
    OBVIOUS
  <2>1. ASSUME NEW k \in Keys, NEW t \in Threads, NEW u \in Threads,
               NEW i \in 1 .. Depth(t), NEW j \in 1 .. Depth(u),
               RunsFactory(t, i, k), RunsFactory(u, j, k)
        PROVE  t = u /\ i = j
    <3> USE DEF CallInv, CallsMatch, Depth, RunsFactory, Factory
    <3>1. pending[k] = t /\ pending[k] = u
      BY <2>1
    <3> QED  BY <2>1, <3>1
  <2>2. ASSUME NEW k \in Keys, pending[k] # NoThread
        PROVE  /\ sessions[k] = NoSession
               /\ \E i \in 1 .. Depth(pending[k]) : RunsFactory(pending[k], i, k)
    BY <2>2 DEF CallInv, CallsMatch, Depth, RunsFactory, Factory
  <2> QED  BY <2>1, <2>2, Zenon DEF SingleFlight
<1> QED  BY <1>1, TypeCorrect, CallInvAlways, PTL

\* Whoever waits, waits for a creation that is still running elsewhere.
LEMMA NoLostWakeup == Spec => []WaitersHaveCreator
<1>1. TypeOK /\ CallInv => WaitersHaveCreator
  <2> SUFFICES ASSUME TypeOK, CallInv, NEW t \in Threads, InCall(t, "wait")
               PROVE  pending[Top(t).key] \notin {NoThread, t}
    BY DEF WaitersHaveCreator
  <2>1. /\ Depth(t) \in 1 .. Len(calls[t])
        /\ Top(t).key \in Keys /\ calls[t][Depth(t)] = Wait(Top(t).key)
    BY TopType DEF Wait, Top
  <2> QED  BY <2>1 DEF CallInv, CallsMatch
<1> QED  BY <1>1, TypeCorrect, CallInvAlways, PTL

\* One factory per key at a time, none over a session, no record without its
\* creator, and nobody waits for a creation that is over.
THEOREM CreationsHold == Spec => []CreationsAreSound
BY SingleFlightHolds, NoLostWakeup, PTL DEF CreationsAreSound

-----------------------------------------------------------------------------
(* Reference counts against leases: every session somebody holds stays     *)
(* until it is closed by force, the counts cover the holders, and balanced *)
(* releases settle a key.  One invariant of the records of a single key    *)
(* (Account) carries all three; the lemmas say how each way of granting,   *)
(* returning or dropping keeps it.                                         *)

OfToken(L, token) == {l \in L : l.token = token}

\* What the records of one key - its session s, its ambiguous counts c and
\* its unattributed releases - say about L, the key's unreturned leases; fz
\* holds the tokens of the sessions closed by force.
Account(s, c, legacy, L, fz) ==
    /\ IsFiniteSet(L) /\ L \subseteq Lease /\ legacy \in Nat /\ IsCounts(c)
    /\ \A l \in L : l.token \notin fz => s # NoSession /\ s.token = l.token
    /\ c = NoCounts =>
          /\ legacy = 0
          /\ s = NoSession => L = {}
          /\ s # NoSession => /\ \A l \in L : l.token = s.token
                              /\ s.refCount = Cardinality(L)
    /\ c # NoCounts =>
          /\ L # {}
          /\ SumOf(c) - legacy = Cardinality(L)
          /\ \A token \in Token : CountOf(c, token) >= Cardinality(OfToken(L, token))
          /\ s # NoSession => s.refCount = ReferenceBound(c, legacy, s.token)

LEMMA OfTokenFinite ==
    ASSUME NEW L, IsFiniteSet(L), NEW token
    PROVE  /\ IsFiniteSet(OfToken(L, token))
           /\ Cardinality(OfToken(L, token)) \in Nat
           /\ Cardinality(L) \in Nat
           /\ Cardinality(OfToken(L, token)) <= Cardinality(L)
           /\ Cardinality(OfToken(L, token)) = 0 <=> OfToken(L, token) = {}
           /\ Cardinality(L) = 0 <=> L = {}
<1>1. OfToken(L, token) \subseteq L
  BY DEF OfToken
<1>2. IsFiniteSet(OfToken(L, token))
  BY <1>1, FS_Subset
<1> QED  BY <1>1, <1>2, FS_Subset, FS_CardinalityType, FS_EmptySet

\* One lease more, one lease less.
LEMMA OfTokenAdd ==
    ASSUME NEW L, IsFiniteSet(L), NEW l, l \notin L, NEW token
    PROVE  /\ IsFiniteSet(L \cup {l})
           /\ Cardinality(L \cup {l}) = Cardinality(L) + 1
           /\ Cardinality(OfToken(L \cup {l}, token)) =
                 Cardinality(OfToken(L, token)) + (IF l.token = token THEN 1 ELSE 0)
<1>1. IsFiniteSet(L \cup {l}) /\ Cardinality(L \cup {l}) = Cardinality(L) + 1
  BY FS_AddElement
<1>2. CASE l.token = token
  <2>1. OfToken(L \cup {l}, token) = OfToken(L, token) \cup {l} /\ l \notin OfToken(L, token)
    BY <1>2 DEF OfToken
  <2>2. IsFiniteSet(OfToken(L, token))
    BY OfTokenFinite
  <2>3. Cardinality(OfToken(L \cup {l}, token)) = Cardinality(OfToken(L, token)) + 1
    BY <2>1, <2>2, FS_AddElement
  <2> QED  BY <1>1, <1>2, <2>3
<1>3. CASE l.token # token
  <2>1. OfToken(L \cup {l}, token) = OfToken(L, token)
    BY <1>3 DEF OfToken
  <2>2. Cardinality(OfToken(L \cup {l}, token)) = Cardinality(OfToken(L, token))
    BY <2>1, Zenon
  <2>3. Cardinality(OfToken(L, token)) \in Nat
    BY OfTokenFinite
  <2> QED  BY <1>1, <1>3, <2>2, <2>3
<1> QED  BY <1>2, <1>3

LEMMA OfTokenDrop ==
    ASSUME NEW L, IsFiniteSet(L), NEW l \in L, NEW token
    PROVE  /\ IsFiniteSet(L \ {l})
           /\ Cardinality(L \ {l}) = Cardinality(L) - 1
           /\ Cardinality(OfToken(L \ {l}, token)) =
                 Cardinality(OfToken(L, token)) - (IF l.token = token THEN 1 ELSE 0)
<1> DEFINE M == L \ {l}
<1>1. IsFiniteSet(M) /\ l \notin M /\ M \cup {l} = L
  BY FS_RemoveElement
<1> HIDE DEF M
<1>2. Cardinality(M) \in Nat /\ Cardinality(OfToken(M, token)) \in Nat
  BY <1>1, OfTokenFinite
<1>3. /\ Cardinality(L) = Cardinality(M) + 1
      /\ Cardinality(OfToken(L, token)) =
            Cardinality(OfToken(M, token)) + (IF l.token = token THEN 1 ELSE 0)
  BY <1>1, OfTokenAdd
<1>4. /\ IsFiniteSet(M) /\ Cardinality(M) = Cardinality(L) - 1
      /\ Cardinality(OfToken(M, token)) =
            Cardinality(OfToken(L, token)) - (IF l.token = token THEN 1 ELSE 0)
  BY <1>1, <1>2, <1>3
<1> QED  BY <1>4 DEF M

LEMMA CountOfWithCount ==
    ASSUME NEW c, IsCounts(c), NEW token \in Token, NEW n \in Nat, NEW other
    PROVE  CountOf(WithCount(c, token, n), other) =
              IF other = token THEN n ELSE CountOf(c, other)
BY DEF CountOf, WithCount

LEMMA SomeCounts ==
    ASSUME NEW c, IsCounts(c), SumOf(c) > 0
    PROVE  c # NoCounts
<1>1. Tickets(NoCounts) = {}
  BY DEF Tickets, NoCounts
<1> QED  BY <1>1, FS_EmptySet DEF SumOf

\* Nobody holds a lease of a session whose reference count is zero.
LEMMA IdleIsUnheld ==
    ASSUME NEW s \in Session, NEW c, NEW legacy, NEW L, NEW fz,
           Account(s, c, legacy, L, fz), s # NoSession, s.refCount = 0
    PROVE  /\ OfToken(L, s.token) = {}
           /\ c = NoCounts => L = {}
<1>1. CASE c = NoCounts
  BY <1>1, OfTokenFinite DEF Account, OfToken
<1>2. CASE c # NoCounts
  <2>1. /\ CountOf(c, s.token) \in Nat
        /\ CountOf(c, s.token) >= Cardinality(OfToken(L, s.token))
        /\ SumOf(c) - legacy = Cardinality(L)
        /\ ReferenceBound(c, legacy, s.token) = 0
    BY <1>2, CountOfType DEF Account, Session
  <2>2. CountOf(c, s.token) = 0 \/ Cardinality(L) = 0
    BY <2>1, OfTokenFinite DEF ReferenceBound, Smaller, AtLeastZero, Account
  <2>3. Cardinality(OfToken(L, s.token)) = 0
    BY <2>1, <2>2, OfTokenFinite DEF Account
  <2> QED  BY <1>2, <2>3, OfTokenFinite DEF Account
<1> QED  BY <1>1, <1>2

\* So it may leave the table.
LEMMA DropIdleKeepsAccount ==
    ASSUME NEW s \in Session, NEW c, NEW legacy, NEW L, NEW fz,
           Account(s, c, legacy, L, fz), s # NoSession, s.refCount = 0
    PROVE  Account(NoSession, c, legacy, L, fz)
<1>1. \A l \in L : l.token # s.token
  BY IdleIsUnheld DEF OfToken
<1> QED  BY <1>1, IdleIsUnheld DEF Account

\* The clocks of a session do not matter.
LEMMA SameCountKeepsAccount ==
    ASSUME NEW s, NEW c, NEW legacy, NEW L, NEW fz,
           Account(s, c, legacy, L, fz), s # NoSession,
           NEW s2, s2 # NoSession, s2.token = s.token, s2.refCount = s.refCount
    PROVE  Account(s2, c, legacy, L, fz)
BY DEF Account

\* A longer history of forced closes claims less.
LEMMA MoreForcedKeepsAccount ==
    ASSUME NEW s, NEW c, NEW legacy, NEW L, NEW fz, NEW fz2, fz \subseteq fz2,
           Account(s, c, legacy, L, fz)
    PROVE  Account(s, c, legacy, L, fz2)
BY DEF Account

-----------------------------------------------------------------------------
(* Granting.                                                               *)

\* One more reference to the only session a key ever had.
LEMMA SharePlain ==
    ASSUME NEW s \in Session, NEW legacy, NEW L, NEW fz,
           Account(s, NoCounts, legacy, L, fz), s # NoSession,
           NEW l \in Lease, l \notin L, l.token = s.token,
           NEW s2 \in Session, s2 # NoSession, s2.token = s.token,
           s2.refCount = s.refCount + 1
    PROVE  Account(s2, NoCounts, legacy, L \cup {l}, fz)
<1>1. IsFiniteSet(L \cup {l}) /\ Cardinality(L \cup {l}) = Cardinality(L) + 1
  BY FS_AddElement DEF Account
<1> QED  BY <1>1 DEF Account

\* A new session of a key whose leases are all returned.
LEMMA InstallPlain ==
    ASSUME NEW legacy, NEW L, NEW fz,
           Account(NoSession, NoCounts, legacy, L, fz),
           NEW l \in Lease,
           NEW s2 \in Session, s2 # NoSession, s2.token = l.token, s2.refCount = 1
    PROVE  Account(s2, NoCounts, legacy, L \cup {l}, fz)
<1>1. L = {} /\ L \cup {l} = {l}
  BY DEF Account
<1>2. IsFiniteSet({l}) /\ Cardinality({l}) = 1
  BY FS_Singleton
<1> QED  BY <1>1, <1>2 DEF Account

\* A reference, to an old or a new session, while the key is ambiguous.
LEMMA GrantAmbiguous ==
    ASSUME NEW s, NEW c, NEW legacy, NEW L, NEW fz,
           Account(s, c, legacy, L, fz), c # NoCounts,
           NEW l \in Lease, l \notin L, l.token \in Token,
           s # NoSession => s.token = l.token,
           NEW s2 \in Session, s2 # NoSession, s2.token = l.token,
           NEW c2, c2 = WithCount(c, l.token, CountOf(c, l.token) + 1),
           s2.refCount = ReferenceBound(c2, legacy, l.token)
    PROVE  Account(s2, c2, legacy, L \cup {l}, fz)
<1>1. IsFiniteSet(L) /\ IsCounts(c) /\ legacy \in Nat
  BY DEF Account
<1>2. CountOf(c, l.token) \in Nat /\ SumOf(c) \in Nat
  BY <1>1, CountOfType, TicketsFinite
<1>3. IsCounts(c2) /\ SumOf(c2) = SumOf(c) + 1
  BY <1>1, <1>2, CountsType, TicketsGrow
<1>4. c2 # NoCounts
  BY <1>2, <1>3, SomeCounts
<1>5. /\ IsFiniteSet(L \cup {l}) /\ Cardinality(L \cup {l}) = Cardinality(L) + 1
      /\ L \cup {l} # {} /\ L \cup {l} \subseteq Lease
  BY <1>1, FS_AddElement DEF Account
<1>6. SumOf(c2) - legacy = Cardinality(L \cup {l})
  <2>1. Cardinality(L) \in Nat /\ SumOf(c) - legacy = Cardinality(L)
    BY <1>1, OfTokenFinite DEF Account
  <2> QED  BY <1>1, <1>2, <1>3, <1>5, <2>1
<1>7. ASSUME NEW token \in Token
      PROVE  CountOf(c2, token) >= Cardinality(OfToken(L \cup {l}, token))
  <2>1. CountOf(c, token) >= Cardinality(OfToken(L, token))
    BY DEF Account
  <2>2. Cardinality(OfToken(L, token)) \in Nat /\ CountOf(c, token) \in Nat
    BY <1>1, OfTokenFinite, CountOfType
  <2>3. Cardinality(OfToken(L \cup {l}, token)) =
          Cardinality(OfToken(L, token)) + (IF l.token = token THEN 1 ELSE 0)
    BY <1>1, OfTokenAdd
  <2>4. CountOf(c2, token) =
          IF token = l.token THEN CountOf(c, l.token) + 1 ELSE CountOf(c, token)
    BY <1>1, <1>2, CountOfWithCount
  <2> QED  BY <2>1, <2>2, <2>3, <2>4
<1>8. \A m \in L \cup {l} : m.token \notin fz => s2.token = m.token
  BY DEF Account
<1> QED  BY <1>1, <1>3, <1>4, <1>5, <1>6, <1>7, <1>8 DEF Account

-----------------------------------------------------------------------------
(* Returning.                                                              *)

LEMMA SettledShape ==
    ASSUME clock \in Nat, NEW s \in Session, s # NoSession, NEW n \in Nat
    PROVE  /\ Settled(s, n) \in Session \cup {NoSession}
           /\ Settled(s, n) # NoSession =>
                 Settled(s, n).token = s.token /\ Settled(s, n).refCount = n
           /\ Settled(s, n) = NoSession => n = 0
<1> USE DEF Session
<1>0. \A u \in Session : u # NoSession
  BY ConstantsAssumption DEF Token
<1>1. CASE n > 0
  BY <1>0, <1>1 DEF Settled
<1>2. CASE n = 0 /\ IdleTtl = 0
  BY <1>2 DEF Settled
<1>3. CASE n = 0 /\ IdleTtl # 0
  BY <1>0, <1>3 DEF Settled
<1> QED  BY <1>1, <1>2, <1>3

LEMMA ReturnPlain ==
    ASSUME clock \in Nat,
           NEW s \in Session, NEW legacy, NEW L, NEW fz,
           Account(s, NoCounts, legacy, L, fz), s # NoSession, NEW l \in L
    PROVE  /\ Account(Settled(s, s.refCount - 1), NoCounts, legacy, L \ {l}, fz)
           /\ Settled(s, s.refCount - 1) = NoSession => L \ {l} = {}
<1> DEFINE n == s.refCount - 1
           M == L \ {l}
<1>1. IsFiniteSet(M) /\ Cardinality(M) = Cardinality(L) - 1 /\ Cardinality(M) \in Nat
  BY FS_RemoveElement, FS_CardinalityType DEF Account
<1>2. n = Cardinality(M) /\ n \in Nat
  BY <1>1, FS_CardinalityType DEF Account
<1>3. n = 0 => M = {}
  BY <1>1, <1>2, FS_EmptySet
<1>4. M \subseteq L
  OBVIOUS
<1> HIDE DEF n, M
<1>5. /\ Settled(s, n) # NoSession =>
            Settled(s, n).token = s.token /\ Settled(s, n).refCount = n
      /\ Settled(s, n) = NoSession => n = 0
  BY <1>2, SettledShape
<1>6. Account(Settled(s, n), NoCounts, legacy, M, fz)
  BY <1>1, <1>2, <1>3, <1>4, <1>5 DEF Account
<1>7. Settled(s, n) = NoSession => M = {}
  BY <1>3, <1>5
<1> QED  BY <1>6, <1>7 DEF n, M

\* An exact or a key-only return of an ambiguous key: c2 and legacy2 are the
\* counts and the unattributed releases after it.
LEMMA ReturnAmbiguous ==
    ASSUME clock \in Nat,
           NEW s \in Session \cup {NoSession}, NEW c, NEW legacy, NEW L, NEW fz,
           Account(s, c, legacy, L, fz), c # NoCounts,
           NEW M, M \subseteq L, IsFiniteSet(M),
           NEW c2, IsCounts(c2), NEW legacy2 \in Nat,
           SumOf(c2) - legacy2 = Cardinality(M),
           \A token \in Token : CountOf(c2, token) >= Cardinality(OfToken(M, token)),
           NEW s2, s2 = IF s = NoSession THEN NoSession
                        ELSE Settled(s, ReferenceBound(c2, legacy2, s.token))
    PROVE  /\ Account(s2,
                      IF SumOf(c2) - legacy2 <= 0 THEN NoCounts ELSE c2,
                      IF SumOf(c2) - legacy2 <= 0 THEN 0 ELSE legacy2, M, fz)
           /\ s # NoSession /\ s2 = NoSession => \A l \in M : l.token # s.token
<1> DEFINE n == ReferenceBound(c2, legacy2, s.token)
<1>1. n \in Nat
  BY ReferenceBoundType
<1>2. SumOf(c2) \in Nat /\ Cardinality(M) \in Nat
  BY TicketsFinite, FS_CardinalityType
<1>3. s # NoSession =>
        /\ s2 # NoSession => s2.token = s.token /\ s2.refCount = n
        /\ s2 = NoSession => n = 0
  BY <1>1, SettledShape
<1>4. CASE SumOf(c2) - legacy2 <= 0
  <2>1. M = {}
    BY <1>2, <1>4, FS_EmptySet
  <2>2. n = 0
    <3>1. CountOf(c2, s.token) \in Nat
      BY CountOfType
    <3> QED  BY <1>2, <1>4, <3>1 DEF ReferenceBound, Smaller, AtLeastZero
  <2>3. s2 # NoSession => s2.refCount = Cardinality(M)
    BY <1>3, <2>1, <2>2, FS_EmptySet
  <2>4. Account(s2, NoCounts, 0, M, fz)
    BY <2>1, <2>3, NoCountsIsEmpty DEF Account
  <2> QED  BY <1>4, <2>1, <2>4
<1>5. CASE ~(SumOf(c2) - legacy2 <= 0)
  <2>1. M # {}
    BY <1>2, <1>5, FS_EmptySet
  <2>2. c2 # NoCounts
    BY <1>2, <1>5, SomeCounts
  <2>3. s # NoSession /\ n = 0 => \A l \in M : l.token # s.token
    <3>1. SUFFICES ASSUME s # NoSession, n = 0  PROVE OfToken(M, s.token) = {}
      BY DEF OfToken
    <3>2. s.token \in Token
      BY <3>1 DEF Session
    <3>3. CountOf(c2, s.token) \in Nat /\ Cardinality(OfToken(M, s.token)) \in Nat
      BY CountOfType, OfTokenFinite
    <3>4. CountOf(c2, s.token) = 0
      BY <1>2, <1>5, <3>1, <3>3 DEF ReferenceBound, Smaller, AtLeastZero
    <3>5. CountOf(c2, s.token) >= Cardinality(OfToken(M, s.token))
      BY <3>2
    <3> QED  BY <3>3, <3>4, <3>5, OfTokenFinite
  <2>4. \A l \in M : l.token \notin fz => s # NoSession /\ s.token = l.token
    BY DEF Account
  <2>5. \A l \in M : l.token \notin fz => s2 # NoSession /\ s2.token = l.token
    BY <1>3, <2>3, <2>4
  <2>6. s2 # NoSession => s # NoSession
    OBVIOUS
  <2>7. s2 # NoSession => s2.refCount = ReferenceBound(c2, legacy2, s2.token)
    BY <1>3, <2>6
  <2> HIDE DEF n
  <2>8. Account(s2, c2, legacy2, M, fz)
    BY <2>1, <2>2, <2>5, <2>7 DEF Account
  <2>9. s # NoSession /\ s2 = NoSession => \A l \in M : l.token # s.token
    BY <1>3, <2>3
  <2> QED  BY <1>5, <2>8, <2>9
<1> QED  BY <1>4, <1>5

-----------------------------------------------------------------------------
(* Closing by force.                                                       *)

LEMMA ForcePlain ==
    ASSUME NEW s \in Session, NEW legacy, NEW L, NEW fz,
           Account(s, NoCounts, legacy, L, fz), s # NoSession, s.refCount # 0
    PROVE  Account(NoSession, WithCount(NoCounts, s.token, s.refCount), legacy, L,
                   fz \cup {s.token})
<1> DEFINE c2 == WithCount(NoCounts, s.token, s.refCount)
<1>1. /\ s.token \in Token /\ s.refCount \in Nat \ {0} /\ legacy = 0
      /\ IsFiniteSet(L) /\ s.refCount = Cardinality(L)
      /\ \A l \in L : l.token = s.token
  BY DEF Account, Session
<1>2. IsCounts(c2) /\ SumOf(c2) = s.refCount
  BY <1>1, CountsType, NoCountsIsEmpty, TicketsStart
<1>3. c2 # NoCounts
  BY <1>1, <1>2, SomeCounts
<1>4. L # {}
  BY <1>1, FS_EmptySet
<1>5. ASSUME NEW token \in Token
      PROVE  CountOf(c2, token) >= Cardinality(OfToken(L, token))
  <2>1. CountOf(c2, token) = IF token = s.token THEN s.refCount ELSE CountOf(NoCounts, token)
    BY <1>1, NoCountsIsEmpty, CountOfWithCount
  <2>2. CountOf(NoCounts, token) \in Nat /\ Cardinality(OfToken(L, token)) \in Nat
    BY <1>1, NoCountsIsEmpty, CountOfType, OfTokenFinite
  <2>3. CASE token = s.token
    BY <1>1, <2>1, <2>2, <2>3, OfTokenFinite
  <2>4. CASE token # s.token
    <3>1. OfToken(L, token) = {}
      BY <1>1, <2>4 DEF OfToken
    <3>2. Cardinality(OfToken(L, token)) = 0
      BY <3>1, FS_EmptySet
    <3> QED  BY <2>1, <2>2, <2>4, <3>2
  <2> QED  BY <2>3, <2>4
<1> HIDE DEF c2
<1>6. Account(NoSession, c2, legacy, L, fz \cup {s.token})
  BY <1>1, <1>2, <1>3, <1>4, <1>5 DEF Account
<1> QED  BY <1>6 DEF c2

LEMMA ForceAmbiguous ==
    ASSUME NEW s \in Session, NEW c, NEW legacy, NEW L, NEW fz,
           Account(s, c, legacy, L, fz), c # NoCounts, s # NoSession, s.refCount # 0
    PROVE  /\ s.token \in DOMAIN c
           /\ Account(NoSession, c, legacy, L, fz \cup {s.token})
<1>1. /\ s.refCount = ReferenceBound(c, legacy, s.token)
      /\ IsCounts(c) /\ legacy \in Nat
  BY DEF Account
<1>2. CountOf(c, s.token) # 0
  <2>1. SumOf(c) \in Nat /\ s.refCount \in Nat
    BY <1>1, TicketsFinite DEF Session
  <2> QED  BY <1>1, <2>1 DEF ReferenceBound, Smaller, AtLeastZero
<1>3. s.token \in DOMAIN c
  BY <1>2 DEF CountOf
<1>4. Account(NoSession, c, legacy, L, fz \cup {s.token})
  BY DEF Account
<1> QED  BY <1>3, <1>4

-----------------------------------------------------------------------------
(* The invariant of all keys.                                              *)

LeasesIn(L, k) == {l \in L : l.key = k}

\* Every key's records fit its unreturned leases.
Accounts(tab, counts, legacy, L, fz) ==
    \A k \in Keys : Account(tab[k], counts[k], legacy[k], LeasesIn(L, k), fz)

\* No record speaks of a token that does not exist yet.
TokensMinted(tab, counts, L, m) ==
    /\ \A k \in Keys : tab[k] # NoSession => tab[k].token <= m
    /\ \A k \in Keys : \A token \in DOMAIN counts[k] : token <= m
    /\ \A l \in L : l.token <= m

\* Nobody asks for a second lease of a key while holding one.
AsksOnce(cs, L) ==
    \A t \in Threads : \A i \in 1 .. Len(cs[t]) : \A l \in L :
        l.holder = t => l.key # cs[t][i].key

LeaseInv ==
    /\ Accounts(sessions, leaseCounts, legacyReleases, leases, forced)
    /\ TokensMinted(sessions, leaseCounts, leases, minted)
    /\ AsksOnce(calls, leases)

\* Only the records of key k change, other keys may lose an idle session.
LEMMA OneKeyKeepsAccounts ==
    ASSUME TypeOK, LeaseInv, forced \subseteq forced', NEW k \in Keys,
           Account(sessions'[k], leaseCounts'[k], legacyReleases'[k],
                   LeasesIn(leases', k), forced'),
           \A j \in Keys \ {k} :
              /\ sessions'[j] = sessions[j] \/ (sessions'[j] = NoSession /\ sessions[j].refCount = 0)
              /\ leaseCounts'[j] = leaseCounts[j] /\ legacyReleases'[j] = legacyReleases[j]
              /\ LeasesIn(leases', j) = LeasesIn(leases, j)
    PROVE  Accounts(sessions', leaseCounts', legacyReleases', leases', forced')
<1> SUFFICES ASSUME NEW j \in Keys \ {k}
             PROVE  Account(sessions'[j], leaseCounts'[j], legacyReleases'[j],
                            LeasesIn(leases', j), forced')
  BY DEF Accounts
<1>1. Account(sessions[j], leaseCounts[j], legacyReleases[j], LeasesIn(leases, j), forced')
  BY MoreForcedKeepsAccount DEF LeaseInv, Accounts
<1>2. CASE sessions'[j] = sessions[j]
  BY <1>1, <1>2
<1>3. CASE sessions'[j] = NoSession /\ sessions[j] # NoSession /\ sessions[j].refCount = 0
  <2>1. sessions[j] \in Session
    BY <1>3 DEF TypeOK
  <2>2. Account(NoSession, leaseCounts[j], legacyReleases[j], LeasesIn(leases, j), forced')
    BY <1>1, <1>3, <2>1, DropIdleKeepsAccount
  <2> QED  BY <1>3, <2>2
<1> QED  BY <1>2, <1>3

\* No key's records change but for idle sessions that leave.
LEMMA DropsKeepAccounts ==
    ASSUME NEW tab \in [Keys -> Session \cup {NoSession}], NEW counts, NEW legacy,
           NEW L, NEW fz, Accounts(tab, counts, legacy, L, fz),
           NEW tab2,
           \A j \in Keys :
              tab2[j] = tab[j] \/ (tab2[j] = NoSession /\ tab[j].refCount = 0)
    PROVE  Accounts(tab2, counts, legacy, L, fz)
<1> SUFFICES ASSUME NEW j \in Keys
             PROVE  Account(tab2[j], counts[j], legacy[j], LeasesIn(L, j), fz)
  BY DEF Accounts
<1>1. Account(tab[j], counts[j], legacy[j], LeasesIn(L, j), fz)
  BY DEF Accounts
<1>2. CASE tab2[j] = tab[j]
  BY <1>1, <1>2
<1>3. CASE tab2[j] = NoSession /\ tab[j] # NoSession /\ tab[j].refCount = 0
  BY <1>1, <1>3, DropIdleKeepsAccount
<1> QED  BY <1>2, <1>3

LEMMA CollectedDrops ==
    ASSUME NEW tab \in [Keys -> Session \cup {NoSession}], NEW j \in Keys
    PROVE  \/ Collected(tab)[j] = tab[j]
           \/ Collected(tab)[j] = NoSession /\ tab[j].refCount = 0
BY DEF Collected, Expired, IdleKeys, LiveKeys

-----------------------------------------------------------------------------
(* The calls keep asking once.                                             *)

\* Every call of the stacks ds is a call of cs, for the same key.
FewerCalls(ds, cs) ==
    \A t \in Threads : \A i \in 1 .. Len(ds[t]) :
        i \in 1 .. Len(cs[t]) /\ ds[t][i].key = cs[t][i].key

LEMMA PopIsFewer ==
    ASSUME TypeOK, NEW t \in Threads, NEW p, InCall(t, p),
           calls' = [calls EXCEPT ![t] = Without(@)]
    PROVE  /\ FewerCalls(calls', calls)
           /\ Len(calls'[t]) = Len(calls[t]) - 1
<1>1. /\ calls[t] \in Seq(Call) /\ calls[t] # << >> /\ Len(calls[t]) \in Nat
  BY TopType, LenProperties
<1>2. calls \in [Threads -> Seq(Call)]
  BY DEF TypeOK
<1>3. /\ Len(calls'[t]) = Len(calls[t]) - 1
      /\ \A i \in 1 .. Len(calls[t]) - 1 : calls'[t][i] = calls[t][i]
  BY <1>1, <1>2, WithoutType
<1>4. \A u \in Threads : u # t => calls'[u] = calls[u]
  BY <1>2
<1> QED  BY <1>1, <1>3, <1>4 DEF FewerCalls

LEMMA EnteringIsFewer ==
    ASSUME TypeOK, NEW t \in Threads, InCall(t, "check"),
           NEW p \in {"check", "wait", "factory"},
           calls' = [calls EXCEPT ![t] = Entering(@, p)]
    PROVE  FewerCalls(calls', calls)
<1> DEFINE n == Len(calls[t])
<1>1. /\ calls[t] \in Seq(Call) /\ calls[t] # << >> /\ n \in Nat
  BY TopType, LenProperties
<1>2. calls \in [Threads -> Seq(Call)]
  BY DEF TypeOK
<1>3. /\ Len(calls'[t]) = n
      /\ \A i \in 1 .. n - 1 : calls'[t][i] = calls[t][i]
      /\ calls'[t][n].key = calls[t][n].key
  <2>1. calls'[t] = Entering(calls[t], p)
    BY <1>2
  <2>2. /\ Len(Entering(calls[t], p)) = n
        /\ \A i \in 1 .. n - 1 : Entering(calls[t], p)[i] = calls[t][i]
        /\ Entering(calls[t], p)[n] = [key |-> calls[t][n].key, phase |-> p]
    BY <1>1, EnteringType
  <2> QED  BY <2>1, <2>2
<1>4. \A u \in Threads : u # t => calls'[u] = calls[u]
  BY <1>2
<1>5. \A i \in 1 .. n : i \in 1 .. n - 1 \/ i = n
  BY <1>1
<1> QED  BY <1>1, <1>3, <1>4, <1>5 DEF FewerCalls

LEMMA EndIsFewer ==
    ASSUME TypeOK, NEW t \in Threads, InCall(t, "factory"), EndCreation(t, Top(t).key)
    PROVE  /\ FewerCalls(calls', calls)
           /\ Len(calls'[t]) = Len(calls[t]) - 1
<1> DEFINE k == Top(t).key
           base(u) == IF u = t THEN Without(calls[t]) ELSE calls[u]
<1>1. k \in Keys /\ calls[t] \in Seq(Call) /\ calls[t] # << >> /\ Len(calls[t]) \in Nat
  BY TopType, LenProperties
<1>2. \A u \in Threads : calls'[u] = Woken(base(u), k)
  BY DEF EndCreation
<1>3. ASSUME NEW u \in Threads
      PROVE  /\ base(u) \in Seq(Call)
             /\ \A i \in 1 .. Len(base(u)) : i \in 1 .. Len(calls[u]) /\ base(u)[i] = calls[u][i]
  <2>1. CASE u = t
    <3>1. /\ Without(calls[t]) \in Seq(Call)
          /\ Len(Without(calls[t])) = Len(calls[t]) - 1
          /\ \A i \in 1 .. Len(calls[t]) - 1 : Without(calls[t])[i] = calls[t][i]
      BY <1>1, WithoutType
    <3>2. base(u) = Without(calls[t])
      BY <2>1
    <3> QED  BY <1>1, <2>1, <3>1, <3>2
  <2>2. CASE u # t
    BY <2>2 DEF TypeOK
  <2> QED  BY <2>1, <2>2
<1>4. Len(base(t)) = Len(calls[t]) - 1
  BY <1>1, WithoutType
<1> HIDE DEF k, base
<1>5. ASSUME NEW u \in Threads
      PROVE  /\ Len(calls'[u]) = Len(base(u))
             /\ \A i \in 1 .. Len(base(u)) : calls'[u][i].key = base(u)[i].key
  <2>1. DOMAIN base(u) = 1 .. Len(base(u)) /\ Len(Woken(base(u), k)) = Len(base(u))
    BY <1>1, <1>3, WokenType, LenProperties
  <2>2. \A i \in DOMAIN base(u) : Woken(base(u), k)[i].key = base(u)[i].key
    BY DEF Woken
  <2> QED  BY <1>2, <2>1, <2>2
<1> QED  BY <1>3, <1>4, <1>5 DEF FewerCalls

LEMMA FewerCallsAskOnce ==
    ASSUME NEW cs, NEW L, AsksOnce(cs, L), NEW ds, FewerCalls(ds, cs),
           NEW L2, L2 \subseteq L
    PROVE  AsksOnce(ds, L2)
BY DEF AsksOnce, FewerCalls

LEMMA PushAsksOnce ==
    ASSUME NEW cs \in [Threads -> Seq(Call)], NEW L, AsksOnce(cs, L),
           NEW t \in Threads, NEW f \in Call,
           \A l \in L : l.holder = t => l.key # f.key,
           NEW ds, ds = [cs EXCEPT ![t] = Append(@, f)]
    PROVE  AsksOnce(ds, L)
<1> DEFINE n == Len(cs[t])
<1>1. \A u \in Threads : u # t => ds[u] = cs[u]
  OBVIOUS
<1>2. /\ n \in Nat /\ Len(ds[t]) = n + 1
      /\ \A i \in 1 .. n : ds[t][i] = cs[t][i]
      /\ ds[t][n + 1] = f
  BY AppendProperties, LenProperties
<1>3. \A i \in 1 .. (n + 1) : i \in 1 .. n \/ i = n + 1
  BY <1>2
<1> SUFFICES ASSUME NEW u \in Threads, NEW i \in 1 .. Len(ds[u]), NEW l \in L, l.holder = u
             PROVE  l.key # ds[u][i].key
  BY DEF AsksOnce
<1>4. CASE u # t
  BY <1>1, <1>4 DEF AsksOnce
<1>5. CASE u = t /\ i = n + 1
  BY <1>2, <1>5
<1>6. CASE u = t /\ i \in 1 .. n
  BY <1>2, <1>6 DEF AsksOnce
<1> QED  BY <1>2, <1>3, <1>4, <1>5, <1>6

\* A lease is granted to the call that returns with it.
LEMMA GrantAsksOnce ==
    ASSUME NEW cs, NEW L, AsksOnce(cs, L), NEW ds, FewerCalls(ds, cs), NEW l,
           \A i \in 1 .. Len(ds[l.holder]) : cs[l.holder][i].key # l.key
    PROVE  AsksOnce(ds, L \cup {l})
<1> SUFFICES ASSUME NEW u \in Threads, NEW i \in 1 .. Len(ds[u]), NEW m \in L \cup {l},
                    m.holder = u
             PROVE  m.key # ds[u][i].key
  BY DEF AsksOnce
<1>1. i \in 1 .. Len(cs[u]) /\ ds[u][i].key = cs[u][i].key
  BY DEF FewerCalls
<1>2. CASE m \in L
  BY <1>1, <1>2 DEF AsksOnce
<1>3. CASE m = l
  BY <1>1, <1>3
<1> QED  BY <1>2, <1>3

\* Inside its factory, a creator has no other call for the same key on its
\* stack; and a call that finds a session is no nested call of its creator.
LEMMA OuterCallsDiffer ==
    ASSUME TypeOK, CallInv, NEW t \in Threads, NEW p \in {"check", "factory"}, InCall(t, p),
           p = "check" => sessions[Top(t).key] # NoSession,
           NEW i \in 1 .. Len(calls[t]) - 1
    PROVE  calls[t][i].key # Top(t).key
<1> DEFINE k == Top(t).key
           n == Len(calls[t])
<1>1. /\ k \in Keys /\ n \in 1 .. n /\ n \in Nat /\ calls[t][n] = [key |-> k, phase |-> p]
      /\ calls[t] \in Seq(Call)
  BY TopType, LenProperties DEF Top, Depth
<1>2. i \in 1 .. n /\ i < n
  BY <1>1
<1>3. calls[t][i] \in Call
  BY <1>1, <1>2, ElementOfSeq
<1>4. calls[t][i].phase = "factory"
  BY <1>2 DEF CallInv, CallsMatch
<1>5. calls[t][i].key = k => calls[t][i] = Factory(k)
  BY <1>3, <1>4 DEF Call, Factory
<1> SUFFICES ASSUME calls[t][i] = Factory(k)  PROVE FALSE
  BY <1>5
<1>6. pending[k] = t /\ t # NoThread
  BY <1>1, <1>2, ConstantsAssumption DEF CallInv, CallsMatch
<1>7. CASE p = "check"
  BY <1>1, <1>6, <1>7 DEF CallInv, CallsMatch
<1>8. CASE p = "factory"
  BY <1>1, <1>2, <1>8 DEF CallInv, CallsMatch, Factory
<1> QED  BY <1>7, <1>8

-----------------------------------------------------------------------------
(* The invariant is inductive.                                             *)

LEMMA OneKeyKeepsMinted ==
    ASSUME TypeOK, TypeOK', TokensMinted(sessions, leaseCounts, leases, minted),
           minted <= minted', NEW k \in Keys,
           sessions'[k] # NoSession => sessions'[k].token <= minted',
           \A token \in DOMAIN leaseCounts'[k] :
              token \in DOMAIN leaseCounts[k] \/ token <= minted',
           \A l \in leases' : l \in leases \/ l.token <= minted',
           \A j \in Keys \ {k} :
              sessions'[j] \in {sessions[j], NoSession} /\ leaseCounts'[j] = leaseCounts[j]
    PROVE  TokensMinted(sessions', leaseCounts', leases', minted')
<1>0. minted \in Nat /\ minted' \in Nat
  BY DEF TypeOK
<1>1. ASSUME NEW j \in Keys, sessions'[j] # NoSession
      PROVE  sessions'[j].token <= minted'
  <2>1. CASE j = k
    BY <1>1, <2>1
  <2>2. CASE j # k
    <3>1. sessions'[j] = sessions[j] /\ sessions[j] # NoSession
      BY <1>1, <2>2
    <3>2. sessions[j].token \in Nat /\ sessions[j].token <= minted
      BY <3>1 DEF TokensMinted, TypeOK, Session, Token
    <3> QED  BY <1>0, <3>1, <3>2
  <2> QED  BY <2>1, <2>2
<1>2. ASSUME NEW j \in Keys, NEW token \in DOMAIN leaseCounts'[j]
      PROVE  token <= minted'
  <2>1. CASE token \in DOMAIN leaseCounts[j]
    <3>1. token \in Nat /\ token <= minted
      BY <2>1 DEF TokensMinted, TypeOK, IsCounts, Token
    <3> QED  BY <1>0, <3>1
  <2>2. CASE token \notin DOMAIN leaseCounts[j]
    BY <1>2, <2>2
  <2> QED  BY <2>1, <2>2
<1>3. ASSUME NEW l \in leases'
      PROVE  l.token <= minted'
  <2>1. CASE l \in leases
    <3>1. l.token \in Nat /\ l.token <= minted
      BY <2>1 DEF TokensMinted, TypeOK, Lease, Token
    <3> QED  BY <1>0, <3>1
  <2>2. CASE l \notin leases
    BY <2>2
  <2> QED  BY <2>1, <2>2
<1> QED  BY <1>1, <1>2, <1>3 DEF TokensMinted

\* Steps that at most lose idle sessions and end calls without a lease.
LEMMA DropsKeepLeaseInv ==
    ASSUME TypeOK, LeaseInv,
           UNCHANGED <<leaseCounts, legacyReleases, minted, leases, forced>>,
           \A j \in Keys :
              sessions'[j] = sessions[j] \/ (sessions'[j] = NoSession /\ sessions[j].refCount = 0),
           FewerCalls(calls', calls)
    PROVE  LeaseInv'
<1>1. Accounts(sessions', leaseCounts, legacyReleases, leases, forced)
  BY DropsKeepAccounts DEF LeaseInv, TypeOK
<1>2. TokensMinted(sessions', leaseCounts, leases, minted)
  BY DEF LeaseInv, TokensMinted
<1>3. AsksOnce(calls', leases)
  BY FewerCallsAskOnce DEF LeaseInv
<1> QED  BY <1>1, <1>2, <1>3 DEF LeaseInv

\* The stacks do not change.
LEMMA SameCallsAskOnce ==
    ASSUME TypeOK, LeaseInv, UNCHANGED calls, NEW L, L \subseteq leases
    PROVE  FewerCalls(calls', calls) /\ AsksOnce(calls', L)
<1>1. FewerCalls(calls', calls)
  BY DEF FewerCalls
<1> QED  BY <1>1, FewerCallsAskOnce DEF LeaseInv

LEMMA ExistingKeepsLeaseInv ==
    ASSUME TypeOK, TypeOK', CallInv, LeaseInv, NEW t \in Threads, AcquireExisting(t)
    PROVE  LeaseInv'
<1> DEFINE k == Top(t).key
           tab == Collected(sessions)
           s == tab[k]
           c == leaseCounts[k]
           c2 == WithCount(c, s.token, CountOf(c, s.token) + 1)
           l == [holder |-> t, key |-> k, token |-> s.token]
           n == Len(calls[t])
<1>1. InCall(t, "check") /\ k \in Keys /\ n \in Nat /\ n \in 1 .. n /\ calls[t][n].key = k
  BY TopType, LenProperties DEF AcquireExisting, Top, Depth
<1>2. /\ s # NoSession /\ s = sessions[k] /\ s \in Session
      /\ s.token \in Token /\ s.refCount \in Nat
  BY <1>1 DEF AcquireExisting, TypeOK, Collected, Session
<1>3. /\ leases' = leases \cup {l} /\ l \in Lease
      /\ calls' = [calls EXCEPT ![t] = Without(@)]
      /\ UNCHANGED <<legacyReleases, minted, forced>>
  BY <1>1, <1>2 DEF AcquireExisting, Lease
<1>4. l \notin leases
  BY <1>1 DEF LeaseInv, AsksOnce
<1>5. FewerCalls(calls', calls) /\ Len(calls'[t]) = n - 1
  BY <1>1, <1>3, PopIsFewer
<1>6. AsksOnce(calls', leases')
  <2>1. \A i \in 1 .. n - 1 : calls[t][i].key # k
    BY <1>1, <1>2, OuterCallsDiffer
  <2> QED  BY <1>3, <1>5, <2>1, GrantAsksOnce DEF LeaseInv
<1>7. /\ \A j \in Keys \ {k} : /\ sessions'[j] = tab[j]
                               /\ leaseCounts'[j] = leaseCounts[j]
      /\ sessions'[k] \in Session /\ sessions'[k] # NoSession
      /\ sessions'[k].token = s.token
      /\ c = NoCounts => leaseCounts'[k] = NoCounts /\ sessions'[k].refCount = s.refCount + 1
      /\ c # NoCounts => /\ leaseCounts'[k] = c2
                         /\ sessions'[k].refCount = ReferenceBound(c2, legacyReleases[k], s.token)
  <2>1. tab \in [Keys -> Session \cup {NoSession}] /\ DOMAIN leaseCounts = Keys
    <3>1. sessions \in [Keys -> Session \cup {NoSession}]
      BY DEF TypeOK
    <3> QED  BY <3>1, CollectedType DEF TypeOK
  <2>2. ReferenceBound(c2, legacyReleases[k], s.token) \in Nat
    BY <1>1, <1>2, CountOfType, CountsType, ReferenceBoundType DEF TypeOK
  <2>3. PICK r \in Nat :
          /\ sessions' = [tab EXCEPT ![k] = Referenced(s, r)]
          /\ c = NoCounts => UNCHANGED leaseCounts /\ r = s.refCount + 1
          /\ c # NoCounts => /\ leaseCounts' = [leaseCounts EXCEPT ![k] = c2]
                             /\ r = ReferenceBound(c2, legacyReleases[k], s.token)
    BY <1>2, <2>2 DEF AcquireExisting
  <2>4. Referenced(s, r) \in Session
    BY <1>2, ReferencedType DEF TypeOK
  <2>5. Referenced(s, r).token = s.token /\ Referenced(s, r).refCount = r
    BY <1>2 DEF Referenced, Session
  <2>6. Referenced(s, r) # NoSession
    BY <2>4, ConstantsAssumption DEF Session, Token
  <2> HIDE DEF tab, c, c2, s
  <2> QED  BY <1>1, <2>1, <2>3, <2>4, <2>5, <2>6 DEF c
<1> HIDE DEF l, s, tab, c2, k
<1>8. Account(s, c, legacyReleases[k], LeasesIn(leases, k), forced)
  BY <1>1, <1>2 DEF LeaseInv, Accounts
<1>9. /\ LeasesIn(leases', k) = LeasesIn(leases, k) \cup {l} /\ l \notin LeasesIn(leases, k)
      /\ \A j \in Keys \ {k} : LeasesIn(leases', j) = LeasesIn(leases, j)
      /\ l.token = s.token
  BY <1>3, <1>4 DEF LeasesIn, l
<1>10. Account(sessions'[k], leaseCounts'[k], legacyReleases'[k], LeasesIn(leases', k), forced')
  <2> DEFINE s2 == sessions'[k]
             L == LeasesIn(leases, k)
             legacy == legacyReleases[k]
  <2>1. /\ s2 \in Session /\ s2 # NoSession /\ s2.token = s.token
        /\ l \in Lease /\ l \notin L /\ l.token = s.token /\ l.token \in Token
        /\ Account(s, c, legacy, L, forced)
    BY <1>2, <1>3, <1>7, <1>8, <1>9
  <2>2. /\ c = NoCounts => s2.refCount = s.refCount + 1
        /\ c # NoCounts => s2.refCount = ReferenceBound(c2, legacy, l.token)
        /\ c2 = WithCount(c, l.token, CountOf(c, l.token) + 1)
    BY <1>7, <2>1 DEF c2
  <2> HIDE DEF s2, L, legacy, c
  <2>3. CASE c = NoCounts
    <3>1. Account(s2, NoCounts, legacy, L \cup {l}, forced)
      BY <1>2, <2>1, <2>2, <2>3, SharePlain
    <3> QED  BY <1>3, <1>7, <1>9, <2>3, <3>1 DEF s2, L, legacy
  <2>4. CASE c # NoCounts
    <3>1. Account(s2, c2, legacy, L \cup {l}, forced)
      BY <1>2, <2>1, <2>2, <2>4, GrantAmbiguous
    <3> QED  BY <1>3, <1>7, <1>9, <2>4, <3>1 DEF s2, L, legacy
  <2> QED  BY <2>3, <2>4
<1>11. /\ k \in Keys /\ sessions \in [Keys -> Session \cup {NoSession}]
       /\ \A j \in Keys : IsCounts(leaseCounts[j])
       /\ leases \subseteq Lease /\ minted \in Nat /\ minted' = minted
       /\ Accounts(sessions, leaseCounts, legacyReleases, leases, forced)
       /\ TokensMinted(sessions, leaseCounts, leases, minted)
       /\ forced \subseteq forced'
  BY <1>1, <1>3 DEF LeaseInv, TypeOK
<1>12. \A j \in Keys \ {k} :
         /\ sessions'[j] = sessions[j] \/ (sessions'[j] = NoSession /\ sessions[j].refCount = 0)
         /\ leaseCounts'[j] = leaseCounts[j] /\ legacyReleases'[j] = legacyReleases[j]
         /\ LeasesIn(leases', j) = LeasesIn(leases, j)
  BY <1>3, <1>7, <1>9, <1>11, CollectedDrops DEF tab
<1>13. Accounts(sessions', leaseCounts', legacyReleases', leases', forced')
  BY <1>10, <1>11, <1>12, OneKeyKeepsAccounts
<1>14. TokensMinted(sessions', leaseCounts', leases', minted')
  <2>1. s.token <= minted
    BY <1>2, <1>11 DEF TokensMinted
  <2>2. \A token \in DOMAIN leaseCounts'[k] : token \in DOMAIN leaseCounts[k] \/ token <= minted
    BY <1>7, <2>1 DEF c2, WithCount
  <2>3. \A m \in leases' : m \in leases \/ m.token <= minted
    BY <1>3, <1>9, <2>1
  <2>4. \A j \in Keys \ {k} :
          sessions'[j] \in {sessions[j], NoSession} /\ leaseCounts'[j] = leaseCounts[j]
    BY <1>12
  <2>5. sessions'[k] # NoSession => sessions'[k].token <= minted
    BY <1>7, <2>1
  <2> HIDE DEF c
  <2> QED  BY <1>11, <2>2, <2>3, <2>4, <2>5, OneKeyKeepsMinted
<1> QED  BY <1>6, <1>13, <1>14 DEF LeaseInv

LEMMA InstallKeepsLeaseInv ==
    ASSUME TypeOK, TypeOK', CallInv, LeaseInv, NEW t \in Threads, FactoryInstalls(t)
    PROVE  LeaseInv'
<1> DEFINE k == Top(t).key
           token == minted + 1
           new == [token |-> token, refCount |-> 1, created |-> clock,
                   lastAccess |-> clock, idleSince |-> NotIdle]
           c == leaseCounts[k]
           l == [holder |-> t, key |-> k, token |-> token]
           n == Len(calls[t])
<1>1. /\ InCall(t, "factory") /\ k \in Keys /\ n \in Nat /\ n \in 1 .. n
      /\ calls[t][n] = Factory(k)
  BY TopType, LenProperties DEF FactoryInstalls, Top, Depth, Factory
<1>2. sessions[k] = NoSession
  <2>1. pending[k] = t /\ t # NoThread
    BY <1>1, ConstantsAssumption DEF CallInv, CallsMatch
  <2> QED  BY <1>1, <2>1 DEF CallInv, CallsMatch
<1>3. /\ leases' = leases \cup {l} /\ l \in Lease /\ token \in Token /\ minted' = token
      /\ EndCreation(t, k) /\ UNCHANGED <<legacyReleases, clock, forced>>
      /\ minted \in Nat
  BY <1>1 DEF FactoryInstalls, Lease, TypeOK, Token
<1>4. /\ \A m \in leases : m.token # token
      /\ \A j \in Keys : token \notin DOMAIN leaseCounts[j]
  <2>1. /\ \A m \in leases : m.token <= minted
        /\ \A j \in Keys : \A tk \in DOMAIN leaseCounts[j] : tk <= minted
    BY DEF LeaseInv, TokensMinted
  <2> QED  BY <1>3, <2>1
<1>5. FewerCalls(calls', calls) /\ Len(calls'[t]) = n - 1
  BY <1>1, <1>3, EndIsFewer
<1>6. AsksOnce(calls', leases')
  <2>1. \A i \in 1 .. n - 1 : calls[t][i].key # k
    BY <1>1, OuterCallsDiffer
  <2> QED  BY <1>3, <1>5, <2>1, GrantAsksOnce DEF LeaseInv
<1>7. new \in Session /\ new # NoSession
  <2>1. new \in Session
    BY <1>3 DEF Session, TypeOK
  <2> QED  BY <2>1, ConstantsAssumption DEF Session, Token
<1>8. /\ sessions'[k] = new
      /\ \A j \in Keys \ {k} :
            sessions'[j] = sessions[j] \/ (sessions'[j] = NoSession /\ sessions[j].refCount = 0)
  <2> DEFINE tab == Collected(sessions)
  <2>1. sessions \in [Keys -> Session \cup {NoSession}]
    BY DEF TypeOK
  <2>2. /\ tab \in [Keys -> Session \cup {NoSession}]
        /\ \A j \in Keys : tab[j] = sessions[j] \/ (tab[j] = NoSession /\ sessions[j].refCount = 0)
    BY <2>1, CollectedType, CollectedDrops
  <2>3. \/ sessions' = [tab EXCEPT ![k] = new]
        \/ \E v \in Victims(tab) :
              sessions' = [[tab EXCEPT ![v] = NoSession] EXCEPT ![k] = new]
    BY DEF FactoryInstalls, SlotEnsured
  <2>4. \A v \in Victims(tab) : v \in Keys /\ tab[v] # NoSession /\ tab[v].refCount = 0
    BY DEF Victims, IdleKeys, LiveKeys
  <2> HIDE DEF tab, k, new
  <2> QED  BY <1>1, <2>2, <2>3, <2>4
<1>9. /\ \A j \in Keys \ {k} : leaseCounts'[j] = leaseCounts[j]
      /\ leaseCounts'[k] = IF c = NoCounts THEN c ELSE WithCount(c, token, 1)
  BY <1>1 DEF FactoryInstalls, TypeOK
<1>10. /\ LeasesIn(leases', k) = LeasesIn(leases, k) \cup {l} /\ l \notin LeasesIn(leases, k)
       /\ \A j \in Keys \ {k} : LeasesIn(leases', j) = LeasesIn(leases, j)
       /\ l.token = token
  BY <1>3, <1>4 DEF LeasesIn
<1>11. Account(sessions'[k], leaseCounts'[k], legacyReleases'[k], LeasesIn(leases', k), forced')
  <2> DEFINE L == LeasesIn(leases, k)
             legacy == legacyReleases[k]
  <2>1. Account(NoSession, c, legacy, L, forced)
    BY <1>1, <1>2 DEF LeaseInv, Accounts
  <2>2. /\ l \in Lease /\ l \notin L /\ l.token = token /\ l.token \in Token
        /\ new \in Session /\ new # NoSession /\ new.token = token /\ new.refCount = 1
    BY <1>3, <1>7, <1>10
  <2>3. CountOf(c, token) = 0
    BY <1>1, <1>4 DEF CountOf
  <2> DEFINE c2 == WithCount(c, token, 1)
  <2>4. c2 = WithCount(c, l.token, CountOf(c, l.token) + 1)
    BY <2>3
  <2>5. c # NoCounts => ReferenceBound(c2, legacy, token) = 1
    <3>1. SUFFICES ASSUME c # NoCounts  PROVE ReferenceBound(c2, legacy, token) = 1
      OBVIOUS
    <3>2. /\ IsCounts(c) /\ legacy \in Nat /\ IsFiniteSet(L) /\ L # {}
          /\ SumOf(c) - legacy = Cardinality(L)
      BY <2>1, <3>1 DEF Account
    <3>3. Cardinality(L) \in Nat \ {0} /\ SumOf(c) \in Nat
      BY <3>2, OfTokenFinite, TicketsFinite
    <3>4. SumOf(c2) = SumOf(c) + 1
      BY <1>3, <2>3, <3>2, TicketsGrow
    <3>5. CountOf(c2, token) = 1
      BY <1>3, <3>2, CountOfWithCount
    <3> HIDE DEF c2, c, L, legacy, token
    <3> QED  BY <3>2, <3>3, <3>4, <3>5 DEF ReferenceBound, Smaller, AtLeastZero
  <2> HIDE DEF L, legacy, c, c2, new, l, token, k
  <2>6. CASE c = NoCounts
    <3>1. Account(new, NoCounts, legacy, L \cup {l}, forced)
      BY <2>1, <2>2, <2>6, InstallPlain
    <3> QED  BY <1>3, <1>8, <1>9, <1>10, <2>6, <3>1 DEF L, legacy
  <2>7. CASE c # NoCounts
    <3>1. Account(new, c2, legacy, L \cup {l}, forced)
      BY <2>1, <2>2, <2>4, <2>5, <2>7, GrantAmbiguous
    <3> QED  BY <1>3, <1>8, <1>9, <1>10, <2>7, <3>1 DEF L, legacy, c2
  <2> QED  BY <2>6, <2>7
<1> HIDE DEF k, token, new, l
<1>12. Accounts(sessions', leaseCounts', legacyReleases', leases', forced')
  <2>1. /\ sessions \in [Keys -> Session \cup {NoSession}] /\ forced \subseteq forced'
        /\ Accounts(sessions, leaseCounts, legacyReleases, leases, forced)
    BY <1>3 DEF LeaseInv, TypeOK
  <2>2. \A j \in Keys \ {k} :
          /\ sessions'[j] = sessions[j] \/ (sessions'[j] = NoSession /\ sessions[j].refCount = 0)
          /\ leaseCounts'[j] = leaseCounts[j] /\ legacyReleases'[j] = legacyReleases[j]
          /\ LeasesIn(leases', j) = LeasesIn(leases, j)
    BY <1>3, <1>8, <1>9, <1>10
  <2> QED  BY <1>1, <1>11, <2>1, <2>2, OneKeyKeepsAccounts
<1>13. TokensMinted(sessions', leaseCounts', leases', minted')
  <2>1. token <= minted' /\ minted <= minted'
    BY <1>3 DEF token
  <2>2. \A tk \in DOMAIN leaseCounts'[k] : tk \in DOMAIN leaseCounts[k] \/ tk <= minted'
    BY <1>9, <2>1 DEF WithCount
  <2>3. \A m \in leases' : m \in leases \/ m.token <= minted'
    BY <1>3, <1>10, <2>1
  <2>4. \A j \in Keys \ {k} :
          sessions'[j] \in {sessions[j], NoSession} /\ leaseCounts'[j] = leaseCounts[j]
    BY <1>8, <1>9
  <2>5. sessions'[k] # NoSession => sessions'[k].token <= minted'
    BY <1>8, <2>1 DEF new
  <2>6. TokensMinted(sessions, leaseCounts, leases, minted)
    BY DEF LeaseInv
  <2> HIDE DEF c
  <2> QED  BY <1>1, <2>1, <2>2, <2>3, <2>4, <2>5, <2>6, OneKeyKeepsMinted
<1> QED  BY <1>6, <1>12, <1>13 DEF LeaseInv

\* What the two forms of release do to the records of their key, and that
\* they touch no other key's.
ReturnedAt(k, l) ==
    /\ Account(sessions'[k], leaseCounts'[k], legacyReleases'[k],
               LeasesIn(leases, k) \ {l}, forced)
    /\ \A j \in Keys \ {k} : /\ sessions'[j] = sessions[j]
                           /\ leaseCounts'[j] = leaseCounts[j]
                           /\ legacyReleases'[j] = legacyReleases[j]
    /\ DOMAIN leaseCounts'[k] \subseteq DOMAIN leaseCounts[k]
    /\ sessions'[k] # NoSession =>
          sessions[k] # NoSession /\ sessions'[k].token = sessions[k].token
    /\ sessions[k] # NoSession /\ sessions'[k] = NoSession =>
          \A m \in LeasesIn(leases, k) \ {l} : m.token # sessions[k].token

LEMMA PlainReturns ==
    ASSUME TypeOK, LeaseInv, NEW l \in leases, NEW exact \in BOOLEAN, ReleasePlain(l, exact)
    PROVE  ReturnedAt(l.key, l)
<1> DEFINE k == l.key
           s == sessions[k]
           L == LeasesIn(leases, k)
<1>1. /\ k \in Keys /\ clock \in Nat /\ l \in L /\ s \in Session \cup {NoSession}
      /\ sessions \in [Keys -> Session \cup {NoSession}]
  BY DEF TypeOK, Lease, LeasesIn
<1>2. leaseCounts[k] = NoCounts /\ UNCHANGED <<leaseCounts, legacyReleases>>
  BY DEF ReleasePlain
<1>3. Account(s, NoCounts, legacyReleases[k], L, forced)
  BY <1>1, <1>2 DEF LeaseInv, Accounts
<1>4. s # NoSession /\ s \in Session /\ s.token = l.token /\ s.refCount \in Nat \ {0}
  <2>1. s # NoSession /\ s.token = l.token /\ s.refCount = Cardinality(L) /\ L # {}
    BY <1>1, <1>3 DEF Account
  <2>2. IsFiniteSet(L)
    BY <1>3 DEF Account
  <2> QED  BY <1>1, <2>1, <2>2, OfTokenFinite
<1>5. sessions' = [sessions EXCEPT ![k] = Settled(s, s.refCount - 1)]
  BY <1>4 DEF ReleasePlain
<1>6. /\ Account(Settled(s, s.refCount - 1), NoCounts, legacyReleases[k], L \ {l}, forced)
      /\ Settled(s, s.refCount - 1) = NoSession => L \ {l} = {}
  <2> HIDE DEF k, s, L
  <2> QED  BY <1>1, <1>3, <1>4, ReturnPlain
<1>7. /\ Settled(s, s.refCount - 1) # NoSession =>
            Settled(s, s.refCount - 1).token = s.token
  BY <1>1, <1>4, SettledShape
<1> HIDE DEF k, s, L
<1>8. sessions'[k] = Settled(s, s.refCount - 1) /\ \A j \in Keys \ {k} : sessions'[j] = sessions[j]
  BY <1>1, <1>5
<1>9. ReturnedAt(k, l)
  BY <1>2, <1>4, <1>6, <1>7, <1>8 DEF ReturnedAt, L, s
<1> QED  BY <1>9 DEF k

LEMMA AmbiguousReturns ==
    ASSUME TypeOK, LeaseInv, NEW l \in leases, NEW exact \in BOOLEAN,
           ReleaseAmbiguous(l, exact)
    PROVE  ReturnedAt(l.key, l)
<1> DEFINE k == l.key
           s == sessions[k]
           old == leaseCounts[k]
           was == legacyReleases[k]
           L == LeasesIn(leases, k)
           M == L \ {l}
           c == IF exact THEN WithCount(old, l.token, CountOf(old, l.token) - 1) ELSE old
           legacy == was + (IF exact THEN 0 ELSE 1)
           resolved == Resolved(c, legacy)
           kept == IF s = NoSession THEN NoSession
                   ELSE Settled(s, ReferenceBound(c, legacy, s.token))
<1>1. /\ k \in Keys /\ clock \in Nat /\ l \in L /\ s \in Session \cup {NoSession}
      /\ sessions \in [Keys -> Session \cup {NoSession}]
      /\ DOMAIN leaseCounts = Keys /\ legacyReleases \in [Keys -> Nat]
      /\ l.token \in Token /\ was \in Nat /\ legacy \in Nat
  BY DEF TypeOK, Lease, LeasesIn
<1>2. old # NoCounts /\ Account(s, old, was, L, forced)
  BY <1>1 DEF LeaseInv, Accounts, ReleaseAmbiguous
<1>3. /\ IsCounts(old) /\ IsFiniteSet(L) /\ SumOf(old) - was = Cardinality(L)
      /\ \A token \in Token : CountOf(old, token) >= Cardinality(OfToken(L, token))
  BY <1>2 DEF Account
<1>4. /\ IsFiniteSet(M) /\ M \subseteq L
      /\ Cardinality(M) = Cardinality(L) - 1 /\ Cardinality(L) \in Nat /\ Cardinality(M) \in Nat
  BY <1>1, <1>3, OfTokenDrop, FS_CardinalityType
<1>5. ASSUME NEW token \in Token
      PROVE  /\ Cardinality(OfToken(M, token)) =
                   Cardinality(OfToken(L, token)) - (IF l.token = token THEN 1 ELSE 0)
             /\ Cardinality(OfToken(L, token)) \in Nat
             /\ Cardinality(OfToken(M, token)) \in Nat
             /\ CountOf(old, token) \in Nat
  BY <1>1, <1>3, <1>4, OfTokenDrop, OfTokenFinite, CountOfType
<1>6. CountOf(old, l.token) > 0 /\ SumOf(old) \in Nat /\ SumOf(old) > was
  <2>1. Cardinality(OfToken(M, l.token)) = Cardinality(OfToken(L, l.token)) - 1
    BY <1>1, <1>5
  <2>2. CountOf(old, l.token) >= Cardinality(OfToken(L, l.token))
    BY <1>1, <1>3
  <2>3. SumOf(old) \in Nat
    BY <1>3, TicketsFinite
  <2> HIDE DEF M, L, old, was
  <2> QED  BY <1>1, <1>3, <1>4, <1>5, <2>1, <2>2, <2>3
<1>7. IsCounts(c) /\ SumOf(c) - legacy = Cardinality(M) /\ DOMAIN c \subseteq DOMAIN old
  <2>1. CASE exact
    <3>1. c = WithCount(old, l.token, CountOf(old, l.token) - 1) /\ legacy = was
      BY <1>1, <2>1
    <3>2. CountOf(old, l.token) - 1 \in Nat
      BY <1>1, <1>5, <1>6
    <3>3. IsCounts(WithCount(old, l.token, CountOf(old, l.token) - 1))
      BY <1>1, <1>3, <3>2, CountsType
    <3>4. SumOf(WithCount(old, l.token, CountOf(old, l.token) - 1)) = SumOf(old) - 1
      BY <1>1, <1>3, <1>6, TicketsShrink
    <3>5. l.token \in DOMAIN old
      BY <1>6 DEF CountOf
    <3>6. DOMAIN c \subseteq DOMAIN old
      BY <3>1, <3>5 DEF WithCount
    <3> HIDE DEF c, legacy, old, was, L, M
    <3> QED  BY <1>1, <1>3, <1>4, <1>6, <3>1, <3>3, <3>4, <3>6
  <2>2. CASE ~exact
    <3>1. c = old /\ legacy = was + 1
      BY <2>2
    <3> HIDE DEF c, legacy, old, was, L, M
    <3> QED  BY <1>1, <1>3, <1>4, <1>6, <3>1
  <2> QED  BY <2>1, <2>2
<1>8. ASSUME NEW token \in Token
      PROVE  CountOf(c, token) >= Cardinality(OfToken(M, token))
  <2>1. CountOf(old, token) >= Cardinality(OfToken(L, token))
    BY <1>3
  <2>2. CASE exact
    <3>1. CountOf(old, l.token) - 1 \in Nat
      BY <1>1, <1>5, <1>6
    <3>2. CountOf(WithCount(old, l.token, CountOf(old, l.token) - 1), token) =
            IF token = l.token THEN CountOf(old, l.token) - 1 ELSE CountOf(old, token)
      BY <1>1, <1>3, <3>1, CountOfWithCount
    <3>3. c = WithCount(old, l.token, CountOf(old, l.token) - 1)
      BY <2>2
    <3> HIDE DEF c, legacy, old, was, L, M
    <3> QED  BY <1>5, <2>1, <3>2, <3>3
  <2>3. CASE ~exact
    <3>1. c = old
      BY <2>3
    <3> HIDE DEF c, legacy, old, was, L, M
    <3> QED  BY <1>5, <2>1, <3>1
  <2> QED  BY <2>2, <2>3
<1>9. /\ leaseCounts' = [leaseCounts EXCEPT ![k] = IF resolved THEN NoCounts ELSE c]
      /\ legacyReleases' = [legacyReleases EXCEPT ![k] = IF resolved THEN 0 ELSE legacy]
      /\ sessions' = IF s = NoSession THEN sessions ELSE [sessions EXCEPT ![k] = kept]
  <2>1. ~(IF exact THEN CountOf(old, l.token) = 0 ELSE SumOf(old) <= was)
    <3> HIDE DEF old, was
    <3> QED  BY <1>1, <1>6
  <2> QED  BY <2>1 DEF ReleaseAmbiguous
<1>10. /\ Account(kept, IF resolved THEN NoCounts ELSE c, IF resolved THEN 0 ELSE legacy, M, forced)
       /\ s # NoSession /\ kept = NoSession => \A m \in M : m.token # s.token
  <2> HIDE DEF c, legacy, old, was, L, M, s
  <2> QED  BY <1>1, <1>2, <1>4, <1>7, <1>8, ReturnAmbiguous DEF Resolved
<1>11. kept # NoSession => s # NoSession /\ kept.token = s.token
  <2>1. ReferenceBound(c, legacy, s.token) \in Nat
    BY <1>1, <1>7, ReferenceBoundType
  <2> HIDE DEF c, legacy
  <2> QED  BY <1>1, <2>1, SettledShape
<1> HIDE DEF c, legacy, resolved, kept
<1>12. /\ sessions'[k] = kept
       /\ leaseCounts'[k] = IF resolved THEN NoCounts ELSE c
       /\ legacyReleases'[k] = IF resolved THEN 0 ELSE legacy
       /\ \A j \in Keys \ {k} : /\ sessions'[j] = sessions[j]
                              /\ leaseCounts'[j] = leaseCounts[j]
                              /\ legacyReleases'[j] = legacyReleases[j]
  BY <1>1, <1>9 DEF kept
<1>13. DOMAIN leaseCounts'[k] \subseteq DOMAIN leaseCounts[k]
  BY <1>7, <1>12 DEF NoCounts
<1>14. ReturnedAt(k, l)
  BY <1>10, <1>11, <1>12, <1>13 DEF ReturnedAt
<1> QED  BY <1>14

LEMMA ReleaseKeepsLeaseInv ==
    ASSUME TypeOK, TypeOK', LeaseInv, NEW t \in Threads, NEW l \in leases,
           NEW exact \in BOOLEAN, Release(t, l, exact)
    PROVE  LeaseInv'
<1> DEFINE k == l.key
<1>1. /\ k \in Keys /\ leases' = leases \ {l}
      /\ UNCHANGED <<minted, calls, forced>>
      /\ sessions \in [Keys -> Session \cup {NoSession}]
  BY DEF TypeOK, Lease, Release
<1>2. ReturnedAt(k, l)
  BY PlainReturns, AmbiguousReturns DEF Release
<1>3. /\ LeasesIn(leases', k) = LeasesIn(leases, k) \ {l}
      /\ \A j \in Keys \ {k} : LeasesIn(leases', j) = LeasesIn(leases, j)
  BY <1>1 DEF LeasesIn
<1> HIDE DEF k
<1>4. Accounts(sessions', leaseCounts', legacyReleases', leases', forced')
  <2>1. /\ Accounts(sessions, leaseCounts, legacyReleases, leases, forced)
        /\ forced \subseteq forced'
    BY <1>1 DEF LeaseInv
  <2>2. Account(sessions'[k], leaseCounts'[k], legacyReleases'[k], LeasesIn(leases', k), forced')
    BY <1>1, <1>2, <1>3 DEF ReturnedAt
  <2>3. \A j \in Keys \ {k} :
          /\ sessions'[j] = sessions[j] \/ (sessions'[j] = NoSession /\ sessions[j].refCount = 0)
          /\ leaseCounts'[j] = leaseCounts[j] /\ legacyReleases'[j] = legacyReleases[j]
          /\ LeasesIn(leases', j) = LeasesIn(leases, j)
    BY <1>2, <1>3 DEF ReturnedAt
  <2> QED  BY <1>1, <2>1, <2>2, <2>3, OneKeyKeepsAccounts
<1>5. TokensMinted(sessions', leaseCounts', leases', minted')
  <2>1. TokensMinted(sessions, leaseCounts, leases, minted) /\ minted <= minted'
    BY <1>1 DEF LeaseInv, TypeOK
  <2>2. sessions'[k] # NoSession => sessions'[k].token <= minted'
    BY <1>1, <1>2, <2>1 DEF ReturnedAt, TokensMinted
  <2>3. \A tk \in DOMAIN leaseCounts'[k] : tk \in DOMAIN leaseCounts[k] \/ tk <= minted'
    BY <1>2 DEF ReturnedAt
  <2>4. \A j \in Keys \ {k} :
          sessions'[j] \in {sessions[j], NoSession} /\ leaseCounts'[j] = leaseCounts[j]
    BY <1>2 DEF ReturnedAt
  <2>5. \A m \in leases' : m \in leases \/ m.token <= minted'
    BY <1>1
  <2> QED  BY <1>1, <2>1, <2>2, <2>3, <2>4, <2>5, OneKeyKeepsMinted
<1>6. AsksOnce(calls', leases')
  BY <1>1, SameCallsAskOnce
<1> QED  BY <1>4, <1>5, <1>6 DEF LeaseInv

LEMMA ForceKeepsLeaseInv ==
    ASSUME TypeOK, TypeOK', LeaseInv, NEW k \in Keys, ForceClose(k)
    PROVE  LeaseInv'
<1> DEFINE s == sessions[k]
           c == leaseCounts[k]
           c2 == IF s.token \in DOMAIN c THEN c ELSE WithCount(c, s.token, s.refCount)
<1>1. /\ s \in Session /\ s # NoSession /\ s.refCount # 0
      /\ sessions' = [sessions EXCEPT ![k] = NoSession]
      /\ leaseCounts' = [leaseCounts EXCEPT ![k] = c2]
      /\ forced' = forced \cup {s.token}
      /\ UNCHANGED <<legacyReleases, minted, calls, leases>>
      /\ sessions \in [Keys -> Session \cup {NoSession}] /\ DOMAIN leaseCounts = Keys
  BY DEF ForceClose, LiveKeys, IdleKeys, TypeOK
<1>2. Account(NoSession, c2, legacyReleases[k], LeasesIn(leases, k), forced')
  <2>1. Account(s, c, legacyReleases[k], LeasesIn(leases, k), forced)
    BY DEF LeaseInv, Accounts
  <2> HIDE DEF s, c
  <2>2. CASE c = NoCounts
    <3>1. s.token \notin DOMAIN NoCounts
      BY DEF NoCounts
    <3>2. c2 = WithCount(NoCounts, s.token, s.refCount)
      BY <2>2, <3>1
    <3>3. Account(s, NoCounts, legacyReleases[k], LeasesIn(leases, k), forced)
      BY <2>1, <2>2
    <3> QED  BY <1>1, <3>2, <3>3, ForcePlain
  <2>3. CASE c # NoCounts
    BY <1>1, <2>1, <2>3, ForceAmbiguous
  <2> QED  BY <2>2, <2>3
<1>3. /\ sessions'[k] = NoSession /\ leaseCounts'[k] = c2
      /\ \A j \in Keys \ {k} : sessions'[j] = sessions[j] /\ leaseCounts'[j] = leaseCounts[j]
  BY <1>1
<1>4. \A token \in DOMAIN c2 : token \in DOMAIN c \/ token = s.token
  BY DEF WithCount
<1>5. s.token <= minted
  BY <1>1 DEF LeaseInv, TokensMinted
<1> HIDE DEF s, c, c2
<1>6. Accounts(sessions', leaseCounts', legacyReleases', leases', forced')
  <2>1. /\ Accounts(sessions, leaseCounts, legacyReleases, leases, forced)
        /\ forced \subseteq forced'
    BY <1>1 DEF LeaseInv
  <2>2. Account(sessions'[k], leaseCounts'[k], legacyReleases'[k], LeasesIn(leases', k), forced')
    BY <1>1, <1>2, <1>3
  <2>3. \A j \in Keys \ {k} :
          /\ sessions'[j] = sessions[j] \/ (sessions'[j] = NoSession /\ sessions[j].refCount = 0)
          /\ leaseCounts'[j] = leaseCounts[j] /\ legacyReleases'[j] = legacyReleases[j]
          /\ LeasesIn(leases', j) = LeasesIn(leases, j)
    BY <1>1, <1>3
  <2> QED  BY <1>1, <2>1, <2>2, <2>3, OneKeyKeepsAccounts
<1>7. TokensMinted(sessions', leaseCounts', leases', minted')
  <2>1. TokensMinted(sessions, leaseCounts, leases, minted) /\ minted <= minted'
    BY <1>1 DEF LeaseInv, TypeOK
  <2>2. \A tk \in DOMAIN leaseCounts'[k] : tk \in DOMAIN leaseCounts[k] \/ tk <= minted'
    BY <1>1, <1>3, <1>4, <1>5 DEF c
  <2> QED  BY <1>1, <1>3, <2>1, <2>2, OneKeyKeepsMinted
<1>8. AsksOnce(calls', leases')
  BY <1>1, SameCallsAskOnce
<1> QED  BY <1>6, <1>7, <1>8 DEF LeaseInv

LEMMA TouchKeepsLeaseInv ==
    ASSUME TypeOK, TypeOK', LeaseInv, NEW t \in Threads, NEW l \in leases, Touch(t, l)
    PROVE  LeaseInv'
<1> DEFINE k == l.key
           s == sessions[k]
           s2 == Touched(s)
<1>1. /\ k \in Keys /\ s # NoSession /\ s \in Session
      /\ sessions' = [sessions EXCEPT ![k] = s2]
      /\ UNCHANGED <<leaseCounts, legacyReleases, minted, calls, leases, forced>>
      /\ sessions \in [Keys -> Session \cup {NoSession}]
  BY DEF TypeOK, Lease, Touch
<1>2. sessions'[k] = s2 /\ \A j \in Keys \ {k} : sessions'[j] = sessions[j]
  BY <1>1
<1>3. s2.token = s.token /\ s2.refCount = s.refCount /\ s2 # NoSession
  <2>1. s2 \in Session
    BY <1>1 DEF Touched, Session, TypeOK
  <2>2. s2 # NoSession
    BY <2>1, ConstantsAssumption DEF Session, Token
  <2> QED  BY <1>1, <2>2 DEF Touched, Session
<1>4. Account(s, leaseCounts[k], legacyReleases[k], LeasesIn(leases, k), forced)
  BY <1>1 DEF LeaseInv, Accounts
<1> HIDE DEF s2, s
<1>5. Account(s2, leaseCounts[k], legacyReleases[k], LeasesIn(leases, k), forced)
  BY <1>1, <1>3, <1>4, SameCountKeepsAccount
<1> HIDE DEF k
<1>6. Accounts(sessions', leaseCounts', legacyReleases', leases', forced')
  <2>1. /\ Accounts(sessions, leaseCounts, legacyReleases, leases, forced)
        /\ forced \subseteq forced'
    BY <1>1 DEF LeaseInv
  <2>2. Account(sessions'[k], leaseCounts'[k], legacyReleases'[k], LeasesIn(leases', k), forced')
    BY <1>1, <1>2, <1>5
  <2>3. \A j \in Keys \ {k} :
          /\ sessions'[j] = sessions[j] \/ (sessions'[j] = NoSession /\ sessions[j].refCount = 0)
          /\ leaseCounts'[j] = leaseCounts[j] /\ legacyReleases'[j] = legacyReleases[j]
          /\ LeasesIn(leases', j) = LeasesIn(leases, j)
    BY <1>1, <1>2
  <2> QED  BY <1>1, <2>1, <2>2, <2>3, OneKeyKeepsAccounts
<1>7. TokensMinted(sessions', leaseCounts', leases', minted')
  <2>1. TokensMinted(sessions, leaseCounts, leases, minted) /\ minted <= minted'
    BY <1>1 DEF LeaseInv, TypeOK
  <2>2. sessions'[k].token <= minted'
    BY <1>1, <1>2, <1>3, <2>1 DEF TokensMinted, s
  <2> QED  BY <1>1, <1>2, <2>1, <2>2, OneKeyKeepsMinted
<1>8. AsksOnce(calls', leases')
  BY <1>1, SameCallsAskOnce
<1> QED  BY <1>6, <1>7, <1>8 DEF LeaseInv

LEMMA LeaseInvInductive == TypeOK /\ TypeOK' /\ CallInv /\ LeaseInv /\ [Next]_vars => LeaseInv'
<1> SUFFICES ASSUME TypeOK, TypeOK', CallInv, LeaseInv, [Next]_vars  PROVE LeaseInv'
  OBVIOUS
<1>0. /\ \A j \in Keys : \/ Collected(sessions)[j] = sessions[j]
                        \/ /\ Collected(sessions)[j] = NoSession
                           /\ sessions[j].refCount = 0
      /\ UNCHANGED calls => FewerCalls(calls', calls)
  BY CollectedDrops DEF TypeOK, FewerCalls
<1>1. ASSUME NEW t \in Threads, NEW k \in Keys, CallAcquire(t, k)
      PROVE  LeaseInv'
  <2> DEFINE f == [key |-> k, phase |-> "check"]
  <2>1. f \in Call /\ calls' = [calls EXCEPT ![t] = Append(@, f)]
    BY <1>1 DEF CallAcquire, Call
  <2>2. \A l \in leases : l.holder = t => l.key # f.key
    BY <1>1 DEF CallAcquire, Holds
  <2> HIDE DEF f
  <2>3. AsksOnce(calls', leases)
    BY <2>1, <2>2, PushAsksOnce DEF LeaseInv, TypeOK
  <2> QED  BY <1>1, <2>3 DEF LeaseInv, CallAcquire
<1>2. ASSUME NEW t \in Threads, AcquireCreate(t) \/ AcquireWait(t)
      PROVE  LeaseInv'
  <2>1. FewerCalls(calls', calls)
    BY <1>2, EnteringIsFewer DEF AcquireCreate, AcquireWait
  <2> QED  BY <1>0, <1>2, <2>1, DropsKeepLeaseInv DEF AcquireCreate, AcquireWait
<1>3. ASSUME NEW t \in Threads, AcquireRefused(t) \/ AcquireReentrant(t)
      PROVE  LeaseInv'
  <2>1. FewerCalls(calls', calls)
    BY <1>3, PopIsFewer DEF AcquireRefused, AcquireReentrant
  <2> QED  BY <1>0, <1>3, <2>1, DropsKeepLeaseInv DEF AcquireRefused, AcquireReentrant
<1>4. ASSUME NEW t \in Threads, FactoryFails(t) \/ FactoryFindsNoSlot(t)
      PROVE  LeaseInv'
  <2>1. FewerCalls(calls', calls)
    BY <1>4, EndIsFewer DEF FactoryFails, FactoryFindsNoSlot
  <2> QED  BY <1>0, <1>4, <2>1, DropsKeepLeaseInv DEF FactoryFails, FactoryFindsNoSlot
<1>5. ASSUME NEW k \in Keys, CloseIdle(k)
      PROVE  LeaseInv'
  <2>1. \A j \in Keys : \/ sessions'[j] = sessions[j]
                       \/ /\ sessions'[j] = NoSession
                          /\ sessions[j].refCount = 0
    BY <1>5 DEF CloseIdle, IdleKeys, TypeOK
  <2> QED  BY <1>0, <1>5, <2>1, DropsKeepLeaseInv DEF CloseIdle
<1>6. ASSUME CollectExpired \/ Tick \/ UNCHANGED vars
      PROVE  LeaseInv'
  BY <1>0, <1>6, DropsKeepLeaseInv DEF CollectExpired, Tick, vars
<1> QED
  BY <1>1, <1>2, <1>3, <1>4, <1>5, <1>6, ExistingKeepsLeaseInv, InstallKeepsLeaseInv,
     ReleaseKeepsLeaseInv, ForceKeepsLeaseInv, TouchKeepsLeaseInv
     DEF Next, AcquireStep, FactoryEnds

LEMMA LeaseInvAlways == Spec => []LeaseInv
<1>1. Init => LeaseInv
  <2> SUFFICES ASSUME Init  PROVE LeaseInv
    OBVIOUS
  <2>1. \A k \in Keys : LeasesIn(leases, k) = {}
    BY DEF Init, LeasesIn
  <2>2. Accounts(sessions, leaseCounts, legacyReleases, leases, forced)
    BY <2>1, NoCountsIsEmpty, FS_EmptySet DEF Init, Accounts, Account
  <2>3. TokensMinted(sessions, leaseCounts, leases, minted)
    BY DEF Init, TokensMinted, NoCounts
  <2>4. AsksOnce(calls, leases)
    BY DEF Init, AsksOnce
  <2> QED  BY <2>2, <2>3, <2>4 DEF LeaseInv
<1> QED  BY <1>1, LeaseInvInductive, TypeCorrect, CallInvAlways, PTL DEF Spec

-----------------------------------------------------------------------------
(* What it says.                                                           *)

\* A session somebody holds stays in the table until it is closed by force.
THEOREM HeldSessionsStay == Spec => []HeldSessionStays
<1>1. TypeOK /\ LeaseInv => HeldSessionStays
  <2> SUFFICES ASSUME TypeOK, LeaseInv, NEW l \in leases, l.token \notin forced
               PROVE  sessions[l.key] # NoSession /\ sessions[l.key].token = l.token
    BY DEF HeldSessionStays
  <2>1. l.key \in Keys /\ l \in LeasesIn(leases, l.key)
    BY DEF TypeOK, Lease, LeasesIn
  <2> QED  BY <2>1 DEF LeaseInv, Accounts, Account
<1> QED  BY <1>1, TypeCorrect, LeaseInvAlways, PTL

\* The reference count never falls below the number of holders, and equals it
\* while no forced close left the key ambiguous.
THEOREM CountsCoverHolders == Spec => []RefCountCoversHolders
<1>1. TypeOK /\ LeaseInv => RefCountCoversHolders
  <2> SUFFICES ASSUME TypeOK, LeaseInv, NEW k \in LiveKeys(sessions)
               PROVE  LET holders == Cardinality(HoldersOf(k, sessions[k].token))
                      IN  /\ sessions[k].refCount >= holders
                          /\ leaseCounts[k] = NoCounts => sessions[k].refCount = holders
    BY DEF RefCountCoversHolders
  <2> DEFINE s == sessions[k]
             c == leaseCounts[k]
             legacy == legacyReleases[k]
             L == LeasesIn(leases, k)
  <2>1. /\ s # NoSession /\ s \in Session /\ s.token \in Token
        /\ Account(s, c, legacy, L, forced)
    BY DEF LiveKeys, TypeOK, Session, LeaseInv, Accounts
  <2>2. HoldersOf(k, s.token) = OfToken(L, s.token)
    BY DEF HoldersOf, OfToken, LeasesIn
  <2>3. IsFiniteSet(L) /\ IsCounts(c) /\ legacy \in Nat
    BY <2>1 DEF Account
  <2>4. /\ Cardinality(OfToken(L, s.token)) \in Nat /\ Cardinality(L) \in Nat
        /\ Cardinality(OfToken(L, s.token)) <= Cardinality(L)
    BY <2>3, OfTokenFinite
  <2> HIDE DEF s, c, legacy, L
  <2>5. CASE c = NoCounts
    <3>1. OfToken(L, s.token) = L /\ s.refCount = Cardinality(L)
      BY <2>1, <2>5 DEF Account, OfToken
    <3>2. s.refCount = Cardinality(HoldersOf(k, s.token))
      BY <2>2, <3>1
    <3> QED  BY <2>2, <2>4, <3>1, <3>2 DEF s
  <2>6. CASE c # NoCounts
    <3>1. /\ s.refCount = ReferenceBound(c, legacy, s.token)
          /\ SumOf(c) - legacy = Cardinality(L)
          /\ CountOf(c, s.token) >= Cardinality(OfToken(L, s.token))
      BY <2>1, <2>6 DEF Account
    <3>2. CountOf(c, s.token) \in Nat
      BY <2>3, CountOfType
    <3>3. s.refCount >= Cardinality(OfToken(L, s.token))
      BY <2>4, <3>1, <3>2 DEF ReferenceBound, Smaller, AtLeastZero
    <3> QED  BY <2>2, <2>6, <3>3 DEF s, c
  <2> QED  BY <2>5, <2>6
<1> QED  BY <1>1, TypeCorrect, LeaseInvAlways, PTL

\* Once every acquisition of a key is returned, exactly or by key alone, no
\* count is left and the session, if there is one, is idle.
THEOREM ReleasesSettle == Spec => []BalancedReleasesSettle
<1>1. TypeOK /\ LeaseInv => BalancedReleasesSettle
  <2> SUFFICES ASSUME TypeOK, LeaseInv, NEW k \in Keys, LeasesOf(k) = {}
               PROVE  /\ leaseCounts[k] = NoCounts
                      /\ legacyReleases[k] = 0
                      /\ sessions[k] # NoSession => sessions[k].refCount = 0
    BY DEF BalancedReleasesSettle
  <2>1. Account(sessions[k], leaseCounts[k], legacyReleases[k], {}, forced)
    BY DEF LeaseInv, Accounts, LeasesIn, LeasesOf
  <2> QED  BY <2>1, FS_EmptySet DEF Account
<1> QED  BY <1>1, TypeCorrect, LeaseInvAlways, PTL

-----------------------------------------------------------------------------
(***************************************************************************)
(* The session manager implements the lease table of SessionLeases.  The   *)
(* current session of a key is the token of its entry; whoever loses an    *)
(* idle entry loses one that nobody leases, because the count covers the   *)
(* holders (LeaseInv); a session is installed where there is none, because *)
(* the stacks, the creation records and the table agree (CallInv).         *)
(***************************************************************************)

\* What the table shows its users.
Tokens(tab) == [k \in Keys |-> IF tab[k] = NoSession THEN NoSession ELSE tab[k].token]

IsTable(tab) == tab \in [Keys -> Session \cup {NoSession}]

\* tab is the table without some of its idle sessions.
FewerIdle(tab) ==
    /\ IsTable(tab)
    /\ \A j \in Keys : tab[j] = sessions[j] \/ (tab[j] = NoSession /\ sessions[j].refCount = 0)

LEMMA TokensOfTable ==
    ASSUME NEW tab, IsTable(tab)
    PROVE  \A k \in Keys : /\ Tokens(tab)[k] = NoSession <=> tab[k] = NoSession
                           /\ tab[k] # NoSession => /\ Tokens(tab)[k] = tab[k].token
                                                    /\ tab[k].token \in Token
BY ConstantsAssumption DEF Tokens, IsTable, Session, Token

LEMMA CurrentIsTokens ==
    /\ LeaseTable!vars = <<Tokens(sessions), leases, minted, forced>>
    /\ LeaseTable!vars' = <<Tokens(sessions'), leases', minted', forced'>>
BY DEF LeaseTable!vars, Tokens

\* A lost idle session is leased to nobody.
LEMMA LeasedStays ==
    ASSUME TypeOK, LeaseInv, NEW tab, FewerIdle(tab),
           NEW k \in Keys, LeaseTable!Leased(k), sessions[k] # NoSession
    PROVE  tab[k] = sessions[k]
<1> DEFINE s == sessions[k]
           L == LeasesIn(leases, k)
<1>1. s \in Session /\ s.token \in Token /\ Account(s, leaseCounts[k], legacyReleases[k], L, forced)
  BY DEF TypeOK, LeaseInv, Accounts, Session
<1>2. PICK l \in leases : l.key = k /\ l.token = s.token
  BY DEF LeaseTable!Leased
<1>3. l \in OfToken(L, s.token)
  BY <1>2 DEF OfToken, LeasesIn
<1>4. s.refCount # 0
  <2> HIDE DEF L, s
  <2> QED  BY <1>1, <1>3, IdleIsUnheld DEF s
<1> QED  BY <1>4 DEF FewerIdle

LEMMA FewerIdleSurvive ==
    ASSUME TypeOK, LeaseInv, NEW tab, FewerIdle(tab)
    PROVE  /\ LiveKeys(tab) \in LeaseTable!Survivors
           /\ Tokens(tab) = LeaseTable!Kept(LiveKeys(tab))
<1>1. IsTable(sessions) /\ IsTable(tab)
  BY DEF TypeOK, IsTable, FewerIdle
<1>2. LeaseTable!Live(Tokens(sessions)) = LiveKeys(sessions)
  BY <1>1, TokensOfTable DEF LeaseTable!Live, LiveKeys
<1>3. LiveKeys(tab) \subseteq LiveKeys(sessions)
  BY DEF FewerIdle, LiveKeys
<1>4. \A k \in LiveKeys(sessions) : LeaseTable!Leased(k) => k \in LiveKeys(tab)
  BY LeasedStays DEF LiveKeys
<1>5. LiveKeys(tab) \in LeaseTable!Survivors
  BY <1>2, <1>3, <1>4 DEF LeaseTable!Survivors, Tokens
<1>6. \A k \in Keys : tab[k] # NoSession => tab[k] = sessions[k]
  BY DEF FewerIdle
<1>7. Tokens(tab) = LeaseTable!Kept(LiveKeys(tab))
  BY <1>6 DEF LeaseTable!Kept, LiveKeys, Tokens
<1> QED  BY <1>5, <1>7

LEMMA CollectedIsFewer == ASSUME TypeOK PROVE FewerIdle(Collected(sessions))
BY CollectedType, CollectedDrops DEF TypeOK, FewerIdle, IsTable

-----------------------------------------------------------------------------
(* What each step is to the users.                                         *)

\* Nothing they see.
LEMMA SameTokensStutter ==
    ASSUME Tokens(sessions') = Tokens(sessions), UNCHANGED <<leases, minted, forced>>
    PROVE  UNCHANGED LeaseTable!vars
BY CurrentIsTokens

\* Idle sessions are gone.
LEMMA FewerIdleDrops ==
    ASSUME TypeOK, LeaseInv, FewerIdle(sessions'), UNCHANGED <<leases, minted, forced>>
    PROVE  LeaseTable!Drop
<1>1. Tokens(sessions') = LeaseTable!Kept(LiveKeys(sessions'))
  BY FewerIdleSurvive
<1>2. LiveKeys(sessions') \in LeaseTable!Survivors
  BY FewerIdleSurvive
<1> QED  BY <1>1, <1>2 DEF LeaseTable!Drop, Tokens

\* The key's session is leased once more.
LEMMA ExistingShares ==
    ASSUME TypeOK, TypeOK', LeaseInv, NEW t \in Threads, AcquireExisting(t),
           NEW k \in Keys, k = Top(t).key
    PROVE  LeaseTable!Share(t, k)
<1> DEFINE tab == Collected(sessions)
           s == tab[k]
           keep == LiveKeys(tab)
<1>1. s # NoSession /\ FewerIdle(tab) /\ IsTable(tab) /\ IsTable(sessions')
  BY CollectedIsFewer DEF AcquireExisting, FewerIdle, TypeOK, IsTable
<1>2. keep \in LeaseTable!Survivors /\ Tokens(tab) = LeaseTable!Kept(keep) /\ k \in keep
  BY <1>1, FewerIdleSurvive DEF LiveKeys
<1>3. /\ \A j \in Keys \ {k} : sessions'[j] = tab[j]
      /\ sessions'[k].token = s.token
  BY <1>1 DEF AcquireExisting, Referenced, IsTable, Session
<1>4. sessions'[k] # NoSession
  <2> DEFINE c == WithCount(leaseCounts[k], s.token, CountOf(leaseCounts[k], s.token) + 1)
             n == IF leaseCounts[k] = NoCounts THEN s.refCount + 1
                  ELSE ReferenceBound(c, legacyReleases[k], s.token)
  <2>1. s \in Session /\ s.token \in Token /\ s.refCount \in Nat
    BY <1>1 DEF FewerIdle, IsTable, Session
  <2>2. n \in Nat
    <3>1. IsCounts(leaseCounts[k]) /\ legacyReleases[k] \in Nat
      BY <1>1 DEF TypeOK
    <3>2. CountOf(leaseCounts[k], s.token) + 1 \in Nat
      BY <3>1, CountOfType
    <3> HIDE DEF s
    <3>3. IsCounts(c)
      BY <2>1, <3>1, <3>2, CountsType
    <3> HIDE DEF c
    <3> QED  BY <2>1, <3>1, <3>3, ReferenceBoundType
  <2>3. sessions'[k] = Referenced(s, n)
    BY <1>1 DEF AcquireExisting, FewerIdle, IsTable
  <2>4. Referenced(s, n) \in Session
    BY <2>1, <2>2, ReferencedType DEF TypeOK
  <2> QED  BY <2>3, <2>4, ConstantsAssumption DEF Session, Token
<1>5. Tokens(sessions') = Tokens(tab)
  BY <1>1, <1>3, <1>4 DEF Tokens
<1>6. s.token = Tokens(sessions)[k]
  BY <1>1 DEF Tokens, FewerIdle
<1>7. leases' = leases \cup {LeaseTable!Lease(t, k, Tokens(sessions)[k])}
  BY <1>6 DEF AcquireExisting, LeaseTable!Lease
<1>8. UNCHANGED <<minted, forced>>
  BY DEF AcquireExisting
<1> HIDE DEF keep
<1> QED  BY <1>2, <1>5, <1>7, <1>8 DEF LeaseTable!Share, Tokens

\* A new session, where there was none and in a slot that is free.
LEMMA InstallCreates ==
    ASSUME TypeOK, CallInv, LeaseInv, WithinCapacity, NEW t \in Threads, FactoryInstalls(t),
           NEW k \in Keys, k = Top(t).key
    PROVE  LeaseTable!Create(t, k)
<1> DEFINE tab == Collected(sessions)
           new == [token |-> minted + 1, refCount |-> 1, created |-> clock,
                   lastAccess |-> clock, idleSince |-> NotIdle]
<1>1. sessions[k] = NoSession
  <2>1. /\ InCall(t, "factory") /\ Len(calls[t]) \in 1 .. Len(calls[t])
        /\ calls[t][Len(calls[t])] = Factory(k)
    BY TopType, LenProperties DEF FactoryInstalls, Top, Depth, Factory
  <2>2. pending[k] = t /\ t # NoThread
    BY <2>1, ConstantsAssumption DEF CallInv, CallsMatch
  <2> QED  BY <2>1, <2>2 DEF CallInv, CallsMatch
<1>2. new \in Session /\ new # NoSession /\ minted + 1 \in Token
  <2>1. new \in Session /\ minted + 1 \in Token
    BY DEF Session, TypeOK, Token
  <2> QED  BY <2>1, ConstantsAssumption DEF Session, Token
<1>3. FewerIdle(tab) /\ tab[k] = NoSession
  BY <1>1, CollectedIsFewer DEF FewerIdle
<1>4. PICK room \in SlotEnsured(tab) : sessions' = [room EXCEPT ![k] = new]
  BY DEF FactoryInstalls
<1> HIDE DEF tab, new
<1>5. \/ room = tab /\ ~Full(tab)
      \/ Full(tab) /\ \E v \in Victims(tab) : room = [tab EXCEPT ![v] = NoSession]
  BY <1>4 DEF SlotEnsured
<1>6. \A v \in Victims(tab) : v \in Keys /\ v \in LiveKeys(tab) /\ tab[v] # NoSession /\ tab[v].refCount = 0
  BY DEF Victims, IdleKeys, LiveKeys
<1>7. FewerIdle(room) /\ k \notin LiveKeys(room)
  BY <1>1, <1>3, <1>5, <1>6 DEF FewerIdle, IsTable, LiveKeys
<1>8. Cardinality(LiveKeys(room)) < MaxSessions
  <2>1. /\ IsFiniteSet(LiveKeys(tab)) /\ Cardinality(LiveKeys(tab)) \in Nat
        /\ Cardinality(LiveKeys(sessions)) \in Nat
        /\ Cardinality(LiveKeys(tab)) <= Cardinality(LiveKeys(sessions))
    BY <1>3, FewerLiveKeys DEF FewerIdle
  <2>2. Cardinality(LiveKeys(tab)) <= MaxSessions /\ MaxSessions \in Nat
    BY <2>1, ConstantsAssumption DEF WithinCapacity
  <2>3. CASE room = tab /\ ~Full(tab)
    BY <2>1, <2>2, <2>3 DEF Full
  <2>4. ASSUME NEW v \in Victims(tab), room = [tab EXCEPT ![v] = NoSession]
        PROVE  Cardinality(LiveKeys(room)) < MaxSessions
    <3>1. LiveKeys(room) \subseteq LiveKeys(tab) \ {v}
      BY <1>3, <1>6, <2>4 DEF LiveKeys, FewerIdle, IsTable
    <3>2. /\ IsFiniteSet(LiveKeys(tab) \ {v})
          /\ Cardinality(LiveKeys(tab) \ {v}) = Cardinality(LiveKeys(tab)) - 1
      BY <1>6, <2>1, FS_RemoveElement
    <3>3. /\ Cardinality(LiveKeys(room)) \in Nat
          /\ Cardinality(LiveKeys(room)) <= Cardinality(LiveKeys(tab) \ {v})
      BY <3>1, <3>2, FS_Subset, FS_CardinalityType
    <3> QED  BY <2>1, <2>2, <3>2, <3>3
  <2> QED  BY <1>5, <2>3, <2>4
<1>9. LiveKeys(room) \in LeaseTable!Survivors /\ Tokens(room) = LeaseTable!Kept(LiveKeys(room))
  BY <1>7, FewerIdleSurvive
<1>10. Tokens(sessions') = [Tokens(room) EXCEPT ![k] = minted + 1]
  BY <1>1, <1>2, <1>4, <1>7 DEF Tokens, FewerIdle, IsTable, new
<1>11. /\ minted' = minted + 1
       /\ leases' = leases \cup {LeaseTable!Lease(t, k, minted + 1)}
       /\ UNCHANGED forced
  BY DEF FactoryInstalls, LeaseTable!Lease
<1> DEFINE keep == LiveKeys(room)
<1>12. /\ keep \in LeaseTable!Survivors /\ k \notin keep /\ Cardinality(keep) < MaxSessions
       /\ Tokens(sessions') = [LeaseTable!Kept(keep) EXCEPT ![k] = minted + 1]
  BY <1>7, <1>8, <1>9, <1>10
<1> HIDE DEF keep
<1>13. LeaseTable!Cardinality(keep) = Cardinality(keep)
  BY DEF LeaseTable!Cardinality, Cardinality
<1> QED  BY <1>11, <1>12, <1>13 DEF LeaseTable!Create, Tokens

\* A lease comes back, and its session goes with the last one of them.
LEMMA ReleaseReturns ==
    ASSUME TypeOK, TypeOK', LeaseInv, NEW t \in Threads, NEW l \in leases,
           NEW exact \in BOOLEAN, Release(t, l, exact)
    PROVE  LeaseTable!Return(l)
<1> DEFINE k == l.key
<1>1. k \in Keys /\ IsTable(sessions) /\ IsTable(sessions')
  BY DEF TypeOK, Lease, IsTable
<1>2. leases' = leases \ {l} /\ UNCHANGED <<minted, forced>>
  BY DEF Release
<1>3. ReturnedAt(k, l)
  BY PlainReturns, AmbiguousReturns DEF Release
<1> HIDE DEF k
<1>4. \A j \in Keys \ {k} : sessions'[j] = sessions[j]
  BY <1>3 DEF ReturnedAt
<1>5. CASE sessions'[k] # NoSession \/ sessions[k] = NoSession
  <2>1. Tokens(sessions') = Tokens(sessions)
    BY <1>1, <1>3, <1>4, <1>5 DEF ReturnedAt, Tokens
  <2> QED  BY <1>2, <2>1 DEF LeaseTable!Return, Tokens
<1>6. CASE sessions'[k] = NoSession /\ sessions[k] # NoSession
  <2>1. Tokens(sessions') = [Tokens(sessions) EXCEPT ![k] = NoSession]
    <3>1. \A j \in Keys : Tokens(sessions')[j] = IF j = k THEN NoSession ELSE Tokens(sessions)[j]
      BY <1>4, <1>6 DEF Tokens
    <3> QED  BY <1>1, <3>1 DEF Tokens
  <2>2. \A m \in leases \ {l} : m.key = k => m.token # Tokens(sessions)[k]
    BY <1>1, <1>3, <1>6 DEF ReturnedAt, LeasesIn, Tokens
  <2> QED  BY <1>2, <2>1, <2>2 DEF LeaseTable!Return, Tokens, k
<1> QED  BY <1>5, <1>6

\* The one way to lose a leased session, and it is recorded.
LEMMA ForceIsRecorded ==
    ASSUME TypeOK, NEW k \in Keys, ForceClose(k)
    PROVE  LeaseTable!ForceClose(k)
<1>1. sessions[k] # NoSession /\ IsTable(sessions)
  BY DEF ForceClose, LiveKeys, TypeOK, IsTable
<1>2. Tokens(sessions)[k] = sessions[k].token /\ Tokens(sessions)[k] # NoSession
  BY <1>1, TokensOfTable
<1>3. Tokens(sessions') = [Tokens(sessions) EXCEPT ![k] = NoSession]
  BY <1>1 DEF ForceClose, Tokens, IsTable
<1>4. forced' = forced \cup {Tokens(sessions)[k]} /\ UNCHANGED <<leases, minted>>
  BY <1>2 DEF ForceClose
<1> QED  BY <1>2, <1>3, <1>4 DEF LeaseTable!ForceClose, Tokens

-----------------------------------------------------------------------------
LEMMA StepIsStep ==
    ASSUME TypeOK, TypeOK', CallInv, LeaseInv, WithinCapacity, [Next]_vars
    PROVE  [LeaseTable!Next]_(LeaseTable!vars)
<1>0. FewerIdle(Collected(sessions)) /\ IsTable(sessions)
  BY CollectedIsFewer DEF TypeOK, IsTable
<1>1. ASSUME NEW t \in Threads, AcquireExisting(t)
      PROVE  LeaseTable!Next
  <2>1. PICK k \in Keys : k = Top(t).key
    BY <1>1, TopType DEF AcquireExisting
  <2> QED  BY <1>1, <2>1, ExistingShares DEF LeaseTable!Next
<1>2. ASSUME NEW t \in Threads, FactoryInstalls(t)
      PROVE  LeaseTable!Next
  <2>1. PICK k \in Keys : k = Top(t).key
    BY <1>2, TopType DEF FactoryInstalls
  <2> QED  BY <1>2, <2>1, InstallCreates DEF LeaseTable!Next
<1>3. ASSUME NEW t \in Threads, NEW l \in leases, NEW exact \in BOOLEAN, Release(t, l, exact)
      PROVE  LeaseTable!Next
  BY <1>3, ReleaseReturns DEF LeaseTable!Next
<1>4. ASSUME NEW k \in Keys, ForceClose(k)
      PROVE  LeaseTable!Next
  BY <1>4, ForceIsRecorded DEF LeaseTable!Next
<1>5. ASSUME NEW t \in Threads,
             \/ AcquireCreate(t) \/ AcquireRefused(t) \/ AcquireReentrant(t) \/ AcquireWait(t)
             \/ FactoryFindsNoSlot(t)
      PROVE  LeaseTable!Next
  <2>1. FewerIdle(sessions') /\ UNCHANGED <<leases, minted, forced>>
    BY <1>0, <1>5 DEF AcquireCreate, AcquireRefused, AcquireReentrant, AcquireWait, FactoryFindsNoSlot
  <2> QED  BY <2>1, FewerIdleDrops DEF LeaseTable!Next
<1>6. ASSUME CollectExpired \/ \E k \in Keys : CloseIdle(k)
      PROVE  LeaseTable!Next
  <2>1. FewerIdle(sessions') /\ UNCHANGED <<leases, minted, forced>>
    BY <1>0, <1>6 DEF CollectExpired, CloseIdle, IdleKeys, FewerIdle, IsTable
  <2> QED  BY <2>1, FewerIdleDrops DEF LeaseTable!Next
<1>7. ASSUME NEW t \in Threads, NEW l \in leases, Touch(t, l)
      PROVE  UNCHANGED LeaseTable!vars
  <2>1. /\ l.key \in Keys /\ sessions[l.key] # NoSession
        /\ sessions' = [sessions EXCEPT ![l.key] = Touched(@)]
        /\ UNCHANGED <<leases, minted, forced>>
    BY <1>7 DEF Touch, TypeOK, Lease
  <2>2. Touched(sessions[l.key]).token = sessions[l.key].token /\ Touched(sessions[l.key]) # NoSession
    <3>1. sessions[l.key] \in Session
      BY <1>0, <2>1 DEF IsTable
    <3>2. Touched(sessions[l.key]) \in Session
      BY <3>1 DEF Touched, Session, TypeOK
    <3> QED  BY <3>1, <3>2, ConstantsAssumption DEF Touched, Session, Token
  <2>3. Tokens(sessions') = Tokens(sessions)
    BY <1>0, <2>1, <2>2 DEF Tokens, IsTable
  <2> QED  BY <2>1, <2>3, SameTokensStutter
<1>8. ASSUME \/ \E t \in Threads : FactoryFails(t) \/ \E k \in Keys : CallAcquire(t, k)
             \/ Tick \/ UNCHANGED vars
      PROVE  UNCHANGED LeaseTable!vars
  <2>1. UNCHANGED <<sessions, leases, minted, forced>>
    BY <1>8 DEF FactoryFails, CallAcquire, Tick, vars
  <2> QED  BY <2>1, SameTokensStutter
<1> QED
  BY <1>1, <1>2, <1>3, <1>4, <1>5, <1>6, <1>7, <1>8 DEF Next, AcquireStep, FactoryEnds

\* Whatever the manager does with counts, clocks, tokens and creation records,
\* its users see the lease table: sessions that are shared while leased,
\* dropped only when nobody leases them or by force, and bounded.
THEOREM LeaseTableImplemented == Spec => ImplementsLeaseTable
<1>1. Init => LeaseTable!Init
  BY DEF Init, LeaseTable!Init
<1> QED
  BY <1>1, StepIsStep, TypeCorrect, CallInvAlways, LeaseInvAlways, CapacityRespected, PTL
     DEF Spec, ImplementsLeaseTable, LeaseTable!Spec
=============================================================================
