------------------------- MODULE ReporterPoolProofs -------------------------
(* Proofs about ReporterPool, for every set of UIDs, capacity and TTL and  *)
(* every clock.                                                            *)
EXTENDS ReporterPool, FiniteSetTheorems, TLAPS

(* The last reporter, while it is pooled, is the newest one of the LRU and *)
(* the one that was accessed last.                                         *)
LastIsNewest ==
    /\ lastUID \in pool =>
         \A u \in pool \ {lastUID} : <<u, lastUID>> \in older
    /\ lastUID # NoUID => \A u \in pool : lastAccess[u] <= lastAccess[lastUID]

(* The LRU order is a strict total order.                                  *)
OrderIsTotal ==
    /\ \A u, v \in pool : u # v => <<u, v>> \in older \/ <<v, u>> \in older
    /\ \A u, v, w \in pool :
         <<u, v>> \in older /\ <<v, w>> \in older => <<u, w>> \in older
    /\ \A u \in pool : <<u, u>> \notin older

(* No access is in the future, and at the last sweep no reporter was aged. *)
Times ==
    /\ lastExpiration <= now
    /\ \A u \in UIDs : lastAccess[u] <= now
    /\ \A u \in pool : lastExpiration - lastAccess[u] < TTL
    /\ lastUID # NoUID => lastAccess[lastUID] - lastExpiration < TTL

IInv ==
    /\ TypeOK
    /\ LastIsNewest
    /\ OrderIsTotal
    /\ OrderIsAccessOrder
    /\ Times

-----------------------------------------------------------------------------
(* What For and ForFails share: the sweep.  Whatever stays in the pool is  *)
(* not aged once a sweep has happened.                                     *)
LEMMA SweptAreAged ==
    ASSUME IInv, SweepDue, NEW u \in pool \ Swept
    PROVE  now - lastAccess[u] < TTL
<1>1. PICK v \in pool : (v = u \/ <<v, u>> \in older) /\ ~Aged(v)
  BY DEF Swept
<1>2. lastAccess[v] <= lastAccess[u]
  BY <1>1 DEF IInv, OrderIsAccessOrder, TypeOK
<1>3. now \in Nat /\ lastAccess[u] \in Nat /\ lastAccess[v] \in Nat /\ TTL \in Nat
  BY PoolAssumption DEF IInv, TypeOK
<1> QED BY <1>1, <1>2, <1>3 DEF Aged

(* The pool after For is made of reporters that were not swept and of the  *)
(* one that was asked for; the order is the old one with it at the end.    *)
LEMMA ForPool ==
    ASSUME TypeOK, NEW uid \in UIDs, For(uid)
    PROVE  /\ pool' \subseteq (pool \ Swept) \cup {uid}
           /\ lastUID' = uid
           /\ lastUID # uid => uid \in pool'
           /\ lastUID = uid => older' = older \cap (pool' \X pool')
           /\ lastUID # uid => older' = TouchedIn(pool', uid)
           /\ lastUID = uid => pool' \subseteq pool
           /\ older' \in SUBSET (pool' \X pool')
<1>0. ASSUME NEW P, uid \in P PROVE TouchedIn(P, uid) \in SUBSET (P \X P)
  BY <1>0 DEF TouchedIn
<1>1. CASE ForLast(uid)
  BY <1>1 DEF ForLast, TypeOK
<1>2. CASE ForPooled(uid)
  <2>1. /\ pool' = pool \ Swept /\ uid \in pool' /\ older' = TouchedIn(pool', uid)
        /\ lastUID # uid /\ lastUID' = uid
    BY <1>2 DEF ForPooled
  <2>2. older' \in SUBSET (pool' \X pool')
    BY <1>0, <2>1
  <2> QED BY <2>1, <2>2
<1>3. CASE ForNew(uid)
  <2>1. /\ pool' = {uid} \cup ((pool \ Swept) \ Evicted(pool \ Swept))
        /\ older' = TouchedIn(pool', uid) /\ lastUID # uid /\ lastUID' = uid
    BY <1>3 DEF ForNew
  <2>2. pool' \subseteq (pool \ Swept) \cup {uid} /\ uid \in pool'
    BY <2>1
  <2>3. older' \in SUBSET (pool' \X pool')
    BY <1>0, <2>1, <2>2
  <2> QED BY <2>1, <2>2, <2>3
<1> QED BY <1>1, <1>2, <1>3 DEF For

(* The inductive invariant holds initially.                                *)
LEMMA InductiveInit == Init => IInv
BY PoolAssumption
   DEF Init, IInv, TypeOK, LastIsNewest, OrderIsTotal, OrderIsAccessOrder, Times

(* For keeps it: the reporter it returns becomes, or already was, the      *)
(* newest one of the LRU.                                                  *)
LEMMA InductiveFor ==
    ASSUME IInv, NEW uid \in UIDs, For(uid)
    PROVE  IInv'
<1> USE DEF IInv
<1>0. /\ now \in Nat /\ TTL \in Nat \ {0} /\ lastExpiration \in Nat
      /\ \A u \in UIDs : lastAccess[u] \in Nat
      /\ uid # NoUID
  BY PoolAssumption DEF TypeOK
<1>1. /\ pool' \subseteq (pool \ Swept) \cup {uid}
      /\ lastUID' = uid
      /\ lastUID # uid => uid \in pool'
      /\ lastUID = uid => older' = older \cap (pool' \X pool')
      /\ lastUID # uid => older' = TouchedIn(pool', uid)
      /\ lastUID = uid => pool' \subseteq pool
      /\ older' \in SUBSET (pool' \X pool')
  BY ForPool
<1>2. /\ lastAccess' = [lastAccess EXCEPT ![uid] = now]
      /\ lastExpiration' = IF SweepDue THEN now ELSE lastExpiration
      /\ now' = now
  BY DEF For
<1>3. lastAccess'[uid] = now /\ \A u \in UIDs \ {uid} : lastAccess'[u] = lastAccess[u]
  BY <1>2 DEF TypeOK
<1>4. TypeOK'
  BY <1>0, <1>1, <1>2 DEF TypeOK
<1>5. LastIsNewest'
  <2>1. uid \in pool' => \A u \in pool' \ {uid} : <<u, uid>> \in older'
    BY <1>1 DEF LastIsNewest, TouchedIn
  <2>2. \A u \in pool' : lastAccess'[u] <= now
    BY <1>0, <1>1, <1>3, <1>4 DEF Times, TypeOK
  <2> QED BY <1>1, <1>3, <2>1, <2>2 DEF LastIsNewest
<1>6. OrderIsTotal'
  <2>1. CASE lastUID = uid
    BY <1>1, <2>1 DEF OrderIsTotal
  <2>2. CASE lastUID # uid
    <3>1. older' = (older \cap ((pool' \ {uid}) \X (pool' \ {uid})))
                     \cup {<<v, uid>> : v \in pool' \ {uid}}
      BY <1>1, <2>2 DEF TouchedIn
    <3>2. \A u, v \in pool' \ {uid} : <<u, v>> \in older' <=> <<u, v>> \in older
      BY <3>1
    <3>3. \A u \in pool' : <<uid, u>> \notin older'
      BY <3>1
    <3>4. \A u \in pool' \ {uid} : <<u, uid>> \in older'
      BY <3>1
    <3>5. pool' \ {uid} \subseteq pool
      BY <1>1
    <3> QED BY <3>2, <3>3, <3>4, <3>5 DEF OrderIsTotal
  <2> QED BY <2>1, <2>2
<1>7. OrderIsAccessOrder'
  <2> SUFFICES ASSUME NEW u \in pool', NEW v \in pool', <<u, v>> \in older'
               PROVE  lastAccess'[u] <= lastAccess'[v]
    BY DEF OrderIsAccessOrder
  <2>1. u \in UIDs /\ v \in UIDs
    BY <1>4 DEF TypeOK
  <2>2. CASE v = uid
    BY <1>0, <1>3, <2>1, <2>2 DEF Times
  <2>3. CASE v # uid
    <3>1. v \in pool
      BY <1>1, <2>3
    <3>2. <<u, v>> \in older
      BY <1>1, <2>3 DEF TouchedIn
    <3>3. u # uid
      <4>1. CASE lastUID = uid
        BY <1>1, <2>3, <3>1, <3>2, <4>1 DEF LastIsNewest, OrderIsTotal
      <4>2. CASE lastUID # uid
        BY <1>1, <2>3, <4>2 DEF TouchedIn
      <4> QED BY <4>1, <4>2
    <3>4. u \in pool
      BY <1>1, <3>3
    <3> QED BY <1>3, <2>1, <2>3, <3>1, <3>2, <3>3, <3>4 DEF OrderIsAccessOrder
  <2> QED BY <2>2, <2>3
<1>8. Times'
  <2>1. lastExpiration' <= now' /\ \A u \in UIDs : lastAccess'[u] <= now'
    BY <1>0, <1>2, <1>3 DEF Times
  <2>2. \A u \in pool' : lastExpiration' - lastAccess'[u] < TTL
    <3> SUFFICES ASSUME NEW u \in pool' PROVE lastExpiration' - lastAccess'[u] < TTL
      OBVIOUS
    <3>1. u \in UIDs
      BY <1>4 DEF TypeOK
    <3>2. CASE u = uid
      BY <1>0, <1>2, <1>3, <3>2 DEF Times
    <3>3. CASE u # uid /\ SweepDue
      BY <1>1, <1>2, <1>3, <3>1, <3>3, SweptAreAged
    <3>4. CASE u # uid /\ ~SweepDue
      BY <1>1, <1>2, <1>3, <3>1, <3>4 DEF Times
    <3> QED BY <3>2, <3>3, <3>4
  <2>3. lastAccess'[lastUID'] - lastExpiration' < TTL
    BY <1>0, <1>1, <1>2, <1>3 DEF SweepDue
  <2> QED BY <2>1, <2>2, <2>3 DEF Times
<1> QED BY <1>4, <1>5, <1>6, <1>7, <1>8

(* A failed constructor leaves the invariant: only the sweep has happened. *)
LEMMA InductiveForFails ==
    ASSUME IInv, NEW uid \in UIDs, ForFails(uid)
    PROVE  IInv'
<1> USE DEF IInv
<1>0. /\ now \in Nat /\ TTL \in Nat \ {0} /\ lastExpiration \in Nat
      /\ \A u \in UIDs : lastAccess[u] \in Nat
  BY PoolAssumption DEF TypeOK
<1>1. /\ pool' = pool \ Swept
      /\ older' = older \cap (pool' \X pool')
      /\ lastExpiration' = IF SweepDue THEN now ELSE lastExpiration
      /\ UNCHANGED <<now, lastAccess, lastUID>>
  BY DEF ForFails
<1>2. TypeOK'
  BY <1>0, <1>1 DEF TypeOK
<1>3. LastIsNewest' /\ OrderIsTotal' /\ OrderIsAccessOrder'
  BY <1>1 DEF LastIsNewest, OrderIsTotal, OrderIsAccessOrder
<1>4. \A u \in pool' : lastExpiration' - lastAccess'[u] < TTL
  BY <1>1, SweptAreAged DEF Times
<1>5. lastExpiration' <= now' /\ \A u \in UIDs : lastAccess'[u] <= now'
  BY <1>0, <1>1 DEF Times
<1>6. lastUID' # NoUID => lastAccess'[lastUID'] - lastExpiration' < TTL
  <2> SUFFICES ASSUME lastUID # NoUID PROVE lastAccess[lastUID] - lastExpiration' < TTL
    BY <1>1
  <2>1. lastUID \in UIDs
    BY DEF TypeOK
  <2> QED BY <1>0, <1>1, <2>1 DEF Times
<1> QED BY <1>2, <1>3, <1>4, <1>5, <1>6 DEF Times

(* The inductive invariant is preserved by every step.                     *)
LEMMA InductiveStep == IInv /\ [Next]_vars => IInv'
<1> SUFFICES ASSUME IInv, [Next]_vars PROVE IInv'
  OBVIOUS
<1>1. CASE UNCHANGED vars
  BY <1>1 DEF vars, poolVars, IInv, TypeOK, LastIsNewest, OrderIsTotal,
              OrderIsAccessOrder, Times
<1>2. CASE Advance
  <2>1. now' = now + 1 /\ UNCHANGED <<pool, older, lastAccess, lastUID, lastExpiration>>
    BY <1>2 DEF Advance, poolVars
  <2>2. TypeOK'
    BY <2>1 DEF IInv, TypeOK
  <2>3. LastIsNewest' /\ OrderIsTotal' /\ OrderIsAccessOrder'
    BY <2>1 DEF IInv, LastIsNewest, OrderIsTotal, OrderIsAccessOrder
  <2>4. Times'
    BY <2>1 DEF IInv, TypeOK, Times
  <2> QED BY <2>2, <2>3, <2>4 DEF IInv
<1>3. CASE \E uid \in UIDs : For(uid) \/ ForFails(uid)
  BY <1>3, InductiveFor, InductiveForFails
<1> QED BY <1>1, <1>2, <1>3 DEF Next

-----------------------------------------------------------------------------
(* The LRU order is the order of the last accesses, although the fast path *)
(* of For refreshes an access time without touching the LRU.               *)
THEOREM OrderIsAccessOrderCorrect == Spec => []OrderIsAccessOrder
<1>1. IInv => OrderIsAccessOrder
  BY DEF IInv
<1> QED BY <1>1, InductiveInit, InductiveStep, PTL DEF Spec

(* A sweep, which stops at the first reporter that is not aged, leaves no  *)
(* aged reporter behind it.                                                *)
THEOREM SweepLeavesNoneAgedCorrect == Spec => SweepLeavesNoneAged
<1>1. ASSUME IInv, [Next]_vars, ~UNCHANGED vars, SweepDue, lastExpiration' = now,
             NEW u \in pool'
      PROVE  now - lastAccess'[u] < TTL
  <2>0. now \in Nat /\ TTL \in Nat \ {0} /\ lastExpiration \in Nat
    BY <1>1, PoolAssumption DEF IInv, TypeOK
  <2>1. CASE Advance
    BY <1>1, <2>0, <2>1 DEF Advance, poolVars, SweepDue
  <2>2. ASSUME NEW uid \in UIDs, For(uid) PROVE now - lastAccess'[u] < TTL
    <3>1. u \in (pool \ Swept) \cup {uid}
      BY <1>1, <2>2, ForPool DEF IInv
    <3>2. lastAccess' = [lastAccess EXCEPT ![uid] = now]
      BY <2>2 DEF For
    <3>3. u \in UIDs /\ lastAccess \in [UIDs -> Nat]
      BY <1>1, <2>2, <3>1 DEF IInv, TypeOK
    <3>4. CASE u = uid
      BY <2>0, <3>2, <3>3, <3>4
    <3>5. CASE u # uid
      BY <1>1, <3>1, <3>2, <3>3, <3>5, SweptAreAged
    <3> QED BY <3>4, <3>5
  <2>3. ASSUME NEW uid \in UIDs, ForFails(uid) PROVE now - lastAccess'[u] < TTL
    BY <1>1, <2>3, SweptAreAged DEF ForFails
  <2> QED BY <1>1, <2>1, <2>2, <2>3 DEF Next
<1>2. IInv /\ [Next]_vars =>
        [SweepDue /\ lastExpiration' = now =>
           \A u \in pool' : now - lastAccess'[u] < TTL]_vars
  BY <1>1
<1> QED BY <1>2, InductiveInit, InductiveStep, PTL DEF Spec, SweepLeavesNoneAged

(* Whenever a reporter is returned no pooled reporter has been idle for    *)
(* twice the TTL, although sweeps happen only on demand and once per TTL.  *)
THEOREM IdleBelowTwoTTLsCorrect == Spec => []IdleBelowTwoTTLs
<1>1. ASSUME IInv PROVE IdleBelowTwoTTLs
  <2> SUFFICES ASSUME lastUID # NoUID, NEW u \in pool
               PROVE  lastAccess[lastUID] - lastAccess[u] < 2 * TTL
    BY DEF IdleBelowTwoTTLs
  <2>1. /\ lastAccess[lastUID] \in Nat /\ lastAccess[u] \in Nat
        /\ lastExpiration \in Nat /\ TTL \in Nat
    BY <1>1, PoolAssumption DEF IInv, TypeOK
  <2>2. /\ lastExpiration - lastAccess[u] < TTL
        /\ lastAccess[lastUID] - lastExpiration < TTL
    BY <1>1 DEF IInv, Times
  <2> QED BY <2>1, <2>2
<1> QED BY <1>1, InductiveInit, InductiveStep, PTL DEF Spec
-----------------------------------------------------------------------------
(* Types of every variable, for every set of UIDs and every clock.         *)
THEOREM TypeCorrect == Spec => []TypeOK
<1>1. IInv => TypeOK
  BY DEF IInv
<1> QED BY <1>1, InductiveInit, InductiveStep, PTL DEF Spec

(* Any reporters of the LRU have an oldest one among them: this is what    *)
(* makes Evicted pick a reporter whenever the LRU is full.                 *)
OldestExists ==
    \A S \in SUBSET pool : S # {} =>
        \E u \in S : \A v \in S \ {u} : <<u, v>> \in older

(* A step of the pool leaves an oldest one among any reporters.            *)
LEMMA OldestStep ==
    ASSUME IInv, OldestExists, [Next]_vars
    PROVE  OldestExists'
<1>1. CASE UNCHANGED vars \/ Advance
  BY <1>1 DEF vars, poolVars, Advance, OldestExists
<1>2. ASSUME NEW uid \in UIDs, For(uid), NEW S \in SUBSET pool', S # {}
      PROVE  \E u \in S : \A v \in S \ {u} : <<u, v>> \in older'
  <2>0. /\ pool' \subseteq (pool \ Swept) \cup {uid}
        /\ lastUID = uid => older' = older \cap (pool' \X pool') /\ pool' \subseteq pool
        /\ lastUID # uid => older' = TouchedIn(pool', uid)
    BY <1>2, ForPool DEF IInv
  <2>1. CASE lastUID = uid
    <3>1. PICK u \in S : \A v \in S \ {u} : <<u, v>> \in older
      BY <1>2, <2>0, <2>1 DEF OldestExists
    <3> QED BY <1>2, <2>0, <2>1, <3>1
  <2>2. CASE lastUID # uid /\ S = {uid}
    BY <2>2
  <2>3. CASE lastUID # uid /\ S # {uid}
    <3>1. S \ {uid} \in SUBSET pool /\ S \ {uid} # {}
      BY <1>2, <2>0, <2>3
    <3>2. PICK u \in S \ {uid} : \A v \in (S \ {uid}) \ {u} : <<u, v>> \in older
      BY <3>1 DEF OldestExists
    <3>3. \A v \in S \ {u} : <<u, v>> \in older'
      BY <1>2, <2>0, <2>3, <3>2 DEF TouchedIn
    <3> QED BY <3>3
  <2> QED BY <2>1, <2>2, <2>3
<1>3. ASSUME NEW uid \in UIDs, ForFails(uid), NEW S \in SUBSET pool', S # {}
      PROVE  \E u \in S : \A v \in S \ {u} : <<u, v>> \in older'
  <2>1. pool' \subseteq pool /\ older' = older \cap (pool' \X pool')
    BY <1>3 DEF ForFails
  <2>2. PICK u \in S : \A v \in S \ {u} : <<u, v>> \in older
    BY <1>3, <2>1 DEF OldestExists
  <2> QED BY <1>3, <2>1, <2>2
<1> QED BY <1>1, <1>2, <1>3 DEF Next, OldestExists

(* Adding a reporter to a full LRU evicts one: the bound is kept.          *)
LEMMA BoundedStep ==
    ASSUME IInv, OldestExists, PoolBounded, [Next]_vars
    PROVE  PoolBounded'
<1>0. /\ pool \subseteq UIDs /\ IsFiniteSet(pool) /\ Cardinality(pool) \in Nat
      /\ Cardinality(pool) <= CacheLen /\ CacheLen \in Nat \ {0}
  BY PoolAssumption, FS_Subset, FS_CardinalityType DEF IInv, TypeOK, PoolBounded
<1>1. ASSUME pool' \subseteq pool PROVE Cardinality(pool') <= CacheLen
  <2>1. Cardinality(pool') <= Cardinality(pool) /\ Cardinality(pool') \in Nat
    BY <1>0, <1>1, FS_Subset, FS_CardinalityType
  <2> QED BY <1>0, <2>1
<1>2. ASSUME NEW uid \in UIDs, ForNew(uid) PROVE Cardinality(pool') <= CacheLen
  <2> DEFINE P == pool \ Swept
  <2>1. /\ P \subseteq pool /\ uid \notin P
        /\ pool' = {uid} \cup (P \ Evicted(P))
    BY <1>2 DEF ForNew
  <2>2. /\ IsFiniteSet(P) /\ Cardinality(P) \in Nat
        /\ Cardinality(P) <= Cardinality(pool)
    BY <1>0, <2>1, FS_Subset, FS_CardinalityType
  <2>3. CASE Cardinality(P) < CacheLen
    <3>1. pool' = P \cup {uid}
      BY <2>1, <2>3 DEF Evicted
    <3>2. Cardinality(P \cup {uid}) = Cardinality(P) + 1
      BY <2>1, <2>2, FS_AddElement
    <3> QED BY <1>0, <2>2, <2>3, <3>1, <3>2
  <2>4. CASE ~(Cardinality(P) < CacheLen)
    <3>1. P # {} /\ P \in SUBSET pool
      BY <1>0, <2>1, <2>2, <2>4, FS_EmptySet
    <3>2. PICK u \in P : \A v \in P \ {u} : <<u, v>> \in older
      BY <3>1 DEF OldestExists
    <3>3. u \in Evicted(P)
      BY <2>4, <3>2 DEF Evicted
    <3>4. /\ IsFiniteSet(P \ {u}) /\ Cardinality(P \ {u}) = Cardinality(P) - 1
      BY <2>2, <3>2, FS_RemoveElement
    <3>5. /\ IsFiniteSet((P \ {u}) \cup {uid})
          /\ Cardinality((P \ {u}) \cup {uid}) = Cardinality(P)
      <4>1. uid \notin P \ {u}
        BY <2>1
      <4>2. Cardinality((P \ {u}) \cup {uid}) = Cardinality(P \ {u}) + 1
        BY <3>4, <4>1, FS_AddElement
      <4> QED BY <2>2, <3>4, <4>2, FS_AddElement
    <3>6. pool' \subseteq (P \ {u}) \cup {uid}
      BY <2>1, <3>3
    <3>7. Cardinality(pool') <= Cardinality(P) /\ Cardinality(pool') \in Nat
      BY <3>5, <3>6, FS_Subset, FS_CardinalityType
    <3> QED BY <1>0, <2>2, <3>7
  <2> QED BY <2>3, <2>4
<1>3. pool' \subseteq pool \/ \E uid \in UIDs : ForNew(uid)
  BY DEF Next, vars, poolVars, Advance, For, ForLast, ForPooled, ForFails
<1> QED BY <1>1, <1>2, <1>3 DEF PoolBounded

(* The LRU never holds more than CacheLen reporters, for every capacity    *)
(* and every mix of sweeps, fast paths, lookups and failed constructors:   *)
(* simplelru.Add evicts at most one entry, and one is always enough.       *)
THEOREM PoolBoundedCorrect == Spec => []PoolBounded
<1>1. Init => IInv /\ OldestExists /\ PoolBounded
  BY InductiveInit, PoolAssumption, FS_EmptySet DEF Init, OldestExists, PoolBounded
<1>2. IInv /\ OldestExists /\ PoolBounded /\ [Next]_vars =>
        (IInv /\ OldestExists /\ PoolBounded)'
  BY InductiveStep, OldestStep, BoundedStep
<1> QED BY <1>1, <1>2, PTL DEF Spec
=============================================================================
