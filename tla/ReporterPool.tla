---------------------------- MODULE ReporterPool ----------------------------
(***************************************************************************)
(* otelcfg.ReporterPool: the LRU cache of OTEL reporters, one per service  *)
(* or process UID, that every OTEL metrics exporter asks for the reporter  *)
(* of the record at hand.  The last reporter is also kept outside of the   *)
(* LRU, as a fast path that skips the lookup, and reporters that were not  *)
(* asked for during a TTL are swept out, at most once per TTL.             *)
(***************************************************************************)
EXTENDS Integers, FiniteSets

CONSTANTS
    UIDs,      \* the UIDs that records carry
    NoUID,     \* emptyUID: no reporter has been returned yet
    CacheLen,  \* ReportersCacheLen
    TTL,       \* the TTL of the metrics, in ticks of the clock
    MaxTime    \* bound on the clock

VARIABLES
    now,            \* the clock
    pool,           \* UIDs in the LRU
    older,          \* LRU order: <<u, v>> when u was looked up before v
    lastAccess,     \* expirable.lastAccess of the latest reporter of each UID
    lastUID,        \* lastServiceUID, the UID of lastReporter
    lastExpiration  \* when expireOldReporters last swept the LRU

poolVars == <<pool, older, lastAccess, lastUID, lastExpiration>>
vars == <<now, poolVars>>

ASSUME PoolAssumption ==
    /\ IsFiniteSet(UIDs)
    /\ NoUID \notin UIDs
    /\ CacheLen \in Nat \ {0}
    /\ TTL \in Nat \ {0}
    /\ MaxTime \in Nat

Init ==
    /\ now = 0
    /\ pool = {}
    /\ older = {}
    /\ lastAccess = [u \in UIDs |-> 0]
    /\ lastUID = NoUID
    /\ lastExpiration = 0

Advance ==
    /\ now < MaxTime
    /\ now' = now + 1
    /\ UNCHANGED poolVars

-----------------------------------------------------------------------------
SweepDue == now - lastExpiration >= TTL

Aged(u) == now - lastAccess[u] >= TTL

(* mutant of Swept: an "if" in place of the "for", only one reporter goes  *)
SweptOnlyOne ==
    IF SweepDue
    THEN {u \in pool : Aged(u) /\ \A v \in pool : <<v, u>> \notin older}
    ELSE {}

(* expireOldReporters: the oldest reporter goes while it is aged, so one   *)
(* stays as soon as it, or one before it in the LRU, is not                *)
Swept ==
    IF SweepDue
    THEN {u \in pool : \A v \in pool : v = u \/ <<v, u>> \in older => Aged(v)}
    ELSE {}

(* mutant of Evicted: off by one                                           *)
EvictedTooLate(P) ==
    IF Cardinality(P) <= CacheLen THEN {}
    ELSE {u \in P : \A v \in P \ {u} : <<u, v>> \in older}

(* the reporter that LRU.Add evicts from the reporters in P to make room   *)
Evicted(P) ==
    IF Cardinality(P) < CacheLen THEN {}
    ELSE {u \in P : \A v \in P \ {u} : <<u, v>> \in older}

(* the LRU order on P once u was looked up or added                        *)
TouchedIn(P, u) ==
    (older \cap ((P \ {u}) \X (P \ {u}))) \cup {<<v, u>> : v \in P \ {u}}

(* mutant of ForLast: the list of the LRU keeps what its map forgot        *)
ForLastKeepsList(uid) ==
    /\ lastUID = uid
    /\ pool' = pool \ Swept
    /\ older' = older
    /\ lastUID' = lastUID

(* For, the fast path: the record has the same UID as the previous one     *)
ForLast(uid) ==
    /\ lastUID = uid
    /\ pool' = pool \ Swept
    /\ older' = older \cap (pool' \X pool')
    /\ lastUID' = lastUID

(* mutant of ForPooled: Peek in place of Get, the LRU order is not updated *)
ForPooledPeeks(uid) ==
    /\ lastUID # uid
    /\ uid \in pool \ Swept
    /\ pool' = pool \ Swept
    /\ older' = older \cap (pool' \X pool')
    /\ lastUID' = uid

(* For, through get: the LRU has a reporter of this UID                    *)
ForPooled(uid) ==
    /\ lastUID # uid
    /\ uid \in pool \ Swept
    /\ pool' = pool \ Swept
    /\ older' = TouchedIn(pool', uid)
    /\ lastUID' = uid

(* For, through get: a reporter is created and added                       *)
ForNew(uid) ==
    /\ lastUID # uid
    /\ uid \notin pool \ Swept
    /\ pool' = {uid} \cup ((pool \ Swept) \ Evicted(pool \ Swept))
    /\ older' = TouchedIn(pool', uid)
    /\ lastUID' = uid

(* For returns the reporter of a UID                                       *)
For(uid) ==
    /\ ForLast(uid) \/ ForPooled(uid) \/ ForNew(uid)
    /\ lastAccess' = [lastAccess EXCEPT ![uid] = now]
    /\ lastExpiration' = IF SweepDue THEN now ELSE lastExpiration
    /\ UNCHANGED now

(* itemConstructor fails: only the sweep has happened                      *)
ForFails(uid) ==
    /\ lastUID # uid
    /\ uid \notin pool \ Swept
    /\ pool' = pool \ Swept
    /\ older' = older \cap (pool' \X pool')
    /\ lastExpiration' = IF SweepDue THEN now ELSE lastExpiration
    /\ UNCHANGED <<now, lastAccess, lastUID>>

Next == Advance \/ \E uid \in UIDs : For(uid) \/ ForFails(uid)

Spec == Init /\ [][Next]_vars

-----------------------------------------------------------------------------
(* Properties.                                                             *)

(* Types of every variable.                                                *)
TypeOK ==
    /\ now \in Nat
    /\ pool \in SUBSET UIDs
    /\ older \in SUBSET (pool \X pool)
    /\ lastAccess \in [UIDs -> Nat]
    /\ lastUID \in UIDs \cup {NoUID}
    /\ lastExpiration \in Nat

(* The LRU never holds more than CacheLen reporters, whatever sweeps and   *)
(* fast paths happen between two additions (simplelru.Add evicts one entry *)
(* at most).                                                               *)
PoolBounded == Cardinality(pool) <= CacheLen

(* The LRU order is the order of the last accesses although the fast path  *)
(* refreshes lastAccess without touching the LRU (common.go:280-293): the  *)
(* sweep may stop at the first reporter that is not aged.                  *)
OrderIsAccessOrder ==
    \A u, v \in pool : <<u, v>> \in older => lastAccess[u] <= lastAccess[v]

(* A sweep leaves no reporter that has not been accessed for a TTL         *)
(* (common.go:296-297), though it looks only at the oldest ones.           *)
SweepLeavesNoneAged ==
    [][SweepDue /\ lastExpiration' = now =>
         \A u \in pool' : now - lastAccess'[u] < TTL]_vars

(* Sweeps happen at most once per TTL and only when some reporter is asked *)
(* for: even so, whenever one is returned, no other reporter of the pool   *)
(* has been idle for twice the TTL.                                        *)
IdleBelowTwoTTLs ==
    lastUID # NoUID =>
        \A u \in pool : lastAccess[lastUID] - lastAccess[u] < 2 * TTL
=============================================================================
