-------------------------- MODULE ProcMetricsProofs --------------------------
(* Proofs about ProcMetrics, for any processes, services, TTL, capacity of *)
(* the channels and disturbances.                                          *)
EXTENDS ProcMetrics, SequenceTheorems, FiniteSetTheorems, TLAPS

Mem == 0..MaxMem
Gauges == [mem : Mem, at : Nat]

(* the process of an observation                                           *)
pidOf(o) == o.uid[2]

(* a batch has one status of a process                                     *)
OneEach(B) == \A o, q \in B : pidOf(o) = pidOf(q) => o = q

-----------------------------------------------------------------------------
(* The inductive invariant.                                                *)

CollectorType ==
    /\ base \in [PIDs -> Mem \cup {NoBase}]
    /\ batch \in SUBSET Observation
    /\ home \in [PIDs -> Services \cup {NoUID}]

(* The round has a status of processes that are known, under the UID that  *)
(* they have; those that are known have a service.                         *)
RoundInv ==
    /\ OneEach(batch)
    /\ \A o \in batch : pidOf(o) \in Based /\ o.uid = <<home[pidOf(o)], pidOf(o)>>
    /\ \A p \in Based : home[p] \in Services

(* Batches hold one status of a process, and the latest one holds all      *)
(* processes that the collector knows and has not reported again.          *)
ChannelInv(in, todo) ==
    /\ OneEach(todo)
    /\ \A i \in DOMAIN in : OneEach(in[i])
    /\ in # <<>> => \A p \in Based \ Reported :
         \E o \in in[Len(in)] : o.uid = <<home[p], p>>

(* The OTEL exporter has observed the UIDs in done of its batch: they are  *)
(* the newest of its pool, and as long as no other batch waits, so that    *)
(* the clock stands still, they keep their series.                         *)
OtelDone(done) ==
    /\ done \in SUBSET UIDs
    /\ \A u, v \in done : u[2] = v[2] => u = v
    /\ \A u \in done : \A o \in otelTodo : u[2] # pidOf(o)
    /\ \A u \in done : \A v \in pool \ done : <<u, v>> \notin order
    /\ otelIn = <<>> =>
         /\ \A u \in done : u \in ignored \/ (sum[u] # NoSeries /\ lastAccess[u] = now)
         /\ \A p \in Based \ Reported :
              <<home[p], p>> \in done \/ \E o \in otelTodo : o.uid = <<home[p], p>>

(* the reporter of the fast path is the newest of the pool                 *)
LastIsNewest == \A v \in UIDs : <<lastUID, v>> \notin order

OtelInv ==
    /\ ChannelInv(otelIn, otelTodo)
    /\ LastIsNewest
    /\ \E done \in SUBSET UIDs : OtelDone(done)

(* The gauge of u was set at the cached time, and no scrape is about to    *)
(* delete it, unless the status came too late.                             *)
Safe(u) ==
    \/ u \in overdue
    \/ /\ gauge[u] # NoSeries /\ gauge[u].at = promNow
       /\ \A c \in Scrapers : u \notin delKeys[c]

(* The gauges of the latest batch are safe.                                *)
PromInv ==
    /\ ChannelInv(promIn, promTodo)
    /\ promIn = <<>> => \A p \in Based \ Reported :
         \/ \E o \in promTodo : o.uid = <<home[p], p>>
         \/ Safe(<<home[p], p>>)

IInv == CollectorType /\ PipeTypeOK /\ RoundInv /\ OtelInv /\ PromInv
-----------------------------------------------------------------------------
(* The pool of the OTEL exporter.                                          *)

(* For returns the reporter of u, makes it the newest, and loses only      *)
(* reporters that were swept or evicted.                                   *)
LEMMA ForFacts ==
    ASSUME Pool!TypeOK, NEW u \in UIDs, Pool!For(u)
    PROVE  /\ Pool!TypeOK'
           /\ now' = now /\ lastUID' = u
           /\ lastAccess' = [lastAccess EXCEPT ![u] = now]
           /\ pool' \subseteq pool \cup {u}
           /\ \A a, b \in UIDs : <<a, b>> \in order' => b = u \/ <<a, b>> \in order
           /\ \A b \in UIDs : <<u, b>> \in order' => lastUID = u /\ <<u, b>> \in order
           /\ \A e \in pool \ pool' :
                \/ e \in Pool!Swept
                \/ /\ lastUID # u /\ u \notin pool \ Pool!Swept
                   /\ e \in Pool!Evicted(pool \ Pool!Swept)
<1>1. /\ now \in Nat /\ pool \in SUBSET UIDs /\ order \in SUBSET (pool \X pool)
      /\ lastAccess \in [UIDs -> Nat] /\ lastExpiration \in Nat
  BY DEF Pool!TypeOK
<1>2. /\ now' = now /\ lastAccess' = [lastAccess EXCEPT ![u] = now]
      /\ lastAccess' \in [UIDs -> Nat] /\ lastExpiration' \in Nat
  BY <1>1 DEF Pool!For
<1>3. ASSUME NEW P \in SUBSET UIDs, u \in P
      PROVE  /\ Pool!TouchedIn(P, u) \in SUBSET (P \X P)
             /\ \A a, b \in UIDs : <<a, b>> \in Pool!TouchedIn(P, u) => b = u \/ <<a, b>> \in order
             /\ \A b \in UIDs : <<u, b>> \notin Pool!TouchedIn(P, u)
  BY <1>3 DEF Pool!TouchedIn
<1>4. CASE Pool!ForLast(u)
  <2>1. /\ lastUID = u /\ lastUID' = u /\ pool' = pool \ Pool!Swept
        /\ order' = order \cap (pool' \X pool')
    BY <1>4 DEF Pool!ForLast
  <2>2. Pool!TypeOK'
    BY <1>1, <1>2, <2>1 DEF Pool!TypeOK
  <2> QED BY <1>2, <2>1, <2>2
<1>5. CASE Pool!ForPooled(u)
  <2>1. /\ lastUID # u /\ lastUID' = u /\ pool' = pool \ Pool!Swept /\ u \in pool'
        /\ order' = Pool!TouchedIn(pool', u) /\ pool' \in SUBSET UIDs
    BY <1>1, <1>5 DEF Pool!ForPooled
  <2>2. PICK P \in SUBSET UIDs : P = pool'
    BY <2>1
  <2>3. /\ order' \in SUBSET (P \X P)
        /\ \A a, b \in UIDs : <<a, b>> \in order' => b = u \/ <<a, b>> \in order
        /\ \A b \in UIDs : <<u, b>> \notin order'
    BY <1>3, <2>1, <2>2
  <2>4. Pool!TypeOK'
    BY <1>1, <1>2, <2>1, <2>2, <2>3 DEF Pool!TypeOK
  <2> QED BY <1>2, <2>1, <2>3, <2>4
<1>6. CASE Pool!ForNew(u)
  <2>1. /\ lastUID # u /\ lastUID' = u /\ u \notin pool \ Pool!Swept
        /\ pool' = {u} \cup ((pool \ Pool!Swept) \ Pool!Evicted(pool \ Pool!Swept))
        /\ order' = Pool!TouchedIn(pool', u)
    BY <1>6 DEF Pool!ForNew
  <2>2. PICK P \in SUBSET UIDs : P = pool' /\ u \in P
    BY <1>1, <2>1
  <2>3. /\ order' \in SUBSET (P \X P)
        /\ \A a, b \in UIDs : <<a, b>> \in order' => b = u \/ <<a, b>> \in order
        /\ \A b \in UIDs : <<u, b>> \notin order'
    BY <1>3, <2>1, <2>2
  <2>4. Pool!TypeOK'
    BY <1>1, <1>2, <2>1, <2>2, <2>3 DEF Pool!TypeOK
  <2>5. \A e \in pool \ pool' :
           e \in Pool!Swept \/ e \in Pool!Evicted(pool \ Pool!Swept)
    BY <2>1
  <2> QED BY <1>2, <2>1, <2>3, <2>4, <2>5
<1> QED BY <1>4, <1>5, <1>6 DEF Pool!For

(* The constructor of u fails: only the sweep has happened.                *)
LEMMA ForFailsFacts ==
    ASSUME Pool!TypeOK, NEW u \in UIDs, Pool!ForFails(u)
    PROVE  /\ Pool!TypeOK'
           /\ UNCHANGED <<now, lastUID, lastAccess>>
           /\ pool' = pool \ Pool!Swept /\ u \notin pool'
           /\ order' \in SUBSET (order \cap (pool' \X pool'))
<1>1. /\ now \in Nat /\ pool \in SUBSET UIDs /\ order \in SUBSET (pool \X pool)
      /\ lastExpiration \in Nat
  BY DEF Pool!TypeOK
<1>2. /\ UNCHANGED <<now, lastUID, lastAccess>>
      /\ pool' = pool \ Pool!Swept /\ u \notin pool'
      /\ order' = order \cap (pool' \X pool')
      /\ lastExpiration' \in Nat
  BY <1>1 DEF Pool!ForFails
<1>3. Pool!TypeOK'
  BY <1>1, <1>2 DEF Pool!TypeOK
<1> QED BY <1>2, <1>3

-----------------------------------------------------------------------------
(* Types.                                                                  *)

LEMMA SumTyped ==
    ASSUME sum \in [UIDs -> Int \cup {NoSeries}]
    PROVE  /\ sumAfterEviction \in [UIDs -> Int \cup {NoSeries}]
           /\ \A u \in UIDs : counter(u) \in Int
<1>1. PICK s \in [UIDs -> Int \cup {NoSeries}] : s = sumAfterEviction
  BY DEF sumAfterEviction
<1>2. \A u \in UIDs : s[u] # NoSeries => s[u] \in Int
  OBVIOUS
<1>3. \A u \in UIDs : counter(u) \in Int
  BY <1>1, <1>2 DEF counter
<1> QED BY <1>1, <1>3

TypeInv == CollectorType /\ PipeTypeOK

LEMMA TypeInit == PipeInit => TypeInv
<1> SUFFICES ASSUME PipeInit PROVE TypeInv
  OBVIOUS
<1>1. CollectorType
  BY DEF PipeInit, FeedInit, CollectorType
<1>2. Pool!TypeOK
  BY DEF PipeInit, Pool!Init, Pool!TypeOK
<1>3. <<>> \in Seq(SUBSET Observation)
  OBVIOUS
<1>4. /\ expired \in [UIDs -> Nat] /\ sum \in [UIDs -> Int \cup {NoSeries}]
      /\ gauge \in [UIDs -> [mem : 0..MaxMem, at : Nat] \cup {NoSeries}]
  BY DEF PipeInit
<1>5. /\ delKeys \in [Scrapers -> SUBSET UIDs] /\ overdue \in SUBSET UIDs
      /\ seen \in [UIDs -> Nat \cup {NoSeries}]
  BY DEF PipeInit
<1> QED BY <1>1, <1>2, <1>3, <1>4, <1>5 DEF PipeInit, PipeTypeOK, TypeInv

(* What is observed in a round.                                            *)
LEMMA ReportsTyped ==
    ASSUME TypeInv, NEW p \in PIDs, NEW s \in Services, NEW m \in Mem,
           Continue(p, s, m) \/ Start(p, s, m) \/ Restart(p, s, m)
    PROVE  /\ \E d \in Int : batch' = batch \cup {[uid |-> <<s, p>>, mem |-> m, memDelta |-> d]}
           /\ batch' \in SUBSET Observation
           /\ base' \in [PIDs -> Mem \cup {NoBase}]
           /\ p \notin Reported
           /\ \A q \in PIDs : q # p => base'[q] = base[q]
           /\ base'[p] # NoBase
<1>1. m \in Int /\ m # NoBase /\ base \in [PIDs -> Mem \cup {NoBase}]
  BY PipeAssumption DEF Mem, TypeInv, CollectorType
<1>2. p \in Based => base[p] \in Int
  BY <1>1 DEF Based, Mem
<1>3. PICK d \in Int : batch' = batch \cup {[uid |-> <<s, p>>, mem |-> m, memDelta |-> d]}
  BY <1>1, <1>2 DEF Continue, Start, Restart, Observe
<1>4. [uid |-> <<s, p>>, mem |-> m, memDelta |-> d] \in Observation
  BY DEF Observation, UIDs, Mem
<1>5. /\ base' \in [PIDs -> Mem \cup {NoBase}] /\ p \notin Reported
      /\ \A q \in PIDs : q # p => base'[q] = base[q]
      /\ base'[p] # NoBase
  BY <1>1 DEF Continue, Start, Restart, Based
<1> QED BY <1>3, <1>4, <1>5 DEF TypeInv, CollectorType

LEMMA TypeReports ==
    ASSUME TypeInv, NEW p \in PIDs, NEW s \in Services, NEW m \in Mem, CollectorReports(p, s, m)
    PROVE  TypeInv'
<1>1. batch' \in SUBSET Observation /\ base' \in [PIDs -> Mem \cup {NoBase}]
  BY ReportsTyped DEF CollectorReports
<1>2. home' \in [PIDs -> Services \cup {NoUID}]
  BY DEF CollectorReports, TypeInv, CollectorType
<1>3. PipeTypeOK'
  BY DEF CollectorReports, TypeInv, PipeTypeOK, Pool!TypeOK, otelVars, poolVars, promVars
<1> QED BY <1>1, <1>2, <1>3 DEF TypeInv, CollectorType

LEMMA TypeRestarts ==
    ASSUME TypeInv, NEW p \in PIDs, NEW m \in Mem, CollectorRestarts(p, m)
    PROVE  TypeInv'
<1>1. home[p] \in Services /\ Restart(p, home[p], m)
  BY DEF CollectorRestarts, TypeInv, CollectorType
<1>2. batch' \in SUBSET Observation /\ base' \in [PIDs -> Mem \cup {NoBase}]
  BY <1>1, ReportsTyped
<1>3. PipeTypeOK' /\ home' = home
  BY DEF CollectorRestarts, TypeInv, PipeTypeOK, Pool!TypeOK, otelVars, poolVars, promVars
<1> QED BY <1>2, <1>3 DEF TypeInv, CollectorType

LEMMA TypeDrops ==
    ASSUME TypeInv, NEW p \in PIDs, CollectorDrops(p)
    PROVE  TypeInv'
<1>1. base' \in [PIDs -> Mem \cup {NoBase}] /\ batch' = batch /\ home' = home
  BY DEF CollectorDrops, Drop, TypeInv, CollectorType
<1>2. PipeTypeOK'
  BY DEF CollectorDrops, TypeInv, PipeTypeOK, Pool!TypeOK, otelVars, poolVars, promVars
<1> QED BY <1>1, <1>2 DEF TypeInv, CollectorType

(* What CollectorSends does to a channel.                                  *)
LEMMA SendFacts ==
    ASSUME TypeInv, NEW in \in Seq(SUBSET Observation)
    PROVE  /\ Append(in, batch) \in Seq(SUBSET Observation)
           /\ Len(in) \in Nat /\ DOMAIN in = 1 .. Len(in)
           /\ Append(in, batch) # <<>>
           /\ Len(Append(in, batch)) = Len(in) + 1
           /\ DOMAIN Append(in, batch) = 1 .. (Len(in) + 1)
           /\ \A i \in DOMAIN in : Append(in, batch)[i] = in[i]
           /\ Append(in, batch)[Len(in) + 1] = batch
<1>1. batch \in SUBSET Observation
  BY DEF TypeInv, CollectorType
<1>2. /\ Append(in, batch) \in Seq(SUBSET Observation)
      /\ Len(in) \in Nat /\ DOMAIN in = 1 .. Len(in)
      /\ Len(Append(in, batch)) = Len(in) + 1
      /\ DOMAIN Append(in, batch) = 1 .. (Len(in) + 1)
      /\ \A i \in DOMAIN in : Append(in, batch)[i] = in[i]
      /\ Append(in, batch)[Len(in) + 1] = batch
  BY <1>1, AppendProperties, LenProperties
<1>3. Append(in, batch) # <<>>
  BY <1>2
<1> QED BY <1>2, <1>3

LEMMA TypeSends ==
    ASSUME TypeInv, CollectorSends
    PROVE  TypeInv'
<1>1. otelIn \in Seq(SUBSET Observation) /\ promIn \in Seq(SUBSET Observation)
  BY DEF TypeInv, PipeTypeOK
<1>2. otelIn' \in Seq(SUBSET Observation) /\ promIn' \in Seq(SUBSET Observation)
  BY <1>1, SendFacts DEF CollectorSends
<1>3. CollectorType'
  BY DEF CollectorSends, Publish, TypeInv, CollectorType
<1>4. Pool!TypeOK'
  BY DEF CollectorSends, TypeInv, PipeTypeOK, Pool!TypeOK, otelVars, poolVars
<1>5. UNCHANGED <<expired, ignored, sum, otelTodo, promTodo, promNow, gauge, delKeys, seen, overdue>>
  BY DEF CollectorSends, otelVars, promVars
<1> QED BY <1>2, <1>3, <1>4, <1>5 DEF TypeInv, PipeTypeOK

(* What a receive does to a channel.                                       *)
LEMMA TakeFacts ==
    ASSUME NEW in \in Seq(SUBSET Observation), in # <<>>
    PROVE  /\ Tail(in) \in Seq(SUBSET Observation)
           /\ Head(in) = in[1] /\ Head(in) \in SUBSET Observation
           /\ Len(in) \in Nat /\ 1 <= Len(in) /\ DOMAIN in = 1 .. Len(in)
           /\ Len(Tail(in)) = Len(in) - 1 /\ DOMAIN Tail(in) = 1 .. (Len(in) - 1)
           /\ \A i \in 1 .. (Len(in) - 1) : Tail(in)[i] = in[i + 1]
           /\ Tail(in) = <<>> => Len(in) = 1
<1>1. /\ Tail(in) \in Seq(SUBSET Observation)
      /\ Head(in) = in[1] /\ Head(in) \in SUBSET Observation
      /\ Len(in) \in Nat /\ 1 <= Len(in) /\ DOMAIN in = 1 .. Len(in)
  OBVIOUS
<1>2. /\ Len(Tail(in)) = Len(in) - 1 /\ DOMAIN Tail(in) = 1 .. (Len(in) - 1)
      /\ \A i \in 1 .. (Len(in) - 1) : Tail(in)[i] = in[i + 1]
  BY <1>1
<1>3. Tail(in) = <<>> => Len(in) = 1
  <2>1. PICK t : t = Tail(in)
    OBVIOUS
  <2>2. t = <<>> => Len(t) = 0
    OBVIOUS
  <2>3. \A n \in Nat : n - 1 = 0 => n = 1
    OBVIOUS
  <2> QED BY <1>1, <1>2, <2>1, <2>2, <2>3
<1> QED BY <1>1, <1>2, <1>3

LEMMA TypeReceives ==
    ASSUME TypeInv, OtelReceive \/ PromReceive
    PROVE  TypeInv'
<1>1. /\ otelIn \in Seq(SUBSET Observation) /\ promIn \in Seq(SUBSET Observation)
      /\ now \in Nat
  BY DEF TypeInv, PipeTypeOK, Pool!TypeOK
<1>2. CASE OtelReceive
  <2>1. otelIn' \in Seq(SUBSET Observation) /\ otelTodo' \in SUBSET Observation
    BY <1>1, <1>2, TakeFacts DEF OtelReceive
  <2> QED BY <1>2, <2>1 DEF OtelReceive, TypeInv, CollectorType, PipeTypeOK, Pool!TypeOK,
             collectorVars, feedVars, poolVars, promVars
<1>3. CASE PromReceive
  <2>1. promIn' \in Seq(SUBSET Observation) /\ promTodo' \in SUBSET Observation /\ promNow' \in Nat
    BY <1>1, <1>3, TakeFacts DEF PromReceive
  <2> QED BY <1>3, <2>1 DEF PromReceive, TypeInv, CollectorType, PipeTypeOK, Pool!TypeOK,
             collectorVars, feedVars, poolVars, otelVars
<1> QED BY <1>2, <1>3

LEMMA TypeObserve ==
    ASSUME TypeInv, OtelObserve
    PROVE  TypeInv'
<1>1. PICK o \in otelTodo :
        /\ Pool!For(o.uid)
        /\ sum' = [sumAfterEviction EXCEPT ![o.uid] = counter(o.uid) + o.memDelta]
        /\ expired' = IF Created(o.uid) \/ SweepsSeries(o.uid)
                      THEN [expired EXCEPT ![o.uid] = now] ELSE expired
        /\ ignored' = ignored \ {o.uid}
        /\ otelTodo' = otelTodo \ {o}
        /\ UNCHANGED <<collectorVars, otelIn, promVars, promIn>>
  BY DEF OtelObserve
<1>2. o \in Observation /\ o.uid \in UIDs /\ o.memDelta \in Int
  BY DEF TypeInv, PipeTypeOK, Observation
<1>3. Pool!TypeOK' /\ now \in Nat
  BY <1>1, <1>2, ForFacts DEF TypeInv, PipeTypeOK, Pool!TypeOK
<1>4. /\ sumAfterEviction \in [UIDs -> Int \cup {NoSeries}] /\ counter(o.uid) \in Int
  BY <1>2, SumTyped DEF TypeInv, PipeTypeOK
<1>5. PICK c \in Int : c = counter(o.uid) + o.memDelta
  BY <1>2, <1>4
<1>6. sum' \in [UIDs -> Int \cup {NoSeries}]
  BY <1>1, <1>4, <1>5
<1>7. expired' \in [UIDs -> Nat]
  BY <1>1, <1>2, <1>3 DEF TypeInv, PipeTypeOK
<1> QED BY <1>1, <1>3, <1>6, <1>7 DEF TypeInv, CollectorType, PipeTypeOK, collectorVars,
           feedVars, promVars

LEMMA TypeIgnores ==
    ASSUME TypeInv, OtelIgnores
    PROVE  TypeInv'
<1>1. PICK o \in otelTodo :
        /\ Pool!ForFails(o.uid) /\ sum' = sumAfterEviction
        /\ ignored' = ignored \cup {o.uid} /\ otelTodo' = otelTodo \ {o}
        /\ UNCHANGED <<collectorVars, expired, otelIn, promVars, promIn>>
  BY DEF OtelIgnores
<1>2. o \in Observation /\ o.uid \in UIDs
  BY DEF TypeInv, PipeTypeOK, Observation
<1>3. Pool!TypeOK'
  BY <1>1, <1>2, ForFailsFacts DEF TypeInv, PipeTypeOK
<1>4. sum' \in [UIDs -> Int \cup {NoSeries}]
  BY <1>1, SumTyped DEF TypeInv, PipeTypeOK
<1> QED BY <1>1, <1>2, <1>3, <1>4 DEF TypeInv, CollectorType, PipeTypeOK, collectorVars,
           feedVars, promVars

(* What PromObserve does to the exporter.                                  *)
LEMMA PromObserveFacts ==
    ASSUME TypeInv, PromObserve
    PROVE  \E o \in promTodo, g \in [mem : 0..MaxMem, at : Nat] :
             /\ o.uid \in UIDs /\ g # NoSeries /\ g.at = promNow /\ g.mem = o.mem
             /\ gauge' = [gauge EXCEPT ![o.uid] = g]
             /\ seen' = [seen EXCEPT ![o.uid] = promNow]
             /\ overdue' = IF Condemned(o.uid) THEN overdue \cup {o.uid} ELSE overdue \ {o.uid}
             /\ promTodo' = promTodo \ {o}
             /\ UNCHANGED <<collectorVars, now, otelVars, otelIn, promNow, delKeys, promIn>>
<1>1. PICK o \in promTodo :
        /\ gauge' = [gauge EXCEPT ![o.uid] = [mem |-> o.mem, at |-> promNow]]
        /\ Noted(o)
  BY DEF PromObserve
<1>2. o.uid \in UIDs /\ o.mem \in 0..MaxMem /\ promNow \in Nat
  BY DEF TypeInv, PipeTypeOK, Observation
<1>3. PICK g \in [mem : 0..MaxMem, at : Nat] :
        g = [mem |-> o.mem, at |-> promNow] /\ g.at = promNow /\ g.mem = o.mem
  <2>1. [mem |-> o.mem, at |-> promNow] \in [mem : 0..MaxMem, at : Nat]
    BY <1>2
  <2> QED BY <2>1
<1>4. g # NoSeries
  BY PipeAssumption
<1> QED BY <1>1, <1>2, <1>3, <1>4 DEF Noted

LEMMA TypeProm ==
    ASSUME TypeInv, PromObserve \/ \E c \in Scrapers : PromScrape(c) \/ PromDelete(c)
    PROVE  TypeInv'
<1>1. CASE PromObserve
  <2>1. PICK o \in promTodo, g \in [mem : 0..MaxMem, at : Nat] :
             /\ o.uid \in UIDs
             /\ gauge' = [gauge EXCEPT ![o.uid] = g]
             /\ seen' = [seen EXCEPT ![o.uid] = promNow]
             /\ overdue' = IF Condemned(o.uid) THEN overdue \cup {o.uid} ELSE overdue \ {o.uid}
             /\ promTodo' = promTodo \ {o}
             /\ UNCHANGED <<collectorVars, now, otelVars, otelIn, promNow, delKeys, promIn>>
    BY <1>1, PromObserveFacts
  <2>2. /\ gauge' \in [UIDs -> [mem : 0..MaxMem, at : Nat] \cup {NoSeries}]
        /\ seen' \in [UIDs -> Nat \cup {NoSeries}]
        /\ overdue' \in SUBSET UIDs
    BY <2>1 DEF TypeInv, PipeTypeOK
  <2> QED BY <2>1, <2>2 DEF TypeInv, CollectorType, PipeTypeOK, Pool!TypeOK, collectorVars,
             feedVars, otelVars, poolVars
<1>2. ASSUME NEW c \in Scrapers, PromScrape(c) PROVE TypeInv'
  <2>1. delKeys' \in [Scrapers -> SUBSET UIDs]
    BY <1>2 DEF PromScrape, TypeInv, PipeTypeOK
  <2> QED BY <1>2, <2>1 DEF PromScrape, TypeInv, CollectorType, PipeTypeOK, Pool!TypeOK,
             collectorVars, feedVars, otelVars, poolVars
<1>3. ASSUME NEW c \in Scrapers, PromDelete(c) PROVE TypeInv'
  <2>1. /\ delKeys' \in [Scrapers -> SUBSET UIDs]
        /\ gauge' \in [UIDs -> [mem : 0..MaxMem, at : Nat] \cup {NoSeries}]
    BY <1>3 DEF PromDelete, TypeInv, PipeTypeOK
  <2> QED BY <1>3, <2>1 DEF PromDelete, TypeInv, CollectorType, PipeTypeOK, Pool!TypeOK,
             collectorVars, feedVars, otelVars, poolVars
<1> QED BY <1>1, <1>2, <1>3

LEMMA TypeNext == TypeInv /\ [PipeNext]_pipeVars => TypeInv'
<1> SUFFICES ASSUME TypeInv, [PipeNext]_pipeVars PROVE TypeInv'
  OBVIOUS
<1>1. CASE UNCHANGED pipeVars
  BY <1>1 DEF pipeVars, TypeInv, CollectorType, PipeTypeOK, Pool!TypeOK, collectorVars,
     feedVars, otelVars, poolVars, promVars
<1> QED BY <1>1, TypeReports, TypeRestarts, TypeDrops, TypeSends, TypeReceives, TypeObserve,
           TypeIgnores, TypeProm DEF PipeNext, Mem

(* The exporters' variables keep their types: in particular what the pool  *)
(* and the channels hold are UIDs and statuses, and gauges hold memory.    *)
THEOREM PipeTypeCorrect == PipeSpec => []PipeTypeOK
<1>1. TypeInv => PipeTypeOK
  BY DEF TypeInv
<1> QED BY <1>1, TypeInit, TypeNext, PTL DEF PipeSpec

-----------------------------------------------------------------------------
(* The rounds of the collector.                                            *)

Waiting == Based \ Reported

(* The processes that wait to be reported are among those of before.       *)
FewerWait == Waiting' \subseteq Waiting /\ \A p \in Waiting' : home'[p] = home[p]

LEMMA RoundReported ==
    ASSUME TypeInv, RoundInv, NEW p \in PIDs, NEW s \in Services, NEW m \in Mem,
           Continue(p, s, m) \/ Start(p, s, m) \/ Restart(p, s, m),
           home' = [home EXCEPT ![p] = s]
    PROVE  RoundInv' /\ FewerWait
<1>1. PICK d \in Int : batch' = batch \cup {[uid |-> <<s, p>>, mem |-> m, memDelta |-> d]}
  BY ReportsTyped
<1>2. PICK n \in Observation : n = [uid |-> <<s, p>>, mem |-> m, memDelta |-> d]
  BY DEF Observation, UIDs, Mem
<1>3. n.uid = <<s, p>> /\ pidOf(n) = p /\ batch' = batch \cup {n}
  BY <1>1, <1>2 DEF pidOf
<1>4. /\ p \notin Reported /\ \A q \in PIDs : q # p => base'[q] = base[q]
      /\ base'[p] # NoBase
  BY ReportsTyped
<1>5. home'[p] = s /\ \A q \in PIDs : q # p => home'[q] = home[q]
  BY DEF TypeInv, CollectorType
<1>6. \A o \in batch : pidOf(o) # p /\ pidOf(o) \in Based
  BY <1>4 DEF Reported, pidOf, RoundInv
<1>7. p \in Based' /\ \A q \in PIDs : q # p => (q \in Based' <=> q \in Based)
  BY <1>4 DEF Based
<1>8. Based \subseteq PIDs /\ Based' \subseteq PIDs
  BY DEF Based
<1>9. OneEach(batch)'
  BY <1>3, <1>6 DEF OneEach, RoundInv
<1>10. \A o \in batch' : pidOf(o) \in Based' /\ o.uid = <<home'[pidOf(o)], pidOf(o)>>
  BY <1>3, <1>5, <1>6, <1>7, <1>8 DEF RoundInv
<1>11. \A q \in Based' : home'[q] \in Services
  BY <1>5, <1>7, <1>8 DEF RoundInv
<1>12. Reported' = Reported \cup {p}
  BY <1>3 DEF Reported, pidOf
<1>13. FewerWait
  BY <1>5, <1>7, <1>8, <1>12 DEF FewerWait, Waiting
<1> QED BY <1>9, <1>10, <1>11, <1>13 DEF RoundInv

LEMMA RoundDropped ==
    ASSUME TypeInv, RoundInv, NEW p \in PIDs, Drop(p), home' = home
    PROVE  RoundInv' /\ FewerWait
<1>1. /\ p \notin Reported /\ batch' = batch /\ base'[p] = NoBase
      /\ \A q \in PIDs : q # p => base'[q] = base[q]
  BY DEF Drop, TypeInv, CollectorType
<1>2. Based' = Based \ {p}
  BY <1>1 DEF Based
<1>3. \A o \in batch : pidOf(o) # p
  BY <1>1 DEF Reported, pidOf
<1>4. RoundInv'
  BY <1>1, <1>2, <1>3 DEF RoundInv, OneEach
<1>5. Reported' = Reported
  BY <1>1 DEF Reported
<1>6. FewerWait
  BY <1>2, <1>5 DEF FewerWait, Waiting
<1> QED BY <1>4, <1>6

(* After Publish every process that is known waits, and was in the batch.  *)
LEMMA RoundPublished ==
    ASSUME TypeInv, RoundInv, Publish, home' = home
    PROVE  /\ RoundInv'
           /\ \A p \in Waiting' : \E o \in batch : o.uid = <<home'[p], p>>
<1>1. Based = Reported /\ batch' = {} /\ base' = base
  BY DEF Publish
<1>2. Based' = Based /\ Reported' = {}
  BY <1>1 DEF Based, Reported
<1>3. RoundInv'
  BY <1>1, <1>2 DEF RoundInv, OneEach
<1>4. ASSUME NEW p \in Waiting' PROVE \E o \in batch : o.uid = <<home'[p], p>>
  <2>1. p \in Reported
    BY <1>1, <1>2 DEF Waiting
  <2>2. PICK o \in batch : pidOf(o) = p
    BY <2>1 DEF Reported, pidOf
  <2> QED BY <2>2 DEF RoundInv
<1> QED BY <1>3, <1>4

-----------------------------------------------------------------------------
(* The channels.                                                           *)

LEMMA ChannelFrame ==
    ASSUME NEW in, NEW todo, ChannelInv(in, todo), FewerWait
    PROVE  /\ OneEach(todo)
           /\ \A i \in DOMAIN in : OneEach(in[i])
           /\ in # <<>> => \A p \in Waiting' :
                \E o \in in[Len(in)] : o.uid = <<home'[p], p>>
BY DEF ChannelInv, FewerWait, Waiting

(* The batch that is sent is the latest.                                   *)
LEMMA ChannelSends ==
    ASSUME TypeInv, RoundInv, Publish, home' = home,
           NEW in \in Seq(SUBSET Observation), NEW todo, ChannelInv(in, todo)
    PROVE  /\ OneEach(todo)
           /\ \A i \in DOMAIN Append(in, batch) : OneEach(Append(in, batch)[i])
           /\ \A p \in Waiting' :
                \E o \in Append(in, batch)[Len(Append(in, batch))] : o.uid = <<home'[p], p>>
<1>1. /\ Len(in) \in Nat /\ DOMAIN in = 1 .. Len(in)
      /\ Len(Append(in, batch)) = Len(in) + 1
      /\ DOMAIN Append(in, batch) = 1 .. (Len(in) + 1)
      /\ \A i \in DOMAIN in : Append(in, batch)[i] = in[i]
      /\ Append(in, batch)[Len(in) + 1] = batch
  BY SendFacts
<1>2. \A i \in DOMAIN Append(in, batch) : i \in DOMAIN in \/ i = Len(in) + 1
  BY <1>1
<1>3. \A i \in DOMAIN Append(in, batch) : OneEach(Append(in, batch)[i])
  BY <1>1, <1>2 DEF ChannelInv, RoundInv
<1>4. \A p \in Waiting' : \E o \in batch : o.uid = <<home'[p], p>>
  BY RoundPublished
<1> QED BY <1>1, <1>3, <1>4 DEF ChannelInv

(* The batch that is received has one status of a process; the latest is   *)
(* still in the channel, or it is the one.                                 *)
LEMMA ChannelTakes ==
    ASSUME NEW in \in Seq(SUBSET Observation), in # <<>>, NEW todo, ChannelInv(in, todo)
    PROVE  /\ ChannelInv(Tail(in), Head(in))
           /\ Tail(in) = <<>> => \A p \in Based \ Reported :
                \E o \in Head(in) : o.uid = <<home[p], p>>
<1>1. /\ Head(in) = in[1]
      /\ Len(in) \in Nat /\ 1 <= Len(in) /\ DOMAIN in = 1 .. Len(in)
      /\ Len(Tail(in)) = Len(in) - 1 /\ DOMAIN Tail(in) = 1 .. (Len(in) - 1)
      /\ \A i \in 1 .. (Len(in) - 1) : Tail(in)[i] = in[i + 1]
      /\ Tail(in) = <<>> => Len(in) = 1
      /\ Tail(in) \in Seq(SUBSET Observation)
  BY TakeFacts
<1>2. OneEach(Head(in))
  BY <1>1 DEF ChannelInv
<1>3. ASSUME NEW i \in DOMAIN Tail(in) PROVE OneEach(Tail(in)[i])
  <2>1. i + 1 \in DOMAIN in /\ Tail(in)[i] = in[i + 1]
    BY <1>1
  <2> QED BY <2>1 DEF ChannelInv
<1>4. Tail(in) # <<>> => Len(in) - 1 \in 1 .. (Len(in) - 1) /\ (Len(in) - 1) + 1 = Len(in)
  <2> SUFFICES ASSUME Tail(in) # <<>>
               PROVE  Len(in) - 1 \in 1 .. (Len(in) - 1) /\ (Len(in) - 1) + 1 = Len(in)
    OBVIOUS
  <2>1. PICK t \in Seq(SUBSET Observation) : t = Tail(in)
    BY <1>1
  <2>2. t # <<>> => Len(t) # 0
    BY EmptySeq
  <2>3. Len(in) - 1 # 0
    BY <1>1, <2>1, <2>2
  <2> QED BY <1>1, <2>3
<1>5. Tail(in) # <<>> => Tail(in)[Len(Tail(in))] = in[Len(in)]
  BY <1>1, <1>4
<1>6. \A p \in Based \ Reported : \E o \in in[Len(in)] : o.uid = <<home[p], p>>
  BY DEF ChannelInv
<1>7. ChannelInv(Tail(in), Head(in))
  BY <1>2, <1>3, <1>5, <1>6 DEF ChannelInv
<1> QED BY <1>1, <1>6, <1>7
-----------------------------------------------------------------------------
(* The OTEL exporter.                                                      *)

(* A step of the collector within a round takes nothing from the exporter. *)
LEMMA OtelFrame ==
    ASSUME OtelInv, FewerWait, UNCHANGED <<now, otelVars, otelIn>>
    PROVE  OtelInv'
<1>1. /\ UNCHANGED <<now, pool, order, lastAccess, lastUID, ignored, sum, otelTodo, otelIn>>
  BY DEF otelVars, poolVars
<1>2. ChannelInv(otelIn, otelTodo)'
  <2>1. /\ OneEach(otelTodo) /\ \A i \in DOMAIN otelIn : OneEach(otelIn[i])
        /\ otelIn # <<>> => \A p \in Waiting' :
             \E o \in otelIn[Len(otelIn)] : o.uid = <<home'[p], p>>
    BY ChannelFrame DEF OtelInv
  <2> QED BY <1>1, <2>1 DEF ChannelInv, Waiting, OneEach
<1>3. LastIsNewest'
  BY <1>1 DEF OtelInv, LastIsNewest
<1>4. PICK done \in SUBSET UIDs : OtelDone(done)
  BY DEF OtelInv
<1>5. OtelDone(done)'
  <2>1. otelIn = <<>> => \A p \in Waiting' :
          <<home'[p], p>> \in done \/ \E o \in otelTodo : o.uid = <<home'[p], p>>
    BY <1>4 DEF OtelDone, FewerWait, Waiting
  <2> QED BY <1>1, <1>4, <2>1 DEF OtelDone, Waiting
<1> QED BY <1>2, <1>3, <1>5 DEF OtelInv

LEMMA OtelSends ==
    ASSUME TypeInv, RoundInv, OtelInv, CollectorSends
    PROVE  OtelInv'
<1>1. /\ UNCHANGED <<home, pool, order, lastAccess, lastUID, ignored, sum, otelTodo>>
      /\ Publish /\ otelIn' = Append(otelIn, batch)
  BY DEF CollectorSends, otelVars, poolVars
<1>2. otelIn \in Seq(SUBSET Observation)
  BY DEF TypeInv, PipeTypeOK
<1>3. otelIn' # <<>>
  BY <1>1, <1>2, SendFacts
<1>4. ChannelInv(otelIn, otelTodo)'
  <2>1. /\ OneEach(otelTodo) /\ \A i \in DOMAIN otelIn' : OneEach(otelIn'[i])
        /\ \A p \in Waiting' :
             \E o \in otelIn'[Len(otelIn')] : o.uid = <<home'[p], p>>
    BY <1>1, <1>2, ChannelSends DEF OtelInv
  <2> QED BY <1>1, <2>1 DEF ChannelInv, Waiting, OneEach
<1>5. LastIsNewest'
  BY <1>1 DEF OtelInv, LastIsNewest
<1>6. PICK done \in SUBSET UIDs : OtelDone(done)
  BY DEF OtelInv
<1>7. OtelDone(done)'
  BY <1>1, <1>3, <1>6 DEF OtelDone
<1> QED BY <1>4, <1>5, <1>7 DEF OtelInv

LEMMA OtelReceives ==
    ASSUME TypeInv, OtelInv, OtelReceive
    PROVE  OtelInv'
<1>1. /\ UNCHANGED <<base, batch, home, pool, order, lastUID>>
      /\ otelIn # <<>> /\ otelTodo' = Head(otelIn) /\ otelIn' = Tail(otelIn)
  BY DEF OtelReceive, collectorVars, feedVars, poolVars
<1>2. Based' = Based /\ Reported' = Reported
  BY <1>1 DEF Based, Reported
<1>3. otelIn \in Seq(SUBSET Observation)
  BY DEF TypeInv, PipeTypeOK
<1>4. /\ ChannelInv(Tail(otelIn), Head(otelIn))
      /\ Tail(otelIn) = <<>> => \A p \in Based \ Reported :
           \E o \in Head(otelIn) : o.uid = <<home[p], p>>
  BY <1>1, <1>3, ChannelTakes DEF OtelInv
<1>5. ChannelInv(otelIn, otelTodo)'
  BY <1>1, <1>2, <1>4 DEF ChannelInv, OneEach
<1>6. LastIsNewest'
  BY <1>1 DEF OtelInv, LastIsNewest
<1>7. OtelDone({})'
  BY <1>1, <1>2, <1>4 DEF OtelDone
<1>8. {} \in SUBSET UIDs
  OBVIOUS
<1> QED BY <1>5, <1>6, <1>7, <1>8 DEF OtelInv
(* The LRU has room for a reporter of every process.                       *)
EnoughReporters == CacheLen >= Cardinality(PIDs)

(* A reporter in the batch of which p is missing: there are fewer of them  *)
(* than the LRU can hold.                                                  *)
LEMMA RoomForOneMore ==
    ASSUME EnoughReporters, NEW P \in SUBSET UIDs, NEW p \in PIDs,
           \A u, v \in P : u[2] = v[2] => u = v,
           \A u \in P : u[2] # p
    PROVE  Cardinality(P) < CacheLen
<1> DEFINE f == [u \in P |-> u[2]]
<1>1. IsFiniteSet(PIDs) /\ CacheLen \in Nat
  BY PipeAssumption
<1>2. f \in Injection(P, PIDs \ {p})
  BY DEF Injection, IsInjective, UIDs
<1>3. IsFiniteSet(PIDs \ {p}) /\ Cardinality(PIDs \ {p}) = Cardinality(PIDs) - 1
  BY <1>1, FS_RemoveElement
<1> HIDE DEF f
<1>4. IsFiniteSet(P) /\ Cardinality(P) <= Cardinality(PIDs \ {p})
  BY <1>2, <1>3, FS_Injection
<1>5. Cardinality(P) \in Nat /\ Cardinality(PIDs) \in Nat
  BY <1>1, <1>4, FS_CardinalityType
<1> QED BY <1>1, <1>3, <1>4, <1>5 DEF EnoughReporters

(* While the clock stands still, For takes no reporter that was used in    *)
(* this batch: the sweep finds it fresh, and the LRU has room.             *)
LEMMA DoneKept ==
    ASSUME EnoughReporters, PipeTypeOK, NEW done \in SUBSET UIDs, OtelDone(done),
           NEW o \in otelTodo, Pool!For(o.uid),
           NEW u \in done, lastAccess[u] = now
    PROVE  u \notin pool \ pool'
<1> SUFFICES ASSUME u \in pool \ pool' PROVE FALSE
  OBVIOUS
<1>1. /\ o.uid \in UIDs /\ pidOf(o) \in PIDs /\ Pool!TypeOK
      /\ now \in Nat /\ pool \in SUBSET UIDs
  BY DEF PipeTypeOK, Observation, UIDs, pidOf, Pool!TypeOK
<1>2. u \notin Pool!Swept
  <2>1. ~ (now - now >= TTL)
    BY <1>1, PipeAssumption
  <2>2. ~ Pool!Aged(u)
    BY <2>1 DEF Pool!Aged
  <2> QED BY <2>2 DEF Pool!Swept
<1>3. PICK P \in SUBSET UIDs : P = pool \ Pool!Swept
  BY <1>1
<1>4. u \in Pool!Evicted(P)
  BY <1>1, <1>2, <1>3, ForFacts
<1>5. P \subseteq done
  <2> SUFFICES ASSUME NEW v \in P, v \notin done PROVE FALSE
    OBVIOUS
  <2>1. <<u, v>> \in order
    BY <1>4 DEF Pool!Evicted
  <2> QED BY <1>3, <2>1 DEF OtelDone
<1>6. Cardinality(P) < CacheLen
  <2>1. /\ \A a, b \in P : a[2] = b[2] => a = b
        /\ \A a \in P : a[2] # pidOf(o)
    BY <1>5 DEF OtelDone
  <2> QED BY <1>1, <1>3, <2>1, RoomForOneMore
<1> QED BY <1>4, <1>6 DEF Pool!Evicted, Pool!Cardinality, Cardinality

(* A status that the exporter has dealt with joins those that are done.    *)
LEMMA DoneGrows ==
    ASSUME PipeTypeOK, OneEach(otelTodo), NEW done \in SUBSET UIDs, OtelDone(done),
           NEW o \in otelTodo
    PROVE  /\ o.uid \in UIDs /\ done \cup {o.uid} \in SUBSET UIDs
           /\ o.uid \notin done
           /\ \A u, v \in done \cup {o.uid} : u[2] = v[2] => u = v
           /\ \A u \in done \cup {o.uid} : \A q \in otelTodo \ {o} : u[2] # pidOf(q)
<1>1. o.uid \in UIDs
  BY DEF PipeTypeOK, Observation
<1>2. \A u \in done : u[2] # (o.uid)[2]
  BY DEF OtelDone, pidOf
<1>3. \A q \in otelTodo \ {o} : (o.uid)[2] # pidOf(q)
  BY DEF OneEach, pidOf
<1> QED BY <1>1, <1>2, <1>3 DEF OtelDone
LEMMA OtelObserves ==
    ASSUME EnoughReporters, TypeInv, OtelInv, OtelObserve
    PROVE  OtelInv'
<1>1. PICK o \in otelTodo :
        /\ Pool!For(o.uid)
        /\ sum' = [sumAfterEviction EXCEPT ![o.uid] = counter(o.uid) + o.memDelta]
        /\ ignored' = ignored \ {o.uid}
        /\ otelTodo' = otelTodo \ {o}
        /\ UNCHANGED <<collectorVars, otelIn, promVars, promIn>>
  BY DEF OtelObserve
<1>2. PICK done \in SUBSET UIDs : OtelDone(done)
  BY DEF OtelInv
<1>3. /\ PipeTypeOK /\ Pool!TypeOK /\ OneEach(otelTodo) /\ UNCHANGED <<base, batch, home, otelIn>>
      /\ pool \in SUBSET UIDs /\ lastAccess \in [UIDs -> Nat]
  BY <1>1 DEF TypeInv, PipeTypeOK, OtelInv, ChannelInv, collectorVars, feedVars, Pool!TypeOK
<1>4. Based' = Based /\ Reported' = Reported
  BY <1>3 DEF Based, Reported
<1>5. /\ o.uid \in UIDs /\ done \cup {o.uid} \in SUBSET UIDs
      /\ o.uid \notin done
      /\ \A u, v \in done \cup {o.uid} : u[2] = v[2] => u = v
      /\ \A u \in done \cup {o.uid} : \A q \in otelTodo \ {o} : u[2] # pidOf(q)
  BY <1>2, <1>3, DoneGrows
<1>6. /\ now' = now /\ lastUID' = o.uid
      /\ lastAccess' = [lastAccess EXCEPT ![o.uid] = now]
      /\ pool' \subseteq pool \cup {o.uid}
      /\ \A a, b \in UIDs : <<a, b>> \in order' => b = o.uid \/ <<a, b>> \in order
      /\ \A b \in UIDs : <<o.uid, b>> \in order' => lastUID = o.uid /\ <<o.uid, b>> \in order
  BY <1>1, <1>3, <1>5, ForFacts
<1>7. LastIsNewest'
  BY <1>5, <1>6 DEF OtelInv, LastIsNewest
<1>8. ChannelInv(otelIn, otelTodo)'
  BY <1>1, <1>3, <1>4 DEF OtelInv, ChannelInv, OneEach
<1>9. \A u \in done \cup {o.uid} : \A v \in pool' \ (done \cup {o.uid}) : <<u, v>> \notin order'
  BY <1>2, <1>3, <1>5, <1>6, <1>7 DEF OtelDone, LastIsNewest
<1>10. sum'[o.uid] # NoSeries /\ \A u \in done : sum'[u] = IF u \in pool \ pool' THEN NoSeries ELSE sum[u]
  <2>1. counter(o.uid) \in Int /\ o.memDelta \in Int
        /\ sumAfterEviction \in [UIDs -> Int \cup {NoSeries}]
    BY <1>3, <1>5, SumTyped DEF PipeTypeOK, Observation
  <2>2. PICK c \in Int : c = counter(o.uid) + o.memDelta
    BY <2>1
  <2>3. sum'[o.uid] = c /\ \A u \in done : sum'[u] = sumAfterEviction[u]
    BY <1>1, <1>5, <2>1, <2>2
  <2>4. c # NoSeries
    BY PipeAssumption
  <2> QED BY <2>3, <2>4 DEF sumAfterEviction
<1>11. ASSUME otelIn = <<>>, NEW u \in done \cup {o.uid}
       PROVE  u \in ignored' \/ (sum'[u] # NoSeries /\ lastAccess'[u] = now)
  <2>1. CASE u = o.uid
    BY <1>3, <1>5, <1>6, <1>10, <2>1
  <2>2. CASE u \in done /\ u \in ignored
    BY <1>1, <1>5, <2>2
  <2>3. CASE u \in done /\ u \notin ignored
    <3>1. sum[u] # NoSeries /\ lastAccess[u] = now
      BY <1>2, <1>11, <2>3 DEF OtelDone
    <3>2. u \notin pool \ pool'
      BY <1>1, <1>2, <1>3, <2>3, <3>1, DoneKept
    <3> QED BY <1>3, <1>5, <1>6, <1>10, <2>3, <3>1, <3>2
  <2> QED BY <2>1, <2>2, <2>3
<1>12. otelIn = <<>> => \A p \in Based \ Reported :
         <<home[p], p>> \in done \cup {o.uid} \/ \E q \in otelTodo \ {o} : q.uid = <<home[p], p>>
  BY <1>2 DEF OtelDone
<1>13. PICK d \in SUBSET UIDs : d = done \cup {o.uid}
  BY <1>5
<1>14. OtelDone(d)'
  <2>1. /\ \A u, v \in d : u[2] = v[2] => u = v
        /\ \A u \in d : \A q \in otelTodo' : u[2] # pidOf(q)
        /\ \A u \in d : \A v \in pool' \ d : <<u, v>> \notin order'
    BY <1>1, <1>5, <1>9, <1>13
  <2>2. otelIn' = <<>> => /\ \A u \in d : u \in ignored' \/ (sum'[u] # NoSeries /\ lastAccess'[u] = now')
                          /\ \A p \in Based' \ Reported' :
                               <<home'[p], p>> \in d \/ \E q \in otelTodo' : q.uid = <<home'[p], p>>
    BY <1>1, <1>3, <1>4, <1>6, <1>11, <1>12, <1>13
  <2> QED BY <2>1, <2>2 DEF OtelDone
<1> QED BY <1>7, <1>8, <1>14 DEF OtelInv

LEMMA OtelIgnored ==
    ASSUME TypeInv, OtelInv, OtelIgnores
    PROVE  OtelInv'
<1>1. PICK o \in otelTodo :
        /\ Pool!ForFails(o.uid) /\ sum' = sumAfterEviction
        /\ ignored' = ignored \cup {o.uid} /\ otelTodo' = otelTodo \ {o}
        /\ UNCHANGED <<collectorVars, expired, otelIn, promVars, promIn>>
  BY DEF OtelIgnores
<1>2. PICK done \in SUBSET UIDs : OtelDone(done)
  BY DEF OtelInv
<1>3. /\ PipeTypeOK /\ Pool!TypeOK /\ OneEach(otelTodo) /\ UNCHANGED <<base, batch, home, otelIn>>
      /\ pool \in SUBSET UIDs /\ now \in Nat
  BY <1>1 DEF TypeInv, PipeTypeOK, OtelInv, ChannelInv, collectorVars, feedVars, Pool!TypeOK
<1>4. Based' = Based /\ Reported' = Reported
  BY <1>3 DEF Based, Reported
<1>5. /\ o.uid \in UIDs /\ done \cup {o.uid} \in SUBSET UIDs
      /\ \A u, v \in done \cup {o.uid} : u[2] = v[2] => u = v
      /\ \A u \in done \cup {o.uid} : \A q \in otelTodo \ {o} : u[2] # pidOf(q)
  BY <1>2, <1>3, DoneGrows
<1>6. /\ UNCHANGED <<now, lastUID, lastAccess>>
      /\ pool' = pool \ Pool!Swept /\ o.uid \notin pool'
      /\ order' \subseteq order /\ order' \in SUBSET (pool' \X pool')
  BY <1>1, <1>3, <1>5, ForFailsFacts
<1>7. LastIsNewest'
  BY <1>6 DEF OtelInv, LastIsNewest
<1>8. ChannelInv(otelIn, otelTodo)'
  BY <1>1, <1>3, <1>4 DEF OtelInv, ChannelInv, OneEach
<1>9. \A u \in done \cup {o.uid} : \A v \in pool' \ (done \cup {o.uid}) : <<u, v>> \notin order'
  BY <1>2, <1>6 DEF OtelDone
<1>10. \A u \in done : sum'[u] = IF u \in pool \ pool' THEN NoSeries ELSE sum[u]
  BY <1>1 DEF sumAfterEviction
<1>11. ASSUME otelIn = <<>>, NEW u \in done \cup {o.uid}
       PROVE  u \in ignored' \/ (sum'[u] # NoSeries /\ lastAccess'[u] = now)
  <2>1. CASE u = o.uid \/ u \in ignored
    BY <1>1, <2>1
  <2>2. CASE u \in done /\ u \notin ignored
    <3>1. sum[u] # NoSeries /\ lastAccess[u] = now
      BY <1>2, <1>11, <2>2 DEF OtelDone
    <3>2. ~ (now - now >= TTL)
      BY <1>3, PipeAssumption
    <3>3. u \notin Pool!Swept
      BY <3>1, <3>2 DEF Pool!Aged, Pool!Swept
    <3> QED BY <1>6, <1>10, <2>2, <3>1, <3>3
  <2> QED BY <2>1, <2>2
<1>12. otelIn = <<>> => \A p \in Based \ Reported :
         <<home[p], p>> \in done \cup {o.uid} \/ \E q \in otelTodo \ {o} : q.uid = <<home[p], p>>
  BY <1>2 DEF OtelDone
<1>13. PICK d \in SUBSET UIDs : d = done \cup {o.uid}
  BY <1>5
<1>14. OtelDone(d)'
  <2>1. /\ \A u, v \in d : u[2] = v[2] => u = v
        /\ \A u \in d : \A q \in otelTodo' : u[2] # pidOf(q)
        /\ \A u \in d : \A v \in pool' \ d : <<u, v>> \notin order'
    BY <1>1, <1>5, <1>9, <1>13
  <2>2. otelIn' = <<>> => /\ \A u \in d : u \in ignored' \/ (sum'[u] # NoSeries /\ lastAccess'[u] = now')
                          /\ \A p \in Based' \ Reported' :
                               <<home'[p], p>> \in d \/ \E q \in otelTodo' : q.uid = <<home'[p], p>>
    BY <1>1, <1>3, <1>4, <1>6, <1>11, <1>12, <1>13
  <2> QED BY <2>1, <2>2 DEF OtelDone
<1> QED BY <1>7, <1>8, <1>14 DEF OtelInv

-----------------------------------------------------------------------------
(* The Prometheus exporter.                                                *)

LEMMA PromFrame ==
    ASSUME PromInv, FewerWait, UNCHANGED <<promVars, promIn>>
    PROVE  PromInv'
<1>1. UNCHANGED <<promTodo, promNow, gauge, delKeys, overdue, promIn>>
  BY DEF promVars
<1>2. ChannelInv(promIn, promTodo)'
  <2>1. /\ OneEach(promTodo) /\ \A i \in DOMAIN promIn : OneEach(promIn[i])
        /\ promIn # <<>> => \A p \in Waiting' :
             \E o \in promIn[Len(promIn)] : o.uid = <<home'[p], p>>
    BY ChannelFrame DEF PromInv
  <2> QED BY <1>1, <2>1 DEF ChannelInv, Waiting, OneEach
<1>3. promIn = <<>> => \A p \in Waiting' :
         \/ \E o \in promTodo : o.uid = <<home'[p], p>>
         \/ Safe(<<home'[p], p>>)
  BY DEF PromInv, FewerWait, Waiting
<1> QED BY <1>1, <1>2, <1>3 DEF PromInv, Waiting, Safe

LEMMA PromSends ==
    ASSUME TypeInv, RoundInv, PromInv, CollectorSends
    PROVE  PromInv'
<1>1. /\ UNCHANGED <<home, promTodo>>
      /\ Publish /\ promIn' = Append(promIn, batch)
  BY DEF CollectorSends, promVars
<1>2. promIn \in Seq(SUBSET Observation)
  BY DEF TypeInv, PipeTypeOK
<1>3. promIn' # <<>>
  BY <1>1, <1>2, SendFacts
<1>4. /\ OneEach(promTodo) /\ \A i \in DOMAIN promIn' : OneEach(promIn'[i])
      /\ \A p \in Waiting' :
           \E o \in promIn'[Len(promIn')] : o.uid = <<home'[p], p>>
  BY <1>1, <1>2, ChannelSends DEF PromInv
<1> QED BY <1>1, <1>3, <1>4 DEF PromInv, ChannelInv, Waiting, OneEach

LEMMA PromReceives ==
    ASSUME TypeInv, PromInv, PromReceive
    PROVE  PromInv'
<1>1. /\ UNCHANGED <<base, batch, home>>
      /\ promIn # <<>> /\ promTodo' = Head(promIn) /\ promIn' = Tail(promIn)
  BY DEF PromReceive, collectorVars, feedVars
<1>2. Based' = Based /\ Reported' = Reported
  BY <1>1 DEF Based, Reported
<1>3. promIn \in Seq(SUBSET Observation)
  BY DEF TypeInv, PipeTypeOK
<1>4. /\ ChannelInv(Tail(promIn), Head(promIn))
      /\ Tail(promIn) = <<>> => \A p \in Based \ Reported :
           \E o \in Head(promIn) : o.uid = <<home[p], p>>
  BY <1>1, <1>3, ChannelTakes DEF PromInv
<1>5. ChannelInv(promIn, promTodo)'
  BY <1>1, <1>2, <1>4 DEF ChannelInv, OneEach
<1> QED BY <1>1, <1>2, <1>4, <1>5 DEF PromInv

LEMMA PromObserves ==
    ASSUME TypeInv, RoundInv, PromInv, PromObserve
    PROVE  PromInv'
<1>1. PICK o \in promTodo, g \in [mem : 0..MaxMem, at : Nat] :
        /\ o.uid \in UIDs /\ g # NoSeries /\ g.at = promNow
        /\ gauge' = [gauge EXCEPT ![o.uid] = g]
        /\ overdue' = IF Condemned(o.uid) THEN overdue \cup {o.uid} ELSE overdue \ {o.uid}
        /\ promTodo' = promTodo \ {o}
        /\ UNCHANGED <<collectorVars, now, otelVars, otelIn, promNow, delKeys, promIn>>
  BY PromObserveFacts
<1>2. /\ UNCHANGED <<base, batch, home, promNow, delKeys, promIn>>
      /\ gauge \in [UIDs -> [mem : 0..MaxMem, at : Nat] \cup {NoSeries}]
  BY <1>1 DEF TypeInv, PipeTypeOK, collectorVars, feedVars
<1>3. Based' = Based /\ Reported' = Reported
  BY <1>2 DEF Based, Reported
<1>4. gauge'[o.uid] = g /\ \A x \in UIDs : x # o.uid => gauge'[x] = gauge[x]
  BY <1>1, <1>2
<1>5. Safe(o.uid)'
  BY <1>1, <1>2, <1>4 DEF Safe, Condemned
<1>6. ASSUME NEW x \in UIDs, x # o.uid, Safe(x) PROVE Safe(x)'
  BY <1>1, <1>2, <1>4, <1>6 DEF Safe
<1>7. ChannelInv(promIn, promTodo)'
  BY <1>1, <1>2, <1>3 DEF PromInv, ChannelInv, OneEach
<1>8. ASSUME promIn = <<>>, NEW p \in Based \ Reported, NEW x \in UIDs, x = <<home[p], p>>
      PROVE  (\E q \in promTodo' : q.uid = x) \/ Safe(x)'
  <2>1. CASE x # o.uid
    BY <1>1, <1>6, <1>8, <2>1 DEF PromInv
  <2> QED BY <1>5, <2>1
<1>9. \A p \in Based : <<home[p], p>> \in UIDs
  BY DEF RoundInv, Based, UIDs
<1> QED BY <1>2, <1>3, <1>7, <1>8, <1>9 DEF PromInv

(* Neither step of a scrape harms a gauge that is safe.                    *)
LEMMA PromScrapes ==
    ASSUME TypeInv, RoundInv, PromInv,
           NEW c \in Scrapers, PromScrape(c) \/ PromDelete(c)
    PROVE  PromInv'
<1>1. UNCHANGED <<base, batch, home, promTodo, promNow, overdue, promIn>>
  BY DEF PromScrape, PromDelete, collectorVars, feedVars
<1>2. Based' = Based /\ Reported' = Reported
  BY <1>1 DEF Based, Reported
<1>3. ChannelInv(promIn, promTodo)'
  BY <1>1, <1>2 DEF PromInv, ChannelInv, OneEach
<1>4. /\ promNow \in Nat /\ delKeys \in [Scrapers -> SUBSET UIDs]
  BY DEF TypeInv, PipeTypeOK
<1>5. ASSUME NEW u \in UIDs, Safe(u) PROVE Safe(u)'
  <2>1. CASE PromScrape(c)
    <3>1. ~ (promNow - promNow > TTL)
      BY <1>4, PipeAssumption
    <3>2. gauge[u].at = promNow => ~ Outdated(u)
      BY <3>1 DEF Outdated
    <3>3. /\ gauge' = gauge
          /\ delKeys' = [delKeys EXCEPT ![c] = {v \in UIDs : Outdated(v)}]
      BY <2>1 DEF PromScrape
    <3> QED BY <1>1, <1>4, <1>5, <3>2, <3>3 DEF Safe
  <2>2. CASE PromDelete(c)
    <3>1. /\ u \notin delKeys[c] => gauge'[u] = gauge[u]
          /\ delKeys' = [delKeys EXCEPT ![c] = {}]
      BY <2>2 DEF PromDelete
    <3> QED BY <1>1, <1>4, <1>5, <3>1 DEF Safe
  <2> QED BY <2>1, <2>2
<1>6. \A p \in Based : <<home[p], p>> \in UIDs
  BY DEF RoundInv, Based, UIDs
<1> QED BY <1>1, <1>2, <1>3, <1>5, <1>6 DEF PromInv
-----------------------------------------------------------------------------
(* The pipeline.                                                           *)

LEMMA PipeInitInv == PipeInit => IInv
<1> SUFFICES ASSUME PipeInit PROVE IInv
  OBVIOUS
<1>1. CollectorType /\ PipeTypeOK
  BY TypeInit DEF TypeInv
<1>2. /\ Based = {} /\ batch = {} /\ order = {} /\ otelIn = <<>> /\ promIn = <<>>
      /\ otelTodo = {} /\ promTodo = {}
  BY DEF PipeInit, FeedInit, Based, Pool!Init
<1>3. RoundInv
  BY <1>2 DEF RoundInv, OneEach
<1>4. ChannelInv(otelIn, otelTodo) /\ ChannelInv(promIn, promTodo)
  BY <1>2 DEF ChannelInv, OneEach
<1>5. OtelDone({}) /\ {} \in SUBSET UIDs
  BY <1>2 DEF OtelDone
<1>6. LastIsNewest
  BY <1>2 DEF LastIsNewest
<1> QED BY <1>1, <1>2, <1>3, <1>4, <1>5, <1>6 DEF IInv, OtelInv, PromInv

LEMMA CollectorStep ==
    ASSUME IInv,
           \/ \E p \in PIDs, s \in Services, m \in Mem : CollectorReports(p, s, m)
           \/ \E p \in PIDs, m \in Mem : CollectorRestarts(p, m)
           \/ \E p \in PIDs : CollectorDrops(p)
    PROVE  RoundInv' /\ OtelInv' /\ PromInv'
<1>1. TypeInv /\ RoundInv /\ OtelInv /\ PromInv
  BY DEF IInv, TypeInv
<1>2. RoundInv' /\ FewerWait
  <2>1. ASSUME NEW p \in PIDs, NEW s \in Services, NEW m \in Mem, CollectorReports(p, s, m)
        PROVE  RoundInv' /\ FewerWait
    BY <1>1, <2>1, RoundReported DEF CollectorReports
  <2>2. ASSUME NEW p \in PIDs, NEW m \in Mem, CollectorRestarts(p, m)
        PROVE  RoundInv' /\ FewerWait
    <3>1. home[p] \in Services /\ Restart(p, home[p], m)
      BY <1>1, <2>2 DEF CollectorRestarts, TypeInv, CollectorType
    <3>2. home' = [home EXCEPT ![p] = home[p]]
      BY <1>1, <2>2 DEF CollectorRestarts, TypeInv, CollectorType
    <3> QED BY <1>1, <3>1, <3>2, RoundReported
  <2>3. ASSUME NEW p \in PIDs, CollectorDrops(p)
        PROVE  RoundInv' /\ FewerWait
    BY <1>1, <2>3, RoundDropped DEF CollectorDrops
  <2> QED BY <2>1, <2>2, <2>3
<1>3. UNCHANGED <<now, otelVars, otelIn, promVars, promIn>>
  BY DEF CollectorReports, CollectorRestarts, CollectorDrops
<1> QED BY <1>1, <1>2, <1>3, OtelFrame, PromFrame

(* A step of one exporter leaves the collector and the other exporter.     *)
LEMMA ExporterFrame ==
    ASSUME UNCHANGED collectorVars
    PROVE  /\ RoundInv => RoundInv' /\ FewerWait
<1>1. UNCHANGED <<base, batch, home>>
  BY DEF collectorVars, feedVars
<1>2. Based' = Based /\ Reported' = Reported
  BY <1>1 DEF Based, Reported
<1>3. FewerWait
  BY <1>1, <1>2 DEF FewerWait, Waiting
<1> QED BY <1>1, <1>2, <1>3 DEF RoundInv, OneEach

LEMMA PipeStepInv ==
    ASSUME EnoughReporters, IInv, [PipeNext]_pipeVars
    PROVE  IInv'
<1>1. TypeInv /\ RoundInv /\ OtelInv /\ PromInv
  BY DEF IInv, TypeInv
<1>2. TypeInv'
  BY <1>1, TypeNext
<1> SUFFICES RoundInv' /\ OtelInv' /\ PromInv'
  BY <1>2 DEF IInv, TypeInv
<1>3. CASE \/ \E p \in PIDs, s \in Services, m \in Mem : CollectorReports(p, s, m)
           \/ \E p \in PIDs, m \in Mem : CollectorRestarts(p, m)
           \/ \E p \in PIDs : CollectorDrops(p)
  BY <1>3, CollectorStep
<1>4. CASE CollectorSends
  <2>1. Publish /\ home' = home
    BY <1>4 DEF CollectorSends
  <2> QED BY <1>1, <1>4, <2>1, RoundPublished, OtelSends, PromSends
<1>5. CASE OtelReceive \/ OtelObserve \/ OtelIgnores
  <2>1. UNCHANGED collectorVars /\ UNCHANGED <<promVars, promIn>>
    BY <1>5 DEF OtelReceive, OtelObserve, OtelIgnores
  <2>2. RoundInv' /\ FewerWait
    BY <1>1, <2>1, ExporterFrame
  <2>3. PromInv'
    BY <1>1, <2>1, <2>2, PromFrame
  <2>4. OtelInv'
    BY <1>1, <1>5, OtelReceives, OtelObserves, OtelIgnored
  <2> QED BY <2>2, <2>3, <2>4
<1>6. CASE PromReceive \/ PromObserve \/ \E c \in Scrapers : PromScrape(c) \/ PromDelete(c)
  <2>1. UNCHANGED collectorVars /\ UNCHANGED <<now, otelVars, otelIn>>
    BY <1>6 DEF PromReceive, PromObserve, Noted, PromScrape, PromDelete
  <2>2. RoundInv' /\ FewerWait
    BY <1>1, <2>1, ExporterFrame
  <2>3. OtelInv'
    BY <1>1, <2>1, <2>2, OtelFrame
  <2>4. PromInv'
    BY <1>1, <1>6, PromReceives, PromObserves, PromScrapes
  <2> QED BY <2>2, <2>3, <2>4
<1>7. CASE UNCHANGED pipeVars
  <2>1. UNCHANGED collectorVars /\ UNCHANGED <<now, otelVars, otelIn>> /\ UNCHANGED <<promVars, promIn>>
    BY <1>7 DEF pipeVars
  <2>2. RoundInv' /\ FewerWait
    BY <1>1, <2>1, ExporterFrame
  <2> QED BY <1>1, <2>1, <2>2, OtelFrame, PromFrame
<1> QED BY <1>3, <1>4, <1>5, <1>6, <1>7 DEF PipeNext, Mem

LEMMA InvExports == IInv => LiveProcessesExported
<1> SUFFICES ASSUME IInv, Drained, NEW p \in Based \ Reported
             PROVE  /\ sum[<<home[p], p>>] # NoSeries \/ <<home[p], p>> \in ignored
                    /\ gauge[<<home[p], p>>] # NoSeries \/ <<home[p], p>> \in overdue
  BY DEF LiveProcessesExported
<1>1. otelIn = <<>> /\ otelTodo = {} /\ promIn = <<>> /\ promTodo = {}
  BY DEF Drained
<1>2. PICK done \in SUBSET UIDs : OtelDone(done)
  BY DEF IInv, OtelInv
<1>3. sum[<<home[p], p>>] # NoSeries \/ <<home[p], p>> \in ignored
  BY <1>1, <1>2 DEF OtelDone
<1>4. gauge[<<home[p], p>>] # NoSeries \/ <<home[p], p>> \in overdue
  BY <1>1 DEF IInv, PromInv, Safe
<1> QED BY <1>3, <1>4

(* When the cache of reporters can hold one of every process, then once    *)
(* the exporters have caught up each process that the collector reports    *)
(* has its series in both, whatever the TTL, the lag of the exporters, the *)
(* number of scrapes between whose scan and deletion its statuses come,    *)
(* and the disturbances; the only gauges that a scrape takes wrongly are   *)
(* those of a status that came more than a TTL after the one before, or    *)
(* after the scan.  The hypothesis cannot be dropped: with less room the   *)
(* LRU evicts reporters of the batch that is being exported.               *)
THEOREM LiveProcessesExportedCorrect ==
    ASSUME EnoughReporters
    PROVE  PipeSpec => []LiveProcessesExported
<1>1. IInv /\ [PipeNext]_pipeVars => IInv'
  BY PipeStepInv
<1> QED BY <1>1, PipeInitInv, InvExports, PTL DEF PipeSpec
-----------------------------------------------------------------------------
(* The memory.  The deltas of a process form a chain along the statuses    *)
(* that wait for the OTEL exporter: what it has observed of its batch, the *)
(* rest of the batch, the batches in the channel, and the current round.   *)

HasMem(B, u, m) == \E q \in B : q.uid = u /\ q.mem = m
Lacks(B, u) == \A q \in B : q.uid # u

(* u had the memory m right before batch i of the channel                  *)
Before(in, todo, s, done, i, u, m) ==
    IF i = 1 THEN HasMem(todo, u, m) \/ (u \in done /\ s[u] = m)
    ELSE HasMem(in[i - 1], u, m)

(* there is no series and no status of u before batch i; the reporter l    *)
(* that was used last is not its reporter                                  *)
Never(in, todo, s, l, i, u) ==
    /\ s[u] = NoSeries /\ u # l /\ Lacks(todo, u)
    /\ \A j \in 1 .. (i - 1) : Lacks(in[j], u)

(* the delta of a status of batch i: to the batch before, or from zero     *)
Linked(in, todo, s, l, done, i, o) ==
    \/ \E m \in Mem : Before(in, todo, s, done, i, o.uid, m) /\ o.memDelta = o.mem - m
    \/ o.memDelta = o.mem /\ Never(in, todo, s, l, i, o.uid)

(* m is the latest memory of u on the way to an exporter; when there is    *)
(* none on the way, the exporter shows m or nothing                        *)
LatestIs(in, todo, shown, u, m) ==
    \/ \E i \in 1 .. Len(in) :
         HasMem(in[i], u, m) /\ \A j \in (i + 1) .. Len(in) : Lacks(in[j], u)
    \/ /\ \A j \in 1 .. Len(in) : Lacks(in[j], u)
       /\ HasMem(todo, u, m) \/ (Lacks(todo, u) /\ shown)

(* the service of a process does not change                                *)
AtHome(u) == home[u[2]] = u[1]

HomeInv ==
    /\ \A u \in pool : AtHome(u)
    /\ \A o \in otelTodo : AtHome(o.uid)
    /\ \A i \in 1 .. Len(otelIn) : \A o \in otelIn[i] : AtHome(o.uid)

(* The reporter of u was used at most n rounds ago.                        *)
UsedSince(u, n) == u \in pool /\ now - lastAccess[u] <= n

ChainInv(done) ==
    /\ done \in SUBSET UIDs
    /\ \A u \in done : /\ sum[u] # NoSeries /\ UsedSince(u, Len(otelIn))
                       /\ Lacks(otelTodo, u)
    /\ \A o \in otelTodo :
         \/ /\ sum[o.uid] # NoSeries /\ o.memDelta = o.mem - sum[o.uid]
            /\ UsedSince(o.uid, Len(otelIn) + 1)
         \/ sum[o.uid] = NoSeries /\ o.uid # lastUID /\ o.memDelta = o.mem
    /\ \A i \in 1 .. Len(otelIn) : \A o \in otelIn[i] :
         Linked(otelIn, otelTodo, sum, lastUID, done, i, o)
    /\ \A o \in batch : /\ Linked(otelIn, otelTodo, sum, lastUID, done, Len(otelIn) + 1, o)
                         /\ o.mem = base[pidOf(o)]
    /\ \A p \in Based \ Reported :
         Before(otelIn, otelTodo, sum, done, Len(otelIn) + 1, <<home[p], p>>, base[p])
    /\ \A p \in PIDs \ (Based \cup dropped) : \A s \in Services :
         Never(otelIn, otelTodo, sum, lastUID, Len(otelIn) + 1, <<s, p>>)

(* Both exporters have, or will come to, the memory that was last sent.    *)
SentInv(pub) ==
    \A u \in UIDs :
      /\ LatestIs(otelIn, otelTodo, sum[u] \in {NoSeries, pub[u]}, u, pub[u])
      /\ LatestIs(promIn, promTodo, gauge[u] = NoSeries \/ gauge[u].mem = pub[u], u, pub[u])

RssInv ==
    /\ HomeInv /\ Len(otelIn) <= BatchBuf
    /\ \E done \in SUBSET UIDs : ChainInv(done)
    /\ \E pub \in [UIDs -> Mem] : SentInv(pub)
(* A batch is sent.                                                        *)
LEMMA LatestSent ==
    ASSUME NEW in \in Seq(SUBSET Observation), NEW B \in SUBSET Observation,
           NEW todo, NEW shown, NEW shown2, NEW u, NEW m, NEW n,
           LatestIs(in, todo, shown, u, m),
           HasMem(B, u, n) \/ (Lacks(B, u) /\ n = m /\ (shown => shown2))
    PROVE  LatestIs(Append(in, B), todo, shown2, u, n)
<1>1. /\ Len(in) \in Nat /\ Len(Append(in, B)) = Len(in) + 1
      /\ \A i \in 1 .. Len(in) : Append(in, B)[i] = in[i]
      /\ Append(in, B)[Len(in) + 1] = B
  BY AppendProperties, LenProperties
<1>a. PICK a : a = Append(in, B)
  OBVIOUS
<1>2. PICK k \in Nat : a = Append(in, B) /\ k = Len(in)
  BY <1>1, <1>a
<1>3. Len(a) = k + 1 /\ (\A i \in 1 .. k : a[i] = in[i]) /\ a[k + 1] = B
  BY <1>1, <1>2
<1>4. CASE HasMem(B, u, n)
  <2>1. k + 1 \in 1 .. (k + 1) /\ \A j \in (k + 1 + 1) .. (k + 1) : FALSE
    BY <1>2
  <2> QED BY <1>2, <1>3, <1>4, <2>1 DEF LatestIs
<1>5. CASE Lacks(B, u) /\ n = m /\ (shown => shown2)
  <2>1. CASE \E i \in 1 .. k : HasMem(in[i], u, m) /\ \A j \in (i + 1) .. k : Lacks(in[j], u)
    <3>1. PICK i \in 1 .. k : HasMem(in[i], u, m) /\ \A j \in (i + 1) .. k : Lacks(in[j], u)
      BY <2>1
    <3>2. i \in 1 .. (k + 1) /\ \A j \in (i + 1) .. (k + 1) : (j \in (i + 1) .. k /\ j \in 1 .. k) \/ j = k + 1
      OBVIOUS
    <3>3. HasMem(a[i], u, n) /\ \A j \in (i + 1) .. (k + 1) : Lacks(a[j], u)
      BY <1>3, <1>5, <3>1, <3>2
    <3> QED BY <1>2, <1>3, <3>2, <3>3 DEF LatestIs
  <2>2. CASE /\ \A j \in 1 .. k : Lacks(in[j], u)
             /\ HasMem(todo, u, m) \/ (Lacks(todo, u) /\ shown)
    <3>1. \A j \in 1 .. (k + 1) : j \in 1 .. k \/ j = k + 1
      OBVIOUS
    <3>2. \A j \in 1 .. (k + 1) : Lacks(a[j], u)
      BY <1>3, <1>5, <2>2, <3>1
    <3> QED BY <1>2, <1>3, <1>5, <2>2, <3>2 DEF LatestIs
  <2> QED BY <1>2, <2>1, <2>2 DEF LatestIs
<1> QED BY <1>4, <1>5

(* A batch is received, and none was being exported.                       *)
LEMMA LatestTaken ==
    ASSUME NEW in \in Seq(SUBSET Observation), in # <<>>,
           NEW shown, NEW u, NEW m, LatestIs(in, {}, shown, u, m)
    PROVE  LatestIs(Tail(in), Head(in), shown, u, m)
<1>1. /\ Head(in) = in[1] /\ Len(in) \in Nat /\ 1 <= Len(in)
      /\ Len(Tail(in)) = Len(in) - 1
      /\ \A i \in 1 .. (Len(in) - 1) : Tail(in)[i] = in[i + 1]
  BY TakeFacts
<1>a. PICK t : t = Tail(in)
  OBVIOUS
<1>b. \A n \in Nat : 1 <= n => n - 1 \in Nat
  OBVIOUS
<1>c. PICK k \in Nat : k = Len(in) - 1
  BY <1>1, <1>b
<1>2. t = Tail(in) /\ k = Len(in) - 1
  BY <1>a, <1>c
<1>3. Len(in) = k + 1 /\ Len(t) = k /\ (\A i \in 1 .. k : t[i] = in[i + 1])
  BY <1>1, <1>2
<1>4. CASE \E i \in 1 .. (k + 1) :
             HasMem(in[i], u, m) /\ \A j \in (i + 1) .. (k + 1) : Lacks(in[j], u)
  <2>1. PICK i \in 1 .. (k + 1) :
             HasMem(in[i], u, m) /\ \A j \in (i + 1) .. (k + 1) : Lacks(in[j], u)
    BY <1>4
  <2>2. CASE i = 1
    <3>1. \A j \in 1 .. k : j + 1 \in (1 + 1) .. (k + 1)
      OBVIOUS
    <3>2. HasMem(Head(in), u, m) /\ \A j \in 1 .. k : Lacks(t[j], u)
      BY <1>1, <1>3, <2>1, <2>2, <3>1
    <3> QED BY <1>2, <1>3, <3>2 DEF LatestIs
  <2>3. CASE i # 1
    <3>1. /\ i - 1 \in 1 .. k /\ (i - 1) + 1 = i
          /\ \A j \in ((i - 1) + 1) .. k : j \in 1 .. k /\ j + 1 \in (i + 1) .. (k + 1)
      BY <2>3
    <3>2. HasMem(t[i - 1], u, m) /\ \A j \in ((i - 1) + 1) .. k : Lacks(t[j], u)
      BY <1>3, <2>1, <3>1
    <3> QED BY <1>2, <1>3, <3>1, <3>2 DEF LatestIs
  <2> QED BY <2>2, <2>3
<1>5. CASE (\A j \in 1 .. (k + 1) : Lacks(in[j], u)) /\ shown
  <2>1. 1 \in 1 .. (k + 1) /\ \A j \in 1 .. k : j + 1 \in 1 .. (k + 1)
    OBVIOUS
  <2>2. Lacks(Head(in), u) /\ \A j \in 1 .. k : Lacks(t[j], u)
    BY <1>1, <1>3, <1>5, <2>1
  <2> QED BY <1>2, <1>3, <1>5, <2>2 DEF LatestIs
<1> QED BY <1>3, <1>4, <1>5 DEF LatestIs, HasMem

(* A status is exported, and then shown.                                   *)
LEMMA LatestObserved ==
    ASSUME NEW in, NEW todo \in SUBSET Observation, OneEach(todo), NEW o \in todo,
           NEW shown, NEW shown2, NEW u, NEW m,
           LatestIs(in, todo, shown, u, m),
           u = o.uid /\ o.mem = m => shown2, u # o.uid /\ shown => shown2
    PROVE  LatestIs(in, todo \ {o}, shown2, u, m)
<1>1. CASE u = o.uid
  <2>1. \A q \in todo : q.uid = u => q = o
    BY <1>1 DEF OneEach, pidOf
  <2>2. Lacks(todo \ {o}, u) /\ (HasMem(todo, u, m) => o.mem = m) /\ ~ Lacks(todo, u)
    BY <1>1, <2>1 DEF Lacks, HasMem
  <2> QED BY <1>1, <2>2 DEF LatestIs
<1>2. CASE u # o.uid
  <2>1. /\ HasMem(todo, u, m) => HasMem(todo \ {o}, u, m)
        /\ Lacks(todo, u) => Lacks(todo \ {o}, u)
    BY <1>2 DEF Lacks, HasMem
  <2> QED BY <1>2, <2>1 DEF LatestIs
<1> QED BY <1>1, <1>2
(* The chain of deltas is not touched by a batch that is sent,             *)
LEMMA ChainSent ==
    ASSUME NEW in \in Seq(SUBSET Observation), NEW B \in SUBSET Observation,
           NEW todo, NEW s, NEW l, NEW done, NEW i \in 1 .. (Len(in) + 1)
    PROVE  /\ \A u, m : Before(in, todo, s, done, i, u, m)
                          => Before(Append(in, B), todo, s, done, i, u, m)
           /\ \A u : Never(in, todo, s, l, i, u) => Never(Append(in, B), todo, s, l, i, u)
           /\ \A o : Linked(in, todo, s, l, done, i, o) => Linked(Append(in, B), todo, s, l, done, i, o)
<1>1. Len(in) \in Nat /\ \A j \in 1 .. Len(in) : Append(in, B)[j] = in[j]
  BY AppendProperties, LenProperties
<1>2. PICK a : a = Append(in, B)
  OBVIOUS
<1>3. PICK k \in Nat : k = Len(in)
  BY <1>1
<1>4. \A j \in 1 .. (i - 1) : a[j] = in[j]
  <2>1. \A j \in 1 .. (i - 1) : j \in 1 .. k
    BY <1>3
  <2> QED BY <1>1, <1>2, <1>3, <2>1
<1>5. i # 1 => i - 1 \in 1 .. (i - 1)
  BY <1>1
<1>6. \A u, m : Before(in, todo, s, done, i, u, m) => Before(a, todo, s, done, i, u, m)
  BY <1>4, <1>5 DEF Before
<1>7. \A u : Never(in, todo, s, l, i, u) => Never(a, todo, s, l, i, u)
  BY <1>4 DEF Never
<1>8. \A o : Linked(in, todo, s, l, done, i, o) => Linked(a, todo, s, l, done, i, o)
  BY <1>6, <1>7 DEF Linked
<1> QED BY <1>2, <1>6, <1>7, <1>8

(* by a batch that is received: it becomes the one that is exported,       *)
LEMMA ChainTaken ==
    ASSUME NEW in \in Seq(SUBSET Observation), in # <<>>,
           NEW s, NEW l, NEW done, NEW i \in 1 .. Len(in)
    PROVE  /\ \A u, m : Before(in, {}, s, done, i + 1, u, m)
                          => Before(Tail(in), Head(in), s, {}, i, u, m)
           /\ \A u : Never(in, {}, s, l, i + 1, u) => Never(Tail(in), Head(in), s, l, i, u)
           /\ \A o : Linked(in, {}, s, l, done, i + 1, o) => Linked(Tail(in), Head(in), s, l, {}, i, o)
<1>1. /\ Head(in) = in[1] /\ Len(in) \in Nat /\ 1 <= Len(in)
      /\ \A j \in 1 .. (Len(in) - 1) : Tail(in)[j] = in[j + 1]
  BY TakeFacts
<1>2. PICK t : t = Tail(in)
  OBVIOUS
<1>3. PICK h : h = Head(in)
  OBVIOUS
<1>4. PICK k \in Nat : k = Len(in)
  BY <1>1
<1>5. h = in[1] /\ i \in 1 .. k /\ \A j \in 1 .. (i - 1) : t[j] = in[j + 1]
  <2>1. i \in 1 .. k /\ \A j \in 1 .. (i - 1) : j \in 1 .. (k - 1)
    BY <1>4
  <2> QED BY <1>1, <1>2, <1>3, <1>4, <2>1
<1>6. /\ i + 1 # 1 /\ (i + 1) - 1 = i /\ 1 \in 1 .. i
      /\ i # 1 => i - 1 \in 1 .. (i - 1) /\ (i - 1) + 1 = i
      /\ \A j \in 1 .. (i - 1) : j + 1 \in 1 .. i
  BY <1>5
<1>7. \A u, m : Before(in, {}, s, done, i + 1, u, m) => Before(t, h, s, {}, i, u, m)
  BY <1>5, <1>6 DEF Before
<1>8. \A u : Never(in, {}, s, l, i + 1, u) => Never(t, h, s, l, i, u)
  BY <1>5, <1>6 DEF Never
<1>9. \A o : Linked(in, {}, s, l, done, i + 1, o) => Linked(t, h, s, l, {}, i, o)
  BY <1>7, <1>8 DEF Linked
<1> QED BY <1>2, <1>3, <1>7, <1>8, <1>9

(* nor by a status that is exported: its memory is now the sum.            *)
LEMMA ChainObserved ==
    ASSUME NEW todo \in SUBSET Observation, NEW o \in todo,
           NEW s, NEW s2, NEW l, NEW done, s2[o.uid] = o.mem,
           \A u \in done : s2[u] = s[u],
           \A u \in UIDs : u # o.uid /\ s[u] = NoSeries => s2[u] = NoSeries,
           NEW in, NEW i
    PROVE  /\ \A u, m : Before(in, todo, s, done, i, u, m)
                          => Before(in, todo \ {o}, s2, done \cup {o.uid}, i, u, m)
           /\ \A u \in UIDs : Never(in, todo, s, l, i, u) => Never(in, todo \ {o}, s2, o.uid, i, u)
           /\ \A q \in Observation : Linked(in, todo, s, l, done, i, q)
                => Linked(in, todo \ {o}, s2, o.uid, done \cup {o.uid}, i, q)
<1>1. \A u, m : HasMem(todo, u, m) => HasMem(todo \ {o}, u, m) \/ (u = o.uid /\ s2[u] = m)
  BY DEF HasMem
<1>2. \A u, m : Before(in, todo, s, done, i, u, m)
                  => Before(in, todo \ {o}, s2, done \cup {o.uid}, i, u, m)
  BY <1>1 DEF Before
<1>3. \A u \in UIDs : Never(in, todo, s, l, i, u) => Never(in, todo \ {o}, s2, o.uid, i, u)
  BY DEF Never, Lacks
<1>4. ASSUME NEW q \in Observation, Linked(in, todo, s, l, done, i, q)
      PROVE  Linked(in, todo \ {o}, s2, o.uid, done \cup {o.uid}, i, q)
  <2>1. q.uid \in UIDs
    BY DEF Observation
  <2> QED BY <1>2, <1>3, <1>4, <2>1 DEF Linked
<1> QED BY <1>2, <1>3, <1>4
-----------------------------------------------------------------------------
(* Nothing disturbs the processes, and a status is exported before the TTL *)
(* of the previous one is over even when it waited in a full channel.      *)
Steady == Disturbances = {} /\ TTL >= BatchBuf + 2

LEMMA RssInit == PipeInit => RssInv
<1> SUFFICES ASSUME PipeInit PROVE RssInv
  OBVIOUS
<1>1. /\ Based = {} /\ batch = {} /\ pool = {} /\ otelIn = <<>> /\ promIn = <<>>
      /\ otelTodo = {} /\ promTodo = {}
  BY DEF PipeInit, FeedInit, Based, Pool!Init
<1>a. lastUID = NoUID
  BY DEF PipeInit, Pool!Init
<1>2. Len(otelIn) = 0 /\ Len(promIn) = 0 /\ 0 <= BatchBuf /\ 1 .. 0 = {} /\ (0 + 1) - 1 = 0
  BY <1>1, PipeAssumption
<1>3. HomeInv /\ Len(otelIn) <= BatchBuf
  BY <1>1, <1>2 DEF HomeInv
<1>4. \A s \in Services, p \in PIDs : sum[<<s, p>>] = NoSeries /\ <<s, p>> # lastUID
  <2>1. \A u \in UIDs : u # lastUID
    BY <1>a, PipeAssumption DEF UIDs
  <2>2. \A u \in UIDs : sum[u] = NoSeries
    BY DEF PipeInit
  <2> QED BY <2>1, <2>2 DEF UIDs
<1>5. \A s \in Services, p \in PIDs : Never(otelIn, otelTodo, sum, lastUID, Len(otelIn) + 1, <<s, p>>)
  BY <1>1, <1>2, <1>4 DEF Never, Lacks
<1>6. ChainInv({}) /\ {} \in SUBSET UIDs
  BY <1>1, <1>2, <1>5 DEF ChainInv
<1>7. PICK pub \in [UIDs -> Mem] : TRUE
  <2>1. 0 \in Mem
    BY PipeAssumption DEF Mem
  <2>2. [u \in UIDs |-> 0] \in [UIDs -> Mem]
    BY <2>1
  <2> QED BY <2>2
<1>8. \A u \in UIDs : sum[u] = NoSeries /\ gauge[u] = NoSeries
  BY DEF PipeInit
<1>9. SentInv(pub)
  BY <1>1, <1>2, <1>8 DEF SentInv, LatestIs, Lacks
<1> QED BY <1>3, <1>6, <1>7, <1>9 DEF RssInv

(* Without moves, a report leaves the service of what is at home.          *)
LEMMA HomeReported ==
    ASSUME Steady, TypeInv, HomeInv,
           NEW p \in PIDs, NEW s \in Services, NEW m \in Mem, CollectorReports(p, s, m)
    PROVE  HomeInv'
<1>1. /\ home[p] \in {s, NoUID} /\ home' = [home EXCEPT ![p] = s]
      /\ UNCHANGED <<pool, otelTodo, otelIn>>
      /\ home \in [PIDs -> Services \cup {NoUID}]
  BY DEF CollectorReports, Steady, otelVars, poolVars, TypeInv, CollectorType
<1>2. ASSUME NEW u \in UIDs, AtHome(u) PROVE AtHome(u)'
  <2>1. u[1] \in Services /\ u[2] \in PIDs /\ u[1] # NoUID
    BY PipeAssumption DEF UIDs
  <2> QED BY <1>1, <1>2, <2>1 DEF AtHome
<1>3. /\ pool \in SUBSET UIDs /\ \A o \in otelTodo : o.uid \in UIDs
      /\ otelIn \in Seq(SUBSET Observation)
  BY DEF TypeInv, PipeTypeOK, Pool!TypeOK, Observation
<1>4. \A i \in 1 .. Len(otelIn) : \A o \in otelIn[i] : o.uid \in UIDs
  BY <1>3 DEF Observation
<1> QED BY <1>1, <1>2, <1>3, <1>4 DEF HomeInv

LEMMA RssReports ==
    ASSUME Steady, TypeInv, RoundInv, RssInv,
           NEW p \in PIDs, NEW s \in Services, NEW m \in Mem, CollectorReports(p, s, m)
    PROVE  RssInv'
<1>1. /\ home[p] \in {s, NoUID} /\ p \notin dropped /\ p \notin Reported
      /\ UNCHANGED <<dropped, now, pool, lastAccess, lastUID, sum, otelTodo, otelIn>>
      /\ UNCHANGED <<promTodo, promIn, gauge>>
  BY DEF CollectorReports, Continue, Start, Steady, otelVars, poolVars, promVars
<1>2. HomeInv' /\ Len(otelIn') <= BatchBuf
  BY <1>1, HomeReported DEF RssInv
<1>3. PICK pub \in [UIDs -> Mem] : SentInv(pub)
  BY DEF RssInv
<1>4. SentInv(pub)'
  BY <1>1, <1>3 DEF SentInv
<1>5. PICK done \in SUBSET UIDs : ChainInv(done)
  BY DEF RssInv
<1>6. PICK n \in Observation :
        /\ n.uid = <<s, p>> /\ n.mem = m /\ batch' = batch \cup {n}
        /\ Linked(otelIn, otelTodo, sum, lastUID, done, Len(otelIn) + 1, n)
  <2>1. m \in Int /\ <<s, p>> \in UIDs /\ base \in [PIDs -> Mem \cup {NoBase}]
    BY DEF Mem, UIDs, TypeInv, CollectorType
  <2>2. CASE Continue(p, s, m)
    <3>1. p \in Based \ Reported /\ base[p] \in Mem /\ base[p] \in Int
      BY <2>1, <2>2 DEF Continue, Based, Mem
    <3>2. home[p] = s
      BY <1>1, <3>1, PipeAssumption DEF RoundInv
    <3>3. PICK d \in Int : d = m - base[p]
      BY <2>1, <3>1
    <3>4. PICK n \in Observation : n = [uid |-> <<s, p>>, mem |-> m, memDelta |-> d]
      BY <2>1 DEF Observation, Mem
    <3>5. n.uid = <<s, p>> /\ n.mem = m /\ n.memDelta = m - base[p] /\ batch' = batch \cup {n}
      BY <2>2, <3>3, <3>4 DEF Continue, Observe
    <3>6. Before(otelIn, otelTodo, sum, done, Len(otelIn) + 1, <<s, p>>, base[p])
      BY <1>5, <3>1, <3>2 DEF ChainInv
    <3>7. Linked(otelIn, otelTodo, sum, lastUID, done, Len(otelIn) + 1, n)
      BY <3>1, <3>5, <3>6 DEF Linked
    <3> QED BY <3>5, <3>7
  <2>3. CASE Start(p, s, m)
    <3>1. PICK n \in Observation : n = [uid |-> <<s, p>>, mem |-> m, memDelta |-> m]
      BY <2>1 DEF Observation, Mem
    <3>2. n.uid = <<s, p>> /\ n.mem = m /\ n.memDelta = m /\ batch' = batch \cup {n}
      BY <2>3, <3>1 DEF Start, Observe
    <3>3. Never(otelIn, otelTodo, sum, lastUID, Len(otelIn) + 1, <<s, p>>)
      BY <1>1, <1>5, <2>3 DEF ChainInv, Start
    <3>4. Linked(otelIn, otelTodo, sum, lastUID, done, Len(otelIn) + 1, n)
      BY <3>2, <3>3 DEF Linked
    <3> QED BY <3>2, <3>4
  <2> QED BY <2>2, <2>3 DEF CollectorReports
<1>7. base'[p] = m /\ \A q \in PIDs : q # p => base'[q] = base[q]
  BY DEF CollectorReports, Continue, Start, TypeInv, CollectorType
<1>8. pidOf(n) = p /\ \A o \in batch : pidOf(o) # p /\ pidOf(o) \in PIDs
  BY <1>1, <1>6 DEF pidOf, Reported, RoundInv, Based
<1>9. RoundInv' /\ FewerWait
  BY RoundReported DEF CollectorReports
<1>10. p \in Reported' /\ Based' \subseteq PIDs /\ Based \subseteq Based'
  <2>1. p \in Reported'
    BY <1>6 DEF Reported
  <2>2. m # NoBase
    BY PipeAssumption DEF Mem
  <2> QED BY <1>7, <2>1, <2>2 DEF Based
<1>11. ChainInv(done)'
  <2>1. /\ \A u \in done : /\ sum'[u] # NoSeries /\ UsedSince(u, Len(otelIn))'
                           /\ Lacks(otelTodo', u)
        /\ \A o \in otelTodo' :
             \/ /\ sum'[o.uid] # NoSeries /\ o.memDelta = o.mem - sum'[o.uid]
                /\ UsedSince(o.uid, Len(otelIn) + 1)'
             \/ sum'[o.uid] = NoSeries /\ o.uid # lastUID' /\ o.memDelta = o.mem
        /\ \A i \in 1 .. Len(otelIn') : \A o \in otelIn'[i] :
             Linked(otelIn', otelTodo', sum', lastUID', done, i, o)
    BY <1>1, <1>5 DEF ChainInv, UsedSince
  <2>2. \A o \in batch' : Linked(otelIn', otelTodo', sum', lastUID', done, Len(otelIn') + 1, o)
    BY <1>1, <1>5, <1>6 DEF ChainInv
  <2>3. \A o \in batch' : o.mem = base'[pidOf(o)]
    BY <1>5, <1>6, <1>7, <1>8 DEF ChainInv
  <2>4. \A q \in Waiting' : q \in Based \ Reported /\ home'[q] = home[q] /\ base'[q] = base[q]
    BY <1>7, <1>9, <1>10 DEF FewerWait, Waiting
  <2>5. \A q \in Based' \ Reported' :
          Before(otelIn', otelTodo', sum', done, Len(otelIn') + 1, <<home'[q], q>>, base'[q])
    BY <1>1, <1>5, <2>4 DEF ChainInv, Waiting
  <2>6. \A q \in PIDs \ (Based' \cup dropped') : \A x \in Services :
         Never(otelIn', otelTodo', sum', lastUID', Len(otelIn') + 1, <<x, q>>)
    BY <1>1, <1>5, <1>10 DEF ChainInv
  <2> QED BY <2>1, <2>2, <2>3, <2>5, <2>6 DEF ChainInv
<1> QED BY <1>2, <1>4, <1>11 DEF RssInv

LEMMA RssDrops ==
    ASSUME TypeInv, RoundInv, RssInv, NEW p \in PIDs, CollectorDrops(p)
    PROVE  RssInv'
<1>1. /\ dropped' = dropped \cup {p} /\ p \notin Reported /\ batch' = batch
      /\ UNCHANGED <<home, now, pool, lastAccess, lastUID, sum, otelTodo, otelIn>>
      /\ UNCHANGED <<promTodo, promIn, gauge>>
      /\ base' = [base EXCEPT ![p] = NoBase]
  BY DEF CollectorDrops, Drop, otelVars, poolVars, promVars
<1>2. HomeInv' /\ Len(otelIn') <= BatchBuf
  BY <1>1 DEF RssInv, HomeInv, AtHome
<1>3. PICK pub \in [UIDs -> Mem] : SentInv(pub)
  BY DEF RssInv
<1>4. SentInv(pub)'
  BY <1>1, <1>3 DEF SentInv
<1>5. PICK done \in SUBSET UIDs : ChainInv(done)
  BY DEF RssInv
<1>6. /\ \A q \in PIDs : q # p => base'[q] = base[q] /\ (q \in Based' <=> q \in Based)
      /\ p \notin Based' /\ Based \subseteq PIDs /\ Based' \subseteq PIDs
  BY <1>1 DEF Based, TypeInv, CollectorType
<1>7. \A o \in batch : pidOf(o) # p /\ pidOf(o) \in PIDs
  BY <1>1, <1>6 DEF pidOf, Reported, RoundInv
<1>8. Reported' = Reported
  BY <1>1 DEF Reported
<1>9. ChainInv(done)'
  <2>1. /\ \A u \in done : /\ sum'[u] # NoSeries /\ UsedSince(u, Len(otelIn))'
                           /\ Lacks(otelTodo', u)
        /\ \A o \in otelTodo' :
             \/ /\ sum'[o.uid] # NoSeries /\ o.memDelta = o.mem - sum'[o.uid]
                /\ UsedSince(o.uid, Len(otelIn) + 1)'
             \/ sum'[o.uid] = NoSeries /\ o.uid # lastUID' /\ o.memDelta = o.mem
        /\ \A i \in 1 .. Len(otelIn') : \A o \in otelIn'[i] :
             Linked(otelIn', otelTodo', sum', lastUID', done, i, o)
    BY <1>1, <1>5 DEF ChainInv, UsedSince
  <2>2. \A o \in batch' : /\ Linked(otelIn', otelTodo', sum', lastUID', done, Len(otelIn') + 1, o)
                          /\ o.mem = base'[pidOf(o)]
    BY <1>1, <1>5, <1>6, <1>7 DEF ChainInv
  <2>3. \A q \in Based' \ Reported' :
          Before(otelIn', otelTodo', sum', done, Len(otelIn') + 1, <<home'[q], q>>, base'[q])
    BY <1>1, <1>5, <1>6, <1>8 DEF ChainInv
  <2>4. \A q \in PIDs \ (Based' \cup dropped') : \A x \in Services :
         Never(otelIn', otelTodo', sum', lastUID', Len(otelIn') + 1, <<x, q>>)
    BY <1>1, <1>5, <1>6 DEF ChainInv
  <2> QED BY <2>1, <2>2, <2>3, <2>4 DEF ChainInv
<1> QED BY <1>2, <1>4, <1>9 DEF RssInv
LEMMA RssSends ==
    ASSUME TypeInv, RoundInv, RssInv, CollectorSends
    PROVE  RssInv'
<1>1. /\ UNCHANGED <<home, dropped, base, pool, lastAccess, lastUID, sum, otelTodo, promTodo, gauge>>
      /\ Publish /\ otelIn' = Append(otelIn, batch) /\ promIn' = Append(promIn, batch)
      /\ now' = now + 1 /\ Len(otelIn) < BatchBuf /\ batch' = {}
  BY DEF CollectorSends, Publish, otelVars, poolVars, promVars
<1>2. /\ otelIn \in Seq(SUBSET Observation) /\ promIn \in Seq(SUBSET Observation)
      /\ batch \in SUBSET Observation /\ now \in Nat /\ lastAccess \in [UIDs -> Nat]
      /\ pool \in SUBSET UIDs
  BY DEF TypeInv, PipeTypeOK, CollectorType, Pool!TypeOK
<1>3. PICK k \in Nat : k = Len(otelIn)
  BY <1>2, LenProperties
<1>4. /\ Len(otelIn') = k + 1 /\ otelIn'[k + 1] = batch
      /\ \A i \in 1 .. k : otelIn'[i] = otelIn[i]
  BY <1>1, <1>2, <1>3, AppendProperties, LenProperties
<1>5. \A i \in 1 .. (k + 1) : i \in 1 .. k \/ i = k + 1
  OBVIOUS
<1>6. Based = Reported /\ Based' = Based /\ Reported' = {} /\ Based \subseteq PIDs
  BY <1>1 DEF Publish, Based, Reported
<1>7. HomeInv'
  <2>1. \A o \in batch : AtHome(o.uid)
    <3>1. \A o \in batch : o.uid = <<home[pidOf(o)], pidOf(o)>>
      BY DEF RoundInv
    <3> QED BY <3>1 DEF AtHome
  <2>2. \A i \in 1 .. (k + 1) : \A o \in otelIn'[i] : AtHome(o.uid)
    BY <1>3, <1>4, <1>5, <2>1 DEF RssInv, HomeInv
  <2> QED BY <1>1, <1>4, <2>2 DEF RssInv, HomeInv, AtHome
<1>8. Len(otelIn') <= BatchBuf
  BY <1>1, <1>3, <1>4, PipeAssumption
<1>9. PICK done \in SUBSET UIDs : ChainInv(done)
  BY DEF RssInv
<1>10. ASSUME NEW i \in 1 .. (k + 1)
       PROVE  /\ \A u, m : Before(otelIn, otelTodo, sum, done, i, u, m)
                             => Before(otelIn', otelTodo, sum, done, i, u, m)
              /\ \A u : Never(otelIn, otelTodo, sum, lastUID, i, u) => Never(otelIn', otelTodo, sum, lastUID, i, u)
              /\ \A o : Linked(otelIn, otelTodo, sum, lastUID, done, i, o)
                          => Linked(otelIn', otelTodo, sum, lastUID, done, i, o)
  BY <1>1, <1>2, <1>3, ChainSent
<1>11. ChainInv(done)'
  <2>1. \A u \in UIDs, n \in {k, k + 1} : UsedSince(u, n) => UsedSince(u, n + 1)'
    BY <1>1, <1>2 DEF UsedSince
  <2>2. \A u \in done : /\ sum'[u] # NoSeries /\ UsedSince(u, k + 1)'
                        /\ Lacks(otelTodo', u)
    BY <1>1, <1>3, <1>9, <2>1 DEF ChainInv
  <2>3. \A o \in otelTodo : o.uid \in UIDs
    BY DEF TypeInv, PipeTypeOK, Observation
  <2>4. \A o \in otelTodo' :
          \/ /\ sum'[o.uid] # NoSeries /\ o.memDelta = o.mem - sum'[o.uid]
             /\ UsedSince(o.uid, k + 1 + 1)'
          \/ sum'[o.uid] = NoSeries /\ o.uid # lastUID' /\ o.memDelta = o.mem
    BY <1>1, <1>3, <1>9, <2>1, <2>3 DEF ChainInv
  <2>5. \A i \in 1 .. (k + 1) : \A o \in otelIn'[i] : Linked(otelIn, otelTodo, sum, lastUID, done, i, o)
    BY <1>3, <1>4, <1>5, <1>9 DEF ChainInv
  <2>6. \A i \in 1 .. (k + 1) : \A o \in otelIn'[i] : Linked(otelIn', otelTodo', sum', lastUID', done, i, o)
    BY <1>1, <1>10, <2>5
  <2>7. ASSUME NEW p \in Based' \ Reported'
        PROVE  Before(otelIn', otelTodo', sum', done, k + 1 + 1, <<home'[p], p>>, base'[p])
    <3>1. p \in Waiting'
      BY DEF Waiting
    <3>2. PICK o \in batch : o.uid = <<home[p], p>>
      BY <1>1, <3>1, RoundPublished
    <3>3. o.mem = base[p]
      BY <1>9, <3>2 DEF ChainInv, pidOf
    <3>4. HasMem(batch, <<home[p], p>>, base[p])
      BY <3>2, <3>3 DEF HasMem
    <3>5. k + 1 + 1 # 1 /\ (k + 1 + 1) - 1 = k + 1
      OBVIOUS
    <3> QED BY <1>1, <1>4, <3>4, <3>5 DEF Before
  <2>8. ASSUME NEW p \in PIDs \ (Based' \cup dropped'), NEW s \in Services
        PROVE  Never(otelIn', otelTodo', sum', lastUID', k + 1 + 1, <<s, p>>)
    <3>1. Never(otelIn, otelTodo, sum, lastUID, k + 1, <<s, p>>)
      BY <1>1, <1>3, <1>6, <1>9 DEF ChainInv
    <3>2. Lacks(batch, <<s, p>>)
      BY <1>6 DEF Lacks, Reported
    <3>3. (k + 1) - 1 = k /\ (k + 1 + 1) - 1 = k + 1
      OBVIOUS
    <3>4. \A j \in 1 .. (k + 1) : Lacks(otelIn'[j], <<s, p>>)
      BY <1>4, <1>5, <3>1, <3>2, <3>3 DEF Never
    <3> QED BY <1>1, <3>1, <3>3, <3>4 DEF Never
  <2> QED BY <1>1, <1>4, <2>2, <2>4, <2>6, <2>7, <2>8 DEF ChainInv
<1>12. PICK pub \in [UIDs -> Mem] : SentInv(pub)
  BY DEF RssInv
<1>13. PICK new \in [UIDs -> Mem] :
         \A u \in UIDs : HasMem(batch, u, new[u]) \/ (Lacks(batch, u) /\ new[u] = pub[u])
  <2> DEFINE f == [u \in UIDs |-> IF Lacks(batch, u) THEN pub[u] ELSE base[u[2]]]
  <2>1. ASSUME NEW u \in UIDs, ~ Lacks(batch, u)
        PROVE  base[u[2]] \in Mem /\ HasMem(batch, u, base[u[2]])
    <3>1. PICK o \in batch : o.uid = u
      BY <2>1 DEF Lacks
    <3>2. o.mem = base[u[2]] /\ o.mem \in Mem
      BY <1>2, <1>9, <3>1 DEF ChainInv, pidOf, Observation, Mem
    <3> QED BY <3>1, <3>2 DEF HasMem
  <2>2. f \in [UIDs -> Mem]
    BY <2>1
  <2>3. \A u \in UIDs : HasMem(batch, u, f[u]) \/ (Lacks(batch, u) /\ f[u] = pub[u])
    BY <2>1
  <2> HIDE DEF f
  <2> QED BY <2>2, <2>3
<1>14. SentInv(new)'
  <2> SUFFICES ASSUME NEW u \in UIDs
               PROVE  /\ LatestIs(otelIn', otelTodo, sum[u] \in {NoSeries, new[u]}, u, new[u])
                      /\ LatestIs(promIn', promTodo, gauge[u] = NoSeries \/ gauge[u].mem = new[u], u, new[u])
    BY <1>1 DEF SentInv
  <2>1. HasMem(batch, u, new[u]) \/ (Lacks(batch, u) /\ new[u] = pub[u])
    BY <1>13
  <2>2. /\ LatestIs(otelIn, otelTodo, sum[u] \in {NoSeries, pub[u]}, u, pub[u])
        /\ LatestIs(promIn, promTodo, gauge[u] = NoSeries \/ gauge[u].mem = pub[u], u, pub[u])
    BY <1>12 DEF SentInv
  <2>3. /\ \/ HasMem(batch, u, new[u])
           \/ /\ Lacks(batch, u) /\ new[u] = pub[u]
              /\ sum[u] \in {NoSeries, pub[u]} => sum[u] \in {NoSeries, new[u]}
        /\ \/ HasMem(batch, u, new[u])
           \/ /\ Lacks(batch, u) /\ new[u] = pub[u]
              /\ gauge[u] = NoSeries \/ gauge[u].mem = pub[u] => gauge[u] = NoSeries \/ gauge[u].mem = new[u]
    BY <2>1
  <2>4. LatestIs(otelIn', otelTodo, sum[u] \in {NoSeries, new[u]}, u, new[u])
    BY <1>1, <1>2, <2>2, <2>3, LatestSent
  <2>5. LatestIs(promIn', promTodo, gauge[u] = NoSeries \/ gauge[u].mem = new[u], u, new[u])
    BY <1>1, <1>2, <2>2, <2>3, LatestSent
  <2> QED BY <2>4, <2>5
<1> QED BY <1>7, <1>8, <1>11, <1>14 DEF RssInv
LEMMA RssReceives ==
    ASSUME TypeInv, RssInv, OtelReceive
    PROVE  RssInv'
<1>1. /\ UNCHANGED <<home, dropped, base, batch, now, pool, lastAccess, lastUID, sum, promTodo, promIn, gauge>>
      /\ otelTodo = {} /\ otelIn # <<>> /\ otelTodo' = Head(otelIn) /\ otelIn' = Tail(otelIn)
  BY DEF OtelReceive, collectorVars, feedVars, poolVars, promVars
<1>2. /\ otelIn \in Seq(SUBSET Observation) /\ now \in Nat /\ lastAccess \in [UIDs -> Nat]
      /\ pool \in SUBSET UIDs
  BY DEF TypeInv, PipeTypeOK, Pool!TypeOK
<1>3. /\ Head(otelIn) = otelIn[1] /\ Len(otelIn) \in Nat /\ 1 <= Len(otelIn)
      /\ Len(otelIn') = Len(otelIn) - 1
      /\ \A i \in 1 .. (Len(otelIn) - 1) : otelIn'[i] = otelIn[i + 1]
  BY <1>1, <1>2, TakeFacts
<1>4. PICK k \in Nat : k + 1 = Len(otelIn) /\ k = Len(otelIn) - 1
  <2>1. \A n \in Nat : 1 <= n => n - 1 \in Nat /\ (n - 1) + 1 = n
    OBVIOUS
  <2> QED BY <1>3, <2>1
<1>5. /\ Len(otelIn') = k /\ otelTodo' = otelIn[1]
      /\ \A i \in 1 .. k : otelIn'[i] = otelIn[i + 1]
  BY <1>1, <1>3, <1>4
<1>6. 1 \in 1 .. (k + 1) /\ \A i \in 1 .. k : i \in 1 .. (k + 1) /\ i + 1 \in 1 .. (k + 1)
  OBVIOUS
<1>7. HomeInv'
  <2>1. /\ \A o \in otelTodo' : AtHome(o.uid)
        /\ \A i \in 1 .. k : \A o \in otelIn'[i] : AtHome(o.uid)
    BY <1>4, <1>5, <1>6 DEF RssInv, HomeInv
  <2> QED BY <1>1, <1>5, <2>1 DEF RssInv, HomeInv, AtHome
<1>8. Len(otelIn') <= BatchBuf
  BY <1>4, <1>5, PipeAssumption DEF RssInv
<1>9. PICK done \in SUBSET UIDs : ChainInv(done)
  BY DEF RssInv
<1>10. ASSUME NEW i \in 1 .. (k + 1)
       PROVE  /\ \A u, m : Before(otelIn, {}, sum, done, i + 1, u, m)
                             => Before(otelIn', otelTodo', sum, {}, i, u, m)
              /\ \A u : Never(otelIn, {}, sum, lastUID, i + 1, u) => Never(otelIn', otelTodo', sum, lastUID, i, u)
              /\ \A o : Linked(otelIn, {}, sum, lastUID, done, i + 1, o)
                          => Linked(otelIn', otelTodo', sum, lastUID, {}, i, o)
  BY <1>1, <1>2, <1>4, ChainTaken
<1>11. Based' = Based /\ Reported' = Reported
  BY <1>1 DEF Based, Reported
<1>12. k + 1 \in 1 .. (k + 1)
  OBVIOUS
<1>13. ChainInv({})'
  <2>1. ASSUME NEW o \in otelTodo'
        PROVE  \/ /\ sum[o.uid] # NoSeries /\ o.memDelta = o.mem - sum[o.uid]
                  /\ UsedSince(o.uid, k + 1)
               \/ sum[o.uid] = NoSeries /\ o.uid # lastUID /\ o.memDelta = o.mem
    <3>1. Linked(otelIn, {}, sum, lastUID, done, 1, o)
      BY <1>1, <1>4, <1>5, <1>6, <1>9 DEF ChainInv
    <3>2. CASE \E m \in Mem : Before(otelIn, {}, sum, done, 1, o.uid, m) /\ o.memDelta = o.mem - m
      BY <1>4, <1>9, <3>2 DEF Before, HasMem, ChainInv
    <3>3. CASE o.memDelta = o.mem /\ Never(otelIn, {}, sum, lastUID, 1, o.uid)
      BY <3>3 DEF Never
    <3> QED BY <3>1, <3>2, <3>3 DEF Linked
  <2>2. \A i \in 1 .. k : \A o \in otelIn'[i] : Linked(otelIn', otelTodo', sum, lastUID, {}, i, o)
    BY <1>1, <1>4, <1>5, <1>6, <1>9, <1>10 DEF ChainInv
  <2>3. \A o \in batch : /\ Linked(otelIn', otelTodo', sum, lastUID, {}, k + 1, o)
                         /\ o.mem = base[pidOf(o)]
    BY <1>1, <1>4, <1>9, <1>10, <1>12 DEF ChainInv
  <2>4. \A p \in Based \ Reported :
          Before(otelIn', otelTodo', sum, {}, k + 1, <<home[p], p>>, base[p])
    BY <1>1, <1>4, <1>9, <1>10, <1>12 DEF ChainInv
  <2>5. \A p \in PIDs \ (Based \cup dropped) : \A s \in Services :
          Never(otelIn', otelTodo', sum, lastUID, k + 1, <<s, p>>)
    BY <1>1, <1>4, <1>9, <1>10, <1>12 DEF ChainInv
  <2> QED BY <1>1, <1>5, <1>11, <2>1, <2>2, <2>3, <2>4, <2>5 DEF ChainInv, UsedSince
<1>14. PICK pub \in [UIDs -> Mem] : SentInv(pub)
  BY DEF RssInv
<1>15. SentInv(pub)'
  <2> SUFFICES ASSUME NEW u \in UIDs
               PROVE  LatestIs(otelIn', otelTodo', sum[u] \in {NoSeries, pub[u]}, u, pub[u])
    BY <1>1, <1>14 DEF SentInv
  <2>1. LatestIs(otelIn, {}, sum[u] \in {NoSeries, pub[u]}, u, pub[u])
    BY <1>1, <1>14 DEF SentInv
  <2> QED BY <1>1, <1>2, <2>1, LatestTaken
<1>16. {} \in SUBSET UIDs
  OBVIOUS
<1> QED BY <1>7, <1>8, <1>13, <1>15, <1>16 DEF RssInv

(* The pool loses no reporter of a process that has a status to come, and  *)
(* none at all to an eviction: the processes keep their services.          *)
LEMMA UsedKept ==
    ASSUME EnoughReporters, Steady, TypeInv, RssInv, NEW o \in otelTodo, Pool!For(o.uid),
           NEW u \in UIDs, UsedSince(u, Len(otelIn)) \/ UsedSince(u, Len(otelIn) + 1)
    PROVE  u \in pool' /\ u \notin Pool!Swept /\ now - lastAccess[u] < TTL
<1>1. /\ o.uid \in UIDs /\ Pool!TypeOK /\ now \in Nat /\ pool \in SUBSET UIDs
      /\ lastAccess \in [UIDs -> Nat] /\ otelIn \in Seq(SUBSET Observation)
  BY DEF TypeInv, PipeTypeOK, Observation, Pool!TypeOK
<1>2. u \in pool /\ now - lastAccess[u] < TTL
  <2>1. /\ Len(otelIn) \in Nat /\ Len(otelIn) <= BatchBuf /\ lastAccess[u] \in Nat
        /\ TTL >= BatchBuf + 2 /\ BatchBuf \in Nat /\ TTL \in Nat
    BY <1>1, PipeAssumption, LenProperties DEF RssInv, Steady
  <2>2. u \in pool /\ now - lastAccess[u] <= Len(otelIn) + 1
    BY <1>1, <2>1 DEF UsedSince
  <2> QED BY <1>1, <2>1, <2>2
<1>3. u \notin Pool!Swept
  <2>1. TTL \in Nat /\ lastAccess[u] \in Nat
    BY <1>1, PipeAssumption
  <2>2. ~ Pool!Aged(u)
    BY <1>1, <1>2, <2>1 DEF Pool!Aged
  <2> QED BY <2>2 DEF Pool!Swept
<1>4. PICK P \in SUBSET UIDs : P = pool \ Pool!Swept
  BY <1>1
<1>5. o.uid \notin P => Cardinality(P) < CacheLen
  <2> SUFFICES ASSUME o.uid \notin P PROVE Cardinality(P) < CacheLen
    OBVIOUS
  <2>1. \A a, b \in UIDs : AtHome(a) /\ AtHome(b) /\ a[2] = b[2] => a = b
    BY DEF AtHome, UIDs
  <2>2. AtHome(o.uid) /\ \A a \in P : AtHome(a)
    BY <1>4 DEF RssInv, HomeInv
  <2>3. (o.uid)[2] \in PIDs
    BY <1>1 DEF UIDs
  <2>4. /\ \A a, b \in P : a[2] = b[2] => a = b
        /\ \A a \in P : a[2] # (o.uid)[2]
    BY <1>1, <2>1, <2>2
  <2> QED BY <2>3, <2>4, RoomForOneMore
<1>6. o.uid \notin P => Pool!Evicted(P) = {}
  BY <1>5 DEF Pool!Evicted, Pool!Cardinality, Cardinality
<1>7. u \in pool'
  BY <1>1, <1>2, <1>3, <1>4, <1>6, ForFacts
<1> QED BY <1>2, <1>3, <1>7
(* The memory of the status is what the counter shows after it.            *)
LEMMA ShowsMemory ==
    ASSUME EnoughReporters, Steady, TypeInv, RssInv, NEW done \in SUBSET UIDs, ChainInv(done),
           NEW o \in otelTodo, Pool!For(o.uid),
           sum' = [sumAfterEviction EXCEPT ![o.uid] = counter(o.uid) + o.memDelta]
    PROVE  /\ sum'[o.uid] = o.mem /\ o.uid \in pool'
           /\ \A u \in UIDs : u # o.uid =>
                sum'[u] = IF u \in pool \ pool' THEN NoSeries ELSE sum[u]
<1>1. /\ o.uid \in UIDs /\ o.mem \in Int /\ o.memDelta \in Int
      /\ sum \in [UIDs -> Int \cup {NoSeries}]
      /\ now \in Nat /\ lastAccess[o.uid] \in Nat /\ TTL \in Nat
  BY PipeAssumption DEF TypeInv, PipeTypeOK, Observation, Pool!TypeOK
<1>2. /\ sumAfterEviction \in [UIDs -> Int \cup {NoSeries}]
      /\ \A u \in UIDs : sumAfterEviction[u] = IF u \in pool \ pool' THEN NoSeries ELSE sum[u]
  BY <1>1, SumTyped DEF sumAfterEviction
<1>3. /\ sum'[o.uid] = counter(o.uid) + o.memDelta
      /\ \A u \in UIDs : u # o.uid => sum'[u] = sumAfterEviction[u]
  BY <1>1, <1>2
<1>4. CASE /\ sum[o.uid] # NoSeries /\ o.memDelta = o.mem - sum[o.uid]
           /\ UsedSince(o.uid, Len(otelIn) + 1)
  <2>1. o.uid \in pool' /\ o.uid \notin Pool!Swept /\ now - lastAccess[o.uid] < TTL
    BY <1>1, <1>4, UsedKept
  <2>2. ~ Created(o.uid)
    BY <1>4, <2>1 DEF Created, UsedSince
  <2>3. ~ SeriesExpired(o.uid)
    BY <1>1, <2>1 DEF SeriesExpired
  <2>4. counter(o.uid) = sum[o.uid]
    BY <1>1, <1>2, <1>4, <2>1, <2>2, <2>3 DEF counter
  <2>5. sum[o.uid] \in Int
    BY <1>1, <1>4
  <2>6. sum'[o.uid] = o.mem
    BY <1>1, <1>3, <1>4, <2>4, <2>5
  <2> QED BY <1>2, <1>3, <2>1, <2>6
<1>5. CASE sum[o.uid] = NoSeries /\ o.uid # lastUID /\ o.memDelta = o.mem
  <2>1. counter(o.uid) = 0
    BY <1>1, <1>2, <1>5 DEF counter
  <2>2. sum'[o.uid] = o.mem
    BY <1>1, <1>3, <1>5, <2>1
  <2>3. o.uid \in pool'
    BY <1>5 DEF Pool!For, Pool!ForLast, Pool!ForPooled, Pool!ForNew
  <2> QED BY <1>2, <1>3, <2>2, <2>3
<1> QED BY <1>4, <1>5 DEF ChainInv

LEMMA RssObserves ==
    ASSUME EnoughReporters, Steady, TypeInv, RoundInv, OtelInv, RssInv, OtelObserve
    PROVE  RssInv'
<1>1. PICK o \in otelTodo :
        /\ Pool!For(o.uid)
        /\ sum' = [sumAfterEviction EXCEPT ![o.uid] = counter(o.uid) + o.memDelta]
        /\ otelTodo' = otelTodo \ {o}
        /\ UNCHANGED <<collectorVars, otelIn, promVars, promIn>>
  BY DEF OtelObserve
<1>2. /\ UNCHANGED <<home, dropped, base, batch, otelIn, promTodo, promIn, gauge>>
      /\ Based' = Based /\ Reported' = Reported
  BY <1>1 DEF collectorVars, feedVars, promVars, Based, Reported
<1>3. /\ otelTodo \in SUBSET Observation /\ otelIn \in Seq(SUBSET Observation)
      /\ batch \in SUBSET Observation /\ o.uid \in UIDs /\ OneEach(otelTodo)
      /\ Pool!TypeOK /\ lastAccess \in [UIDs -> Nat] /\ now \in Nat
  BY DEF TypeInv, PipeTypeOK, CollectorType, Observation, OtelInv, ChannelInv, Pool!TypeOK
<1>4. PICK done \in SUBSET UIDs : ChainInv(done)
  BY DEF RssInv
<1>5. /\ now' = now /\ lastUID' = o.uid
      /\ lastAccess' = [lastAccess EXCEPT ![o.uid] = now]
      /\ pool' \subseteq pool \cup {o.uid}
  BY <1>1, <1>3, ForFacts
<1>6. /\ sum'[o.uid] = o.mem /\ o.uid \in pool'
      /\ \A u \in UIDs : u # o.uid => sum'[u] = IF u \in pool \ pool' THEN NoSeries ELSE sum[u]
  BY <1>1, <1>4, ShowsMemory
<1>7. ASSUME NEW u \in UIDs, u # o.uid,
             UsedSince(u, Len(otelIn)) \/ UsedSince(u, Len(otelIn) + 1)
      PROVE  u \in pool' /\ sum'[u] = sum[u] /\ lastAccess'[u] = lastAccess[u]
  <2>1. u \in pool'
    BY <1>1, <1>7, UsedKept
  <2> QED BY <1>3, <1>5, <1>6, <1>7, <2>1
<1>8. PICK d \in SUBSET UIDs : d = done \cup {o.uid}
  BY <1>3
<1>9. /\ \A u \in done : u # o.uid /\ UsedSince(u, Len(otelIn)) /\ sum[u] # NoSeries /\ Lacks(otelTodo, u)
      /\ \A q \in otelTodo \ {o} : q.uid # o.uid /\ q.uid \in UIDs
  <2>1. \A q \in otelTodo \ {o} : q.uid # o.uid /\ q.uid \in UIDs
    BY <1>3 DEF OneEach, pidOf, Observation
  <2> QED BY <1>4, <2>1 DEF ChainInv, Lacks
<1>10. ASSUME NEW i
       PROVE  /\ \A u, m : Before(otelIn, otelTodo, sum, done, i, u, m)
                             => Before(otelIn', otelTodo', sum', d, i, u, m)
              /\ \A u \in UIDs : Never(otelIn, otelTodo, sum, lastUID, i, u)
                                   => Never(otelIn', otelTodo', sum', lastUID', i, u)
              /\ \A q \in Observation : Linked(otelIn, otelTodo, sum, lastUID, done, i, q)
                   => Linked(otelIn', otelTodo', sum', lastUID', d, i, q)
  <2>1. \A u \in done : sum'[u] = sum[u]
    BY <1>7, <1>9
  <2>2. \A u \in UIDs : u # o.uid /\ sum[u] = NoSeries => sum'[u] = NoSeries
    BY <1>6
  <2>3. PICK s2 : s2 = sum'
    OBVIOUS
  <2>4. /\ s2[o.uid] = o.mem /\ \A u \in done : s2[u] = sum[u]
        /\ \A u \in UIDs : u # o.uid /\ sum[u] = NoSeries => s2[u] = NoSeries
    BY <1>6, <2>1, <2>2, <2>3
  <2>5. PICK s : s = sum
    OBVIOUS
  <2>6. PICK in : in = otelIn
    OBVIOUS
  <2>7. PICK todo \in SUBSET Observation : todo = otelTodo
    BY <1>3
  <2>8. PICK l : l = lastUID
    OBVIOUS
  <2>9. /\ o \in todo /\ \A u \in done : s2[u] = s[u]
        /\ \A u \in UIDs : u # o.uid /\ s[u] = NoSeries => s2[u] = NoSeries
    BY <2>4, <2>5, <2>7
  <2>10. /\ \A u, m : Before(in, todo, s, done, i, u, m)
                        => Before(in, todo \ {o}, s2, done \cup {o.uid}, i, u, m)
         /\ \A u \in UIDs : Never(in, todo, s, l, i, u) => Never(in, todo \ {o}, s2, o.uid, i, u)
         /\ \A q \in Observation : Linked(in, todo, s, l, done, i, q)
              => Linked(in, todo \ {o}, s2, o.uid, done \cup {o.uid}, i, q)
    BY <2>4, <2>9, ChainObserved
  <2> QED BY <1>1, <1>2, <1>5, <1>8, <2>3, <2>5, <2>6, <2>7, <2>8, <2>10
<1>11. ChainInv(d)'
  <2>1. ASSUME NEW u \in d
        PROVE  sum'[u] # NoSeries /\ UsedSince(u, Len(otelIn))' /\ Lacks(otelTodo', u)
    <3>1. CASE u = o.uid
      <4>1. o.mem # NoSeries
        BY <1>3, PipeAssumption DEF Observation
      <4>2. lastAccess'[u] = now /\ now - now <= Len(otelIn)
        BY <1>3, <1>5, <3>1, LenProperties
      <4>3. Lacks(otelTodo', u)
        BY <1>1, <1>9, <3>1 DEF Lacks
      <4> QED BY <1>2, <1>5, <1>6, <3>1, <4>1, <4>2, <4>3 DEF UsedSince
    <3>2. CASE u \in done
      <4>1. u \in UIDs /\ u # o.uid /\ UsedSince(u, Len(otelIn)) /\ sum[u] # NoSeries /\ Lacks(otelTodo, u)
        BY <1>9, <3>2
      <4>2. u \in pool' /\ sum'[u] = sum[u] /\ lastAccess'[u] = lastAccess[u]
        BY <1>7, <4>1
      <4> QED BY <1>1, <1>2, <1>5, <4>1, <4>2 DEF UsedSince, Lacks
    <3> QED BY <1>8, <3>1, <3>2
  <2>2. ASSUME NEW q \in otelTodo'
        PROVE  \/ /\ sum'[q.uid] # NoSeries /\ q.memDelta = q.mem - sum'[q.uid]
                  /\ UsedSince(q.uid, Len(otelIn) + 1)'
               \/ sum'[q.uid] = NoSeries /\ q.uid # lastUID' /\ q.memDelta = q.mem
    <3>1. q \in otelTodo /\ q.uid # o.uid /\ q.uid \in UIDs
      BY <1>1, <1>9
    <3>2. CASE /\ sum[q.uid] # NoSeries /\ q.memDelta = q.mem - sum[q.uid]
               /\ UsedSince(q.uid, Len(otelIn) + 1)
      <4>1. q.uid \in pool' /\ sum'[q.uid] = sum[q.uid] /\ lastAccess'[q.uid] = lastAccess[q.uid]
        BY <1>7, <3>1, <3>2
      <4> QED BY <1>2, <1>5, <3>2, <4>1 DEF UsedSince
    <3>3. CASE sum[q.uid] = NoSeries /\ q.memDelta = q.mem
      BY <1>5, <1>6, <3>1, <3>3
    <3> QED BY <1>4, <3>1, <3>2, <3>3 DEF ChainInv
  <2>3. \A i \in 1 .. Len(otelIn) : otelIn[i] \in SUBSET Observation
    BY <1>3
  <2>4. \A i \in 1 .. Len(otelIn) : \A q \in otelIn[i] :
          Linked(otelIn', otelTodo', sum', lastUID', d, i, q)
    BY <1>4, <1>10, <2>3 DEF ChainInv
  <2>5. \A q \in batch : /\ Linked(otelIn', otelTodo', sum', lastUID', d, Len(otelIn) + 1, q)
                         /\ q.mem = base[pidOf(q)]
    BY <1>3, <1>4, <1>10 DEF ChainInv
  <2>6. \A p \in Based \ Reported :
          Before(otelIn', otelTodo', sum', d, Len(otelIn) + 1, <<home[p], p>>, base[p])
    BY <1>4, <1>10 DEF ChainInv
  <2>7. \A p \in PIDs \ (Based \cup dropped) : \A s \in Services :
          Never(otelIn', otelTodo', sum', lastUID', Len(otelIn) + 1, <<s, p>>)
    BY <1>4, <1>10 DEF ChainInv, UIDs
  <2> QED BY <1>2, <2>1, <2>2, <2>4, <2>5, <2>6, <2>7 DEF ChainInv
<1>12. HomeInv' /\ Len(otelIn') <= BatchBuf
  BY <1>1, <1>2, <1>5 DEF RssInv, HomeInv, AtHome
<1>13. PICK pub \in [UIDs -> Mem] : SentInv(pub)
  BY DEF RssInv
<1>14. SentInv(pub)'
  <2> SUFFICES ASSUME NEW u \in UIDs
               PROVE  LatestIs(otelIn, otelTodo \ {o}, sum'[u] \in {NoSeries, pub[u]}, u, pub[u])
    BY <1>1, <1>2, <1>13 DEF SentInv
  <2>1. LatestIs(otelIn, otelTodo, sum[u] \in {NoSeries, pub[u]}, u, pub[u])
    BY <1>13 DEF SentInv
  <2>2. /\ u = o.uid /\ o.mem = pub[u] => sum'[u] \in {NoSeries, pub[u]}
        /\ u # o.uid /\ sum[u] \in {NoSeries, pub[u]} => sum'[u] \in {NoSeries, pub[u]}
    BY <1>6
  <2> QED BY <1>3, <2>1, <2>2, LatestObserved
<1> QED BY <1>11, <1>12, <1>14 DEF RssInv
(* A step of the Prometheus exporter leaves the chain.                     *)
LEMMA ChainFrame ==
    ASSUME RssInv, UNCHANGED <<collectorVars, now, otelVars, otelIn>>
    PROVE  /\ HomeInv' /\ Len(otelIn') <= BatchBuf
           /\ \E done \in SUBSET UIDs : ChainInv(done)'
<1>1. /\ UNCHANGED <<home, dropped, base, batch, now, pool, lastAccess, lastUID, sum>>
      /\ UNCHANGED <<otelTodo, otelIn>>
  BY DEF collectorVars, feedVars, otelVars, poolVars
<1>2. Based' = Based /\ Reported' = Reported
  BY <1>1 DEF Based, Reported
<1>3. PICK done \in SUBSET UIDs : ChainInv(done)
  BY DEF RssInv
<1>4. ChainInv(done)'
  BY <1>1, <1>2, <1>3 DEF ChainInv, UsedSince
<1> QED BY <1>1, <1>4 DEF RssInv, HomeInv, AtHome

LEMMA RssProm ==
    ASSUME TypeInv, PromInv, RssInv,
           PromReceive \/ PromObserve \/ \E c \in Scrapers : PromScrape(c) \/ PromDelete(c)
    PROVE  RssInv'
<1>1. UNCHANGED <<collectorVars, now, otelVars, otelIn>>
  BY DEF PromReceive, PromObserve, Noted, PromScrape, PromDelete
<1>2. UNCHANGED <<sum, otelTodo, otelIn>>
  BY <1>1 DEF otelVars
<1>3. PICK pub \in [UIDs -> Mem] : SentInv(pub)
  BY DEF RssInv
<1>4. /\ promIn \in Seq(SUBSET Observation) /\ promTodo \in SUBSET Observation
      /\ OneEach(promTodo) /\ promNow \in Nat
      /\ gauge \in [UIDs -> [mem : 0..MaxMem, at : Nat] \cup {NoSeries}]
  BY DEF TypeInv, PipeTypeOK, PromInv, ChannelInv
<1>5. SentInv(pub)'
  <2> SUFFICES ASSUME NEW u \in UIDs
               PROVE  LatestIs(promIn', promTodo', gauge'[u] = NoSeries \/ gauge'[u].mem = pub[u], u, pub[u])
    BY <1>2, <1>3 DEF SentInv
  <2>1. LatestIs(promIn, promTodo, gauge[u] = NoSeries \/ gauge[u].mem = pub[u], u, pub[u])
    BY <1>3 DEF SentInv
  <2>2. CASE PromReceive
    <3>1. /\ promTodo = {} /\ promIn # <<>> /\ promTodo' = Head(promIn) /\ promIn' = Tail(promIn)
          /\ gauge' = gauge
      BY <2>2 DEF PromReceive
    <3>2. LatestIs(promIn, {}, gauge[u] = NoSeries \/ gauge[u].mem = pub[u], u, pub[u])
      BY <2>1, <3>1
    <3> QED BY <1>4, <3>1, <3>2, LatestTaken
  <2>3. CASE PromObserve
    <3>1. PICK o \in promTodo :
            /\ gauge' = [gauge EXCEPT ![o.uid] = [mem |-> o.mem, at |-> promNow]]
            /\ promTodo' = promTodo \ {o} /\ promIn' = promIn
      BY <2>3 DEF PromObserve, Noted
    <3>2. o.uid \in UIDs
      BY <1>4 DEF Observation
    <3>3. /\ u = o.uid => gauge'[u].mem = o.mem
          /\ u # o.uid => gauge'[u] = gauge[u]
      BY <1>4, <3>1, <3>2
    <3>4. /\ u = o.uid /\ o.mem = pub[u] => gauge'[u] = NoSeries \/ gauge'[u].mem = pub[u]
          /\ u # o.uid /\ (gauge[u] = NoSeries \/ gauge[u].mem = pub[u])
               => gauge'[u] = NoSeries \/ gauge'[u].mem = pub[u]
      BY <3>3
    <3>5. LatestIs(promIn, promTodo \ {o}, gauge'[u] = NoSeries \/ gauge'[u].mem = pub[u], u, pub[u])
      BY <1>4, <2>1, <3>4, LatestObserved
    <3> QED BY <3>1, <3>5
  <2>4. CASE \E c \in Scrapers : PromScrape(c) \/ PromDelete(c)
    <3>1. gauge'[u] \in {NoSeries, gauge[u]} /\ promTodo' = promTodo /\ promIn' = promIn
      BY <2>4 DEF PromScrape, PromDelete
    <3>2. gauge[u] = NoSeries \/ gauge[u].mem = pub[u] => gauge'[u] = NoSeries \/ gauge'[u].mem = pub[u]
      BY <3>1
    <3> QED BY <2>1, <3>1, <3>2 DEF LatestIs
  <2> QED BY <2>2, <2>3, <2>4
<1> QED BY <1>1, <1>5, ChainFrame DEF RssInv

LEMMA RssStep ==
    ASSUME EnoughReporters, Steady, IInv, RssInv, [PipeNext]_pipeVars
    PROVE  RssInv'
<1>1. TypeInv /\ RoundInv /\ OtelInv /\ PromInv
  BY DEF IInv, TypeInv
<1>2. CASE \E p \in PIDs, s \in Services, m \in Mem : CollectorReports(p, s, m)
  BY <1>1, <1>2, RssReports
<1>3. CASE \E p \in PIDs, m \in Mem : CollectorRestarts(p, m)
  BY <1>3 DEF CollectorRestarts, Steady
<1>4. CASE \E p \in PIDs : CollectorDrops(p)
  BY <1>1, <1>4, RssDrops
<1>5. CASE OtelIgnores
  BY <1>5 DEF OtelIgnores, Steady
<1>6. CASE UNCHANGED pipeVars
  <2>1. UNCHANGED <<collectorVars, now, otelVars, otelIn>> /\ UNCHANGED <<promTodo, promIn, gauge>>
    BY <1>6 DEF pipeVars, promVars
  <2>2. UNCHANGED <<sum, otelTodo, otelIn>>
    BY <2>1 DEF otelVars
  <2>3. \E pub \in [UIDs -> Mem] : SentInv(pub)'
    BY <2>1, <2>2 DEF RssInv, SentInv
  <2> QED BY <2>1, <2>3, ChainFrame DEF RssInv
<1> QED BY <1>1, <1>2, <1>3, <1>4, <1>5, <1>6, RssSends, RssReceives, RssObserves, RssProm
        DEF PipeNext, Mem

LEMMA RssMemory == RssInv => MemoryIsRSS
<1> SUFFICES ASSUME RssInv, Drained, NEW u \in UIDs,
                    sum[u] # NoSeries, gauge[u] # NoSeries
             PROVE  sum[u] = gauge[u].mem
  BY DEF MemoryIsRSS
<1>1. otelIn = <<>> /\ otelTodo = {} /\ promIn = <<>> /\ promTodo = {}
  BY DEF Drained
<1>2. Len(otelIn) = 0 /\ Len(promIn) = 0 /\ 1 .. 0 = {}
  BY <1>1
<1>3. PICK pub \in [UIDs -> Mem] : SentInv(pub)
  BY DEF RssInv
<1>4. /\ LatestIs(otelIn, otelTodo, sum[u] \in {NoSeries, pub[u]}, u, pub[u])
      /\ LatestIs(promIn, promTodo, gauge[u] = NoSeries \/ gauge[u].mem = pub[u], u, pub[u])
  BY <1>3 DEF SentInv
<1>5. sum[u] \in {NoSeries, pub[u]} /\ (gauge[u] = NoSeries \/ gauge[u].mem = pub[u])
  BY <1>1, <1>2, <1>4 DEF LatestIs, HasMem
<1> QED BY <1>5

(* The memory that OTEL accumulates from deltas is the memory that         *)
(* Prometheus shows, once both have caught up: for any processes, memory   *)
(* and length of the channels, as long as the cache of reporters can hold  *)
(* one of every process, the TTL is longer than the lag of a full channel, *)
(* and no process restarts, moves, comes back or meets a failing SDK.      *)
THEOREM MemoryIsRSSCorrect ==
    ASSUME EnoughReporters, Steady
    PROVE  PipeSpec => []MemoryIsRSS
<1>1. IInv /\ [PipeNext]_pipeVars => IInv'
  BY PipeStepInv
<1>2. IInv /\ RssInv /\ [PipeNext]_pipeVars => RssInv'
  BY RssStep
<1> QED BY <1>1, <1>2, PipeInitInv, RssInit, RssMemory, PTL DEF PipeSpec
=============================================================================
