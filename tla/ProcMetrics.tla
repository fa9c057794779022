----------------------------- MODULE ProcMetrics -----------------------------
(***************************************************************************)
(* The process-metrics pipeline of pkg/internal/pipe/proc_pipeline.go: the *)
(* collector, which is here the StatusFeed that ProcessCollector is shown  *)
(* to implement, sends each batch of statuses to two exporters that run on *)
(* their own.  The OTEL exporter (export/otel/metrics_proc.go) adds memory *)
(* deltas to UpDownCounters that live in the reporters of a ReporterPool;  *)
(* the Prometheus exporter (export/prom/prom_proc.go) sets gauges to the   *)
(* absolute memory, and a scrape, in a goroutine of the HTTP server, drops *)
(* those not set for a TTL: it looks for them under a read lock, and       *)
(* deletes what it found under a write lock that it takes later.           *)
(*                                                                         *)
(* The clock counts rounds of the collector: its interval is the unit.     *)
(***************************************************************************)
EXTENDS StatusFeed, Sequences, FiniteSets

CONSTANTS
    NoUID, CacheLen, TTL, MaxTime, \* as in ReporterPool
    NoSeries,   \* the exporter has no series of that process
    BatchBuf,   \* length of the channels between collector and exporters
    Scrapers,   \* the clients that scrape the Prometheus endpoint
    Disturbances \* what may happen to a process: see Disturbance

(* "restart": it changes its name or its parent; "move": its service       *)
(* changes (late metadata); "return": it is tracked again after it was     *)
(* dropped; "fault": the creation of its OTEL reporter fails               *)
Disturbance == {"restart", "move", "return", "fault"}

ASSUME PipeAssumption ==
    /\ IsFiniteSet(PIDs) /\ IsFiniteSet(Services \X PIDs)
    /\ NoUID \notin Services /\ NoUID \notin Services \X PIDs
    /\ MaxMem \in Nat /\ NoBase \notin 0..MaxMem
    /\ CacheLen \in Nat \ {0} /\ TTL \in Nat \ {0} /\ MaxTime \in Nat
    /\ NoSeries \notin Int /\ NoSeries \notin [mem : 0..MaxMem, at : Nat]
    /\ BatchBuf \in Nat /\ IsFiniteSet(Scrapers)
    /\ Disturbances \subseteq Disturbance

VARIABLES
    home,       \* the service that each PID belongs to, or NoUID
    dropped,    \* PIDs that were dropped
    now, pool, order, lastAccess, lastUID, lastExpiration, \* the OTEL exporter's pool
    expired,    \* Expirer.lastExpiration of the memory metric of each reporter
    ignored,    \* UIDs whose last status met a constructor that failed
    sum,        \* the UpDownCounter of each reporter, or NoSeries
    otelIn,     \* batches that the OTEL exporter has not received
    otelTodo,   \* statuses of its batch that it has not observed
    promIn, promTodo, \* the same of the Prometheus exporter
    promNow,    \* its cached clock
    gauge,      \* its gauge of each process, or NoSeries
    delKeys,    \* the gauges that each scrape is about to delete
    seen,       \* history: when it got the last status of each UID, or NoSeries
    overdue     \* history: UIDs whose last status came too late, see Condemned

collectorVars == <<feedVars, home, dropped>>
poolVars == <<pool, order, lastAccess, lastUID, lastExpiration>>
otelVars == <<poolVars, expired, ignored, sum, otelTodo>>
promVars == <<promTodo, promNow, gauge, delKeys, seen, overdue>>
pipeVars == <<collectorVars, now, otelVars, otelIn, promVars, promIn>>

Pool == INSTANCE ReporterPool WITH older <- order

PipeInit ==
    /\ FeedInit
    /\ home = [p \in PIDs |-> NoUID]
    /\ dropped = {}
    /\ Pool!Init
    /\ expired = [u \in UIDs |-> 0]
    /\ ignored = {}
    /\ sum = [u \in UIDs |-> NoSeries]
    /\ otelIn = <<>> /\ otelTodo = {}
    /\ promIn = <<>> /\ promTodo = {}
    /\ promNow = 0
    /\ gauge = [u \in UIDs |-> NoSeries]
    /\ delKeys = [c \in Scrapers |-> {}]
    /\ seen = [u \in UIDs |-> NoSeries]
    /\ overdue = {}

-----------------------------------------------------------------------------
(* The collector's steps; the clock moves with its rounds.                 *)

CollectorReports(p, s, m) ==
    /\ \/ Continue(p, s, m)
       \/ Start(p, s, m)
    /\ home[p] \in {s, NoUID} \/ "move" \in Disturbances
    /\ p \notin dropped \/ "return" \in Disturbances
    /\ home' = [home EXCEPT ![p] = s]
    /\ UNCHANGED <<dropped, now, otelVars, otelIn, promVars, promIn>>

CollectorRestarts(p, m) ==
    /\ home[p] # NoUID
    /\ Restart(p, home[p], m)
    /\ "restart" \in Disturbances
    /\ UNCHANGED <<home, dropped, now, otelVars, otelIn, promVars, promIn>>

CollectorDrops(p) ==
    /\ Drop(p)
    /\ dropped' = dropped \cup {p}
    /\ UNCHANGED <<home, now, otelVars, otelIn, promVars, promIn>>

(* Send, to both subscribers; it waits for room in their channels          *)
CollectorSends ==
    /\ Publish
    /\ Len(otelIn) < BatchBuf /\ Len(promIn) < BatchBuf
    /\ otelIn' = Append(otelIn, batch)
    /\ promIn' = Append(promIn, batch)
    /\ now < MaxTime
    /\ now' = now + 1
    /\ UNCHANGED <<home, dropped, otelVars, promVars>>

-----------------------------------------------------------------------------
(* The OTEL exporter: procMetricsExporter.Do.                              *)

OtelReceive ==
    /\ otelTodo = {}
    /\ otelIn # <<>>
    /\ otelTodo' = Head(otelIn)
    /\ otelIn' = Tail(otelIn)
    /\ UNCHANGED <<collectorVars, now, poolVars, expired, ignored, sum, promVars, promIn>>

(* the counters after the pool dropped some reporters: the eviction        *)
(* callback removes all their series (cleanupAllMetricsInstances)          *)
sumAfterEviction ==
    [u \in UIDs |-> IF u \in pool \ pool' THEN NoSeries ELSE sum[u]]

(* For created a reporter for this UID, with no series yet                 *)
Created(uid) == lastUID # uid /\ uid \notin pool \ Pool!Swept

(* Expirer.ForRecord drops the series of the record itself when it expired *)
SweepsSeries(uid) == now - expired[uid] >= TTL
SeriesExpired(uid) == SweepsSeries(uid) /\ now - lastAccess[uid] > TTL

(* the counter that the delta is added to                                  *)
counter(uid) ==
    IF Created(uid) \/ SeriesExpired(uid) \/ sumAfterEviction[uid] = NoSeries
    THEN 0 ELSE sumAfterEviction[uid]

(* mutant of OtelObserve: the absolute memory is added                     *)
OtelObserveAddsRSS ==
    \E o \in otelTodo :
        /\ Pool!For(o.uid)
        /\ sum' = [sumAfterEviction EXCEPT ![o.uid] = counter(o.uid) + o.mem]
        /\ expired' = IF Created(o.uid) \/ SweepsSeries(o.uid)
                      THEN [expired EXCEPT ![o.uid] = now] ELSE expired
        /\ ignored' = ignored \ {o.uid}
        /\ otelTodo' = otelTodo \ {o}
        /\ UNCHANGED <<collectorVars, otelIn, promVars, promIn>>

(* observeMetric: only the memory counter is modelled; the other metrics   *)
(* are added, or set, in the same way from the same status                 *)
OtelObserve ==
    \E o \in otelTodo :
        /\ Pool!For(o.uid)
        /\ sum' = [sumAfterEviction EXCEPT ![o.uid] = counter(o.uid) + o.memDelta]
        /\ expired' = IF Created(o.uid) \/ SweepsSeries(o.uid)
                      THEN [expired EXCEPT ![o.uid] = now] ELSE expired
        /\ ignored' = ignored \ {o.uid}
        /\ otelTodo' = otelTodo \ {o}
        /\ UNCHANGED <<collectorVars, otelIn, promVars, promIn>>

(* newMetricSet failed: the status is ignored                              *)
OtelIgnores ==
    \E o \in otelTodo :
        /\ Pool!ForFails(o.uid)
        /\ "fault" \in Disturbances
        /\ sum' = sumAfterEviction
        /\ ignored' = ignored \cup {o.uid}
        /\ otelTodo' = otelTodo \ {o}
        /\ UNCHANGED <<collectorVars, expired, otelIn, promVars, promIn>>

-----------------------------------------------------------------------------
(* The Prometheus exporter: procMetricsReporter.collectMetrics.            *)

PromReceive ==
    /\ promTodo = {}
    /\ promIn # <<>>
    /\ promTodo' = Head(promIn)
    /\ promIn' = Tail(promIn)
    /\ promNow' = now
    /\ UNCHANGED <<collectorVars, now, otelVars, otelIn, gauge, delKeys, seen, overdue>>

Outdated(u) == gauge[u] # NoSeries /\ promNow - gauge[u].at > TTL

(* a status of u that comes now is more than a TTL after the last one, or  *)
(* meets a scrape that takes the gauge for expired                         *)
Condemned(u) ==
    \/ seen[u] # NoSeries /\ promNow - seen[u] > TTL
    \/ \E c \in Scrapers : u \in delKeys[c]

Noted(o) ==
    /\ seen' = [seen EXCEPT ![o.uid] = promNow]
    /\ overdue' = IF Condemned(o.uid) THEN overdue \cup {o.uid} ELSE overdue \ {o.uid}
    /\ promTodo' = promTodo \ {o}
    /\ UNCHANGED <<collectorVars, now, otelVars, otelIn, promNow, delKeys, promIn>>

(* mutant of PromObserve: the gauge is set to the difference               *)
PromObserveDelta ==
    \E o \in promTodo :
        /\ gauge' = [gauge EXCEPT ![o.uid] = [mem |-> o.memDelta, at |-> promNow]]
        /\ Noted(o)

(* mutant of PromObserve: the last access of a gauge is its creation       *)
PromObserveKeepsAge ==
    \E o \in promTodo :
        /\ gauge' = [gauge EXCEPT ![o.uid] =
                       [mem |-> o.mem, at |-> IF @ = NoSeries THEN promNow ELSE @.at]]
        /\ Noted(o)

(* observeMetric.  GetOrCreate looks for the gauge under a read lock and   *)
(* refreshes it under a write lock: when a scrape deletes it in between,   *)
(* the refreshed gauge is not in the map any more, just as when the scrape *)
(* deletes it right after                                                  *)
PromObserve ==
    \E o \in promTodo :
        /\ gauge' = [gauge EXCEPT ![o.uid] = [mem |-> o.mem, at |-> promNow]]
        /\ Noted(o)

(* Expirer.Collect, a scrape: DeleteExpired finds the expired gauges ...   *)
PromScrape(c) ==
    /\ delKeys[c] = {}
    /\ \E u \in UIDs : Outdated(u)
    /\ delKeys' = [delKeys EXCEPT ![c] = {u \in UIDs : Outdated(u)}]
    /\ UNCHANGED <<collectorVars, now, otelVars, otelIn, promTodo, promNow, gauge, seen, overdue, promIn>>

(* ... and later deletes them, whatever happened to them                   *)
PromDelete(c) ==
    /\ delKeys[c] # {}
    /\ gauge' = [u \in UIDs |-> IF u \in delKeys[c] THEN NoSeries ELSE gauge[u]]
    /\ delKeys' = [delKeys EXCEPT ![c] = {}]
    /\ UNCHANGED <<collectorVars, now, otelVars, otelIn, promTodo, promNow, seen, overdue, promIn>>

-----------------------------------------------------------------------------
PipeNext ==
    \/ \E p \in PIDs, s \in Services, m \in 0..MaxMem : CollectorReports(p, s, m)
    \/ \E p \in PIDs, m \in 0..MaxMem : CollectorRestarts(p, m)
    \/ \E p \in PIDs : CollectorDrops(p)
    \/ CollectorSends
    \/ OtelReceive \/ OtelObserve \/ OtelIgnores
    \/ PromReceive \/ PromObserve
    \/ \E c \in Scrapers : PromScrape(c) \/ PromDelete(c)

PipeSpec == PipeInit /\ [][PipeNext]_pipeVars

(* Everything that was sent has been exported.                             *)
Drained == otelIn = <<>> /\ otelTodo = {} /\ promIn = <<>> /\ promTodo = {}

(* Types of the variables of the exporters.                                *)
PipeTypeOK ==
    /\ Pool!TypeOK
    /\ expired \in [UIDs -> Nat]
    /\ ignored \in SUBSET UIDs
    /\ sum \in [UIDs -> Int \cup {NoSeries}]
    /\ otelIn \in Seq(SUBSET Observation) /\ otelTodo \in SUBSET Observation
    /\ promIn \in Seq(SUBSET Observation) /\ promTodo \in SUBSET Observation
    /\ promNow \in Nat
    /\ gauge \in [UIDs -> [mem : 0..MaxMem, at : Nat] \cup {NoSeries}]
    /\ delKeys \in [Scrapers -> SUBSET UIDs]
    /\ seen \in [UIDs -> Nat \cup {NoSeries}]
    /\ overdue \in SUBSET UIDs

(* "The amount of physical memory in use" (metrics_proc.go:275,            *)
(* prom_proc.go:145): once every batch has been exported, the memory that  *)
(* OTEL accumulates from deltas is the memory that Prometheus shows for    *)
(* the same process, and that was read from /proc.                         *)
MemoryIsRSS ==
    Drained => \A u \in UIDs :
        sum[u] # NoSeries /\ gauge[u] # NoSeries => sum[u] = gauge[u].mem

(* Once every batch has been exported, each process that the collector     *)
(* knows has a series in both exporters: neither the sweeps of the pool,   *)
(* its fast path, nor a scrape takes a process that is still reported,     *)
(* unless the OTEL SDK refused to create its reporter.  A scrape may take  *)
(* a gauge after a status has refreshed it (DeleteExpired,                 *)
(* expiry_map.go:79-92), but only if that status came more than a TTL      *)
(* after the one before, or when the scrape had already found the gauge.   *)
LiveProcessesExported ==
    Drained => \A p \in Based \ Reported :
        /\ sum[<<home[p], p>>] # NoSeries \/ <<home[p], p>> \in ignored
        /\ gauge[<<home[p], p>>] # NoSeries \/ <<home[p], p>> \in overdue
=============================================================================
