-------------------------- MODULE ProcessCollector --------------------------
(***************************************************************************)
(* The process-metrics collector: pkg/internal/infraolly/process.          *)
(*                                                                         *)
(* One goroutine (Collector.Run) selects between the context, the channel  *)
(* of application spans, which tells it which PIDs to look at, and a       *)
(* ticker.  At each tick it harvests every known PID from /proc, computing *)
(* deltas against the snapshot of the previous tick that it keeps in an    *)
(* LRU cache, forgets the PIDs that could not be read, and sends the batch *)
(* of statuses downstream.  The processes themselves start, work, change   *)
(* their name or parent, exit and reuse PIDs concurrently with all of it.  *)
(***************************************************************************)
EXTENDS Integers, FiniteSets, Sequences

CONSTANTS
    PIDs,            \* PIDs of the host
    Idents,          \* values of the (command, ppid) pair of /proc/<pid>/stat
    Services,        \* service UIDs a span may carry
    ProcessServices, \* the services configured with FeatureProcess
    Privileged,      \* RunMode == RunModePrivileged
    WordSize,        \* 2^64 in the code: IO byte deltas are uint64 subtractions
    NoProc,          \* the PID names no process
    NoService,       \* the PID is not in the collector's map
    NoEntry,         \* the PID is not in the cache
    NoStatus,        \* the PID has no status since it was last tracked
    MaxGen,          \* bound: processes a PID names over time
    MaxCPU, MaxMem, MaxIO, MaxNet, \* bounds on the kernel's counters
    SpanBuf          \* bound: span batches waiting in the newPids channel

VARIABLES
    kernel,   \* external: what /proc/<pid> says, or NoProc
    births,   \* external: processes each PID has named so far
    spans,    \* the newPids channel
    ctxDone,  \* the context has been cancelled
    pids,     \* Run's map: PID -> the service that it belongs to
    cache,    \* Harvester.cache: PID -> linuxProcess snapshot
    older,    \* LRU order of the cache: <<q, p>> when q was used before p
    phase,    \* where Run is: idle (in select), collect, send or closed
    todo,     \* PIDs that the range loop of Collect has not visited
    results,  \* PIDs whose status is in the batch of this round
    status    \* the last Status of each PID since it was last tracked

kernelVars == <<kernel, births>>
vars == <<kernel, births, spans, ctxDone, pids, cache, older, phase, todo,
          results, status>>

ASSUME ConstantsAssumption ==
    /\ IsFiniteSet(PIDs)
    /\ ProcessServices \subseteq Services
    /\ Privileged \in BOOLEAN
    /\ MaxGen \in Nat /\ MaxCPU \in Nat /\ MaxMem \in Nat
    /\ MaxIO \in Nat /\ MaxNet \in Nat /\ SpanBuf \in Nat
    /\ WordSize \in Nat /\ WordSize > MaxIO
    /\ NoService \notin Services

-----------------------------------------------------------------------------
(* A reading of /proc/<pid>.  "gen" tells apart the processes that use the *)
(* same PID over time (their start time); the code never reads it.         *)
Sample == [gen : 1..MaxGen, ident : Idents, cpu : 0..MaxCPU, mem : 0..MaxMem,
           io : 0..MaxIO, rx : 0..MaxNet, tx : 0..MaxNet]

(* linuxProcess: the fields of the previous harvest that deltas are made of *)
Entry == [ident : Idents, cpu : 0..MaxCPU, mem : 0..MaxMem, io : 0..MaxIO,
          rx : 0..MaxNet, tx : 0..MaxNet]

(* Status, with the reading it was computed from                           *)
Status == [sample : Sample, svc : Services, cpuDelta : Int, memDelta : Int,
           ioDelta : 0..(WordSize - 1), rxDelta : Int, txDelta : Int]

Alive(p) == kernel[p] # NoProc
Tracked == {p \in PIDs : pids[p] # NoService}
Cached == {p \in PIDs : cache[p] # NoEntry}

ASSUME SentinelsAssumption ==
    /\ NoProc \notin Sample
    /\ NoEntry \notin Entry /\ NoEntry \notin 0..MaxMem
    /\ NoStatus \notin Status

Init ==
    /\ kernel = [p \in PIDs |-> NoProc]
    /\ births = [p \in PIDs |-> 0]
    /\ spans = <<>>
    /\ ctxDone = FALSE
    /\ pids = [p \in PIDs |-> NoService]
    /\ cache = [p \in PIDs |-> NoEntry]
    /\ older = {}
    /\ phase = "idle"
    /\ todo = {}
    /\ results = {}
    /\ status = [p \in PIDs |-> NoStatus]

-----------------------------------------------------------------------------
(* The host: external to the repository, seen through /proc.               *)

Spawn(p) ==
    /\ ~Alive(p)
    /\ births[p] < MaxGen
    /\ births' = [births EXCEPT ![p] = @ + 1]
    /\ \E i \in Idents, m \in 0..MaxMem, r \in 0..MaxNet, t \in 0..MaxNet :
         kernel' = [kernel EXCEPT ![p] =
            [gen |-> births[p] + 1, ident |-> i, cpu |-> 0, mem |-> m,
             io |-> 0, rx |-> r, tx |-> t]]
    /\ UNCHANGED <<spans, ctxDone, pids, cache, older, phase, todo, results, status>>

(* CPU and IO counters only grow; memory and the interface table of the    *)
(* network namespace go both ways (an interface may be removed).           *)
Work(p) ==
    /\ Alive(p)
    /\ \E c \in kernel[p].cpu..MaxCPU, m \in 0..MaxMem, i \in kernel[p].io..MaxIO,
          r \in 0..MaxNet, t \in 0..MaxNet :
         kernel' = [kernel EXCEPT ![p] =
            [gen |-> @.gen, ident |-> @.ident, cpu |-> c, mem |-> m, io |-> i,
             rx |-> r, tx |-> t]]
    /\ UNCHANGED <<births, spans, ctxDone, pids, cache, older, phase, todo, results, status>>

(* prctl(PR_SET_NAME), exec, or the parent's exit (the orphan gets a new   *)
(* ppid): the same process under another identity.                         *)
Reidentify(p) ==
    /\ Alive(p)
    /\ \E i \in Idents \ {kernel[p].ident} :
         kernel' = [kernel EXCEPT ![p].ident = i]
    /\ UNCHANGED <<births, spans, ctxDone, pids, cache, older, phase, todo, results, status>>

Exit(p) ==
    /\ Alive(p)
    /\ kernel' = [kernel EXCEPT ![p] = NoProc]
    /\ UNCHANGED <<births, spans, ctxDone, pids, cache, older, phase, todo, results, status>>

(* The traces pipeline reports a span of p.  It stays in the channel, so   *)
(* it may reach the collector after p has exited.  The service of a PID    *)
(* changes when metadata arrives late.                                     *)
EmitSpan(p) ==
    /\ Alive(p)
    /\ Len(spans) < SpanBuf
    /\ \E s \in Services : spans' = Append(spans, [pid |-> p, svc |-> s])
    /\ UNCHANGED <<kernel, births, ctxDone, pids, cache, older, phase, todo, results, status>>

Cancel ==
    /\ ~ctxDone
    /\ ctxDone' = TRUE
    /\ UNCHANGED <<kernel, births, spans, pids, cache, older, phase, todo, results, status>>

-----------------------------------------------------------------------------
(* The select of Collector.Run.                                            *)

(* mutant of ReceiveSpans: the FeatureProcess check is missing             *)
ReceiveSpansOfAnyService ==
    /\ phase = "idle"
    /\ spans # <<>>
    /\ spans' = Tail(spans)
    /\ pids' = [pids EXCEPT ![Head(spans).pid] = Head(spans).svc]
    /\ UNCHANGED <<kernel, births, ctxDone, cache, older, phase, todo, results, status>>

(* case spans := <-ps.newPids.  A closed channel yields nil spans and      *)
(* changes nothing.                                                        *)
ReceiveSpans ==
    /\ phase = "idle"
    /\ spans # <<>>
    /\ spans' = Tail(spans)
    /\ pids' = IF Head(spans).svc \in ProcessServices
               THEN [pids EXCEPT ![Head(spans).pid] = Head(spans).svc]
               ELSE pids
    /\ UNCHANGED <<kernel, births, ctxDone, cache, older, phase, todo, results, status>>

(* case <-collectTicker.C: Collect starts its range over the map           *)
Tick ==
    /\ phase = "idle"
    /\ phase' = "collect"
    /\ todo' = Tracked
    /\ results' = {}
    /\ UNCHANGED <<kernel, births, spans, ctxDone, pids, cache, older, status>>

(* mutant of Stop: the collector waits until it tracks no process          *)
StopWhenNothingTracked ==
    /\ phase = "idle"
    /\ ctxDone
    /\ Tracked = {}
    /\ phase' = "closed"
    /\ UNCHANGED <<kernel, births, spans, ctxDone, pids, cache, older, todo, results, status>>

(* case <-ctx.Done(): the queue is closed on return                        *)
Stop ==
    /\ phase = "idle"
    /\ ctxDone
    /\ phase' = "closed"
    /\ UNCHANGED <<kernel, births, spans, ctxDone, pids, cache, older, todo, results, status>>

-----------------------------------------------------------------------------
(* Harvester.Harvest for one PID.                                          *)

(* LRU order after p was looked up (simplelru.Get) or added                *)
Touch(p) ==
    {pair \in older : p \notin {pair[1], pair[2]}}
        \cup {<<q, p>> : q \in Cached \ {p}}

(* LRU order after the entry of p was removed                              *)
Forget(p) == {pair \in older : p \notin {pair[1], pair[2]}}

(* getLinuxProcess: the snapshot the deltas are computed against.  Without *)
(* a cached copy, or with one of another command or parent, it is a new    *)
(* linuxProcess whose previous values are all zero.                        *)
Reused(p) == cache[p] # NoEntry /\ cache[p].ident = kernel[p].ident

getLinuxProcess(p) ==
    IF Reused(p) THEN cache[p]
    ELSE [ident |-> kernel[p].ident, cpu |-> 0, mem |-> 0, io |-> 0, rx |-> 0, tx |-> 0]

(* populateGauges: no CPU delta while the previous CPU times are zero      *)
cpuDelta(prev, now) == IF prev.cpu # 0 THEN now.cpu - prev.cpu ELSE 0
memDelta(prev, now) == now.mem - prev.mem

(* populateIOCounters: uint64 arithmetic                                   *)
ioDelta(prev, now, ioOK) ==
    IF Privileged /\ ioOK THEN (now.io - prev.io) % WordSize ELSE 0

(* mutant of netGrew: one growing direction is enough                      *)
netGrewEither(prev, now, netOK) == netOK /\ (now.rx > prev.rx \/ now.tx > prev.tx)

(* populateNetworkInfo: both directions are dropped unless both grew       *)
netGrew(prev, now, netOK) == netOK /\ now.rx > prev.rx /\ now.tx > prev.tx

(* mutant of NextEntry: the stats never become the previous stats          *)
NextEntryKeepsStats(prev, now, ioOK, netOK) ==
    [prev EXCEPT !.rx = now.rx, !.tx = now.tx]

(* the snapshot at the end of Harvest: what the next harvest starts from.  *)
(* An unprivileged harvester resets the IO counters to nil, that is zero;  *)
(* a failed read of the IO counters or of net/dev keeps the old ones.      *)
NextEntry(prev, now, ioOK, netOK) ==
    [ident |-> now.ident, cpu |-> now.cpu, mem |-> now.mem,
     io |-> IF ~Privileged THEN 0 ELSE IF ioOK THEN now.io ELSE prev.io,
     rx |-> IF netOK THEN now.rx ELSE prev.rx,
     tx |-> IF netOK THEN now.tx ELSE prev.tx]

NewStatus(p, prev, now, ioOK, netOK) ==
    [sample |-> now, svc |-> pids[p],
     cpuDelta |-> cpuDelta(prev, now), memDelta |-> memDelta(prev, now),
     ioDelta |-> ioDelta(prev, now, ioOK),
     rxDelta |-> IF netGrew(prev, now, netOK) THEN now.rx - prev.rx ELSE 0,
     txDelta |-> IF netGrew(prev, now, netOK) THEN now.tx - prev.tx ELSE 0]

(* what stays cached after a successful harvest: the snapshot is added     *)
(* only when the lookup missed, and updated in place when it was reused    *)
CacheAfter(p, next) ==
    IF cache[p] = NoEntry \/ Reused(p) THEN [cache EXCEPT ![p] = next] ELSE cache

Harvest(p) ==
    /\ phase = "collect"
    /\ p \in todo
    /\ Alive(p)
    /\ \E ioOK, netOK \in BOOLEAN :
         LET prev == getLinuxProcess(p)
             now == kernel[p]
         IN  /\ cache' = CacheAfter(p, NextEntry(prev, now, ioOK, netOK))
             /\ status' = [status EXCEPT ![p] = NewStatus(p, prev, now, ioOK, netOK)]
    /\ older' = Touch(p)
    /\ todo' = todo \ {p}
    /\ results' = results \cup {p}
    /\ UNCHANGED <<kernel, births, spans, ctxDone, pids, phase>>

(* mutant of HarvestFails: the cache entry of the process survives it      *)
HarvestFailsKeepsEntry(p) ==
    /\ phase = "collect"
    /\ p \in todo
    /\ older' = Touch(p)
    /\ todo' = todo \ {p}
    /\ status' = [status EXCEPT ![p] = NoStatus]
    /\ UNCHANGED <<kernel, births, spans, ctxDone, pids, cache, phase, results>>

(* Harvest returns an error: the process is gone, or /proc/<pid>/stat could *)
(* not be read or parsed.  Collect drops its cache entry.                  *)
HarvestFails(p) ==
    /\ phase = "collect"
    /\ p \in todo
    /\ cache' = [cache EXCEPT ![p] = NoEntry]
    /\ older' = Forget(p)
    /\ todo' = todo \ {p}
    /\ status' = [status EXCEPT ![p] = NoStatus]
    /\ UNCHANGED <<kernel, births, spans, ctxDone, pids, phase, results>>

-----------------------------------------------------------------------------
(* The end of Collect and of the ticker's case.                            *)

(* the entries that survive "for cache.Len() > n { cache.RemoveOldest() }" *)
Kept(n) ==
    IF Cardinality(Cached) <= n THEN Cached
    ELSE CHOOSE K \in SUBSET Cached :
           /\ Cardinality(K) = n
           /\ \A q \in Cached \ K, k \in K : <<q, k>> \in older

(* mutant of FinishCollect: the PIDs that failed stay in the map           *)
FinishCollectKeepsPIDs ==
    /\ phase = "collect"
    /\ todo = {}
    /\ LET K == Kept(Cardinality(results))
       IN  /\ cache' = [p \in PIDs |-> IF p \in K THEN cache[p] ELSE NoEntry]
           /\ older' = older \cap (K \X K)
    /\ phase' = "send"
    /\ UNCHANGED <<kernel, births, spans, ctxDone, pids, todo, results, status>>

(* Collect after its loop: the cache is trimmed to the size of the batch   *)
(* and the PIDs that could not be harvested leave the map                  *)
FinishCollect ==
    /\ phase = "collect"
    /\ todo = {}
    /\ LET K == Kept(Cardinality(results))
       IN  /\ cache' = [p \in PIDs |-> IF p \in K THEN cache[p] ELSE NoEntry]
           /\ older' = older \cap (K \X K)
    /\ pids' = [p \in PIDs |-> IF p \in results THEN pids[p] ELSE NoService]
    /\ phase' = "send"
    /\ UNCHANGED <<kernel, births, spans, ctxDone, todo, results, status>>

(* collectedProcesses.Send(procs): returns when every subscriber took it   *)
Send ==
    /\ phase = "send"
    /\ phase' = "idle"
    /\ results' = {}
    /\ UNCHANGED <<kernel, births, spans, ctxDone, pids, cache, older, todo, status>>

-----------------------------------------------------------------------------
Host ==
    \/ \E p \in PIDs : Spawn(p) \/ Work(p) \/ Reidentify(p) \/ Exit(p) \/ EmitSpan(p)
    \/ Cancel

Run ==
    \/ ReceiveSpans \/ Tick \/ Stop
    \/ \E p \in PIDs : Harvest(p) \/ HarvestFails(p)
    \/ FinishCollect \/ Send

Next == Host \/ Run

Spec == Init /\ [][Next]_vars

(* Nothing is assumed of the host.  The goroutine keeps running; select    *)
(* chooses at random among the ready cases, so none of them is ready again *)
(* and again without being chosen.                                         *)
Fairness ==
    /\ WF_vars(\E p \in PIDs : Harvest(p) \/ HarvestFails(p))
    /\ WF_vars(FinishCollect \/ Send)
    /\ SF_vars(Tick)
    /\ SF_vars(ReceiveSpans)
    /\ SF_vars(Stop)

FairSpec == Spec /\ Fairness

-----------------------------------------------------------------------------
(* Properties.                                                             *)

(* Types of every variable.                                                *)
TypeOK ==
    /\ kernel \in [PIDs -> Sample \cup {NoProc}]
    /\ births \in [PIDs -> 0..MaxGen]
    /\ spans \in Seq([pid : PIDs, svc : Services])
    /\ ctxDone \in BOOLEAN
    /\ pids \in [PIDs -> ProcessServices \cup {NoService}]
    /\ cache \in [PIDs -> Entry \cup {NoEntry}]
    /\ older \in SUBSET (PIDs \X PIDs)
    /\ phase \in {"idle", "collect", "send", "closed"}
    /\ todo \in SUBSET PIDs
    /\ results \in SUBSET PIDs
    /\ status \in [PIDs -> Status \cup {NoStatus}]

(* When Collect returns, exactly the processes of the batch are cached: the *)
(* RemoveOldest loop, which evicts by recency and not by outcome, never    *)
(* takes the snapshot of a process that was just harvested, and no process *)
(* that could not be read leaves its snapshot behind for the next process  *)
(* with its PID (Collect, collect.go:114-130).                             *)
RoundKeepsItsBatch == phase = "send" => Cached = results

(* Between rounds a snapshot exists only for a PID that the map still      *)
(* holds, so the cache, whose size is unbounded, does not outgrow the map. *)
CacheWithinMap == phase # "collect" => Cached \subseteq Tracked

(* The snapshot that the next harvest subtracts is the last sample that    *)
(* was reported for that PID, as long as both are of the same command and  *)
(* parent: however renames, exits, PID reuse and failed reads interleave   *)
(* with the rounds, no reported sample is skipped or subtracted twice.     *)
SnapshotIsLastSample ==
    \A p \in PIDs :
        /\ cache[p] # NoEntry
        /\ status[p] # NoStatus
        /\ cache[p].ident = status[p].sample.ident
        => /\ cache[p].cpu = status[p].sample.cpu
           /\ cache[p].mem = status[p].sample.mem

(* the step harvests p, and p already had a status                         *)
Resampled(p) ==
    /\ p \in todo
    /\ p \notin todo'
    /\ status[p] # NoStatus
    /\ status'[p] # NoStatus

(* Two consecutive samples of a PID under the identity of its cache entry  *)
(* are bridged exactly by the second one's memory and CPU deltas, the CPU  *)
(* from the second non-zero sample on (populateGauges, harvest.go:141-171).*)
DeltasBridgeStep ==
    \A p \in PIDs :
        LET was == status[p].sample
            now == status'[p].sample
        IN  /\ Resampled(p)
            /\ cache[p].ident = was.ident
            /\ now.ident = was.ident
            => /\ status'[p].memDelta = now.mem - was.mem
               /\ was.cpu # 0 => status'[p].cpuDelta = now.cpu - was.cpu

(* Every step of the collector satisfies DeltasBridgeStep: no interleaving *)
(* of processes and rounds makes a delta skip or repeat a reported sample. *)
DeltasBridgeSamples == [][DeltasBridgeStep]_vars

(* "current stats will be used in the next iteration to calculate some     *)
(* delta values" (harvest.go:113): the same process sampled twice in a row *)
(* under the same name and parent has deltas between these two samples.    *)
NextIterationUsesThisSample ==
    [][\A p \in PIDs :
         LET was == status[p].sample
             now == status'[p].sample
         IN  /\ Resampled(p)
             /\ now.gen = was.gen
             /\ now.ident = was.ident
             => /\ status'[p].memDelta = now.mem - was.mem
                /\ was.cpu # 0 => status'[p].cpuDelta = now.cpu - was.cpu]_vars

(* the deltas of p that feed monotonic counters are not negative, and the  *)
(* unsigned one did not wrap around: it is no more IO than p has done      *)
CountersGrow(p) ==
    status[p] # NoStatus =>
        /\ status[p].cpuDelta >= 0
        /\ status[p].ioDelta <= status[p].sample.io
        /\ status[p].rxDelta >= 0 /\ status[p].txDelta >= 0

(* As long as a PID names one process, whatever fails to be read, however  *)
(* it is renamed and its interface table shrinks, the CPU seconds and the  *)
(* disk and network bytes added to counters are never negative or wrapped. *)
CounterDeltasNonNegative == \A p \in PIDs : births[p] <= 1 => CountersGrow(p)

(* A process that is gone for good is eventually out of the map and of the *)
(* cache, even when spans of it arrive after its exit: the collector does  *)
(* not read /proc for dead PIDs for ever.                                  *)
DeadPIDsForgotten ==
    \A p \in PIDs :
        <>[](kernel[p] = NoProc) =>
            <>[](phase = "closed" \/ (pids[p] = NoService /\ cache[p] = NoEntry))

(* what the exporters read of the status of p                              *)
observation(p) ==
    [uid |-> <<status[p].svc, p>>, mem |-> status[p].sample.mem,
     memDelta |-> status[p].memDelta]

Feed == INSTANCE StatusFeed WITH
    base <- [p \in PIDs |-> IF cache[p] = NoEntry THEN NoEntry ELSE cache[p].mem],
    batch <- {observation(p) : p \in results},
    NoBase <- NoEntry

(* The collector implements StatusFeed: seen through its snapshots and its *)
(* batches, every round reports each process that has a snapshot exactly   *)
(* once, with the difference to that snapshot, or to zero when it has none *)
(* or belongs to another name or parent.                                   *)
ImplementsFeed == Feed!FeedSpec

(* After the context is cancelled the collector closes its queue, whatever *)
(* spans and ticks are pending.                                            *)
ShutdownCompletes == ctxDone ~> phase = "closed"
=============================================================================
