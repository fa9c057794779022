----------------------- MODULE ProcessCollectorProofs -----------------------
(* Proofs about ProcessCollector, for every set of PIDs, identities and    *)
(* services and every bound.                                               *)
EXTENDS ProcessCollector, FiniteSetTheorems, SequenceTheorems, TLAPS

(* The entries that stay are some of those that were cached, and all of    *)
(* them when there are no more entries than statuses in the batch.         *)
LEMMA KeptWhenItFits ==
    ASSUME NEW n \in Nat, Cardinality(Cached) <= n
    PROVE  Kept(n) = Cached
BY DEF Kept

(* The range loop of Collect: what is still to be visited, what is in the  *)
(* batch, and where the snapshots are.                                     *)
RoundInv ==
    /\ phase = "collect" =>
         /\ todo \subseteq Tracked
         /\ todo \cap results = {}
         /\ results \subseteq Cached
         /\ results \subseteq Tracked
         /\ Cached \subseteq todo \cup results
    /\ phase = "send" => Cached = results /\ results \subseteq Tracked
    /\ phase \in {"idle", "closed"} => results = {} /\ Cached \subseteq Tracked
    /\ phase # "collect" => todo = {}

(* a PID with a status has a snapshot                                      *)
StatusHasSnapshot ==
    \A p \in PIDs : status[p] # NoStatus => cache[p] # NoEntry

(* the inductive invariant                                                 *)
IInv == TypeOK /\ RoundInv /\ StatusHasSnapshot /\ SnapshotIsLastSample

-----------------------------------------------------------------------------
(* A step of the host touches none of the collector's variables.           *)
LEMMA HostFrame ==
    ASSUME Host
    PROVE  UNCHANGED <<pids, cache, older, phase, todo, results, status>>
BY DEF Host, Spawn, Work, Reidentify, Exit, EmitSpan, Cancel

(* The snapshot that getLinuxProcess returns is well formed.               *)
LEMMA GetLinuxProcessType ==
    ASSUME TypeOK, NEW p \in PIDs, Alive(p)
    PROVE  /\ kernel[p] \in Sample
           /\ getLinuxProcess(p) \in Entry
<1>1. kernel[p] \in Sample
  BY DEF TypeOK, Alive
<1>2. CASE Reused(p)
  BY <1>1, <1>2 DEF TypeOK, Reused, getLinuxProcess
<1>3. CASE ~Reused(p)
  BY <1>1, <1>3, ConstantsAssumption DEF getLinuxProcess, Sample, Entry
<1> QED BY <1>1, <1>2, <1>3

(* The snapshot left for the next harvest is well formed.                  *)
LEMMA NextEntryType ==
    ASSUME NEW prev \in Entry, NEW now \in Sample, NEW ioOK, NEW netOK
    PROVE  NextEntry(prev, now, ioOK, netOK) \in Entry
BY ConstantsAssumption DEF NextEntry, Entry, Sample

(* Harvest returns a well-formed status, its IO delta within the word.     *)
LEMMA NewStatusType ==
    ASSUME TypeOK, NEW p \in PIDs, pids[p] # NoService,
           NEW prev \in Entry, NEW now \in Sample, NEW ioOK, NEW netOK
    PROVE  NewStatus(p, prev, now, ioOK, netOK) \in Status
<1>1. pids[p] \in Services
  BY ConstantsAssumption DEF TypeOK
<1>2. /\ prev.cpu \in Int /\ prev.mem \in Int /\ prev.io \in Int /\ prev.rx \in Int /\ prev.tx \in Int
      /\ now.cpu \in Int /\ now.mem \in Int /\ now.io \in Int /\ now.rx \in Int /\ now.tx \in Int
  BY ConstantsAssumption DEF Entry, Sample
<1>3. ioDelta(prev, now, ioOK) \in 0..(WordSize - 1)
  <2>1. WordSize \in Nat /\ WordSize > 0
    BY ConstantsAssumption
  <2>2. (now.io - prev.io) \in Int
    BY <1>2
  <2>3. \A x \in Int : x % WordSize \in 0..(WordSize - 1)
    BY <2>1
  <2> QED BY <2>1, <2>2, <2>3 DEF ioDelta
<1>4. cpuDelta(prev, now) \in Int /\ memDelta(prev, now) \in Int
  BY <1>2 DEF cpuDelta, memDelta
<1>5. (now.rx - prev.rx) \in Int /\ (now.tx - prev.tx) \in Int
  BY <1>2
<1> QED BY <1>1, <1>3, <1>4, <1>5 DEF NewStatus, Status

-----------------------------------------------------------------------------
(* Type correctness, one action at a time.                                 *)
LEMMA TypeInit == Init => TypeOK
<1> SUFFICES ASSUME Init PROVE TypeOK
  OBVIOUS
<1>1. spans \in Seq([pid : PIDs, svc : Services])
  BY DEF Init
<1>2. births \in [PIDs -> 0..MaxGen]
  BY ConstantsAssumption DEF Init
<1> QED BY <1>1, <1>2 DEF Init, TypeOK

(* The host's steps keep the types: only its own counters and the channel *)
(* of spans change.                                                        *)
LEMMA TypeHost ==
    ASSUME TypeOK, Host
    PROVE  TypeOK'
<1> USE ConstantsAssumption
<1>1. ASSUME NEW p \in PIDs, Spawn(p) PROVE TypeOK'
  <2>1. births[p] \in 0..MaxGen /\ births[p] + 1 \in 1..MaxGen
    BY <1>1 DEF TypeOK, Spawn
  <2>2. births' \in [PIDs -> 0..MaxGen]
    BY <1>1, <2>1 DEF TypeOK, Spawn
  <2>3. kernel' \in [PIDs -> Sample \cup {NoProc}]
    BY <1>1, <2>1 DEF TypeOK, Spawn, Sample
  <2> QED BY <1>1, <2>2, <2>3 DEF TypeOK, Spawn
<1>2. ASSUME NEW p \in PIDs, Work(p) PROVE TypeOK'
  <2>1. kernel[p] \in Sample
    BY <1>2 DEF TypeOK, Work, Alive
  <2>2. kernel' \in [PIDs -> Sample \cup {NoProc}]
    BY <1>2, <2>1 DEF TypeOK, Work, Sample
  <2> QED BY <1>2, <2>2 DEF TypeOK, Work
<1>3. ASSUME NEW p \in PIDs, Reidentify(p) PROVE TypeOK'
  <2>1. kernel[p] \in Sample
    BY <1>3 DEF TypeOK, Reidentify, Alive
  <2>2. PICK i \in Idents : kernel' = [kernel EXCEPT ![p].ident = i]
    BY <1>3 DEF Reidentify
  <2>3. [kernel[p] EXCEPT !.ident = i] \in Sample
    BY <2>1 DEF Sample
  <2>4. kernel' \in [PIDs -> Sample \cup {NoProc}]
    BY <2>2, <2>3 DEF TypeOK
  <2> QED BY <1>3, <2>4 DEF TypeOK, Reidentify
<1>4. ASSUME NEW p \in PIDs, Exit(p) PROVE TypeOK'
  BY <1>4 DEF TypeOK, Exit
<1>5. ASSUME NEW p \in PIDs, EmitSpan(p) PROVE TypeOK'
  <2>1. spans' \in Seq([pid : PIDs, svc : Services])
    BY <1>5 DEF TypeOK, EmitSpan
  <2> QED BY <1>5, <2>1 DEF TypeOK, EmitSpan
<1>6. ASSUME Cancel PROVE TypeOK'
  BY <1>6 DEF TypeOK, Cancel
<1> QED BY <1>1, <1>2, <1>3, <1>4, <1>5, <1>6 DEF Host

(* Every case of the select loop keeps the types.                          *)
LEMMA TypeRun ==
    ASSUME TypeOK, RoundInv, Run
    PROVE  TypeOK'
<1>1. ASSUME ReceiveSpans PROVE TypeOK'
  <2>1. Head(spans) \in [pid : PIDs, svc : Services]
        /\ Tail(spans) \in Seq([pid : PIDs, svc : Services])
    BY <1>1, HeadTailProperties DEF TypeOK, ReceiveSpans
  <2>2. pids' \in [PIDs -> ProcessServices \cup {NoService}]
    BY <1>1, <2>1 DEF TypeOK, ReceiveSpans
  <2> QED BY <1>1, <2>1, <2>2 DEF TypeOK, ReceiveSpans
<1>2. ASSUME Tick PROVE TypeOK'
  BY <1>2 DEF TypeOK, Tick, Tracked
<1>3. ASSUME Stop PROVE TypeOK'
  BY <1>3 DEF TypeOK, Stop
<1>4. ASSUME NEW p \in PIDs, Harvest(p) PROVE TypeOK'
  <2>1. PICK ioOK \in BOOLEAN, netOK \in BOOLEAN :
          /\ cache' = CacheAfter(p, NextEntry(getLinuxProcess(p), kernel[p], ioOK, netOK))
          /\ status' = [status EXCEPT ![p] =
                          NewStatus(p, getLinuxProcess(p), kernel[p], ioOK, netOK)]
    BY <1>4 DEF Harvest
  <2>2. kernel[p] \in Sample /\ getLinuxProcess(p) \in Entry
    BY <1>4, GetLinuxProcessType DEF Harvest
  <2>3. cache' \in [PIDs -> Entry \cup {NoEntry}]
    BY <2>1, <2>2, NextEntryType DEF TypeOK, CacheAfter
  <2>4. pids[p] # NoService
    BY <1>4 DEF Harvest, RoundInv, Tracked
  <2>5. status' \in [PIDs -> Status \cup {NoStatus}]
    BY <2>1, <2>2, <2>4, NewStatusType DEF TypeOK
  <2>6. older' \in SUBSET (PIDs \X PIDs)
    BY <1>4 DEF TypeOK, Harvest, Touch, Cached
  <2> QED BY <1>4, <2>3, <2>5, <2>6 DEF TypeOK, Harvest
<1>5. ASSUME NEW p \in PIDs, HarvestFails(p) PROVE TypeOK'
  BY <1>5 DEF TypeOK, HarvestFails, Forget
<1>6. ASSUME FinishCollect PROVE TypeOK'
  BY <1>6 DEF TypeOK, FinishCollect
<1>7. ASSUME Send PROVE TypeOK'
  BY <1>7 DEF TypeOK, Send
<1> QED BY <1>1, <1>2, <1>3, <1>4, <1>5, <1>6, <1>7 DEF Run

-----------------------------------------------------------------------------
(* The collection round.                                                   *)

(* When the loop is over the snapshots are those of the batch, so nothing  *)
(* is left for RemoveOldest to evict.                                      *)
LEMMA NothingToEvict ==
    ASSUME TypeOK, RoundInv, phase = "collect", todo = {}
    PROVE  /\ Cached = results
           /\ Kept(Cardinality(results)) = results
<1>1. Cached = results
  BY DEF RoundInv
<1>2. IsFiniteSet(results)
  BY ConstantsAssumption, FS_Subset DEF TypeOK
<1>3. Cardinality(results) \in Nat
  BY <1>2, FS_CardinalityType
<1>4. Cardinality(Cached) <= Cardinality(results)
  BY <1>1, <1>3
<1> QED BY <1>1, <1>3, <1>4, KeptWhenItFits

(* Every step of the collector keeps the shape of a round.                 *)
LEMMA RoundRun ==
    ASSUME TypeOK, RoundInv, Run
    PROVE  RoundInv'
<1>1. ASSUME ReceiveSpans PROVE RoundInv'
  <2>1. Cached' = Cached
    BY <1>1 DEF ReceiveSpans, Cached
  <2>2. Tracked \subseteq Tracked'
    BY <1>1, ConstantsAssumption DEF ReceiveSpans, Tracked, TypeOK
  <2> QED BY <1>1, <2>1, <2>2 DEF RoundInv, ReceiveSpans
<1>2. ASSUME Tick PROVE RoundInv'
  BY <1>2 DEF RoundInv, Tick, Tracked, Cached
<1>3. ASSUME Stop PROVE RoundInv'
  BY <1>3 DEF RoundInv, Stop, Tracked, Cached
<1>4. ASSUME NEW p \in PIDs, Harvest(p) PROVE RoundInv'
  <2>1. PICK e \in Entry : cache' = CacheAfter(p, e)
    BY <1>4, GetLinuxProcessType, NextEntryType DEF Harvest
  <2>2. e # NoEntry
    BY SentinelsAssumption
  <2>3. Cached' = Cached \cup {p}
    BY <2>1, <2>2 DEF Cached, CacheAfter, Reused, TypeOK
  <2>4. Tracked' = Tracked
    BY <1>4 DEF Harvest, Tracked
  <2> QED BY <1>4, <2>3, <2>4 DEF RoundInv, Harvest
<1>5. ASSUME NEW p \in PIDs, HarvestFails(p) PROVE RoundInv'
  <2>1. Cached' = Cached \ {p}
    BY <1>5 DEF HarvestFails, Cached, TypeOK
  <2>2. Tracked' = Tracked
    BY <1>5 DEF HarvestFails, Tracked
  <2> QED BY <1>5, <2>1, <2>2 DEF RoundInv, HarvestFails
<1>6. ASSUME FinishCollect PROVE RoundInv'
  <2>1. /\ Cached = results
        /\ Kept(Cardinality(results)) = results
    BY <1>6, NothingToEvict DEF FinishCollect
  <2>2. Cached' = results
    BY <1>6, <2>1 DEF FinishCollect, Cached
  <2>3. results \subseteq Tracked'
    BY <1>6 DEF FinishCollect, Tracked, RoundInv
  <2> QED BY <1>6, <2>2, <2>3 DEF RoundInv, FinishCollect
<1>7. ASSUME Send PROVE RoundInv'
  BY <1>7 DEF RoundInv, Send, Tracked, Cached
<1> QED BY <1>1, <1>2, <1>3, <1>4, <1>5, <1>6, <1>7 DEF Run

-----------------------------------------------------------------------------
(* Snapshots and statuses.                                                 *)
LEMMA SnapshotRun ==
    ASSUME TypeOK, RoundInv, StatusHasSnapshot, SnapshotIsLastSample, Run
    PROVE  StatusHasSnapshot' /\ SnapshotIsLastSample'
<1>1. ASSUME NEW p \in PIDs, Harvest(p) PROVE StatusHasSnapshot' /\ SnapshotIsLastSample'
  <2>1. PICK ioOK \in BOOLEAN, netOK \in BOOLEAN :
          /\ cache' = CacheAfter(p, NextEntry(getLinuxProcess(p), kernel[p], ioOK, netOK))
          /\ status' = [status EXCEPT ![p] =
                          NewStatus(p, getLinuxProcess(p), kernel[p], ioOK, netOK)]
    BY <1>1 DEF Harvest
  <2> DEFINE e == NextEntry(getLinuxProcess(p), kernel[p], ioOK, netOK)
             s == NewStatus(p, getLinuxProcess(p), kernel[p], ioOK, netOK)
  <2>2. e \in Entry /\ e # NoEntry
    BY <1>1, GetLinuxProcessType, NextEntryType, SentinelsAssumption DEF Harvest
  <2>3. e.ident = kernel[p].ident /\ e.cpu = kernel[p].cpu /\ e.mem = kernel[p].mem
    BY DEF NextEntry
  <2>4. s.sample = kernel[p]
    BY DEF NewStatus
  <2>5. \A q \in PIDs \ {p} : cache'[q] = cache[q] /\ status'[q] = status[q]
    BY <2>1 DEF CacheAfter, TypeOK
  <2>6. status'[p] = s
    BY <2>1 DEF TypeOK
  <2> HIDE DEF e, s
  <2>7. cache'[p] # NoEntry
    BY <2>1, <2>2 DEF CacheAfter, TypeOK, e
  <2>8. CASE cache[p] = NoEntry \/ Reused(p)
    <3>1. cache'[p] = e
      BY <2>1, <2>8 DEF CacheAfter, TypeOK, e
    <3>2. StatusHasSnapshot'
      BY <2>5, <2>7 DEF StatusHasSnapshot
    <3>3. SnapshotIsLastSample'
      BY <2>3, <2>4, <2>5, <2>6, <3>1 DEF SnapshotIsLastSample
    <3> QED BY <3>2, <3>3
  <2>9. CASE cache[p] # NoEntry /\ ~Reused(p)
    <3>1. cache'[p] = cache[p] /\ cache[p].ident # kernel[p].ident
      BY <2>1, <2>9 DEF CacheAfter, Reused
    <3>2. StatusHasSnapshot'
      BY <2>5, <2>7 DEF StatusHasSnapshot
    <3>3. SnapshotIsLastSample'
      BY <2>4, <2>5, <2>6, <3>1 DEF SnapshotIsLastSample
    <3> QED BY <3>2, <3>3
  <2> QED BY <2>8, <2>9
<1>2. ASSUME NEW p \in PIDs, HarvestFails(p) PROVE StatusHasSnapshot' /\ SnapshotIsLastSample'
  BY <1>2 DEF HarvestFails, StatusHasSnapshot, SnapshotIsLastSample, TypeOK
<1>3. ASSUME FinishCollect PROVE StatusHasSnapshot' /\ SnapshotIsLastSample'
  <2>1. \A p \in PIDs : cache'[p] = cache[p]
    BY <1>3, NothingToEvict DEF FinishCollect, Cached
  <2> QED BY <1>3, <2>1 DEF FinishCollect, StatusHasSnapshot, SnapshotIsLastSample
<1>4. ASSUME ReceiveSpans \/ Tick \/ Stop \/ Send
      PROVE  StatusHasSnapshot' /\ SnapshotIsLastSample'
  BY <1>4 DEF ReceiveSpans, Tick, Stop, Send, StatusHasSnapshot, SnapshotIsLastSample
<1> QED BY <1>1, <1>2, <1>3, <1>4 DEF Run

-----------------------------------------------------------------------------
(* The inductive invariant holds initially.                                *)
LEMMA InductiveInit == Init => IInv
<1> SUFFICES ASSUME Init PROVE IInv
  OBVIOUS
<1>1. TypeOK
  BY TypeInit
<1>2. Cached = {}
  BY DEF Init, Cached
<1>3. RoundInv
  BY <1>2 DEF Init, RoundInv
<1>4. StatusHasSnapshot /\ SnapshotIsLastSample
  BY DEF Init, StatusHasSnapshot, SnapshotIsLastSample
<1> QED BY <1>1, <1>3, <1>4 DEF IInv

(* The inductive invariant is preserved by every step.                     *)
LEMMA InductiveStep == IInv /\ [Next]_vars => IInv'
<1> SUFFICES ASSUME IInv, [Next]_vars PROVE IInv'
  OBVIOUS
<1> USE DEF IInv
<1>1. CASE Host
  <2>1. TypeOK'
    BY <1>1, TypeHost
  <2>2. UNCHANGED <<pids, cache, older, phase, todo, results, status>>
    BY <1>1, HostFrame
  <2>3. RoundInv' /\ StatusHasSnapshot' /\ SnapshotIsLastSample'
    BY <2>2 DEF RoundInv, Cached, Tracked, StatusHasSnapshot, SnapshotIsLastSample
  <2> QED BY <2>1, <2>3
<1>2. CASE Run
  BY <1>2, TypeRun, RoundRun, SnapshotRun
<1>3. CASE UNCHANGED vars
  BY <1>3 DEF vars, TypeOK, RoundInv, Cached, Tracked, StatusHasSnapshot, SnapshotIsLastSample
<1> QED BY <1>1, <1>2, <1>3 DEF Next

(* Every variable of the collector keeps its type: in particular the IO    *)
(* deltas stay within the machine word and the map only holds services     *)
(* with the process feature.                                               *)
THEOREM TypeCorrect == Spec => []TypeOK
<1>1. IInv => TypeOK
  BY DEF IInv
<1> QED BY <1>1, InductiveInit, InductiveStep, PTL DEF Spec

(* When Collect returns, the cache holds the processes of the batch and    *)
(* nothing else: RemoveOldest never evicts a process that was harvested.   *)
THEOREM RoundKeepsItsBatchCorrect == Spec => []RoundKeepsItsBatch
<1>1. IInv => RoundKeepsItsBatch
  BY DEF IInv, RoundInv, RoundKeepsItsBatch
<1> QED BY <1>1, InductiveInit, InductiveStep, PTL DEF Spec

(* Between rounds every snapshot belongs to a PID of the map.              *)
THEOREM CacheWithinMapCorrect == Spec => []CacheWithinMap
<1>1. IInv => CacheWithinMap
  <2> SUFFICES ASSUME IInv, phase # "collect" PROVE Cached \subseteq Tracked
    BY DEF CacheWithinMap
  <2>1. phase \in {"idle", "send", "closed"}
    BY DEF IInv, TypeOK
  <2> QED BY <2>1 DEF IInv, RoundInv
<1> QED BY <1>1, InductiveInit, InductiveStep, PTL DEF Spec

(* The snapshot that the next harvest subtracts is the last reported       *)
(* sample of that PID under the same identity.                             *)
THEOREM SnapshotIsLastSampleCorrect == Spec => []SnapshotIsLastSample
<1>1. IInv => SnapshotIsLastSample
  BY DEF IInv
<1> QED BY <1>1, InductiveInit, InductiveStep, PTL DEF Spec

(* Consecutive samples of a PID under the identity of its cache entry are  *)
(* bridged exactly by the memory and CPU deltas of the second one.         *)
THEOREM DeltasBridgeSamplesCorrect == Spec => DeltasBridgeSamples
<1>1. IInv /\ [Next]_vars => [DeltasBridgeStep]_vars
  <2> SUFFICES ASSUME IInv, Next, NEW p \in PIDs, Resampled(p),
                      cache[p].ident = status[p].sample.ident,
                      status'[p].sample.ident = status[p].sample.ident
               PROVE  /\ status'[p].memDelta = status'[p].sample.mem - status[p].sample.mem
                      /\ status[p].sample.cpu # 0 =>
                           status'[p].cpuDelta = status'[p].sample.cpu - status[p].sample.cpu
    BY DEF DeltasBridgeStep
  <2>1. phase = "collect"
    BY DEF IInv, RoundInv, Resampled
  <2>2. ~Host /\ ~FinishCollect
    <3>1. ~Host
      BY HostFrame DEF Resampled
    <3> QED BY <3>1 DEF FinishCollect, Resampled
  <2>3. PICK q \in PIDs : Harvest(q) \/ HarvestFails(q)
    BY <2>1, <2>2 DEF Next, Run, ReceiveSpans, Tick, Stop, Send
  <2>4. q = p
    BY <2>3 DEF Resampled, Harvest, HarvestFails
  <2>5. ~HarvestFails(p)
    BY DEF Resampled, HarvestFails, IInv, TypeOK
  <2>6. Harvest(p)
    BY <2>3, <2>4, <2>5
  <2>7. PICK ioOK \in BOOLEAN, netOK \in BOOLEAN :
          status'[p] = NewStatus(p, getLinuxProcess(p), kernel[p], ioOK, netOK)
    BY <2>6 DEF Harvest, IInv, TypeOK
  <2>8. /\ status'[p].sample = kernel[p]
        /\ status'[p].memDelta = memDelta(getLinuxProcess(p), kernel[p])
        /\ status'[p].cpuDelta = cpuDelta(getLinuxProcess(p), kernel[p])
    BY <2>7 DEF NewStatus
  <2>9. cache[p] # NoEntry /\ status[p] # NoStatus
    BY DEF IInv, StatusHasSnapshot, Resampled
  <2>10. getLinuxProcess(p) = cache[p]
    BY <2>8, <2>9 DEF getLinuxProcess, Reused
  <2>11. cache[p].cpu = status[p].sample.cpu /\ cache[p].mem = status[p].sample.mem
    BY <2>9 DEF IInv, SnapshotIsLastSample
  <2> QED BY <2>8, <2>10, <2>11 DEF memDelta, cpuDelta
<1> QED BY <1>1, InductiveInit, InductiveStep, PTL DEF Spec, DeltasBridgeSamples

-----------------------------------------------------------------------------
(* Counters.  A PID that has named no process has no snapshot; while it    *)
(* has named one, its snapshot is below the counters of that process.      *)
CounterInv ==
    \A p \in PIDs :
        /\ births[p] = 0 => ~Alive(p) /\ cache[p] = NoEntry
        /\ births[p] <= 1 /\ Alive(p) /\ cache[p] # NoEntry =>
             cache[p].cpu <= kernel[p].cpu /\ cache[p].io <= kernel[p].io
        /\ births[p] <= 1 => CountersGrow(p)

(* The processes' own steps only raise what the snapshots are compared to. *)
LEMMA CounterHost ==
    ASSUME TypeOK, CounterInv, Host
    PROVE  CounterInv'
<1>0. UNCHANGED <<cache, status>>
  BY HostFrame
<1>1. ASSUME NEW p \in PIDs, Spawn(p) PROVE CounterInv'
  <2>1. births' = [births EXCEPT ![p] = @ + 1] /\ births[p] \in 0..MaxGen
    BY <1>1 DEF Spawn, TypeOK
  <2>2. \A q \in PIDs \ {p} : births'[q] = births[q] /\ kernel'[q] = kernel[q]
    BY <1>1, <2>1 DEF Spawn, TypeOK
  <2>3. births'[p] = births[p] + 1
    BY <2>1 DEF TypeOK
  <2>4. births'[p] <= 1 => births[p] = 0
    BY <2>1, <2>3, ConstantsAssumption
  <2>5. births'[p] # 0
    BY <2>1, <2>3, ConstantsAssumption
  <2>6. births'[p] <= 1 => births[p] <= 1
    BY <2>4
  <2> QED BY <1>0, <2>2, <2>4, <2>5, <2>6 DEF CounterInv, CountersGrow, Alive
<1>2. ASSUME NEW p \in PIDs, Work(p) PROVE CounterInv'
  <2>1. PICK c \in kernel[p].cpu..MaxCPU, m \in 0..MaxMem, i \in kernel[p].io..MaxIO,
             r \in 0..MaxNet, t \in 0..MaxNet :
          kernel' = [kernel EXCEPT ![p] =
            [gen |-> @.gen, ident |-> @.ident, cpu |-> c, mem |-> m, io |-> i,
             rx |-> r, tx |-> t]]
    BY <1>2 DEF Work
  <2>2. kernel[p] \in Sample /\ UNCHANGED births
    BY <1>2 DEF Work, Alive, TypeOK
  <2>3. /\ kernel'[p].cpu = c /\ kernel'[p].io = i /\ births[p] # 0
        /\ \A q \in PIDs \ {p} : kernel'[q] = kernel[q]
    BY <1>2, <2>1 DEF Work, TypeOK, CounterInv
  <2>4. cache[p] # NoEntry => cache[p] \in Entry
    BY DEF TypeOK
  <2>5. births[p] <= 1 /\ cache[p] # NoEntry => cache[p].cpu <= c /\ cache[p].io <= i
    <3>1. births[p] <= 1 /\ cache[p] # NoEntry =>
            cache[p].cpu <= kernel[p].cpu /\ cache[p].io <= kernel[p].io
      BY <1>2 DEF Work, CounterInv
    <3>2. kernel[p].cpu \in Nat /\ kernel[p].io \in Nat /\ c \in Nat /\ i \in Nat
      BY <2>2, ConstantsAssumption DEF Sample
    <3>3. cache[p] # NoEntry => cache[p].cpu \in Nat /\ cache[p].io \in Nat
      BY <2>4, ConstantsAssumption DEF Entry
    <3>4. kernel[p].cpu <= c /\ kernel[p].io <= i
      BY <3>2
    <3> QED BY <3>1, <3>2, <3>3, <3>4
  <2> QED BY <1>0, <2>2, <2>3, <2>5 DEF CounterInv, CountersGrow, Alive
<1>3. ASSUME NEW p \in PIDs, Reidentify(p) PROVE CounterInv'
  <2>1. kernel[p] \in Sample /\ UNCHANGED births
    BY <1>3 DEF Reidentify, Alive, TypeOK
  <2>2. /\ kernel'[p].cpu = kernel[p].cpu /\ kernel'[p].io = kernel[p].io
        /\ \A q \in PIDs \ {p} : kernel'[q] = kernel[q]
    BY <1>3, <2>1 DEF Reidentify, TypeOK, Sample
  <2>3. Alive(p) /\ births[p] # 0
    BY <1>3 DEF Reidentify, CounterInv
  <2> QED BY <1>0, <2>1, <2>2, <2>3 DEF CounterInv, CountersGrow, Alive
<1>4. ASSUME NEW p \in PIDs, Exit(p) PROVE CounterInv'
  <2>1. /\ kernel'[p] = NoProc /\ UNCHANGED births
        /\ \A q \in PIDs \ {p} : kernel'[q] = kernel[q]
    BY <1>4 DEF Exit, TypeOK
  <2> QED BY <1>0, <2>1 DEF CounterInv, CountersGrow, Alive
<1>5. ASSUME UNCHANGED <<kernel, births>> PROVE CounterInv'
  BY <1>0, <1>5 DEF CounterInv, CountersGrow, Alive
<1> QED BY <1>1, <1>2, <1>3, <1>4, <1>5 DEF Host, EmitSpan, Cancel

(* A difference that is not negative does not wrap around.                 *)
LEMMA NoWrap ==
    ASSUME NEW a \in 0..MaxIO, NEW b \in 0..MaxIO, b <= a
    PROVE  (a - b) % WordSize <= a
<1>1. MaxIO \in Nat /\ WordSize \in Nat /\ WordSize > MaxIO
  BY ConstantsAssumption
<1>2. (a - b) \in 0..(WordSize - 1)
  BY <1>1
<1>3. \A x \in 0..(WordSize - 1) : x % WordSize = x
  BY <1>1
<1> QED BY <1>1, <1>2, <1>3

(* A harvest against a snapshot that is below the counters.                *)
LEMMA CounterHarvest ==
    ASSUME TypeOK, CounterInv, NEW p \in PIDs, Harvest(p)
    PROVE  CounterInv'
<1> DEFINE prev == getLinuxProcess(p)
           now == kernel[p]
<1>1. PICK ioOK \in BOOLEAN, netOK \in BOOLEAN :
        /\ cache' = CacheAfter(p, NextEntry(prev, now, ioOK, netOK))
        /\ status' = [status EXCEPT ![p] = NewStatus(p, prev, now, ioOK, netOK)]
  BY DEF Harvest
<1>2. UNCHANGED <<kernel, births>> /\ Alive(p) /\ births[p] # 0
  BY DEF Harvest, CounterInv
<1>3. now \in Sample /\ prev \in Entry
  BY <1>2, GetLinuxProcessType
<1>4. /\ now.cpu \in 0..MaxCPU /\ now.io \in 0..MaxIO /\ now.rx \in Nat /\ now.tx \in Nat
      /\ prev.cpu \in 0..MaxCPU /\ prev.io \in 0..MaxIO /\ prev.rx \in Nat /\ prev.tx \in Nat
  BY <1>3, ConstantsAssumption DEF Sample, Entry
<1>5. births[p] <= 1 => prev.cpu <= now.cpu /\ prev.io <= now.io
  <2>1. CASE Reused(p)
    BY <1>2, <2>1 DEF Reused, getLinuxProcess, CounterInv
  <2>2. CASE ~Reused(p)
    BY <1>4, <2>2, ConstantsAssumption DEF getLinuxProcess
  <2> QED BY <2>1, <2>2
<1>6. \A q \in PIDs \ {p} : cache'[q] = cache[q] /\ status'[q] = status[q]
  BY <1>1 DEF CacheAfter, TypeOK
<1>7. births[p] <= 1 => cache'[p].cpu <= now.cpu /\ cache'[p].io <= now.io
  <2>1. CASE cache[p] = NoEntry \/ Reused(p)
    <3>1. cache'[p] = NextEntry(prev, now, ioOK, netOK)
      BY <1>1, <2>1 DEF CacheAfter, TypeOK
    <3>2. cache'[p].cpu = now.cpu /\ cache'[p].io \in {0, now.io, prev.io}
      BY <3>1 DEF NextEntry
    <3> HIDE DEF prev, now
    <3> QED BY <1>4, <1>5, <3>2, ConstantsAssumption
  <2>2. CASE cache[p] # NoEntry /\ ~Reused(p)
    BY <1>1, <1>2, <2>2 DEF CacheAfter, CounterInv
  <2> QED BY <2>1, <2>2
<1>8. births[p] <= 1 =>
        /\ status'[p].cpuDelta >= 0
        /\ status'[p].ioDelta <= status'[p].sample.io
        /\ status'[p].rxDelta >= 0 /\ status'[p].txDelta >= 0
  <2>1. status'[p] = NewStatus(p, prev, now, ioOK, netOK)
    BY <1>1 DEF TypeOK
  <2>2. /\ status'[p].cpuDelta = cpuDelta(prev, now)
        /\ status'[p].ioDelta = ioDelta(prev, now, ioOK)
        /\ status'[p].sample = now
        /\ status'[p].rxDelta = IF netGrew(prev, now, netOK) THEN now.rx - prev.rx ELSE 0
        /\ status'[p].txDelta = IF netGrew(prev, now, netOK) THEN now.tx - prev.tx ELSE 0
    BY <2>1 DEF NewStatus
  <2> HIDE DEF prev, now
  <2>3. births[p] <= 1 => cpuDelta(prev, now) >= 0
    BY <1>4, <1>5, ConstantsAssumption DEF cpuDelta
  <2>4. births[p] <= 1 => ioDelta(prev, now, ioOK) <= now.io
    BY <1>4, <1>5, NoWrap, ConstantsAssumption DEF ioDelta
  <2>5. status'[p].rxDelta >= 0 /\ status'[p].txDelta >= 0
    BY <1>4, <2>2 DEF netGrew
  <2> QED BY <2>2, <2>3, <2>4, <2>5
<1> HIDE DEF prev
<1> QED BY <1>2, <1>6, <1>7, <1>8 DEF CounterInv, CountersGrow, Alive

(* The collector's other steps only forget snapshots and statuses.         *)
LEMMA CounterRun ==
    ASSUME TypeOK, CounterInv, Run
    PROVE  CounterInv'
<1>1. ASSUME NEW p \in PIDs, HarvestFails(p) PROVE CounterInv'
  BY <1>1 DEF HarvestFails, CounterInv, CountersGrow, Alive, TypeOK
<1>2. ASSUME FinishCollect PROVE CounterInv'
  <2>1. /\ \A p \in PIDs : cache'[p] \in {cache[p], NoEntry}
        /\ UNCHANGED <<kernel, births, status>>
    BY <1>2 DEF FinishCollect
  <2> QED BY <2>1 DEF CounterInv, CountersGrow, Alive
<1>3. ASSUME ReceiveSpans \/ Tick \/ Stop \/ Send PROVE CounterInv'
  BY <1>3 DEF ReceiveSpans, Tick, Stop, Send, CounterInv, CountersGrow, Alive
<1> QED BY <1>1, <1>2, <1>3, CounterHarvest DEF Run

(* As long as a PID names one process, the deltas that are added to the    *)
(* monotonic counters are never negative and the unsigned one never wraps, *)
(* whatever reads fail and however the process is renamed in between.      *)
THEOREM CounterDeltasNonNegativeCorrect == Spec => []CounterDeltasNonNegative
<1>1. Init => CounterInv
  BY DEF Init, CounterInv, CountersGrow, Alive
<1>2. IInv /\ CounterInv /\ [Next]_vars => CounterInv'
  <2> SUFFICES ASSUME TypeOK, CounterInv, [Next]_vars PROVE CounterInv'
    BY DEF IInv
  <2>1. CASE UNCHANGED vars
    BY <2>1 DEF vars, CounterInv, CountersGrow, Alive
  <2> QED BY <2>1, CounterHost, CounterRun DEF Next
<1>3. CounterInv => CounterDeltasNonNegative
  BY DEF CounterInv, CounterDeltasNonNegative
<1> QED BY <1>1, <1>2, <1>3, InductiveInit, InductiveStep, PTL DEF Spec

-----------------------------------------------------------------------------
(* Refinement: the collector, seen through its snapshots and batches, is a *)
(* StatusFeed.                                                             *)

(* the processes that the feed knows are the cached ones, those it has     *)
(* reported are those of the batch                                         *)
LEMMA FeedSets ==
    ASSUME TypeOK
    PROVE  Feed!Based = Cached /\ Feed!Reported = results
<1>1. Feed!Based = Cached
  BY SentinelsAssumption DEF Feed!Based, Cached, TypeOK, Entry
<1>2. Feed!Reported = results
  <2>1. \A p \in results : observation(p).uid[2] = p
    BY DEF observation
  <2>2. Feed!Reported = {observation(p).uid[2] : p \in results}
    BY DEF Feed!Reported
  <2> QED BY <2>1, <2>2
<1> QED BY <1>1, <1>2

(* A harvest is one of the three ways in which the feed reports a process. *)
LEMMA FeedHarvest ==
    ASSUME IInv, NEW p \in PIDs, Harvest(p)
    PROVE  Feed!FeedNext
<1> DEFINE base == [q \in PIDs |-> IF cache[q] = NoEntry THEN NoEntry ELSE cache[q].mem]
           now == kernel[p]
<1>1. PICK ioOK \in BOOLEAN, netOK \in BOOLEAN :
        /\ cache' = CacheAfter(p, NextEntry(getLinuxProcess(p), now, ioOK, netOK))
        /\ status' = [status EXCEPT ![p] =
                        NewStatus(p, getLinuxProcess(p), now, ioOK, netOK)]
  BY DEF Harvest
<1>2. TypeOK /\ RoundInv
  BY DEF IInv
<1>3. now \in Sample /\ getLinuxProcess(p) \in Entry
  BY <1>2, GetLinuxProcessType DEF Harvest
<1>4. NextEntry(getLinuxProcess(p), now, ioOK, netOK) # NoEntry
  BY <1>3, NextEntryType, SentinelsAssumption
<1>5. p \notin results /\ results' = results \cup {p} /\ pids[p] \in Services
  BY <1>2, ConstantsAssumption DEF Harvest, RoundInv, TypeOK, Tracked
<1>6. /\ status'[p].svc = pids[p]
      /\ status'[p].sample = now
      /\ status'[p].memDelta = now.mem - getLinuxProcess(p).mem
      /\ \A q \in PIDs \ {p} : status'[q] = status[q]
  BY <1>1, <1>2 DEF TypeOK, NewStatus, memDelta
<1>7. PICK s \in Services, m \in 0..MaxMem : s = pids[p] /\ m = now.mem
  BY <1>3, <1>5 DEF Sample
<1>8. {observation(q) : q \in results}' =
        {observation(q) : q \in results} \cup
          {[uid |-> <<s, p>>, mem |-> m, memDelta |-> m - getLinuxProcess(p).mem]}
  <2>1. \A q \in results : observation(q)' = observation(q)
    BY <1>2, <1>5, <1>6 DEF observation, TypeOK
  <2>2. observation(p)' = [uid |-> <<s, p>>, mem |-> m,
                           memDelta |-> m - getLinuxProcess(p).mem]
    BY <1>6, <1>7 DEF observation
  <2> QED BY <1>5, <2>1, <2>2
<1>9. Feed!Based = Cached /\ Feed!Reported = results
  BY <1>2, FeedSets
<1>10. CASE cache[p] = NoEntry
  <2>1. getLinuxProcess(p).mem = 0
    BY <1>10 DEF getLinuxProcess, Reused
  <2>2. m - getLinuxProcess(p).mem = m
    BY <1>7, <2>1
  <2>3. base' = [base EXCEPT ![p] = m]
    BY <1>1, <1>2, <1>4, <1>7, <1>10 DEF CacheAfter, NextEntry, TypeOK
  <2>4. Feed!Start(p, s, m)
    BY <1>5, <1>8, <1>9, <1>10, <2>2, <2>3 DEF Feed!Start, Feed!Observe, Cached
  <2> QED BY <2>4 DEF Feed!FeedNext
<1>11. CASE cache[p] # NoEntry /\ Reused(p)
  <2>1. getLinuxProcess(p).mem = base[p]
    BY <1>11 DEF getLinuxProcess
  <2>2. base' = [base EXCEPT ![p] = m]
    BY <1>1, <1>2, <1>4, <1>7, <1>11 DEF CacheAfter, NextEntry, TypeOK
  <2>3. Feed!Continue(p, s, m)
    BY <1>5, <1>8, <1>9, <1>11, <2>1, <2>2 DEF Feed!Continue, Feed!Observe, Cached
  <2> QED BY <2>3 DEF Feed!FeedNext
<1>12. CASE cache[p] # NoEntry /\ ~Reused(p)
  <2>1. getLinuxProcess(p).mem = 0
    BY <1>12 DEF getLinuxProcess
  <2>2. m - getLinuxProcess(p).mem = m
    BY <1>7, <2>1
  <2>3. cache' = cache
    BY <1>1, <1>12 DEF CacheAfter
  <2>4. Feed!Restart(p, s, m)
    BY <1>5, <1>8, <1>9, <1>12, <2>2, <2>3 DEF Feed!Restart, Feed!Observe, Cached
  <2> QED BY <2>4 DEF Feed!FeedNext
<1> QED BY <1>10, <1>11, <1>12

(* Every step of the collector is a step of the feed or leaves it alone.   *)
LEMMA FeedStep ==
    ASSUME IInv, [Next]_vars
    PROVE  [Feed!FeedNext]_(Feed!feedVars)
<1>0. TypeOK /\ RoundInv
  BY DEF IInv
<1>1. ASSUME UNCHANGED <<cache, results, status>> PROVE UNCHANGED Feed!feedVars
  BY <1>1 DEF Feed!feedVars, observation
<1>2. CASE UNCHANGED vars
  BY <1>1, <1>2 DEF vars
<1>3. CASE Host
  BY <1>1, <1>3, HostFrame
<1>4. CASE ReceiveSpans \/ Stop
  BY <1>1, <1>4 DEF ReceiveSpans, Stop
<1>5. CASE Tick
  <2>1. results = {} /\ results' = {} /\ cache' = cache
    BY <1>0, <1>5 DEF Tick, RoundInv
  <2> QED BY <2>1 DEF Feed!feedVars
<1>6. CASE \E p \in PIDs : Harvest(p)
  BY <1>6, FeedHarvest
<1>7. ASSUME NEW p \in PIDs, HarvestFails(p) PROVE [Feed!FeedNext]_(Feed!feedVars)
  <2>1. {observation(q) : q \in results}' = {observation(q) : q \in results}
    <3>1. p \notin results /\ results' = results
      BY <1>0, <1>7 DEF HarvestFails, RoundInv
    <3>2. \A q \in results : status'[q] = status[q]
      BY <1>0, <1>7, <3>1 DEF HarvestFails, TypeOK
    <3> QED BY <3>1, <3>2 DEF observation
  <2>2. CASE cache[p] = NoEntry
    <3>1. cache' = cache
      BY <1>0, <1>7, <2>2 DEF HarvestFails, TypeOK
    <3> QED BY <2>1, <3>1 DEF Feed!feedVars
  <2>3. CASE cache[p] # NoEntry
    <3>1. p \in Feed!Based \ Feed!Reported
      BY <1>0, <1>7, <2>3, FeedSets DEF Cached, RoundInv, HarvestFails
    <3>2. cache' = [cache EXCEPT ![p] = NoEntry]
      BY <1>7 DEF HarvestFails
    <3>3. Feed!Drop(p)
      BY <1>0, <2>1, <3>1, <3>2 DEF Feed!Drop, TypeOK
    <3> QED BY <3>3 DEF Feed!FeedNext
  <2> QED BY <2>2, <2>3
<1>8. CASE FinishCollect
  <2>1. Cached = results /\ Kept(Cardinality(results)) = results
    BY <1>0, <1>8, NothingToEvict DEF FinishCollect
  <2>2. cache' = cache
    BY <1>0, <1>8, <2>1 DEF FinishCollect, Cached, TypeOK
  <2> QED BY <1>1, <1>8, <2>2 DEF FinishCollect
<1>9. CASE Send
  <2>1. Feed!Based = Feed!Reported
    BY <1>0, <1>9, FeedSets DEF RoundInv, Send
  <2>2. results' = {} /\ cache' = cache
    BY <1>9 DEF Send
  <2>3. Feed!Publish
    BY <2>1, <2>2 DEF Feed!Publish
  <2> QED BY <2>3 DEF Feed!FeedNext
<1> QED BY <1>2, <1>3, <1>4, <1>5, <1>6, <1>7, <1>8, <1>9 DEF Next, Run

(* The collector implements the feed that the exporters rely on.           *)
THEOREM ImplementsFeedCorrect == Spec => ImplementsFeed
<1>1. Init => Feed!FeedInit
  BY DEF Init, Feed!FeedInit
<1>2. IInv /\ [Next]_vars => [Feed!FeedNext]_(Feed!feedVars)
  BY FeedStep
<1> QED BY <1>1, <1>2, InductiveInit, InductiveStep, PTL
        DEF Spec, ImplementsFeed, Feed!FeedSpec
=============================================================================
