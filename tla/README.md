# TLA+ models of eBPF-Lens

eBPF-Lens is a fork of Grafana Beyla: an agent that runs on every node, finds
processes, instruments them with eBPF, and exports metrics and traces. Its own
code is under `pkg/` and `cmd/`; it builds on a copy of OBI under
`vendor/go.opentelemetry.io/obi`, to which the fork has added GPU events. This
directory holds models of the parts of it that keep state and run
concurrently, their TLC configurations, and TLAPS proofs.

`PROJECT.json` lists components, runs, mutants (one plausible bug per checked
property), the map from definitions to source lines, findings, hazards and
theorems.

## The system

| component | state | operations | talks to |
|---|---|---|---|
| process collector (`infraolly/process`) | map of PIDs, LRU of snapshots | receive spans, tick, harvest a PID, trim, send | spans in; statuses out; reads `/proc` |
| process exporters (`export/otel/metrics_proc.go`, `export/prom/prom_proc.go`) | reporters and counters; gauges with last access | observe a status, expire, scrape | statuses in |
| reporter pool (OBI `otelcfg/common.go`) | LRU of reporters, time of the last sweep | `For` | called by every OTEL exporter |
| survey mode (`discover/survey_informer.go`, `metrics_survey.go`, `prom_survey.go`, OBI `pid_tracker.go`) | per-reporter PID trackers, service map, series; shared `FileInfo` | process created, process terminated | typer and Kubernetes metadata in |
| injection webhook (`pkg/webhook`) | initial process state, restart marks, SDK directories | scan, clean up, subscribe, judge a pod event, restart, admit a pod | Kubernetes API, informer, host path |
| process and instrumenter life cycle (`cmd/beyla`, `components/beyla.go`, `appolly.go`, `discover/finder.go`) | error group, context, running tracers, wait group | load and validate, start components, instrument, stop with timeout, exit | every component |
| configuration (`pkg/beyla`, `export/otel/grafana.go`) | the configuration and OBI's cached copy of it | normalise, validate, convert | read by every component |
| message queues (OBI `pipe/msg`) | subscribers and their channels | subscribe, send with a timeout, close | every pipeline |
| trace forwarding (`export/alloy`, `connect_spans.go`, `external.go`) | nodes of a swarm, two queues | select external spans, build connection spans, forward | spans in; Alloy, OTLP |
| injected environment (`webhook/mutator.go`, `webhook/env_vars.go`) | containers, labels and volumes of pods | admit a pod | API server, kubelet |
| GPU events and HAMi (OBI `internal/ebpf/gpuevent`, `internal/hami`) | PID index, UUID cache | attribute an event, replace the index, block a PID | ring buffer, `/proc`, HAMi cache files |
| attribute tables, eBPF programs, Kubernetes cache service | - | names; kernel code; a vendored service | - |

What is hard here is what happens between two steps of one component: the host
replaces processes between two reads of `/proc`; deltas computed by one
component are summed by another that may have forgotten its sum; caches expire
lazily, only when somebody asks; a pointer that travels in an event is written
again before the event is handled; two goroutines run the same handler; a
component that is told to stop waits for one that has already left; a pod is
submitted again to a server of another version.

## Modules

| module | models | proofs |
|---|---|---|
| `ProcessCollector` | `Collector.Run`, `Collect`, `Harvest`, with the host's processes | `ProcessCollectorProofs` |
| `StatusFeed` | abstract: what the collector promises to exporters | refinement in `ProcessCollectorProofs` |
| `ReporterPool` | `ReporterPool.For`, its fast path, LRU and sweep | `ReporterPoolProofs` |
| `ProcMetrics` | composition: `StatusFeed`, the OTEL exporter on a `ReporterPool`, the Prometheus exporter | `ProcMetricsProofs` |
| `PidServiceTracker` | the PID/service maps of the survey reporters, as operators | lemmas in `SurveyMetricsProofs` |
| `SurveyMetrics` | typer, surveyor and both survey reporters, each with a tracker | `SurveyMetricsProofs` |
| `Webhook` | the injection webhook with pods, informer and host path | `WebhookProofs` |
| `MsgQueue` | one call of `Send` or `SendCtx` on a queue, with its send timeout | `BeylaProofs` |
| `TraceForwarding` | the nodes around OBI's pipeline, on two instances of `MsgQueue` | `BeylaProofs` |
| `Instrumenter` | `appolly`: setup, finder, event loop, tracers, shutdown; extends `TraceForwarding` | `BeylaProofs` |
| `BeylaConfig` | normalisation, validation and conversion of the configuration, as operators | `BeylaProofs` |
| `Beyla` | the whole process: `main`, `RunBeyla`, the other components; extends `Instrumenter` and `BeylaConfig` | `BeylaProofs` |
| `PodInjection` | `mutatePod` and the environment of containers, with the kubelet's expansion | `PodInjectionProofs` |
| `NatMinimum` | - | every non-empty set of naturals has a least element |
| `MC*` | instances for TLC | - |

### ProcessCollector

`phase` is the program counter of `Run`: `idle` is the `select`, `collect` the
range loop of `Collect`, `send` the call that publishes the batch. `todo` is
what the loop has not visited (Go ranges over maps in any order). `pids`,
`cache` and `older` are the map, the LRU and its order. A reading of `/proc` is
a record of counters; the pair (command, parent PID), by which
`getLinuxProcess` decides whether a snapshot is of the same process, is one
value `ident`. `gen` tells processes with the same PID apart; the code has
nothing like it. IO deltas are unsigned and wrap at `WordSize` (2^64 in the
code). A harvest reads its process in one step; failures to read IO and network
are choices of that step, a failure to read `stat` is `HarvestFails`.

### StatusFeed and ProcMetrics

`StatusFeed` knows only a base per PID and the batch of the round. The
refinement maps the base to the memory of the snapshot and the batch to what an
exporter reads of the statuses. `ProcMetrics` puts two exporters behind it. The
memory metric stands for all of them: OTEL adds deltas (`OtelObserve`),
Prometheus sets absolute values (`PromObserve`), which makes the two comparable.
Every disturbance that the collector can cause (`restart`, `move`, `return`) or
the SDK (`fault`) can be switched on by `Disturbances`. A scrape is two steps,
because `DeleteExpired` looks for expired gauges under a read lock and deletes
them under a later write lock: `PromScrape(c)` notes them in `delKeys[c]`, for
each of the `Scrapers`, and `PromDelete(c)` deletes them whatever happened to
them. `seen` and `overdue` are history variables: when a status of a UID was last
observed, and whether that was too late (`Condemned`). `LiveProcessesExported`
excuses those gauges and no others.

### ReporterPool

`older` is the LRU list as an order, `lastAccess` the time of each entry,
`lastUID` the fast path that skips the LRU. `For` is one step because each
exporter calls the pool from one goroutine. Reporters are created, or
fail to be (`ForFails`).

### SurveyMetrics

`file[p]` is the `FileInfo` that events point to; `SurveyCreated` and
`SurveyTerminated` write it and send, `Receive` reads the UID from it,
`Look` reads its attributes for the first time, and `OtelCreated`, `PromCreated`
and `Terminated` read it again. The OTEL reporter exports and remembers what it
read first, under the UID that it reads afterwards; the Prometheus reporter reads
the attributes once for the labels of the series and once for the map by which it
will delete them (`prom_survey.go:192-193`, `207-208`), and the surveyor may
write them in between. `torn` is a history variable: the UIDs to which this has
happened. `Leaks` is what the properties excuse for them. Before its metadata is known a process has the UID of its
executable; the typer takes for it the executable of the oldest ancestor with
the same one (`lineage`), which assumes that the process tree has no cycle.
`renamed` is a history variable: a process has changed its UID.

### Webhook

`srv[n]` is the server of a node. `Start` to `EndWelcome` follow
`getInitialState`; `Welcome` and `Notify` are `Server.On` on the goroutine of
the subscription and on the one of the informer, up to the question whether the
deployment is already marked; `MarkBounced` and `Patch` or `PatchFails` are
`RestartDeployment`. `StoreOn` and `Notify` are two steps because `Store.On`
notifies after it released its lock; while the welcome message is being sent,
the store cannot be written. Pods are admitted by any server that listens
(`failurePolicy: Fail`, as in `pkg/webhook/example`), scheduled anywhere,
started later, and replaced when the template of their deployment changed. SDK
versions are on the host path. `ScannedKeepSDK` is about the step that cleans it
up: no version goes that a process found by the scan of that server runs with.
It is an action property. As a statement about every later state it is not true
of three starts of a server: a server can remove a version that only a process
runs with which was found by the scan of an earlier one.

### MsgQueue and TraceForwarding

`call` is the state of `chainedSend` between two channel operations: the
subscribers still to be served (`left`) and the one that the timer put off
(`blocked`). `SendTimeout` may happen although the channel has room, because
Go's `select` chooses among ready cases. `TraceForwarding` has two queues:
OBI's `SendCtx` to the export queue, which the context interrupts, and the
`Send` of `SelectExternal` to `externalTraces`, which nothing interrupts. A
batch is its number in `sent`; a span is reduced to what the nodes tell apart
(`Span`), so that `IsClientSpan`, peers and hosts become one flag `external`, and
`selected` is the set of exporters whose instrumentations report it: the two
builders of connection spans have selectors of their own
(`traces_connect.go:52`, `connect_spans.go:94`). OBI's side is the last node of
its swarm that writes to the export queue, in the vendored copy: `ObiSends` is the call
of `SendCtx` in `filter.doFilter`, `ObiInterrupted` its return when the context
is done, after which `ForEachInput` goes back to its `select` and may still take
and send another batch, and `ObiStops` the end of that loop. `missed` is a
history variable: the batches that an interrupted call did not deliver, by
reader.
`received` and `handed` are histories of each reader. Nodes that return stay
subscribed, as in the code; `ExporterFails` is the case in which
`connectionSpansExport.provideLoop` returns before it reads anything.

### Instrumenter

`stage` is the program counter of `setupAppO11y`. `NewInstrumenter(kube)`
chooses whether Kubernetes can be reached; `FindAndInstrument` starts the finder
and, if there is anything to instrument, the event loop, which runs on its own
goroutine and is not waited for: `TracerStarts` can follow the cancellation,
and even the return of `tracersWg.Wait` (`late` remembers it). `PipelineDone` is
the wait on `bp.Done()`, `TracersWaited`, `StopReturns` and `StopTimesOut` are
`stop`.

### BeylaConfig and Beyla

A configuration is the record of switches and lists that decide which
components start and where they export. `Exporters` is what a component finds
when it starts: OBI builds metrics of applications only if one of their features
is on (`appolly/instrumenter.go:131`), and `survey_info` needs no feature. `LoadConfig` normalises it,
`ValidateConfig` also makes OBI's copy (`obiCfg`), and after `RunBeyla` neither
is read: both are set to `NoConfig`, which keeps configurations that do the same
from multiplying the states. The network and stats agents and the webhook server
are goroutines that return well, fail, or, in the case of the webhook,
wait for TLS files. `faults` remembers where something really went wrong, to
compare with the exit status.

### PodInjection

An environment is a sequence of variables; a value is a list of references
`$(NAME)` followed by a text, and a text is a sequence of words (a Kubernetes
name is the words between its dashes). `setResourceAttributes`,
`configureContainerEnvVars`, `addEnvVars` and `mutatePod` are operators with the
order of the code's calls. The actions are those of Kubernetes: a pod is
admitted by the server (`Submit`), without it (`SubmitUnseen`), or made from
another pod's specification (`SubmitCopy`), and the server changes its version
and configuration (`Upgrade`). `lookup` and `expand` are what the kubelet does;
the properties are about the environment that a container sees. `InputsAssumption`
says what pods may be submitted and how servers may be configured.

## Runs

| run | checks | shows |
|---|---|---|
| `pc_rounds` | `TypeOK`, `RoundKeepsItsBatch`, `CacheWithinMap`, `DeadPIDsForgotten`, `ShutdownCompletes` | trimming the LRU by count drops exactly what left the batch; late spans do not keep dead PIDs; cancellation wins |
| `pc_deltas` | `SnapshotIsLastSample`, `CounterDeltasNonNegative`, `DeltasBridgeSamples`, `ImplementsFeed` | deltas bridge consecutive samples; no counter of a process goes backwards; the collector implements `StatusFeed` |
| `rp_pool` | `TypeOK`, `PoolBounded`, `OrderIsAccessOrder`, `IdleBelowTwoTTLs`, `SweepLeavesNoneAged` | lazy expiration is right: a sweep may stop at the first fresh reporter |
| `pm_rss` | `PipeTypeOK`, `MemoryIsRSS` | undisturbed processes: the sum of deltas is the memory in use, across sweeps, expirations and scrapes |
| `pm_exported` | `LiveProcessesExported` | with every disturbance and two scrapers, a process that is reported keeps its series, unless a scrape found its gauge expired before its status came |
| `sv_survey` | `SurveyTypeOK`, `TrackersConsistent`, `ExportedUnlessRenamed`, `OnlyLiveExported`, `ReportersAgree` | as long as no UID changes, both reporters list exactly the living services, but for those that Prometheus read while they changed |
| `wh_restart` | `WebhookTypeOK`, `ScannedKeepSDK`, `OneRestartUnlessOverlap`, `WrongPodsReplaced` | cleanup, marks and the gap between scan and subscription lose nothing |
| `bl_run` | `BeylaTypeOK`, `QueuesInOrder`, `ConnectionSpansExact`, `CleanStopUnloads`, `ExitStatusIsTrue`, `ComponentsExport`, `ShutdownCompletesUnlessStuck`, `BatchesReachAlloy` | from any configuration to the exit: queues keep order across timeouts, and lose nothing but what a cancellation takes in the middle of a send; each builder of connection spans hands on what it should; a clean stop unloads the tracers; the exit status is true; valid configurations export; every failure and every signal ends the process, unless `SelectExternal` is stuck |
| `pi_inject` | `InjectTypeOK`, `ReferencesResolve`, `InstanceIdsUnique`, `ServiceNameIsWorkload`, `VersionsAgree`, `UserSettingsKept` | references expand, instance IDs are unique, services are named after their workload, or their pod if no known workload owns it; label, environment and volume agree, and the variables of users are kept, across copies and upgrades |
| `pc_v_sample` | violates `NextIterationUsesThisSample` | a renamed process keeps its old snapshot in the cache and gets deltas since its start for ever |
| `sv_v_merge` | violates `TrackedIsExported` | `ReplaceUID` moves every PID of the old UID, so unrelated processes lose their series |
| `bl_v_hang` | violates `ShutdownCompletes` | `SelectExternal` stays in a `Send` to a reader that has left: the process does not exit |

### Bounds

- `pc_rounds`: two PIDs are needed for an order in the LRU, two lives per PID
  for reuse, two identities for renames; the counters are 0, they play no part.
- `pc_deltas`: one PID, since harvests of different PIDs share nothing but the
  LRU, and one life of it (the property excludes reuse). IO, memory and network
  counters up to 1, with interfaces that go and reads that fail; CPU up to 1
  has no delta but 0, as the first non-zero sample has none, and the theorem
  `DeltasBridgeSamplesCorrect` has no bounds.
- `rp_pool`: three UIDs in a pool of two force evictions; 9 instants with a TTL
  of 2 allow several sweeps.
- `pm_rss`: a TTL of 3 rounds, longer than the two batches that an exporter can
  lag behind; with a shorter one reporters expire although their process lives,
  and `MemoryIsRSS` does not hold. `pm_exported` has a TTL of 1 for that reason,
  and two scrapers: with one, no gauge that was deleted and created again can be
  deleted by a scrape that began before. One PID that changes between two
  services is enough there, as statuses of different UIDs meet only in the
  reporter pool and in the size of its cache. `pm_rss` has one scraper.
- `sv_survey`: three PIDs in one container, one forked by another; batches of
  up to two. A process that is found before the metadata of its container keeps
  the UID of the executable, and one found later gets that of the container, so
  that there are two services, either of which may have several processes. With
  a second container the run exceeds five minutes. `sv_v_merge` has batches of
  three and two containers.
- `wh_restart`: one node, two pods of one deployment, two starts of the server
  with any of three configurations (version 1, version 2, version 2 selecting
  nothing). Two nodes exceed five minutes. The restart marks are per server:
  a deployment on two nodes is restarted by both servers, which the model
  allows and no run states.
- `bl_run`: 3268 configurations, the union of every combination of exporters
  and features, of the nodes of the pipeline, and of what the webhook needs;
  two batches (one without external spans, one with spans of two export modes
  that either exporter, or both or none, reports) and channels of one place, so that a second batch blocks; two
  tracers, one of which can be late. The combinations of pipeline nodes run in
  survey mode, which has no tracers: the two do not touch each other before
  `bp.Done()`. `bl_v_hang` has only those configurations.
- `pi_inject`: two pods, so that one can be the copy of the other or share its
  workload; four servers of three versions (plain; with labels, sampler, modes,
  headers and span metrics; with UIDs and a narrower selection; with configured
  attributes of the names that owners have) and one upgrade; owners of every kind
  that `ownersFrom` treats differently, none of a kind with an attribute, and two
  of such kinds, names with
  dashes, annotated names and instance IDs, and containers with every kind of user
  variable that the webhook also sets, and others.

`SpanBuf`, `BatchBuf`, `MaxBatch`, `MaxGen`, `MaxTime`, `MaxStarts`, `MaxSent`,
`MaxUpgrades` bound the queues, lives, clock, starts, batches and upgrades in
guards. Deadlock is not checked: clocks, lives and starts run out, a closed
collector stops, and so does a process that exits.

Symmetry is used in `pc_deltas`, `rp_pool`, `pm_*`, where no liveness is checked.

### Fairness

`ProcessCollector`: weak for the steps of the goroutine outside its `select`,
strong for each case of the `select`: Go chooses at random among ready cases,
so a case that is ready again and again is chosen. Nothing is assumed of the
host. `Webhook`: weak for the goroutines of a server, strong for the informer's
first event of a pod (it waits for a lock that is taken again and again), weak
for the deployment controller. A server may stop at any time, and a call of the
API may fail; the property excuses both. `Beyla`: weak for each goroutine that
can go on (the readers, the senders, the waits, the error group and the exit)
and for a component that was told to stop; a reader whose channel and whose
context are both ready may take either, and one that is neither cancelled nor
drained takes its input. Nothing obliges OBI to send or to stop, the finder to
find, a tracer to unload, a signal to come or anything to fail: if a tracer does
not unload, `StopTimesOut` is the step that must happen, which is the timer of
`stop`.

## Proofs

All theorems hold for every set of PIDs, UIDs and services and every bound,
from the assumptions on constants named in the modules.

`ProcessCollectorProofs`. The inductive invariant adds to the types what
connects the phases: while collecting, the batch and what is still to visit are
disjoint parts of the map; the snapshots that exist are those of the batch, or
still to be visited (`RoundInv`); a PID with a status has a snapshot
(`StatusHasSnapshot`); and the snapshot is the last sample. From it: types (`TypeCorrect`); the cache equals the
batch when `Collect` returns, because a failed harvest removes its entry, so
the number of entries equals the size of the batch and `RemoveOldest` is never
called on one of them (`RoundKeepsItsBatchCorrect`, `CacheWithinMapCorrect`);
the snapshot is the last sample as long as both have the same identity
(`SnapshotIsLastSampleCorrect`), from which deltas bridge samples
(`DeltasBridgeSamplesCorrect`); and every step is a step of `StatusFeed` or
leaves it unchanged (`ImplementsFeedCorrect`).

`ReporterPoolProofs`. The LRU order agrees with the order of last accesses
(`OrderIsAccessOrderCorrect`); the invariant needs that it is a strict total
order and that the last reporter is its newest element. That is what makes it right to stop a sweep at
the first reporter that is not aged (`SweepLeavesNoneAgedCorrect`). Together
with the time of the last sweep it bounds how long a pooled reporter has been
idle (`IdleBelowTwoTTLsCorrect`).

A pool never holds more than
`CacheLen` reporters (`PoolBoundedCorrect`): the LRU evicts a
reporter only if there is an oldest one among those that the sweep has left, so
the invariant says that any non-empty part of the pool has one (`OldestExists`).
Types are `TypeCorrect`.

`ProcMetricsProofs`. Types (`PipeTypeCorrect`) need nothing but themselves.

`LiveProcessesExportedCorrect` assumes `EnoughReporters`: the LRU can hold a
reporter of every process. Its invariant follows a batch through the exporter:
there is a set `done` of UIDs that were observed of the current batch
(`OtelDone`); they are the newest in the LRU, have the PIDs that the rest of the
batch lacks, and were used at the present time as long as no other batch waits.
A sweep therefore spares them, and if the LRU had to evict one of them for the
next status, it would hold only reporters in `done`, of which there are fewer
than PIDs (`RoomForOneMore`). The channels hold one status of a PID per batch,
and the latest batch has every process that is known (`ChannelInv`). For
Prometheus the invariant says of each UID that the exporter has observed of the
current batch that it is overdue, or that its gauge exists with the time of that
batch and no scrape has it in `delKeys`: such a gauge is not outdated, so that no
later scrape finds it. This holds for any set of scrapers.

`MemoryIsRSSCorrect` also assumes `Steady`: no disturbances, and a TTL of at
least `BatchBuf + 2` rounds. Its invariant is the chain of deltas: each status
on the way to the OTEL exporter has the difference to the status of the same
UID in the batch before, or starts from zero and then nothing of the UID was
ever before it (`Linked`, `ChainInv`). A status in the batch that is being
exported finds its counter at the previous memory, because its reporter was
used at most `Len(otelIn) + 1` rounds ago. A witness `pub`, the memory that was
sent last of each UID, ties the two exporters together (`SentInv`). None of the
hypotheses can be dropped: TLC finds a violation of `MemoryIsRSS` in the
instance of `pm_rss` with a TTL of `BatchBuf + 1`, with a cache smaller than the
number of processes, and with each one of the four disturbances. In the code
the cache of reporters has 256 entries by default, the interval is 5 seconds,
the TTL 5 minutes (60 rounds) and the channels have 50 places.

`SurveyMetricsProofs`. The invariant has a part for the source of the events
(`SourceIInv`: only processes that were found are sent, and a termination is the
last event of its process) and, as long as `~renamed`, one for each reporter
(`TrackInv`: the two maps of its tracker agree, and it tracks the processes that
were sent, but for the events that it has not handled; `ExportInv`: its series
are those of the services that it tracks, and those that it remembers, but for
the UIDs of which it read the attributes twice and differently, `Fit`). From them `TrackersConsistentCorrect`,
`ExportedUnlessRenamedCorrect`, `OnlyLiveExportedCorrect` and
`ReportersAgreeCorrect`. That the ancestor of a process has itself been found
needs the process tree to be acyclic.

`SurveyTypeCorrect` also holds when UIDs change. A process that is found makes
one event "created", for itself or for its ancestor, and such an event adds at
most 1 to a series; so the value of a series and the "created" events that the
reporter may still have to handle (`Waiting`: the processes that are new, in the
batch, in its channel, and the one at hand) are at most the number of processes
(`CountInv`). The bound cannot be proved from the processes that are tracked:
after a rename the OTEL reporter deletes one series and adds to another.

`WebhookProofs`. For each node, `TaskInv` says what its goroutines hold,
`ScanInv` that the oldest version is at most that of any process which the scan
has found, until the cleanup has used it, and `OnceInv`, as long as nothing
overlapped, that a deployment that was restarted or is about to be is marked.
`ScannedKeepSDKCorrect` is an action property from them,
`OneRestartUnlessOverlapCorrect` an invariant, for any cluster and any number of
starts.

`BeylaProofs`. `ConfigInv` (what loading and validation have established of the
configuration and of its copy), `TracerInv` (once the wait has returned only
late tracers run) and `FaultInv` (each error has its reason, and each fault is
an error until the process exits) give `ComponentsExportCorrect`, `CleanStopUnloadsCorrect` and
`ExitStatusIsTrueCorrect`. For the queues: what a reader has received followed by what its channel
holds (`Got`) is what was sent to its queue, except for the message of a call in
which the reader is still among `left` and `blocked`, and except for the messages
that it `missed`, of which there are none before the cancellation; nobody is
among them twice, and nothing flows before the pipeline is started (`FlowInv`).
`BeylaTypeCorrect` and `QueuesInOrderCorrect` follow for any number of
subscribers and timeouts, and with
`HandedInv` that each builder hands on exactly the spans that it should
(`ConnectionSpansExactCorrect`). `QueuesInOrder`
compares positions in the histories rather than filtered sequences, so that it
needs no induction over them.

`PodInjectionProofs`. The assumption `InputsAssumption` is what Kubernetes and
the configuration guarantee: the variables of a container and the containers of
a pod have distinct names (they are the keys of those lists), a header or a
language has no name of the webhook's other variables, and, of a pod with one
owner of a kind with an attribute, the workload is that owner or the parent that
Kubernetes made the owner's name from. Pods may have any number of owners of any
kinds, and servers may configure any attributes, those of owners included. The
inductive invariant (`InjectInv`, `ContainerInv`) says that a container has its
user's environment and no mount, or the environment that *some* server of the
past injected for *some* metadata (`Injected`), of which the volume and the label
tell the version; the metadata are those of the pod unless it is a copy. It has
to speak of a server of the past, because a pod outlives upgrades and is copied
with its environment, and it is kept because `alreadyInstrumented` leaves such a
pod alone and because a pod that only lost its label still has the variable of
the injector. What one call of `addEnvVars` establishes is proved from the order
of its steps: each replaces a variable in its place or appends it (`Ext`, which
composes), so that the fields follow the user's variables and precede every
reference that is appended after them (`StructureLemma`), and each of the
webhook's own variables has one value (`Only`). The service name is one that
`NameIs` allows: that of an annotation or a label, a configured one, that of an
owner of the pod, or, if it has none of a kind with an attribute, its own. Sequences of `setEnvVar` are
folds; their effect is proved by unfolding the recursive function behind
`FoldLeft` and taking the least step that breaks a claim (`NatMinimum`), in
place of induction. The theorems are `InjectInvCorrect` and, for each property of
`pi_inject`, `InjectTypeCorrect`, `ReferencesResolveCorrect`,
`InstanceIdsUniqueCorrect`, `ServiceNameIsWorkloadCorrect`,
`VersionsAgreeCorrect` and `UserSettingsKeptCorrect`, for any pods, owners,
annotations, servers and upgrades.

Every invariant and action property of the runs that expect no violation is
stated by a theorem. Only model-checked is liveness, which is out of the prover's
reach: `DeadPIDsForgotten`, `ShutdownCompletes`, `WrongPodsReplaced`,
`ShutdownCompletesUnlessStuck`, `BatchesReachAlloy`.

## Observations that no run states

- A PID that is reused under the same command and parent between two ticks
  gives a negative CPU delta (`harvest.go:148`) or a wrapped IO delta
  (`harvest.go:192`); `CounterDeltasNonNegative` excludes it.
- When the service UID of a process changes, its new OTEL reporter starts from
  zero and receives only the difference (`metrics_proc.go:339`); `pm_rss` has no
  such change.
- `Server.On` runs on two goroutines (`server.go:225` and the informer's), and
  both may find a deployment unmarked and restart it (`bouncer.go:50-51` says
  double restarts are prevented); `OneRestartUnlessOverlap` excuses it.
- Traces that are only submitted through the section `grafana` pass validation,
  but OBI's traces exporter is enabled only by an endpoint of its own section
  (`config_obi.go:62`, OBI `config_traces.go:106`); `ComponentsExport` excuses it.
- A webhook server that is stopped while it waits for its TLS files returns the
  error of its context, so that a normal stop exits with -1 (`server.go:163`);
  `ExitStatusIsTrue` excuses it.
- An exporter of connection spans that cannot start stays subscribed: once its
  channel is full, `SelectExternal` and then the export queue block for good,
  which also stops traces to Alloy (`SelectStuck` in `BatchesReachAlloy`).
- `env_vars.go:150` and `:159` say that user settings are not overridden;
  `setEnvVar` replaces them. The attribute of the configuration "with the
  highest precedence" (`env_vars.go:139`) comes before `SkipSpanMetrics`.
- With `AddK8sUIDAttributes` the UID replaces the name of the direct owner under
  the same key, and `chooseServiceName` then takes it for the service name.
- A variable that the user had keeps its place, in front of the fields that its
  new value refers to, so that the kubelet does not expand it.
- A `Job` of nobody with a dash in its name is taken for the job of a `CronJob`.
- A pod of which only the label would change is not patched, so that the label
  is lost.
- The network guard of `populateNetworkInfo` also drops the bytes of one
  direction when the other did not move.
- A scrape may delete a gauge that a status has just refreshed, if it had found
  the gauge expired before (`expiry_map.go:79-92`); it is back with the next
  status. `LiveProcessesExported` excuses it.
- The Prometheus survey reporter that reads the attributes of a service while
  they change creates a series with one set of labels and remembers another, and
  then never deletes that series, also when the service is gone
  (`prom_survey.go:207-208`). The OTEL reporter, which keeps what it exported,
  does not. `ExportedUnlessRenamed`, `OnlyLiveExported` and `ReportersAgree`
  excuse it.
- Validation asks for an exporter of the application component without looking
  at the features: with `features: [network]` and nothing but a metrics exporter
  the application starts and exports nothing (`config.go:465`, OBI
  `appolly/instrumenter.go:131`); `ComponentsExport` excuses it.
- After the cancellation a reader may get a batch without the one before it,
  because the senders go on after an interrupted `SendCtx` (`queue.go:176`,
  `read_pattern.go:23`); `QueuesInOrder` excuses it.
- The two builders of connection spans may hand on different spans, as each asks
  the instrumentations of its own exporter.
- A pod whose only owners are of kinds without an attribute (a `Node`, a custom
  resource) reports its own name as the service. An attribute of the
  configuration with the name of an owner's, such as `k8s.deployment.name`,
  takes the service name if it comes earlier in `chooseServiceName` than that of
  the owner; an empty one lets the next kind decide.
- `For` can return, through its fast path, a reporter that the same call has
  just swept.
- Expiration is driven by requests: when the last process of a host ends, its
  reporter is never swept.
- `fetchMetadata` resets the language of a process when it terminates, in the
  `FileInfo` that a creation event still points to.
- A pod instrumented by another SDK version that is no longer selected is not
  restarted, because `AlreadyInstrumented` compares versions.
- A pod admitted with an old SDK version, but not started when a new server
  scans, finds its SDK version removed.

## Not modelled

Attribute tables are names; eBPF programs are kernel code; the Kubernetes cache
service and the generators of offsets and of the schema have no logic of their
own that runs beside others. In `pkg/webhook`: image volumes, language
detection, cgroup parsing. In `appolly`: the process events that the event loop
sends to the decorators, and the unlinking of executables. In `msg.Queue`:
bypassed queues, several closers, the panic on timeout. In the configuration:
YAML, defaults, selection criteria (`services/criteria.go`) and the values that
decide neither which components start nor where they export. In
`connect_spans.go`: the attributes of spans and the settings of the exporter.
GPU events and HAMi are on the plan.

Some definitions fold branches of the code that no property tells apart:

- `SurveyMetrics.asInstrumentable` leaves out the branch for Go executables
  (`typer.go:219-226`), which takes the process itself, and the eviction from
  the LRU of 100 instrumentables. Attributes are read and written in one step
  each; as long as no process changes its UID only the language can differ. The
  OTEL reporter's reads of the UID at `metrics_survey.go:177` and `:141` are one.
- `Webhook.Subscribe` sends each pod of the welcome message once; the store
  sends them again by IP (`store.go:640`); a second event is judged like the
  first, whose deployment is already marked.
- `BeylaConfig.Validate` folds the checks of single settings, that of the span
  metrics (`config.go:468-473`) included, into `wrong`.
- `PodInjection.Submit` leaves out the paths on which the webhook denies the pod
  (no package version, a pod that cannot be decoded, a patch without changes:
  `mutator.go:209-213`, `218-220`, `248`): the submission then changes nothing.
- The finder stops with its context; it may find nothing more at any time, so
  that this is no step of its own.

## Plan

Done: 1. collector, pool, their composition; 2. survey mode; 3. webhook;
4. queues, trace forwarding, instrumenter, configuration and the whole process;
5. the injected environment; 6. proofs of the safety properties of all of them.

Next, in this order:

1. `GpuAttribution`: PID index, UUID cache, `BlockPID` and late events; an
   abstract attribution that a process is charged to its own GPU.
2. Webhook with two nodes over a coarser admission.
