----------------------------- MODULE BeylaProofs ------------------------------
(* Proofs about Beyla.  The life cycle, for every set of configurations    *)
(* and tracers: what the exit status says, what is unloaded when the       *)
(* application component returns, and where a valid configuration sends    *)
(* its data.  The pipeline, for every choice of nodes, every set of        *)
(* batches and every capacity of the channels: what the queues carry, and  *)
(* which connection spans are built.                                       *)
EXTENDS Beyla, NatMinimum, SequenceTheorems, TLAPS

-----------------------------------------------------------------------------
(* The configuration.                                                      *)

(* The configuration while it is read; normalizeConfig makes the           *)
(* deprecated flag of the network metrics a feature.                       *)
ConfigInv ==
    /\ phase \in {"load", "loaded", "valid"} => cfg \in Config
    /\ phase \in {"loaded", "valid"} =>
         (cfg.netEnable => "network" \in cfg.features)
    /\ phase = "valid" => Validate(cfg) /\ obiCfg = AsOBI(cfg)

(* normalizeConfig yields a configuration.                                 *)
LEMMA NormalizeType ==
    ASSUME NEW c \in Config
    PROVE  /\ normalizeConfig(c) \in Config
           /\ normalizeConfig(c).netEnable => "network" \in normalizeConfig(c).features
<1> DEFINE features ==
             IF "metrics" \in c.otlp /\ c.deprOTEL # {} THEN c.deprOTEL
             ELSE IF c.prometheus /\ c.deprProm # {} THEN c.deprProm
             ELSE c.features
           all == features \cup (IF c.netEnable THEN {"network"} ELSE {})
<1>1. all \in SUBSET Feature
  <2>1. features \in SUBSET Feature
    BY DEF Config
  <2>2. "network" \in Feature
    BY DEF Feature
  <2> QED BY <2>1, <2>2
<1>2. normalizeConfig(c) = [c EXCEPT !.features = all]
  BY DEF normalizeConfig
<1>3. c.netEnable => "network" \in all
  OBVIOUS
<1> HIDE DEF all, features
<1> QED BY <1>1, <1>2, <1>3 DEF Config

(* What Validate accepts has an exporter for each component, in OBI's copy *)
(* or in Beyla's own nodes, but for two kinds of applications.             *)
LEMMA ValidExports ==
    ASSUME NEW c \in Config, Validate(c), c.netEnable => "network" \in c.features,
           NEW f \in Enabled(c)
    PROVE  \/ Exporters(f, c, AsOBI(c)) # {}
           \/ f = "app" /\ c.grafana = {"traces"}
           \/ /\ f = "app" /\ "application" \notin c.features
              /\ "traces" \notin c.otlp /\ "app" \notin c.print
<1> DEFINE o == AsOBI(c)
<1>0. /\ o.features = c.features /\ o.print = c.print /\ o.prometheus = c.prometheus
      /\ o.metrics = ("metrics" \in c.otlp \cup c.grafana)
      /\ o.traces = ("traces" \in c.otlp)
  BY DEF AsOBI
<1>1. /\ c.otlp \subseteq {"metrics", "traces"} /\ c.grafana \subseteq {"metrics", "traces"}
      /\ c.prometheus \in BOOLEAN /\ c.netEnable \in BOOLEAN /\ c.webhook \in BOOLEAN
  BY DEF Config, Signal
<1>2. f \in {"app", "net", "stats", "webhook"}
  BY DEF Enabled, Component
<1> HIDE DEF o
<1>3. CASE f = "app"
  <2>1. "app" \in c.print \/ c.grafana # {} \/ c.otlp # {} \/ c.prometheus
    BY <1>3 DEF Validate
  <2>2. "app" \in c.print => "print" \in Exporters("app", c, o)
    BY <1>0 DEF Exporters
  <2>3. "application" \in c.features /\ "metrics" \in c.otlp \cup c.grafana
          => "metrics" \in Exporters("app", c, o)
    BY <1>0 DEF Exporters, Measured
  <2>4. "traces" \in c.otlp => "traces" \in Exporters("app", c, o)
    BY <1>0 DEF Exporters
  <2>5. "application" \in c.features /\ c.prometheus => "prometheus" \in Exporters("app", c, o)
    BY <1>0, <1>1 DEF Exporters, Measured
  <2> QED BY <1>1, <1>3, <2>1, <2>2, <2>3, <2>4, <2>5 DEF o
<1>4. CASE f = "net"
  <2>1. "metrics" \in c.otlp \cup c.grafana \/ c.prometheus \/ "net" \in c.print
    BY <1>4 DEF Validate, otelMetrics
  <2>2. "network" \in c.features
    BY <1>1, <1>4 DEF Enabled, Component
  <2>3. "net" \in c.print => "print" \in Exporters("net", c, o)
    BY <1>0 DEF Exporters
  <2>4. "metrics" \in c.otlp \cup c.grafana => "metrics" \in Exporters("net", c, o)
    BY <1>0, <2>2 DEF Exporters, Measured
  <2>5. c.prometheus => "prometheus" \in Exporters("net", c, o)
    BY <1>0, <1>1, <2>2 DEF Exporters, Measured
  <2> QED BY <1>4, <2>1, <2>3, <2>4, <2>5 DEF o
<1>5. CASE f = "stats"
  <2>1. "metrics" \in c.otlp \cup c.grafana \/ c.prometheus
    BY <1>1, <1>5 DEF Enabled, Component, otelMetrics
  <2>2. "stats" \in c.features
    BY <1>1, <1>5 DEF Enabled, Component
  <2>3. "metrics" \in c.otlp \cup c.grafana => "metrics" \in Exporters("stats", c, o)
    BY <1>0, <2>2 DEF Exporters, Measured
  <2>4. c.prometheus => "prometheus" \in Exporters("stats", c, o)
    BY <1>0, <1>1, <2>2 DEF Exporters, Measured
  <2> QED BY <1>5, <2>1, <2>3, <2>4 DEF o
<1>6. CASE f = "webhook"
  <2>1. c.webhook
    BY <1>1, <1>6 DEF Enabled, Component
  <2>2. "traces" \in c.otlp
    BY <2>1 DEF Validate
  <2>3. "traces" \in Exporters("webhook", c, o)
    BY <2>2 DEF Exporters
  <2> QED BY <1>6, <2>3 DEF o
<1> QED BY <1>2, <1>3, <1>4, <1>5, <1>6

(* Every step keeps what is known of the configuration.                    *)
LEMMA ConfigStep ==
    ASSUME ConfigInv, [BeylaNext]_beylaVars
    PROVE  ConfigInv'
<1>1. CASE LoadConfig
  <2>1. cfg \in Config /\ cfg' = normalizeConfig(cfg) /\ phase' = "loaded"
    BY <1>1 DEF LoadConfig, ConfigInv
  <2> QED BY <2>1, NormalizeType DEF ConfigInv
<1>2. CASE ValidateConfig
  BY <1>2 DEF ValidateConfig, ConfigInv
<1>3. CASE phase' = "exited" \/ phase' = "running"
  BY <1>3 DEF ConfigInv
<1>4. CASE UNCHANGED <<phase, cfg, obiCfg>>
  BY <1>4 DEF ConfigInv
<1>5. \/ LoadConfig \/ ValidateConfig \/ phase' = "exited" \/ phase' = "running"
      \/ UNCHANGED <<phase, cfg, obiCfg>>
  BY DEF BeylaNext, LoadRefused, ConfigRefused, StartRefused, exitEarly, RunBeyla,
     AgentFails, AgentStops, WebhookServes, WebhookGivesUp, agentBecomes, Terminate,
     GroupCancels, Exit, AppFails, AppFrame, FlowFrame, processVars, beylaVars
<1> QED BY <1>1, <1>2, <1>3, <1>4, <1>5

(* Every component that a valid configuration starts finds an exporter in  *)
(* its own copy of the configuration, but for an application with nothing  *)
(* but Grafana's traces, or with nothing but metrics when none of them is  *)
(* among the features: for every set of configurations.                    *)
THEOREM ComponentsExportCorrect == BeylaSpec => []ComponentsExport
<1>1. BeylaInit => ConfigInv
  BY ConfigsAssumption DEF BeylaInit, ConfigInv
<1>2. ConfigInv /\ [BeylaNext]_beylaVars => ConfigInv'
  BY ConfigStep
<1>3. ConfigInv => ComponentsExport
  BY ValidExports DEF ConfigInv, ComponentsExport
<1> QED BY <1>1, <1>2, <1>3, PTL DEF BeylaSpec

-----------------------------------------------------------------------------
(* The tracers.                                                            *)

(* Once Wait has returned only late tracers run, and the application       *)
(* component returns without an error only after that.                     *)
TracerInv ==
    /\ tracer \in [Tracers -> {"none", "found", "running", "unloaded"}]
    /\ stage = "ok" => waited
    /\ waited => \A t \in Tracers : tracer[t] = "running" => t \in late

(* Every step keeps TracerInv: the event loop, which nobody waits for, may *)
(* start a tracer after the wait, but then records it as late.             *)
LEMMA TracerStep ==
    ASSUME TracerInv, [BeylaNext]_beylaVars
    PROVE  TracerInv'
<1>1. ASSUME NEW t \in Tracers, FinderFinds(t) \/ TracerUnloads(t) PROVE TracerInv'
  <2>1. PICK x \in {"found", "unloaded"} : tracer' = [tracer EXCEPT ![t] = x]
    BY <1>1 DEF FinderFinds, TracerUnloads
  <2>2. UNCHANGED <<stage, waited, late>>
    BY <1>1 DEF FinderFinds, TracerUnloads
  <2> QED BY <2>1, <2>2 DEF TracerInv
<1>2. ASSUME NEW t \in Tracers, TracerStarts(t) PROVE TracerInv'
  <2>1. /\ tracer' = [tracer EXCEPT ![t] = "running"]
        /\ late \subseteq late'
        /\ waited => t \in late'
        /\ UNCHANGED <<stage, waited>>
    BY <1>2 DEF TracerStarts
  <2> QED BY <2>1 DEF TracerInv
<1>3. CASE TracersWaited
  BY <1>3 DEF TracersWaited, TracerInv
<1>4. CASE StopReturns
  BY <1>4 DEF StopReturns, tracerVars, TracerInv
<1>5. ASSUME UNCHANGED <<tracer, waited, late>>, stage' = "ok" => stage = "ok"
      PROVE  TracerInv'
  BY <1>5 DEF TracerInv
<1>6. CASE AppMain /\ ~StopReturns
  BY <1>5, <1>6 DEF AppMain, NewInstrumenter, FindAndInstrument, ReadAndForward, PipelineDone,
     tracerVars
<1>7. CASE LoopReturns
  BY <1>5, <1>7 DEF LoopReturns
<1>8. CASE AppFails
  BY <1>5, <1>8 DEF AppFails, AppFaults, NewFails, FinderFails, EventPipelineFails,
     StopTimesOut, tracerVars
<1>9. CASE RunBeyla
  <2>1. stage' \in {"new", "off"} /\ UNCHANGED tracerVars
    BY <1>9 DEF RunBeyla
  <2> QED BY <1>5, <2>1 DEF tracerVars
<1>10. ASSUME UNCHANGED <<stage, tracerVars>> PROVE TracerInv'
  BY <1>5, <1>10 DEF tracerVars
<1>11. CASE UNCHANGED beylaVars \/ FlowFrame \/ Terminate \/ GroupCancels
  BY <1>10, <1>11 DEF beylaVars, instrumenterVars, FlowFrame, Terminate, GroupCancels
<1>12. CASE LoadConfig \/ LoadRefused \/ ValidateConfig \/ ConfigRefused \/ StartRefused \/ Exit
  BY <1>10, <1>12 DEF LoadConfig, LoadRefused, ValidateConfig, ConfigRefused, StartRefused,
     exitEarly, Exit, instrumenterVars
<1>13. CASE \/ \E a \in Agents : AgentFails(a) \/ AgentStops(a)
            \/ WebhookServes \/ WebhookGivesUp
  BY <1>10, <1>13 DEF AgentFails, AgentStops, WebhookServes, WebhookGivesUp, agentBecomes,
     instrumenterVars
<1> QED BY <1>1, <1>2, <1>3, <1>4, <1>6, <1>7, <1>8, <1>9, <1>11, <1>12, <1>13
        DEF BeylaNext, AppNext

(* When the application component returns without an error no tracer is    *)
(* left loaded but those that the event loop started after the             *)
(* cancellation or after the wait.                                         *)
THEOREM CleanStopUnloadsCorrect == BeylaSpec => []CleanStopUnloads
<1>1. BeylaInit => TracerInv
  BY DEF BeylaInit, InstrumenterInit, TracerInv
<1>2. TracerInv /\ [BeylaNext]_beylaVars => TracerInv'
  BY TracerStep
<1>3. TracerInv => CleanStopUnloads
  BY DEF TracerInv, CleanStopUnloads
<1> QED BY <1>1, <1>2, <1>3, PTL DEF BeylaSpec

-----------------------------------------------------------------------------
(* The exit status.                                                        *)

(* a failure that no fault explains: the webhook server that gave up       *)
GaveUp == cancelled /\ agent["webhook"] = "error"

(* An error of a component is kept until the process exits, and each has   *)
(* its reason.                                                             *)
FaultInv ==
    /\ agent \in [Agents -> {"off", "waiting", "running", "ok", "error"}]
    /\ status \in {0, 0 - 1}
    /\ phase \in {"load", "loaded", "valid"} => faults = {} /\ status = 0
    /\ phase = "running" => /\ faults # {} => failed
                            /\ failed => faults # {} \/ GaveUp
    /\ ExitStatusIsTrue

(* A step of an agent or of the webhook server.                            *)
LEMMA FaultAgent ==
    ASSUME FaultInv, NEW a \in Agents, NEW from \in SUBSET {"waiting", "running"},
           NEW to \in {"running", "ok", "error"}, NEW fault,
           agentBecomes(a, from, to, fault),
           to = "error" => fault # {} \/ (a = "webhook" /\ cancelled),
           to # "error" => fault = {}
    PROVE  FaultInv'
<1>1. /\ phase = "running" /\ agent[a] \in from /\ agent' = [agent EXCEPT ![a] = to]
      /\ faults' = faults \cup fault
      /\ UNCHANGED <<cancelled, stage, phase, status>>
  BY DEF agentBecomes, instrumenterVars
<1>2. /\ agent' \in [Agents -> {"off", "waiting", "running", "ok", "error"}]
      /\ agent'[a] = to
      /\ \A b \in Agents \ {a} : agent'[b] = agent[b]
      /\ agent[a] # "error"
  BY <1>1 DEF FaultInv
<1>3. failed => failed'
  BY <1>1, <1>2 DEF failed
<1>4. fault # {} => failed'
  BY <1>2 DEF failed
<1>5. failed' => failed \/ to = "error"
  BY <1>1, <1>2 DEF failed
<1>6. GaveUp => GaveUp'
  <2>1. "webhook" \in Agents
    BY DEF Agents, Component
  <2> QED BY <1>1, <1>2, <2>1 DEF GaveUp
<1>7. to = "error" => faults' # {} \/ GaveUp'
  BY <1>1, <1>2 DEF GaveUp
<1> QED BY <1>1, <1>2, <1>3, <1>4, <1>5, <1>6, <1>7 DEF FaultInv, ExitStatusIsTrue

(* A step that changes neither the agents nor the faults, and by which the *)
(* application component does not enter or leave its error.                *)
LEMMA FaultFrame ==
    ASSUME FaultInv, UNCHANGED <<phase, agent, faults, status>>,
           (stage' = "error") <=> (stage = "error"), cancelled => cancelled'
    PROVE  FaultInv'
BY DEF FaultInv, ExitStatusIsTrue, failed, GaveUp

(* Every step keeps FaultInv.                                              *)
LEMMA FaultStep ==
    ASSUME FaultInv, [BeylaNext]_beylaVars
    PROVE  FaultInv'
<1>1. CASE LoadConfig \/ ValidateConfig
  <2>1. /\ phase \in {"load", "loaded"} /\ phase' \in {"loaded", "valid"}
        /\ UNCHANGED <<agent, faults, status>>
    BY <1>1 DEF LoadConfig, ValidateConfig
  <2> QED BY <2>1 DEF FaultInv, ExitStatusIsTrue
<1>2. CASE exitEarly
  BY <1>2 DEF exitEarly, FaultInv, ExitStatusIsTrue
<1>3. CASE RunBeyla
  <2>1. /\ phase = "valid" /\ phase' = "running" /\ stage' \in {"new", "off"}
        /\ agent' \in [Agents -> {"off", "waiting", "running"}]
        /\ UNCHANGED <<faults, status>>
    BY <1>3 DEF RunBeyla
  <2>2. agent' \in [Agents -> {"off", "waiting", "running", "ok", "error"}] /\ ~failed'
    BY <2>1 DEF failed
  <2> QED BY <2>1, <2>2 DEF FaultInv, ExitStatusIsTrue
<1>4. CASE \/ \E a \in Agents : AgentFails(a) \/ AgentStops(a)
           \/ WebhookServes \/ WebhookGivesUp
  <2>1. "webhook" \in Agents
    BY DEF Agents, Component
  <2>2. ASSUME NEW a \in Agents, AgentFails(a) PROVE FaultInv'
    BY <2>2, FaultAgent DEF AgentFails
  <2>3. ASSUME NEW a \in Agents, AgentStops(a) PROVE FaultInv'
    BY <2>3, FaultAgent DEF AgentStops
  <2>4. CASE WebhookServes
    BY <2>1, <2>4, FaultAgent DEF WebhookServes
  <2>5. CASE WebhookGivesUp
    BY <2>1, <2>5, FaultAgent DEF WebhookGivesUp
  <2> QED BY <1>4, <2>2, <2>3, <2>4, <2>5
<1>5. CASE Terminate \/ GroupCancels
  BY <1>5, FaultFrame DEF Terminate, GroupCancels, processVars
<1>6. CASE Exit
  <2>1. /\ phase = "running" /\ phase' = "exited"
        /\ status' = IF failed THEN 0 - 1 ELSE 0
        /\ UNCHANGED <<cancelled, agent, faults>>
    BY <1>6 DEF Exit, instrumenterVars
  <2> QED BY <2>1 DEF FaultInv, ExitStatusIsTrue, GaveUp
<1>7. CASE AppFails
  <2>1. /\ phase = "running" /\ phase' = phase /\ faults' = faults \cup {"app"}
        /\ stage' = "error" /\ UNCHANGED <<agent, status>>
    BY <1>7 DEF AppFails, AppFaults, NewFails, FinderFails, EventPipelineFails, StopTimesOut
  <2>2. failed' /\ faults' # {}
    BY <2>1 DEF failed
  <2> QED BY <2>1, <2>2 DEF FaultInv, ExitStatusIsTrue
<1>8. CASE AppNext /\ AppFrame
  <2>1. UNCHANGED <<phase, agent, faults, status>>
    BY <1>8 DEF AppFrame, processVars
  <2>2. UNCHANGED cancelled
    BY <1>8 DEF AppNext, AppMain, NewInstrumenter, FindAndInstrument, ReadAndForward,
       PipelineDone, StopReturns, FinderFinds, TracerStarts, TracerUnloads,
       LoopReturns, TracersWaited
  <2>3. stage' = stage \/ (stage # "error" /\ stage' # "error")
    BY <1>8 DEF AppNext, AppMain, NewInstrumenter, FindAndInstrument, ReadAndForward,
       PipelineDone, StopReturns, FinderFinds, TracerStarts, TracerUnloads,
       LoopReturns, TracersWaited
  <2> QED BY <2>1, <2>2, <2>3, FaultFrame
<1>9. CASE (ForwardNext \/ ObiNext) /\ FlowFrame
  <2>1. UNCHANGED <<phase, agent, faults, status, stage>>
    BY <1>9 DEF FlowFrame, AppFrame, processVars
  <2>2. UNCHANGED cancelled
    BY <1>9 DEF ForwardNext, ObiNext, ObiSends, ObiInterrupted, ObiStops, ObiDelivers, ObiTimesOut,
       ObiNodeReturns, TerminalReceives, ReaderReturns, SelectReceives, SelectDelivers,
       SelectTimesOut, ExporterStarts, ExporterFails
  <2> QED BY <2>1, <2>2, FaultFrame
<1>10. CASE UNCHANGED beylaVars
  BY <1>10, FaultFrame DEF beylaVars, instrumenterVars, processVars
<1> QED BY <1>1, <1>2, <1>3, <1>4, <1>5, <1>6, <1>7, <1>8, <1>9, <1>10
        DEF BeylaNext, LoadRefused, ConfigRefused, StartRefused

(* The exit status is -1 if and only if something went wrong, but for a    *)
(* webhook server that was still waiting for its TLS files.                *)
THEOREM ExitStatusIsTrueCorrect == BeylaSpec => []ExitStatusIsTrue
<1>1. BeylaInit => FaultInv
  BY DEF BeylaInit, FaultInv, ExitStatusIsTrue
<1>2. FaultInv /\ [BeylaNext]_beylaVars => FaultInv'
  BY FaultStep
<1>3. FaultInv => ExitStatusIsTrue
  BY DEF FaultInv
<1> QED BY <1>1, <1>2, <1>3, PTL DEF BeylaSpec
-----------------------------------------------------------------------------
(* The pipeline.                                                           *)


ExportReaders == {"select", "receiver"}
ExternReaders == {"connReceiver", "connExport"}

Elements(s) == {s[i] : i \in DOMAIN s}

(* what a reader has received or has in its channel                        *)
Got(n) == received[n] \o chans[n]

(* the subscribers that a call has not reached yet                         *)
Waiting(c) == Elements(c.left) \cup Elements(c.blocked)

NoCall == [msg |-> 0, left |-> <<>>, blocked |-> <<>>]

Distinct(s) == \A i, j \in DOMAIN s : s[i] = s[j] => i = j

(* a call under way has somebody to reach, and reaches nobody twice        *)
CallOK(c) ==
    /\ c \in [msg : Nat, left : Seq(Readers), blocked : Seq(Readers)]
    /\ Distinct(c.left) /\ Distinct(c.blocked)
    /\ Elements(c.left) \cap Elements(c.blocked) = {}
    /\ Waiting(c) = {} => c = NoCall

(* the batches among R of which SelectExternal passes something on         *)
Passed(R) == {b \in R : filter(b) # {}}

Increasing(s) == \A i, j \in 1..Len(s) : i < j => s[i] < s[j]

-----------------------------------------------------------------------------
(* The inductive invariant.                                                *)

FlowType ==
    /\ node \in [Nodes -> {"off", "built", "starting", "running", "returned"}]
    /\ obi \in {"off", "running", "stopped"}
    /\ sent \in Seq(Batches)
    /\ chans \in [Readers -> Seq(Nat)]
    /\ \A n \in Readers : Len(chans[n]) <= ChannelBufferLen
    /\ received \in [Readers -> Seq(Nat)]
    /\ externClosed \in BOOLEAN
    /\ CallOK(exportCall)
    /\ CallOK(externCall)

(* Nothing flows before the pipeline is started, and it is built and       *)
(* started once.                                                           *)
StartInv ==
    /\ phase \in {"load", "loaded", "valid"} => stage = "off" /\ obi = "off"
    /\ stage \in {"new", "find", "ready"} => obi = "off"
    /\ obi = "off" => /\ sent = <<>>
                      /\ \A n \in Readers : Got(n) = <<>>
                      /\ exportCall = NoCall
                      /\ externCall = NoCall

(* A reader of the export queue has the batches in their order: all of     *)
(* them, but for the one that is on its way to it and those that the end   *)
(* of the context took from it.                                            *)
ExportInv ==
    /\ exportCall # NoCall =>
         obi = "running" /\ exportCall.msg = Len(sent) /\ Len(sent) \in 1..Len(sent)
    /\ \A n \in Waiting(exportCall) :
         n \in ExportReaders /\ node[n] # "off" /\ Len(sent) \notin missed[n]
    /\ \A n \in Readers : /\ missed[n] \subseteq 1..Len(sent)
                          /\ missed[n] # {} => cancelled
    /\ \A n \in ExportReaders :
         /\ Increasing(Got(n))
         /\ node[n] = "off" => Got(n) = <<>>
         /\ node[n] # "off" =>
              Elements(Got(n)) = (1..Len(sent)) \ (missed[n] \cup
                                   (IF n \in Waiting(exportCall) THEN {Len(sent)} ELSE {}))

(* A reader of externalTraces has what SelectExternal passed on of the     *)
(* batches that it has received, but for the one that is on its way to it. *)
ExternInv ==
    LET R == Elements(received["select"])
    IN /\ externCall # NoCall =>
            externCall.msg \in Passed(R) /\ \A b \in R : b <= externCall.msg
       /\ \A n \in Waiting(externCall) : n \in ExternReaders /\ node[n] # "off"
       /\ \A n \in ExternReaders :
            /\ Increasing(Got(n))
            /\ node[n] = "off" => Got(n) = <<>>
            /\ node[n] # "off" =>
                 Elements(Got(n)) =
                   Passed(R) \ (IF n \in Waiting(externCall) THEN {externCall.msg} ELSE {})

FlowInv == FlowType /\ StartInv /\ ExportInv /\ ExternInv
-----------------------------------------------------------------------------
(* Sequences.                                                              *)

(* The elements of a sequence, its head and its tail.                      *)
LEMMA TailElements ==
    ASSUME NEW S, NEW s \in Seq(S), s # <<>>, Distinct(s)
    PROVE  /\ Head(s) = s[1]
           /\ Head(s) \in Elements(s)
           /\ Tail(s) \in Seq(S)
           /\ Distinct(Tail(s))
           /\ Elements(Tail(s)) = Elements(s) \ {Head(s)}
<1>1. /\ Len(s) \in Nat \ {0} /\ DOMAIN s = 1..Len(s) /\ Head(s) = s[1]
      /\ Tail(s) \in Seq(S) /\ Len(Tail(s)) = Len(s) - 1
      /\ DOMAIN Tail(s) = 1..(Len(s) - 1)
      /\ \A i \in 1..(Len(s) - 1) : Tail(s)[i] = s[i + 1]
  BY EmptySeq, HeadTailProperties, LenProperties
<1>2. Distinct(Tail(s))
  <2> SUFFICES ASSUME NEW i \in 1..(Len(s) - 1), NEW j \in 1..(Len(s) - 1),
                      Tail(s)[i] = Tail(s)[j]
               PROVE  i = j
    BY <1>1 DEF Distinct
  <2>1. s[i + 1] = s[j + 1] /\ i + 1 \in DOMAIN s /\ j + 1 \in DOMAIN s
    BY <1>1
  <2> QED BY <1>1, <2>1 DEF Distinct
<1>3. ASSUME NEW x \in Elements(Tail(s)) PROVE x \in Elements(s) \ {Head(s)}
  <2>1. PICK i \in 1..(Len(s) - 1) : x = s[i + 1]
    BY <1>1, <1>3 DEF Elements
  <2>2. i + 1 \in DOMAIN s /\ 1 \in DOMAIN s /\ i + 1 # 1
    BY <1>1
  <2> QED BY <1>1, <2>1, <2>2 DEF Elements, Distinct
<1>4. ASSUME NEW x \in Elements(s) \ {Head(s)} PROVE x \in Elements(Tail(s))
  <2>1. PICK i \in 1..Len(s) : x = s[i]
    BY <1>1, <1>4 DEF Elements
  <2>2. i # 1
    BY <1>1, <1>4, <2>1
  <2>3. i - 1 \in DOMAIN Tail(s) /\ Tail(s)[i - 1] = x
    BY <1>1, <2>1, <2>2
  <2> QED BY <2>3 DEF Elements
<1>5. Head(s) \in Elements(s)
  BY <1>1 DEF Elements
<1> QED BY <1>1, <1>2, <1>3, <1>4, <1>5

LEMMA ConcatNumbers ==
    ASSUME NEW r \in Seq(Nat), NEW c \in Seq(Nat), NEW t \in Seq(Nat)
    PROVE  (r \o c) \o t = r \o (c \o t)
<1>1. PICK S : S = Nat
  OBVIOUS
<1>2. r \in Seq(S) /\ c \in Seq(S) /\ t \in Seq(S)
  BY <1>1
<1> QED BY <1>2, ConcatAssociative

(* Reading the head of a channel moves it, and changes nothing in all.     *)
LEMMA TakeKeeps ==
    ASSUME NEW r \in Seq(Nat), NEW c \in Seq(Nat), c # <<>>
    PROVE  /\ Append(r, Head(c)) \in Seq(Nat)
           /\ Tail(c) \in Seq(Nat)
           /\ Append(r, Head(c)) \o Tail(c) = r \o c
<1>1. Head(c) \in Nat /\ Tail(c) \in Seq(Nat) /\ Append(r, Head(c)) \in Seq(Nat)
  BY HeadTailProperties, AppendProperties
<1>2. <<Head(c)>> \in Seq(Nat) /\ c = <<Head(c)>> \o Tail(c)
  <2>1. /\ Len(c) \in Nat \ {0} /\ Head(c) = c[1] /\ Len(Tail(c)) = Len(c) - 1
        /\ \A i \in 1..(Len(c) - 1) : Tail(c)[i] = c[i + 1]
    BY EmptySeq, HeadTailProperties
  <2>2. <<Head(c)>> \in Seq(Nat) /\ Len(<<Head(c)>>) = 1 /\ <<Head(c)>>[1] = c[1]
    BY <1>1, <2>1
  <2> DEFINE d == <<Head(c)>> \o Tail(c)
  <2>3. /\ d \in Seq(Nat) /\ Len(d) = 1 + Len(Tail(c))
        /\ \A i \in 1..(1 + Len(Tail(c))) :
             d[i] = IF i <= 1 THEN <<Head(c)>>[i] ELSE Tail(c)[i - 1]
    BY <1>1, <2>2, ConcatProperties
  <2> HIDE DEF d
  <2>4. Len(d) = Len(c) /\ \A i \in 1..Len(c) : d[i] = c[i]
    BY <2>1, <2>2, <2>3
  <2>5. d = c
    BY <2>3, <2>4, SeqEqual
  <2> QED BY <2>2, <2>5 DEF d
<1>3. Append(r, Head(c)) = r \o <<Head(c)>>
  BY <1>1, AppendIsConcat, Zenon
<1>4. (r \o <<Head(c)>>) \o Tail(c) = r \o (<<Head(c)>> \o Tail(c))
  <2>1. PICK t \in Seq(Nat), d \in Seq(Nat) : t = <<Head(c)>> /\ d = Tail(c)
    BY <1>1, <1>2
  <2>2. (r \o t) \o d = r \o (t \o d)
    BY ConcatNumbers, Zenon
  <2> QED BY <2>1, <2>2, Zenon
<1>5. Append(r, Head(c)) \o Tail(c) = r \o c
  BY <1>2, <1>3, <1>4, Zenon
<1> QED BY <1>1, <1>5, Zenon

(* A message that enters a channel is the last of what the reader has.     *)
LEMMA EnterAppends ==
    ASSUME NEW r \in Seq(Nat), NEW c \in Seq(Nat), NEW m \in Nat
    PROVE  /\ Append(c, m) \in Seq(Nat)
           /\ Len(Append(c, m)) = Len(c) + 1
           /\ r \o c \in Seq(Nat)
           /\ r \o Append(c, m) = Append(r \o c, m)
<1>1. /\ Append(c, m) \in Seq(Nat) /\ Len(Append(c, m)) = Len(c) + 1
      /\ r \o c \in Seq(Nat) /\ <<m>> \in Seq(Nat)
  BY AppendProperties, ConcatProperties
<1>2. Append(c, m) = c \o <<m>> /\ Append(r \o c, m) = (r \o c) \o <<m>>
  BY <1>1, AppendIsConcat, Zenon
<1>3. (r \o c) \o <<m>> = r \o (c \o <<m>>)
  <2>1. PICK t \in Seq(Nat) : t = <<m>>
    BY <1>1
  <2>2. (r \o c) \o t = r \o (c \o t)
    BY ConcatNumbers, Zenon
  <2> QED BY <2>1, <2>2, Zenon
<1>4. r \o Append(c, m) = Append(r \o c, m)
  BY <1>2, <1>3, Zenon
<1> QED BY <1>1, <1>4, Zenon

(* The elements of a sequence with one more at its end.                    *)
LEMMA AppendElements ==
    ASSUME NEW S, NEW s \in Seq(S), NEW x \in S
    PROVE  Elements(Append(s, x)) = Elements(s) \cup {x}
<1>1. /\ Len(s) \in Nat /\ DOMAIN s = 1..Len(s)
      /\ DOMAIN Append(s, x) = 1..(Len(s) + 1)
      /\ \A i \in 1..Len(s) : Append(s, x)[i] = s[i]
      /\ Append(s, x)[Len(s) + 1] = x
  BY AppendProperties, LenProperties
<1>2. 1..(Len(s) + 1) = (1..Len(s)) \cup {Len(s) + 1}
  BY <1>1
<1> QED BY <1>1, <1>2 DEF Elements

(* A sequence that increases goes on increasing with a greater number.     *)
LEMMA AppendIncreases ==
    ASSUME NEW g \in Seq(Nat), NEW k \in Nat, Increasing(g), \A x \in Elements(g) : x < k
    PROVE  Increasing(Append(g, k)) /\ Elements(Append(g, k)) = Elements(g) \cup {k}
<1>1. /\ Len(g) \in Nat /\ DOMAIN g = 1..Len(g)
      /\ Len(Append(g, k)) = Len(g) + 1
      /\ \A i \in 1..Len(g) : Append(g, k)[i] = g[i] /\ g[i] \in Nat
      /\ Append(g, k)[Len(g) + 1] = k
  BY AppendProperties, LenProperties, ElementOfSeq
<1>2. \A i \in 1..Len(g) : g[i] < k
  BY <1>1 DEF Elements
<1>3. ASSUME NEW i \in 1..(Len(g) + 1), NEW j \in 1..(Len(g) + 1), i < j
      PROVE  Append(g, k)[i] < Append(g, k)[j]
  <2>1. i \in 1..Len(g)
    BY <1>1, <1>3
  <2>2. CASE j \in 1..Len(g)
    BY <1>1, <1>3, <2>1, <2>2 DEF Increasing
  <2>3. CASE j = Len(g) + 1
    BY <1>1, <1>2, <2>1, <2>3
  <2> QED BY <1>1, <2>2, <2>3
<1>4. Elements(Append(g, k)) = Elements(g) \cup {k}
  BY AppendElements
<1> QED BY <1>1, <1>3, <1>4 DEF Increasing

(* The elements of a concatenation.                                        *)
LEMMA ConcatElements ==
    ASSUME NEW S, NEW s \in Seq(S), NEW t \in Seq(S)
    PROVE  Elements(s \o t) = Elements(s) \cup Elements(t)
<1> DEFINE p == s \o t
<1>1. /\ p \in Seq(S) /\ Len(p) = Len(s) + Len(t)
      /\ Len(s) \in Nat /\ Len(t) \in Nat
      /\ \A i \in 1..(Len(s) + Len(t)) :
           p[i] = IF i <= Len(s) THEN s[i] ELSE t[i - Len(s)]
      /\ DOMAIN p = 1..Len(p) /\ DOMAIN s = 1..Len(s) /\ DOMAIN t = 1..Len(t)
  BY ConcatProperties, LenProperties
<1> HIDE DEF p
<1>2. PICK k \in Nat, l \in Nat : k = Len(s) /\ l = Len(t)
  BY <1>1
<1>3. /\ DOMAIN p = 1..(k + l) /\ DOMAIN s = 1..k /\ DOMAIN t = 1..l
      /\ \A i \in 1..(k + l) : p[i] = IF i <= k THEN s[i] ELSE t[i - k]
  BY <1>1, <1>2
<1>4. ASSUME NEW x \in Elements(p) PROVE x \in Elements(s) \cup Elements(t)
  <2>1. PICK i \in 1..(k + l) : x = p[i]
    BY <1>3, <1>4 DEF Elements
  <2>2. CASE i <= k
    BY <1>3, <2>1, <2>2 DEF Elements
  <2>3. CASE ~(i <= k)
    <3>1. i - k \in 1..l /\ x = t[i - k]
      BY <1>3, <2>1, <2>3
    <3> QED BY <1>3, <3>1 DEF Elements
  <2> QED BY <2>2, <2>3
<1>5. ASSUME NEW i \in 1..k PROVE s[i] \in Elements(p)
  <2>1. i \in 1..(k + l) /\ p[i] = s[i]
    BY <1>3, <1>5
  <2> QED BY <1>3, <2>1 DEF Elements
<1>6. ASSUME NEW i \in 1..l PROVE t[i] \in Elements(p)
  <2>1. k + i \in 1..(k + l) /\ ~(k + i <= k) /\ (k + i) - k = i
    BY <1>6
  <2>2. p[k + i] = t[i]
    BY <1>3, <2>1
  <2> QED BY <1>3, <2>1, <2>2 DEF Elements
<1>7. Elements(s) \subseteq Elements(p) /\ Elements(t) \subseteq Elements(p)
  BY <1>3, <1>5, <1>6 DEF Elements
<1> QED BY <1>4, <1>7 DEF p
-----------------------------------------------------------------------------
(* The calls of Send.                                                      *)

(* Sequences of length 0 and 1.                                            *)
LEMMA ShortSequence ==
    ASSUME NEW S, NEW s \in Seq(S)
    PROVE  /\ Len(s) \in Nat
           /\ s = <<>> <=> Len(s) = 0
           /\ s # <<>> => (Tail(s) = <<>> <=> Len(s) = 1)
<1>1. Len(s) \in Nat /\ (s = <<>> <=> Len(s) = 0)
  BY EmptySeq, LenProperties
<1>2. ASSUME s # <<>> PROVE Tail(s) = <<>> <=> Len(s) = 1
  <2>1. Tail(s) \in Seq(S) /\ Len(Tail(s)) = Len(s) - 1
    BY <1>2, HeadTailProperties
  <2>2. Tail(s) = <<>> <=> Len(Tail(s)) = 0
    BY <2>1, EmptySeq
  <2> QED BY <1>1, <2>1, <2>2
<1> QED BY <1>1, <1>2

(* The length and the head of a concatenation.                             *)
LEMMA ConcatHead ==
    ASSUME NEW S, NEW s \in Seq(S), NEW t \in Seq(S), s # <<>> \/ t # <<>>
    PROVE  /\ Len(s \o t) = Len(s) + Len(t)
           /\ Head(s \o t) = IF s # <<>> THEN Head(s) ELSE Head(t)
<1>1. Len(s \o t) = Len(s) + Len(t)
  BY ConcatProperties
<1>2. CASE s = <<>>
  BY <1>1, <1>2, ConcatEmptySeq
<1>3. CASE s # <<>>
  <2> DEFINE p == s \o t
  <2>1. /\ p \in Seq(S) /\ Len(p) = Len(s) + Len(t)
        /\ Len(s) \in Nat \ {0} /\ Len(t) \in Nat
        /\ \A i \in 1..(Len(s) + Len(t)) :
             p[i] = IF i <= Len(s) THEN s[i] ELSE t[i - Len(s)]
    BY <1>3, ConcatProperties, LenProperties, EmptySeq
  <2> HIDE DEF p
  <2>2. Head(p) = p[1] /\ Head(s) = s[1]
    BY <1>3, <2>1
  <2>3. p[1] = s[1]
    BY <2>1
  <2>4. Head(p) = Head(s)
    BY <2>2, <2>3
  <2> QED BY <1>1, <1>3, <2>4 DEF p
<1> QED BY <1>2, <1>3

(* the subscriber that is next                                             *)
First(c) == IF c.left # <<>> THEN Head(c.left) ELSE Head(c.blocked)

(* a call after a delivery, and after a timeout                            *)
Delivered(c) == IF Len(c.left) + Len(c.blocked) = 1 THEN NoCall
                ELSE IF c.left # <<>> THEN [c EXCEPT !.left = Tail(@)]
                ELSE [c EXCEPT !.blocked = Tail(@)]
PutOff(c) == [c EXCEPT !.left = Tail(@), !.blocked = <<Head(c.left)>>]

(* A delivery reaches one of the subscribers that were waiting, and leaves *)
(* the others.                                                             *)
LEMMA DeliverCall ==
    ASSUME NEW c, CallOK(c), c # NoCall
    PROVE  /\ First(c) \in Waiting(c)
           /\ CallOK(Delivered(c))
           /\ Waiting(Delivered(c)) = Waiting(c) \ {First(c)}
           /\ Delivered(c) # NoCall => Delivered(c).msg = c.msg
<1> DEFINE h == First(c)
           d == Delivered(c)
<1>0. /\ h = IF c.left # <<>> THEN Head(c.left) ELSE Head(c.blocked)
      /\ d = IF Len(c.left) + Len(c.blocked) = 1 THEN NoCall
             ELSE IF c.left # <<>> THEN [c EXCEPT !.left = Tail(@)]
             ELSE [c EXCEPT !.blocked = Tail(@)]
  BY DEF First, Delivered
<1> SUFFICES /\ h \in Waiting(c)
             /\ CallOK(d)
             /\ Waiting(d) = Waiting(c) \ {h}
             /\ d # NoCall => d.msg = c.msg
  OBVIOUS
<1> HIDE DEF h, d
<1>9. PICK length : length = Len(c.left) + Len(c.blocked)
  OBVIOUS
<1>1. /\ c \in [msg : Nat, left : Seq(Readers), blocked : Seq(Readers)]
      /\ c.left \in Seq(Readers) /\ c.blocked \in Seq(Readers)
      /\ Distinct(c.left) /\ Distinct(c.blocked)
      /\ Elements(c.left) \cap Elements(c.blocked) = {}
  BY DEF CallOK
<1>2. Len(c.left) \in Nat /\ Len(c.blocked) \in Nat
  BY <1>1, LenProperties
<1>3. Elements(<<>>) = {} /\ <<>> \in Seq(Readers) /\ Distinct(<<>>)
  BY DEF Elements, Distinct
<1>4. c.left # <<>> \/ c.blocked # <<>>
  BY <1>3 DEF CallOK, Waiting
<1>6. NoCall.left = <<>> /\ NoCall.blocked = <<>> /\ Waiting(NoCall) = {} /\ CallOK(NoCall)
  BY <1>3 DEF NoCall, Waiting, CallOK
<1>7. CASE c.left # <<>>
  <2>1. /\ h = Head(c.left) /\ h \in Elements(c.left) /\ h \notin Elements(c.blocked)
        /\ Tail(c.left) \in Seq(Readers) /\ Distinct(Tail(c.left))
        /\ Elements(Tail(c.left)) = Elements(c.left) \ {h}
    BY <1>0, <1>1, <1>7, TailElements
  <2>2. CASE length = 1
    <3>0. Len(c.left) # 0
      BY <1>1, <1>7, ShortSequence
    <3>1. Len(c.left) = 1 /\ Len(c.blocked) = 0
      <4>1. \A x, y \in Nat : x # 0 /\ x + y = 1 => x = 1 /\ y = 0
        OBVIOUS
      <4>2. Len(c.left) + Len(c.blocked) = 1
        BY <1>9, <2>2
      <4> QED BY <1>2, <3>0, <4>1, <4>2
    <3>2. c.blocked = <<>> /\ Tail(c.left) = <<>>
      BY <1>1, <1>7, <3>1, ShortSequence
    <3>3. Waiting(c) = {h}
      BY <1>3, <2>1, <3>2 DEF Waiting
    <3> QED BY <1>0, <1>6, <1>9, <2>1, <2>2, <3>3 DEF Waiting
  <2>3. CASE length # 1
    <3>1. d = [c EXCEPT !.left = Tail(@)]
      BY <1>0, <1>7, <1>9, <2>3
    <3>2. d.left = Tail(c.left) /\ d.blocked = c.blocked /\ d.msg = c.msg
      BY <1>1, <3>1
    <3>3. d \in [msg : Nat, left : Seq(Readers), blocked : Seq(Readers)]
      BY <1>1, <2>1, <3>1
    <3>4. Waiting(d) = Waiting(c) \ {h}
      BY <2>1, <3>2 DEF Waiting
    <3>5. Waiting(d) # {}
      <4>1. CASE c.blocked # <<>>
        BY <1>1, <3>2, <4>1, TailElements DEF Waiting
      <4>2. CASE c.blocked = <<>>
        <5>1. Len(Tail(c.left)) # 0
          BY <1>1, <1>2, <1>7, <1>9, <2>3, <4>2, HeadTailProperties, EmptySeq
        <5>2. Tail(c.left) # <<>>
          BY <5>1, EmptySeq
        <5> QED BY <2>1, <3>2, <5>2, TailElements DEF Waiting
      <4> QED BY <4>1, <4>2
    <3> QED BY <1>1, <2>1, <3>2, <3>3, <3>4, <3>5 DEF CallOK, Waiting
  <2> QED BY <2>2, <2>3
<1>8. CASE c.left = <<>>
  <2>0. c.blocked # <<>> /\ Len(c.left) = 0
    BY <1>4, <1>8, EmptySeq
  <2>1. /\ h = Head(c.blocked) /\ h \in Elements(c.blocked)
        /\ Tail(c.blocked) \in Seq(Readers) /\ Distinct(Tail(c.blocked))
        /\ Elements(Tail(c.blocked)) = Elements(c.blocked) \ {h}
    BY <1>0, <1>1, <1>8, <2>0, TailElements
  <2>2. CASE length = 1
    <3>1. Len(c.blocked) = 1
      BY <1>2, <1>9, <2>0, <2>2
    <3>2. Tail(c.blocked) = <<>>
      BY <1>1, <2>0, <3>1, ShortSequence
    <3>3. Waiting(c) = {h}
      BY <1>3, <1>8, <2>1, <3>2 DEF Waiting
    <3> QED BY <1>0, <1>6, <1>9, <2>1, <2>2, <3>3 DEF Waiting
  <2>3. CASE length # 1
    <3>1. d = [c EXCEPT !.blocked = Tail(@)]
      BY <1>0, <1>8, <1>9, <2>3
    <3>2. d.left = c.left /\ d.blocked = Tail(c.blocked) /\ d.msg = c.msg
      BY <1>1, <3>1
    <3>3. d \in [msg : Nat, left : Seq(Readers), blocked : Seq(Readers)]
      BY <1>1, <2>1, <3>1
    <3>4. Waiting(d) = Waiting(c) \ {h}
      BY <1>3, <1>8, <2>1, <3>2 DEF Waiting
    <3>5. Waiting(d) # {}
      <4>1. Len(Tail(c.blocked)) # 0
        BY <1>1, <1>2, <1>9, <2>0, <2>3, HeadTailProperties, EmptySeq
      <4>2. Tail(c.blocked) # <<>>
        BY <4>1, EmptySeq
      <4> QED BY <2>1, <3>2, <4>2, TailElements DEF Waiting
    <3> QED BY <1>1, <1>3, <1>8, <2>1, <3>2, <3>3, <3>4, <3>5 DEF CallOK, Waiting
  <2> QED BY <2>2, <2>3
<1> QED BY <1>7, <1>8

(* The timeout puts a subscriber off: the same ones are waiting.           *)
LEMMA PutOffCall ==
    ASSUME NEW c, CallOK(c), c.left # <<>>, c.blocked = <<>>
    PROVE  /\ CallOK(PutOff(c))
           /\ Waiting(PutOff(c)) = Waiting(c)
           /\ PutOff(c).msg = c.msg
           /\ c # NoCall
<1> SUFFICES ASSUME NEW d, d = [c EXCEPT !.left = Tail(@), !.blocked = <<Head(c.left)>>]
               PROVE  /\ CallOK(d)
                      /\ Waiting(d) = Waiting(c)
                      /\ d.msg = c.msg
                      /\ c # NoCall
  BY DEF PutOff
<1> DEFINE h == Head(c.left)
<1>1. /\ c \in [msg : Nat, left : Seq(Readers), blocked : Seq(Readers)]
      /\ c.left \in Seq(Readers) /\ Distinct(c.left)
  BY DEF CallOK
<1>2. /\ h \in Elements(c.left) /\ h \in Readers
      /\ Tail(c.left) \in Seq(Readers) /\ Distinct(Tail(c.left))
      /\ Elements(Tail(c.left)) = Elements(c.left) \ {h}
  BY <1>1, TailElements, HeadTailProperties
<1>3. Elements(<<>>) = {}
  BY DEF Elements
<1>4. <<h>> \in Seq(Readers) /\ Elements(<<h>>) = {h} /\ Distinct(<<h>>)
  BY <1>2 DEF Elements, Distinct
<1>5. /\ d \in [msg : Nat, left : Seq(Readers), blocked : Seq(Readers)]
      /\ d.left = Tail(c.left) /\ d.blocked = <<h>> /\ d.msg = c.msg
  BY <1>1, <1>2, <1>4
<1>6. Waiting(d) = Waiting(c) /\ Waiting(d) # {}
  BY <1>2, <1>3, <1>4, <1>5 DEF Waiting
<1>7. CallOK(d)
  BY <1>2, <1>4, <1>5, <1>6 DEF CallOK
<1>8. Waiting(NoCall) = {}
  BY <1>3 DEF Waiting, NoCall
<1> QED BY <1>5, <1>6, <1>7, <1>8

(* a call that starts                                                      *)
Started(m, dsts) == IF dsts = <<>> THEN NoCall
                    ELSE [msg |-> m, left |-> dsts, blocked |-> <<>>]

(* A call starts with all subscribers.                                     *)
LEMMA NewCall ==
    ASSUME NEW m \in Nat, NEW a \in Readers, NEW b \in Readers, a # b,
           NEW d, d = Started(m, subscribed(a) \o subscribed(b))
    PROVE  /\ CallOK(d)
           /\ Waiting(d) = {n \in {a, b} : node[n] # "off"}
           /\ d # NoCall => d.msg = m
<1> SUFFICES ASSUME NEW dsts, dsts = subscribed(a) \o subscribed(b),
                    d = IF dsts = <<>> THEN NoCall
                                 ELSE [msg |-> m, left |-> dsts, blocked |-> <<>>]
               PROVE  /\ CallOK(d)
                      /\ Waiting(d) = {n \in {a, b} : node[n] # "off"}
                      /\ d # NoCall => d.msg = m
  BY DEF Started
<1>1. Elements(<<>>) = {} /\ <<>> \in Seq(Readers) /\ Distinct(<<>>)
  BY DEF Elements, Distinct
<1>2. /\ dsts \in Seq(Readers) /\ Distinct(dsts)
      /\ Elements(dsts) = {n \in {a, b} : node[n] # "off"}
  <2>1. CASE node[a] = "off" /\ node[b] = "off"
    BY <1>1, <2>1 DEF subscribed
  <2>2. CASE node[a] = "off" /\ node[b] # "off"
    <3>1. dsts = <<b>>
      BY <2>2, ConcatEmptySeq DEF subscribed
    <3> QED BY <2>2, <3>1 DEF Elements, Distinct
  <2>3. CASE node[a] # "off" /\ node[b] = "off"
    <3>1. dsts = <<a>>
      BY <2>3, ConcatEmptySeq DEF subscribed
    <3> QED BY <2>3, <3>1 DEF Elements, Distinct
  <2>4. CASE node[a] # "off" /\ node[b] # "off"
    <3>1. dsts = <<a>> \o <<b>>
      BY <2>4 DEF subscribed
    <3>2. <<a>> \in Seq(Readers) /\ <<b>> \in Seq(Readers)
      OBVIOUS
    <3>3. /\ dsts \in Seq(Readers) /\ Len(dsts) = Len(<<a>>) + Len(<<b>>)
          /\ \A i \in 1..(Len(<<a>>) + Len(<<b>>)) :
               dsts[i] = IF i <= Len(<<a>>) THEN <<a>>[i] ELSE <<b>>[i - Len(<<a>>)]
      BY <3>1, <3>2, ConcatProperties
    <3>4. Len(dsts) = 2 /\ dsts[1] = a /\ dsts[2] = b
      BY <3>3
    <3>5. DOMAIN dsts = {1, 2}
      BY <3>3, <3>4, LenProperties
    <3> QED BY <2>4, <3>3, <3>4, <3>5 DEF Elements, Distinct
  <2> QED BY <2>1, <2>2, <2>3, <2>4
<1>3. CASE dsts = <<>>
  BY <1>1, <1>2, <1>3 DEF NoCall, CallOK, Waiting
<1>4. CASE dsts # <<>>
  <2>1. /\ d \in [msg : Nat, left : Seq(Readers), blocked : Seq(Readers)]
        /\ d.left = dsts /\ d.blocked = <<>> /\ d.msg = m
    BY <1>1, <1>2, <1>4
  <2>2. Waiting(d) # {}
    BY <1>2, <1>4, <2>1, TailElements DEF Waiting
  <2> QED BY <1>1, <1>2, <2>1, <2>2 DEF CallOK, Waiting
<1> QED BY <1>3, <1>4
-----------------------------------------------------------------------------
(* What the steps do to the channels.                                      *)

(* What a reader has got, by its index.                                    *)
LEMMA GotType ==
    ASSUME FlowType, NEW n \in Readers
    PROVE  /\ received[n] \in Seq(Nat) /\ chans[n] \in Seq(Nat) /\ Got(n) \in Seq(Nat)
           /\ Len(received[n]) \in Nat /\ Len(chans[n]) \in Nat
           /\ Len(Got(n)) = Len(received[n]) + Len(chans[n])
           /\ DOMAIN Got(n) = 1..Len(Got(n))
           /\ \A i \in 1..Len(received[n]) : Got(n)[i] = received[n][i]
           /\ \A i \in 1..Len(chans[n]) : Got(n)[Len(received[n]) + i] = chans[n][i]
<1>1. received[n] \in Seq(Nat) /\ chans[n] \in Seq(Nat)
  BY DEF FlowType
<1> DEFINE r == received[n]
           c == chans[n]
           g == Got(n)
<1>2. /\ g \in Seq(Nat) /\ Len(g) = Len(r) + Len(c)
      /\ \A i \in 1..(Len(r) + Len(c)) : g[i] = IF i <= Len(r) THEN r[i] ELSE c[i - Len(r)]
      /\ Len(r) \in Nat /\ Len(c) \in Nat /\ DOMAIN g = 1..Len(g)
  BY <1>1, ConcatProperties, LenProperties DEF Got
<1> HIDE DEF r, c, g
<1>3. PICK k \in Nat, l \in Nat : k = Len(r) /\ l = Len(c)
  BY <1>2
<1>4. \A i \in 1..(k + l) : g[i] = IF i <= k THEN r[i] ELSE c[i - k]
  BY <1>2, <1>3
<1>5. ASSUME NEW i \in 1..k PROVE g[i] = r[i]
  BY <1>4, <1>5
<1>6. ASSUME NEW i \in 1..l PROVE g[k + i] = c[i]
  <2>1. k + i \in 1..(k + l) /\ ~(k + i <= k) /\ (k + i) - k = i
    BY <1>6
  <2> QED BY <1>4, <2>1
<1> QED BY <1>1, <1>2, <1>3, <1>5, <1>6 DEF r, c, g

(* A message enters the channel of one reader.                             *)
LEMMA EnterChannel ==
    ASSUME FlowType, NEW h \in Readers, NEW m \in Nat,
           Len(chans[h]) < ChannelBufferLen,
           chans' = [chans EXCEPT ![h] = Append(@, m)], received' = received
    PROVE  /\ chans' \in [Readers -> Seq(Nat)]
           /\ \A n \in Readers : Len(chans'[n]) <= ChannelBufferLen
           /\ Got(h)' = Append(Got(h), m)
           /\ \A n \in Readers \ {h} : Got(n)' = Got(n)
<1>1. received[h] \in Seq(Nat) /\ chans[h] \in Seq(Nat) /\ Len(chans[h]) \in Nat
  BY GotType
<1>2. /\ Append(chans[h], m) \in Seq(Nat) /\ Len(Append(chans[h], m)) = Len(chans[h]) + 1
      /\ received[h] \o Append(chans[h], m) = Append(received[h] \o chans[h], m)
  BY <1>1, EnterAppends
<1>3. PICK x \in Seq(Nat) : x = Append(chans[h], m)
  BY <1>2
<1>4. /\ chans' = [chans EXCEPT ![h] = x] /\ chans'[h] = x
      /\ \A n \in Readers \ {h} : chans'[n] = chans[n]
      /\ chans' \in [Readers -> Seq(Nat)]
  BY <1>3 DEF FlowType
<1>5. Len(x) <= ChannelBufferLen
  BY <1>1, <1>2, <1>3, ForwardAssumption
<1>6. \A n \in Readers : Len(chans'[n]) <= ChannelBufferLen
  BY <1>4, <1>5 DEF FlowType
<1>7. Got(h)' = Append(Got(h), m)
  BY <1>2, <1>3, <1>4 DEF Got
<1> QED BY <1>4, <1>6, <1>7 DEF Got

(* A reader takes the head of its channel.                                 *)
LEMMA TakeChannel ==
    ASSUME FlowType, NEW n \in Readers, take(n)
    PROVE  /\ chans' \in [Readers -> Seq(Nat)]
           /\ \A m \in Readers : Len(chans'[m]) <= ChannelBufferLen
           /\ received' \in [Readers -> Seq(Nat)]
           /\ \A m \in Readers : Got(m)' = Got(m)
           /\ \A m \in Readers \ {n} : received'[m] = received[m]
           /\ received'[n] = Append(received[n], Head(chans[n]))
           /\ Len(received'[n]) = Len(received[n]) + 1
           /\ Head(chans[n]) \in Nat
           /\ Len(received[n]) + 1 \in 1..Len(Got(n))
           /\ Head(chans[n]) = Got(n)[Len(received[n]) + 1]
           /\ Got(n) # <<>>
<1>1. /\ chans[n] # <<>>
      /\ received' = [received EXCEPT ![n] = Append(@, Head(chans[n]))]
      /\ chans' = [chans EXCEPT ![n] = Tail(@)]
  BY DEF take
<1>2. received[n] \in Seq(Nat) /\ chans[n] \in Seq(Nat) /\ Len(chans[n]) \in Nat \ {0}
  BY <1>1, GotType, ShortSequence
<1>3. /\ Tail(chans[n]) \in Seq(Nat) /\ Len(Tail(chans[n])) = Len(chans[n]) - 1
      /\ Head(chans[n]) \in Nat /\ Append(received[n], Head(chans[n])) \in Seq(Nat)
      /\ Len(Append(received[n], Head(chans[n]))) = Len(received[n]) + 1
      /\ Append(received[n], Head(chans[n])) \o Tail(chans[n]) = received[n] \o chans[n]
  <2>1. /\ Tail(chans[n]) \in Seq(Nat) /\ Len(Tail(chans[n])) = Len(chans[n]) - 1
        /\ Head(chans[n]) \in Nat
    BY <1>1, <1>2, HeadTailProperties
  <2>2. /\ Append(received[n], Head(chans[n])) \in Seq(Nat)
        /\ Len(Append(received[n], Head(chans[n]))) = Len(received[n]) + 1
    BY <1>2, <2>1, AppendProperties
  <2>3. Append(received[n], Head(chans[n])) \o Tail(chans[n]) = received[n] \o chans[n]
    BY <1>1, <1>2, TakeKeeps
  <2> QED BY <2>1, <2>2, <2>3
<1>4. PICK x \in Seq(Nat) : x = Append(received[n], Head(chans[n]))
  BY <1>3
<1>5. PICK y \in Seq(Nat) : y = Tail(chans[n])
  BY <1>3
<1>6. /\ received' = [received EXCEPT ![n] = x] /\ received'[n] = x
      /\ received' \in [Readers -> Seq(Nat)]
      /\ \A m \in Readers \ {n} : received'[m] = received[m]
  BY <1>1, <1>4 DEF FlowType
<1>7. /\ chans' = [chans EXCEPT ![n] = y] /\ chans'[n] = y
      /\ chans' \in [Readers -> Seq(Nat)]
      /\ \A m \in Readers \ {n} : chans'[m] = chans[m]
  BY <1>1, <1>5 DEF FlowType
<1>8. Len(y) <= ChannelBufferLen
  <2>1. Len(chans[n]) <= ChannelBufferLen
    BY DEF FlowType
  <2> QED BY <1>2, <1>3, <1>5, <2>1, ForwardAssumption
<1>9. \A m \in Readers : Len(chans'[m]) <= ChannelBufferLen
  BY <1>7, <1>8 DEF FlowType
<1>10. \A m \in Readers : Got(m)' = Got(m)
  <2>1. Got(n)' = Got(n)
    BY <1>3, <1>4, <1>5, <1>6, <1>7 DEF Got
  <2>2. \A m \in Readers \ {n} : Got(m)' = Got(m)
    BY <1>6, <1>7 DEF Got
  <2> QED BY <2>1, <2>2
<1>11. /\ Len(received[n]) + 1 \in 1..Len(Got(n))
       /\ Got(n)[Len(received[n]) + 1] = chans[n][1]
  <2>1. PICK k \in Nat, l \in Nat \ {0} : k = Len(received[n]) /\ l = Len(chans[n])
    BY <1>2, GotType
  <2>2. Len(Got(n)) = k + l /\ \A i \in 1..l : Got(n)[k + i] = chans[n][i]
    BY <2>1, GotType
  <2>3. 1 \in 1..l /\ k + 1 \in 1..(k + l)
    OBVIOUS
  <2> QED BY <2>1, <2>2, <2>3
<1>12. Head(chans[n]) = chans[n][1]
  BY <1>1, <1>2
<1>13. Got(n) # <<>>
  BY <1>11, GotType, ShortSequence
<1> QED BY <1>3, <1>4, <1>6, <1>7, <1>9, <1>10, <1>11, <1>12, <1>13

(* A batch more does not change what is passed on of the earlier ones.     *)
LEMMA FilterKept ==
    ASSUME sent \in Seq(Batches), NEW batch \in Batches, sent' = Append(sent, batch),
           NEW b \in 1..Len(sent)
    PROVE  sent'[b] = sent[b] /\ filter(b)' = filter(b)
<1>1. sent'[b] = sent[b]
  BY AppendProperties
<1> QED BY <1>1 DEF filter

(* All that a reader has got is of the batches that were sent; what        *)
(* SelectExternal has received is part of what it has got.                 *)
LEMMA GotBound ==
    ASSUME FlowInv, NEW n \in Readers
    PROVE  /\ \A i \in 1..Len(Got(n)) : Got(n)[i] \in 1..Len(sent)
           /\ Elements(Got(n)) \subseteq 1..Len(sent)
           /\ Elements(received["select"]) \subseteq 1..Len(sent)
           /\ Elements(received["select"]) \subseteq Elements(Got("select"))
<1>1. "select" \in Readers /\ "select" \in ExportReaders /\ FlowType
  BY DEF Readers, ExportReaders, FlowInv
<1>2. Elements(<<>>) = {}
  BY DEF Elements
<1>3. ASSUME NEW m \in ExportReaders PROVE Elements(Got(m)) \subseteq 1..Len(sent)
  <2>1. m \in Readers
    BY <1>3 DEF ExportReaders, Readers
  <2>2. CASE node[m] = "off"
    <3>1. Got(m) = <<>>
      BY <1>3, <2>2 DEF FlowInv, ExportInv
    <3> QED BY <1>2, <3>1
  <2>3. CASE node[m] # "off"
    BY <1>3, <2>3 DEF FlowInv, ExportInv
  <2> QED BY <2>2, <2>3
<1>4. Elements(received["select"]) \subseteq Elements(Got("select"))
  <2>1. received["select"] \in Seq(Nat) /\ chans["select"] \in Seq(Nat)
    BY <1>1, GotType
  <2> QED BY <2>1, ConcatElements DEF Got
<1>5. Elements(received["select"]) \subseteq 1..Len(sent)
  BY <1>1, <1>3, <1>4
<1>6. Elements(Got(n)) \subseteq 1..Len(sent)
  <2>1. CASE n \in ExportReaders
    BY <1>3, <2>1
  <2>2. CASE n \in ExternReaders
    <3>1. CASE node[n] = "off"
      <4>1. Got(n) = <<>>
        BY <2>2, <3>1 DEF FlowInv, ExternInv
      <4> QED BY <1>2, <4>1
    <3>2. CASE node[n] # "off"
      <4>1. Elements(Got(n)) \subseteq Passed(Elements(received["select"]))
        BY <2>2, <3>2 DEF FlowInv, ExternInv
      <4> QED BY <1>5, <4>1 DEF Passed
    <3> QED BY <3>1, <3>2
  <2> QED BY <2>1, <2>2 DEF Readers, ExportReaders, ExternReaders
<1>7. DOMAIN Got(n) = 1..Len(Got(n))
  BY <1>1, GotType
<1>8. \A i \in 1..Len(Got(n)) : Got(n)[i] \in 1..Len(sent)
  BY <1>6, <1>7 DEF Elements
<1> QED BY <1>4, <1>5, <1>6, <1>8
-----------------------------------------------------------------------------
(* Parts of the invariant that a step leaves alone.                        *)

(* the same nodes are subscribed as before                                 *)
SameSubscribers == \A n \in Readers : (node'[n] = "off") <=> (node[n] = "off")

LEMMA ExportKept ==
    ASSUME ExportInv, UNCHANGED <<obi, sent, exportCall, missed>>, SameSubscribers,
           cancelled => cancelled',
           \A n \in ExportReaders : Got(n)' = Got(n)
    PROVE  ExportInv'
<1>1. ExportReaders \subseteq Readers
  BY DEF ExportReaders, Readers
<1>2. \A n \in ExportReaders : Increasing(Got(n))' = Increasing(Got(n))
  BY DEF Increasing
<1> QED BY <1>1, <1>2 DEF ExportInv, SameSubscribers

LEMMA ExternKept ==
    ASSUME ExternInv, UNCHANGED externCall, SameSubscribers,
           received'["select"] = received["select"],
           \A b \in Elements(received["select"]) : filter(b)' = filter(b),
           \A n \in ExternReaders : Got(n)' = Got(n)
    PROVE  ExternInv'
<1>1. ExternReaders \subseteq Readers
  BY DEF ExternReaders, Readers
<1>2. Passed(Elements(received["select"]))' = Passed(Elements(received["select"]))
  BY DEF Passed
<1>3. \A n \in ExternReaders : Increasing(Got(n))' = Increasing(Got(n))
  BY DEF Increasing
<1> QED BY <1>1, <1>2, <1>3 DEF ExternInv, SameSubscribers

(* Once the pipeline runs, its steps do not concern StartInv.              *)
LEMMA StartKept ==
    ASSUME StartInv, UNCHANGED <<phase, stage>>, obi # "off", obi' # "off"
    PROVE  StartInv'
BY DEF StartInv

-----------------------------------------------------------------------------
(* The steps of the pipeline.                                              *)

(* The export queue: a batch is sent.                                      *)
LEMMA SendStep ==
    ASSUME FlowInv, UNCHANGED <<phase, stage>>, NEW batch \in Batches, ObiSends(batch)
    PROVE  FlowInv'
<1>1. /\ obi = "running" /\ sent' = Append(sent, batch)
      /\ exportCall = NoCall
      /\ exportCall' = Started(Len(sent) + 1, exportSubscribers)
      /\ UNCHANGED <<cancelled, node, obi, chans, externCall, externClosed, received, missed>>
  BY DEF ObiSends, Export!Send, Export!Idle, NoCall, Started
<1>2. Len(sent) \in Nat /\ sent' \in Seq(Batches) /\ Len(sent') = Len(sent) + 1
  BY <1>1, AppendProperties, LenProperties DEF FlowInv, FlowType
<1>3. /\ CallOK(exportCall')
      /\ Waiting(exportCall') = {n \in {"select", "receiver"} : node[n] # "off"}
      /\ exportCall' # NoCall => exportCall'.msg = Len(sent) + 1
  <2>1. "select" \in Readers /\ "receiver" \in Readers /\ "select" # "receiver"
    BY DEF Readers
  <2>3. exportSubscribers = subscribed("select") \o subscribed("receiver")
    BY DEF exportSubscribers
  <2>4. Len(sent) + 1 \in Nat
    BY <1>2
  <2>5. PICK m \in Nat : m = Len(sent) + 1
    BY <2>4
  <2>6. PICK d : d = exportCall'
    OBVIOUS
  <2>7. d = Started(m, subscribed("select") \o subscribed("receiver"))
    BY <1>1, <2>3, <2>5, <2>6
  <2> QED BY <2>1, <2>5, <2>6, <2>7, NewCall
<1>4. \A n \in Readers : Got(n)' = Got(n)
  BY <1>1 DEF Got
<1>5. FlowType'
  BY <1>1, <1>2, <1>3 DEF FlowInv, FlowType
<1>6. StartInv'
  BY <1>1, StartKept DEF FlowInv
<1>7. Waiting(exportCall) = {}
  BY <1>1 DEF NoCall, Waiting, Elements
<1>8. ExportInv'
  <2>1. PICK k \in Nat : k = Len(sent)
    BY <1>2
  <2>2. /\ Len(sent') = k + 1 /\ k + 1 \in 1..(k + 1) /\ k + 1 \notin 1..k
        /\ 1..(k + 1) = (1..k) \cup {k + 1}
    BY <1>2, <2>1
  <2>3. exportCall' # NoCall =>
          obi' = "running" /\ exportCall'.msg = Len(sent') /\ Len(sent') \in 1..Len(sent')
    <3>1. obi' = "running" /\ Len(sent') \in 1..Len(sent')
      BY <1>1, <2>2
    <3>2. exportCall' # NoCall => exportCall'.msg = Len(sent')
      BY <1>2, <1>3
    <3> QED BY <3>1, <3>2
  <2>4. \A n \in Readers : /\ missed[n] \subseteq 1..k
                           /\ missed[n] # {} => cancelled
    BY <2>1 DEF FlowInv, ExportInv
  <2>5. /\ \A n \in Waiting(exportCall') :
             n \in ExportReaders /\ node'[n] # "off" /\ Len(sent') \notin missed'[n]
        /\ \A n \in Readers : missed'[n] \subseteq 1..Len(sent')
    BY <1>1, <1>3, <2>2, <2>4 DEF ExportReaders, Readers
  <2>6. ASSUME NEW n \in ExportReaders
        PROVE  /\ Increasing(Got(n))
               /\ node'[n] = "off" => Got(n) = <<>>
               /\ node'[n] # "off" =>
                    Elements(Got(n)) = (1..Len(sent')) \ (missed'[n] \cup
                      (IF n \in Waiting(exportCall') THEN {Len(sent')} ELSE {}))
    <3>1. /\ Increasing(Got(n))
          /\ node[n] = "off" => Got(n) = <<>>
          /\ node[n] # "off" => Elements(Got(n)) = (1..k) \ missed[n]
      BY <1>1, <1>7, <2>1 DEF FlowInv, ExportInv
    <3>2. node'[n] # "off" => n \in Waiting(exportCall')
      BY <1>1, <1>3 DEF ExportReaders
    <3>3. missed[n] \subseteq 1..k
      BY <2>4 DEF ExportReaders, Readers
    <3> QED BY <1>1, <2>2, <3>1, <3>2, <3>3
  <2>7. \A n \in ExportReaders : Got(n)' = Got(n) /\ Increasing(Got(n))' = Increasing(Got(n))
    BY <1>4 DEF ExportReaders, Readers, Increasing
  <2> QED BY <1>1, <2>3, <2>4, <2>5, <2>6, <2>7 DEF ExportInv
<1>9. ExternInv'
  <2>1. Elements(received["select"]) \subseteq 1..Len(sent)
    BY GotBound DEF Readers
  <2>2. ASSUME NEW b \in Elements(received["select"]) PROVE filter(b)' = filter(b)
    <3>1. b \in 1..Len(sent)
      BY <2>1, <2>2
    <3> QED BY <1>1, <3>1, FilterKept DEF FlowInv, FlowType
  <2>3. \A n \in ExternReaders : Got(n)' = Got(n)
    BY <1>4 DEF ExternReaders, Readers
  <2> QED BY <1>1, <2>2, <2>3, ExternKept DEF FlowInv, SameSubscribers
<1> QED BY <1>5, <1>6, <1>8, <1>9 DEF FlowInv

(* The export queue: a delivery.                                           *)
LEMMA DeliverStep ==
    ASSUME FlowInv, UNCHANGED <<phase, stage>>, ObiDelivers
    PROVE  FlowInv'
<1> DEFINE c == exportCall
           d == exportCall'
<1>0. /\ c # NoCall
      /\ Len(chans[Head(c.left \o c.blocked)]) < ChannelBufferLen
      /\ chans' = [chans EXCEPT ![Head(c.left \o c.blocked)] = Append(@, c.msg)]
      /\ d = IF Len(c.left \o c.blocked) = 1 THEN NoCall
             ELSE IF c.left # <<>> THEN [c EXCEPT !.left = Tail(@)]
             ELSE [c EXCEPT !.blocked = Tail(@)]
      /\ UNCHANGED <<cancelled, node, obi, sent, externCall, externClosed, received, missed>>
  BY DEF ObiDelivers, Export!Deliver, Export!Pending, Export!Idle, NoCall
<1>2. CallOK(c) /\ FlowType
  BY DEF FlowInv, FlowType
<1>3. /\ Len(c.left \o c.blocked) = Len(c.left) + Len(c.blocked)
      /\ Head(c.left \o c.blocked) = First(c)
  <2>1. c.left \in Seq(Readers) /\ c.blocked \in Seq(Readers)
    BY <1>2 DEF CallOK
  <2>2. c.left # <<>> \/ c.blocked # <<>>
    BY <1>0, <1>2 DEF CallOK, Waiting, Elements
  <2> QED BY <2>1, <2>2, ConcatHead DEF First
<1>a. PICK h : h = First(c)
  OBVIOUS
<1>1. /\ Len(chans[h]) < ChannelBufferLen
      /\ chans' = [chans EXCEPT ![h] = Append(@, c.msg)]
      /\ d = Delivered(c)
      /\ UNCHANGED <<cancelled, node, obi, sent, externCall, externClosed, received, missed>>
  BY <1>0, <1>3, <1>a DEF Delivered
<1>4. /\ h \in Waiting(c) /\ CallOK(d) /\ Waiting(d) = Waiting(c) \ {h}
      /\ d # NoCall => d.msg = c.msg
  BY <1>0, <1>1, <1>2, <1>a, DeliverCall
<1>5. /\ obi = "running" /\ c.msg = Len(sent) /\ h \in ExportReaders /\ node[h] # "off"
      /\ Len(sent) \in Nat /\ Len(sent) \in 1..Len(sent) /\ Len(sent) \notin missed[h]
  BY <1>0, <1>4, LenProperties DEF FlowInv, FlowType, ExportInv
<1>6. h \in Readers /\ c.msg \in Nat
  BY <1>5 DEF ExportReaders, Readers
<1>7. /\ chans' \in [Readers -> Seq(Nat)]
      /\ \A n \in Readers : Len(chans'[n]) <= ChannelBufferLen
      /\ Got(h)' = Append(Got(h), c.msg)
      /\ \A n \in Readers \ {h} : Got(n)' = Got(n)
  <2>1. PICK m \in Nat : m = c.msg
    BY <1>6
  <2>2. chans' = [chans EXCEPT ![h] = Append(@, m)]
    BY <1>1, <2>1
  <2> QED BY <1>1, <1>2, <1>6, <2>1, <2>2, EnterChannel
<1>8. FlowType'
  BY <1>1, <1>4, <1>7 DEF FlowInv, FlowType
<1>9. StartInv'
  BY <1>1, <1>5, StartKept DEF FlowInv
<1>10. ExportInv'
  <2>1. PICK k \in Nat : k = Len(sent) /\ k = c.msg /\ k \in 1..k /\ k \notin missed[h]
    BY <1>5
  <2>2. d # NoCall => obi' = "running" /\ d.msg = Len(sent') /\ Len(sent') \in 1..Len(sent')
    BY <1>1, <1>4, <1>5
  <2>3. /\ \A n \in Waiting(d) :
             n \in ExportReaders /\ node'[n] # "off" /\ Len(sent') \notin missed'[n]
        /\ \A n \in Readers : /\ missed'[n] \subseteq 1..Len(sent')
                              /\ missed'[n] # {} => cancelled'
    BY <1>1, <1>4 DEF FlowInv, ExportInv
  <2>4. ASSUME NEW n \in ExportReaders \ {h}
        PROVE  /\ Increasing(Got(n)')
               /\ node'[n] = "off" => Got(n)' = <<>>
               /\ node'[n] # "off" =>
                    Elements(Got(n)') = (1..Len(sent')) \ (missed'[n] \cup
                      (IF n \in Waiting(d) THEN {Len(sent')} ELSE {}))
    <3>1. Got(n)' = Got(n) /\ (n \in Waiting(d) <=> n \in Waiting(c))
      BY <1>4, <1>7 DEF ExportReaders, Readers
    <3> QED BY <1>1, <3>1 DEF FlowInv, ExportInv
  <2>5. /\ Increasing(Got(h)')
        /\ Elements(Got(h)') = (1..k) \ missed[h]
    <3>1. PICK g \in Seq(Nat) : g = Got(h)
      BY <1>2, <1>6, GotType
    <3>2. Increasing(g) /\ Elements(g) = (1..k) \ (missed[h] \cup {k})
      BY <1>4, <1>5, <2>1, <3>1 DEF FlowInv, ExportInv
    <3>3. \A x \in Elements(g) : x < k
      BY <3>2
    <3>4. Increasing(Append(g, k)) /\ Elements(Append(g, k)) = Elements(g) \cup {k}
      BY <3>2, <3>3, AppendIncreases
    <3>5. Got(h)' = Append(g, k)
      BY <1>7, <2>1, <3>1
    <3>6. Elements(g) \cup {k} = (1..k) \ missed[h]
      BY <2>1, <3>2
    <3> QED BY <3>4, <3>5, <3>6
  <2>6. h \notin Waiting(d) /\ node'[h] # "off"
    BY <1>1, <1>4, <1>5
  <2>7. ASSUME NEW n \in ExportReaders
        PROVE  /\ Increasing(Got(n)')
               /\ node'[n] = "off" => Got(n)' = <<>>
               /\ node'[n] # "off" =>
                    Elements(Got(n)') = (1..Len(sent')) \ (missed'[n] \cup
                      (IF n \in Waiting(d) THEN {Len(sent')} ELSE {}))
    <3>1. CASE n = h
      BY <1>1, <2>1, <2>5, <2>6, <3>1
    <3>2. CASE n # h
      BY <2>4, <3>2
    <3> QED BY <3>1, <3>2
  <2>8. \A n \in ExportReaders : Increasing(Got(n))' = Increasing(Got(n)')
    BY DEF Increasing
  <2> QED BY <1>1, <1>5, <2>2, <2>3, <2>7, <2>8 DEF ExportInv
<1>11. ExternInv'
  <2>1. \A n \in ExternReaders : Got(n)' = Got(n)
    BY <1>5, <1>7 DEF ExternReaders, ExportReaders, Readers
  <2>2. \A b \in Elements(received["select"]) : filter(b)' = filter(b)
    BY <1>1 DEF filter
  <2> QED BY <1>1, <2>1, <2>2, ExternKept DEF FlowInv, SameSubscribers
<1> QED BY <1>8, <1>9, <1>10, <1>11 DEF FlowInv
(* The export queue: the send timeout, the end of the context, and the end *)
(* of OBI.                                                                 *)
LEMMA TimeoutStopStep ==
    ASSUME FlowInv, UNCHANGED <<phase, stage>>, ObiTimesOut \/ ObiInterrupted \/ ObiStops
    PROVE  FlowInv'
<1>1. UNCHANGED <<cancelled, node, sent, chans, externCall, externClosed, received>>
  BY DEF ObiTimesOut, ObiInterrupted, ObiStops, Export!SendTimeout
<1>2. \A n \in Readers : Got(n)' = Got(n)
  BY <1>1 DEF Got
<1>3. ExternInv'
  <2>1. \A n \in ExternReaders : Got(n)' = Got(n)
    BY <1>2 DEF ExternReaders, Readers
  <2>2. \A b \in Elements(received["select"]) : filter(b)' = filter(b)
    BY <1>1 DEF filter
  <2> QED BY <1>1, <2>1, <2>2, ExternKept DEF FlowInv, SameSubscribers
<1>4. /\ ExportReaders \subseteq Readers
      /\ \A n \in ExportReaders : Increasing(Got(n))' = Increasing(Got(n))
  BY <1>2 DEF ExportReaders, Readers, Increasing
<1>5. CASE ObiTimesOut
  <2>1. /\ exportCall.left # <<>> /\ exportCall.blocked = <<>>
        /\ exportCall' = PutOff(exportCall) /\ obi' = obi /\ missed' = missed
    BY <1>5 DEF ObiTimesOut, Export!SendTimeout, PutOff
  <2>2. /\ CallOK(exportCall') /\ Waiting(exportCall') = Waiting(exportCall)
        /\ exportCall'.msg = exportCall.msg /\ exportCall # NoCall
    BY <2>1, PutOffCall DEF FlowInv, FlowType
  <2>3. obi = "running"
    BY <2>2 DEF FlowInv, ExportInv
  <2>4. FlowType'
    BY <1>1, <2>1, <2>2 DEF FlowInv, FlowType
  <2>5. StartInv'
    BY <2>1, <2>3, StartKept DEF FlowInv
  <2>6. ExportInv'
    BY <1>1, <1>2, <1>4, <2>1, <2>2 DEF FlowInv, ExportInv
  <2> QED BY <1>3, <2>4, <2>5, <2>6 DEF FlowInv
<1>6. Elements(<<>>) = {} /\ Distinct(<<>>) /\ <<>> \in Seq(Readers)
  BY DEF Elements, Distinct
<1>7. CallOK(NoCall) /\ Waiting(NoCall) = {}
  BY <1>6 DEF CallOK, NoCall, Waiting
<1>8. CASE ObiStops
  <2>1. /\ exportCall = NoCall /\ exportCall' = NoCall /\ missed' = missed
        /\ obi = "running" /\ obi' = "stopped"
    BY <1>8 DEF ObiStops, Export!Idle, NoCall
  <2>2. FlowType'
    BY <1>1, <1>7, <2>1 DEF FlowInv, FlowType
  <2>3. StartInv'
    BY <2>1, StartKept DEF FlowInv
  <2>4. ExportInv'
    BY <1>1, <1>2, <1>4, <1>7, <2>1 DEF FlowInv, ExportInv
  <2> QED BY <1>3, <2>2, <2>3, <2>4 DEF FlowInv
<1>9. CASE ObiInterrupted
  <2> DEFINE c == exportCall
  <2>1. /\ cancelled /\ c # NoCall /\ exportCall' = NoCall /\ obi' = obi
        /\ missed' = [n \in Readers |->
             missed[n] \cup {c.msg : k \in {k \in DOMAIN (c.left \o c.blocked) :
                                            (c.left \o c.blocked)[k] = n}}]
    BY <1>9 DEF ObiInterrupted, Export!Interrupt, Export!Pending, Export!Idle, NoCall
  <2>2. CallOK(c)
    BY DEF FlowInv, FlowType
  <2>3. Elements(c.left \o c.blocked) = Waiting(c)
    <3>1. c.left \in Seq(Readers) /\ c.blocked \in Seq(Readers)
      BY <2>2 DEF CallOK
    <3> QED BY <3>1, ConcatElements DEF Waiting
  <2>4. PICK p : p = c.left \o c.blocked
    OBVIOUS
  <2>5. PICK k \in Nat : k = Len(sent) /\ k = c.msg /\ k \in 1..k /\ obi = "running"
    <3>1. Len(sent) \in Nat
      BY LenProperties DEF FlowInv, FlowType
    <3> QED BY <2>1, <3>1 DEF FlowInv, ExportInv
  <2>6. ASSUME NEW n \in Readers
        PROVE  missed'[n] = missed[n] \cup (IF n \in Waiting(c) THEN {k} ELSE {})
    <3>1. missed'[n] = missed[n] \cup {k : i \in {i \in DOMAIN p : p[i] = n}}
      BY <2>1, <2>4, <2>5
    <3>2. n \in Waiting(c) <=> \E i \in DOMAIN p : p[i] = n
      BY <2>3, <2>4 DEF Elements
    <3>3. PICK W : W = {i \in DOMAIN p : p[i] = n}
      OBVIOUS
    <3>4. missed'[n] = missed[n] \cup {k : i \in W} /\ (n \in Waiting(c) <=> W # {})
      BY <3>1, <3>2, <3>3
    <3>5. {k : i \in W} = IF W # {} THEN {k} ELSE {}
      OBVIOUS
    <3> QED BY <3>4, <3>5
  <2>7. FlowType'
    BY <1>1, <1>7, <2>1 DEF FlowInv, FlowType
  <2>8. StartInv'
    BY <2>1, <2>5, StartKept DEF FlowInv
  <2>9. \A n \in Readers : /\ missed[n] \subseteq 1..k
                           /\ missed'[n] \subseteq 1..k
    <3>1. \A n \in Readers : missed[n] \subseteq 1..k
      BY <2>5 DEF FlowInv, ExportInv
    <3> QED BY <2>5, <2>6, <3>1
  <2>10. ASSUME NEW n \in ExportReaders
         PROVE  /\ Increasing(Got(n))
                /\ node[n] = "off" => Got(n) = <<>>
                /\ node[n] # "off" => Elements(Got(n)) = (1..k) \ missed'[n]
    <3>1. /\ Increasing(Got(n))
          /\ node[n] = "off" => Got(n) = <<>>
          /\ node[n] # "off" => Elements(Got(n)) = (1..k) \ (missed[n] \cup
                                  (IF n \in Waiting(c) THEN {k} ELSE {}))
      BY <2>5 DEF FlowInv, ExportInv
    <3>2. n \in Readers
      BY <1>4
    <3> QED BY <2>6, <3>1, <3>2
  <2>11. ExportInv'
    BY <1>1, <1>2, <1>4, <1>7, <2>1, <2>5, <2>9, <2>10 DEF ExportInv
  <2> QED BY <1>3, <2>7, <2>8, <2>11 DEF FlowInv
<1> QED BY <1>5, <1>8, <1>9

(* A node starts or returns.                                               *)
LEMMA NodeStep ==
    ASSUME FlowInv, UNCHANGED <<phase, stage>>,
           NEW n \in Nodes, NEW to \in {"running", "returned"},
           node[n] # "off", node' = [node EXCEPT ![n] = to],
           UNCHANGED <<cancelled, obi, sent, chans, exportCall, externCall, received, missed>>,
           externClosed' \in BOOLEAN
    PROVE  FlowInv'
<1>1. /\ node' \in [Nodes -> {"off", "built", "starting", "running", "returned"}]
      /\ SameSubscribers
  BY DEF FlowInv, FlowType, SameSubscribers, Nodes
<1>2. \A m \in Readers : Got(m)' = Got(m)
  BY DEF Got
<1>3. FlowType'
  BY <1>1 DEF FlowInv, FlowType
<1>4. StartInv'
  BY <1>2 DEF FlowInv, StartInv
<1>5. ExportInv'
  <2>1. \A m \in ExportReaders : Got(m)' = Got(m)
    BY <1>2 DEF ExportReaders, Readers
  <2> QED BY <1>1, <2>1, ExportKept DEF FlowInv
<1>6. ExternInv'
  <2>1. \A m \in ExternReaders : Got(m)' = Got(m)
    BY <1>2 DEF ExternReaders, Readers
  <2>2. \A b \in Elements(received["select"]) : filter(b)' = filter(b)
    BY DEF filter
  <2> QED BY <1>1, <2>1, <2>2, ExternKept DEF FlowInv
<1> QED BY <1>3, <1>4, <1>5, <1>6 DEF FlowInv

(* The parts that hold whichever reader takes a batch.                     *)
LEMMA TakeStep ==
    ASSUME FlowInv, UNCHANGED <<phase, stage>>, NEW n \in Readers, take(n),
           UNCHANGED <<cancelled, node, obi, sent, exportCall, externClosed, missed>>,
           CallOK(externCall')
    PROVE  FlowType' /\ StartInv' /\ ExportInv'
<1>1. FlowType
  BY DEF FlowInv
<1>2. /\ chans' \in [Readers -> Seq(Nat)]
      /\ \A m \in Readers : Len(chans'[m]) <= ChannelBufferLen
      /\ received' \in [Readers -> Seq(Nat)]
      /\ \A m \in Readers : Got(m)' = Got(m)
      /\ Got(n) # <<>>
  BY <1>1, TakeChannel
<1>3. FlowType'
  BY <1>1, <1>2 DEF FlowType
<1>4. obi # "off"
  BY <1>2 DEF FlowInv, StartInv
<1>5. StartInv'
  BY <1>4, StartKept DEF FlowInv
<1>6. ExportInv'
  <2>1. \A m \in ExportReaders : Got(m)' = Got(m)
    BY <1>2 DEF ExportReaders, Readers
  <2> QED BY <2>1, ExportKept DEF FlowInv, SameSubscribers
<1> QED BY <1>3, <1>5, <1>6

(* A terminal node receives a batch.                                       *)
LEMMA TerminalStep ==
    ASSUME FlowInv, UNCHANGED <<phase, stage>>, NEW n \in Readers, TerminalReceives(n)
    PROVE  FlowInv'
<1>1. /\ n # "select" /\ take(n)
      /\ UNCHANGED <<cancelled, node, obi, sent, exportCall, externCall, externClosed, missed>>
  BY DEF TerminalReceives
<1>2. FlowType' /\ StartInv' /\ ExportInv'
  BY <1>1, TakeStep DEF FlowInv, FlowType
<1>3. /\ \A m \in Readers : Got(m)' = Got(m)
      /\ \A m \in Readers \ {n} : received'[m] = received[m]
  BY <1>1, TakeChannel DEF FlowInv
<1>4. received'["select"] = received["select"]
  BY <1>1, <1>3 DEF Readers
<1>5. \A m \in ExternReaders : Got(m)' = Got(m)
  BY <1>3 DEF ExternReaders, Readers
<1>6. \A b \in Elements(received["select"]) : filter(b)' = filter(b)
  BY <1>1 DEF filter
<1>7. ExternInv'
  BY <1>1, <1>4, <1>5, <1>6, ExternKept DEF FlowInv, SameSubscribers
<1> QED BY <1>2, <1>7 DEF FlowInv
(* What is passed on of one batch more.                                    *)
LEMMA PassedNext ==
    ASSUME NEW R, NEW m
    PROVE  Passed(R \cup {m}) = IF filter(m) = {} THEN Passed(R) ELSE Passed(R) \cup {m}
BY DEF Passed

(* The batch that a reader takes is greater than those that it took.       *)
LEMMA TakeGreater ==
    ASSUME FlowType, NEW n \in Readers, take(n), Increasing(Got(n)),
           NEW m, m = Head(chans[n])
    PROVE  /\ \A b \in Elements(received[n]) : b \in Nat /\ b < m
           /\ Elements(received'[n]) = Elements(received[n]) \cup {m}
<1>1. PICK k \in Nat, q \in Seq(Nat) : k = Len(received[n]) /\ q = received[n]
  BY GotType
<1>2. /\ k + 1 \in 1..Len(Got(n)) /\ m = Got(n)[k + 1] /\ m \in Nat
      /\ received'[n] = Append(q, m)
  BY <1>1, TakeChannel
<1>3. /\ \A i \in 1..k : Got(n)[i] = q[i] /\ q[i] \in Nat
      /\ DOMAIN q = 1..k /\ Len(Got(n)) \in Nat
  <2>1. \A i \in 1..k : Got(n)[i] = q[i]
    BY <1>1, GotType
  <2>2. DOMAIN q = 1..k /\ \A i \in 1..k : q[i] \in Nat
    BY <1>1, LenProperties, ElementOfSeq
  <2>3. Len(Got(n)) \in Nat
    BY GotType, ShortSequence
  <2> QED BY <2>1, <2>2, <2>3
<1>4. ASSUME NEW i \in 1..k PROVE q[i] < m
  <2>1. i \in 1..Len(Got(n)) /\ i < k + 1
    BY <1>2, <1>3, <1>4
  <2> QED BY <1>2, <1>3, <1>4, <2>1 DEF Increasing
<1>5. Elements(Append(q, m)) = Elements(q) \cup {m}
  BY <1>2, AppendElements
<1>6. \A b \in Elements(q) : b \in Nat /\ b < m
  BY <1>3, <1>4 DEF Elements
<1> QED BY <1>1, <1>2, <1>5, <1>6

(* SelectExternal receives a batch, and passes it on or not.               *)
LEMMA SelectStep ==
    ASSUME FlowInv, UNCHANGED <<phase, stage>>, SelectReceives
    PROVE  FlowInv'
<1>1. /\ externCall = NoCall /\ take("select")
      /\ UNCHANGED <<cancelled, node, obi, sent, exportCall, externClosed, missed>>
  BY DEF SelectReceives, Extern!Idle, NoCall
<1>2. "select" \in Readers /\ "select" \in ExportReaders /\ FlowType
  BY DEF Readers, ExportReaders, FlowInv
<1>3. PICK m \in Nat : m = Head(chans["select"])
  BY <1>1, <1>2, TakeChannel
<1>4. \A n \in Readers : Got(n)' = Got(n)
  BY <1>1, <1>2, TakeChannel
<1>5. PICK R : R = Elements(received["select"])
  OBVIOUS
<1>6. /\ \A b \in R : b \in Nat /\ b < m
      /\ Elements(received'["select"]) = R \cup {m}
  <2>1. Increasing(Got("select"))
    BY <1>2 DEF FlowInv, ExportInv
  <2> QED BY <1>1, <1>2, <1>3, <1>5, <2>1, TakeGreater
<1>7. \/ filter(m) = {} /\ externCall' = NoCall
      \/ filter(m) # {} /\ externCall' = Started(m, externSubscribers)
  BY <1>1, <1>3 DEF SelectReceives, passOn, Extern!Send, Extern!Idle, NoCall, Started
<1>8. Elements(<<>>) = {} /\ Distinct(<<>>) /\ <<>> \in Seq(Readers)
  BY DEF Elements, Distinct
<1>9. CallOK(NoCall) /\ Waiting(NoCall) = {}
  BY <1>8 DEF CallOK, NoCall, Waiting
<1>10. filter(m) # {} =>
         /\ CallOK(externCall')
         /\ Waiting(externCall') = {n \in ExternReaders : node[n] # "off"}
         /\ externCall' # NoCall => externCall'.msg = m
  <2> SUFFICES ASSUME filter(m) # {}
               PROVE  /\ CallOK(externCall')
                      /\ Waiting(externCall') = {n \in ExternReaders : node[n] # "off"}
                      /\ externCall' # NoCall => externCall'.msg = m
    OBVIOUS
  <2>1. "connReceiver" \in Readers /\ "connExport" \in Readers /\ "connReceiver" # "connExport"
    BY DEF Readers
  <2>2. PICK d : d = externCall'
    OBVIOUS
  <2>3. d = Started(m, subscribed("connReceiver") \o subscribed("connExport"))
    BY <1>7, <2>2 DEF externSubscribers
  <2> QED BY <2>1, <2>2, <2>3, NewCall DEF ExternReaders
<1>11. CallOK(externCall')
  BY <1>7, <1>9, <1>10
<1>12. FlowType' /\ StartInv' /\ ExportInv'
  BY <1>1, <1>2, <1>11, TakeStep
<1>13. Passed(R \cup {m})' = Passed(R \cup {m})
  BY <1>1 DEF Passed, filter
<1>14. \A n \in ExternReaders :
         /\ Increasing(Got(n))
         /\ node[n] = "off" => Got(n) = <<>>
         /\ node[n] # "off" => Elements(Got(n)) = Passed(R)
  BY <1>1, <1>5, <1>9 DEF FlowInv, ExternInv
<1>15. \A n \in ExternReaders : Got(n)' = Got(n) /\ Increasing(Got(n))' = Increasing(Got(n))
  BY <1>4 DEF ExternReaders, Readers, Increasing
<1>16. m \notin Passed(R)
  BY <1>6 DEF Passed
<1>17. /\ externCall' # NoCall =>
            /\ externCall'.msg = m /\ m \in Passed(R \cup {m})
            /\ \A b \in R \cup {m} : b <= m
       /\ \A n \in Waiting(externCall') : n \in ExternReaders /\ node'[n] # "off"
  <2>1. \A b \in R \cup {m} : b <= m
    BY <1>6
  <2>2. CASE filter(m) = {}
    BY <1>7, <1>9, <2>2
  <2>3. CASE filter(m) # {}
    <3>1. m \in Passed(R \cup {m})
      BY <2>3 DEF Passed
    <3> QED BY <1>1, <1>10, <2>1, <2>3, <3>1
  <2> QED BY <2>2, <2>3
<1>18. ASSUME NEW n \in ExternReaders, node[n] # "off"
       PROVE  Elements(Got(n)) = Passed(R \cup {m}) \
                                   (IF n \in Waiting(externCall') THEN {m} ELSE {})
  <2>1. Elements(Got(n)) = Passed(R)
    BY <1>14, <1>18
  <2>2. CASE filter(m) = {}
    BY <1>7, <1>9, <2>1, <2>2, PassedNext
  <2>3. CASE filter(m) # {}
    <3>1. n \in Waiting(externCall') /\ Passed(R \cup {m}) = Passed(R) \cup {m}
      BY <1>10, <1>18, <2>3, PassedNext
    <3> QED BY <1>16, <2>1, <3>1
  <2> QED BY <2>2, <2>3
<1>19. \A n \in Waiting(externCall') : externCall'.msg = m
  BY <1>9, <1>17
<1>20. ExternInv'
  <2>1. PICK T : T = R \cup {m}
    OBVIOUS
  <2>2. Elements(received'["select"]) = T /\ Passed(T)' = Passed(T)
    BY <1>6, <1>13, <2>1
  <2>3. /\ externCall' # NoCall =>
              externCall'.msg \in Passed(T) /\ \A b \in T : b <= externCall'.msg
        /\ \A n \in ExternReaders : node[n] # "off" =>
             Elements(Got(n)) =
               Passed(T) \ (IF n \in Waiting(externCall') THEN {externCall'.msg} ELSE {})
    BY <1>17, <1>18, <1>19, <2>1
  <2> QED BY <1>1, <1>14, <1>15, <1>17, <2>2, <2>3 DEF ExternInv
<1> QED BY <1>12, <1>20 DEF FlowInv

(* The queue externalTraces: a delivery.                                   *)
LEMMA ExternDeliverStep ==
    ASSUME FlowInv, UNCHANGED <<phase, stage>>, SelectDelivers
    PROVE  FlowInv'
<1> DEFINE c == externCall
           d == externCall'
<1>1. /\ c # NoCall
      /\ Len(chans[Head(c.left \o c.blocked)]) < ChannelBufferLen
      /\ chans' = [chans EXCEPT ![Head(c.left \o c.blocked)] = Append(@, c.msg)]
      /\ d = IF Len(c.left \o c.blocked) = 1 THEN NoCall
             ELSE IF c.left # <<>> THEN [c EXCEPT !.left = Tail(@)]
             ELSE [c EXCEPT !.blocked = Tail(@)]
      /\ UNCHANGED <<cancelled, node, obi, sent, exportCall, externClosed, received, missed>>
  BY DEF SelectDelivers, Extern!Deliver, Extern!Pending, Extern!Idle, NoCall
<1>2. CallOK(c) /\ FlowType
  BY DEF FlowInv, FlowType
<1>3. /\ Len(c.left \o c.blocked) = Len(c.left) + Len(c.blocked)
      /\ Head(c.left \o c.blocked) = First(c)
  <2>1. c.left \in Seq(Readers) /\ c.blocked \in Seq(Readers)
    BY <1>2 DEF CallOK
  <2>2. c.left # <<>> \/ c.blocked # <<>>
    BY <1>1, <1>2 DEF CallOK, Waiting, Elements
  <2> QED BY <2>1, <2>2, ConcatHead DEF First
<1>4. PICK h : h = First(c)
  OBVIOUS
<1>5. /\ Len(chans[h]) < ChannelBufferLen
      /\ chans' = [chans EXCEPT ![h] = Append(@, c.msg)]
      /\ d = Delivered(c)
  BY <1>1, <1>3, <1>4 DEF Delivered
<1>6. /\ h \in Waiting(c) /\ CallOK(d) /\ Waiting(d) = Waiting(c) \ {h}
      /\ d # NoCall => d.msg = c.msg
  BY <1>1, <1>2, <1>4, <1>5, DeliverCall
<1>a. PICK R : R = Elements(received["select"])
  OBVIOUS
<1>7. PICK k \in Nat : k = c.msg /\ R = Elements(received["select"])
  BY <1>2, <1>a DEF CallOK
<1>8. /\ k \in Passed(R) /\ h \in ExternReaders /\ node[h] # "off"
      /\ \A b \in R : b \in Nat /\ b <= k
  <2>1. /\ k \in Passed(R) /\ h \in ExternReaders /\ node[h] # "off"
        /\ \A b \in R : b <= k
    BY <1>1, <1>6, <1>7 DEF FlowInv, ExternInv
  <2>2. R \subseteq Nat
    <3>1. received["select"] \in Seq(Nat)
      BY <1>2, GotType DEF Readers
    <3>2. PICK q \in Seq(Nat) : q = received["select"]
      BY <3>1
    <3>3. \A i \in DOMAIN q : q[i] \in Nat
      BY LenProperties, ElementOfSeq
    <3> QED BY <1>7, <3>2, <3>3 DEF Elements
  <2> QED BY <2>1, <2>2
<1>9. h \in Readers
  BY <1>8 DEF ExternReaders, Readers
<1>10. /\ chans' \in [Readers -> Seq(Nat)]
       /\ \A n \in Readers : Len(chans'[n]) <= ChannelBufferLen
       /\ Got(h)' = Append(Got(h), k)
       /\ \A n \in Readers \ {h} : Got(n)' = Got(n)
  <2>1. chans' = [chans EXCEPT ![h] = Append(@, k)]
    BY <1>5, <1>7
  <2> QED BY <1>1, <1>2, <1>5, <1>9, <2>1, EnterChannel
<1>11. FlowType'
  BY <1>1, <1>6, <1>10 DEF FlowInv, FlowType
<1>12. StartInv'
  <2>1. obi # "off"
    BY <1>1 DEF FlowInv, StartInv
  <2> QED BY <1>1, <2>1, StartKept DEF FlowInv
<1>13. ExportInv'
  <2>1. \A n \in ExportReaders : Got(n)' = Got(n)
    BY <1>8, <1>10 DEF ExternReaders, ExportReaders, Readers
  <2> QED BY <1>1, <2>1, ExportKept DEF FlowInv, SameSubscribers
<1>14. Passed(R)' = Passed(R) /\ Elements(received'["select"]) = R
  BY <1>1, <1>7 DEF Passed, filter
<1>15. Increasing(Got(h)') /\ Elements(Got(h)') = Passed(R)
  <2>1. Increasing(Got(h)) /\ Elements(Got(h)) = Passed(R) \ {k}
    BY <1>6, <1>7, <1>8 DEF FlowInv, ExternInv
  <2>2. PICK g \in Seq(Nat) : g = Got(h)
    BY <1>2, <1>9, GotType
  <2>3. \A x \in Elements(g) : x < k
    <3> SUFFICES ASSUME NEW x \in Elements(g) PROVE x < k
      OBVIOUS
    <3>1. x \in R /\ x # k
      BY <2>1, <2>2 DEF Passed
    <3> QED BY <1>8, <3>1
  <2>4. Increasing(Append(g, k)) /\ Elements(Append(g, k)) = Elements(g) \cup {k}
    BY <2>1, <2>2, <2>3, AppendIncreases
  <2> QED BY <1>8, <1>10, <2>1, <2>2, <2>4
<1>16. ASSUME NEW n \in ExternReaders
       PROVE  /\ Increasing(Got(n)')
              /\ node[n] = "off" => Got(n)' = <<>>
              /\ node[n] # "off" =>
                   Elements(Got(n)') = Passed(R) \ (IF n \in Waiting(d) THEN {k} ELSE {})
  <2>1. CASE n = h
    BY <1>6, <1>8, <1>15, <2>1
  <2>2. CASE n # h
    <3>1. Got(n)' = Got(n) /\ (n \in Waiting(d) <=> n \in Waiting(c))
      BY <1>6, <1>10, <2>2 DEF ExternReaders, Readers
    <3> QED BY <1>7, <3>1 DEF FlowInv, ExternInv
  <2> QED BY <2>1, <2>2
<1>17. /\ d # NoCall => d.msg = k
       /\ \A n \in Waiting(d) : n \in ExternReaders /\ node[n] # "off"
  BY <1>6, <1>7 DEF FlowInv, ExternInv
<1>18. \A n \in Waiting(d) : d.msg = k
  <2>1. Waiting(NoCall) = {}
    BY DEF NoCall, Waiting, Elements
  <2> QED BY <1>17, <2>1
<1>19. /\ d # NoCall => d.msg \in Passed(R) /\ \A b \in R : b <= d.msg
       /\ \A n \in ExternReaders : node[n] # "off" =>
            Elements(Got(n)') = Passed(R) \ (IF n \in Waiting(d) THEN {d.msg} ELSE {})
  BY <1>8, <1>16, <1>17, <1>18
<1>20. ExternInv'
  <2>1. \A n \in ExternReaders : Increasing(Got(n))' = Increasing(Got(n)')
    BY DEF Increasing
  <2> QED BY <1>1, <1>14, <1>16, <1>17, <1>19, <2>1 DEF ExternInv
<1> QED BY <1>11, <1>12, <1>13, <1>20 DEF FlowInv

(* The queue externalTraces: the send timeout.                             *)
LEMMA ExternTimeoutStep ==
    ASSUME FlowInv, UNCHANGED <<phase, stage>>, SelectTimesOut
    PROVE  FlowInv'
<1>1. /\ externCall.left # <<>> /\ externCall.blocked = <<>>
      /\ externCall' = PutOff(externCall)
      /\ UNCHANGED <<cancelled, node, obi, sent, chans, exportCall, externClosed, received,
                     missed>>
  BY DEF SelectTimesOut, Extern!SendTimeout, PutOff
<1>2. /\ CallOK(externCall') /\ Waiting(externCall') = Waiting(externCall)
      /\ externCall'.msg = externCall.msg /\ externCall # NoCall
  BY <1>1, PutOffCall DEF FlowInv, FlowType
<1>3. \A n \in Readers : Got(n)' = Got(n)
  BY <1>1 DEF Got
<1>4. FlowType'
  BY <1>1, <1>2 DEF FlowInv, FlowType
<1>5. StartInv'
  <2>1. obi # "off"
    BY <1>2 DEF FlowInv, StartInv
  <2> QED BY <1>1, <2>1, StartKept DEF FlowInv
<1>6. ExportInv'
  <2>1. \A n \in ExportReaders : Got(n)' = Got(n)
    BY <1>3 DEF ExportReaders, Readers
  <2> QED BY <1>1, <2>1, ExportKept DEF FlowInv, SameSubscribers
<1>7. ExternInv'
  <2>1. \A n \in ExternReaders : Got(n)' = Got(n)
    BY <1>3 DEF ExternReaders, Readers
  <2>2. Passed(Elements(received["select"]))' = Passed(Elements(received["select"]))
    BY <1>1 DEF Passed, filter
  <2>3. \A n \in ExternReaders : Increasing(Got(n))' = Increasing(Got(n))
    BY <2>1 DEF Increasing
  <2> QED BY <1>1, <1>2, <2>1, <2>2, <2>3 DEF FlowInv, ExternInv
<1> QED BY <1>4, <1>5, <1>6, <1>7 DEF FlowInv
-----------------------------------------------------------------------------
(* The other steps, and all of them.                                       *)

(* A step that does not concern the pipeline.                              *)
LEMMA OtherStep ==
    ASSUME FlowInv, UNCHANGED forwardVars, cancelled => cancelled',
           phase' \in {"load", "loaded", "valid"} =>
             phase \in {"load", "loaded", "valid"} /\ stage' = stage,
           stage' \in {"new", "find", "ready"} => obi = "off"
    PROVE  FlowInv'
<1>1. UNCHANGED <<node, obi, sent, chans, exportCall, externCall, externClosed, received,
                  missed>>
  BY DEF forwardVars, flowVars
<1>2. \A n \in Readers : Got(n)' = Got(n)
  BY <1>1 DEF Got
<1>3. FlowType' /\ StartInv'
  BY <1>1, <1>2 DEF FlowInv, FlowType, StartInv
<1>4. ExportReaders \subseteq Readers /\ ExternReaders \subseteq Readers
  BY DEF ExportReaders, ExternReaders, Readers
<1>5. ExportInv'
  BY <1>1, <1>2, <1>4, ExportKept DEF FlowInv, SameSubscribers
<1>6. \A b \in Elements(received["select"]) : filter(b)' = filter(b)
  BY <1>1 DEF filter
<1>7. ExternInv'
  BY <1>1, <1>2, <1>4, <1>6, ExternKept DEF FlowInv, SameSubscribers
<1> QED BY <1>3, <1>5, <1>7 DEF FlowInv

(* The pipeline is built, or started: nothing has flowed yet.              *)
LEMMA BuildStep ==
    ASSUME FlowInv, UNCHANGED phase, phase = "running",
           ReadAndForward \/ \E kube \in BOOLEAN : NewInstrumenter(kube)
    PROVE  FlowInv'
<1>1. obi = "off"
  BY DEF FlowInv, StartInv, NewInstrumenter, ReadAndForward
<1>2. UNCHANGED <<cancelled, sent, chans, exportCall, externCall, externClosed, received,
                  missed>>
  BY DEF NewInstrumenter, ReadAndForward, flowVars
<1>3. /\ node' \in [Nodes -> {"off", "built", "starting", "running", "returned"}]
      /\ \/ obi' = "off"
         \/ obi' = "running" /\ stage' = "forward"
  BY <1>1 DEF NewInstrumenter, ReadAndForward, BuildNodes, StartNodes, flowVars
<1>4. /\ sent = <<>> /\ exportCall = NoCall /\ externCall = NoCall
      /\ \A n \in Readers : Got(n) = <<>>
  BY <1>1 DEF FlowInv, StartInv
<1>5. \A n \in Readers : Got(n)' = <<>>
  BY <1>2, <1>4 DEF Got
<1>6. FlowType' /\ StartInv'
  BY <1>1, <1>2, <1>3, <1>4, <1>5 DEF FlowInv, FlowType, StartInv
<1>7. Elements(<<>>) = {} /\ Waiting(NoCall) = {} /\ Len(<<>>) = 0 /\ 1..0 = {}
  BY DEF Elements, Waiting, NoCall
<1>8. ExportReaders \subseteq Readers /\ ExternReaders \subseteq Readers
  BY DEF ExportReaders, ExternReaders, Readers
<1>9. \A n \in Readers : Increasing(Got(n))'
  <2>1. \A n \in Readers : Len(Got(n)') = 0
    BY <1>5, <1>7
  <2>2. \A n \in Readers : 1..Len(Got(n)') = {}
    BY <2>1
  <2> QED BY <2>2 DEF Increasing
<1>10. \A n \in Readers : missed[n] = {}
  BY <1>4, <1>7 DEF FlowInv, ExportInv
<1>11. ExportInv'
  BY <1>2, <1>4, <1>5, <1>7, <1>8, <1>9, <1>10 DEF ExportInv
<1>12. Elements(received'["select"]) = {}
  <2>1. Elements(received["select"]) \subseteq Elements(Got("select"))
    BY GotBound DEF Readers
  <2> QED BY <1>2, <1>4, <1>7, <2>1 DEF Readers
<1>13. Passed({})' = {}
  BY DEF Passed
<1>14. ExternInv'
  BY <1>2, <1>4, <1>5, <1>7, <1>8, <1>9, <1>12, <1>13 DEF ExternInv
<1> QED BY <1>6, <1>11, <1>14 DEF FlowInv

(* Every step keeps FlowInv.                                               *)
LEMMA FlowStep ==
    ASSUME FlowInv, [BeylaNext]_beylaVars
    PROVE  FlowInv'
<1>1. CASE UNCHANGED beylaVars
  BY <1>1, OtherStep DEF beylaVars, instrumenterVars, processVars, FlowInv, StartInv
<1>2. CASE LoadConfig \/ ValidateConfig
  BY <1>2, OtherStep DEF LoadConfig, ValidateConfig, instrumenterVars, FlowInv, StartInv
<1>3. CASE LoadRefused \/ ConfigRefused \/ StartRefused \/ Exit
  BY <1>3, OtherStep DEF LoadRefused, ConfigRefused, StartRefused, exitEarly, Exit,
     instrumenterVars, FlowInv, StartInv
<1>4. CASE RunBeyla
  <2>1. phase = "valid" /\ phase' = "running" /\ UNCHANGED <<cancelled, forwardVars>>
    BY <1>4 DEF RunBeyla
  <2> QED BY <2>1, OtherStep DEF FlowInv, StartInv
<1>5. CASE \/ \E a \in Agents : AgentFails(a) \/ AgentStops(a)
           \/ WebhookServes \/ WebhookGivesUp
  BY <1>5, OtherStep DEF AgentFails, AgentStops, WebhookServes, WebhookGivesUp,
     agentBecomes, instrumenterVars, FlowInv, StartInv
<1>6. CASE Terminate \/ GroupCancels
  BY <1>6, OtherStep DEF Terminate, GroupCancels, processVars, FlowInv, StartInv
<1>7. CASE AppFails
  <2>1. phase' = "running" /\ stage' = "error" /\ UNCHANGED forwardVars
    BY <1>7 DEF AppFails, AppFaults, NewFails, FinderFails, EventPipelineFails, StopTimesOut
  <2>2. cancelled' = cancelled
    BY <1>7 DEF AppFails, AppFaults, NewFails, FinderFails, EventPipelineFails, StopTimesOut
  <2> QED BY <2>1, <2>2, OtherStep
<1>8. CASE AppNext /\ AppFrame
  <2>1. phase = "running" /\ phase' = phase
    BY <1>8 DEF AppFrame, processVars
  <2>2. CASE ReadAndForward \/ \E kube \in BOOLEAN : NewInstrumenter(kube)
    BY <2>1, <2>2, BuildStep
  <2>3. CASE \/ FindAndInstrument \/ PipelineDone \/ StopReturns
             \/ \E t \in Tracers : FinderFinds(t) \/ TracerStarts(t) \/ TracerUnloads(t)
             \/ LoopReturns \/ TracersWaited
    <3>1. UNCHANGED <<cancelled, forwardVars>>
      BY <2>3 DEF FindAndInstrument, PipelineDone, StopReturns, FinderFinds, TracerStarts,
         TracerUnloads, LoopReturns, TracersWaited
    <3>2. stage' \in {"new", "find", "ready"} => stage \in {"new", "find", "ready"}
      BY <2>3 DEF FindAndInstrument, PipelineDone, StopReturns, FinderFinds, TracerStarts,
         TracerUnloads, LoopReturns, TracersWaited
    <3>3. stage' \in {"new", "find", "ready"} => obi = "off"
      BY <3>2 DEF FlowInv, StartInv
    <3> QED BY <2>1, <3>1, <3>3, OtherStep
  <2> QED BY <1>8, <2>2, <2>3 DEF AppNext, AppMain
<1>9. CASE (ForwardNext \/ ObiNext) /\ FlowFrame
  <2>1. UNCHANGED <<phase, stage>>
    BY <1>9 DEF FlowFrame, AppFrame, processVars
  <2>2. ASSUME NEW batch \in Batches, ObiSends(batch) PROVE FlowInv'
    BY <2>1, <2>2, SendStep
  <2>3. CASE ObiDelivers
    BY <2>1, <2>3, DeliverStep
  <2>4. CASE ObiTimesOut \/ ObiInterrupted \/ ObiStops
    BY <2>1, <2>4, TimeoutStopStep
  <2>5. CASE ObiNodeReturns \/ ExporterStarts \/ ExporterFails
    <3>1. PICK n \in Nodes, to \in {"running", "returned"} :
            node[n] # "off" /\ node' = [node EXCEPT ![n] = to]
      BY <2>5 DEF ObiNodeReturns, ExporterStarts, ExporterFails, Nodes, Readers
    <3>2. UNCHANGED <<cancelled, flowVars>>
      BY <2>5 DEF ObiNodeReturns, ExporterStarts, ExporterFails
    <3>3. externClosed \in BOOLEAN
      BY DEF FlowInv, FlowType
    <3> QED BY <2>1, <3>1, <3>2, <3>3, NodeStep DEF flowVars
  <2>6. ASSUME NEW n \in Readers, TerminalReceives(n) PROVE FlowInv'
    BY <2>1, <2>6, TerminalStep
  <2>7. ASSUME NEW n \in Readers, ReaderReturns(n) PROVE FlowInv'
    <3>1. /\ n \in Nodes /\ node[n] # "off" /\ node' = [node EXCEPT ![n] = "returned"]
          /\ externClosed' \in BOOLEAN
          /\ UNCHANGED <<cancelled, obi, sent, chans, exportCall, externCall, received, missed>>
      BY <2>7 DEF ReaderReturns, Nodes
    <3> QED BY <2>1, <3>1, NodeStep
  <2>8. CASE SelectReceives
    BY <2>1, <2>8, SelectStep
  <2>9. CASE SelectDelivers
    BY <2>1, <2>9, ExternDeliverStep
  <2>10. CASE SelectTimesOut
    BY <2>1, <2>10, ExternTimeoutStep
  <2> QED BY <1>9, <2>2, <2>3, <2>4, <2>5, <2>6, <2>7, <2>8, <2>9, <2>10
          DEF ForwardNext, ObiNext
<1> QED BY <1>1, <1>2, <1>3, <1>4, <1>5, <1>6, <1>7, <1>8, <1>9 DEF BeylaNext

(* The pipeline is empty at first.                                         *)
LEMMA FlowInit ==
    ASSUME BeylaInit
    PROVE  FlowInv
<1>1. /\ node = [n \in Nodes |-> "off"] /\ obi = "off" /\ sent = <<>>
      /\ chans = [n \in Readers |-> <<>>] /\ received = [n \in Readers |-> <<>>]
      /\ exportCall = NoCall /\ externCall = NoCall /\ externClosed = FALSE
      /\ missed = [n \in Readers |-> {}] /\ stage = "off"
  BY DEF BeylaInit, InstrumenterInit, ForwardInit, Export!Idle, Extern!Idle, NoCall
<1>2. Elements(<<>>) = {} /\ Distinct(<<>>) /\ <<>> \in Seq(Readers) /\ <<>> \in Seq(Nat)
  BY DEF Elements, Distinct
<1>3. CallOK(NoCall) /\ Waiting(NoCall) = {}
  BY <1>2 DEF CallOK, NoCall, Waiting
<1>4. \A n \in Readers : Got(n) = <<>> /\ received[n] = <<>>
  BY <1>1, <1>2, ConcatEmptySeq DEF Got
<1>5. Len(<<>>) = 0 /\ 1..0 = {} /\ Increasing(<<>>)
  BY DEF Increasing
<1>6. FlowType
  <2>1. chans \in [Readers -> Seq(Nat)] /\ received \in [Readers -> Seq(Nat)]
    BY <1>1, <1>2
  <2>2. \A n \in Readers : chans[n] = <<>>
    BY <1>1
  <2>3. \A n \in Readers : Len(chans[n]) <= ChannelBufferLen
    BY <1>5, <2>2, ForwardAssumption
  <2>4. node \in [Nodes -> {"off", "built", "starting", "running", "returned"}]
    BY <1>1
  <2>5. sent \in Seq(Batches)
    BY <1>1
  <2> QED BY <1>1, <1>3, <2>1, <2>3, <2>4, <2>5 DEF FlowType
<1>7. StartInv
  BY <1>1, <1>4 DEF StartInv
<1>8. ExportInv
  <2>1. \A n \in Readers : missed[n] = {}
    BY <1>1
  <2> QED BY <1>1, <1>2, <1>3, <1>4, <1>5, <2>1 DEF ExportInv, ExportReaders, Readers
<1>9. ExternInv
  <2>1. received["select"] = <<>> /\ Passed({}) = {}
    BY <1>4 DEF Readers, Passed
  <2> QED BY <1>1, <1>2, <1>3, <1>4, <1>5, <2>1 DEF ExternInv, ExternReaders, Readers
<1> QED BY <1>6, <1>7, <1>8, <1>9 DEF FlowInv

-----------------------------------------------------------------------------
(* The queues.                                                             *)

(* What FlowInv says of the order.                                         *)
LEMMA InOrder ==
    ASSUME FlowInv
    PROVE  QueuesInOrder
<1> DEFINE due(n) == {b \in 1..Len(sent) : n \in ExportReaders \/ filter(b) # {}}
           source(n) == IF n = "receiver" THEN n ELSE "select"
<1> SUFFICES ASSUME NEW n \in Readers
             PROVE  \A i \in DOMAIN Got(n) :
                      /\ Got(n)[i] \in due(n)
                      /\ \A j \in DOMAIN Got(n) : i < j => Got(n)[i] < Got(n)[j]
                      /\ \A b \in due(n) : b < Got(n)[i] =>
                           \/ \E j \in DOMAIN Got(n) : Got(n)[j] = b
                           \/ cancelled /\ b \in missed[source(n)]
  <2>1. \A b : filter(b) # {} <=>
                 \E i \in DOMAIN sent[b] : sent[b][i].external /\ sent[b][i].exportable
    BY DEF filter
  <2> QED BY <2>1 DEF QueuesInOrder, Got, ExportReaders
<1>1. /\ DOMAIN Got(n) = 1..Len(Got(n)) /\ Len(Got(n)) \in Nat /\ Len(sent) \in Nat
      /\ \A i \in 1..Len(Got(n)) : Got(n)[i] \in 1..Len(sent)
  BY GotType, ShortSequence, GotBound DEF FlowInv, FlowType
<1>2. \A r \in Readers : /\ missed[r] \subseteq 1..Len(sent)
                         /\ missed[r] # {} => cancelled
  BY DEF FlowInv, ExportInv
<1>3. ASSUME NEW r \in ExportReaders, NEW m \in Elements(Got(r)), NEW b \in 1..Len(sent), b < m
      PROVE  b \in Elements(Got(r)) \/ (cancelled /\ b \in missed[r])
  <2>0. r \in Readers
    BY DEF ExportReaders, Readers
  <2>1. Elements(<<>>) = {}
    BY DEF Elements
  <2>2. node[r] # "off"
    BY <1>3, <2>1 DEF FlowInv, ExportInv
  <2>3. Elements(Got(r)) = (1..Len(sent)) \ (missed[r] \cup
                             (IF r \in Waiting(exportCall) THEN {Len(sent)} ELSE {}))
    BY <2>2 DEF FlowInv, ExportInv
  <2>4. b # Len(sent)
    BY <1>1, <1>3, <2>3
  <2> QED BY <1>2, <1>3, <2>0, <2>3, <2>4
<1>4. CASE n \in ExportReaders
  <2>1. source(n) = n
    BY <1>4 DEF ExportReaders
  <2>2. Increasing(Got(n))
    BY <1>4 DEF FlowInv, ExportInv
  <2>3. ASSUME NEW i \in DOMAIN Got(n), NEW b \in due(n), b < Got(n)[i]
        PROVE  \/ \E j \in DOMAIN Got(n) : Got(n)[j] = b
               \/ cancelled /\ b \in missed[source(n)]
    <3>1. Got(n)[i] \in Elements(Got(n)) /\ b \in 1..Len(sent)
      BY <2>3 DEF Elements
    <3>2. b \in Elements(Got(n)) \/ (cancelled /\ b \in missed[n])
      BY <1>3, <1>4, <2>3, <3>1
    <3> QED BY <2>1, <3>2 DEF Elements
  <2> QED BY <1>1, <1>4, <2>2, <2>3 DEF Increasing
<1>5. CASE n \in ExternReaders
  <2>1. source(n) = "select" /\ "select" \in Readers /\ "select" \in ExportReaders
    BY <1>5 DEF ExternReaders, ExportReaders, Readers
  <2>2. Increasing(Got(n)) /\ Increasing(Got("select"))
    BY <1>5, <2>1 DEF FlowInv, ExternInv, ExportInv
  <2>3. PICK R : R = Elements(received["select"])
    OBVIOUS
  <2>4. R \subseteq 1..Len(sent) /\ R \subseteq Elements(Got("select"))
    BY <2>3, GotBound
  <2>5. ASSUME NEW i \in DOMAIN Got(n), node[n] # "off"
        PROVE  /\ Got(n)[i] \in R /\ filter(Got(n)[i]) # {}
               /\ \A b \in R : b < Got(n)[i] /\ filter(b) # {} => b \in Elements(Got(n))
    <3>1. Elements(Got(n)) =
            Passed(R) \ (IF n \in Waiting(externCall) THEN {externCall.msg} ELSE {})
      BY <1>5, <2>3, <2>5 DEF FlowInv, ExternInv
    <3>2. Got(n)[i] \in Elements(Got(n))
      BY <2>5 DEF Elements
    <3>3. Got(n)[i] \in R /\ filter(Got(n)[i]) # {}
      BY <3>1, <3>2 DEF Passed
    <3>4. ASSUME NEW b \in R, b < Got(n)[i], filter(b) # {}, b \notin Elements(Got(n))
          PROVE  FALSE
      <4>1. n \in Waiting(externCall) /\ b = externCall.msg
        BY <3>1, <3>4 DEF Passed
      <4>2. externCall # NoCall
        <5>1. Waiting(NoCall) = {}
          BY DEF NoCall, Waiting, Elements
        <5> QED BY <4>1, <5>1
      <4>3. \A a \in R : a <= b
        BY <2>3, <4>1, <4>2 DEF FlowInv, ExternInv
      <4>4. PICK m \in Nat : m = Got(n)[i] /\ m \in R
        BY <1>1, <2>4, <3>3
      <4>5. m <= b /\ b \in Nat /\ b < m
        BY <1>1, <2>4, <3>4, <4>3, <4>4
      <4> QED BY <4>4, <4>5
    <3> QED BY <3>3, <3>4
  <2>6. ASSUME NEW m \in R, NEW b \in Elements(Got("select")), b < m
        PROVE  b \in R
    <3>1. PICK k \in Nat, l \in Nat : k = Len(received["select"]) /\ l = Len(chans["select"])
      BY <2>1, GotType DEF FlowInv
    <3>2. /\ DOMAIN Got("select") = 1..(k + l) /\ Len(Got("select")) = k + l
          /\ DOMAIN received["select"] = 1..k
          /\ \A i \in 1..k : Got("select")[i] = received["select"][i]
      <4>1. received["select"] \in Seq(Nat)
        BY <2>1, GotType DEF FlowInv
      <4>2. DOMAIN received["select"] = 1..k
        BY <3>1, <4>1, LenProperties
      <4> QED BY <2>1, <3>1, <4>2, GotType DEF FlowInv
    <3>3. PICK i \in 1..k : m = Got("select")[i]
      BY <2>3, <2>6, <3>2 DEF Elements
    <3>4. PICK j \in 1..(k + l) : b = Got("select")[j]
      BY <2>6, <3>2 DEF Elements
    <3>5. m \in Nat /\ b \in Nat
      <4>1. Elements(Got("select")) \subseteq 1..Len(sent)
        BY <2>1, GotBound
      <4> QED BY <2>4, <2>6, <4>1
    <3>6. ~(i <= j)
      <4>1. CASE i = j
        BY <2>6, <3>3, <3>4, <3>5, <4>1
      <4>2. CASE i < j
        <5>1. i \in 1..Len(Got("select")) /\ j \in 1..Len(Got("select"))
          BY <3>2
        <5>2. m < b
          BY <2>2, <3>3, <3>4, <4>2, <5>1 DEF Increasing
        <5> QED BY <2>6, <3>5, <5>2
      <4> QED BY <4>1, <4>2
    <3>7. j \in 1..k
      BY <3>6
    <3> QED BY <2>3, <3>2, <3>4, <3>7 DEF Elements
  <2>7. ASSUME NEW i \in DOMAIN Got(n), node[n] # "off", NEW b \in due(n), b < Got(n)[i]
        PROVE  \/ \E j \in DOMAIN Got(n) : Got(n)[j] = b
               \/ cancelled /\ b \in missed[source(n)]
    <3>1. b \in 1..Len(sent) /\ filter(b) # {}
      <4>1. n \notin ExportReaders
        BY <1>5 DEF ExportReaders, ExternReaders
      <4> QED BY <2>7, <4>1
    <3>2. PICK m : m = Got(n)[i]
      OBVIOUS
    <3>3. m \in R /\ m \in Elements(Got("select")) /\ b < m
      BY <2>4, <2>5, <2>7, <3>2
    <3>4. b \in Elements(Got("select")) \/ (cancelled /\ b \in missed["select"])
      BY <1>3, <2>1, <3>1, <3>3
    <3>5. CASE b \in Elements(Got("select"))
      <4>1. b \in R
        BY <2>6, <3>3, <3>5
      <4>2. b \in Elements(Got(n))
        BY <2>5, <2>7, <3>1, <4>1
      <4> QED BY <4>2 DEF Elements
    <3> QED BY <2>1, <3>4, <3>5
  <2>8. CASE node[n] = "off"
    <3>1. Got(n) = <<>>
      BY <1>5, <2>8 DEF FlowInv, ExternInv
    <3> QED BY <3>1
  <2>9. CASE node[n] # "off"
    <3>1. \A i \in DOMAIN Got(n) : Got(n)[i] \in due(n)
      BY <1>1, <2>5, <2>9
    <3> QED BY <1>1, <2>2, <2>7, <2>9, <3>1 DEF Increasing
  <2> QED BY <2>8, <2>9
<1> QED BY <1>4, <1>5 DEF Readers, ExportReaders, ExternReaders

(* Queues repeat and reorder nothing, and leave out only what the end of   *)
(* the context took from a call, for any batches, any number of            *)
(* them, any capacity of the channels and any choice of nodes.             *)
THEOREM QueuesInOrderCorrect == BeylaSpec => []QueuesInOrder
<1>1. BeylaInit => FlowInv
  BY FlowInit
<1>2. FlowInv /\ [BeylaNext]_beylaVars => FlowInv'
  BY FlowStep
<1>3. FlowInv => QueuesInOrder
  BY InOrder
<1> QED BY <1>1, <1>2, <1>3, PTL DEF BeylaSpec
-----------------------------------------------------------------------------
(* The types.                                                              *)

(* The types of the variables of the life cycle.                           *)
ProcessType ==
    /\ cancelled \in BOOLEAN
    /\ stage \in {"off", "new", "find", "ready", "forward", "stop", "ok", "error"}
    /\ tracer \in [Tracers -> {"none", "found", "running", "unloaded"}]
    /\ phase \in {"load", "loaded", "valid", "running", "exited"}
    /\ agent \in [Agents -> {"off", "waiting", "running", "ok", "error"}]
    /\ faults \subseteq Component \cup {"main"}
    /\ status \in {0, 0 - 1}

LEMMA ProcessTypeStep ==
    ASSUME ProcessType, [BeylaNext]_beylaVars
    PROVE  ProcessType'
<1>1. CASE LoadConfig \/ ValidateConfig \/ Exit
  BY <1>1 DEF LoadConfig, ValidateConfig, Exit, instrumenterVars, tracerVars, ProcessType
<1>2. CASE exitEarly
  BY <1>2 DEF exitEarly, instrumenterVars, tracerVars, ProcessType
<1>3. CASE RunBeyla
  <2>1. /\ phase' = "running" /\ stage' \in {"new", "off"}
        /\ agent' \in [Agents -> {"off", "waiting", "running", "ok", "error"}]
        /\ UNCHANGED <<cancelled, tracer, faults, status>>
    BY <1>3 DEF RunBeyla, tracerVars
  <2> QED BY <2>1 DEF ProcessType
<1>4. ASSUME NEW a \in Agents, NEW from, NEW to \in {"running", "ok", "error"},
             NEW fault \in SUBSET Agents, agentBecomes(a, from, to, fault)
      PROVE  ProcessType'
  <2>1. fault \subseteq Component
    BY DEF Agents
  <2> QED BY <1>4, <2>1 DEF agentBecomes, instrumenterVars, tracerVars, ProcessType
<1>5. CASE \/ \E a \in Agents : AgentFails(a) \/ AgentStops(a)
           \/ WebhookServes \/ WebhookGivesUp
  <2>1. "webhook" \in Agents
    BY DEF Agents, Component
  <2>2. ASSUME NEW a \in Agents, AgentFails(a) PROVE ProcessType'
    BY <1>4, <2>2 DEF AgentFails
  <2>3. ASSUME NEW a \in Agents, AgentStops(a) PROVE ProcessType'
    BY <1>4, <2>3 DEF AgentStops
  <2>4. CASE WebhookServes
    BY <1>4, <2>1, <2>4 DEF WebhookServes
  <2>5. CASE WebhookGivesUp
    BY <1>4, <2>1, <2>5 DEF WebhookGivesUp
  <2> QED BY <1>5, <2>2, <2>3, <2>4, <2>5
<1>6. CASE Terminate \/ GroupCancels
  BY <1>6 DEF Terminate, GroupCancels, processVars, tracerVars, ProcessType
<1>7. CASE AppFails
  <2>1. /\ stage' = "error" /\ faults' = faults \cup {"app"}
        /\ UNCHANGED <<cancelled, tracer, phase, agent, status>>
    BY <1>7 DEF AppFails, AppFaults, NewFails, FinderFails, EventPipelineFails, StopTimesOut,
       tracerVars
  <2>2. "app" \in Component
    BY DEF Component
  <2> QED BY <2>1, <2>2 DEF ProcessType
<1>8. CASE AppMain /\ AppFrame
  <2>1. /\ stage' \in {"find", "ready", "forward", "stop", "ok"}
        /\ UNCHANGED <<cancelled, tracer, phase, agent, faults, status>>
    BY <1>8 DEF AppMain, NewInstrumenter, FindAndInstrument, ReadAndForward, PipelineDone,
       StopReturns, tracerVars, AppFrame, processVars
  <2> QED BY <2>1 DEF ProcessType
<1>9. ASSUME AppFrame, NEW t \in Tracers, FinderFinds(t) \/ TracerStarts(t) \/ TracerUnloads(t)
      PROVE  ProcessType'
  BY <1>9 DEF FinderFinds, TracerStarts, TracerUnloads, AppFrame, processVars, ProcessType
<1>10. CASE (LoopReturns \/ TracersWaited) /\ AppFrame
  BY <1>10 DEF LoopReturns, TracersWaited, AppFrame, processVars, ProcessType
<1>11. CASE (ForwardNext \/ ObiNext) /\ FlowFrame
  <2>1. UNCHANGED <<stage, tracer, phase, agent, faults, status>>
    BY <1>11 DEF FlowFrame, AppFrame, processVars, tracerVars
  <2>2. UNCHANGED cancelled
    BY <1>11 DEF ForwardNext, ObiNext, ObiSends, ObiInterrupted, ObiStops, ObiDelivers, ObiTimesOut,
       ObiNodeReturns, TerminalReceives, ReaderReturns, SelectReceives, SelectDelivers,
       SelectTimesOut, ExporterStarts, ExporterFails
  <2> QED BY <2>1, <2>2 DEF ProcessType
<1>12. CASE UNCHANGED beylaVars
  BY <1>12 DEF beylaVars, instrumenterVars, tracerVars, processVars, ProcessType
<1> QED BY <1>1, <1>2, <1>3, <1>5, <1>6, <1>7, <1>8, <1>9, <1>10, <1>11, <1>12
        DEF BeylaNext, AppNext, LoadRefused, ConfigRefused, StartRefused

(* Types of the variables: in particular a channel never holds more than   *)
(* its capacity, and nothing but the numbers of batches that were sent.    *)
THEOREM BeylaTypeCorrect == BeylaSpec => []BeylaTypeOK
<1>1. BeylaInit => FlowInv /\ ProcessType
  <2>1. BeylaInit => ProcessType
    BY DEF BeylaInit, InstrumenterInit, ForwardInit, ProcessType
  <2> QED BY <2>1, FlowInit
<1>2. FlowInv /\ ProcessType /\ [BeylaNext]_beylaVars => FlowInv' /\ ProcessType'
  BY FlowStep, ProcessTypeStep
<1>3. FlowInv /\ ProcessType => BeylaTypeOK
  <2> SUFFICES ASSUME FlowInv, ProcessType PROVE BeylaTypeOK
    OBVIOUS
  <2>1. ASSUME NEW n \in Readers
        PROVE  chans[n] \in Seq(1..Len(sent)) /\ Len(chans[n]) <= ChannelBufferLen
    <3>1. PICK k \in Nat, l \in Nat : k = Len(received[n]) /\ l = Len(chans[n])
      BY GotType DEF FlowInv
    <3>2. /\ chans[n] \in Seq(Nat) /\ Len(Got(n)) = k + l
          /\ \A i \in 1..l : Got(n)[k + i] = chans[n][i]
      BY <3>1, GotType DEF FlowInv
    <3>3. ASSUME NEW i \in 1..l PROVE chans[n][i] \in 1..Len(sent)
      <4>1. k + i \in 1..(k + l)
        BY <3>3
      <4> QED BY <3>2, <4>1, GotBound
    <3>4. chans[n] = [i \in 1..l |-> chans[n][i]]
      BY <3>1, <3>2, LenProperties
    <3>5. chans[n] \in [1..l -> 1..Len(sent)]
      BY <3>3, <3>4
    <3>6. chans[n] \in Seq(1..Len(sent))
      BY <3>5, SeqDef
    <3> QED BY <3>6 DEF FlowInv, FlowType
  <2>2. \A n \in Readers : missed[n] \subseteq 1..Len(sent)
    <3>1. ExportInv
      BY DEF FlowInv
    <3> QED BY <3>1 DEF ExportInv
  <2> QED BY <2>1, <2>2 DEF FlowInv, FlowType, ProcessType, BeylaTypeOK
<1> QED BY <1>1, <1>2, <1>3, PTL DEF BeylaSpec

-----------------------------------------------------------------------------
(* The connection spans.                                                   *)

(* the exporter that a builder works for                                   *)
Exporter(n) == IF n = "connReceiver" THEN "alloy" ELSE "otlp"

(* the spans of batch b that builder n should hand on                      *)
Exact(n, b) == {<<b, i>> : i \in {j \in DOMAIN sent[b] :
                                     /\ sent[b][j].external
                                     /\ sent[b][j].exportable
                                     /\ Exporter(n) \in sent[b][j].selected}}

HandedInv ==
    /\ handed = [n \in Readers |-> handed[n]]
    /\ \A n \in ExternReaders : handed[n] = UNION {Exact(n, b) : b \in Elements(received[n])}

(* A builder hands on its exact spans: SelectExternal has left no span     *)
(* whose mode forbids it, so that the first span of a service, which       *)
(* decides for the others, lets all of them pass.                          *)
LEMMA HandsOnExact ==
    ASSUME sent \in Seq(Batches), NEW b \in 1..Len(sent), NEW n \in ExternReaders
    PROVE  HandsOn(n, b) = Exact(n, b)
<1>1. sent[b] \in Seq(Span)
  BY ElementOfSeq, ForwardAssumption
<1>2. PICK s \in Seq(Span) : s = sent[b]
  BY <1>1
<1>3. /\ Len(s) \in Nat /\ DOMAIN s = 1..Len(s)
      /\ \A i \in DOMAIN s : s[i] \in Span
  BY LenProperties, ElementOfSeq
<1> DEFINE F == {i \in DOMAIN s : s[i].exportable /\ s[i].external}
           x == Exporter(n)
           shown == {i \in F : x \in s[i].selected}
           G == {{i \in shown : s[i].uid = u} : u \in {s[i].uid : i \in shown}}
<1>4. filter(b) = F /\ Groups(b, filter(b), x) = G
  BY <1>2 DEF filter, Groups
<1>5. UNION G = shown
  <2>1. ASSUME NEW i \in shown PROVE i \in UNION G
    <3>1. {j \in shown : s[j].uid = s[i].uid} \in G /\ i \in {j \in shown : s[j].uid = s[i].uid}
      BY <2>1
    <3> QED BY <3>1
  <2>2. \A g \in G : g \subseteq shown
    OBVIOUS
  <2> QED BY <2>1, <2>2
<1>6. Exact(n, b) = {<<b, i>> : i \in shown}
  BY <1>2 DEF Exact
<1>7. \A g \in G : sample(b, g).exportable
  <2> SUFFICES ASSUME NEW g \in G PROVE sample(b, g).exportable
    OBVIOUS
  <2>1. g # {} /\ g \subseteq shown /\ g \in SUBSET Nat
    BY <1>3
  <2>2. \E i \in g : \A j \in g : i <= j
    BY <2>1, LeastExists
  <2>3. (CHOOSE i \in g : \A j \in g : i <= j) \in g
    BY <2>2
  <2> QED BY <1>2, <2>1, <2>3 DEF sample
<1>8. {g \in G : sample(b, g).exportable} = G
  BY <1>7
<1> HIDE DEF G, shown, x
<1>9. CASE n = "connExport"
  <2>1. x = "otlp"
    BY <1>9 DEF x, Exporter
  <2> QED BY <1>4, <1>5, <1>6, <1>9, <2>1 DEF HandsOn
<1>10. CASE n = "connReceiver"
  <2>1. x = "alloy"
    BY <1>10 DEF x, Exporter
  <2> QED BY <1>4, <1>5, <1>6, <1>8, <1>10, <2>1 DEF HandsOn
<1> QED BY <1>9, <1>10 DEF ExternReaders
(* Every step keeps HandedInv.                                             *)
LEMMA HandedStep ==
    ASSUME FlowInv, HandedInv, [BeylaNext]_beylaVars
    PROVE  HandedInv'
<1>0. FlowType /\ sent \in Seq(Batches) /\ ExternReaders \subseteq Readers
  BY DEF FlowInv, FlowType, ExternReaders, Readers
<1>1. \A n \in ExternReaders : \A b \in Elements(received[n]) : b \in 1..Len(sent)
  <2> SUFFICES ASSUME NEW n \in ExternReaders, NEW b \in Elements(received[n])
               PROVE  b \in 1..Len(sent)
    OBVIOUS
  <2>0. n \in Readers
    BY <1>0
  <2>1. /\ received[n] \in Seq(Nat) /\ DOMAIN received[n] = 1..Len(received[n])
        /\ \A i \in 1..Len(received[n]) : Got(n)[i] = received[n][i]
        /\ Len(received[n]) \in Nat /\ Len(chans[n]) \in Nat
        /\ Len(Got(n)) = Len(received[n]) + Len(chans[n])
    BY <1>0, <2>0, GotType, LenProperties
  <2>2. PICK i \in 1..Len(received[n]) : b = received[n][i]
    BY <2>1 DEF Elements
  <2>3. PICK x \in Nat, y \in Nat : x = Len(received[n]) /\ y = Len(chans[n])
    BY <2>1
  <2>4. i \in 1..Len(Got(n))
    <3>1. i \in 1..x /\ Len(Got(n)) = x + y
      BY <2>1, <2>2, <2>3
    <3>2. i \in 1..(x + y)
      BY <3>1
    <3> QED BY <3>1, <3>2
  <2> QED BY <2>0, <2>1, <2>2, <2>4, GotBound
<1>2. ASSUME UNCHANGED <<sent, received, handed>> PROVE HandedInv'
  BY <1>2 DEF HandedInv, Exact
<1>3. ASSUME NEW batch \in Batches, ObiSends(batch) PROVE HandedInv'
  <2>1. sent' = Append(sent, batch) /\ UNCHANGED <<received, handed>>
    BY <1>3 DEF ObiSends
  <2>2. ASSUME NEW n \in ExternReaders, NEW b \in Elements(received[n])
        PROVE  Exact(n, b)' = Exact(n, b)
    <3>1. sent'[b] = sent[b]
      BY <1>0, <1>1, <2>1, <2>2, FilterKept
    <3> QED BY <3>1 DEF Exact
  <2>3. ASSUME NEW n \in ExternReaders
        PROVE  handed'[n] = UNION {Exact(n, b)' : b \in Elements(received'[n])}
    <3>1. handed[n] = UNION {Exact(n, b) : b \in Elements(received[n])}
      BY DEF HandedInv
    <3>2. {Exact(n, b)' : b \in Elements(received[n])} = {Exact(n, b) : b \in Elements(received[n])}
      BY <2>2
    <3>3. received'[n] = received[n] /\ handed'[n] = handed[n]
      BY <2>1
    <3> QED BY <3>1, <3>2, <3>3
  <2> QED BY <2>1, <2>3 DEF HandedInv
<1>4. ASSUME NEW n \in Readers, take(n), UNCHANGED sent PROVE HandedInv'
  <2>1. PICK m \in Nat : m = Head(chans[n])
    BY <1>0, <1>4, TakeChannel
  <2>2. /\ \A r \in Readers \ {n} : received'[r] = received[r]
        /\ received'[n] = Append(received[n], m)
        /\ received[n] \in Seq(Nat)
    BY <1>0, <1>4, <2>1, TakeChannel, GotType
  <2>3. m \in 1..Len(sent)
    <3>1. /\ Len(received[n]) + 1 \in 1..Len(Got(n))
          /\ m = Got(n)[Len(received[n]) + 1]
      BY <1>0, <1>4, <2>1, TakeChannel
    <3> QED BY <3>1, GotBound
  <2>4. PICK H : H = HandsOn(n, m)
    OBVIOUS
  <2>5. handed' = [handed EXCEPT ![n] = @ \cup H]
    BY <1>4, <2>1, <2>4 DEF take
  <2>6. /\ handed' = [r \in Readers |-> handed'[r]]
        /\ handed'[n] = handed[n] \cup H
        /\ \A r \in Readers \ {n} : handed'[r] = handed[r]
    BY <2>5 DEF HandedInv
  <2>7. \A r, b : Exact(r, b)' = Exact(r, b)
    BY <1>4 DEF Exact
  <2>8. ASSUME NEW r \in ExternReaders
        PROVE  handed'[r] = UNION {Exact(r, b) : b \in Elements(received'[r])}
    <3>1. CASE r # n
      BY <1>0, <2>2, <2>6, <3>1 DEF HandedInv
    <3>2. CASE r = n
      <4>1. Elements(received'[r]) = Elements(received[r]) \cup {m}
        <5>1. PICK q \in Seq(Nat) : q = received[n]
          BY <2>2
        <5>2. Elements(Append(q, m)) = Elements(q) \cup {m}
          BY AppendElements
        <5> QED BY <2>2, <3>2, <5>1, <5>2
      <4>2. H = Exact(r, m)
        BY <1>0, <2>3, <2>4, <3>2, HandsOnExact
      <4>3. handed[r] = UNION {Exact(r, b) : b \in Elements(received[r])}
        BY DEF HandedInv
      <4> QED BY <2>6, <3>2, <4>1, <4>2, <4>3
    <3> QED BY <3>1, <3>2
  <2> QED BY <2>6, <2>7, <2>8 DEF HandedInv
<1>5. ASSUME NEW n \in Readers, TerminalReceives(n) PROVE HandedInv'
  BY <1>4, <1>5 DEF TerminalReceives
<1>6. CASE SelectReceives
  <2>1. "select" \in Readers
    BY DEF Readers
  <2> QED BY <1>4, <1>6, <2>1 DEF SelectReceives
<1>7. CASE \/ ObiInterrupted \/ ObiStops \/ ObiDelivers \/ ObiTimesOut \/ ObiNodeReturns
           \/ \E n \in Readers : ReaderReturns(n)
           \/ SelectDelivers \/ SelectTimesOut \/ ExporterStarts \/ ExporterFails
  BY <1>2, <1>7 DEF ObiInterrupted, ObiStops, ObiDelivers, ObiTimesOut, ObiNodeReturns, ReaderReturns,
     SelectDelivers, SelectTimesOut, ExporterStarts, ExporterFails, flowVars
<1>8. CASE AppNext \/ AppFails
  BY <1>2, <1>8 DEF AppNext, AppMain, NewInstrumenter, FindAndInstrument, ReadAndForward,
     PipelineDone, StopReturns, FinderFinds, TracerStarts, TracerUnloads,
     LoopReturns, TracersWaited, AppFails, AppFaults, NewFails, FinderFails,
     EventPipelineFails, StopTimesOut, forwardVars, flowVars
<1>9. CASE \/ LoadConfig \/ LoadRefused \/ ValidateConfig \/ ConfigRefused \/ StartRefused
           \/ RunBeyla \/ (\E a \in Agents : AgentFails(a) \/ AgentStops(a))
           \/ WebhookServes \/ WebhookGivesUp \/ Terminate \/ GroupCancels \/ Exit
           \/ UNCHANGED beylaVars
  BY <1>2, <1>9 DEF LoadConfig, LoadRefused, ValidateConfig, ConfigRefused, StartRefused,
     exitEarly, RunBeyla, AgentFails, AgentStops, WebhookServes, WebhookGivesUp,
     agentBecomes, Terminate, GroupCancels, Exit, beylaVars, instrumenterVars, forwardVars,
     flowVars
<1> QED BY <1>3, <1>5, <1>6, <1>7, <1>8, <1>9 DEF BeylaNext, ForwardNext, ObiNext

(* Each builder of connection spans hands on the external spans that its   *)
(* exporter reports and whose mode allows it, and no others, whatever the  *)
(* batches are.                                                            *)
THEOREM ConnectionSpansExactCorrect == BeylaSpec => []ConnectionSpansExact
<1>1. BeylaInit => FlowInv /\ HandedInv
  <2> SUFFICES ASSUME BeylaInit PROVE HandedInv
    BY FlowInit
  <2>1. /\ handed = [n \in Readers |-> {}] /\ received = [n \in Readers |-> <<>>]
        /\ ExternReaders \subseteq Readers
    BY DEF BeylaInit, InstrumenterInit, ForwardInit, ExternReaders, Readers
  <2>2. Elements(<<>>) = {}
    BY DEF Elements
  <2> QED BY <2>1, <2>2 DEF HandedInv
<1>2. FlowInv /\ HandedInv /\ [BeylaNext]_beylaVars => FlowInv' /\ HandedInv'
  BY FlowStep, HandedStep
<1>3. HandedInv => ConnectionSpansExact
  BY DEF HandedInv, ConnectionSpansExact, ExternReaders, Exact, Exporter, Elements
<1> QED BY <1>1, <1>2, <1>3, PTL DEF BeylaSpec
=============================================================================
