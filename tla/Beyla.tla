-------------------------------- MODULE Beyla ---------------------------------
(***************************************************************************)
(* The whole process: main (cmd/beyla/main.go) loads and validates the     *)
(* configuration, RunBeyla (pkg/components/beyla.go) runs the components   *)
(* that it enables in an errgroup, and the process exits once all of them  *)
(* have returned.  The application component is Instrumenter; the network  *)
(* and stats agents of OBI and the webhook server are known by how they    *)
(* return.                                                                 *)
(***************************************************************************)
EXTENDS Instrumenter, BeylaConfig

CONSTANTS
    Configs,    \* the configurations that the process may be given
    NoConfig    \* the configuration is not read any more

ASSUME ConfigsAssumption == Configs \subseteq Config

Agents == Component \ {"app"}

VARIABLES
    phase,      \* "load", "loaded", "valid", "running" or "exited"
    cfg,        \* the configuration, until the components have read it
    obiCfg,     \* OBI's copy of it
    agent,      \* the goroutines of the group other than the application's
    faults,     \* history: the components in which something went wrong
    status      \* the exit status: 0, or -1

processVars == <<phase, cfg, obiCfg, agent, faults, status>>
beylaVars == <<instrumenterVars, processVars>>

BeylaInit ==
    /\ InstrumenterInit
    /\ phase = "load"
    /\ cfg \in Configs
    /\ obiCfg = NoConfig
    /\ agent = [a \in Agents |-> "off"]
    /\ faults = {}
    /\ status = 0

-----------------------------------------------------------------------------
(* main, up to RunBeyla                                                    *)

LoadConfig ==
    /\ phase = "load"
    /\ cfg' = normalizeConfig(cfg)
    /\ phase' = "loaded"
    /\ UNCHANGED <<instrumenterVars, obiCfg, agent, faults, status>>

(* the process ends before a component has started                         *)
exitEarly ==
    /\ phase' = "exited"
    /\ status' = 0 - 1
    /\ faults' = faults \cup {"main"}
    /\ cfg' = NoConfig
    /\ obiCfg' = NoConfig
    /\ UNCHANGED <<instrumenterVars, agent>>

(* an operating system that is not supported, or a configuration that      *)
(* cannot be read                                                          *)
LoadRefused ==
    /\ phase = "load"
    /\ exitEarly

(* Validate makes OBI's copy, which is kept from then on                   *)
ValidateConfig ==
    /\ phase = "loaded"
    /\ Validate(cfg)
    /\ obiCfg' = AsOBI(cfg)
    /\ phase' = "valid"
    /\ UNCHANGED <<instrumenterVars, cfg, agent, faults, status>>

ConfigRefused ==
    /\ phase = "loaded"
    /\ ~Validate(cfg)
    /\ exitEarly

(* an unknown log level, missing capabilities that are enforced, or an     *)
(* error of buildCommonContextInfo                                         *)
StartRefused ==
    /\ phase = "valid"
    /\ exitEarly

(* RunBeyla reads the configuration and starts a goroutine per component   *)
RunBeyla ==
    /\ phase = "valid"
    /\ phase' = "running"
    /\ stage' = IF "app" \in Enabled(cfg) THEN "new" ELSE "off"
    /\ uses' = {o \in Option :
                   /\ "app" \in Enabled(cfg)
                   /\ CASE o = "instrument"   -> cfg.instrument
                        [] o = "alloy"        -> cfg.alloy
                        [] o = "otlpTraces"   -> "traces" \in cfg.otlp
                        [] o = "interCluster" -> cfg.interCluster
                        [] o = "kube"         -> cfg.kube}
    /\ agent' = [a \in Agents |-> IF a \notin Enabled(cfg) THEN "off"
                                  ELSE IF a = "webhook" THEN "waiting" ELSE "running"]
    /\ cfg' = NoConfig
    /\ obiCfg' = NoConfig
    /\ UNCHANGED <<cancelled, forwardVars, tracerVars, faults, status>>

-----------------------------------------------------------------------------
(* The agents and the webhook server                                       *)

agentBecomes(a, from, to, fault) ==
    /\ phase = "running"
    /\ agent[a] \in from
    /\ agent' = [agent EXCEPT ![a] = to]
    /\ faults' = faults \cup fault
    /\ UNCHANGED <<instrumenterVars, phase, cfg, obiCfg, status>>

(* it cannot be set up, it fails while it runs, or it does not stop in time*)
AgentFails(a) == agentBecomes(a, {"waiting", "running"}, "error", {a})

(* the context is done: it stops                                           *)
AgentStops(a) == cancelled /\ agentBecomes(a, {"running"}, "ok", {})

(* waitForTLSFiles finds the files, or returns the error of its context    *)
WebhookServes == agentBecomes("webhook", {"waiting"}, "running", {})
WebhookGivesUp == cancelled /\ agentBecomes("webhook", {"waiting"}, "error", {})

-----------------------------------------------------------------------------
(* SIGINT or SIGTERM                                                       *)
Terminate ==
    /\ phase = "running"
    /\ ~cancelled
    /\ cancelled' = TRUE
    /\ UNCHANGED <<forwardVars, uses, stage, tracerVars, processVars>>

(* mutant of GroupCancels: only an error of the application counts         *)
GroupCancelsForApp ==
    /\ phase = "running"
    /\ ~cancelled
    /\ stage = "error"
    /\ cancelled' = TRUE
    /\ UNCHANGED <<forwardVars, uses, stage, tracerVars, processVars>>

(* errgroup: the first error cancels the context of all                    *)
failed == stage = "error" \/ \E a \in Agents : agent[a] = "error"

GroupCancels ==
    /\ phase = "running"
    /\ ~cancelled
    /\ failed
    /\ cancelled' = TRUE
    /\ UNCHANGED <<forwardVars, uses, stage, tracerVars, processVars>>

(* mutant of Exit: the error of an agent is lost                           *)
ExitAsApp ==
    /\ phase = "running"
    /\ stage \in {"off", "ok", "error"}
    /\ \A a \in Agents : agent[a] \in {"off", "ok", "error"}
    /\ phase' = "exited"
    /\ status' = IF stage = "error" THEN 0 - 1 ELSE 0
    /\ UNCHANGED <<instrumenterVars, cfg, obiCfg, agent, faults>>

(* g.Wait returns the first error                                          *)
Exit ==
    /\ phase = "running"
    /\ stage \in {"off", "ok", "error"}
    /\ \A a \in Agents : agent[a] \in {"off", "ok", "error"}
    /\ phase' = "exited"
    /\ status' = IF failed THEN 0 - 1 ELSE 0
    /\ UNCHANGED <<instrumenterVars, cfg, obiCfg, agent, faults>>

-----------------------------------------------------------------------------
(* The steps of the application component and of its pipeline              *)

AppFrame == phase = "running" /\ UNCHANGED processVars
FlowFrame == AppFrame /\ UNCHANGED <<uses, stage, tracerVars>>

AppFails ==
    /\ phase = "running"
    /\ AppFaults
    /\ faults' = faults \cup {"app"}
    /\ UNCHANGED <<phase, cfg, obiCfg, agent, status>>

BeylaNext ==
    \/ LoadConfig \/ LoadRefused \/ ValidateConfig \/ ConfigRefused \/ StartRefused \/ RunBeyla
    \/ \E a \in Agents : AgentFails(a) \/ AgentStops(a)
    \/ WebhookServes \/ WebhookGivesUp
    \/ Terminate \/ GroupCancels \/ Exit
    \/ AppFails
    \/ (AppNext /\ AppFrame)
    \/ ((ForwardNext \/ ObiNext) /\ FlowFrame)

BeylaSpec == BeylaInit /\ [][BeylaNext]_beylaVars

(* Each goroutine goes on as long as it can, and Go's select does not pass *)
(* over a case that stays ready.  Nothing obliges OBI to send or to finish,*)
(* the finder to find, a tracer to unload, a signal to come or anything to *)
(* fail; a component that is cancelled stops.                              *)
BeylaFairness ==
    /\ WF_beylaVars((AppMain /\ AppFrame) \/ AppFails)
    /\ WF_beylaVars(TracersWaited /\ AppFrame)
    /\ WF_beylaVars(ObiDelivers /\ FlowFrame)
    /\ WF_beylaVars(ObiNodeReturns /\ FlowFrame)
    /\ WF_beylaVars(SelectReceives /\ FlowFrame)
    /\ WF_beylaVars(SelectDelivers /\ FlowFrame)
    /\ WF_beylaVars((ExporterStarts \/ ExporterFails) /\ FlowFrame)
    /\ \A n \in Readers : /\ WF_beylaVars(TerminalReceives(n) /\ FlowFrame)
                          /\ WF_beylaVars(ReaderReturns(n) /\ FlowFrame)
    /\ \A a \in Agents : WF_beylaVars(AgentStops(a))
    /\ WF_beylaVars(WebhookGivesUp)
    /\ WF_beylaVars(GroupCancels)
    /\ WF_beylaVars(Exit)

FairBeylaSpec == BeylaSpec /\ BeylaFairness

-----------------------------------------------------------------------------
(* Types of the variables.                                                 *)
BeylaTypeOK ==
    /\ cancelled \in BOOLEAN
    /\ node \in [Nodes -> {"off", "built", "starting", "running", "returned"}]
    /\ obi \in {"off", "running", "stopped"}
    /\ sent \in Seq(Batches)
    /\ \A n \in Readers : chans[n] \in Seq(1..Len(sent)) /\ Len(chans[n]) <= ChannelBufferLen
    /\ externClosed \in BOOLEAN
    /\ \A n \in Readers : missed[n] \subseteq 1..Len(sent)
    /\ stage \in {"off", "new", "find", "ready", "forward", "stop", "ok", "error"}
    /\ tracer \in [Tracers -> {"none", "found", "running", "unloaded"}]
    /\ phase \in {"load", "loaded", "valid", "running", "exited"}
    /\ agent \in [Agents -> {"off", "waiting", "running", "ok", "error"}]
    /\ faults \subseteq Component \cup {"main"}
    /\ status \in {0, 0 - 1}

(* Queues repeat and reorder nothing, and lose nothing before the process  *)
(* is told to stop: whatever the timeouts, a reader of the export queue    *)
(* receives what OBI sent, and a reader of externalTraces the batches with *)
(* external spans (msg.Queue, SelectExternal), only those, each once and   *)
(* in their order.  What it has not got although it has a later batch is   *)
(* what the end of the context took from it, or from SelectExternal, in    *)
(* the middle of a SendCtx whose sender then went on (queue.go:175,        *)
(* read_pattern.go:23); Send, without a context, leaves no such gap.       *)
QueuesInOrder ==
    \A n \in Readers :
        LET got == received[n] \o chans[n]
            due == {b \in 1..Len(sent) :
                       \/ n \in {"select", "receiver"}
                       \/ \E i \in DOMAIN sent[b] :
                             sent[b][i].external /\ sent[b][i].exportable}
        IN \A i \in DOMAIN got :
               /\ got[i] \in due
               /\ \A j \in DOMAIN got : i < j => got[i] < got[j]
               /\ \A b \in due : b < got[i] =>
                      \/ \E j \in DOMAIN got : got[j] = b
                      \/ /\ cancelled
                         /\ b \in missed[IF n = "receiver" THEN n ELSE "select"]

(* Each builder of connection spans hands on exactly the spans of a batch  *)
(* that are external, of a service whose traces may be exported, and       *)
(* reported by its own exporter (traces_connect.go:52,                     *)
(* connect_spans.go:94), although only the one for Alloy looks at the      *)
(* export modes, and only at those of the first span of a service that it  *)
(* reports (external.go:36, traces_connect.go:72, connect_spans.go:108).   *)
ConnectionSpansExact ==
    \A n \in {"connReceiver", "connExport"} :
        handed[n] = UNION {{<<b, i>> : i \in {j \in DOMAIN sent[b] :
                              /\ sent[b][j].external
                              /\ sent[b][j].exportable
                              /\ (IF n = "connReceiver" THEN "alloy" ELSE "otlp")
                                     \in sent[b][j].selected}} :
                           b \in {received[n][k] : k \in DOMAIN received[n]}}

(* "Waiting for the eBPF tracers to be unloaded" (appolly.go:202): when    *)
(* the application component returns without an error, no tracer is left   *)
(* loaded but those that the event loop, which nobody waits for, started   *)
(* after the cancellation or after the wait.                               *)
CleanStopUnloads ==
    stage = "ok" => \A t \in Tracers : tracer[t] = "running" => t \in late

(* The exit status tells whether something went wrong (main.go:87): it is  *)
(* -1 if a component failed, and only then, but for a webhook server that  *)
(* was still waiting for its TLS files when the process was told to stop.  *)
ExitStatusIsTrue ==
    phase = "exited" =>
        /\ faults # {} => status # 0
        /\ status # 0 => faults # {} \/ (cancelled /\ agent["webhook"] = "error")

(* "you need to define at least one exporter" (config.go:465): a valid     *)
(* configuration gives every component that it starts an exporter that the *)
(* component finds enabled in its own copy of the configuration, but for   *)
(* an application whose only exporter are the traces of the section        *)
(* grafana, which OBI's traces exporter does not look at, and for one that *)
(* neither traces nor prints, when no metrics of applications are among    *)
(* the features: Validate does not look at them.                           *)
ComponentsExport ==
    phase = "valid" => \A f \in Enabled(cfg) :
        \/ Exporters(f, cfg, obiCfg) # {}
        \/ f = "app" /\ cfg.grafana = {"traces"}
        \/ /\ f = "app" /\ "application" \notin cfg.features
           /\ "traces" \notin cfg.otlp /\ "app" \notin cfg.print

(* SelectExternal is in a Send to a reader that has returned               *)
SelectStuck ==
    \E k \in DOMAIN Extern!Pending :
        LET n == Extern!Pending[k]
        IN node[n] = "returned" /\ Len(chans[n]) = ChannelBufferLen

(* "if one of nodes fail, the other should stop" (beyla.go:50): after a    *)
(* signal or a failure every component returns and the process exits ...   *)
ShutdownCompletes == (cancelled \/ failed) ~> (phase = "exited")

(* ... unless SelectExternal is blocked in a Send, which has no context.   *)
ShutdownCompletesUnlessStuck ==
    (cancelled \/ failed) ~> (phase = "exited" \/ SelectStuck)

(* Every batch that OBI exports reaches the consumers of Alloy, however    *)
(* the other subscribers of the queue are delayed, unless Beyla stops or   *)
(* SelectExternal is stuck (its exporter could not start).                 *)
BatchesReachAlloy ==
    \A b \in 1..MaxSent :
        Len(sent) >= b /\ node["receiver"] = "running"
            ~> \/ \E k \in DOMAIN received["receiver"] : received["receiver"][k] = b
               \/ cancelled
               \/ SelectStuck
=============================================================================
