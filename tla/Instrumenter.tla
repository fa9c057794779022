----------------------------- MODULE Instrumenter -----------------------------
(***************************************************************************)
(* The application observability component (pkg/internal/appolly): it      *)
(* builds the pipeline of TraceForwarding, starts the process finder, runs *)
(* a tracer for each executable that the finder reports, and returns once  *)
(* the pipeline is done and the tracers are unloaded, or after a timeout.  *)
(*                                                                         *)
(* Not modelled: the process events that the event loop also sends, and    *)
(* the executables that it unlinks from a tracer, which goes on running.   *)
(***************************************************************************)
EXTENDS TraceForwarding

CONSTANT Tracers    \* the tracers of the executables that may be found

(* what the configuration asks of this component                           *)
Option == {"instrument", "alloy", "otlpTraces", "interCluster", "kube"}

VARIABLES
    uses,   \* the options that are on
    stage,  \* where setupAppO11y is
    finder, \* the process finder: "off" or "running"
    loop,   \* the goroutine of instrumentedEventLoop
    tracer, \* what has become of each tracer
    waited, \* tracersWg.Wait has returned
    late    \* history: tracers started after the cancellation, or after Wait

tracerVars == <<finder, loop, tracer, waited, late>>
instrumenterVars == <<cancelled, forwardVars, uses, stage, tracerVars>>

InstrumenterInit ==
    /\ ForwardInit
    /\ uses = {}
    /\ stage = "off"
    /\ finder = "off"
    /\ loop = "off"
    /\ tracer = [t \in Tracers |-> "none"]
    /\ waited = FALSE
    /\ late = {}

-----------------------------------------------------------------------------
(* New                                                                     *)

(* Build and clusterConnectorsSubpipeline: the nodes for the options that  *)
(* are on, when Kubernetes can be reached or not.  SelectExternal is there *)
(* although neither of its two readers may be                              *)
BuiltNodes(kube) ==
    {"obi"} \cup {n \in Readers :
        CASE n = "receiver"     -> "alloy" \in uses
          [] n = "select"       -> "interCluster" \in uses /\ kube
          [] n = "connReceiver" -> "interCluster" \in uses /\ kube /\ "alloy" \in uses
          [] n = "connExport"   -> "interCluster" \in uses /\ kube /\ "otlpTraces" \in uses}

(* setupKubernetes goes on without Kubernetes when its API cannot be read  *)
NewInstrumenter(kube) ==
    /\ stage = "new"
    /\ kube => "kube" \in uses
    /\ BuildNodes(BuiltNodes(kube))
    /\ stage' = "find"
    /\ UNCHANGED <<cancelled, flowVars, uses, tracerVars>>

NewFails ==
    /\ stage = "new"
    /\ stage' = "error"
    /\ UNCHANGED <<cancelled, forwardVars, uses, tracerVars>>

-----------------------------------------------------------------------------
(* FindAndInstrument, the process finder and the event loop                *)

(* only the mixed pipeline has events of executables to instrument; in     *)
(* survey mode there is no loop                                            *)
FindAndInstrument ==
    /\ stage = "find"
    /\ finder' = "running"
    /\ loop' = IF "instrument" \in uses THEN "running" ELSE "off"
    /\ stage' = "ready"
    /\ UNCHANGED <<cancelled, forwardVars, uses, tracer, waited, late>>

FinderFails ==
    /\ stage = "find"
    /\ stage' = "error"
    /\ UNCHANGED <<cancelled, forwardVars, uses, tracerVars>>

(* the pipeline of process events fails when the finder is running already *)
EventPipelineFails ==
    /\ stage = "find"
    /\ finder' = "running"
    /\ stage' = "error"
    /\ UNCHANGED <<cancelled, forwardVars, uses, loop, tracer, waited, late>>

(* The finder stops with its context, and nobody waits for it: then it     *)
(* finds nothing more, as it may do at any time                            *)
FinderFinds(t) ==
    /\ finder = "running"
    /\ "instrument" \in uses
    /\ tracer[t] = "none"
    /\ tracer' = [tracer EXCEPT ![t] = "found"]
    /\ UNCHANGED <<cancelled, forwardVars, uses, stage, finder, loop, waited, late>>

(* EventCreated: the tracer is added to tracersWg and runs.  The loop may  *)
(* choose an event although the context is done                            *)
TracerStarts(t) ==
    /\ loop = "running"
    /\ tracer[t] = "found"
    /\ tracer' = [tracer EXCEPT ![t] = "running"]
    /\ late' = IF cancelled \/ waited THEN late \cup {t} ELSE late
    /\ UNCHANGED <<cancelled, forwardVars, uses, stage, finder, loop, waited>>

LoopReturns ==
    /\ loop = "running"
    /\ cancelled
    /\ loop' = "returned"
    /\ UNCHANGED <<cancelled, forwardVars, uses, stage, finder, tracer, waited, late>>

(* ProcessTracer.Run waits for the context and unloads its programs        *)
TracerUnloads(t) ==
    /\ tracer[t] = "running"
    /\ cancelled
    /\ tracer' = [tracer EXCEPT ![t] = "unloaded"]
    /\ UNCHANGED <<cancelled, forwardVars, uses, stage, finder, loop, waited, late>>

-----------------------------------------------------------------------------
(* ReadAndForward and stop                                                 *)

ReadAndForward ==
    /\ stage = "ready"
    /\ StartNodes
    /\ stage' = "forward"
    /\ UNCHANGED <<cancelled, sent, chans, exportCall, externCall, externClosed,
                   received, missed, handed, uses, tracerVars>>

(* bp.Done() is closed; no timeout guards this wait                        *)
PipelineDone ==
    /\ stage = "forward"
    /\ AllReturned
    /\ stage' = "stop"
    /\ UNCHANGED <<cancelled, forwardVars, uses, tracerVars>>

(* mutant of TracersWaited: nobody adds to the group                       *)
TracersNotWaited ==
    /\ stage = "stop"
    /\ ~waited
    /\ waited' = TRUE
    /\ UNCHANGED <<cancelled, forwardVars, uses, stage, finder, loop, tracer, late>>

TracersWaited ==
    /\ stage = "stop"
    /\ ~waited
    /\ \A t \in Tracers : tracer[t] # "running"
    /\ waited' = TRUE
    /\ UNCHANGED <<cancelled, forwardVars, uses, stage, finder, loop, tracer, late>>

StopReturns ==
    /\ stage = "stop"
    /\ waited
    /\ stage' = "ok"
    /\ UNCHANGED <<cancelled, forwardVars, uses, tracerVars>>

(* errShutdownTimeout                                                      *)
StopTimesOut ==
    /\ stage = "stop"
    /\ stage' = "error"
    /\ UNCHANGED <<cancelled, forwardVars, uses, tracerVars>>

-----------------------------------------------------------------------------
(* the steps that fail                                                     *)
AppFaults == NewFails \/ FinderFails \/ EventPipelineFails \/ StopTimesOut

(* the goroutine of setupAppO11y                                           *)
AppMain ==
    \/ \E kube \in BOOLEAN : NewInstrumenter(kube)
    \/ FindAndInstrument \/ ReadAndForward \/ PipelineDone \/ StopReturns

AppNext ==
    \/ AppMain
    \/ \E t \in Tracers : FinderFinds(t) \/ TracerStarts(t) \/ TracerUnloads(t)
    \/ LoopReturns \/ TracersWaited
=============================================================================
