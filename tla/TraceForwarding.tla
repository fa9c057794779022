---------------------------- MODULE TraceForwarding ----------------------------
(***************************************************************************)
(* The nodes that Build (pkg/internal/pipe/instrumenter.go) puts around    *)
(* OBI's own pipeline.  OBI sends batches of spans to the export queue     *)
(* (OverrideAppExportQueue); TracesReceiver hands them to the consumers of *)
(* Alloy, and SelectExternal passes the spans whose other end is not in    *)
(* the cluster to the queue externalTraces, from which two terminal nodes  *)
(* build the connection spans: ConnectionSpansReceiver for Alloy and       *)
(* ConnectionSpansExport for an OTLP endpoint.  The third subscriber of    *)
(* the export queue, the process metrics, is in ProcessCollector.          *)
(*                                                                         *)
(* A batch is its number in `sent`; a message of externalTraces is the     *)
(* number of the batch that it was filtered from.                          *)
(***************************************************************************)
EXTENDS Naturals, Sequences, FiniteSets

CONSTANTS
    Batches,    \* the batches that OBI may export: sequences of spans
    MaxSent,    \* bound: number of batches
    ChannelBufferLen

(* What the nodes tell apart in a span: its service, whether traces of the *)
(* service may be exported (ExportModes), whether the peer of a server     *)
(* span, or the host of a client span, with a valid trace ID is outside of *)
(* the cluster, and the exporters of traces that report it: Alloy's and    *)
(* the OTLP one have instrumentations of their own, and a protocol may be  *)
(* among those of one of them only; an internal signal is never reported   *)
Span == [uid : {"s1", "s2"}, exportable : BOOLEAN, external : BOOLEAN,
         selected : SUBSET {"alloy", "otlp"}]

ASSUME ForwardAssumption ==
    /\ Batches \subseteq Seq(Span)
    /\ ChannelBufferLen \in Nat \ {0}

(* the nodes of the swarm; "obi" is the one that runs OBI's swarm          *)
Readers == {"receiver", "select", "connReceiver", "connExport"}
Nodes == Readers \cup {"obi"}

VARIABLES
    cancelled,  \* the context of all nodes is done
    node,       \* what each node is doing
    obi,        \* OBI's swarm: "off", "running" or "stopped"
    sent,       \* the batches that OBI sent
    chans,      \* the channels of the readers
    exportCall, \* OBI's call of SendCtx on the export queue
    externCall, \* SelectExternal's call of Send on externalTraces
    externClosed, \* externalTraces is closed
    received,   \* history: the batches that each reader received
    missed,     \* history: the batches of which the context deprived a reader
    handed      \* history: the spans that each terminal node handed on

flowVars == <<obi, sent, chans, exportCall, externCall, externClosed, received, missed,
              handed>>
forwardVars == <<node, flowVars>>

Export == INSTANCE MsgQueue WITH call <- exportCall
Extern == INSTANCE MsgQueue WITH call <- externCall

ForwardInit ==
    /\ cancelled = FALSE
    /\ node = [n \in Nodes |-> "off"]
    /\ obi = "off"
    /\ sent = <<>>
    /\ chans = [n \in Readers |-> <<>>]
    /\ exportCall = Export!Idle
    /\ externCall = Extern!Idle
    /\ externClosed = FALSE
    /\ received = [n \in Readers |-> <<>>]
    /\ missed = [n \in Readers |-> {}]
    /\ handed = [n \in Readers |-> {}]

-----------------------------------------------------------------------------
(* What the nodes do with a batch.                                         *)

(* mutant of filter: the export modes are left to the terminal nodes       *)
filterAnyMode(b) ==
    {i \in DOMAIN sent[b] : sent[b][i].external}

(* externalSpanFilter.filter: the spans of batch b that SelectExternal     *)
(* passes on                                                               *)
filter(b) ==
    {i \in DOMAIN sent[b] : sent[b][i].exportable /\ sent[b][i].external}

(* GroupConnectionSpans and tracesgen.GroupSpans: those of the spans S     *)
(* that exporter x reports, by service                                     *)
Groups(b, S, x) ==
    LET shown == {i \in S : x \in sent[b][i].selected}
    IN {{i \in shown : sent[b][i].uid = u} : u \in {sent[b][i].uid : i \in shown}}

(* the first span of a group speaks for the others                         *)
sample(b, g) == sent[b][CHOOSE i \in g : \A j \in g : i <= j]

(* the spans that node n hands on when it gets batch b                     *)
HandsOn(n, b) ==
    LET sampled(S) == UNION {g \in Groups(b, S, "alloy") : sample(b, g).exportable}
        spans == CASE n = "receiver"     -> sampled(DOMAIN sent[b])
                   [] n = "connReceiver" -> sampled(filter(b))
                   [] n = "connExport"   -> UNION Groups(b, filter(b), "otlp")
                   [] n = "select"       -> {}
    IN {<<b, i>> : i \in spans}

-----------------------------------------------------------------------------
(* OBI's side of the export queue.                                         *)

(* subscribers of the two queues, in the order of their subscription:      *)
(* SelectExternal subscribes when it is created, TracesReceiver when it is *)
(* instanced                                                               *)
subscribed(n) == IF node[n] = "off" THEN <<>> ELSE <<n>>
exportSubscribers == subscribed("select") \o subscribed("receiver")
externSubscribers == subscribed("connReceiver") \o subscribed("connExport")

(* a batch for which nobody has subscribed is lost: it is not counted      *)
ObiSends(batch) ==
    /\ obi = "running"
    /\ exportSubscribers # <<>>
    /\ Len(sent) < MaxSent
    /\ sent' = Append(sent, batch)
    /\ Export!Send(Len(sent) + 1, exportSubscribers)
    /\ UNCHANGED <<cancelled, node, obi, chans, externCall, externClosed, received, missed,
                   handed>>

ObiDelivers ==
    /\ Export!Deliver
    /\ UNCHANGED <<cancelled, node, obi, sent, externCall, externClosed, received, missed,
                   handed>>

ObiTimesOut ==
    /\ Export!SendTimeout
    /\ UNCHANGED <<cancelled, node, obi, sent, externCall, externClosed, received, missed,
                   handed>>

(* The context interrupts the call.  The sender goes back to its loop,     *)
(* where the select may still choose a batch, and send it, although the    *)
(* context is done                                                         *)
ObiInterrupted ==
    /\ cancelled
    /\ exportCall # Export!Idle
    /\ Export!Interrupt
    /\ missed' = [n \in Readers |->
                     missed[n] \cup {exportCall.msg : k \in {k \in DOMAIN Export!Pending :
                                                             Export!Pending[k] = n}}]
    /\ UNCHANGED <<cancelled, node, obi, sent, chans, externCall, externClosed, received,
                   handed>>

(* the loop ends with the context, or because OBI finishes on its own; the *)
(* last node closes the export queue                                       *)
ObiStops ==
    /\ obi = "running"
    /\ exportCall = Export!Idle
    /\ obi' = "stopped"
    /\ UNCHANGED <<cancelled, node, sent, chans, exportCall, externCall, externClosed,
                   received, missed, handed>>

(* the node that runs OBI's swarm does not wait for it after a cancellation*)
ObiNodeReturns ==
    /\ node["obi"] = "running"
    /\ cancelled \/ obi = "stopped"
    /\ node' = [node EXCEPT !["obi"] = "returned"]
    /\ UNCHANGED <<cancelled, flowVars>>

-----------------------------------------------------------------------------
(* The readers: select between the context and the input.                  *)

take(n) ==
    /\ node[n] = "running"
    /\ chans[n] # <<>>
    /\ received' = [received EXCEPT ![n] = Append(@, Head(chans[n]))]
    /\ handed' = [handed EXCEPT ![n] = @ \cup HandsOn(n, Head(chans[n]))]
    /\ chans' = [chans EXCEPT ![n] = Tail(@)]

(* a terminal node hands the batch to its consumers or to the exporter; an *)
(* error of theirs is logged                                               *)
TerminalReceives(n) ==
    /\ n # "select"
    /\ take(n)
    /\ UNCHANGED <<cancelled, node, obi, sent, exportCall, externCall, externClosed, missed>>

(* the node passes on what the filter leaves of the batch, if anything     *)
passOn(b) ==
    \/ filter(b) = {} /\ UNCHANGED externCall
    \/ filter(b) # {} /\ Extern!Send(b, externSubscribers)

SelectReceives ==
    /\ externCall = Extern!Idle
    /\ take("select")
    /\ passOn(Head(chans["select"]))
    /\ UNCHANGED <<cancelled, node, obi, sent, exportCall, externClosed, missed>>

SelectDelivers ==
    /\ Extern!Deliver
    /\ UNCHANGED <<cancelled, node, obi, sent, exportCall, externClosed, received, missed,
                   handed>>

SelectTimesOut ==
    /\ Extern!SendTimeout
    /\ UNCHANGED <<cancelled, node, obi, sent, exportCall, externClosed, received, missed,
                   handed>>

(* mutant of Drained: an empty channel is taken for a closed one           *)
DrainedWhenEmpty(n) == chans[n] = <<>>

(* the queue that a reader reads is closed, and read to its end            *)
Drained(n) ==
    /\ chans[n] = <<>>
    /\ IF n \in {"select", "receiver"} THEN obi = "stopped" ELSE externClosed

(* a reader leaves its loop; SelectExternal closes externalTraces          *)
ReaderReturns(n) ==
    /\ node[n] = "running"
    /\ cancelled \/ Drained(n)
    /\ n = "select" => externCall = Extern!Idle
    /\ node' = [node EXCEPT ![n] = "returned"]
    /\ externClosed' = (externClosed \/ n = "select")
    /\ UNCHANGED <<cancelled, obi, sent, chans, exportCall, externCall, received, missed,
                   handed>>

(* connectionSpansExport.provideLoop creates and starts its exporter; when *)
(* that fails it returns, and stays subscribed                             *)
ExporterStarts ==
    /\ node["connExport"] = "starting"
    /\ node' = [node EXCEPT !["connExport"] = "running"]
    /\ UNCHANGED <<cancelled, flowVars>>

ExporterFails ==
    /\ node["connExport"] = "starting"
    /\ node' = [node EXCEPT !["connExport"] = "returned"]
    /\ UNCHANGED <<cancelled, flowVars>>

-----------------------------------------------------------------------------
(* Build adds the nodes in S; Runner.Start runs them                       *)
BuildNodes(S) == node' = [n \in Nodes |-> IF n \in S THEN "built" ELSE "off"]

StartNodes ==
    /\ node' = [n \in Nodes |-> IF node[n] = "off" THEN "off"
                                ELSE IF n = "connExport" THEN "starting" ELSE "running"]
    /\ obi' = "running"

(* Runner.Done is closed                                                   *)
AllReturned == \A n \in Nodes : node[n] \in {"off", "returned"}

(* the steps of OBI that nothing obliges it to take                        *)
ObiNext ==
    \/ \E batch \in Batches : ObiSends(batch)
    \/ ObiInterrupted
    \/ ObiStops

(* the steps of the goroutines                                             *)
ForwardNext ==
    \/ ObiDelivers \/ ObiTimesOut \/ ObiNodeReturns
    \/ \E n \in Readers : TerminalReceives(n) \/ ReaderReturns(n)
    \/ SelectReceives \/ SelectDelivers \/ SelectTimesOut
    \/ ExporterStarts \/ ExporterFails
=============================================================================
