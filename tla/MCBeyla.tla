------------------------------- MODULE MCBeyla --------------------------------
(* Instance of Beyla for TLC.                                              *)
EXTENDS Beyla, TLC

CONSTANTS t1, t2

span(u, x, e, s) == [uid |-> u, exportable |-> x, external |-> e, selected |-> s]

(* a batch without external spans, and one in which the spans of a service *)
(* differ in their export modes and in the exporters that report them, and *)
(* another service has nothing to report                                   *)
MCBatches == {
    <<span("s1", TRUE, FALSE, {"alloy", "otlp"})>>,
    <<span("s1", FALSE, TRUE, {"alloy", "otlp"}), span("s1", TRUE, TRUE, {"otlp"}),
      span("s1", TRUE, TRUE, {"alloy"}), span("s2", TRUE, TRUE, {})>>}

plain == [instrument |-> TRUE, survey |-> FALSE, features |-> {"application"},
          deprOTEL |-> {}, deprProm |-> {}, netEnable |-> FALSE, print |-> {},
          otlp |-> {}, grafana |-> {}, prometheus |-> FALSE, alloy |-> FALSE,
          interCluster |-> FALSE, kube |-> FALSE, webhook |-> FALSE,
          injector |-> "host", internal |-> "none", wrong |-> FALSE]

(* every combination of exporters and features                             *)
ExporterConfigs ==
    {[plain EXCEPT !.instrument = i, !.survey = s, !.features = f, !.deprOTEL = d, !.netEnable = n,
                   !.print = p, !.otlp = o, !.grafana = g, !.prometheus = m] :
        i \in BOOLEAN, s \in BOOLEAN, f \in {{"application"}, {"application", "stats"}, {"network"}},
        d \in {{}, {"application"}}, n \in BOOLEAN, p \in {{}, {"app", "net"}},
        o \in SUBSET Signal, g \in SUBSET Signal, m \in BOOLEAN}

(* every combination of the nodes of the pipeline; they have nothing to do *)
(* with the tracers, so that survey mode, which has none, is enough        *)
PipelineConfigs ==
    {[plain EXCEPT !.instrument = FALSE, !.survey = TRUE, !.otlp = o, !.prometheus = TRUE, !.alloy = a, !.interCluster = TRUE,
                   !.kube = TRUE] : o \in {{}, {"traces"}}, a \in BOOLEAN}

(* the webhook server, with and without what it needs                      *)
WebhookConfigs ==
    {[plain EXCEPT !.instrument = FALSE, !.survey = s, !.otlp = o, !.webhook = TRUE,
                   !.injector = i, !.internal = m, !.wrong = w] :
        s \in BOOLEAN, o \in SUBSET Signal, i \in {"image", "host", "mixed"},
        m \in {"none", "otel", "prometheus", "both"}, w \in BOOLEAN}

MCConfigs == ExporterConfigs \cup PipelineConfigs \cup WebhookConfigs
=============================================================================
