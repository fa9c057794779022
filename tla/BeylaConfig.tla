----------------------------- MODULE BeylaConfig ------------------------------
(***************************************************************************)
(* The part of the configuration (pkg/beyla/config.go) that decides which  *)
(* components start and where their data goes: how it is normalised,       *)
(* converted for OBI and validated.                                        *)
(***************************************************************************)
EXTENDS Naturals

(* groups of metrics; the first one stands for all that AppO11yFeatures    *)
(* holds, Beyla's application_process included                             *)
Feature == {"application", "network", "stats"}
Signal == {"metrics", "traces"}
Component == {"app", "net", "stats", "webhook"}

Config == [
    instrument : BOOLEAN,       \* open_port, exec, or discovery criteria
    survey : BOOLEAN,           \* discovery > survey
    features : SUBSET Feature,  \* metrics > features
    deprOTEL : SUBSET Feature,  \* otel_metrics_export > features (deprecated)
    deprProm : SUBSET Feature,  \* prometheus_export > features (deprecated)
    netEnable : BOOLEAN,        \* network > enable (deprecated)
    print : SUBSET {"app", "net", "stats"}, \* trace_printer, print_flows, print_stats
    otlp : SUBSET Signal,       \* signals with an OTLP endpoint of their own
    grafana : SUBSET Signal,    \* signals submitted to Grafana Cloud
    prometheus : BOOLEAN,       \* a port or a registry of Prometheus
    alloy : BOOLEAN,            \* consumers set by Alloy
    interCluster : BOOLEAN,     \* topology > spans
    kube : BOOLEAN,             \* attributes > kubernetes > enable
    webhook : BOOLEAN,          \* WebhookConfig.Enabled
    injector : {"image", "host", "mixed"},  \* see InjectorValid
    internal : {"none", "otel", "prometheus", "both"}, \* internal metrics
    wrong : BOOLEAN]            \* a value that is refused whatever the others are

-----------------------------------------------------------------------------
(* mutant of normalizeConfig: the deprecated flag adds no feature          *)
normalizeKeepsFeatures(c) ==
    LET features ==
            IF "metrics" \in c.otlp /\ c.deprOTEL # {} THEN c.deprOTEL
            ELSE IF c.prometheus /\ c.deprProm # {} THEN c.deprProm
            ELSE c.features
    IN [c EXCEPT !.features = features]

(* normalizeConfig: the deprecated feature lists of the exporters in use,  *)
(* OTEL's first, replace metrics > features                                *)
normalizeConfig(c) ==
    LET features ==
            IF "metrics" \in c.otlp /\ c.deprOTEL # {} THEN c.deprOTEL
            ELSE IF c.prometheus /\ c.deprProm # {} THEN c.deprProm
            ELSE c.features
    IN [c EXCEPT !.features = features \cup (IF c.netEnable THEN {"network"} ELSE {})]

(* AsOBI and overrideOBI: OBI's copy.  An endpoint provider for Grafana    *)
(* makes MetricsConfig.EndpointEnabled true, but TracesConfig.Enabled only *)
(* looks at the endpoints of the section itself                            *)
AsOBI(c) ==
    [features |-> c.features, print |-> c.print, prometheus |-> c.prometheus,
     metrics |-> "metrics" \in c.otlp \cup c.grafana,
     traces |-> "traces" \in c.otlp]

-----------------------------------------------------------------------------
(* Config.Enabled and WebhookConfig.Enabled                                *)
otelMetrics(c) == "metrics" \in c.otlp \cup c.grafana

Enabled(c) ==
    {f \in Component :
        CASE f = "app"     -> c.instrument \/ c.survey
          [] f = "net"     -> \/ c.netEnable
                              \/ (c.prometheus \/ otelMetrics(c)) /\ "network" \in c.features
          [] f = "stats"   -> (c.prometheus \/ otelMetrics(c)) /\ "stats" \in c.features
          [] f = "webhook" -> c.webhook}

(* SDKInject.Validate: an image volume, or a host path with the version of *)
(* the SDK, but not a mixture                                              *)
InjectorValid(c) == c.injector \in {"image", "host"}

(* Config.Validate                                                         *)
Validate(c) ==
    /\ Enabled(c) # {}
    /\ ~c.wrong
    /\ \A f \in Enabled(c) \cap {"net", "stats"} :
           otelMetrics(c) \/ c.prometheus \/ f \in c.print
    /\ "app" \in Enabled(c) =>
           "app" \in c.print \/ c.grafana # {} \/ c.otlp # {} \/ c.prometheus
    /\ c.internal # "both"
    /\ c.internal = "otel" => otelMetrics(c)
    /\ c.webhook => "traces" \in c.otlp /\ InjectorValid(c)

-----------------------------------------------------------------------------
(* the metrics of component f are among the features that OBI exports: it  *)
(* builds no metrics of applications if none of them is                    *)
Measured(f, o) ==
    \/ f = "app" /\ "application" \in o.features
    \/ f = "net" /\ "network" \in o.features
    \/ f = "stats" /\ "stats" \in o.features

(* The exporters that a component finds enabled when it starts: what OBI's *)
(* nodes make of the copy o, and Beyla's own nodes of c; survey_info needs *)
(* no feature, and an endpoint of the section itself                       *)
Exporters(f, c, o) ==
    {e \in {"print", "metrics", "traces", "prometheus", "alloy"} :
        CASE e = "print"      -> f \in o.print
          [] e = "metrics"    -> \/ o.metrics /\ Measured(f, o)
                                 \/ f = "app" /\ c.survey /\ "metrics" \in c.otlp
          [] e = "prometheus" -> \/ o.prometheus /\ Measured(f, o)
                                 \/ f = "app" /\ c.survey /\ c.prometheus
          [] e = "traces"     -> \/ f = "app" /\ o.traces
                                 \/ f = "webhook" /\ "traces" \in c.otlp
          [] e = "alloy"      -> f = "app" /\ c.alloy}
=============================================================================
