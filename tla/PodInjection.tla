----------------------------- MODULE PodInjection -----------------------------
(***************************************************************************)
(* What the webhook does to a pod that is admitted: mutatePod              *)
(* (pkg/webhook/mutator.go) and the environment of its containers          *)
(* (pkg/webhook/env_vars.go).                                              *)
(*                                                                         *)
(* Kubernetes is external: a controller submits pods, the API server sends *)
(* them to the server, which may be upgraded or away, and the kubelet      *)
(* expands the references $(NAME) in the environment of a container: to    *)
(* the last variable NAME that comes before, if there is one.              *)
(*                                                                         *)
(* A text is a sequence of words, a Kubernetes name the words between its  *)
(* dashes; the text of no words is the empty string.                       *)
(***************************************************************************)
EXTENDS Naturals, FiniteSets, SequencesExt

CONSTANTS
    PodIDs,
    Templates,  \* the pods that may be submitted
    Servers,    \* the configurations of the webhook server
    NoPod,      \* unused pod ID
    MaxUpgrades \* bound: changes of the server's configuration

VARIABLES pods, server, upgrades
injectVars == <<pods, server, upgrades>>

-----------------------------------------------------------------------------
(* Environments: sequences of variables.  The value of a variable is a     *)
(* field of the pod (ValueFrom), or the variables that it refers to and    *)
(* then a text; the list of the extra attributes is a function.            *)

Value(refs, text) == [refs |-> refs, text |-> text]
Text(t) == Value(<<>>, t)
Ref(v) == Value(<<v>>, <<>>)
NoAttrs == [a \in {} |-> Text(<<>>)]

(* the map f, and g where f has no value                                   *)
f ++ g == [x \in DOMAIN f \cup DOMAIN g |-> IF x \in DOMAIN f THEN f[x] ELSE g[x]]

Var(v, value) == [name |-> v, field |-> "", value |-> value, attrs |-> NoAttrs]
FieldVar(v, f) == [name |-> v, field |-> f, value |-> Text(<<>>), attrs |-> NoAttrs]

findEnvVar(env, v) == SelectInSeq(env, LAMBDA e : e.name = v)
Has(env, v) == findEnvVar(env, v) # 0

(* mutant of setVar: the source of the old value stays                     *)
setVarKeepsSource(env, e) ==
    IF Has(env, e.name)
    THEN [env EXCEPT ![findEnvVar(env, e.name)] = [e EXCEPT !.field = env[findEnvVar(env, e.name)].field]]
    ELSE Append(env, e)

(* the variable is replaced where it is, its source too, or added at the   *)
(* end                                                                     *)
setVar(env, e) ==
    IF Has(env, e.name) THEN [env EXCEPT ![findEnvVar(env, e.name)] = e] ELSE Append(env, e)

(* setEnvVar leaves the environment alone when the value is empty          *)
setEnvVar(env, v, value) ==
    IF value = Text(<<>>) THEN env ELSE setVar(env, Var(v, value))

(* a sequence of calls of setEnvVar                                        *)
setEnvVars(env, settings) ==
    FoldLeft(LAMBDA e, s : setEnvVar(e, s[1], s[2]), env, settings)

-----------------------------------------------------------------------------
(* The owners of a pod: records of a kind and a name, and for the owner    *)
(* references of the pod of whether the API is Kubernetes' own, and a UID. *)

(* the kinds with a resource attribute, in the order of chooseServiceName  *)
Kinds == <<"deployment", "replicaset", "statefulset", "daemonset", "cronjob", "job">>

(* the owners of a kind with an attribute, by their places                 *)
attributed(meta) == {i \in DOMAIN meta.owners : meta.owners[i].kind \in ToSet(Kinds)}

(* o is taken for the ReplicaSet of a Deployment, or the Job of a CronJob  *)
hasParent(o) == o.native /\ o.kind \in {"replicaset", "job"} /\ Len(o.name) > 1
parentKind(o) == IF o.kind = "job" THEN "cronjob" ELSE "deployment"

(* mutant of ownersFrom: the name of the Deployment ends at the first dash *)
ownersFromFirstDash(meta) ==
    LET i == SelectInSeq(meta.owners, hasParent)
        o == meta.owners[i]
    IN IF meta.owners = <<>> THEN <<[kind |-> "pod", name |-> meta.name]>>
       ELSE IF i = 0 THEN meta.owners
       ELSE Append(SubSeq(meta.owners, 1, i), [kind |-> parentKind(o), name |-> <<o.name[1]>>])

(* the owner of the first ReplicaSet or Job with a dash in its name has    *)
(* the name up to the last dash, and ends the list                         *)
ownersFrom(meta) ==
    LET i == SelectInSeq(meta.owners, hasParent)
        o == meta.owners[i]
    IN IF meta.owners = <<>> THEN <<[kind |-> "pod", name |-> meta.name]>>
       ELSE IF i = 0 THEN meta.owners
       ELSE Append(SubSeq(meta.owners, 1, i), [kind |-> parentKind(o), name |-> Front(o.name)])

(* processMetadata and MatchProcessInfo, for criteria on the owner's name  *)
matchesSelection(meta) ==
    Last(ownersFrom(meta)).name \in server.select

(* the attribute k8s.<kind>.name of each owner; with AddK8sUIDAttributes   *)
(* the UID replaces the name of the direct owners                          *)
addParentResourceLabels(meta) ==
    LET owners == ownersFrom(meta)
        kinds(os) == {o.kind : o \in ToSet(os)} \cap ToSet(Kinds)
        last(os, k) == os[SelectLastInSeq(os, LAMBDA o : o.kind = k)]
        named == [k \in kinds(owners) |-> Text(last(owners, k).name)]
        uids == [k \in kinds(meta.owners) |-> Text(last(meta.owners, k).uid)]
    IN IF server.uids THEN uids ++ named ELSE named

-----------------------------------------------------------------------------
(* The service attributes.                                                 *)

(* the first that is not empty: the annotation, the labels if labels are   *)
(* used, or else other                                                     *)
chooseLabelOrAnnotation(meta, useLabels, a, labelKeys, other) ==
    LET annotations == IF a \in DOMAIN meta.annotations THEN <<meta.annotations[a]>> ELSE <<>>
        labels == [k \in DOMAIN labelKeys |->
                     IF labelKeys[k] \in DOMAIN meta.labels THEN meta.labels[labelKeys[k]] ELSE Text(<<>>)]
        all == annotations \o (IF useLabels THEN labels ELSE <<>>)
        i == SelectInSeq(all, LAMBDA v : v # Text(<<>>))
    IN IF i = 0 THEN other ELSE all[i]

(* the name of the first kind of owner that has one, or else of the pod    *)
chooseServiceName(meta, attrs) ==
    LET i == SelectInSeq(Kinds, LAMBDA k : k \in DOMAIN attrs /\ attrs[k] # Text(<<>>))
    IN chooseLabelOrAnnotation(meta, server.labels, "service.name", <<"instance", "name">>,
           IF i = 0 THEN Ref("POD_NAME") ELSE attrs[Kinds[i]])

(* parseServiceVersionFromImage: tag@digest, or the one that there is      *)
chooseServiceVersion(meta, c) ==
    LET both == c.image.tag # <<>> /\ c.image.digest # <<>>
    IN chooseLabelOrAnnotation(meta, server.labels, "service.version", <<"version">>,
           Text(c.image.tag \o (IF both THEN <<"@">> ELSE <<>>) \o c.image.digest))

(* mutant of createServiceInstanceId: containers are not told apart        *)
createServiceInstanceIdOfPod(meta, c) ==
    chooseLabelOrAnnotation(meta, FALSE, "service.instance.id", <<>>,
        Value(<<"NAMESPACE", "POD_NAME">>, <<>>))

createServiceInstanceId(meta, c) ==
    chooseLabelOrAnnotation(meta, FALSE, "service.instance.id", <<>>,
        Value(<<"NAMESPACE", "POD_NAME">>, <<c.name>>))

-----------------------------------------------------------------------------
(* The environment of a container.                                         *)

(* the variables that the webhook sets whatever its configuration: the     *)
(* constants at the head of mutator.go                                     *)
OwnNames == {
    "SDK_PKG_VERSION", "LD_PRELOAD", "INJECTOR_CONFIG_FILE", "OTLP_ENDPOINT", "OTLP_PROTOCOL",
    "SEMCONV_STABILITY", "LOG_LEVEL", "CONTAINER_NAME", "NAMESPACE", "POD_NAME", "NODE_NAME",
    "POD_UID", "SERVICE_NAMESPACE", "SERVICE_NAME", "SERVICE_VERSION", "PROPAGATORS", "SAMPLER",
    "SAMPLER_ARG", "METRICS_EXPORTER", "TRACES_EXPORTER", "LOGS_EXPORTER", "RESOURCE_ATTRIBUTES"}

(* the variables of the languages that are not wanted, and of the headers  *)
configuredNames(s) == ToSet(s.disabled) \cup {h[1] : h \in ToSet(s.headers)}

(* the extra attributes of setResourceAttributes: annotations first, the   *)
(* configured ones last; configureContainerEnvVars adds another one        *)
extraResAttrs(meta, c) ==
    LET skipped == IF server.spanMetrics THEN {"skip"} ELSE {}
    IN [a \in skipped |-> Text(<<"true">>)]
         ++ meta.annotations
         ++ [a \in {"service.instance.id"} |-> createServiceInstanceId(meta, c)]
         ++ [a \in {"node"} |-> Ref("NODE_NAME")]
         ++ addParentResourceLabels(meta)
         ++ server.attributes

(* setEnvVarFromFieldPath always adds a variable                           *)
fieldVars ==
    <<FieldVar("NAMESPACE", "namespace"), FieldVar("POD_NAME", "name"), FieldVar("NODE_NAME", "node")>>
        \o (IF server.uids THEN <<FieldVar("POD_UID", "uid")>> ELSE <<>>)

serviceVars(meta, c) == <<
    <<"SERVICE_NAMESPACE", chooseLabelOrAnnotation(meta, server.labels, "service.namespace", <<>>, Ref("NAMESPACE"))>>,
    <<"SERVICE_NAME", chooseServiceName(meta, addParentResourceLabels(meta) ++ server.attributes)>>,
    <<"SERVICE_VERSION", chooseServiceVersion(meta, c)>> >>

(* mutant of setResourceAttributes: the fields come after their references *)
setResourceAttributesFieldsLast(env, meta, c) ==
    setEnvVars(setEnvVar(env, "CONTAINER_NAME", Text(<<c.name>>)), serviceVars(meta, c)) \o fieldVars

setResourceAttributes(env, meta, c) ==
    setEnvVars(setEnvVar(env, "CONTAINER_NAME", Text(<<c.name>>)) \o fieldVars, serviceVars(meta, c))

NoSampler == [name |-> <<>>, arg |-> <<>>]

(* the sampler and the export modes of the selector, if it sets them, go   *)
(* before the others (selectorModes is empty, or holds the set of modes)   *)
exporterVars ==
    LET modes == IF server.selectorModes = {} THEN server.export ELSE UNION server.selectorModes
        sampler == IF server.selectorSampler # NoSampler THEN server.selectorSampler ELSE server.sampler
        exporter(s) == Text(IF s \in modes THEN <<"otlp">> ELSE <<"none">>)
    IN << <<"PROPAGATORS", Text(server.propagators)>>,
          <<"SAMPLER", Text(sampler.name)>>,
          <<"SAMPLER_ARG", Text(sampler.arg)>>,
          <<"METRICS_EXPORTER", exporter("metrics")>>,
          <<"TRACES_EXPORTER", exporter("traces")>>,
          <<"LOGS_EXPORTER", exporter("logs")>> >>

configureContainerEnvVars(env, meta, c) ==
    setVar(setEnvVars(setResourceAttributes(env, meta, c), exporterVars),
           [Var("RESOURCE_ATTRIBUTES", Text(<<"list">>)) EXCEPT !.attrs = extraResAttrs(meta, c)])

(* a variable is set for each language although its value is empty         *)
disableUndesiredSDKs(env) ==
    FoldLeft(LAMBDA e, lang : setVar(e, Var(lang, Text(<<>>))), env, server.disabled)

injectorVars == <<
    <<"SDK_PKG_VERSION", Text(<<server.ver>>)>>,
    <<"LD_PRELOAD", Text(<<"injector">>)>>,
    <<"INJECTOR_CONFIG_FILE", Text(<<"injector">>)>>,
    <<"OTLP_ENDPOINT", Text(<<"endpoint">>)>>,
    <<"OTLP_PROTOCOL", Text(<<"protocol">>)>>,
    <<"SEMCONV_STABILITY", Text(<<"http">>)>>,
    <<"LOG_LEVEL", Text(server.debug)>> >>

(* the headers of the OTLP exporter come last                              *)
addEnvVars(env, meta, c) ==
    LET configured == configureContainerEnvVars(setEnvVars(env, injectorVars), meta, c)
    IN setEnvVars(disableUndesiredSDKs(configured), server.headers)

-----------------------------------------------------------------------------
(* mutatePod                                                               *)

(* mutant of alreadyInstrumented: only the label counts                    *)
alreadyInstrumentedLabel(pod) == pod.label # ""

alreadyInstrumented(pod) ==
    \/ \E k \in DOMAIN pod.containers : Has(pod.containers[k].env, "INJECTOR_CONFIG_FILE")
    \/ pod.label # ""

(* mutant of instrumentContainer: another LD_PRELOAD is replaced           *)
instrumentAnyContainer(c, meta) ==
    [c EXCEPT !.mount = TRUE, !.env = addEnvVars(c.env, meta, c)]

(* a container that preloads something is left alone; addMount replaces a  *)
(* mount of the same name                                                  *)
instrumentContainer(c, meta) ==
    IF Has(c.env, "LD_PRELOAD") THEN c
    ELSE [c EXCEPT !.mount = TRUE, !.env = addEnvVars(c.env, meta, c)]

(* the pod is only patched when its specification changes: a label alone   *)
(* is lost                                                                 *)
mutatePod(pod) ==
    LET cs == [k \in DOMAIN pod.containers |-> instrumentContainer(pod.containers[k], pod.meta)]
        new == [pod EXCEPT !.volume = server.ver, !.containers = cs]
    IN IF alreadyInstrumented(pod) \/ ~matchesSelection(pod.meta) \/ new = pod THEN pod
       ELSE [new EXCEPT !.label = server.ver]

-----------------------------------------------------------------------------
(* What may be submitted, and how a server may be configured.              *)

Texts == [refs : {<<>>}, text : Seq(STRING)]
Metadata == {t.meta : t \in Templates}

(* the variables that users write                                          *)
UserVars == {e \in [name : STRING, field : STRING, value : [refs : Seq(STRING), text : Seq(STRING)],
                    attrs : {NoAttrs}] :
                e.field # "" => e.value = Text(<<>>)}

(* a pod before its admission; the variables of a container, and the       *)
(* containers of a pod, are lists with their names as keys                 *)
(* (k8s.io/api/core/v1/types.go)                                           *)
IsContainer(c) ==
    /\ c = [name |-> c.name, image |-> c.image, user |-> c.user, env |-> c.env, mount |-> c.mount]
    /\ c.user \in Seq(UserVars)
    /\ \A i, j \in DOMAIN c.user : c.user[i].name = c.user[j].name => i = j
IsPod(t) ==
    /\ t = [meta |-> t.meta, containers |-> t.containers, label |-> t.label, volume |-> t.volume,
            copied |-> t.copied]
    /\ t.containers \in Seq(ToSet(t.containers))
    /\ \A j, k \in DOMAIN t.containers : t.containers[j].name = t.containers[k].name => j = k
    /\ \A c \in ToSet(t.containers) : IsContainer(c) /\ c.env = c.user /\ c.mount = FALSE

(* a pod may have owners of any kind; if one of them is of a kind with an  *)
(* attribute, the workload is that one, or the owner of that one, if       *)
(* Kubernetes makes names from its name                                    *)
IsMetadata(m) ==
    /\ \A a \in DOMAIN m.annotations : m.annotations[a] \in Texts
    /\ \A a \in DOMAIN m.labels : m.labels[a] \in Texts
    /\ m.owners \in Seq(ToSet(m.owners))
    /\ m.workload \in Seq(STRING) \ {<<>>}
    /\ \A i \in DOMAIN m.owners : attributed(m) = {i} =>
         \/ m.workload = m.owners[i].name
         \/ hasParent(m.owners[i]) /\ m.workload = Front(m.owners[i].name)

(* no header, and no language, has the name of one of the other variables  *)
IsServer(s) ==
    /\ s.disabled \in Seq(STRING)
    /\ s.headers \in Seq(STRING \X Texts)
    /\ configuredNames(s) \cap OwnNames = {}
    /\ \A a \in DOMAIN s.attributes : s.attributes[a] \in Texts
    /\ s.uids \in BOOLEAN /\ s.labels \in BOOLEAN

ASSUME InputsAssumption ==
    /\ \A t \in Templates : IsPod(t) /\ IsMetadata(t.meta)
    /\ \A s \in Servers : IsServer(s)
    /\ MaxUpgrades \in Nat

-----------------------------------------------------------------------------
InjectInit ==
    /\ pods = [p \in PodIDs |-> NoPod]
    /\ server \in Servers
    /\ upgrades = 0

(* HandleMutate, called for a pod of a controller; the pod starts          *)
Submit(p, t) ==
    /\ pods[p] = NoPod
    /\ pods' = [pods EXCEPT ![p] = mutatePod(t)]
    /\ UNCHANGED <<server, upgrades>>

(* the server is away and the API server goes on without it                *)
SubmitUnseen(p, t) ==
    /\ pods[p] = NoPod
    /\ pods' = [pods EXCEPT ![p] = t]
    /\ UNCHANGED <<server, upgrades>>

(* somebody submits the specification of another pod under the metadata of *)
(* a workload, with or without its labels, maybe with one more container   *)
SubmitCopy(p, q, t, keepLabels, more) ==
    /\ pods[p] = NoPod
    /\ pods[q] # NoPod
    /\ more # <<>> => \A k \in DOMAIN pods[q].containers : pods[q].containers[k].name # "sidecar"
    /\ LET copy == [pods[q] EXCEPT !.meta = t.meta, !.copied = TRUE,
                                   !.label = IF keepLabels THEN @ ELSE "",
                                   !.containers = @ \o more]
       IN pods' = [pods EXCEPT ![p] = mutatePod(copy)]
    /\ UNCHANGED <<server, upgrades>>

Upgrade(s) ==
    /\ upgrades < MaxUpgrades
    /\ s # server
    /\ server' = s
    /\ upgrades' = upgrades + 1
    /\ UNCHANGED pods

(* a container without any settings                                        *)
sidecar == [name |-> "sidecar", image |-> [tag |-> <<>>, digest |-> <<>>], 
            user |-> <<>>, env |-> <<>>, mount |-> FALSE]

InjectNext ==
    \/ \E p \in PodIDs, t \in Templates : Submit(p, t) \/ SubmitUnseen(p, t)
    \/ \E p, q \in PodIDs, t \in Templates, keep \in BOOLEAN, more \in {<<>>, <<sidecar>>} :
          SubmitCopy(p, q, t, keep, more)
    \/ \E s \in Servers : Upgrade(s)

InjectSpec == InjectInit /\ [][InjectNext]_injectVars

-----------------------------------------------------------------------------
(* The environment that the kubelet gives to container c of pod p.         *)

(* the field of the pod that a variable asks for                           *)
fieldOf(p, f) ==
    CASE f = "name" -> <<"pod", p>>
      [] f = "namespace" -> <<pods[p].meta.namespace>>
      [] f = "node" -> <<"node">>
      [] f = "uid" -> <<"uid", p>>

(* what a reference to v at position i expands to; it stays as it is if v  *)
(* is not defined before                                                   *)
lookup(p, env, i, v) ==
    LET j == SelectLastInSeq(SubSeq(env, 1, i - 1), LAMBDA e : e.name = v)
    IN IF j = 0 THEN <<"$", v>>
       ELSE IF env[j].field # "" THEN fieldOf(p, env[j].field)
       ELSE env[j].value.text

expand(p, env, i, value) ==
    FlattenSeq([k \in DOMAIN value.refs |-> lookup(p, env, i, value.refs[k])]) \o value.text

(* the text of variable v, and of the extra attribute a                    *)
textOf(p, env, v) ==
    LET i == SelectLastInSeq(env, LAMBDA e : e.name = v)
    IN IF env[i].field # "" THEN fieldOf(p, env[i].field) ELSE expand(p, env, i, env[i].value)

attrOf(p, env, a) ==
    LET i == SelectLastInSeq(env, LAMBDA e : e.name = "RESOURCE_ATTRIBUTES")
    IN expand(p, env, i, env[i].attrs[a])

(* the variables that a variable refers to                                 *)
RefsOf(e) == ToSet(e.value.refs) \cup UNION {ToSet(e.attrs[a].refs) : a \in DOMAIN e.attrs}

(* the field that a reference is about                                     *)
FieldName(v) ==
    CASE v = "NAMESPACE" -> "namespace" [] v = "POD_NAME" -> "name" [] v = "NODE_NAME" -> "node"

-----------------------------------------------------------------------------
Instrumented(c) == Has(c.env, "LD_PRELOAD") /\ ~Has(c.user, "LD_PRELOAD")

(* the IDs that users give to services in annotations                      *)
AnnotatedIds ==
    {m.annotations["service.instance.id"].text :
        m \in {m \in Metadata : "service.instance.id" \in DOMAIN m.annotations}}

Pods == {p \in PodIDs : pods[p] # NoPod}

(* Types of the variables.  A variable has a value or a source, never both:*)
(* Kubernetes refuses the pod otherwise.                                   *)
InjectTypeOK ==
    /\ server \in Servers
    /\ upgrades \in 0..MaxUpgrades
    /\ \A p \in Pods :
         /\ pods[p].label \in {""} \cup {s.ver : s \in Servers} \cup {t.label : t \in Templates}
         /\ \A k \in DOMAIN pods[p].containers :
              LET c == pods[p].containers[k]
              IN \A i \in DOMAIN c.env : c.env[i].field # "" => c.env[i].value = Text(<<>>)

(* "the kubelet expands $(VAR)": every reference that the webhook writes   *)
(* expands to the field of the pod that it is about, also when a user has  *)
(* a variable of the same name, unless the user has the variable that      *)
(* holds the reference, which then stays in front of the fields            *)
(* (setEnvVarFromFieldPath, env_vars.go:317; setEnvVar, mutator.go:454).   *)
ReferencesResolve ==
    \A p \in Pods : \A k \in DOMAIN pods[p].containers :
        LET c == pods[p].containers[k]
        IN \A i \in DOMAIN c.env : \A v \in RefsOf(c.env[i]) :
              Has(c.user, c.env[i].name) \/ lookup(p, c.env, i, v) = fieldOf(p, FieldName(v))

(* "the uniqueness requirement of service instance id" (env_vars.go:301):  *)
(* no two containers that were instrumented, of one pod or of two, report  *)
(* the same service.instance.id, even if one pod was made from the         *)
(* environment of the other; the IDs that users give in annotations, and   *)
(* containers with a list of attributes of their own, excepted.            *)
InstanceIdsUnique ==
    LET own(p) == {k \in DOMAIN pods[p].containers :
                     LET c == pods[p].containers[k]
                     IN Instrumented(c) /\ ~Has(c.user, "RESOURCE_ATTRIBUTES")}
        id(p, k) == attrOf(p, pods[p].containers[k].env, "service.instance.id")
    IN \A p, q \in Pods : \A j \in own(p), k \in own(q) :
          id(p, j) = id(q, k) => <<p, j>> = <<q, k>> \/ id(p, j) \in AnnotatedIds

(* All pods of a workload report the name of the workload as their service *)
(* name, however Kubernetes names the ReplicaSets and Jobs in between      *)
(* (ownersFrom, mutator.go:488; chooseServiceName, env_vars.go:194), and a *)
(* pod that no workload of a known kind owns reports its own, also if it   *)
(* has owners of other kinds (env_vars.go:216; unless its user has the     *)
(* variable).  A name may come from elsewhere: from annotations and labels,*)
(* from an owner's attribute that a server of this version configures      *)
(* (env_vars.go:198), from the UIDs that AddK8sUIDAttributes puts in the   *)
(* place of names, from a ReplicaSet or Job of nobody with a dash in its   *)
(* name, and in copies of other pods; nothing is said of a pod with several*)
(* owners of these kinds.                                                  *)
ServiceNameIsWorkload ==
    \A p \in Pods : \A k \in DOMAIN pods[p].containers :
        LET c == pods[p].containers[k]
            meta == pods[p].meta
            name == textOf(p, c.env, "SERVICE_NAME")
            configured == UNION {{s.attributes[a].text : a \in DOMAIN s.attributes \cap ToSet(Kinds)} :
                                   s \in {s \in Servers : s.ver = pods[p].volume}}
        IN \/ ~Instrumented(c) \/ pods[p].copied
           \/ "service.name" \in DOMAIN meta.annotations \/ meta.labels # <<>>
           \/ name \in configured
           \/ attributed(meta) = {} /\ (Has(c.user, "SERVICE_NAME") \/ name = fieldOf(p, "name"))
           \/ \E i \in attributed(meta) :
                 \/ attributed(meta) # {i}
                 \/ Has(c.env, "POD_UID") /\ ~hasParent(meta.owners[i])
                 \/ hasParent(meta.owners[i]) /\ meta.owners[i].name = meta.workload
                 \/ name = meta.workload

(* The version of a pod is told in three places that are read at different *)
(* times: the label (AlreadyInstrumented), the environment (the scanner,   *)
(* which decides on the SDKs that are deleted) and the volume.  A container*)
(* with the injector mounts the version of its environment, and the label, *)
(* if there is one, tells the same, whatever servers and copies came in    *)
(* between (alreadyInstrumented, mutator.go:324).                          *)
VersionsAgree ==
    \A p \in Pods : \A k \in DOMAIN pods[p].containers :
        LET c == pods[p].containers[k]
            ver == textOf(p, c.env, "SDK_PKG_VERSION")
        IN Instrumented(c) =>
             /\ c.mount
             /\ ver = <<pods[p].volume>>
             /\ pods[p].label # "" => ver = <<pods[p].label>>

(* "container already using LD_PRELOAD, ignoring" (mutator.go:313): such a *)
(* container keeps the environment that its user gave it; in the others    *)
(* the variables that are not the webhook's keep their values and places.  *)
UserSettingsKept ==
    \A p \in Pods : \A k \in DOMAIN pods[p].containers :
        LET c == pods[p].containers[k]
        IN /\ Has(c.user, "LD_PRELOAD") => c.env = c.user /\ ~c.mount
           /\ \A i \in DOMAIN c.user :
                /\ c.env[i].name = c.user[i].name
                /\ c.user[i].name \notin OwnNames \cup UNION {configuredNames(s) : s \in Servers}
                     => c.env[i] = c.user[i]
=============================================================================
