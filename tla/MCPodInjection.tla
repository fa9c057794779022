---------------------------- MODULE MCPodInjection ----------------------------
(* Instance of PodInjection for TLC.                                       *)
EXTENDS PodInjection, TLC

owner(kind, name, native) == [kind |-> kind, name |-> name, native |-> native, uid |-> <<"uid", kind>>]

meta(owners, workload) ==
    [namespace |-> "ns", name |-> <<"solo">>, owners |-> owners, workload |-> workload,
     annotations |-> <<>>, labels |-> <<>>]

(* a Deployment with a dash in its name, of two ReplicaSets; workloads of  *)
(* other kinds; a Job of nobody; a pod of nobody; one of an owner without  *)
(* an attribute, and one of two owners with one                            *)
Metas == {
    meta(<<owner("replicaset", <<"my", "web", "h1">>, TRUE)>>, <<"my", "web">>),
    meta(<<owner("other", <<"my", "gang">>, FALSE), owner("replicaset", <<"my", "web", "h2">>, TRUE)>>,
         <<"my", "web">>),
    meta(<<owner("statefulset", <<"my", "db">>, TRUE)>>, <<"my", "db">>),
    meta(<<owner("job", <<"my", "web", "28">>, TRUE)>>, <<"my", "web">>),
    meta(<<owner("job", <<"my", "task">>, TRUE)>>, <<"my", "task">>),
    meta(<<>>, <<"solo">>),
    meta(<<owner("other", <<"my", "db">>, FALSE)>>, <<"my", "db">>),
    meta(<<owner("statefulset", <<"my", "db">>, TRUE), owner("replicaset", <<"my", "web", "h1">>, TRUE)>>,
         <<"my", "web">>),
    [meta(<<owner("daemonset", <<"my", "db">>, TRUE)>>, <<"my", "db">>) EXCEPT
        !.annotations = "service.name" :> Text(<<"named">>) @@ "skip" :> Text(<<"false">>)],
    [meta(<<owner("statefulset", <<"my", "db">>, TRUE)>>, <<"my", "db">>) EXCEPT
        !.labels = "name" :> Text(<<"labelled">>) @@ "instance" :> Text(<<>>)],
    [meta(<<>>, <<"solo">>) EXCEPT !.annotations = "service.instance.id" :> Text(<<"mine">>)]}

container(n, env) ==
    [name |-> n, image |-> [tag |-> <<"1.0">>, digest |-> <<>>], user |-> env, env |-> env, mount |-> FALSE]

user(v) == Var(v, Text(<<"user">>))

(* the containers of a pod, by what their user sets                        *)
Containers == {
    <<container("a", <<>>), container("b", <<user("APP")>>)>>,
    <<container("a", <<user("POD_NAME"), user("APP"), user("PROPAGATORS")>>)>>,
    <<container("a", <<FieldVar("SERVICE_NAME", "name"), user("RESOURCE_ATTRIBUTES"), user("APP")>>)>>,
    <<container("a", <<user("LD_PRELOAD")>>), container("b", <<>>)>>,
    <<container("a", <<user("LD_PRELOAD")>>)>>,
    <<container("a", <<user("INJECTOR_CONFIG_FILE")>>)>>}

pod(m, cs) ==
    [meta |-> m, containers |-> cs, label |-> "", volume |-> "", copied |-> FALSE]

(* every kind of owner, and every kind of container; a pod with a label of *)
(* somebody else                                                           *)
MCTemplates ==
    LET first == meta(<<owner("replicaset", <<"my", "web", "h1">>, TRUE)>>, <<"my", "web">>)
        two == <<container("a", <<>>), container("b", <<user("APP")>>)>>
    IN {pod(m, two) : m \in Metas} \cup {pod(first, cs) : cs \in Containers}
         \cup {[pod(first, two) EXCEPT !.label = "theirs"]}

plain == [ver |-> "v1", select |-> {<<"my", "web">>, <<"my", "db">>, <<"my">>, <<"solo">>},
          uids |-> FALSE, labels |-> FALSE, attributes |-> "tier" :> Text(<<"dev">>),
          spanMetrics |-> FALSE, propagators |-> <<>>, sampler |-> NoSampler,
          selectorSampler |-> NoSampler, selectorModes |-> {}, export |-> {"traces", "metrics"},
          debug |-> <<>>, disabled |-> <<>>, headers |-> <<>>]

MCServers == {
    plain,
    [plain EXCEPT !.ver = "v2", !.labels = TRUE, !.spanMetrics = TRUE, !.debug = <<"debug">>,
                  !.propagators = <<"b3">>, !.sampler = [name |-> <<"ratio">>, arg |-> <<"half">>],
                  !.selectorModes = {{}}, !.disabled = <<"java">>,
                  !.headers = << <<"HEADER", Text(<<"tenant">>)>> >>],
    [plain EXCEPT !.ver = "v2", !.uids = TRUE, !.select = {<<"my", "web">>, <<"my", "db">>}],
    [plain EXCEPT !.ver = "v3", !.attributes = "deployment" :> Text(<<"configured">>) @@ "job" :> Text(<<>>)]}
=============================================================================
