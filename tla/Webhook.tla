------------------------------- MODULE Webhook -------------------------------
(***************************************************************************)
(* The SDK injection webhook: pkg/webhook.                                 *)
(*                                                                         *)
(* A server on each node admits pods, adding an SDK version to those that  *)
(* its configuration selects (mutator.go).  When it starts it also looks   *)
(* at the processes that already run on its node (scanner.go), removes the *)
(* SDK versions that none of them uses, subscribes to the pod events of    *)
(* the cluster and restarts, once, the deployments whose pods should be    *)
(* instrumented but are not, or the other way round (server.go,            *)
(* bouncer.go).  Events arrive on two goroutines: the subscription's       *)
(* welcome message, and the informer's notifications.  Kubernetes, which   *)
(* creates, starts and replaces pods, is external.                         *)
(*                                                                         *)
(* The SDKs are on a host path with managed versions; image volumes are    *)
(* not modelled.  A pod stands for its one container and process.          *)
(***************************************************************************)
EXTENDS Integers, FiniteSets

CONSTANTS
    Nodes,
    PodIDs,       \* container IDs; each is used once
    Workloads,    \* owners of pods
    Deployments,  \* those of them that are deployments
    CanInstrument,         \* workloads written in a language of EnabledSDKs
    PreloadsSomethingElse, \* workloads with an LD_PRELOAD of their own
    ManuallyInstrumented,  \* workloads that set OTEL_INJECTOR_CONFIG_FILE
    Configs,      \* configurations: [ver : Nat, instrument : SUBSET Workloads]
    NoPod,        \* unused container ID
    NoConfig,     \* the server is down
    Faults,       \* subset of {"api", "environ"}: what may fail
    MaxStarts     \* bound: server starts

VARIABLES
    pods,      \* external: the containers of the cluster
    template,  \* external: restarts of each workload
    sdk,       \* SDK versions on the host path of each node
    srv,       \* Server of each node
    store,     \* kube.Store of each node: pods that it knows
    todo,      \* pods that the welcome message has not sent yet
    task,      \* what the goroutines "welcome" and "informer" of a node do
    restarts,  \* history: restarts by this life of the server
    starts     \* server starts so far

webhookVars == <<pods, template, sdk, srv, store, todo, task, restarts, starts>>
k8sVars == <<pods, template>>
serverVars == <<srv, todo, task, restarts>>

ASSUME WebhookAssumption ==
    /\ IsFiniteSet(PodIDs) /\ IsFiniteSet(Nodes)
    /\ Deployments \subseteq Workloads
    /\ CanInstrument \subseteq Workloads
    /\ PreloadsSomethingElse \subseteq Workloads
    /\ ManuallyInstrumented \subseteq Workloads
    /\ \A c \in Configs : c.ver \in Nat \ {0} /\ c.instrument \subseteq Workloads
    /\ NoConfig \notin Configs
    /\ MaxStarts \in Nat

Threads == {"welcome", "informer"}
Task == [step : {"idle", "notify", "bounce", "patch"},
         of : PodIDs \cup Workloads \cup {NoPod}]
Idle == [step |-> "idle", of |-> NoPod]

(* label: instrumentedLabel; env: envVarSDKVersion; 0 when not set         *)
Pod == [owner : Workloads, node : Nodes, label : Nat, env : Nat, template : Nat,
        state : {"pending", "running", "gone"}]

ASSUME NoPodAssumption == NoPod \notin Pod

NewPod(w, n, ver, env) ==
    [owner |-> w, node |-> n, label |-> ver, env |-> env,
     template |-> template[w], state |-> "pending"]

Server == [phase : {"down", "started", "scanned", "cleaned", "welcome", "subscribed"},
           cfg : Configs \cup {NoConfig}, listening : BOOLEAN,
           initialState : SUBSET PodIDs, env : SUBSET PodIDs, oldest : Nat,
           bounced : SUBSET Deployments, failed : SUBSET Deployments,
           overlap : BOOLEAN]

Down == [phase |-> "down", cfg |-> NoConfig, listening |-> FALSE,
         initialState |-> {}, env |-> {}, oldest |-> 0, bounced |-> {},
         failed |-> {}, overlap |-> FALSE]

Pods == {p \in PodIDs : pods[p] # NoPod}
Exists == {p \in Pods : pods[p].state # "gone"}
RunningOn(n) == {p \in Pods : pods[p].node = n /\ pods[p].state = "running"}
Up(n) == srv[n].phase # "down"

(* Pods from before the webhook was installed.                             *)
WebhookInit ==
    /\ template = [w \in Workloads |-> 0]
    /\ \E P \in SUBSET PodIDs :
       \E owner \in [P -> Workloads], node \in [P -> Nodes] :
          pods = [p \in PodIDs |-> IF p \in P THEN NewPod(owner[p], node[p], 0, 0) ELSE NoPod]
    /\ sdk = [n \in Nodes |-> {}]
    /\ srv = [n \in Nodes |-> Down]
    /\ store = [n \in Nodes |-> {}]
    /\ todo = [n \in Nodes |-> {}]
    /\ task = [n \in Nodes |-> [t \in Threads |-> Idle]]
    /\ restarts = [n \in Nodes |-> [w \in Workloads |-> 0]]
    /\ starts = 0

-----------------------------------------------------------------------------
(* Life of a server.                                                       *)

(* the init container has put the SDK on the host path, and Server.Start   *)
(* has found its TLS files                                                 *)
Start(n) ==
    /\ ~Up(n)
    /\ starts < MaxStarts
    /\ starts' = starts + 1
    /\ \E c \in Configs :
         /\ srv' = [srv EXCEPT ![n] = [Down EXCEPT !.phase = "started", !.cfg = c]]
         /\ sdk' = [sdk EXCEPT ![n] = @ \cup {c.ver}]
    /\ UNCHANGED <<k8sVars, store, todo, task, restarts>>

(* ListenAndServeTLS, in a goroutine of its own                            *)
Listen(n) ==
    /\ Up(n)
    /\ ~srv[n].listening
    /\ srv' = [srv EXCEPT ![n].listening = TRUE]
    /\ UNCHANGED <<k8sVars, sdk, store, todo, task, restarts, starts>>

(* cancellation, a failed goroutine of the error group, or a crash         *)
Stop(n) ==
    /\ Up(n)
    /\ srv' = [srv EXCEPT ![n] = Down]
    /\ todo' = [todo EXCEPT ![n] = {}]
    /\ task' = [task EXCEPT ![n] = [t \in Threads |-> Idle]]
    /\ store' = [store EXCEPT ![n] = {}]
    /\ restarts' = [restarts EXCEPT ![n] = [w \in Workloads |-> 0]]
    /\ UNCHANGED <<k8sVars, sdk, starts>>

-----------------------------------------------------------------------------
(* getInitialState, in a goroutine of its own.                             *)

(* the oldest version in the environments that were read                   *)
OldestSDKVersion(n, env) ==
    LET vers == {pods[p].env : p \in env} \ {0}
    IN  IF vers = {} THEN srv[n].cfg.ver
        ELSE CHOOSE v \in vers : \A u \in vers : v <= u

(* FindExistingProcesses: the environment of a process may not be readable *)
Scan(n) ==
    /\ srv[n].phase = "started"
    /\ \E env \in SUBSET RunningOn(n) :
         /\ "environ" \notin Faults => env = RunningOn(n)
         /\ srv' = [srv EXCEPT ![n].phase = "scanned",
                               ![n].initialState = RunningOn(n),
                               ![n].env = env,
                               ![n].oldest = OldestSDKVersion(n, env)]
    /\ UNCHANGED <<k8sVars, sdk, store, todo, task, restarts, starts>>

(* mutant of Cleanup: everything older than the current version goes       *)
CleanupOlderThanCurrent(n) ==
    /\ srv[n].phase = "scanned"
    /\ sdk' = [sdk EXCEPT ![n] = {v \in @ : v >= srv[n].cfg.ver}]
    /\ srv' = [srv EXCEPT ![n].phase = "cleaned", ![n].oldest = 0]
    /\ UNCHANGED <<k8sVars, store, todo, task, restarts, starts>>

(* cleanupOldInstrumentationVersions, down to the oldest version in use or *)
(* the current one if that is older still                                  *)
Cleanup(n) ==
    /\ srv[n].phase = "scanned"
    /\ sdk' = [sdk EXCEPT ![n] = {v \in @ : v >= srv[n].oldest \/ v >= srv[n].cfg.ver}]
    /\ srv' = [srv EXCEPT ![n].phase = "cleaned", ![n].oldest = 0]
    /\ UNCHANGED <<k8sVars, store, todo, task, restarts, starts>>

(* mutant of Subscribe: there is no welcome message                        *)
SubscribeOnly(n) ==
    /\ srv[n].phase = "cleaned"
    /\ srv' = [srv EXCEPT ![n].phase = "welcome"]
    /\ UNCHANGED <<k8sVars, sdk, store, todo, task, restarts, starts>>

(* Store.Subscribe registers the server, then sends it every pod of the    *)
(* store under the store's read lock                                       *)
Subscribe(n) ==
    /\ srv[n].phase = "cleaned"
    /\ srv' = [srv EXCEPT ![n].phase = "welcome"]
    /\ todo' = [todo EXCEPT ![n] = store[n]]
    /\ UNCHANGED <<k8sVars, sdk, store, task, restarts, starts>>

(* Store.Subscribe returns and releases the lock                           *)
EndWelcome(n) ==
    /\ srv[n].phase = "welcome"
    /\ todo[n] = {}
    /\ task[n]["welcome"] = Idle
    /\ srv' = [srv EXCEPT ![n].phase = "subscribed"]
    /\ UNCHANGED <<k8sVars, sdk, store, todo, task, restarts, starts>>

-----------------------------------------------------------------------------
(* Server.On, on both goroutines.                                          *)

(* PodMutator.AlreadyInstrumented: the label, or else the environment that *)
(* the scanner read                                                        *)
AlreadyInstrumented(n, p) ==
    IF pods[p].label # 0 THEN pods[p].label = srv[n].cfg.ver
    ELSE p \in srv[n].env /\ pods[p].env = srv[n].cfg.ver

(* a process whose environment was not read has no visible LD_PRELOAD      *)
Preloads(n, p) == p \in srv[n].env /\ pods[p].owner \in PreloadsSomethingElse

Matched(n, w) == w \in srv[n].cfg.instrument

ShouldRestart(n, p) ==
    IF AlreadyInstrumented(n, p) THEN ~Matched(n, pods[p].owner)
    ELSE /\ pods[p].owner \in CanInstrument
         /\ ~Preloads(n, p)
         /\ Matched(n, pods[p].owner)

(* mutant of AlreadyBounced: the mark is ignored                           *)
AlreadyBouncedNever(n, w) == FALSE

AlreadyBounced(n, w) == w \in srv[n].bounced

(* On, up to the question whether the deployment was restarted already.    *)
(* Containers that the scan did not find are ignored.                      *)
On(n, t, p) ==
    task' = [task EXCEPT ![n][t] =
        IF /\ p \in srv[n].initialState
           /\ ShouldRestart(n, p)
           /\ pods[p].owner \in Deployments
           /\ ~AlreadyBounced(n, pods[p].owner)
        THEN [step |-> "bounce", of |-> pods[p].owner]
        ELSE Idle]

Welcome(n) ==
    /\ srv[n].phase = "welcome"
    /\ task[n]["welcome"] = Idle
    /\ \E p \in todo[n] :
         /\ On(n, "welcome", p)
         /\ todo' = [todo EXCEPT ![n] = @ \ {p}]
    /\ UNCHANGED <<k8sVars, sdk, srv, store, restarts, starts>>

(* RestartDeployment marks first...                                        *)
MarkBounced(n, t) ==
    /\ task[n][t].step = "bounce"
    /\ srv' = [srv EXCEPT ![n].bounced = @ \cup {task[n][t].of}]
    /\ task' = [task EXCEPT ![n][t].step = "patch"]
    /\ UNCHANGED <<k8sVars, sdk, store, todo, restarts, starts>>

(* ... then reads and patches the deployment, which may fail               *)
Patch(n, t) ==
    /\ task[n][t].step = "patch"
    /\ LET w == task[n][t].of
       IN  /\ template' = [template EXCEPT ![w] = @ + 1]
           /\ restarts' = [restarts EXCEPT ![n][w] = @ + 1]
    /\ task' = [task EXCEPT ![n][t] = Idle]
    /\ UNCHANGED <<pods, sdk, srv, store, todo, starts>>

PatchFails(n, t) ==
    /\ "api" \in Faults
    /\ task[n][t].step = "patch"
    /\ srv' = [srv EXCEPT ![n].failed = @ \cup {task[n][t].of}]
    /\ task' = [task EXCEPT ![n][t] = Idle]
    /\ UNCHANGED <<k8sVars, sdk, store, todo, restarts, starts>>

-----------------------------------------------------------------------------
(* Pod events: the informer's goroutine updates the store under its write  *)
(* lock, and notifies the observers after it has released the lock.  Until *)
(* a pod runs its events carry no container ID, and are of no use to On.   *)

StoreOn(n, p) ==
    /\ Up(n)
    /\ srv[n].phase # "welcome"
    /\ task[n]["informer"] = Idle
    /\ p \in Exists \cup store[n]
    /\ pods[p].state # "pending"
    /\ store' = [store EXCEPT ![n] = @ \cup {p}]
    /\ task' = [task EXCEPT ![n]["informer"] = [step |-> "notify", of |-> p]]
    /\ UNCHANGED <<k8sVars, sdk, srv, todo, restarts, starts>>

(* a deletion; Server.On ignores it                                        *)
StoreOnDeleted(n, p) ==
    /\ Up(n)
    /\ srv[n].phase # "welcome"
    /\ task[n]["informer"] = Idle
    /\ p \in store[n] \ Exists
    /\ store' = [store EXCEPT ![n] = @ \ {p}]
    /\ UNCHANGED <<k8sVars, sdk, serverVars, starts>>

Notify(n) ==
    /\ task[n]["informer"].step = "notify"
    /\ IF srv[n].phase \in {"welcome", "subscribed"}
       THEN /\ On(n, "informer", task[n]["informer"].of)
            /\ srv' = [srv EXCEPT ![n].overlap = @ \/ srv[n].phase = "welcome"]
       ELSE /\ task' = [task EXCEPT ![n]["informer"] = Idle]
            /\ UNCHANGED srv
    /\ UNCHANGED <<k8sVars, sdk, store, todo, restarts, starts>>

-----------------------------------------------------------------------------
(* Kubernetes and the host.                                                *)

(* PodMutator.mutatePod, as the version that the label and the environment *)
(* of the container get; 0 when the pod is left alone                      *)
mutatedLabel(n, w) ==
    IF w \in ManuallyInstrumented \/ ~Matched(n, w) THEN 0 ELSE srv[n].cfg.ver

(* mutant of mutatedEnv: containers of unmatched pods get it as well       *)
mutatedEnvOfAny(n, w) ==
    IF w \in PreloadsSomethingElse THEN 0 ELSE srv[n].cfg.ver

mutatedEnv(n, w) ==
    IF w \in PreloadsSomethingElse THEN 0 ELSE mutatedLabel(n, w)

(* A pod is admitted by any server that listens (the Service in front of   *)
(* the webhook chooses) and scheduled on any node; with failurePolicy Fail *)
(* there is no admission without a server.                                 *)
HandleMutate(n, p, w, on) ==
    /\ srv[n].listening
    /\ pods[p] = NoPod
    /\ pods' = [pods EXCEPT ![p] = NewPod(w, on, mutatedLabel(n, w), mutatedEnv(n, w))]
    /\ UNCHANGED <<template, sdk, serverVars, store, starts>>

(* the kubelet starts the container, DirectoryOrCreate: even when the SDK  *)
(* is not on the host path                                                 *)
StartPod(p) ==
    /\ p \in Pods
    /\ pods[p].state = "pending"
    /\ pods' = [pods EXCEPT ![p].state = "running"]
    /\ UNCHANGED <<template, sdk, serverVars, store, starts>>

Replace(p) ==
    /\ p \in Exists
    /\ pods[p].template < template[pods[p].owner]
    /\ pods' = [pods EXCEPT ![p].state = "gone"]
    /\ UNCHANGED <<template, sdk, serverVars, store, starts>>

-----------------------------------------------------------------------------
Serve(n) ==
    \/ Start(n) \/ Listen(n) \/ Stop(n)
    \/ Scan(n) \/ Cleanup(n) \/ Subscribe(n) \/ EndWelcome(n)
    \/ Welcome(n) \/ Notify(n)
    \/ \E t \in Threads : MarkBounced(n, t) \/ Patch(n, t) \/ PatchFails(n, t)
    \/ \E p \in PodIDs : StoreOn(n, p) \/ StoreOnDeleted(n, p)

Kubernetes ==
    \/ \E n, on \in Nodes, p \in PodIDs, w \in Workloads : HandleMutate(n, p, w, on)
    \/ \E p \in PodIDs : StartPod(p) \/ Replace(p)

WebhookNext == (\E n \in Nodes : Serve(n)) \/ Kubernetes

WebhookSpec == WebhookInit /\ [][WebhookNext]_webhookVars

(* The goroutines of a server run; the informer lists every pod; a rollout *)
(* that was started replaces the old pods.                                 *)
WebhookFairness ==
    /\ \A n \in Nodes :
        /\ WF_webhookVars(Scan(n) \/ Cleanup(n) \/ Subscribe(n) \/ Welcome(n) \/ EndWelcome(n))
        /\ \A t \in Threads : WF_webhookVars(MarkBounced(n, t) \/ Patch(n, t))
        /\ WF_webhookVars(Notify(n))
        /\ \A p \in PodIDs : SF_webhookVars(p \notin store[n] /\ StoreOn(n, p))
    /\ \A p \in PodIDs : WF_webhookVars(Replace(p))

FairWebhookSpec == WebhookSpec /\ WebhookFairness

-----------------------------------------------------------------------------
(* The types of the state, what the label and the environment of a pod    *)
(* have to do with each other, and what a welcome message is made of.      *)
WebhookTypeOK ==
    /\ pods \in [PodIDs -> Pod \cup {NoPod}]
    /\ \A p \in Pods :
        /\ pods[p].env \in {0, pods[p].label}
        /\ pods[p].template <= template[pods[p].owner]
    /\ template \in [Workloads -> Nat]
    /\ sdk \in [Nodes -> SUBSET {c.ver : c \in Configs}]
    /\ srv \in [Nodes -> Server]
    /\ store \in [Nodes -> SUBSET PodIDs]
    /\ todo \in [Nodes -> SUBSET PodIDs]
    /\ task \in [Nodes -> [Threads -> Task]]
    /\ restarts \in [Nodes -> [Workloads -> Nat]]
    /\ starts \in 0..MaxStarts
    /\ \A n \in Nodes :
        /\ Up(n) <=> srv[n].cfg \in Configs
        /\ srv[n].env \subseteq srv[n].initialState
        /\ todo[n] \subseteq store[n]

(* The cleanup of the host path takes no SDK version from a process whose  *)
(* environment the scan has read, from the scan to the end of the server's *)
(* life: through upgrades and downgrades, pods that another version has    *)
(* admitted, and a crash between scan and cleanup.                         *)
ScannedKeepSDK ==
    [][\A n \in Nodes : \A p \in srv[n].env :
         pods[p].env # 0 /\ pods[p].env \in sdk[n] => pods[p].env \in sdk'[n]]_webhookVars

(* One life of a server restarts a deployment at most once, unless a pod   *)
(* event was notified while the welcome message was being sent.            *)
OneRestartUnlessOverlap ==
    \A n \in Nodes, w \in Workloads : restarts[n][w] > 1 => srv[n].overlap

(* Every pod of a deployment that runs when the server scans its node, and *)
(* that the configuration wants otherwise, is eventually replaced, as long *)
(* as the server lives and its call of the API succeeds: neither the gap   *)
(* between scan and subscription nor the restart mark loses one.           *)
WrongPodsReplaced ==
    \A n \in Nodes, p \in PodIDs :
        (/\ p \in srv[n].initialState \cap Exists
         /\ pods[p].owner \in Deployments
         /\ ShouldRestart(n, p))
        ~> (p \notin Exists \/ ~Up(n) \/ pods[p].owner \in srv[n].failed)
=============================================================================
