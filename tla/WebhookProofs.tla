---------------------------- MODULE WebhookProofs ----------------------------
(* Proofs about Webhook, for every cluster: any nodes, pods, workloads and *)
(* configurations, and any number of server starts.                        *)
EXTENDS Webhook, NatMinimum, TLAPS

(* what a goroutine of the server holds: a pod to notify of, or a          *)
(* deployment that it restarts.  Only the informer notifies, and the       *)
(* welcome message only restarts while it is being sent.                   *)
TaskInv(n) ==
    /\ \A t \in Threads :
         /\ task[n][t].step \in {"bounce", "patch"} => task[n][t].of \in Deployments
         /\ task[n][t].step = "notify" => task[n][t].of \in PodIDs
    /\ task[n]["welcome"] # Idle => srv[n].phase = "welcome"
    /\ task[n]["welcome"].step # "notify"

(* what the scan has found is still known when the cleanup runs            *)
ScanInv(n) ==
    /\ srv[n].env \subseteq Pods
    /\ srv[n].phase = "scanned" =>
         \A p \in srv[n].env : pods[p].env # 0 => srv[n].oldest <= pods[p].env

(* a deployment that was restarted, or is about to be, is marked           *)
OnceInv(n) ==
    /\ task[n]["informer"].step \in {"bounce", "patch"} => srv[n].phase = "subscribed"
    /\ \A w \in Workloads :
         restarts[n][w] # 0 => restarts[n][w] = 1 /\ w \in srv[n].bounced
    /\ \A t \in Threads :
         /\ task[n][t].step = "bounce" => task[n][t].of \notin srv[n].bounced
         /\ task[n][t].step = "patch" =>
              task[n][t].of \in srv[n].bounced /\ restarts[n][task[n][t].of] = 0

NodeInv(n) ==
    /\ ~Up(n) => srv[n] = Down
    /\ srv[n].phase # "welcome" => todo[n] = {}
    /\ TaskInv(n)
    /\ ScanInv(n)
    /\ ~srv[n].overlap => OnceInv(n)

IInv == WebhookTypeOK /\ \A n \in Nodes : NodeInv(n)

-----------------------------------------------------------------------------
(* Types of the parts, as the steps use them.                              *)
LEMMA TypeFacts ==
    /\ Idle \in Task
    /\ \A p \in PodIDs : [step |-> "notify", of |-> p] \in Task
    /\ \A w \in Workloads : [step |-> "bounce", of |-> w] \in Task
    /\ Down \in Server
    /\ "welcome" \in Threads /\ "informer" \in Threads
    /\ Deployments \subseteq Workloads
    /\ \A c \in Configs : c.ver \in Nat \ {0} /\ c.instrument \subseteq Workloads
BY WebhookAssumption DEF Idle, Task, Down, Server, Threads

(* The node that takes no step keeps its invariant as long as the pods     *)
(* that its server has scanned keep their environment.                     *)
LEMMA OtherNode ==
    ASSUME NEW m \in Nodes, NodeInv(m),
           srv'[m] = srv[m], todo'[m] = todo[m], task'[m] = task[m],
           restarts'[m] = restarts[m],
           \A p \in Pods : p \in Pods' /\ pods'[p].env = pods[p].env
    PROVE  NodeInv(m)'
BY DEF NodeInv, Up, TaskInv, ScanInv, OnceInv

(* The oldest version is one of those that the scan has read, or the       *)
(* server's own.                                                           *)
LEMMA OldestIsLeast ==
    ASSUME WebhookTypeOK, NEW n \in Nodes, srv[n].cfg \in Configs,
           NEW env \in SUBSET Pods
    PROVE  /\ OldestSDKVersion(n, env) \in Nat
           /\ \A p \in env : pods[p].env # 0 => OldestSDKVersion(n, env) <= pods[p].env
<1> DEFINE vers == {pods[p].env : p \in env} \ {0}
<1>1. vers \in SUBSET Nat
  <2>1. \A p \in env : pods[p] \in Pod
    BY DEF WebhookTypeOK, Pods
  <2> QED BY <2>1 DEF Pod
<1>2. CASE vers = {}
  <2>1. OldestSDKVersion(n, env) = srv[n].cfg.ver
    BY <1>2 DEF OldestSDKVersion
  <2> QED BY <1>2, <2>1, TypeFacts
<1>3. CASE vers # {}
  <2>1. \E v \in vers : \A u \in vers : v <= u
    BY <1>1, <1>3, LeastExists
  <2>2. OldestSDKVersion(n, env) = CHOOSE v \in vers : \A u \in vers : v <= u
    BY <1>3 DEF OldestSDKVersion
  <2> HIDE DEF vers
  <2>3. OldestSDKVersion(n, env) \in vers
        /\ \A u \in vers : OldestSDKVersion(n, env) <= u
    BY <2>1, <2>2
  <2>4. \A p \in env : pods[p].env # 0 => pods[p].env \in vers
    BY DEF vers
  <2> QED BY <1>1, <2>3, <2>4
<1> QED BY <1>2, <1>3

(* Only pods that exist have an environment, and admissions do not reuse   *)
(* container IDs: a step that leaves pods alone keeps what was scanned.    *)
LEMMA PodsFrame ==
    ASSUME UNCHANGED pods
    PROVE  Pods' = Pods /\ \A p \in Pods : p \in Pods' /\ pods'[p].env = pods[p].env
BY DEF Pods

-----------------------------------------------------------------------------
(* The life of a server.                                                   *)
LEMMA IStart ==
    ASSUME IInv, NEW n \in Nodes, Start(n)
    PROVE  IInv'
<1> USE DEF IInv
<1>1. PICK c \in Configs :
        /\ srv' = [srv EXCEPT ![n] = [Down EXCEPT !.phase = "started", !.cfg = c]]
        /\ sdk' = [sdk EXCEPT ![n] = @ \cup {c.ver}]
  BY DEF Start
<1>2. /\ ~Up(n) /\ starts < MaxStarts /\ starts' = starts + 1
      /\ UNCHANGED <<pods, template, store, todo, task, restarts>>
  BY DEF Start, k8sVars
<1>3. [Down EXCEPT !.phase = "started", !.cfg = c] \in Server
  BY DEF Down, Server
<1>4. srv'[n] = [Down EXCEPT !.phase = "started", !.cfg = c]
  BY <1>1 DEF WebhookTypeOK
<1>5. srv[n] = Down
  BY <1>2 DEF NodeInv
<1>6. WebhookTypeOK'
  <2>1. srv' \in [Nodes -> Server]
    BY <1>1, <1>3 DEF WebhookTypeOK
  <2>2. sdk' \in [Nodes -> SUBSET {k.ver : k \in Configs}]
    BY <1>1 DEF WebhookTypeOK
  <2>3. starts' \in 0..MaxStarts
    BY <1>2, WebhookAssumption DEF WebhookTypeOK
  <2>4. \A m \in Nodes : /\ (Up(m) <=> srv[m].cfg \in Configs)'
                         /\ (srv[m].env \subseteq srv[m].initialState)'
    BY <1>1, <1>4 DEF WebhookTypeOK, Up, Down
  <2> QED BY <1>2, <2>1, <2>2, <2>3, <2>4 DEF WebhookTypeOK, Pods
<1>7. ASSUME NEW m \in Nodes, m # n PROVE NodeInv(m)'
  <2>1. srv'[m] = srv[m]
    BY <1>1, <1>7 DEF WebhookTypeOK
  <2> QED BY <1>2, <2>1, OtherNode, PodsFrame
<1>8. NodeInv(n)'
  <2>1. /\ srv'[n].phase = "started" /\ srv'[n].env = {} /\ ~srv'[n].overlap
        /\ srv'[n].bounced = {}
    BY <1>4 DEF Down
  <2>2. srv[n].phase = "down" /\ srv[n].bounced = {} /\ ~srv[n].overlap
    BY <1>5 DEF Down
  <2>3. OnceInv(n) /\ TaskInv(n) /\ todo[n] = {}
    BY <2>2 DEF NodeInv
  <2>4. task[n]["welcome"] = Idle /\ task[n]["informer"].step \notin {"bounce", "patch"}
    BY <2>2, <2>3 DEF TaskInv, OnceInv
  <2>5. \A t \in Threads : task[n][t].step \notin {"bounce", "patch"}
    BY <2>4 DEF Threads, Idle
  <2>6. TaskInv(n)'
    BY <1>2, <2>3, <2>4 DEF TaskInv
  <2>7. OnceInv(n)'
    BY <1>2, <2>1, <2>2, <2>3, <2>4, <2>5 DEF OnceInv
  <2> QED BY <1>2, <2>1, <2>3, <2>6, <2>7 DEF NodeInv, Up, ScanInv
<1> QED BY <1>6, <1>7, <1>8

(* A server that listens differs in nothing that the invariant reads.      *)
LEMMA IListen ==
    ASSUME IInv, NEW n \in Nodes, Listen(n)
    PROVE  IInv'
<1> USE DEF IInv
<1>1. /\ Up(n) /\ srv' = [srv EXCEPT ![n].listening = TRUE]
      /\ UNCHANGED <<pods, template, sdk, store, todo, task, restarts, starts>>
  BY DEF Listen, k8sVars
<1>2. srv[n] \in Server /\ srv'[n] = [srv[n] EXCEPT !.listening = TRUE]
  BY <1>1 DEF WebhookTypeOK
<1>3. srv'[n] \in Server
  BY <1>2 DEF Server
<1>4. /\ srv'[n].phase = srv[n].phase /\ srv'[n].cfg = srv[n].cfg
      /\ srv'[n].initialState = srv[n].initialState /\ srv'[n].env = srv[n].env
      /\ srv'[n].oldest = srv[n].oldest /\ srv'[n].bounced = srv[n].bounced
      /\ srv'[n].overlap = srv[n].overlap
  BY <1>2 DEF Server
<1>5. \A m \in Nodes \ {n} : srv'[m] = srv[m]
  BY <1>1 DEF WebhookTypeOK
<1>6. WebhookTypeOK'
  <2>1. srv' \in [Nodes -> Server]
    BY <1>1, <1>2, <1>3 DEF WebhookTypeOK
  <2> QED BY <1>1, <1>4, <1>5, <2>1 DEF WebhookTypeOK, Pods, Up
<1>7. ASSUME NEW m \in Nodes, m # n PROVE NodeInv(m)'
  BY <1>1, <1>5, <1>7, OtherNode, PodsFrame
<1>8. NodeInv(n)'
  BY <1>1, <1>4, PodsFrame DEF NodeInv, Up, TaskInv, ScanInv, OnceInv
<1> QED BY <1>6, <1>7, <1>8

(* A server that stops forgets everything.                                 *)
LEMMA IStop ==
    ASSUME IInv, NEW n \in Nodes, Stop(n)
    PROVE  IInv'
<1> USE DEF IInv
<1>1. /\ srv' = [srv EXCEPT ![n] = Down]
      /\ todo' = [todo EXCEPT ![n] = {}]
      /\ task' = [task EXCEPT ![n] = [t \in Threads |-> Idle]]
      /\ store' = [store EXCEPT ![n] = {}]
      /\ restarts' = [restarts EXCEPT ![n] = [w \in Workloads |-> 0]]
      /\ UNCHANGED <<pods, template, sdk, starts>>
  BY DEF Stop, k8sVars
<1>2. /\ srv'[n] = Down /\ todo'[n] = {} /\ store'[n] = {}
      /\ task'[n] = [t \in Threads |-> Idle]
      /\ restarts'[n] = [w \in Workloads |-> 0]
  BY <1>1 DEF WebhookTypeOK
<1>3. \A m \in Nodes \ {n} : /\ srv'[m] = srv[m] /\ todo'[m] = todo[m]
                             /\ store'[m] = store[m] /\ task'[m] = task[m]
                             /\ restarts'[m] = restarts[m]
  BY <1>1 DEF WebhookTypeOK
<1>4. WebhookTypeOK'
  <2>1. srv' \in [Nodes -> Server] /\ task' \in [Nodes -> [Threads -> Task]]
    BY <1>1, TypeFacts DEF WebhookTypeOK
  <2>2. restarts' \in [Nodes -> [Workloads -> Nat]]
    BY <1>1 DEF WebhookTypeOK
  <2>3. todo' \in [Nodes -> SUBSET PodIDs] /\ store' \in [Nodes -> SUBSET PodIDs]
    BY <1>1 DEF WebhookTypeOK
  <2>4. \A m \in Nodes : /\ (Up(m) <=> srv[m].cfg \in Configs)'
                         /\ (srv[m].env \subseteq srv[m].initialState)'
                         /\ todo'[m] \subseteq store'[m]
    <3>1. /\ srv'[n].phase = "down" /\ srv'[n].cfg = NoConfig
          /\ srv'[n].env = {} /\ srv'[n].initialState = {}
      BY <1>2 DEF Down
    <3>2. NoConfig \notin Configs
      BY WebhookAssumption
    <3>3. \A m \in Nodes \ {n} : /\ srv[m].phase # "down" <=> srv[m].cfg \in Configs
                                 /\ srv[m].env \subseteq srv[m].initialState
                                 /\ todo[m] \subseteq store[m]
      BY DEF WebhookTypeOK, Up
    <3> QED BY <1>2, <1>3, <3>1, <3>2, <3>3 DEF Up
  <2> QED BY <1>1, <2>1, <2>2, <2>3, <2>4 DEF WebhookTypeOK, Pods
<1>5. ASSUME NEW m \in Nodes, m # n PROVE NodeInv(m)'
  BY <1>1, <1>3, <1>5, OtherNode, PodsFrame
<1>6. NodeInv(n)'
  <2>1. \A t \in Threads : task'[n][t] = Idle
    BY <1>2
  <2>2. \A t \in Threads : task'[n][t].step = "idle"
    BY <2>1 DEF Idle
  <2>3. TaskInv(n)' /\ OnceInv(n)'
    BY <1>2, <2>1, <2>2, TypeFacts DEF TaskInv, OnceInv
  <2> QED BY <1>2, <2>3 DEF NodeInv, Up, Down, ScanInv
<1> QED BY <1>4, <1>5, <1>6


-----------------------------------------------------------------------------
(* The scan, the cleanup and the subscription.                             *)
LEMMA IScan ==
    ASSUME IInv, NEW n \in Nodes, Scan(n)
    PROVE  IInv'
<1> USE DEF IInv
<1>1. PICK env \in SUBSET RunningOn(n) :
        srv' = [srv EXCEPT ![n].phase = "scanned",
                           ![n].initialState = RunningOn(n),
                           ![n].env = env,
                           ![n].oldest = OldestSDKVersion(n, env)]
  BY DEF Scan
<1>2. /\ srv[n].phase = "started"
      /\ UNCHANGED <<pods, template, sdk, store, todo, task, restarts, starts>>
  BY DEF Scan, k8sVars
<1>3. RunningOn(n) \subseteq Pods /\ Pods \subseteq PodIDs /\ srv[n].cfg \in Configs
  BY <1>2 DEF RunningOn, Pods, WebhookTypeOK, Up
<1>4. /\ OldestSDKVersion(n, env) \in Nat
      /\ \A p \in env : pods[p].env # 0 => OldestSDKVersion(n, env) <= pods[p].env
  BY <1>3, OldestIsLeast
<1>5. srv[n] \in Server
  BY DEF WebhookTypeOK
<1>6. srv'[n] = [srv[n] EXCEPT !.phase = "scanned", !.initialState = RunningOn(n),
                               !.env = env, !.oldest = OldestSDKVersion(n, env)]
  BY <1>1, <1>5 DEF WebhookTypeOK
<1>7. /\ srv'[n] \in Server
      /\ srv'[n].phase = "scanned" /\ srv'[n].cfg = srv[n].cfg
      /\ srv'[n].initialState = RunningOn(n) /\ srv'[n].env = env
      /\ srv'[n].oldest = OldestSDKVersion(n, env)
      /\ srv'[n].bounced = srv[n].bounced /\ srv'[n].overlap = srv[n].overlap
  BY <1>3, <1>4, <1>5, <1>6 DEF Server
<1>8. \A m \in Nodes \ {n} : srv'[m] = srv[m]
  BY <1>1 DEF WebhookTypeOK
<1>9. WebhookTypeOK'
  <2>1. srv' \in [Nodes -> Server]
    BY <1>1, <1>7, <1>8 DEF WebhookTypeOK
  <2> QED BY <1>2, <1>3, <1>7, <1>8, <2>1 DEF WebhookTypeOK, Pods, Up
<1>10. ASSUME NEW m \in Nodes, m # n PROVE NodeInv(m)'
  BY <1>2, <1>8, <1>10, OtherNode, PodsFrame
<1>11. NodeInv(n)'
  <2>1. task[n]["welcome"] = Idle
    BY <1>2 DEF NodeInv, TaskInv
  <2>2. TaskInv(n)'
    BY <1>2, <2>1 DEF NodeInv, TaskInv
  <2>3. ~srv[n].overlap => task[n]["informer"].step \notin {"bounce", "patch"}
    BY <1>2 DEF NodeInv, OnceInv
  <2>4. ~srv'[n].overlap => OnceInv(n)'
    BY <1>2, <1>7, <2>3 DEF NodeInv, OnceInv
  <2>5. ScanInv(n)'
    BY <1>2, <1>3, <1>4, <1>7, PodsFrame DEF ScanInv
  <2> QED BY <1>2, <1>7, <2>2, <2>4, <2>5 DEF NodeInv, Up
<1> QED BY <1>9, <1>10, <1>11

(* Before the subscription the server only moves from phase to phase.      *)
LEMMA ICleanup ==
    ASSUME IInv, NEW n \in Nodes, Cleanup(n)
    PROVE  IInv'
<1> USE DEF IInv
<1>1. /\ srv[n].phase = "scanned"
      /\ srv' = [srv EXCEPT ![n].phase = "cleaned", ![n].oldest = 0]
      /\ sdk' = [sdk EXCEPT ![n] = {v \in @ : v >= srv[n].oldest \/ v >= srv[n].cfg.ver}]
      /\ UNCHANGED <<pods, template, store, todo, task, restarts, starts>>
  BY DEF Cleanup, k8sVars
<1>2. srv[n] \in Server
  BY DEF WebhookTypeOK
<1>3. srv'[n] = [srv[n] EXCEPT !.phase = "cleaned", !.oldest = 0]
  BY <1>1, <1>2 DEF WebhookTypeOK
<1>4. /\ srv'[n] \in Server
      /\ srv'[n].phase = "cleaned" /\ srv'[n].cfg = srv[n].cfg
      /\ srv'[n].initialState = srv[n].initialState /\ srv'[n].env = srv[n].env
      /\ srv'[n].bounced = srv[n].bounced /\ srv'[n].overlap = srv[n].overlap
  <2>1. PICK zero \in Nat : srv'[n] = [srv[n] EXCEPT !.phase = "cleaned", !.oldest = zero]
    BY <1>3
  <2> QED BY <1>2, <2>1 DEF Server
<1>5. \A m \in Nodes \ {n} : srv'[m] = srv[m]
  BY <1>1 DEF WebhookTypeOK
<1>6. WebhookTypeOK'
  <2>1. srv' \in [Nodes -> Server]
    BY <1>1, <1>4, <1>5 DEF WebhookTypeOK
  <2>2. sdk' \in [Nodes -> SUBSET {c.ver : c \in Configs}]
    BY <1>1 DEF WebhookTypeOK
  <2> QED BY <1>1, <1>4, <1>5, <2>1, <2>2 DEF WebhookTypeOK, Pods, Up
<1>7. ASSUME NEW m \in Nodes, m # n PROVE NodeInv(m)'
  BY <1>1, <1>5, <1>7, OtherNode, PodsFrame
<1>8. NodeInv(n)'
  <2>1. task[n]["welcome"] = Idle
    BY <1>1 DEF NodeInv, TaskInv
  <2>2. TaskInv(n)'
    BY <1>1, <2>1 DEF NodeInv, TaskInv
  <2>3. ~srv[n].overlap => task[n]["informer"].step \notin {"bounce", "patch"}
    BY <1>1 DEF NodeInv, OnceInv
  <2>4. ~srv'[n].overlap => OnceInv(n)'
    BY <1>1, <1>4, <2>3 DEF NodeInv, OnceInv
  <2>5. ScanInv(n)'
    BY <1>1, <1>4, PodsFrame DEF NodeInv, ScanInv
  <2> QED BY <1>1, <1>4, <2>2, <2>4, <2>5 DEF NodeInv, Up
<1> QED BY <1>6, <1>7, <1>8

(* The welcome message starts with every pod of the store, and ends when   *)
(* its goroutine has nothing left to send or to restart.                   *)
LEMMA IWelcomeEnds ==
    ASSUME IInv, NEW n \in Nodes, Subscribe(n) \/ EndWelcome(n)
    PROVE  IInv'
<1> USE DEF IInv
<1>1. /\ \/ /\ srv[n].phase = "cleaned"
            /\ srv' = [srv EXCEPT ![n].phase = "welcome"]
            /\ todo' = [todo EXCEPT ![n] = store[n]]
         \/ /\ srv[n].phase = "welcome" /\ todo[n] = {} /\ task[n]["welcome"] = Idle
            /\ srv' = [srv EXCEPT ![n].phase = "subscribed"]
            /\ todo' = todo
      /\ UNCHANGED <<pods, template, sdk, store, task, restarts, starts>>
  BY DEF Subscribe, EndWelcome, k8sVars
<1>2. srv[n] \in Server
  BY DEF WebhookTypeOK
<1>3. PICK ph \in {"welcome", "subscribed"} :
        /\ srv' = [srv EXCEPT ![n].phase = ph]
        /\ ph = "welcome" => srv[n].phase = "cleaned" /\ todo'[n] = store[n]
        /\ ph = "subscribed" => /\ todo'[n] = {} /\ task[n]["welcome"] = Idle
                                /\ srv[n].phase = "welcome"
  BY <1>1 DEF WebhookTypeOK
<1>4. /\ srv'[n] \in Server
      /\ srv'[n].phase = ph /\ srv'[n].cfg = srv[n].cfg
      /\ srv'[n].initialState = srv[n].initialState /\ srv'[n].env = srv[n].env
      /\ srv'[n].bounced = srv[n].bounced /\ srv'[n].overlap = srv[n].overlap
  <2>1. srv'[n] = [srv[n] EXCEPT !.phase = ph]
    BY <1>3 DEF WebhookTypeOK
  <2> QED BY <1>2, <2>1 DEF Server
<1>5. /\ \A m \in Nodes \ {n} : srv'[m] = srv[m] /\ todo'[m] = todo[m]
      /\ todo' \in [Nodes -> SUBSET PodIDs]
  BY <1>1 DEF WebhookTypeOK
<1>6. WebhookTypeOK'
  <2>1. srv' \in [Nodes -> Server]
    BY <1>3, <1>4, <1>5 DEF WebhookTypeOK
  <2>2. \A m \in Nodes : todo'[m] \subseteq store'[m]
    BY <1>1, <1>3, <1>5 DEF WebhookTypeOK
  <2>3. Up(n)' /\ Up(n)
    BY <1>3, <1>4 DEF Up
  <2> QED BY <1>1, <1>4, <1>5, <2>1, <2>2, <2>3 DEF WebhookTypeOK, Pods, Up
<1>7. ASSUME NEW m \in Nodes, m # n PROVE NodeInv(m)'
  BY <1>1, <1>5, <1>7, OtherNode, PodsFrame
<1>8. NodeInv(n)'
  <2>1. task[n]["welcome"] = Idle
    BY <1>3 DEF NodeInv, TaskInv
  <2>2. TaskInv(n)'
    BY <1>1, <2>1 DEF NodeInv, TaskInv
  <2>3. ~srv[n].overlap => task[n]["informer"].step \notin {"bounce", "patch"}
    BY <1>3 DEF NodeInv, OnceInv
  <2>4. ~srv'[n].overlap => OnceInv(n)'
    BY <1>1, <1>4, <2>3 DEF NodeInv, OnceInv
  <2>5. ScanInv(n)'
    BY <1>1, <1>4, PodsFrame DEF NodeInv, ScanInv
  <2> QED BY <1>3, <1>4, <2>2, <2>4, <2>5 DEF NodeInv, Up
<1> QED BY <1>6, <1>7, <1>8


-----------------------------------------------------------------------------
(* Server.On on either goroutine: it decides to restart a deployment that  *)
(* is not marked, or is done.                                              *)
LEMMA OnOutcome ==
    ASSUME WebhookTypeOK, NEW n \in Nodes, NEW t \in Threads, NEW p \in PodIDs,
           On(n, t, p)
    PROVE  /\ task' \in [Nodes -> [Threads -> Task]]
           /\ \/ task'[n][t] = Idle
              \/ /\ task'[n][t].step = "bounce"
                 /\ task'[n][t].of \in Deployments \ srv[n].bounced
           /\ \A u \in Threads \ {t} : task'[n][u] = task[n][u]
           /\ \A m \in Nodes \ {n} : task'[m] = task[m]
<1>1. PICK x : /\ task' = [task EXCEPT ![n][t] = x]
               /\ \/ x = Idle
                  \/ /\ x = [step |-> "bounce", of |-> pods[p].owner]
                     /\ pods[p].owner \in Deployments
                     /\ pods[p].owner \notin srv[n].bounced
  BY DEF On, AlreadyBounced
<1>2. x \in Task
  BY <1>1, TypeFacts
<1> QED BY <1>1, <1>2 DEF WebhookTypeOK

(* What a step on one goroutine owes the invariant of its node.            *)
LEMMA IWelcome ==
    ASSUME IInv, NEW n \in Nodes, Welcome(n)
    PROVE  IInv'
<1> USE DEF IInv
<1>1. PICK p \in todo[n] : /\ On(n, "welcome", p)
                           /\ todo' = [todo EXCEPT ![n] = @ \ {p}]
  BY DEF Welcome
<1>2. /\ srv[n].phase = "welcome"
      /\ task[n]["welcome"] = Idle
      /\ UNCHANGED <<pods, template, sdk, srv, store, restarts, starts>>
  BY DEF Welcome, k8sVars
<1>3. p \in PodIDs /\ "welcome" \in Threads /\ "informer" \in Threads
  BY DEF WebhookTypeOK, Threads
<1>4. /\ task' \in [Nodes -> [Threads -> Task]]
      /\ \/ task'[n]["welcome"] = Idle
         \/ /\ task'[n]["welcome"].step = "bounce"
            /\ task'[n]["welcome"].of \in Deployments \ srv[n].bounced
      /\ \A u \in Threads \ {"welcome"} : task'[n][u] = task[n][u]
      /\ \A m \in Nodes \ {n} : task'[m] = task[m]
  BY <1>1, <1>3, OnOutcome
<1>5. /\ todo' \in [Nodes -> SUBSET PodIDs]
      /\ \A m \in Nodes : todo'[m] \subseteq todo[m]
      /\ \A m \in Nodes \ {n} : todo'[m] = todo[m]
  BY <1>1 DEF WebhookTypeOK
<1>6. WebhookTypeOK'
  BY <1>2, <1>4, <1>5 DEF WebhookTypeOK, Pods, Up
<1>7. ASSUME NEW m \in Nodes, m # n PROVE NodeInv(m)'
  BY <1>2, <1>4, <1>5, <1>7, OtherNode, PodsFrame
<1>8. NodeInv(n)'
  <2>1. task'[n]["welcome"].step \in {"idle", "bounce"}
    BY <1>4 DEF Idle
  <2>2. TaskInv(n)'
    BY <1>2, <1>4, <2>1 DEF NodeInv, TaskInv, Threads
  <2>3. ~srv[n].overlap => OnceInv(n)'
    <3> SUFFICES ASSUME ~srv[n].overlap PROVE OnceInv(n)'
      OBVIOUS
    <3>1. OnceInv(n)
      BY DEF NodeInv
    <3> QED BY <1>2, <1>4, <2>1, <3>1 DEF OnceInv, Threads, Idle
  <2>4. ScanInv(n)'
    BY <1>2, PodsFrame DEF NodeInv, ScanInv
  <2> QED BY <1>2, <2>2, <2>3, <2>4 DEF NodeInv, Up
<1> QED BY <1>6, <1>7, <1>8

(* A notification is dropped before the server has subscribed; one during  *)
(* the welcome message is recorded as an overlap.                          *)
LEMMA INotify ==
    ASSUME IInv, NEW n \in Nodes, Notify(n)
    PROVE  IInv'
<1> USE DEF IInv
<1>1. /\ task[n]["informer"].step = "notify"
      /\ UNCHANGED <<pods, template, sdk, store, todo, restarts, starts>>
  BY DEF Notify, k8sVars
<1>2. task[n]["informer"].of \in PodIDs /\ "welcome" \in Threads /\ "informer" \in Threads
  BY <1>1, TypeFacts DEF NodeInv, TaskInv
<1>3. /\ srv' \in [Nodes -> Server]
      /\ \A m \in Nodes \ {n} : srv'[m] = srv[m]
      /\ srv'[n].phase = srv[n].phase /\ srv'[n].cfg = srv[n].cfg
      /\ srv'[n].initialState = srv[n].initialState /\ srv'[n].env = srv[n].env
      /\ srv'[n].oldest = srv[n].oldest /\ srv'[n].bounced = srv[n].bounced
      /\ ~Up(n) => srv'[n] = srv[n]
      /\ ~srv'[n].overlap => ~srv[n].overlap
      /\ srv[n].phase = "welcome" => srv'[n].overlap
  <2>1. srv[n] \in Server
    BY DEF WebhookTypeOK
  <2>2. CASE UNCHANGED srv /\ srv[n].phase \notin {"welcome", "subscribed"}
    BY <2>2 DEF WebhookTypeOK
  <2>3. CASE /\ srv' = [srv EXCEPT ![n].overlap = @ \/ srv[n].phase = "welcome"]
             /\ srv[n].phase \in {"welcome", "subscribed"}
    <3>1. PICK b \in BOOLEAN : /\ srv' = [srv EXCEPT ![n].overlap = b]
                               /\ b <=> (srv[n].overlap \/ srv[n].phase = "welcome")
      BY <2>1, <2>3
    <3>2. srv'[n] = [srv[n] EXCEPT !.overlap = b]
      BY <3>1 DEF WebhookTypeOK
    <3>3. srv'[n] \in Server
      BY <2>1, <3>2 DEF Server
    <3>4. /\ srv'[n].phase = srv[n].phase /\ srv'[n].cfg = srv[n].cfg
          /\ srv'[n].initialState = srv[n].initialState /\ srv'[n].env = srv[n].env
          /\ srv'[n].oldest = srv[n].oldest /\ srv'[n].bounced = srv[n].bounced
          /\ srv'[n].overlap = b
      BY <2>1, <3>2 DEF Server
    <3>5. /\ srv' \in [Nodes -> Server]
          /\ \A m \in Nodes \ {n} : srv'[m] = srv[m]
      BY <3>1, <3>2, <3>3 DEF WebhookTypeOK
    <3>6. Up(n)
      BY <2>3 DEF Up
    <3> QED BY <3>1, <3>4, <3>5, <3>6
  <2> QED BY <2>2, <2>3 DEF Notify
<1>4. /\ task' \in [Nodes -> [Threads -> Task]]
      /\ \/ task'[n]["informer"] = Idle
         \/ /\ task'[n]["informer"].step = "bounce"
            /\ task'[n]["informer"].of \in Deployments \ srv[n].bounced
            /\ srv[n].phase \in {"welcome", "subscribed"}
      /\ \A u \in Threads \ {"informer"} : task'[n][u] = task[n][u]
      /\ \A m \in Nodes \ {n} : task'[m] = task[m]
  <2>1. CASE /\ On(n, "informer", task[n]["informer"].of)
             /\ srv[n].phase \in {"welcome", "subscribed"}
    BY <1>2, <2>1, OnOutcome
  <2>2. CASE task' = [task EXCEPT ![n]["informer"] = Idle]
    BY <1>2, <2>2, TypeFacts DEF WebhookTypeOK
  <2> QED BY <2>1, <2>2 DEF Notify
<1>5. WebhookTypeOK'
  <2>1. \A m \in Nodes : /\ srv'[m].phase = srv[m].phase /\ srv'[m].cfg = srv[m].cfg
                         /\ srv'[m].initialState = srv[m].initialState
                         /\ srv'[m].env = srv[m].env
    BY <1>3
  <2> QED BY <1>1, <1>3, <1>4, <2>1 DEF WebhookTypeOK, Pods, Up
<1>6. ASSUME NEW m \in Nodes, m # n PROVE NodeInv(m)'
  BY <1>1, <1>3, <1>4, <1>6, OtherNode, PodsFrame
<1>7. NodeInv(n)'
  <2>1. task'[n]["informer"].step \in {"idle", "bounce"}
    BY <1>4 DEF Idle
  <2>2. TaskInv(n)'
    <3>1. TaskInv(n) /\ task'[n]["welcome"] = task[n]["welcome"]
      BY <1>2, <1>4 DEF NodeInv, Threads
    <3>2. task'[n]["informer"].step = "bounce" => task'[n]["informer"].of \in Deployments
      BY <1>4 DEF Idle
    <3> QED BY <1>3, <2>1, <3>1, <3>2 DEF TaskInv, Threads
  <2>3. ~srv'[n].overlap => OnceInv(n)'
    <3> SUFFICES ASSUME ~srv'[n].overlap PROVE OnceInv(n)'
      OBVIOUS
    <3>1. OnceInv(n) /\ srv[n].phase # "welcome"
      BY <1>3 DEF NodeInv
    <3> QED BY <1>1, <1>2, <1>3, <1>4, <2>1, <3>1 DEF OnceInv, Threads, Idle
  <2>4. ScanInv(n)'
    BY <1>1, <1>3, PodsFrame DEF NodeInv, ScanInv
  <2>5. ~Up(n)' => srv'[n] = Down
    <3>1. ~Up(n) => srv[n] = Down
      BY DEF NodeInv
    <3>2. Up(n)' <=> Up(n)
      BY <1>3 DEF Up
    <3> QED BY <1>3, <3>1, <3>2
  <2> QED BY <1>1, <1>3, <2>2, <2>3, <2>4, <2>5 DEF NodeInv
<1> QED BY <1>5, <1>6, <1>7


(* RestartDeployment marks the deployment before it patches it.            *)
LEMMA IMarkBounced ==
    ASSUME IInv, NEW n \in Nodes, NEW t \in Threads, MarkBounced(n, t)
    PROVE  IInv'
<1> USE DEF IInv
<1> DEFINE w == task[n][t].of
<1>1. /\ task[n][t].step = "bounce"
      /\ srv' = [srv EXCEPT ![n].bounced = @ \cup {w}]
      /\ task' = [task EXCEPT ![n][t].step = "patch"]
      /\ UNCHANGED <<pods, template, sdk, store, todo, restarts, starts>>
  BY DEF MarkBounced, k8sVars
<1>2. w \in Deployments /\ srv[n] \in Server /\ task[n][t] \in Task
  BY <1>1 DEF NodeInv, TaskInv, WebhookTypeOK
<1>3. /\ task' \in [Nodes -> [Threads -> Task]]
      /\ task'[n][t].step = "patch" /\ task'[n][t].of = w
      /\ \A u \in Threads \ {t} : task'[n][u] = task[n][u]
      /\ \A m \in Nodes \ {n} : task'[m] = task[m]
  <2>1. PICK x \in Task : x = [task[n][t] EXCEPT !.step = "patch"]
    BY <1>2 DEF Task
  <2>2. task' = [task EXCEPT ![n][t] = x]
    BY <1>1, <2>1 DEF WebhookTypeOK
  <2>3. x.step = "patch" /\ x.of = w
    BY <1>2, <2>1 DEF Task
  <2> QED BY <2>2, <2>3 DEF WebhookTypeOK
<1>4. /\ srv' \in [Nodes -> Server]
      /\ \A m \in Nodes \ {n} : srv'[m] = srv[m]
      /\ srv'[n].phase = srv[n].phase /\ srv'[n].cfg = srv[n].cfg
      /\ srv'[n].initialState = srv[n].initialState /\ srv'[n].env = srv[n].env
      /\ srv'[n].oldest = srv[n].oldest /\ srv'[n].overlap = srv[n].overlap
      /\ srv'[n].bounced = srv[n].bounced \cup {w}
  <2>1. PICK B \in SUBSET Deployments : B = srv[n].bounced \cup {w}
    BY <1>2 DEF Server
  <2>2. srv' = [srv EXCEPT ![n].bounced = B]
    BY <1>1, <2>1 DEF WebhookTypeOK
  <2>3. srv'[n] = [srv[n] EXCEPT !.bounced = B]
    BY <2>2 DEF WebhookTypeOK
  <2>4. srv'[n] \in Server
    BY <1>2, <2>3 DEF Server
  <2>5. /\ srv'[n].phase = srv[n].phase /\ srv'[n].cfg = srv[n].cfg
        /\ srv'[n].initialState = srv[n].initialState /\ srv'[n].env = srv[n].env
        /\ srv'[n].oldest = srv[n].oldest /\ srv'[n].overlap = srv[n].overlap
        /\ srv'[n].bounced = B
    BY <1>2, <2>3 DEF Server
  <2>6. /\ srv' \in [Nodes -> Server]
        /\ \A m \in Nodes \ {n} : srv'[m] = srv[m]
    BY <2>2, <2>3, <2>4 DEF WebhookTypeOK
  <2> QED BY <2>1, <2>5, <2>6
<1>5. WebhookTypeOK'
  <2>1. \A m \in Nodes : /\ srv'[m].phase = srv[m].phase /\ srv'[m].cfg = srv[m].cfg
                         /\ srv'[m].initialState = srv[m].initialState
                         /\ srv'[m].env = srv[m].env
    BY <1>4
  <2> QED BY <1>1, <1>3, <1>4, <2>1 DEF WebhookTypeOK, Pods, Up
<1>6. ASSUME NEW m \in Nodes, m # n PROVE NodeInv(m)'
  BY <1>1, <1>3, <1>4, <1>6, OtherNode, PodsFrame
<1>7. NodeInv(n)'
  <2>1. TaskInv(n) /\ ScanInv(n) /\ ("welcome" \in Threads /\ "informer" \in Threads)
    BY TypeFacts DEF NodeInv
  <2>2. t = "welcome" => srv[n].phase = "welcome"
    BY <1>1, <2>1 DEF TaskInv, Idle
  <2>3. TaskInv(n)'
    BY <1>2, <1>3, <1>4, <2>1, <2>2 DEF TaskInv
  <2>4. ~srv'[n].overlap => OnceInv(n)'
    <3> SUFFICES ASSUME ~srv[n].overlap PROVE OnceInv(n)'
      BY <1>4
    <3>1. OnceInv(n)
      BY DEF NodeInv
    <3>2. \A u \in Threads \ {t} : task[n][u].step \notin {"bounce", "patch"}
      BY <1>1, <2>1, <2>2, <3>1 DEF OnceInv, TaskInv, Threads, Idle
    <3>3. w \in Workloads /\ restarts[n][w] = 0
      BY <1>1, <1>2, <3>1, TypeFacts DEF OnceInv
    <3> QED BY <1>1, <1>3, <1>4, <2>1, <3>1, <3>2, <3>3 DEF OnceInv
  <2>5. ScanInv(n)'
    BY <1>1, <1>4, <2>1, PodsFrame DEF ScanInv
  <2>6. Up(n)' /\ Up(n)
    <3>1. Up(n)
      <4>1. task[n][t].step \in {"bounce", "patch"}
        BY <1>1
      <4>2. ~Up(n) => ~srv[n].overlap /\ OnceInv(n) /\ srv[n].phase = "down"
        BY DEF NodeInv, Down, Up
      <4> QED BY <2>2, <4>1, <4>2 DEF OnceInv, Threads
    <3> QED BY <1>4, <3>1 DEF Up
  <2> QED BY <1>1, <1>4, <2>3, <2>4, <2>5, <2>6 DEF NodeInv
<1> QED BY <1>5, <1>6, <1>7

(* The patch, and the patch that fails: the goroutine is done.             *)
LEMMA IPatch ==
    ASSUME IInv, NEW n \in Nodes, NEW t \in Threads, Patch(n, t)
    PROVE  IInv'
<1> USE DEF IInv
<1> DEFINE w == task[n][t].of
<1>1. /\ task[n][t].step = "patch"
      /\ template' = [template EXCEPT ![w] = @ + 1]
      /\ restarts' = [restarts EXCEPT ![n][w] = @ + 1]
      /\ task' = [task EXCEPT ![n][t] = Idle]
      /\ UNCHANGED <<pods, sdk, srv, store, todo, starts>>
  BY DEF Patch
<1>2. w \in Deployments /\ w \in Workloads
  BY <1>1, TypeFacts DEF NodeInv, TaskInv
<1>3. /\ task' \in [Nodes -> [Threads -> Task]] /\ task'[n][t] = Idle
      /\ \A u \in Threads \ {t} : task'[n][u] = task[n][u]
      /\ \A m \in Nodes \ {n} : task'[m] = task[m]
  BY <1>1, TypeFacts DEF WebhookTypeOK
<1>4. /\ restarts' \in [Nodes -> [Workloads -> Nat]]
      /\ restarts'[n][w] = restarts[n][w] + 1
      /\ \A v \in Workloads \ {w} : restarts'[n][v] = restarts[n][v]
      /\ \A m \in Nodes \ {n} : restarts'[m] = restarts[m]
  BY <1>1, <1>2 DEF WebhookTypeOK
<1>5. WebhookTypeOK'
  <2>1. /\ template' \in [Workloads -> Nat]
        /\ \A v \in Workloads : template[v] <= template'[v]
    BY <1>1, <1>2 DEF WebhookTypeOK
  <2>2. \A p \in Pods : pods[p].template <= template'[pods[p].owner]
    <3> SUFFICES ASSUME NEW p \in Pods
                 PROVE  pods[p].template <= template'[pods[p].owner]
      OBVIOUS
    <3>1. pods[p] \in Pod /\ pods[p].template <= template[pods[p].owner]
      BY DEF WebhookTypeOK, Pods
    <3>2. pods[p].template \in Nat /\ pods[p].owner \in Workloads
      BY <3>1 DEF Pod
    <3>3. template[pods[p].owner] \in Nat /\ template'[pods[p].owner] \in Nat
      BY <2>1, <3>2 DEF WebhookTypeOK
    <3> QED BY <2>1, <3>1, <3>2, <3>3
  <2> QED BY <1>1, <1>3, <1>4, <2>1, <2>2 DEF WebhookTypeOK, Pods, Up
<1>6. ASSUME NEW m \in Nodes, m # n PROVE NodeInv(m)'
  BY <1>1, <1>3, <1>4, <1>6, OtherNode, PodsFrame
<1>7. NodeInv(n)'
  <2>1. TaskInv(n)'
    BY <1>1, <1>3, TypeFacts DEF NodeInv, TaskInv, Idle
  <2>2. ~srv[n].overlap => OnceInv(n)'
    <3> SUFFICES ASSUME ~srv[n].overlap PROVE OnceInv(n)'
      OBVIOUS
    <3>1. OnceInv(n) /\ TaskInv(n)
      BY DEF NodeInv
    <3>2. restarts[n][w] = 0 /\ w \in srv[n].bounced
      BY <1>1, <3>1 DEF OnceInv
    <3>3. restarts'[n][w] = 1
      BY <1>4, <3>2
    <3>4. \A u \in Threads \ {t} : task[n][u].step \notin {"bounce", "patch"}
      BY <1>1, <3>1 DEF OnceInv, TaskInv, Threads, Idle
    <3>5. \A u \in Threads : task'[n][u].step \notin {"bounce", "patch"}
      BY <1>3, <3>4 DEF Idle
    <3> QED BY <1>1, <1>4, <3>1, <3>2, <3>3, <3>5, TypeFacts DEF OnceInv
  <2>3. ScanInv(n)'
    BY <1>1, PodsFrame DEF NodeInv, ScanInv
  <2> QED BY <1>1, <2>1, <2>2, <2>3 DEF NodeInv, Up
<1> QED BY <1>5, <1>6, <1>7


(* A patch that the API refuses leaves the mark.                           *)
LEMMA IPatchFails ==
    ASSUME IInv, NEW n \in Nodes, NEW t \in Threads, PatchFails(n, t)
    PROVE  IInv'
<1> USE DEF IInv
<1> DEFINE w == task[n][t].of
<1>1. /\ task[n][t].step = "patch"
      /\ srv' = [srv EXCEPT ![n].failed = @ \cup {w}]
      /\ task' = [task EXCEPT ![n][t] = Idle]
      /\ UNCHANGED <<pods, template, sdk, store, todo, restarts, starts>>
  BY DEF PatchFails, k8sVars
<1>2. w \in Deployments /\ srv[n] \in Server
  BY <1>1 DEF NodeInv, TaskInv, WebhookTypeOK
<1>3. /\ task' \in [Nodes -> [Threads -> Task]] /\ task'[n][t] = Idle
      /\ \A u \in Threads \ {t} : task'[n][u] = task[n][u]
      /\ \A m \in Nodes \ {n} : task'[m] = task[m]
  BY <1>1, TypeFacts DEF WebhookTypeOK
<1>4. /\ srv' \in [Nodes -> Server]
      /\ \A m \in Nodes \ {n} : srv'[m] = srv[m]
      /\ srv'[n].phase = srv[n].phase /\ srv'[n].cfg = srv[n].cfg
      /\ srv'[n].initialState = srv[n].initialState /\ srv'[n].env = srv[n].env
      /\ srv'[n].oldest = srv[n].oldest /\ srv'[n].overlap = srv[n].overlap
      /\ srv'[n].bounced = srv[n].bounced
  <2>1. PICK F \in SUBSET Deployments : F = srv[n].failed \cup {w}
    BY <1>2 DEF Server
  <2>2. srv' = [srv EXCEPT ![n].failed = F]
    BY <1>1, <2>1 DEF WebhookTypeOK
  <2>3. srv'[n] = [srv[n] EXCEPT !.failed = F]
    BY <2>2 DEF WebhookTypeOK
  <2>4. srv'[n] \in Server
    BY <1>2, <2>3 DEF Server
  <2>5. /\ srv'[n].phase = srv[n].phase /\ srv'[n].cfg = srv[n].cfg
        /\ srv'[n].initialState = srv[n].initialState /\ srv'[n].env = srv[n].env
        /\ srv'[n].oldest = srv[n].oldest /\ srv'[n].overlap = srv[n].overlap
        /\ srv'[n].bounced = srv[n].bounced
    BY <1>2, <2>3 DEF Server
  <2>6. /\ srv' \in [Nodes -> Server]
        /\ \A m \in Nodes \ {n} : srv'[m] = srv[m]
    BY <2>2, <2>3, <2>4 DEF WebhookTypeOK
  <2> QED BY <2>5, <2>6
<1>5. WebhookTypeOK'
  <2>1. \A m \in Nodes : /\ srv'[m].phase = srv[m].phase /\ srv'[m].cfg = srv[m].cfg
                         /\ srv'[m].initialState = srv[m].initialState
                         /\ srv'[m].env = srv[m].env
    BY <1>4
  <2> QED BY <1>1, <1>3, <1>4, <2>1 DEF WebhookTypeOK, Pods, Up
<1>6. ASSUME NEW m \in Nodes, m # n PROVE NodeInv(m)'
  BY <1>1, <1>3, <1>4, <1>6, OtherNode, PodsFrame
<1>7. NodeInv(n)'
  <2>1. TaskInv(n) /\ ScanInv(n) /\ ("welcome" \in Threads /\ "informer" \in Threads)
    BY TypeFacts DEF NodeInv
  <2>2. TaskInv(n)'
    BY <1>3, <1>4, <2>1 DEF TaskInv, Idle
  <2>3. ~srv'[n].overlap => OnceInv(n)'
    <3> SUFFICES ASSUME ~srv[n].overlap PROVE OnceInv(n)'
      BY <1>4
    <3>1. OnceInv(n)
      BY DEF NodeInv
    <3>2. \A u \in Threads \ {t} : task[n][u].step \notin {"bounce", "patch"}
      BY <1>1, <2>1, <3>1 DEF OnceInv, TaskInv, Threads, Idle
    <3>3. \A u \in Threads : task'[n][u].step \notin {"bounce", "patch"}
      BY <1>3, <3>2 DEF Idle
    <3> QED BY <1>1, <1>4, <2>1, <3>1, <3>3 DEF OnceInv
  <2>4. ScanInv(n)'
    BY <1>1, <1>4, <2>1, PodsFrame DEF ScanInv
  <2>5. Up(n)' /\ Up(n)
    <3>1. Up(n)
      <4>1. t = "welcome" => srv[n].phase = "welcome"
        BY <1>1, <2>1 DEF TaskInv, Idle
      <4>2. ~Up(n) => ~srv[n].overlap /\ OnceInv(n) /\ srv[n].phase = "down"
        BY DEF NodeInv, Down, Up
      <4> QED BY <1>1, <4>1, <4>2 DEF OnceInv, Threads
    <3> QED BY <1>4, <3>1 DEF Up
  <2> QED BY <1>1, <1>4, <2>2, <2>3, <2>4, <2>5 DEF NodeInv
<1> QED BY <1>5, <1>6, <1>7

(* The informer's goroutine: the store changes, and a pod is to be         *)
(* notified of, never while the welcome message holds the store's lock.    *)
LEMMA IStore ==
    ASSUME IInv, NEW n \in Nodes, NEW p \in PodIDs, StoreOn(n, p) \/ StoreOnDeleted(n, p)
    PROVE  IInv'
<1> USE DEF IInv
<1>1. /\ srv[n].phase # "welcome" /\ task[n]["informer"] = Idle
      /\ UNCHANGED <<pods, template, sdk, srv, todo, restarts, starts>>
      /\ \/ /\ store' = [store EXCEPT ![n] = @ \cup {p}]
            /\ task' = [task EXCEPT ![n]["informer"] = [step |-> "notify", of |-> p]]
         \/ store' = [store EXCEPT ![n] = @ \ {p}] /\ task' = task
  BY DEF StoreOn, StoreOnDeleted, k8sVars, serverVars
<1>2. "informer" \in Threads /\ "welcome" \in Threads
  BY TypeFacts
<1>3. /\ task' \in [Nodes -> [Threads -> Task]]
      /\ \/ task'[n]["informer"] = [step |-> "notify", of |-> p]
         \/ task'[n]["informer"] = Idle
      /\ \A u \in Threads \ {"informer"} : task'[n][u] = task[n][u]
      /\ \A m \in Nodes \ {n} : task'[m] = task[m]
  <2>1. CASE task' = task
    BY <1>1, <2>1 DEF WebhookTypeOK
  <2>2. CASE task' = [task EXCEPT ![n]["informer"] = [step |-> "notify", of |-> p]]
    BY <1>2, <2>2, TypeFacts DEF WebhookTypeOK
  <2> QED BY <1>1, <2>1, <2>2
<1>4. WebhookTypeOK'
  <2>1. store' \in [Nodes -> SUBSET PodIDs] /\ \A m \in Nodes \ {n} : store'[m] = store[m]
    BY <1>1 DEF WebhookTypeOK
  <2>2. todo[n] = {}
    BY <1>1 DEF NodeInv
  <2>3. \A m \in Nodes : todo'[m] \subseteq store'[m]
    BY <1>1, <2>1, <2>2 DEF WebhookTypeOK
  <2> QED BY <1>1, <1>3, <2>1, <2>3 DEF WebhookTypeOK, Pods, Up
<1>5. ASSUME NEW m \in Nodes, m # n PROVE NodeInv(m)'
  BY <1>1, <1>3, <1>5, OtherNode, PodsFrame
<1>6. NodeInv(n)'
  <2>1. /\ task'[n]["informer"].step \in {"idle", "notify"}
        /\ task'[n]["informer"].step = "notify" => task'[n]["informer"].of \in PodIDs
        /\ task'[n]["welcome"] = task[n]["welcome"]
    BY <1>2, <1>3 DEF Idle
  <2>2. TaskInv(n)'
    BY <1>1, <2>1 DEF NodeInv, TaskInv, Threads
  <2>3. ~srv[n].overlap => OnceInv(n)'
    BY <1>1, <2>1 DEF NodeInv, OnceInv, Threads
  <2>4. ScanInv(n)'
    BY <1>1, PodsFrame DEF NodeInv, ScanInv
  <2> QED BY <1>1, <2>2, <2>3, <2>4 DEF NodeInv, Up
<1> QED BY <1>4, <1>5, <1>6

-----------------------------------------------------------------------------
(* Kubernetes: a pod is admitted under a new ID, starts or is replaced; no *)
(* pod changes its environment.                                            *)
LEMMA IKubernetes ==
    ASSUME IInv, Kubernetes
    PROVE  IInv'
<1> USE DEF IInv
<1>1. UNCHANGED <<template, sdk, srv, store, todo, task, restarts, starts>>
  BY DEF Kubernetes, HandleMutate, StartPod, Replace, serverVars
<1>2. PICK p \in PodIDs, pod \in Pod :
        /\ pods' = [pods EXCEPT ![p] = pod]
        /\ pods[p] # NoPod => /\ pod.env = pods[p].env /\ pod.label = pods[p].label
                              /\ pod.owner = pods[p].owner /\ pod.template = pods[p].template
        /\ pods[p] = NoPod => /\ pod.env \in {0, pod.label}
                              /\ pod.template <= template[pod.owner]
  <2>1. ASSUME NEW n \in Nodes, NEW on \in Nodes, NEW p \in PodIDs, NEW w \in Workloads,
               HandleMutate(n, p, w, on)
        PROVE  \E pod \in Pod :
                 /\ pods[p] = NoPod /\ pods' = [pods EXCEPT ![p] = pod]
                 /\ pod.env \in {0, pod.label}
                 /\ pod.template <= template[pod.owner]
    <3> DEFINE pod == NewPod(w, on, mutatedLabel(n, w), mutatedEnv(n, w))
    <3>1. srv[n].cfg \in Configs
      <4>1. Up(n)
        <5>1. ~Up(n) => srv[n] = Down
          BY DEF NodeInv
        <5>2. ~Down.listening
          BY DEF Down
        <5> QED BY <2>1, <5>1, <5>2 DEF HandleMutate
      <4> QED BY <4>1 DEF WebhookTypeOK
    <3>2. mutatedLabel(n, w) \in Nat /\ mutatedEnv(n, w) \in {0, mutatedLabel(n, w)}
      BY <3>1, TypeFacts DEF mutatedLabel, mutatedEnv
    <3>3. template[w] \in Nat
      BY DEF WebhookTypeOK
    <3>4. pod \in Pod /\ pod.env = mutatedEnv(n, w) /\ pod.label = mutatedLabel(n, w)
          /\ pod.template = template[w] /\ pod.owner = w
      BY <3>2, <3>3 DEF NewPod, Pod
    <3>5. pods[p] = NoPod /\ pods' = [pods EXCEPT ![p] = pod]
      BY <2>1 DEF HandleMutate
    <3>6. pod.template <= template[pod.owner]
      BY <3>3, <3>4
    <3> HIDE DEF pod
    <3> QED BY <3>2, <3>4, <3>5, <3>6
  <2>2. ASSUME NEW p \in PodIDs, StartPod(p) \/ Replace(p)
        PROVE  \E pod \in Pod :
                 /\ pods[p] # NoPod /\ pods' = [pods EXCEPT ![p] = pod]
                 /\ pod.env = pods[p].env /\ pod.label = pods[p].label
                 /\ pod.owner = pods[p].owner /\ pod.template = pods[p].template
    <3>1. pods[p] # NoPod /\ pods[p] \in Pod
      BY <2>2 DEF StartPod, Replace, Exists, Pods, WebhookTypeOK
    <3>2. PICK st \in {"running", "gone"} : pods' = [pods EXCEPT ![p].state = st]
      BY <2>2 DEF StartPod, Replace
    <3>3. PICK pod \in Pod : pod = [pods[p] EXCEPT !.state = st]
      BY <3>1 DEF Pod
    <3>4. pods' = [pods EXCEPT ![p] = pod]
      BY <3>2, <3>3 DEF WebhookTypeOK
    <3>5. /\ pod.env = pods[p].env /\ pod.label = pods[p].label
          /\ pod.owner = pods[p].owner /\ pod.template = pods[p].template
      BY <3>1, <3>3 DEF Pod
    <3> QED BY <3>1, <3>4, <3>5
  <2> QED BY <2>1, <2>2 DEF Kubernetes
<1>3. /\ pods' \in [PodIDs -> Pod \cup {NoPod}] /\ pods'[p] = pod
      /\ \A q \in PodIDs \ {p} : pods'[q] = pods[q]
  BY <1>2 DEF WebhookTypeOK
<1>4. \A q \in Pods : q \in Pods' /\ pods'[q].env = pods[q].env
  BY <1>2, <1>3, NoPodAssumption DEF Pods
<1>5. WebhookTypeOK'
  <2>1. \A q \in Pods' : /\ pods'[q].env \in {0, pods'[q].label}
                         /\ pods'[q].template <= template[pods'[q].owner]
    BY <1>2, <1>3 DEF WebhookTypeOK, Pods
  <2> QED BY <1>1, <1>3, <2>1 DEF WebhookTypeOK, Up
<1>6. \A m \in Nodes : NodeInv(m)'
  BY <1>1, <1>4, OtherNode
<1> QED BY <1>5, <1>6


-----------------------------------------------------------------------------
(* The invariant holds before the webhook is installed.                    *)
LEMMA InductiveInit == WebhookInit => IInv
<1> SUFFICES ASSUME WebhookInit PROVE IInv
  OBVIOUS
<1>0. PICK P \in SUBSET PodIDs :
        \E owner \in [P -> Workloads], node \in [P -> Nodes] :
          pods = [p \in PodIDs |-> IF p \in P THEN NewPod(owner[p], node[p], 0, 0) ELSE NoPod]
  BY DEF WebhookInit
<1>1. PICK owner \in [P -> Workloads], node \in [P -> Nodes] :
        pods = [p \in PodIDs |-> IF p \in P THEN NewPod(owner[p], node[p], 0, 0) ELSE NoPod]
  BY <1>0
<1>2. /\ template = [w \in Workloads |-> 0]
      /\ sdk = [n \in Nodes |-> {}] /\ srv = [n \in Nodes |-> Down]
      /\ store = [n \in Nodes |-> {}] /\ todo = [n \in Nodes |-> {}]
      /\ task = [n \in Nodes |-> [t \in Threads |-> Idle]]
      /\ restarts = [n \in Nodes |-> [w \in Workloads |-> 0]]
      /\ starts = 0
  BY DEF WebhookInit
<1>3. \A p \in P : LET pod == NewPod(owner[p], node[p], 0, 0)
                   IN  pod \in Pod /\ pod.env = 0 /\ pod.template = 0 /\ pod.owner \in Workloads
  BY <1>2 DEF NewPod, Pod
<1>4. pods \in [PodIDs -> Pod \cup {NoPod}]
  BY <1>1, <1>3
<1>5. \A p \in Pods : /\ pods[p].env = 0 /\ pods[p].template = 0
                      /\ pods[p].owner \in Workloads
  BY <1>1, <1>3 DEF Pods
<1>6. WebhookTypeOK
  <2>1. \A p \in Pods : /\ pods[p].env \in {0, pods[p].label}
                        /\ pods[p].template <= template[pods[p].owner]
    BY <1>2, <1>5
  <2>2. /\ srv \in [Nodes -> Server] /\ task \in [Nodes -> [Threads -> Task]]
        /\ restarts \in [Nodes -> [Workloads -> Nat]] /\ template \in [Workloads -> Nat]
    BY <1>2, TypeFacts
  <2>3. \A n \in Nodes : /\ Up(n) <=> srv[n].cfg \in Configs
                         /\ srv[n].env \subseteq srv[n].initialState
    BY <1>2, WebhookAssumption DEF Up, Down
  <2>4. starts \in 0..MaxStarts
    BY <1>2, WebhookAssumption
  <2> QED BY <1>2, <1>4, <2>1, <2>2, <2>3, <2>4 DEF WebhookTypeOK
<1>7. ASSUME NEW n \in Nodes PROVE NodeInv(n)
  <2>1. \A t \in Threads : task[n][t] = Idle
    BY <1>2
  <2>2. /\ srv[n] = Down /\ todo[n] = {} /\ srv[n].env = {}
        /\ \A w \in Workloads : restarts[n][w] = 0
    BY <1>2 DEF Down
  <2>3. TaskInv(n) /\ OnceInv(n)
    BY <2>1, <2>2, TypeFacts DEF TaskInv, OnceInv, Idle
  <2>4. ScanInv(n)
    BY <2>2 DEF ScanInv
  <2> QED BY <2>2, <2>3, <2>4 DEF NodeInv
<1> QED BY <1>6, <1>7 DEF IInv

(* Every step of a server and of Kubernetes preserves it.                  *)
LEMMA InductiveStep == IInv /\ [WebhookNext]_webhookVars => IInv'
<1> SUFFICES ASSUME IInv, [WebhookNext]_webhookVars PROVE IInv'
  OBVIOUS
<1>1. CASE UNCHANGED webhookVars
  <2>1. UNCHANGED <<pods, template, sdk, srv, store, todo, task, restarts, starts>>
    BY <1>1 DEF webhookVars
  <2>2. WebhookTypeOK'
    BY <2>1 DEF IInv, WebhookTypeOK, Pods, Up
  <2>3. \A n \in Nodes : NodeInv(n)'
    BY <2>1, OtherNode, PodsFrame DEF IInv
  <2> QED BY <2>2, <2>3 DEF IInv
<1>2. ASSUME NEW n \in Nodes, Serve(n) PROVE IInv'
  BY <1>2, IStart, IListen, IStop, IScan, ICleanup, IWelcomeEnds, IWelcome, INotify,
     IMarkBounced, IPatch, IPatchFails, IStore DEF Serve
<1> QED BY <1>1, <1>2, IKubernetes DEF WebhookNext

(* The state of the webhook is well formed in every cluster: in particular *)
(* a pod's environment carries no version but that of its label.           *)
THEOREM WebhookTypeCorrect == WebhookSpec => []WebhookTypeOK
<1>1. IInv => WebhookTypeOK
  BY DEF IInv
<1> QED BY <1>1, InductiveInit, InductiveStep, PTL DEF WebhookSpec

(* The cleanup removes no SDK version of a process that the scan has read, *)
(* whatever versions it finds on the host path.                            *)
THEOREM ScannedKeepSDKCorrect == WebhookSpec => ScannedKeepSDK
<1>1. ASSUME IInv, [WebhookNext]_webhookVars, NEW n \in Nodes, NEW p \in srv[n].env,
             pods[p].env # 0, pods[p].env \in sdk[n]
      PROVE  pods[p].env \in sdk'[n]
  <2>1. CASE sdk' = sdk
    BY <1>1, <2>1
  <2>2. ASSUME NEW m \in Nodes, Start(m) PROVE pods[p].env \in sdk'[n]
    BY <1>1, <2>2 DEF Start, IInv, WebhookTypeOK
  <2>3. ASSUME NEW m \in Nodes, Cleanup(m) PROVE pods[p].env \in sdk'[n]
    <3>1. sdk' = [sdk EXCEPT ![m] = {v \in @ : v >= srv[m].oldest \/ v >= srv[m].cfg.ver}]
      BY <2>3 DEF Cleanup
    <3>2. sdk \in [Nodes -> SUBSET {c.ver : c \in Configs}]
      BY <1>1 DEF IInv, WebhookTypeOK
    <3>3. CASE m = n
      <4>1. srv[n].oldest <= pods[p].env
        BY <1>1, <2>3, <3>3 DEF Cleanup, IInv, NodeInv, ScanInv
      <4>2. srv[n].oldest \in Nat /\ pods[p].env \in Nat
        <5>1. srv[n] \in Server
          BY <1>1 DEF IInv, WebhookTypeOK
        <5>2. PICK c \in Configs : pods[p].env = c.ver
          BY <1>1, <3>2
        <5> QED BY <5>1, <5>2, TypeFacts DEF Server
      <4> QED BY <1>1, <3>1, <3>2, <3>3, <4>1, <4>2
    <3>4. CASE m # n
      BY <1>1, <3>1, <3>2, <3>4
    <3> QED BY <3>3, <3>4
  <2>4. \/ sdk' = sdk
        \/ \E m \in Nodes : Start(m) \/ Cleanup(m)
    BY <1>1 DEF WebhookNext, webhookVars, Serve, Listen, Stop, Scan, Subscribe, EndWelcome,
       Welcome, Notify, MarkBounced, Patch, PatchFails, StoreOn, StoreOnDeleted,
       Kubernetes, HandleMutate, StartPod, Replace
  <2> QED BY <2>1, <2>2, <2>3, <2>4
<1>2. IInv /\ [WebhookNext]_webhookVars =>
        [\A n \in Nodes : \A p \in srv[n].env :
           pods[p].env # 0 /\ pods[p].env \in sdk[n] => pods[p].env \in sdk'[n]]_webhookVars
  BY <1>1
<1> QED BY <1>2, InductiveInit, InductiveStep, PTL DEF WebhookSpec, ScannedKeepSDK

(* One life of a server restarts a deployment at most once unless a pod    *)
(* event was notified while the welcome message was being sent, although   *)
(* the mark is checked and set in two steps on two goroutines.             *)
THEOREM OneRestartUnlessOverlapCorrect == WebhookSpec => []OneRestartUnlessOverlap
<1>1. ASSUME IInv PROVE OneRestartUnlessOverlap
  <2> SUFFICES ASSUME NEW n \in Nodes, NEW w \in Workloads,
                      restarts[n][w] > 1, ~srv[n].overlap
               PROVE  FALSE
    BY DEF OneRestartUnlessOverlap
  <2>1. restarts[n][w] \in Nat /\ OnceInv(n)
    BY <1>1 DEF IInv, WebhookTypeOK, NodeInv
  <2> QED BY <2>1 DEF OnceInv
<1> QED BY <1>1, InductiveInit, InductiveStep, PTL DEF WebhookSpec

=============================================================================
