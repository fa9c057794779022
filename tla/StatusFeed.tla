----------------------------- MODULE StatusFeed -----------------------------
(***************************************************************************)
(* What the process collector promises to the exporters, without /proc,    *)
(* spans, caches or phases: batches of statuses in which every process     *)
(* comes with its memory and with the difference to a base that the        *)
(* collector remembers.  ProcessCollector implements it; ProcMetrics is    *)
(* built on it.                                                            *)
(***************************************************************************)
EXTENDS Integers

CONSTANTS
    PIDs,      \* PIDs of the host
    Services,  \* service UIDs
    MaxMem,    \* bound on the memory of a process
    NoBase     \* the collector remembers nothing of the PID

VARIABLES
    base,   \* the memory that the next difference of a PID is computed from
    batch   \* the statuses of the current round

feedVars == <<base, batch>>

(* a process is told apart by its service's UID and its PID (NewStatus)    *)
UIDs == Services \X PIDs

(* what the exporters read of a Status                                     *)
Observation == [uid : UIDs, mem : 0..MaxMem, memDelta : Int]

Based == {p \in PIDs : base[p] # NoBase}
Reported == {o.uid[2] : o \in batch}

FeedInit ==
    /\ base = [p \in PIDs |-> NoBase]
    /\ batch = {}

Observe(p, s, m, d) ==
    batch' = batch \cup {[uid |-> <<s, p>>, mem |-> m, memDelta |-> d]}

(* a process that is known: the difference is to its last reported memory  *)
Continue(p, s, m) ==
    /\ p \in Based \ Reported
    /\ Observe(p, s, m, m - base[p])
    /\ base' = [base EXCEPT ![p] = m]

(* a process that is not known counts from zero                            *)
Start(p, s, m) ==
    /\ p \in PIDs \ (Based \cup Reported)
    /\ Observe(p, s, m, m)
    /\ base' = [base EXCEPT ![p] = m]

(* a process that changed its name or its parent counts from zero as well, *)
(* and the base stays the one of its previous identity                     *)
Restart(p, s, m) ==
    /\ p \in Based \ Reported
    /\ Observe(p, s, m, m)
    /\ UNCHANGED base

(* a process that could not be read                                        *)
Drop(p) ==
    /\ p \in Based \ Reported
    /\ base' = [base EXCEPT ![p] = NoBase]
    /\ UNCHANGED batch

(* A round ends when every known process is in its batch.                  *)
Publish ==
    /\ Based = Reported
    /\ batch' = {}
    /\ UNCHANGED base

FeedNext ==
    \/ \E p \in PIDs, s \in Services, m \in 0..MaxMem :
         Continue(p, s, m) \/ Start(p, s, m) \/ Restart(p, s, m)
    \/ \E p \in PIDs : Drop(p)
    \/ Publish

FeedSpec == FeedInit /\ [][FeedNext]_feedVars
=============================================================================
