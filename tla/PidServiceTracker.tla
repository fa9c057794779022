------------------------- MODULE PidServiceTracker -------------------------
(***************************************************************************)
(* otel.PidServiceTracker: which service each PID belongs to and which     *)
(* PIDs each service has.  A tracker t is a record of two maps:            *)
(*   t.svcOf  pidToService, NoUID where the PID is not a key;              *)
(*   t.pidsOf servicePIDs, {} where the UID is not a key (the code stores  *)
(*            no empty set: RemovePID drops the key with its last PID).    *)
(* The names map, which only the trace exporters read, is left out.        *)
(***************************************************************************)
CONSTANTS
    PIDs,   \* process identifiers
    UIDs,   \* svc.UID values
    NoUID   \* the zero svc.UID

Trackers == [svcOf : [PIDs -> UIDs \cup {NoUID}], pidsOf : [UIDs -> SUBSET PIDs]]

NewPidServiceTracker ==
    [svcOf |-> [p \in PIDs |-> NoUID], pidsOf |-> [u \in UIDs |-> {}]]

AddPID(t, pid, uid) ==
    [svcOf  |-> [t.svcOf EXCEPT ![pid] = uid],
     pidsOf |-> [t.pidsOf EXCEPT ![uid] = @ \cup {pid}]]

(* mutant of RemovePID: the PID stays in the set of its service *)
RemovePIDHalf(t, pid) ==
    [t EXCEPT !.svcOf[pid] = NoUID]

RemovePID(t, pid) ==
    [svcOf  |-> [t.svcOf EXCEPT ![pid] = NoUID],
     pidsOf |-> [u \in UIDs |-> IF u = t.svcOf[pid] THEN t.pidsOf[u] \ {pid} ELSE t.pidsOf[u]]]

(* mutant of WasLastPID: any PID that leaves takes its service with it *)
WasLastPIDAny(t, pid) == t.svcOf[pid] # NoUID

(* the first result of RemovePID: the service lost its last PID *)
WasLastPID(t, pid) ==
    /\ t.svcOf[pid] # NoUID
    /\ t.pidsOf[t.svcOf[pid]] # {}
    /\ t.pidsOf[t.svcOf[pid]] \subseteq {pid}

TracksPID(t, pid) == t.svcOf[pid] # NoUID

(* every PID of the stale service moves, and takes the place of the PIDs   *)
(* that the new service had                                                *)
ReplaceUID(t, staleUID, newUID) ==
    IF staleUID = newUID \/ t.pidsOf[staleUID] = {}
    THEN t
    ELSE [svcOf  |-> [p \in PIDs |-> IF p \in t.pidsOf[staleUID] THEN newUID ELSE t.svcOf[p]],
          pidsOf |-> [t.pidsOf EXCEPT ![newUID] = t.pidsOf[staleUID], ![staleUID] = {}]]

(* the two maps are each other's inverse *)
Consistent(t) ==
    \A u \in UIDs : t.pidsOf[u] = {p \in PIDs : t.svcOf[p] = u}
=============================================================================
