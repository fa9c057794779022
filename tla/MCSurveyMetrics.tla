-------------------------- MODULE MCSurveyMetrics --------------------------
(* Instances of SurveyMetrics for TLC: three processes of one executable,  *)
(* p2 forked by p1 in its container, p3 in a container of its own or in    *)
(* that of the others.                                                     *)
EXTENDS SurveyMetrics

CONSTANTS p1, p2, p3, e1, c1, c2

Exe3 == [p \in PIDs |-> e1]
Parent3 == [p \in PIDs |-> IF p = p2 THEN p1 ELSE NoPID]
Container1 == [p \in PIDs |-> c1]
Container3 == [p \in PIDs |-> IF p = p3 THEN c2 ELSE c1]
=============================================================================
