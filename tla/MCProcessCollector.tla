------------------------- MODULE MCProcessCollector -------------------------
(* Instance of ProcessCollector for TLC.                                   *)
EXTENDS ProcessCollector, TLC

CONSTANTS p1, p2, a, b, svc1, svc2

(* the PIDs are interchangeable, and so are the identities; used only in   *)
(* the runs that check no liveness property                                *)
Symm == Permutations(PIDs) \cup Permutations(Idents)
=============================================================================
