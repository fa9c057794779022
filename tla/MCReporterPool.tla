--------------------------- MODULE MCReporterPool ---------------------------
(* Instance of ReporterPool for TLC.                                       *)
EXTENDS ReporterPool, TLC

CONSTANTS u1, u2, u3

(* the UIDs are interchangeable                                            *)
Symm == Permutations(UIDs)
=============================================================================
