---------------------------- MODULE MCProcMetrics ----------------------------
(* Instance of ProcMetrics for TLC.                                        *)
EXTENDS ProcMetrics, TLC

CONSTANTS p1, p2, svc1, svc2, c1, c2

(* the PIDs are interchangeable, and so are the services and the scrapers  *)
Symm == Permutations(PIDs) \cup Permutations(Services) \cup Permutations(Scrapers)
=============================================================================
