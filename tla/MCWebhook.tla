------------------------------ MODULE MCWebhook ------------------------------
(* Instance of Webhook for TLC.                                            *)
EXTENDS Webhook, TLC

CONSTANTS n1, n2, p1, p2, p3, d1, d2

(* version 1 instrumenting the first deployment, an upgrade that goes on   *)
(* doing so, and one that no longer does                                   *)
Upgrades == {[ver |-> 1, instrument |-> {d1}],
             [ver |-> 2, instrument |-> {d1}],
             [ver |-> 2, instrument |-> {}]}

PodSymm == Permutations(PodIDs)
=============================================================================
