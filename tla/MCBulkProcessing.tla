-------------------------- MODULE MCBulkProcessing --------------------------
(* BulkProcessing for TLC: two jobs for one workbasket, a creation and an  *)
(* edit that have the same key, as the first of either table do.           *)
EXTENDS BulkProcessing

CONSTANTS c1, e1, w1

MCWorkBasketOf == [j \in {c1, e1} |-> w1]
MCKey == [j \in {c1, e1} |-> 1]
=============================================================================
