------------------------ MODULE MCTransactionChecks ------------------------
(* TransactionChecks for TLC.  Workbasket a has a transaction of two       *)
(* models and one of one model, which a user may create while checks run;  *)
(* b has one transaction.  Models 2 and 4 need model 1; 4 and 3 are        *)
(* rivals.  In the small instance each has one transaction of one model.   *)
EXTENDS TransactionChecks, TLC

CONSTANTS a, b, ta, tb, ta2

MCTx == {ta, ta2, tb}
MCWorkBasketOf == [t \in MCTx |-> IF t = tb THEN b ELSE a]
MCTxOf == [m \in 1..4 |-> CASE m \in {1, 2} -> ta [] m = 3 -> tb [] m = 4 -> ta2]
MCNeeds == [m \in 1..4 |-> IF m \in {2, 4} THEN {1} ELSE {}]
MCRivals == [m \in 1..4 |-> CASE m = 3 -> {4} [] m = 4 -> {3} [] OTHER -> {}]
MCData == {"x", "y"}
Symmetry == Permutations(Session)

SmallTx == {ta, tb}
SmallWorkBasketOf == [t \in SmallTx |-> IF t = tb THEN b ELSE a]
SmallTxOf == [m \in 1..2 |-> IF m = 1 THEN ta ELSE tb]
SmallNeeds == [m \in 1..2 |-> {}]
SmallRivals == [m \in 1..2 |-> {3 - m}]
=============================================================================
