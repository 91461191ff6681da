-------------------------- MODULE MCTransactionOrder --------------------------
(***************************************************************************)
(* TransactionOrder for TLC: its symmetry, and the refinement of           *)
(* TariffHistory.                                                          *)
(***************************************************************************)
EXTENDS TransactionOrder, TLC

Symmetry == Permutations(WorkBasket) \cup Permutations(Object)

(* The rows of S as a list.                                                *)
Listed(S) == {pair \in S \X S : pair[1] = pair[2] \/ Before(pair[1], pair[2])}

DraftChanges == [w \in WorkBasket |-> Listed(Own(w) \ Approved)]

Approval(t) == [workbasket |-> transactions[t].workbasket, change |-> t]
ApprovedChanges == {<<Approval(pair[1]), Approval(pair[2])>> : pair \in Listed(Approved)}

PublishedWorkBaskets == {w \in WorkBasket : status[w] = "PUBLISHED"}

Promise == INSTANCE TariffHistory
    WITH Change <- 1..MaxPk,
         draft <- DraftChanges,
         history <- ApprovedChanges,
         published <- PublishedWorkBaskets,
         void <- Empty

(* Partitions and order numbers implement the lists: queueing appends a    *)
(* workbasket as one block in the order its user gave it, withdrawal takes *)
(* out that block and nothing else and gives it back in the same order,    *)
(* reordering moves one change of one workbasket, and nothing but a user's *)
(* deletion touches what is published.                                     *)
ImplementsTariffHistory == Promise!Spec
=============================================================================
