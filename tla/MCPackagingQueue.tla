-------------------------- MODULE MCPackagingQueue --------------------------
(***************************************************************************)
(* PackagingQueue for TLC: the symmetry of its rows, and the refinement of *)
(* ProcessingQueue.                                                        *)
(***************************************************************************)
EXTENDS PackagingQueue, TLC

Symmetry == Permutations(WorkBasket) \cup Permutations(Pwb)

(* The queue of the rows in Q, read off a position column. *)
QueueRead(pos, Q, wb) ==
    [n \in 1..Cardinality(Q) |-> wb[CHOOSE p \in Q : pos[p] = n]]
CurrentWorkBasket ==
    IF Processing = {} THEN None ELSE workbasketOf[CHOOSE p \in Processing : TRUE]

Promise == INSTANCE ProcessingQueue
    WITH Nobody <- None,
         queue <- QueueRead(position, Awaiting, workbasketOf),
         current <- CurrentWorkBasket,
         published <- {w \in WorkBasket : status[w] = "PUBLISHED"},
         errored <- {w \in WorkBasket : status[w] = "ERRORED"}

(* The rows, positions and states implement the promised queue: no step    *)
(* drops, duplicates or reorders a workbasket that the operation does not  *)
(* name, and HMRC always gets the head.                                    *)
ImplementsProcessingQueue == Promise!Spec
=============================================================================
