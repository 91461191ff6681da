---------------------------- MODULE MCHeadDeleted ----------------------------
(* One behaviour of TransactionChecks, too long to be found by a search:   *)
(* three workers, of which two check ta at the same time, and the check    *)
(* that would show that the one of ta2 is out of date is deleted with the  *)
(* transaction of another workbasket that was the head when it was begun.  *)
(* Model 4, in ta2, needs model 1, in ta; b has two transactions of a      *)
(* model each, of which the later one, tb, loses it; c has one.            *)
EXTENDS MCTransactionChecks

CONSTANTS c, tb2, tc, s1, s2, s3

VARIABLE done   \* how many steps of the behaviour have been taken

HeadTx == {ta, ta2, tb, tb2, tc}
HeadWorkBasketOf == [t \in HeadTx |-> CASE t \in {ta, ta2} -> a [] t \in {tb, tb2} -> b
                                        [] t = tc -> c]
HeadTxOf == [m \in 1..6 |->
    CASE m \in {1, 2} -> ta [] m = 3 -> tb [] m = 4 -> ta2 [] m = 5 -> tb2 [] m = 6 -> tc]
HeadNeeds == [m \in 1..6 |-> IF m = 4 THEN {1} ELSE {}]
HeadRivals == [m \in 1..6 |-> {}]

Worker(s, n) == [i \in 1..n |-> [of |-> "worker", is |-> s]]
User(name, of) == <<[of |-> name, is |-> of]>>
Check(s, w) == User("check", w) \o User("start", <<s, w>>)
Queue(w) == User("find fit", w) \o User("approve", w)

Behaviour ==
    (* b loses a change, and while the request that deleted it has found b  *)
    (* EDITING and not purged tb yet, b is checked and queued.              *)
    User("remove", 3) \o User("start purge", b)
    \o Check(s1, b) \o Worker(s1, 9) \o Queue(b)
    (* s3 begins with ta, and has read the head, tb, when c is queued. *)
    \o Check(s3, a) \o Worker(s3, 1)
    \o Check(s1, c) \o Worker(s1, 5) \o Queue(c)
    (* s1 checks ta; its check is deleted when s2 starts; s1 checks ta2. *)
    \o Check(s1, a) \o Worker(s1, 6)
    \o Check(s2, a) \o Worker(s1, 5)
    (* s2 begins with ta too, and has read the head, tc; s3 goes on. *)
    \o Worker(s2, 1) \o Worker(s3, 5)
    (* Model 1 goes, and s2 checks what is left of ta. *)
    \o User("remove", 1) \o Worker(s2, 4)
    (* The empty transaction of b goes, and with it the check that s3 made. *)
    \o User("purge", b) \o Queue(a)

Takes(step) ==
    \/ step.of = "worker" /\ (Setup(step.is) \/ CreateCheck(step.is)
            \/ CheckModel(step.is) \/ LoadCheck(step.is) \/ SaveCheck(step.is))
    \/ step.of = "start" /\ Start(step.is[1], step.is[2])
    \/ step.of = "check" /\ RunBusinessRules(step.is)
    \/ step.of = "remove" /\ Remove(step.is)
    \/ step.of = "start purge" /\ StartPurge(step.is)
    \/ step.of = "purge" /\ PurgeEmptyTransactions(step.is)
    \/ step.of = "find fit" /\ FindFit(step.is)
    \/ step.of = "approve" /\ Approve(step.is)

HeadOrder == [w \in WorkBasket |->
    CASE w = a -> <<ta, ta2>> [] w = b -> <<tb2, tb>> [] w = c -> <<tc>>]

ScriptInit == order = HeadOrder /\ done = 0 /\ Init

ScriptNext ==
    /\ done < Len(Behaviour)
    /\ Takes(Behaviour[done + 1])
    /\ done' = done + 1

ScriptSpec == ScriptInit /\ [][ScriptNext]_<<vars, done>>
=============================================================================
