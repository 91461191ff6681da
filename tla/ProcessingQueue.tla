--------------------------- MODULE ProcessingQueue ---------------------------
(***************************************************************************)
(* What the packaging queue promises its two kinds of user, without rows,  *)
(* positions, envelopes or tasks: a tariff manager orders a queue of       *)
(* workbaskets, HMRC takes them one at a time from its head, and a         *)
(* workbasket that CDS has accepted never comes back.                      *)
(***************************************************************************)
EXTENDS Naturals, Sequences, SequencesExt

CONSTANTS WorkBasket,   \* the workbaskets
          Nobody        \* no workbasket, when none is being processed

VARIABLES queue,        \* the workbaskets awaiting processing, head first
          current,      \* the workbasket being processed, or Nobody
          published,    \* those that CDS has accepted
          errored       \* those that CDS has rejected and nobody reopened yet

vars == <<queue, current, published, errored>>

Init ==
    /\ queue = <<>>
    /\ current = Nobody
    /\ published = {}
    /\ errored = {}

(* A workbasket that is nowhere in the system joins at the tail. *)
Submit(w) ==
    /\ w \notin ToSet(queue) \cup published \cup errored \cup {current}
    /\ queue' = Append(queue, w)
    /\ UNCHANGED <<current, published, errored>>

(* One workbasket changes its place; the others keep their order. *)
Move(w) ==
    /\ \E i, n \in 1..Len(queue) :
        /\ queue[i] = w
        /\ queue' = InsertAt(RemoveAt(queue, i), n, w)
    /\ UNCHANGED <<current, published, errored>>

Withdraw(w) ==
    /\ \E i \in 1..Len(queue) : queue[i] = w /\ queue' = RemoveAt(queue, i)
    /\ UNCHANGED <<current, published, errored>>

(* HMRC takes the head of the queue, and only when it has nothing in hand. *)
Start ==
    /\ current = Nobody
    /\ queue # <<>>
    /\ current' = Head(queue)
    /\ queue' = Tail(queue)
    /\ UNCHANGED <<published, errored>>

Accept ==
    /\ current # Nobody
    /\ published' = published \cup {current}
    /\ current' = Nobody
    /\ UNCHANGED <<queue, errored>>

Reject ==
    /\ current # Nobody
    /\ errored' = errored \cup {current}
    /\ current' = Nobody
    /\ UNCHANGED <<queue, published>>

Reopen(w) ==
    /\ w \in errored
    /\ errored' = errored \ {w}
    /\ UNCHANGED <<queue, current, published>>

Next ==
    \/ \E w \in WorkBasket : Submit(w) \/ Move(w) \/ Withdraw(w) \/ Reopen(w)
    \/ Start
    \/ Accept
    \/ Reject

Spec == Init /\ [][Next]_vars
=============================================================================
