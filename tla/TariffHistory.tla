---------------------------- MODULE TariffHistory ----------------------------
(***************************************************************************)
(* What transactions, their partitions and their order numbers promise: a  *)
(* list of draft changes in each workbasket, and one list of approved      *)
(* changes, in which a workbasket stands as the block that was appended    *)
(* when it was queued, and out of which a published one never comes: at    *)
(* worst users delete what a change of it holds.                           *)
(*                                                                         *)
(* No member of these lists occurs twice. A list is written as its order:  *)
(* the pairs <<c, d>> of members where c is d or comes before it.          *)
(* Each action names first what it leaves alone, which TLC rules out soon. *)
(***************************************************************************)
CONSTANTS WorkBasket,   \* the workbaskets
          Change        \* the changes users may make

VARIABLES draft,        \* the changes in each unapproved workbasket, in order
          history,      \* the approved changes with their workbaskets, in order
          published,    \* the workbaskets whose changes CDS has accepted
          void          \* the changes in a list that hold nothing any more

vars == <<draft, history, published, void>>

Members(list) == {pair[1] : pair \in list}
Without(list, C) == {pair \in list : pair[1] \notin C /\ pair[2] \notin C}
Followed(list, rest) == list \cup rest \cup (Members(list) \X Members(rest))

(* A front of a list has, with each member, all that come before it.       *)
Fronts(list) ==
    {F \in SUBSET Members(list) : \A pair \in list : pair[2] \in F => pair[1] \in F}

(* c comes right behind a front of the list.                               *)
Inserted(list, c, F) ==
    list \cup (F \X {c}) \cup {<<c, c>>} \cup ({c} \X (Members(list) \ F))

Entry(w, c) == [workbasket |-> w, change |-> c]
Entries(w) == {e \in Members(history) : e.workbasket = w}
Block(w) == {<<Entry(w, pair[1]), Entry(w, pair[2])>> : pair \in draft[w]}
Withdrawn(w) == {<<pair[1].change, pair[2].change>> :
    pair \in history \cap (Entries(w) \X Entries(w))}

-----------------------------------------------------------------------------
Init ==
    /\ draft = [w \in WorkBasket |-> {}]
    /\ history = {}
    /\ published = {}
    /\ void = {}

(* A change is added anywhere: a new one at the bottom, or one that ends   *)
(* an object before the others. Everything else keeps its place.           *)
Add(w) ==
    /\ UNCHANGED <<history, published, void>>
    /\ w \notin published
    /\ Entries(w) = {}
    /\ \E c \in Change, F \in Fronts(draft[w]) :
        /\ \A v \in WorkBasket : c \notin Members(draft[v])
        /\ \A e \in Members(history) : e.change # c
        /\ draft' = [draft EXCEPT ![w] = Inserted(@, c, F)]

Move(w) ==
    /\ UNCHANGED <<history, published, void>>
    /\ w \notin published
    /\ \E c \in Members(draft[w]) : \E F \in Fronts(Without(draft[w], {c})) :
        draft' = [draft EXCEPT ![w] = Inserted(Without(@, {c}), c, F)]

Discard(w) ==
    /\ UNCHANGED <<history, published>>
    /\ w \notin published
    /\ \E C \in SUBSET Members(draft[w]) :
        /\ draft' = [draft EXCEPT ![w] = Without(@, C)]
        /\ void' = void \ C

(* What changes of w hold is deleted, and they keep their places, whatever *)
(* has become of w.                                                        *)
Void(w) ==
    /\ UNCHANGED <<draft, history, published>>
    /\ \E C \in SUBSET (Members(draft[w]) \cup {e.change : e \in Entries(w)}) :
        void' = void \cup C

Approve(w) ==
    /\ UNCHANGED <<published, void>>
    /\ w \notin published
    /\ Entries(w) = {}
    /\ history' = Followed(history, Block(w))
    /\ draft' = [draft EXCEPT ![w] = {}]

Withdraw(w) ==
    /\ UNCHANGED <<published, void>>
    /\ w \notin published
    /\ draft[w] = {}
    /\ history' = Without(history, Entries(w))
    /\ draft' = [draft EXCEPT ![w] = Withdrawn(w)]

(* CDS accepts what was approved: no change of w is still a draft.         *)
Publish(w) ==
    /\ UNCHANGED <<draft, history, void>>
    /\ draft[w] = {}
    /\ published' = published \cup {w}

Next ==
    \E w \in WorkBasket :
        \/ Add(w) \/ Move(w) \/ Discard(w) \/ Void(w)
        \/ Approve(w) \/ Withdraw(w) \/ Publish(w)

Spec == Init /\ [][Next]_vars
=============================================================================
