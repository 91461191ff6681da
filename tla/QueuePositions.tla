--------------------------- MODULE QueuePositions ---------------------------
(***************************************************************************)
(* The arithmetic on the `position` column of PackagedWorkBasket           *)
(* (publishing/models/packaged_workbasket.py).  Position 1 is the top of   *)
(* the packaging queue; 0 means "not a member of the queue".  Each         *)
(* operator maps the column before a queue operation to the column after   *)
(* it, as the operation's UPDATE statements do.  A column is a function    *)
(* from the table's rows to Nat.                                           *)
(*                                                                         *)
(* Here and in the modules that use this one, a definition named for what  *)
(* is wrong with it (CloseGapUnfiltered) is a plausible bug.  Nothing uses *)
(* it: it stands in for the definition after it (CloseGap) when the model  *)
(* is mutated to see whether a property notices.                           *)
(***************************************************************************)
EXTENDS Integers

(* Rows with a position above n move up one place:                         *)
(* .filter(position__gt=n).update(position=F("position") - 1).             *)
CloseGapUnfiltered(pos, n) == [q \in DOMAIN pos |-> pos[q] - 1]

CloseGap(pos, n) ==
    [q \in DOMAIN pos |-> IF pos[q] > n THEN pos[q] - 1 ELSE pos[q]]

(* pop_top: p leaves position 1, everybody behind it moves up. *)
PoppedTop(pos, p) == CloseGap([pos EXCEPT ![p] = 0], 1)

(* remove_from_queue: p leaves from wherever it is. *)
RemovedAsPopped(pos, p) == PoppedTop(pos, p)

Removed(pos, p) == CloseGap([pos EXCEPT ![p] = 0], pos[p])

(* The row at position n is exchanged with the row p. *)
SwappedWith(pos, p, n) ==
    [q \in DOMAIN pos |-> IF q = p THEN n
                          ELSE IF pos[q] = n THEN pos[p]
                          ELSE pos[q]]

(* promote_to_top_position: the rows that stood above p move down one      *)
(* place and p takes position 1; a p at 0 or 1 stays where it is.          *)
PromotedToTopBySwap(pos, p) ==
    IF pos[p] <= 1 THEN pos ELSE SwappedWith(pos, p, 1)

PromotedToTop(pos, p) ==
    IF pos[p] <= 1
    THEN pos
    ELSE [q \in DOMAIN pos |->
            IF q = p THEN 1
            ELSE IF pos[q] >= 1 /\ pos[q] < pos[p] THEN pos[q] + 1
            ELSE pos[q]]

(* promote_position: exchange with the row one place nearer the top. *)
PromotedPastTop(pos, p) == SwappedWith(pos, p, pos[p] - 1)

Promoted(pos, p) ==
    IF pos[p] <= 1 THEN pos ELSE SwappedWith(pos, p, pos[p] - 1)

(* demote_position: exchange with the row one place further from the top,  *)
(* unless p is out of the queue or already holds the largest position.     *)
IsLast(pos, p) == \A q \in DOMAIN pos : pos[q] <= pos[p]

Demoted(pos, p) ==
    IF pos[p] = 0 \/ IsLast(pos, p) THEN pos ELSE SwappedWith(pos, p, pos[p] + 1)

(* Manager.create: Coalesce(Max("position"), 0).  last is the largest      *)
(* position in the table, 0 for an empty one.                              *)
IsMaxPosition(pos, last) ==
    /\ last \in {0} \cup {pos[q] : q \in DOMAIN pos}
    /\ \A q \in DOMAIN pos : pos[q] <= last

(* What every queue operation has to preserve, for the set Q of the rows   *)
(* awaiting processing: only they have a position, no two have the same    *)
(* one, and there is no gap between position 1 and the last.               *)
IsQueueOrder(pos, Q) ==
    /\ \A q \in DOMAIN pos : pos[q] # 0 <=> q \in Q
    /\ \A q, r \in Q : pos[q] = pos[r] => q = r
    /\ \A q \in Q : \A n \in 1..pos[q] : \E r \in Q : pos[r] = n
=============================================================================
