------------------------ MODULE QueuePositionsProofs ------------------------
(***************************************************************************)
(* What the operators of QueuePositions do to a queue that is in order,    *)
(* for a table of any size: the heart of the QueueOrder theorem, free of   *)
(* the states and envelopes around the position column.                    *)
(***************************************************************************)
EXTENDS QueuePositions, FiniteSetTheorems, FunctionTheorems, TLAPS

(* Neighbours, SwappedWith: exchanging a queued row with the one that      *)
(* holds position n keeps the queue in order.                              *)
LEMMA SwappedWithOrder ==
    ASSUME NEW Rows, NEW pos \in [Rows -> Nat], NEW Q \in SUBSET Rows,
           IsQueueOrder(pos, Q),
           NEW p \in Q, NEW n \in Nat, NEW r \in Q, pos[r] = n
    PROVE  /\ SwappedWith(pos, p, n) \in [Rows -> Nat]
           /\ IsQueueOrder(SwappedWith(pos, p, n), Q)
<1> DEFINE new == SwappedWith(pos, p, n)
<1>1. DOMAIN pos = Rows
    OBVIOUS
<1>2. new = [q \in Rows |-> IF q = p THEN n ELSE IF pos[q] = n THEN pos[p] ELSE pos[q]]
    BY <1>1 DEF SwappedWith
<1>3. new \in [Rows -> Nat]
    BY <1>2
<1>4. \A q \in Rows : pos[q] # 0 <=> q \in Q
    BY <1>1 DEF IsQueueOrder
<1>5. \A q, s \in Q : pos[q] = pos[s] => q = s
    BY DEF IsQueueOrder
<1>6. n # 0 /\ pos[p] # 0
    BY <1>4
<1>7. \A q \in Q : new[q] = IF q = p THEN n ELSE IF q = r THEN pos[p] ELSE pos[q]
    BY <1>2, <1>5
<1>8. \A q \in Rows : new[q] # 0 <=> q \in Q
    BY <1>2, <1>4, <1>6
<1>9. \A q, s \in Q : new[q] = new[s] => q = s
    BY <1>5, <1>7
<1>10. \A q \in Q : \E s \in Q : new[q] = pos[s] 
    BY <1>7
<1>11. \A s \in Q : \E q \in Q : new[q] = pos[s]
    BY <1>7
<1>12. ASSUME NEW q \in Q, NEW m \in 1..new[q]
       PROVE  \E t \in Q : new[t] = m
    <2>1. PICK s \in Q : pos[s] = m
        BY <1>10 DEF IsQueueOrder
    <2> QED
        BY <1>11, <2>1
<1> QED
    BY <1>1, <1>3, <1>8, <1>9, <1>12 DEF IsQueueOrder

(* promote_position keeps the queue in order, whichever row it names. *)
LEMMA PromotedOrder ==
    ASSUME NEW Rows, NEW pos \in [Rows -> Nat], NEW Q \in SUBSET Rows,
           IsQueueOrder(pos, Q), NEW p \in Rows
    PROVE  /\ Promoted(pos, p) \in [Rows -> Nat]
           /\ IsQueueOrder(Promoted(pos, p), Q)
<1>1. CASE pos[p] <= 1
    BY <1>1 DEF Promoted
<1>2. CASE pos[p] > 1
    <2>1. p \in Q
        BY <1>2 DEF IsQueueOrder
    <2>2. pos[p] - 1 \in 1..pos[p] /\ pos[p] - 1 \in Nat
        BY <1>2
    <2>3. PICK r \in Q : pos[r] = pos[p] - 1
        BY <2>1, <2>2 DEF IsQueueOrder
    <2>4. Promoted(pos, p) = SwappedWith(pos, p, pos[p] - 1)
        BY <1>2 DEF Promoted
    <2> QED
        BY <2>1, <2>2, <2>3, <2>4, SwappedWithOrder
<1> QED
    BY <1>1, <1>2

(* demote_position: a row that is not the last has a row right behind it,  *)
(* so there is always somebody to swap with.                               *)
LEMMA DemotedOrder ==
    ASSUME NEW Rows, NEW pos \in [Rows -> Nat], NEW Q \in SUBSET Rows,
           IsQueueOrder(pos, Q), NEW p \in Rows
    PROVE  /\ Demoted(pos, p) \in [Rows -> Nat]
           /\ IsQueueOrder(Demoted(pos, p), Q)
<1>1. CASE pos[p] = 0 \/ IsLast(pos, p)
    BY <1>1 DEF Demoted
<1>2. CASE pos[p] # 0 /\ ~IsLast(pos, p)
    <2>1. p \in Q
        BY <1>2 DEF IsQueueOrder
    <2>2. PICK s \in Rows : pos[s] > pos[p]
        BY <1>2 DEF IsLast
    <2>3. s \in Q /\ pos[p] + 1 \in 1..pos[s]
        BY <2>2 DEF IsQueueOrder
    <2>4. PICK r \in Q : pos[r] = pos[p] + 1
        BY <2>3 DEF IsQueueOrder
    <2>5. Demoted(pos, p) = SwappedWith(pos, p, pos[p] + 1)
        BY <1>2 DEF Demoted
    <2> QED
        BY <2>1, <2>4, <2>5, SwappedWithOrder
<1> QED
    BY <1>1, <1>2

(* promote_to_top_position: p at 1 and those above it one place down fill  *)
(* exactly the places that were filled before.                             *)
LEMMA PromotedToTopOrder ==
    ASSUME NEW Rows, NEW pos \in [Rows -> Nat], NEW Q \in SUBSET Rows,
           IsQueueOrder(pos, Q), NEW p \in Rows
    PROVE  /\ PromotedToTop(pos, p) \in [Rows -> Nat]
           /\ IsQueueOrder(PromotedToTop(pos, p), Q)
<1>1. CASE pos[p] <= 1
    BY <1>1 DEF PromotedToTop
<1>2. CASE pos[p] > 1
    <2> DEFINE new == PromotedToTop(pos, p)
    <2>1. new = [q \in Rows |-> IF q = p THEN 1
                                ELSE IF pos[q] >= 1 /\ pos[q] < pos[p] THEN pos[q] + 1
                                ELSE pos[q]]
        BY <1>2 DEF PromotedToTop
    <2>2. p \in Q
        BY <1>2 DEF IsQueueOrder
    <2>3. \A q \in Rows : pos[q] # 0 <=> q \in Q
        BY DEF IsQueueOrder
    <2>4. \A q, s \in Q : pos[q] = pos[s] => q = s
        BY DEF IsQueueOrder
    <2>5. new \in [Rows -> Nat]
        BY <2>1
    <2>6. \A q \in Rows : new[q] # 0 <=> q \in Q
        BY <2>1, <2>2, <2>3
    <2>7. \A q, s \in Q : new[q] = new[s] => q = s
        BY <2>1, <2>2, <2>3, <2>4
    <2>8. ASSUME NEW q \in Q, NEW m \in 1..new[q]
          PROVE  \E t \in Q : new[t] = m
        <3>1. CASE m = 1
            BY <2>1, <2>2, <3>1
        <3>2. CASE m > 1 /\ m <= pos[p]
            <4>1. m - 1 \in 1..pos[p]
                BY <3>2
            <4>2. PICK t \in Q : pos[t] = m - 1
                BY <2>2, <4>1 DEF IsQueueOrder
            <4>3. new[t] = m
                BY <2>1, <3>2, <4>2
            <4> QED
                BY <4>3
        <3>3. CASE m > pos[p]
            <4>1. m \in 1..pos[q]
                BY <1>2, <2>1, <3>3
            <4>2. PICK t \in Q : pos[t] = m
                BY <4>1 DEF IsQueueOrder
            <4>3. new[t] = m
                BY <2>1, <3>3, <4>2
            <4> QED
                BY <4>3
        <3> QED
            BY <3>1, <3>2, <3>3
    <2> QED
        BY <2>5, <2>6, <2>7, <2>8 DEF IsQueueOrder
<1> QED
    BY <1>1, <1>2

(* remove_from_queue: without the row it removes, the rest is in order. *)
LEMMA RemovedOrder ==
    ASSUME NEW Rows, NEW pos \in [Rows -> Nat], NEW Q \in SUBSET Rows,
           IsQueueOrder(pos, Q), NEW p \in Q
    PROVE  /\ Removed(pos, p) \in [Rows -> Nat]
           /\ IsQueueOrder(Removed(pos, p), Q \ {p})
<1> DEFINE new == Removed(pos, p)
<1>1. new = [q \in Rows |-> IF q = p THEN 0
                            ELSE IF pos[q] > pos[p] THEN pos[q] - 1 ELSE pos[q]]
    BY DEF Removed, CloseGap
<1>2. \A q \in Rows : pos[q] # 0 <=> q \in Q
    BY DEF IsQueueOrder
<1>3. \A q, s \in Q : pos[q] = pos[s] => q = s
    BY DEF IsQueueOrder
<1>4. new \in [Rows -> Nat]
    BY <1>1
<1>5. \A q \in Rows : new[q] # 0 <=> q \in Q \ {p}
    BY <1>1, <1>2
<1>6. \A q, s \in Q \ {p} : new[q] = new[s] => q = s
    BY <1>1, <1>2, <1>3
<1>7. ASSUME NEW q \in Q \ {p}, NEW m \in 1..new[q]
      PROVE  \E t \in Q \ {p} : new[t] = m
    <2>1. CASE m < pos[p]
        <3>1. m \in 1..pos[q]
            BY <1>1
        <3>2. PICK t \in Q : pos[t] = m
            BY <3>1 DEF IsQueueOrder
        <3>3. t # p /\ new[t] = m
            BY <1>1, <2>1, <3>2
        <3> QED
            BY <3>3
    <2>2. CASE m >= pos[p]
        <3>1. m + 1 \in 1..pos[q]
            BY <1>1, <1>3, <2>2
        <3>2. PICK t \in Q : pos[t] = m + 1
            BY <3>1 DEF IsQueueOrder
        <3>3. t # p /\ new[t] = m
            BY <1>1, <2>2, <3>2
        <3> QED
            BY <3>3
    <2> QED
        BY <2>1, <2>2
<1> QED
    BY <1>4, <1>5, <1>6, <1>7 DEF IsQueueOrder

(* pop_top is the removal of the row at position 1. *)
LEMMA PoppedTopOrder ==
    ASSUME NEW Rows, NEW pos \in [Rows -> Nat], NEW Q \in SUBSET Rows,
           IsQueueOrder(pos, Q), NEW p \in Rows, pos[p] = 1
    PROVE  /\ PoppedTop(pos, p) \in [Rows -> Nat]
           /\ IsQueueOrder(PoppedTop(pos, p), Q \ {p})
<1>1. p \in Q
    BY DEF IsQueueOrder
<1>2. PoppedTop(pos, p) = Removed(pos, p)
    BY DEF PoppedTop, Removed
<1>3. /\ Removed(pos, p) \in [Rows -> Nat]
      /\ IsQueueOrder(Removed(pos, p), Q \ {p})
    BY <1>1, RemovedOrder
<1> QED
    BY <1>2, <1>3

(* Manager.create: a row that joins behind the largest position leaves no  *)
(* gap, whether the queue was empty or not.                                *)
LEMMA JoinedOrder ==
    ASSUME NEW Rows, NEW pos \in [Rows -> Nat], NEW Q \in SUBSET Rows,
           IsQueueOrder(pos, Q), NEW p \in Rows \ Q, NEW last, IsMaxPosition(pos, last)
    PROVE  /\ [pos EXCEPT ![p] = last + 1] \in [Rows -> Nat]
           /\ IsQueueOrder([pos EXCEPT ![p] = last + 1], Q \cup {p})
<1> DEFINE new == [pos EXCEPT ![p] = last + 1]
<1>1. last \in Nat /\ \A q \in Rows : pos[q] <= last
    BY DEF IsMaxPosition
<1>2. new \in [Rows -> Nat]
    BY <1>1
<1>3. \A q \in Rows : new[q] # 0 <=> q \in Q \cup {p}
    BY <1>1 DEF IsQueueOrder
<1>4. \A q, s \in Q \cup {p} : new[q] = new[s] => q = s
    BY <1>1 DEF IsQueueOrder
<1>5. ASSUME NEW m \in 1..last
      PROVE  \E t \in Q : pos[t] = m
    <2>1. PICK q \in Rows : pos[q] = last
        BY DEF IsMaxPosition
    <2>2. q \in Q
        BY <1>1, <2>1 DEF IsQueueOrder
    <2> QED
        BY <2>1, <2>2 DEF IsQueueOrder
<1>6. ASSUME NEW q \in Q \cup {p}, NEW m \in 1..new[q]
      PROVE  \E t \in Q \cup {p} : new[t] = m
    <2>1. CASE m = last + 1
        BY <2>1
    <2>2. CASE m # last + 1
        <3>1. m \in 1..last
            BY <1>1, <2>2
        <3>2. PICK t \in Q : pos[t] = m
            BY <1>5, <3>1
        <3> QED
            BY <3>2
    <2> QED
        BY <2>1, <2>2
<1> QED
    BY <1>2, <1>3, <1>4, <1>6 DEF IsQueueOrder

(* In a queue in order, position n has n - 1 rows before it: renumbering   *)
(* the rows by counting gives every row the position it has.               *)
LEMMA RowsBefore ==
    ASSUME NEW Rows, NEW pos \in [Rows -> Nat], NEW Q \in SUBSET Rows,
           IsQueueOrder(pos, Q), NEW p \in Q
    PROVE  Cardinality({q \in Q : pos[q] < pos[p]}) = pos[p] - 1
<1> DEFINE Before == {q \in Q : pos[q] < pos[p]}
           n == pos[p] - 1
           f == [q \in Before |-> pos[q]]
<1>1. \A q \in Q : pos[q] \in Nat \ {0}
    BY DEF IsQueueOrder
<1>2. n \in Nat
    BY <1>1
<1>3. f \in [Before -> 1..n]
    BY <1>1
<1>4. \A q, s \in Before : f[q] = f[s] => q = s
    BY DEF IsQueueOrder
<1>5. ASSUME NEW m \in 1..n
      PROVE  \E q \in Before : f[q] = m
    <2>1. PICK q \in Q : pos[q] = m
        BY <1>1 DEF IsQueueOrder
    <2> QED
        BY <2>1
<1>6. f \in Bijection(Before, 1..n)
    BY <1>3, <1>4, <1>5 DEF Bijection, Injection, Surjection, IsInjective
<1>7. IsFiniteSet(1..n) /\ Cardinality(1..n) = n
    <2> HIDE DEF n
    <2>1. 1 \in Int /\ n \in Int
        BY <1>2
    <2>2. IsFiniteSet(1..n) /\ Cardinality(1..n) = IF 1 > n THEN 0 ELSE n - 1 + 1
        BY ONLY <2>1, FS_Interval
    <2> QED
        BY ONLY <1>2, <2>2
<1>8. Cardinality(Before) = Cardinality(1..n)
    <2>1. ExistsBijection(Before, 1..n)
        BY <1>6 DEF ExistsBijection
    <2>2. ExistsBijection(1..n, Before)
        BY <2>1, Fun_ExistsBijSymmetric
    <2> QED
        BY <1>7, <2>2, FS_Bijection
<1> QED
    BY <1>7, <1>8

(* The rows of a queue that is in order hold the positions 1 to their      *)
(* number, each position one row.                                          *)
LEMMA PositionsFillRange ==
    ASSUME NEW Rows, IsFiniteSet(Rows), NEW pos \in [Rows -> Nat],
           NEW Q \in SUBSET Rows, IsQueueOrder(pos, Q)
    PROVE  /\ Cardinality(Q) \in Nat
           /\ \A p \in Q : pos[p] \in 1..Cardinality(Q)
           /\ \A n \in 1..Cardinality(Q) : \E p \in Q : pos[p] = n
<1>1. IsFiniteSet(Q) /\ Cardinality(Q) \in Nat
    BY FS_Subset, FS_CardinalityType
<1>2. \A p \in Q : pos[p] \in Nat \ {0}
    BY DEF IsQueueOrder
<1>3. ASSUME NEW p \in Q
      PROVE  pos[p] <= Cardinality(Q)
    <2> DEFINE Before == {q \in Q : pos[q] < pos[p]}
    <2>1. Cardinality(Before) = pos[p] - 1
        BY RowsBefore
    <2>2. p \notin Before /\ Before \cup {p} \subseteq Q /\ IsFiniteSet(Before)
        BY <1>1, <1>2, FS_Subset
    <2>3. Cardinality(Before \cup {p}) = Cardinality(Before) + 1
        BY <2>2, FS_AddElement
    <2>4. Cardinality(Before \cup {p}) <= Cardinality(Q)
        BY <1>1, <2>2, FS_Subset
    <2> HIDE DEF Before
    <2> QED
        BY <1>1, <1>2, <2>1, <2>3, <2>4
<1>4. ASSUME NEW n \in 1..Cardinality(Q)
      PROVE  \E p \in Q : pos[p] = n
    <2>1. CASE \E p \in Q : pos[p] >= n
        <3>1. PICK p \in Q : pos[p] >= n
            BY <2>1
        <3>2. n \in 1..pos[p]
            BY <1>2, <3>1
        <3> QED
            BY <3>1, <3>2 DEF IsQueueOrder
    <2>2. CASE \A p \in Q : pos[p] < n
        <3> DEFINE f == [p \in Q |-> pos[p]]
        <3>1. f \in Injection(Q, 1..(n - 1))
            <4>1. \A p \in Q : pos[p] \in 1..(n - 1)
                BY <1>1, <1>2, <2>2
            <4>2. f \in [Q -> 1..(n - 1)]
                BY <4>1
            <4>3. \A p, q \in Q : f[p] = f[q] => p = q
                BY DEF IsQueueOrder
            <4> QED
                BY <4>2, <4>3 DEF Injection, IsInjective
        <3>2. IsFiniteSet(1..(n - 1)) /\ Cardinality(1..(n - 1)) = n - 1
            <4>1. 1 \in Int /\ n - 1 \in Int /\ n >= 1
                BY <1>1
            <4>2. /\ IsFiniteSet(1..(n - 1))
                  /\ Cardinality(1..(n - 1)) = IF 1 > n - 1 THEN 0 ELSE (n - 1) - 1 + 1
                BY <4>1, FS_Interval
            <4> QED
                BY <1>1, <4>1, <4>2
        <3>3. Cardinality(Q) <= n - 1
            BY <1>1, <3>1, <3>2, FS_Injection
        <3> QED
            BY <1>1, <3>3
    <2> QED
        BY <1>1, <1>2, <2>1, <2>2
<1>5. \A p \in Q : pos[p] \in 1..Cardinality(Q)
    BY <1>1, <1>2, <1>3
<1> QED
    BY <1>1, <1>4, <1>5
=============================================================================
