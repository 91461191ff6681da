------------------------ MODULE TransactionOrderProofs ------------------------
(***************************************************************************)
(* Theorems about TransactionOrder, for any number of workbaskets, objects *)
(* and transactions and every partition scheme.                            *)
(***************************************************************************)
EXTENDS MCTransactionOrder, FiniteSetTheorems, WellFoundedInduction, TLAPS

-----------------------------------------------------------------------------
(* Rows and their order.                                                   *)

(* What a row holds. *)
LEMMA RowType ==
    ASSUME TypeOK, NEW t \in Pk
    PROVE  /\ transactions[t] \in Transaction
           /\ transactions[t].workbasket \in WorkBasket
           /\ transactions[t].object \in Object \cup {Null}
           /\ transactions[t].partition \in {SEED_FILE, REVISION, DRAFT}
           /\ transactions[t].partition \in 1..3
           /\ transactions[t].order \in 1..MaxOrder
           /\ transactions[t].order \in Nat
           /\ t \in 1..lastPk /\ t # Null
<1>1. transactions[t] \in Transaction /\ t \in 1..lastPk
    BY DEF TypeOK
<1> QED
    BY <1>1, BoundAssumption DEF Transaction, SEED_FILE, REVISION, DRAFT, Null

(* Any set of rows is finite. *)
LEMMA PkFinite ==
    ASSUME TypeOK, NEW S \in SUBSET Pk
    PROVE  IsFiniteSet(S) /\ Cardinality(S) \in Nat
<1>1. lastPk \in Int
    BY BoundAssumption DEF TypeOK
<1>2. IsFiniteSet(1..lastPk)
    BY <1>1, FS_Interval
<1>3. S \in SUBSET (1..lastPk)
    BY DEF TypeOK
<1> QED
    BY <1>2, <1>3, FS_Subset, FS_CardinalityType

(* The order of transactions is strict. *)
LEMMA BeforeIsStrict ==
    ASSUME TypeOK
    PROVE  /\ \A t \in Pk : ~Before(t, t)
           /\ \A t, u \in Pk : Before(t, u) => ~Before(u, t)
           /\ \A t, u, v \in Pk : Before(t, u) /\ Before(u, v) => Before(t, v)
<1>1. \A t \in Pk : transactions[t].partition \in Nat /\ transactions[t].order \in Nat
    BY RowType
<1> QED
    BY <1>1 DEF Before

(* Rows that pairwise differ in their order are totally ordered. *)
LEMMA BeforeIsTotal ==
    ASSUME TypeOK, OrdersDistinct, NEW S \in SUBSET Pk,
           S \subseteq Approved \/ \E w \in WorkBasket : S \subseteq Own(w)
    PROVE  \A t, u \in S : t # u => Before(t, u) \/ Before(u, t)
<1> TAKE t, u \in S
<1> HAVE t # u
<1>1. /\ transactions[t].partition \in Nat /\ transactions[t].order \in Nat
      /\ transactions[u].partition \in Nat /\ transactions[u].order \in Nat
    BY RowType
<1>2. transactions[t].partition = transactions[u].partition
      => transactions[t].order # transactions[u].order
    <2>1. IsApproved(t) \/ transactions[t].workbasket = transactions[u].workbasket
        BY DEF Own, Approved
    <2> QED
        BY <2>1 DEF OrdersDistinct
<1> QED
    BY <1>1, <1>2 DEF Before

(* The first and the last of some rows of one workbasket have no equals.   *)
LEMMA FirstAndLast ==
    ASSUME TypeOK, OrdersDistinct, NEW w \in WorkBasket, NEW S \in SUBSET Own(w)
    PROVE  /\ \A t \in First(S) : t \in S /\ \A u \in S \ {t} : Before(t, u)
           /\ \A t \in Last(S) : t \in S /\ \A u \in S \ {t} : Before(u, t)
<1>1. S \in SUBSET Pk
    BY DEF Own
<1>2. \A t, u \in S : t # u => Before(t, u) \/ Before(u, t)
    BY <1>1, BeforeIsTotal
<1> QED
    BY <1>2 DEF First, Last

(* Rank counts from one, and grows with the order. *)
LEMMA RankGrows ==
    ASSUME TypeOK, NEW S \in SUBSET Pk
    PROVE  /\ \A t \in S : Rank(t, S) \in 1..Cardinality(S)
           /\ \A t, u \in S : Before(t, u) => Rank(t, S) < Rank(u, S)
<1> DEFINE Lower(t) == {u \in S : Before(u, t)}
<1>1. ASSUME NEW t \in S PROVE Rank(t, S) \in 1..Cardinality(S)
    <2>1. IsFiniteSet(S \ {t}) /\ Cardinality(S \ {t}) = Cardinality(S) - 1
        BY PkFinite, FS_RemoveElement
    <2>2. Lower(t) \in SUBSET (S \ {t})
        BY BeforeIsStrict
    <2>3. Cardinality(Lower(t)) <= Cardinality(S) - 1
        BY <2>1, <2>2, FS_Subset
    <2>4. Cardinality(Lower(t)) \in Nat /\ Cardinality(S) \in Nat
        BY PkFinite
    <2> QED
        BY <2>3, <2>4 DEF Rank
<1>2. ASSUME NEW t \in S, NEW u \in S, Before(t, u) PROVE Rank(t, S) < Rank(u, S)
    <2>1. Lower(t) \in SUBSET Lower(u)
        BY <1>2, BeforeIsStrict
    <2>2. t \in Lower(u) /\ t \notin Lower(t)
        BY <1>2, BeforeIsStrict
    <2>3. IsFiniteSet(Lower(u)) /\ Cardinality(Lower(u)) \in Nat
        BY PkFinite
    <2>4. Cardinality(Lower(t)) <= Cardinality(Lower(u)) /\ Cardinality(Lower(t)) \in Nat
        BY <2>1, <2>3, FS_Subset, PkFinite
    <2>5. Cardinality(Lower(t)) # Cardinality(Lower(u))
        BY <2>1, <2>2, <2>3, FS_Subset
    <2> QED
        BY <2>3, <2>4, <2>5 DEF Rank
<1> QED
    BY <1>1, <1>2

(* LastOrder is no smaller than any order in one partition. *)
LEMMA LastOrderBounds ==
    ASSUME TypeOK, NEW S \in SUBSET Pk, NEW last \in LastOrder(S)
    PROVE  /\ last \in 0..MaxOrder
           /\ S # {} => last \in 1..MaxOrder
           /\ \A t \in S : (\A u \in S : transactions[u].partition = transactions[t].partition)
                            => transactions[t].order <= last
<1>1. CASE S = {}
    BY <1>1, BoundAssumption DEF LastOrder
<1>2. CASE S # {}
    <2>1. PICK v \in Last(S) : last = transactions[v].order
        BY <1>2 DEF LastOrder
    <2>2. v \in S /\ \A u \in S : ~Before(v, u)
        BY <2>1 DEF Last
    <2>3. last \in 1..MaxOrder
        BY <2>1, <2>2, RowType
    <2>4. ASSUME NEW t \in S, transactions[v].partition = transactions[t].partition
          PROVE  transactions[t].order <= last
        <3>1. /\ transactions[t].partition \in Nat /\ transactions[t].order \in Nat
              /\ transactions[v].partition \in Nat /\ transactions[v].order \in Nat
            BY <2>2, RowType
        <3>2. ~Before(v, t)
            BY <2>2
        <3> QED
            BY <2>1, <2>4, <3>1, <3>2 DEF Before
    <2> QED
        BY <2>2, <2>3, <2>4
<1> QED
    BY <1>1, <1>2

(* A set of rows that is not empty has a newest row, so Newest is what its *)
(* name says. By minimality: of the subsets without a newest row, a        *)
(* smallest one would still have none with one row less.                   *)
LEMMA NewestIsNewest ==
    ASSUME TypeOK, NEW S \in SUBSET Pk, S # {}
    PROVE  Newest(S) \in S /\ \A u \in S : u <= Newest(S)
<1> DEFINE HasNewest(T) == \E t \in T : \A u \in T : u <= t
           Bad == {T \in SUBSET S : T # {} /\ ~HasNewest(T)}
<1>1. ASSUME NEW t \in S PROVE t \in Nat
    BY RowType, lastPk \in Int, BoundAssumption DEF TypeOK
<1>2. Bad = {}
    <2>1. SUFFICES ASSUME Bad # {} PROVE FALSE
        OBVIOUS
    <2>2. IsWellFoundedOn(StrictSubsetOrdering(S), SUBSET S)
        <3>1. FiniteSubsetsOf(S) = SUBSET S
            BY PkFinite, FS_FiniteSubsetsOfFinite
        <3>2. IsWellFoundedOn(StrictSubsetOrdering(S), FiniteSubsetsOf(S))
            BY FS_StrictSubsetOrderingWellFounded
        <3> QED
            BY <3>1, <3>2
    <2>3. PICK T \in Bad : \A U \in Bad : ~(<<U, T>> \in StrictSubsetOrdering(S))
        <3>1. Bad \subseteq SUBSET S
            OBVIOUS
        <3> HIDE DEF Bad
        <3>2. \E T \in Bad : \A U \in Bad : ~(<<U, T>> \in StrictSubsetOrdering(S))
            BY <2>1, <2>2, <3>1, WFMin
        <3> QED
            BY <3>2
    <2>4. PICK x \in T : TRUE
        OBVIOUS
    <2>5. T \ {x} \notin Bad
        BY <2>3 DEF StrictSubsetOrdering
    <2>6. CASE T \ {x} = {}
        <3>1. x \in Nat
            BY <1>1, <2>3, <2>4
        <3> QED
            BY <2>4, <2>6, <3>1
    <2>7. CASE HasNewest(T \ {x})
        <3>1. PICK t \in T \ {x} : \A u \in T \ {x} : u <= t
            BY <2>7
        <3>2. x \in Nat /\ t \in Nat /\ \A u \in T : u \in Nat
            BY <1>1, <2>3, <2>4, <3>1
        <3>3. CASE x <= t
            BY <2>3, <3>1, <3>2, <3>3
        <3>4. CASE t < x
            BY <2>3, <2>4, <3>1, <3>2, <3>4
        <3> QED
            BY <3>2, <3>3, <3>4
    <2> QED
        BY <2>3, <2>5, <2>6, <2>7
<1>3. HasNewest(S)
    BY <1>2
<1> QED
    BY <1>3 DEF Newest

-----------------------------------------------------------------------------
(* Edits: every change a user makes within one workbasket.                 *)

(* What editing w leaves alone: the rows of the other workbaskets, and all *)
(* but the order of each of w's rows that remains.                         *)
OnlyDraftsOf(w) ==
    /\ status[w] = "EDITING"
    /\ status' = status
    /\ \A t \in Pk \ Own(w) : t \in Pk' /\ transactions'[t] = transactions[t]
    /\ \A t \in Own(w) : t \in Pk' =>
           /\ transactions'[t].workbasket = w
           /\ transactions'[t].object = transactions[t].object
           /\ transactions'[t].partition = transactions[t].partition
    /\ \A t \in Pk' \ Pk : /\ transactions'[t].workbasket = w
                            /\ transactions'[t].object # Null
                            /\ transactions'[t].partition = DRAFT
    /\ \A t, u \in Own(w)' : t # u => transactions'[t].order # transactions'[u].order

Core == TypeOK /\ OrdersDistinct /\ PartitionFollowsStatus

(* The rows S come one before the other as they did.                       *)
SameOrder(S) == \A t, u \in S : Before(t, u)' <=> Before(t, u)

(* One row of w is new or comes elsewhere, and all others keep their order. *)
OneChange(w, t) ==
    /\ Own(w)' = Own(w) \cup {t}
    /\ SameOrder(Own(w) \ {t})

(* No row of a workbasket that is being edited is approved. *)
LEMMA DraftsOfEdited ==
    ASSUME Core, NEW w \in WorkBasket, status[w] \notin ApprovedStatus
    PROVE  /\ Own(w) \cap Approved = {}
           /\ \A t \in Own(w) : transactions[t].partition = DRAFT
BY DEF Core, PartitionFollowsStatus, Own, Approved, IsApproved

(* Whatever is done to the rows of a workbasket in editing, the order of   *)
(* the approved transactions stays.                                        *)
LEMMA EditingKeepsOrder ==
    ASSUME Core, NEW w \in WorkBasket, OnlyDraftsOf(w)
    PROVE  /\ OrdersDistinct'
           /\ PartitionFollowsStatus'
           /\ Approved' = Approved
           /\ \A t \in Approved : transactions'[t] = transactions[t]
<1>1. status[w] \notin ApprovedStatus
    BY DEF OnlyDraftsOf, ApprovedStatus
<1>2. \A t \in Own(w) : transactions[t].partition = DRAFT
    BY <1>1, DraftsOfEdited
<1>3. \A t \in Own(w)' : transactions'[t].partition = DRAFT
    BY <1>2 DEF OnlyDraftsOf, Own
<1>4. \A t \in Pk' \ Own(w)' : t \in Pk \ Own(w) /\ transactions'[t] = transactions[t]
    BY DEF OnlyDraftsOf, Own
<1>5. OrdersDistinct'
    <2> SUFFICES ASSUME NEW t \in Pk', NEW u \in Pk', t # u,
                        transactions'[t].partition = transactions'[u].partition,
                        \/ IsApproved(t)'
                        \/ transactions'[t].workbasket = transactions'[u].workbasket
                 PROVE  transactions'[t].order # transactions'[u].order
        BY DEF OrdersDistinct
    <2>1. CASE t \in Own(w)' /\ u \in Own(w)'
        BY <2>1 DEF OnlyDraftsOf
    <2>2. CASE t \in Own(w)' /\ u \notin Own(w)'
        BY <1>3, <2>2 DEF IsApproved, Own
    <2>3. CASE t \notin Own(w)' /\ u \in Own(w)'
        BY <1>3, <2>3 DEF IsApproved, Own
    <2>4. CASE t \notin Own(w)' /\ u \notin Own(w)'
        BY <1>4, <2>4 DEF Core, OrdersDistinct, IsApproved
    <2> QED
        BY <2>1, <2>2, <2>3, <2>4
<1>6. PartitionFollowsStatus'
    <2> SUFFICES ASSUME NEW t \in Pk'
                 PROVE  IsApproved(t)' <=> status'[transactions'[t].workbasket] \in ApprovedStatus
        BY DEF PartitionFollowsStatus
    <2>1. CASE t \in Own(w)'
        BY <1>1, <1>3, <2>1 DEF IsApproved, Own, OnlyDraftsOf
    <2>2. CASE t \notin Own(w)'
        BY <1>4, <2>2 DEF Core, PartitionFollowsStatus, IsApproved, OnlyDraftsOf
    <2> QED
        BY <2>1, <2>2
<1>7. Approved' = Approved /\ \A t \in Approved : transactions'[t] = transactions[t]
    BY <1>2, <1>3, <1>4 DEF Approved, IsApproved, OnlyDraftsOf, Own
<1> QED
    BY <1>5, <1>6, <1>7

(* A new transaction comes after those its workbasket has. *)
LEMMA NewOrderIsLarger ==
    ASSUME Core, NEW w \in WorkBasket, status[w] = "EDITING", NEW n \in NewOrder(w)
    PROVE  /\ n \in Nat /\ n >= 1
           /\ \A t \in Own(w) : transactions[t].order < n
<1> DEFINE S == IF Own(w) # {} THEN Own(w) ELSE Approved
<1>1. S \in SUBSET Pk
    BY DEF Own, Approved
<1>2. PICK last \in LastOrder(S) : n = last + 1
    BY DEF NewOrder
<1> HIDE DEF S
<1>3. last \in Nat
    BY <1>1, <1>2, LastOrderBounds, BoundAssumption DEF Core
<1>4. ASSUME NEW t \in Own(w) PROVE transactions[t].order < n
    <2>1. S = Own(w)
        BY <1>4 DEF S
    <2>2. \A u \in S : transactions[u].partition = transactions[t].partition
        BY <2>1, DraftsOfEdited DEF ApprovedStatus
    <2>3. transactions[t].order <= last
        BY <1>1, <1>2, <1>4, <2>1, <2>2, LastOrderBounds DEF Core
    <2>4. transactions[t].order \in Nat
        BY <1>4, RowType DEF Core, Own
    <2> QED
        BY <1>2, <1>3, <2>3, <2>4
<1> QED
    BY <1>2, <1>3, <1>4

(* One more row of w, in a table whose rows keep all but their order.      *)
LEMMA CreatedType ==
    ASSUME TypeOK, NEW rows \in [Pk -> Transaction], NEW row \in Transaction,
           lastPk < MaxPk, lastPk' = lastPk + 1,
           transactions' = Created(rows, row),
           UNCHANGED <<status, versions>>
    PROVE  /\ TypeOK'
           /\ Pk' = Pk \cup {lastPk'} /\ lastPk' \notin Pk
           /\ \A t \in Pk : transactions'[t] = rows[t]
           /\ transactions'[lastPk'] = row
<1>1. lastPk \in 0..MaxPk /\ Pk \subseteq 1..lastPk
    BY DEF TypeOK
<1>2. lastPk' \in 0..MaxPk /\ lastPk' \notin Pk /\ Pk \cup {lastPk'} \subseteq 1..lastPk'
    BY <1>1, BoundAssumption
<1>3. /\ Pk' = Pk \cup {lastPk'}
      /\ \A t \in Pk : transactions'[t] = rows[t]
      /\ transactions'[lastPk'] = row
    BY <1>2 DEF Created, Pk
<1>4. transactions' \in [Pk' -> Transaction]
    BY <1>2, <1>3 DEF Created, Pk
<1> QED
    BY <1>2, <1>3, <1>4 DEF TypeOK, versions

(* A new version touches only the drafts of its workbasket. *)
LEMMA EditStep ==
    ASSUME Core, NEW w \in WorkBasket, NEW o \in Object, Edit(w, o)
    PROVE  /\ TypeOK' /\ OnlyDraftsOf(w) /\ UNCHANGED versions
           /\ lastPk' \notin Pk /\ OneChange(w, lastPk')
<1>1. PICK n \in NewOrder(w) :
        n <= MaxOrder /\ transactions' = Created(transactions, NewRow(w, o, n))
    BY DEF Edit
<1>2. status[w] = "EDITING"
    BY DEF Edit
<1>3. n \in Nat /\ n >= 1 /\ \A t \in Own(w) : transactions[t].order < n
    BY <1>2, NewOrderIsLarger
<1>4. NewRow(w, o, n) \in Transaction /\ o # Null
    BY <1>1, <1>3, BoundAssumption, ObjectAssumption DEF NewRow, Transaction
<1>5. /\ TypeOK'
      /\ Pk' = Pk \cup {lastPk'} /\ lastPk' \notin Pk
      /\ \A t \in Pk : transactions'[t] = transactions[t]
      /\ transactions'[lastPk'] = NewRow(w, o, n)
    BY <1>1, <1>4, CreatedType DEF Edit, Core, TypeOK
<1>6. /\ transactions'[lastPk'].workbasket = w
      /\ transactions'[lastPk'].object = o
      /\ transactions'[lastPk'].partition = DRAFT
      /\ transactions'[lastPk'].order = n
    BY <1>5 DEF NewRow
<1>7. ASSUME NEW t \in Own(w)', NEW u \in Own(w)', t # u
      PROVE  transactions'[t].order # transactions'[u].order
    <2>1. \A s \in Own(w)' : s = lastPk' \/ s \in Own(w)
        BY <1>5 DEF Own
    <2>2. \A s \in Own(w) : transactions[s].order \in Nat /\ transactions'[s].order < n
        BY <1>3, <1>5, RowType DEF Own, Core
    <2>3. CASE t \in Own(w) /\ u \in Own(w)
        BY <1>5, <1>7, <2>3, DraftsOfEdited, <1>2
        DEF Core, OrdersDistinct, Own, ApprovedStatus
    <2> QED
        BY <1>3, <1>5, <1>6, <1>7, <2>1, <2>2, <2>3 DEF Own
<1>8. OnlyDraftsOf(w)
    BY <1>2, <1>4, <1>5, <1>6, <1>7 DEF OnlyDraftsOf, Own, Edit
<1>9. OneChange(w, lastPk')
    <2>1. Own(w)' = Own(w) \cup {lastPk'}
        BY <1>5, <1>6 DEF Own
    <2>2. \A t, u \in Own(w) \ {lastPk'} : Before(t, u)' <=> Before(t, u)
        BY <1>5 DEF Own, Before
    <2> QED
        BY <2>1, <2>2 DEF OneChange, SameOrder
<1> QED
    BY <1>5, <1>8, <1>9 DEF Edit

(* Rows below a bound go up by one, and keep all but their order. *)
LEMMA RaisedRows ==
    ASSUME TypeOK, NEW S \in SUBSET Pk, NEW bound \in 1..MaxOrder
    PROVE  /\ RaisedAbove(S, bound) \in [Pk -> Transaction]
           /\ \A t \in Pk \ S : RaisedAbove(S, bound)[t] = transactions[t]
           /\ \A t \in Pk :
                /\ RaisedAbove(S, bound)[t].workbasket = transactions[t].workbasket
                /\ RaisedAbove(S, bound)[t].object = transactions[t].object
                /\ RaisedAbove(S, bound)[t].partition = transactions[t].partition
           /\ \A t \in S : RaisedAbove(S, bound)[t].order =
                IF transactions[t].order < bound
                THEN transactions[t].order + 1 ELSE transactions[t].order
<1> DEFINE R == RaisedAbove(S, bound)
<1>1. ASSUME NEW t \in Pk
      PROVE  /\ R[t] \in Transaction
             /\ R[t].workbasket = transactions[t].workbasket
             /\ R[t].object = transactions[t].object
             /\ R[t].partition = transactions[t].partition
             /\ t \notin S => R[t] = transactions[t]
             /\ t \in S => R[t].order = IF transactions[t].order < bound
                            THEN transactions[t].order + 1 ELSE transactions[t].order
    BY RowType, BoundAssumption DEF RaisedAbove, Transaction
<1>2. R \in [Pk -> Transaction]
    BY <1>1 DEF RaisedAbove
<1> QED
    BY <1>1, <1>2

(* Rows above a bound go down by one, and keep all but their order. *)
LEMMA LoweredRows ==
    ASSUME TypeOK, NEW S \in SUBSET Pk, NEW bound \in 1..MaxOrder
    PROVE  /\ LoweredBelow(S, bound) \in [Pk -> Transaction]
           /\ \A t \in Pk \ S : LoweredBelow(S, bound)[t] = transactions[t]
           /\ \A t \in Pk :
                /\ LoweredBelow(S, bound)[t].workbasket = transactions[t].workbasket
                /\ LoweredBelow(S, bound)[t].object = transactions[t].object
                /\ LoweredBelow(S, bound)[t].partition = transactions[t].partition
           /\ \A t \in S : LoweredBelow(S, bound)[t].order =
                IF transactions[t].order > bound
                THEN transactions[t].order - 1 ELSE transactions[t].order
<1> DEFINE R == LoweredBelow(S, bound)
<1>1. ASSUME NEW t \in Pk
      PROVE  /\ R[t] \in Transaction
             /\ R[t].workbasket = transactions[t].workbasket
             /\ R[t].object = transactions[t].object
             /\ R[t].partition = transactions[t].partition
             /\ t \notin S => R[t] = transactions[t]
             /\ t \in S => R[t].order = IF transactions[t].order > bound
                            THEN transactions[t].order - 1 ELSE transactions[t].order
    BY RowType, BoundAssumption DEF LoweredBelow, Transaction
<1>2. R \in [Pk -> Transaction]
    BY <1>1 DEF LoweredBelow
<1> QED
    BY <1>1, <1>2

(* The drafts of one workbasket differ in their order.                     *)
LEMMA DraftOrdersDiffer ==
    ASSUME Core, NEW w \in WorkBasket, status[w] \notin ApprovedStatus
    PROVE  \A t, u \in Own(w) : t # u => transactions[t].order # transactions[u].order
BY DraftsOfEdited DEF Core, OrdersDistinct, Own

(* So does ending an object, which puts its transaction first. *)
LEMMA EndObjectStep ==
    ASSUME Core, NEW w \in WorkBasket, NEW o \in Object, EndObject(w, o)
    PROVE  /\ TypeOK' /\ OnlyDraftsOf(w) /\ UNCHANGED versions
           /\ lastPk' \notin Pk /\ OneChange(w, lastPk')
<1>1. PICK n \in NewOrder(w) :
        /\ n <= MaxOrder
        /\ IF Own(w) = {}
           THEN transactions' = Created(transactions, NewRow(w, o, n))
           ELSE \E top \in First(Own(w)) :
                   transactions' = Created(RaisedAbove(Own(w), n),
                                           NewRow(w, o, transactions[top].order))
    BY DEF EndObject
<1>2. status[w] = "EDITING" /\ status[w] \notin ApprovedStatus
    BY DEF EndObject, ApprovedStatus
<1>3. n \in 1..MaxOrder /\ \A t \in Own(w) : transactions[t].order < n
    BY <1>1, <1>2, NewOrderIsLarger, BoundAssumption
<1>4. Own(w) \in SUBSET Pk
    BY DEF Own
<1>5. PICK rows \in [Pk -> Transaction], k \in 1..MaxOrder :
        /\ transactions' = Created(rows, NewRow(w, o, k))
        /\ \A t \in Pk \ Own(w) : rows[t] = transactions[t]
        /\ \A t \in Own(w) : /\ rows[t].workbasket = w
                             /\ rows[t].object = transactions[t].object
                             /\ rows[t].partition = transactions[t].partition
                             /\ rows[t].order = transactions[t].order + 1
                             /\ k <= transactions[t].order
    <2>1. CASE Own(w) = {}
        BY <1>1, <1>3, <2>1 DEF Core, TypeOK
    <2>2. CASE Own(w) # {}
        <3>1. PICK top \in First(Own(w)) :
                transactions' = Created(RaisedAbove(Own(w), n),
                                        NewRow(w, o, transactions[top].order))
            BY <1>1, <2>2
        <3>2. top \in Own(w) /\ \A t \in Own(w) \ {top} : Before(top, t)
            BY <3>1, FirstAndLast DEF Core
        <3>3. transactions[top].order \in 1..MaxOrder
            BY <1>4, <3>2, RowType DEF Core
        <3>4. ASSUME NEW t \in Own(w)
              PROVE  transactions[top].order <= transactions[t].order
            <4>1. transactions[t].order \in Nat /\ transactions[top].order \in Nat
                BY <1>4, <3>2, RowType DEF Core
            <4>2. transactions[t].partition = DRAFT /\ transactions[top].partition = DRAFT
                BY <1>2, <3>2, DraftsOfEdited
            <4> QED
                BY <3>2, <4>1, <4>2 DEF Before, DRAFT
        <3>5. ASSUME NEW t \in Own(w)
              PROVE  /\ RaisedAbove(Own(w), n)[t].workbasket = w
                     /\ RaisedAbove(Own(w), n)[t].object = transactions[t].object
                     /\ RaisedAbove(Own(w), n)[t].partition = transactions[t].partition
                     /\ RaisedAbove(Own(w), n)[t].order = transactions[t].order + 1
            BY <1>3, <1>4, RaisedRows DEF Own, Core
        <3>6. /\ RaisedAbove(Own(w), n) \in [Pk -> Transaction]
              /\ \A t \in Pk \ Own(w) : RaisedAbove(Own(w), n)[t] = transactions[t]
            BY <1>3, <1>4, RaisedRows DEF Core
        <3> QED
            BY <3>1, <3>3, <3>4, <3>5, <3>6
    <2> QED
        BY <2>1, <2>2
<1>6. NewRow(w, o, k) \in Transaction /\ o # Null
    BY ObjectAssumption DEF NewRow, Transaction
<1>7. /\ TypeOK'
      /\ Pk' = Pk \cup {lastPk'} /\ lastPk' \notin Pk
      /\ \A t \in Pk : transactions'[t] = rows[t]
      /\ transactions'[lastPk'] = NewRow(w, o, k)
    BY <1>5, <1>6, CreatedType DEF EndObject, Core
<1>8. /\ transactions'[lastPk'].workbasket = w
      /\ transactions'[lastPk'].object = o
      /\ transactions'[lastPk'].partition = DRAFT
      /\ transactions'[lastPk'].order = k
    BY <1>7 DEF NewRow
<1>9. ASSUME NEW t \in Own(w)', NEW u \in Own(w)', t # u
      PROVE  transactions'[t].order # transactions'[u].order
    <2>1. \A s \in Own(w)' : s = lastPk' \/ s \in Own(w)
        BY <1>5, <1>7 DEF Own
    <2>2. \A s \in Own(w) : /\ transactions[s].order \in Nat
                            /\ transactions'[s].order = transactions[s].order + 1
                            /\ transactions'[s].order > k
        BY <1>4, <1>5, <1>7, RowType DEF Core
    <2>3. CASE t \in Own(w) /\ u \in Own(w)
        <3>1. transactions[t].order # transactions[u].order
            BY <1>2, <1>9, <2>3, DraftOrdersDiffer
        <3> QED
            BY <2>2, <2>3, <3>1
    <2> QED
        BY <1>8, <1>9, <2>1, <2>2, <2>3
<1>10. OnlyDraftsOf(w)
    BY <1>2, <1>5, <1>6, <1>7, <1>8, <1>9 DEF OnlyDraftsOf, Own, EndObject
<1>11. OneChange(w, lastPk')
    <2>1. Own(w)' = Own(w) \cup {lastPk'}
        BY <1>5, <1>7, <1>8 DEF Own
    <2>2. ASSUME NEW t \in Own(w), NEW u \in Own(w)
          PROVE  Before(t, u)' <=> Before(t, u)
        <3>1. \A s \in Own(w) : /\ transactions'[s].partition = transactions[s].partition
                                /\ transactions'[s].order = transactions[s].order + 1
                                /\ transactions[s].order \in Nat
            BY <1>4, <1>5, <1>7, RowType DEF Core
        <3> QED
            BY <3>1 DEF Before
    <2> QED
        BY <2>1, <2>2 DEF OneChange, SameOrder
<1> QED
    BY <1>7, <1>10, <1>11 DEF EndObject

-----------------------------------------------------------------------------
(* Reordering.                                                             *)

(* New orders for the rows of one edited workbasket, all different.        *)
LEMMA ReorderedStep ==
    ASSUME Core, NEW w \in WorkBasket, status[w] = "EDITING",
           transactions' \in [Pk -> Transaction],
           UNCHANGED <<status, lastPk, versions>>,
           \A t \in Pk \ Own(w) : transactions'[t] = transactions[t],
           \A t \in Own(w) : /\ transactions'[t].workbasket = w
                             /\ transactions'[t].object = transactions[t].object
                             /\ transactions'[t].partition = transactions[t].partition,
           \A t, u \in Own(w) : t # u => transactions'[t].order # transactions'[u].order,
           NEW m \in Own(w),
           \A t, u \in Own(w) \ {m} : transactions[t].order < transactions[u].order
                                   => transactions'[t].order < transactions'[u].order
    PROVE  /\ TypeOK' /\ OnlyDraftsOf(w) /\ UNCHANGED versions
           /\ OneChange(w, m)
<1>1. Pk' = Pk
    BY DEF Pk
<1>2. TypeOK'
    BY <1>1 DEF Core, TypeOK, versions
<1>3. Own(w)' = Own(w)
    BY <1>1 DEF Own
<1>4. ASSUME NEW t \in Own(w) \ {m}, NEW u \in Own(w) \ {m}
      PROVE  Before(t, u)' <=> Before(t, u)
    <2>1. \A s \in {t, u} : /\ transactions'[s].partition = DRAFT
                            /\ transactions[s].partition = DRAFT
        BY DraftsOfEdited DEF ApprovedStatus
    <2>2. \A s \in {t, u} : transactions[s].order \in Nat /\ transactions'[s].order \in Nat
        BY BoundAssumption, RowType DEF Core, Own, Transaction
    <2>3. t # u => transactions[t].order # transactions[u].order
        BY DraftOrdersDiffer DEF ApprovedStatus
    <2> QED
        BY <2>1, <2>2, <2>3 DEF Before, DRAFT
<1>5. OneChange(w, m)
    BY <1>3, <1>4 DEF OneChange, SameOrder
<1> QED
    BY <1>1, <1>2, <1>3, <1>5 DEF OnlyDraftsOf

(* A row whose order is set keeps the rest. *)
LEMMA OrderSet ==
    ASSUME NEW rows \in [Pk -> Transaction], NEW t \in Pk, NEW k \in 1..MaxOrder
    PROVE  LET new == [rows EXCEPT ![t].order = k]
           IN  /\ new \in [Pk -> Transaction]
               /\ \A u \in Pk \ {t} : new[u] = rows[u]
               /\ new[t].workbasket = rows[t].workbasket
               /\ new[t].object = rows[t].object
               /\ new[t].partition = rows[t].partition
               /\ new[t].order = k
BY DEF Transaction

(* Promotion to the top permutes the orders of one workbasket. *)
LEMMA PromoteToTopStep ==
    ASSUME Core, NEW t \in Pk, PromoteToTop(t)
    PROVE  LET w == transactions[t].workbasket
           IN  /\ TypeOK' /\ OnlyDraftsOf(w) /\ UNCHANGED versions
               /\ OneChange(w, t)
<1> DEFINE w == transactions[t].workbasket
<1>1. w \in WorkBasket /\ transactions[t].order \in 1..MaxOrder
    BY RowType DEF Core
<1>2. /\ status[w] = "EDITING" /\ status[w] \notin ApprovedStatus
      /\ UNCHANGED <<status, lastPk, versions>>
    BY DEF PromoteToTop, Reorderable, ApprovedStatus
<1>3. Own(w) \in SUBSET Pk /\ t \in Own(w)
    BY DEF Own
<1>4. PICK top \in First(Own(w)) \ {t} :
        transactions' = [RaisedAbove(Own(w), transactions[t].order)
                            EXCEPT ![t].order = transactions[top].order]
    BY DEF PromoteToTop, Siblings
<1>5. top \in Own(w) /\ top # t /\ \A u \in Own(w) \ {top} : Before(top, u)
    BY <1>1, <1>4, FirstAndLast DEF Core
<1>6. \A u \in Own(w) : transactions[u].order \in Nat /\ transactions[u].partition = DRAFT
    BY <1>1, <1>2, <1>3, RowType, DraftsOfEdited DEF Core
<1>7. \A u \in Own(w) : u # top => transactions[top].order < transactions[u].order
    BY <1>5, <1>6 DEF Before, DRAFT
<1> DEFINE R == RaisedAbove(Own(w), transactions[t].order)
<1>8. /\ R \in [Pk -> Transaction]
      /\ \A u \in Pk \ Own(w) : R[u] = transactions[u]
      /\ \A u \in Own(w) :
           /\ R[u].workbasket = w
           /\ R[u].object = transactions[u].object
           /\ R[u].partition = transactions[u].partition
           /\ R[u].order = IF transactions[u].order < transactions[t].order
                           THEN transactions[u].order + 1 ELSE transactions[u].order
    <2>1. \A u \in Own(w) : transactions[u].workbasket = w
        BY DEF Own
    <2> HIDE DEF w
    <2>2. /\ R \in [Pk -> Transaction]
          /\ \A u \in Pk \ Own(w) : R[u] = transactions[u]
          /\ \A u \in Pk :
               /\ R[u].workbasket = transactions[u].workbasket
               /\ R[u].object = transactions[u].object
               /\ R[u].partition = transactions[u].partition
          /\ \A u \in Own(w) : R[u].order =
               IF transactions[u].order < transactions[t].order
               THEN transactions[u].order + 1 ELSE transactions[u].order
        BY <1>1, <1>3, RaisedRows DEF Core
    <2> HIDE DEF R
    <2> QED
        BY <1>3, <2>1, <2>2
<1>9. transactions[top].order \in 1..MaxOrder
    BY <1>3, <1>5, RowType DEF Core
<1> HIDE DEF R
<1>10. /\ transactions' \in [Pk -> Transaction]
       /\ \A u \in Pk \ {t} : transactions'[u] = R[u]
       /\ transactions'[t].workbasket = R[t].workbasket
       /\ transactions'[t].object = R[t].object
       /\ transactions'[t].partition = R[t].partition
       /\ transactions'[t].order = transactions[top].order
    <2>1. transactions' = [R EXCEPT ![t].order = transactions[top].order]
        BY <1>4 DEF R
    <2> QED
        BY <1>8, <1>9, <2>1, OrderSet
<1>11. \A s \in Own(w) \ {t} :
        /\ transactions'[s].order = IF transactions[s].order < transactions[t].order
                                   THEN transactions[s].order + 1
                                   ELSE transactions[s].order
        /\ transactions[s].order # transactions[t].order
        /\ transactions'[s].order > transactions[top].order
    <2> TAKE s \in Own(w) \ {t}
    <2>1. transactions[s].order # transactions[t].order
        BY <1>1, <1>2, <1>3, DraftOrdersDiffer
    <2>2. s = top \/ transactions[top].order < transactions[s].order
        BY <1>7
    <2>3. transactions[top].order < transactions[t].order
        BY <1>3, <1>5, <1>7
    <2>4. transactions'[s] = R[s]
        BY <1>3, <1>10
    <2> QED
        BY <1>3, <1>5, <1>6, <1>8, <2>1, <2>2, <2>3, <2>4
<1>12. ASSUME NEW u \in Own(w), NEW v \in Own(w), u # v
       PROVE  transactions'[u].order # transactions'[v].order
    <2>1. transactions[u].order # transactions[v].order
        BY <1>1, <1>2, <1>12, DraftOrdersDiffer
    <2> HIDE DEF w
    <2> QED
        BY <1>3, <1>6, <1>10, <1>12, <2>1, <1>11
<1>13. \A u, v \in Own(w) \ {t} : transactions[u].order < transactions[v].order
                               => transactions'[u].order < transactions'[v].order
    <2> HIDE DEF w
    <2> QED
        BY <1>3, <1>6, <1>11
<1>14. /\ \A u \in Pk \ Own(w) : transactions'[u] = transactions[u]
       /\ \A u \in Own(w) : /\ transactions'[u].workbasket = w
                            /\ transactions'[u].object = transactions[u].object
                            /\ transactions'[u].partition = transactions[u].partition
    BY <1>3, <1>8, <1>10
<1> HIDE DEF w
<1>15. /\ TypeOK' /\ OnlyDraftsOf(w) /\ UNCHANGED versions
       /\ OneChange(w, t)
    BY <1>1, <1>2, <1>3, <1>10, <1>12, <1>13, <1>14, ReorderedStep
<1> QED
    BY <1>15 DEF w

(* So does demotion to the bottom. *)
LEMMA DemoteToBottomStep ==
    ASSUME Core, NEW t \in Pk, DemoteToBottom(t)
    PROVE  LET w == transactions[t].workbasket
           IN  /\ TypeOK' /\ OnlyDraftsOf(w) /\ UNCHANGED versions
               /\ OneChange(w, t)
<1> DEFINE w == transactions[t].workbasket
<1>1. w \in WorkBasket /\ transactions[t].order \in 1..MaxOrder
    BY RowType DEF Core
<1>2. /\ status[w] = "EDITING" /\ status[w] \notin ApprovedStatus
      /\ UNCHANGED <<status, lastPk, versions>>
    BY DEF DemoteToBottom, Reorderable, ApprovedStatus
<1>3. Own(w) \in SUBSET Pk /\ t \in Own(w)
    BY DEF Own
<1>4. PICK bottom \in Last(Own(w)) \ {t} :
        transactions' = [LoweredBelow(Own(w), transactions[t].order)
                            EXCEPT ![t].order = transactions[bottom].order]
    BY DEF DemoteToBottom, Siblings
<1>5. bottom \in Own(w) /\ bottom # t /\ \A u \in Own(w) \ {bottom} : Before(u, bottom)
    BY <1>1, <1>4, FirstAndLast DEF Core
<1>6. \A u \in Own(w) : transactions[u].order \in Nat /\ transactions[u].partition = DRAFT
    BY <1>1, <1>2, <1>3, RowType, DraftsOfEdited DEF Core
<1>7. \A u \in Own(w) : u # bottom => transactions[bottom].order > transactions[u].order
    BY <1>5, <1>6 DEF Before, DRAFT
<1> DEFINE R == LoweredBelow(Own(w), transactions[t].order)
<1>8. /\ R \in [Pk -> Transaction]
      /\ \A u \in Pk \ Own(w) : R[u] = transactions[u]
      /\ \A u \in Own(w) :
           /\ R[u].workbasket = w
           /\ R[u].object = transactions[u].object
           /\ R[u].partition = transactions[u].partition
           /\ R[u].order = IF transactions[u].order > transactions[t].order
                           THEN transactions[u].order - 1 ELSE transactions[u].order
    <2>1. \A u \in Own(w) : transactions[u].workbasket = w
        BY DEF Own
    <2> HIDE DEF w
    <2> QED
        BY <1>1, <1>3, <2>1, LoweredRows DEF Core
<1>9. transactions[bottom].order \in 1..MaxOrder
    BY <1>3, <1>5, RowType DEF Core
<1> HIDE DEF R
<1>10. /\ transactions' \in [Pk -> Transaction]
       /\ \A u \in Pk \ {t} : transactions'[u] = R[u]
       /\ transactions'[t].workbasket = R[t].workbasket
       /\ transactions'[t].object = R[t].object
       /\ transactions'[t].partition = R[t].partition
       /\ transactions'[t].order = transactions[bottom].order
    <2>1. transactions' = [R EXCEPT ![t].order = transactions[bottom].order]
        BY <1>4 DEF R
    <2> QED
        BY <1>8, <1>9, <2>1, OrderSet
<1>11. \A s \in Own(w) \ {t} :
        /\ transactions'[s].order = IF transactions[s].order > transactions[t].order
                                   THEN transactions[s].order - 1
                                   ELSE transactions[s].order
        /\ transactions[s].order # transactions[t].order
        /\ transactions'[s].order < transactions[bottom].order
    <2> TAKE s \in Own(w) \ {t}
    <2>1. transactions[s].order # transactions[t].order
        BY <1>1, <1>2, <1>3, DraftOrdersDiffer
    <2>2. s = bottom \/ transactions[bottom].order > transactions[s].order
        BY <1>7
    <2>3. transactions[bottom].order > transactions[t].order
        BY <1>3, <1>5, <1>7
    <2>4. transactions'[s] = R[s]
        BY <1>3, <1>10
    <2> QED
        BY <1>3, <1>5, <1>6, <1>8, <2>1, <2>2, <2>3, <2>4
<1>12. ASSUME NEW u \in Own(w), NEW v \in Own(w), u # v
       PROVE  transactions'[u].order # transactions'[v].order
    <2>1. transactions[u].order # transactions[v].order
        BY <1>1, <1>2, <1>12, DraftOrdersDiffer
    <2> HIDE DEF w
    <2> QED
        BY <1>3, <1>6, <1>10, <1>12, <2>1, <1>11
<1>13. \A u, v \in Own(w) \ {t} : transactions[u].order < transactions[v].order
                               => transactions'[u].order < transactions'[v].order
    <2> HIDE DEF w
    <2> QED
        BY <1>3, <1>6, <1>11
<1>14. /\ \A u \in Pk \ Own(w) : transactions'[u] = transactions[u]
       /\ \A u \in Own(w) : /\ transactions'[u].workbasket = w
                            /\ transactions'[u].object = transactions[u].object
                            /\ transactions'[u].partition = transactions[u].partition
    BY <1>3, <1>8, <1>10
<1> HIDE DEF w
<1>15. /\ TypeOK' /\ OnlyDraftsOf(w) /\ UNCHANGED versions
       /\ OneChange(w, t)
    BY <1>1, <1>2, <1>3, <1>10, <1>12, <1>13, <1>14, ReorderedStep
<1> QED
    BY <1>15 DEF w

(* So does the swap of two neighbours. *)
LEMMA SwapStep ==
    ASSUME Core, NEW w \in WorkBasket, NEW t \in Own(w), NEW u \in Own(w), t # u,
           status[w] = "EDITING", transactions' = Swapped(t, u),
           UNCHANGED <<status, lastPk, versions>>,
           \A s \in Own(w) \ {t, u} : transactions[s].order < transactions[t].order
                                   <=> transactions[s].order < transactions[u].order
    PROVE  /\ TypeOK' /\ OnlyDraftsOf(w) /\ UNCHANGED versions
           /\ OneChange(w, t)
<1>1. Own(w) \in SUBSET Pk /\ t \in Pk /\ u \in Pk
    BY DEF Own
<1>2. transactions \in [Pk -> Transaction]
    BY DEF Core, TypeOK
<1>3. transactions[t].order \in 1..MaxOrder /\ transactions[u].order \in 1..MaxOrder
    BY <1>1, RowType DEF Core
<1> DEFINE R == [transactions EXCEPT ![t].order = transactions[u].order]
<1>4. /\ R \in [Pk -> Transaction]
      /\ \A s \in Pk \ {t} : R[s] = transactions[s]
      /\ R[t].workbasket = transactions[t].workbasket
      /\ R[t].object = transactions[t].object
      /\ R[t].partition = transactions[t].partition
      /\ R[t].order = transactions[u].order
    BY <1>1, <1>2, <1>3, OrderSet
<1>5. transactions' = [R EXCEPT ![u].order = transactions[t].order]
    BY <1>1, <1>2 DEF Swapped
<1> HIDE DEF R
<1>6. /\ transactions' \in [Pk -> Transaction]
      /\ \A s \in Pk \ {u} : transactions'[s] = R[s]
      /\ transactions'[u].workbasket = R[u].workbasket
      /\ transactions'[u].object = R[u].object
      /\ transactions'[u].partition = R[u].partition
      /\ transactions'[u].order = transactions[t].order
    BY <1>1, <1>3, <1>4, <1>5, OrderSet
<1>7. \A s \in Pk \ {t, u} : transactions'[s] = transactions[s]
    BY <1>4, <1>6
<1>8. /\ transactions'[t].order = transactions[u].order
      /\ transactions'[u].order = transactions[t].order
      /\ \A s \in Own(w) : /\ transactions'[s].workbasket = w
                           /\ transactions'[s].object = transactions[s].object
                           /\ transactions'[s].partition = transactions[s].partition
    BY <1>1, <1>4, <1>6, <1>7 DEF Own
<1>9. \A r, s \in Own(w) : r # s => transactions'[r].order # transactions'[s].order
    <2>1. \A r, s \in Own(w) : r # s => transactions[r].order # transactions[s].order
        BY DraftOrdersDiffer DEF ApprovedStatus
    <2> QED
        BY <1>1, <1>7, <1>8, <2>1
<1>10. ASSUME NEW r \in Own(w) \ {t}, NEW s \in Own(w) \ {t},
              transactions[r].order < transactions[s].order
       PROVE  transactions'[r].order < transactions'[s].order
    <2>1. \A v \in Own(w) : transactions[v].order \in Nat
        BY <1>1, RowType DEF Core
    <2>2. \A v \in Own(w) \ {t} : transactions[v].order # transactions[t].order
        BY DraftOrdersDiffer DEF ApprovedStatus
    <2>3. \A v \in Own(w) \ {t, u} : transactions'[v].order = transactions[v].order
        BY <1>1, <1>7
    <2>4. r # s
        BY <1>10, <2>1
    <2>5. CASE r = u
        BY <1>8, <1>10, <2>1, <2>2, <2>3, <2>4, <2>5
    <2>6. CASE s = u
        BY <1>8, <1>10, <2>1, <2>2, <2>3, <2>4, <2>6
    <2>7. CASE r # u /\ s # u
        BY <1>10, <2>3, <2>7
    <2> QED
        BY <2>5, <2>6, <2>7
<1> QED
    BY <1>1, <1>6, <1>7, <1>8, <1>9, <1>10, ReorderedStep

(* Promotion and demotion by one are such swaps. *)
LEMMA PromoteStep ==
    ASSUME Core, NEW t \in Pk, Promote(t) \/ Demote(t)
    PROVE  LET w == transactions[t].workbasket
           IN  /\ TypeOK' /\ OnlyDraftsOf(w) /\ UNCHANGED versions
               /\ OneChange(w, t)
<1> DEFINE w == transactions[t].workbasket
<1>1. w \in WorkBasket /\ t \in Own(w)
    BY RowType DEF Core, Own
<1>2. status[w] = "EDITING" /\ UNCHANGED <<status, lastPk, versions>>
    BY DEF Promote, Demote, Reorderable
<1>3. \A s \in Own(w) : transactions[s].order \in Nat /\ transactions[s].partition = DRAFT
    BY <1>1, <1>2, RowType, DraftsOfEdited DEF Core, Own, ApprovedStatus
<1>4. PICK u \in Own(w) \ {t} :
        /\ transactions' = Swapped(t, u)
        /\ \A s \in Own(w) \ {t, u} : transactions[s].order < transactions[t].order
                                   <=> transactions[s].order < transactions[u].order
    <2>1. CASE Promote(t)
        <3> DEFINE Lower == {s \in Own(w) : transactions[s].order < transactions[t].order}
        <3>1. PICK u \in Last(Lower) : transactions' = Swapped(t, u)
            BY <2>1 DEF Promote, Siblings
        <3>2. u \in Lower /\ \A s \in Lower \ {u} : Before(s, u)
            BY <1>1, <3>1, FirstAndLast DEF Core
        <3>3. u \in Own(w) \ {t} /\ \A s \in Lower \ {u} : transactions[s].order < transactions[u].order
            BY <1>1, <1>3, <3>2 DEF Before, DRAFT
        <3>4. \A s \in Own(w) \ {t, u} : transactions[s].order < transactions[t].order
                                    <=> transactions[s].order < transactions[u].order
            <4> HIDE DEF w
            <4> QED
                BY <1>1, <1>3, <3>2, <3>3
        <3> QED
            BY <3>1, <3>3, <3>4
    <2>2. CASE Demote(t)
        <3> DEFINE Higher == {s \in Own(w) : transactions[s].order > transactions[t].order}
        <3>1. PICK u \in First(Higher) : transactions' = Swapped(t, u)
            BY <2>2 DEF Demote, Siblings
        <3>2. u \in Higher /\ \A s \in Higher \ {u} : Before(u, s)
            BY <1>1, <3>1, FirstAndLast DEF Core
        <3>3. u \in Own(w) \ {t} /\ \A s \in Higher \ {u} : transactions[u].order < transactions[s].order
            BY <1>1, <1>3, <3>2 DEF Before, DRAFT
        <3>4. \A s \in Own(w) \ {t} : transactions[s].order # transactions[t].order
            BY <1>1, <1>2, DraftOrdersDiffer DEF ApprovedStatus
        <3>5. \A s \in Own(w) \ {t, u} : transactions[s].order < transactions[t].order
                                    <=> transactions[s].order < transactions[u].order
            <4> HIDE DEF w
            <4> QED
                BY <1>1, <1>3, <3>2, <3>3, <3>4
        <3> QED
            BY <3>1, <3>3, <3>5
    <2> QED
        BY <2>1, <2>2
<1> HIDE DEF w
<1>5. /\ TypeOK' /\ OnlyDraftsOf(w) /\ UNCHANGED versions
      /\ OneChange(w, t)
    BY <1>1, <1>2, <1>4, SwapStep
<1> QED
    BY <1>5 DEF w

(* No draft of a workbasket that is being edited is a current version.     *)
LEMMA CurrentIsNoDraft ==
    ASSUME Core, CurrentIsApproved, NEW w \in WorkBasket, status[w] \notin ApprovedStatus
    PROVE  \A o \in Object : currentVersion[o] \notin Own(w)
<1> TAKE o \in Object
<1>1. Own(w) \cap Approved = {}
    BY DraftsOfEdited
<1>2. currentVersion[o] = Null \/ currentVersion[o] \in Approved
    BY DEF CurrentIsApproved, VersionsOf
<1>3. Null \notin Own(w)
    BY RowType DEF Core, Own
<1> QED
    BY <1>1, <1>2, <1>3

(* Deleting from a workbasket that is being edited removes drafts. *)
LEMMA DeleteChangesStep ==
    ASSUME Core, CurrentIsApproved, NEW w \in WorkBasket,
           DeleteChanges(w), status[w] = "EDITING"
    PROVE  /\ TypeOK' /\ OnlyDraftsOf(w) /\ UNCHANGED versions
           /\ \E S \in SUBSET Own(w) : Own(w)' = Own(w) \ S /\ SameOrder(Own(w) \ S)
<1>1. PICK T \in SUBSET (Own(w) \ Empty) :
        /\ transactions' = Purged(T \cup (Own(w) \cap Empty))
        /\ currentVersion' = [o \in Object |-> IF currentVersion[o] \in T
                                               THEN Null ELSE currentVersion[o]]
        /\ bereft' = bereft \cup {o \in Object : currentVersion[o] \in T}
    BY DEF DeleteChanges
<1> DEFINE S == T \cup (Own(w) \cap Empty)
<1>2. /\ S \in SUBSET Own(w) /\ Own(w) \in SUBSET Pk
      /\ Pk' = Pk \ S /\ \A t \in Pk' : transactions'[t] = transactions[t]
    BY <1>1 DEF Pk, Own, Purged
<1>3. /\ lastPk' = lastPk /\ status' = status /\ status[w] \notin ApprovedStatus
    BY DEF DeleteChanges, ApprovedStatus
<1>4. \A o \in Object : currentVersion[o] \notin Own(w)
    BY <1>3, CurrentIsNoDraft
<1>5. UNCHANGED versions
    <2>1. currentVersion = [o \in Object |-> currentVersion[o]]
        BY DEF Core, TypeOK
    <2>2. currentVersion' = currentVersion
        BY <1>1, <1>4, <2>1
    <2>3. bereft' = bereft
        BY <1>1, <1>4
    <2> QED
        BY <2>2, <2>3 DEF versions
<1>6. TypeOK'
    <2>1. transactions' \in [Pk' -> Transaction]
        BY <1>1, <1>2 DEF Core, TypeOK, Purged, Pk
    <2>2. currentVersion' \in [Object -> Pk' \cup {Null}]
        BY <1>2, <1>4, <1>5 DEF Core, TypeOK, versions
    <2> QED
        BY <1>2, <1>3, <1>5, <2>1, <2>2 DEF Core, TypeOK, versions
<1> HIDE DEF S
<1>7. \A t, u \in Own(w)' : t # u => transactions'[t].order # transactions'[u].order
    <2>1. \A t \in Own(w)' : t \in Own(w) /\ transactions'[t] = transactions[t]
        BY <1>2 DEF Own
    <2> QED
        BY <1>3, <2>1, DraftOrdersDiffer
<1>8. OnlyDraftsOf(w)
    BY <1>2, <1>3, <1>7 DEF OnlyDraftsOf, Own
<1>9. Own(w)' = Own(w) \ S /\ SameOrder(Own(w) \ S)
    <2>1. \A t \in Own(w) \ S : t \in Pk' /\ transactions'[t] = transactions[t]
        BY <1>2 DEF Own
    <2>2. Own(w)' = Own(w) \ S
        BY <1>2, <2>1 DEF Own
    <2> QED
        BY <2>1, <2>2 DEF SameOrder, Before
<1> QED
    BY <1>2, <1>5, <1>6, <1>8, <1>9

(* What a deletion by hand leaves of a workbasket that is not being edited *)
(* any more: all rows in their places, those of S empty.                   *)
Voids(S) ==
    /\ Pk' = Pk /\ status' = status
    /\ \A t \in Pk :
           /\ transactions'[t].workbasket = transactions[t].workbasket
           /\ transactions'[t].partition = transactions[t].partition
           /\ transactions'[t].order = transactions[t].order
           /\ transactions'[t].object = IF t \in S THEN Null ELSE transactions[t].object
    /\ \A o \in Object :
           IF currentVersion[o] \in S THEN currentVersion'[o] = Null /\ o \in bereft'
           ELSE /\ currentVersion'[o] = currentVersion[o]
                /\ o \in bereft => o \in bereft'

(* That is all it does there. *)
LEMMA VoidStep ==
    ASSUME Core, NEW w \in WorkBasket, DeleteChanges(w), status[w] # "EDITING"
    PROVE  Core' /\ \E S \in SUBSET Own(w) : Voids(S)
<1>1. PICK S \in SUBSET (Own(w) \ Empty) :
        /\ transactions' = Emptied(S)
        /\ currentVersion' = [o \in Object |-> IF currentVersion[o] \in S
                                               THEN Null ELSE currentVersion[o]]
        /\ bereft' = bereft \cup {o \in Object : currentVersion[o] \in S}
    BY DEF DeleteChanges
<1>2. Pk' = Pk /\ status' = status /\ lastPk' = lastPk
    BY <1>1 DEF Pk, Emptied, DeleteChanges
<1>3. ASSUME NEW t \in Pk
      PROVE  /\ transactions'[t] \in Transaction
             /\ transactions'[t].workbasket = transactions[t].workbasket
             /\ transactions'[t].partition = transactions[t].partition
             /\ transactions'[t].order = transactions[t].order
             /\ transactions'[t].object = IF t \in S THEN Null ELSE transactions[t].object
    <2>1. transactions[t] \in Transaction
        BY RowType DEF Core
    <2>2. transactions'[t] = IF t \in S THEN [transactions[t] EXCEPT !.object = Null]
                             ELSE transactions[t]
        BY <1>1 DEF Emptied
    <2> QED
        BY <2>1, <2>2 DEF Transaction
<1>4. TypeOK'
    <2>1. transactions' \in [Pk' -> Transaction]
        BY <1>1, <1>2, <1>3 DEF Emptied
    <2>2. currentVersion' \in [Object -> Pk' \cup {Null}]
        BY <1>1, <1>2 DEF Core, TypeOK
    <2>3. bereft' \subseteq Object
        BY <1>1 DEF Core, TypeOK
    <2> QED
        BY <1>2, <2>1, <2>2, <2>3 DEF Core, TypeOK
<1>5. OrdersDistinct' /\ PartitionFollowsStatus'
    BY <1>2, <1>3 DEF Core, OrdersDistinct, PartitionFollowsStatus, IsApproved
<1>6. Voids(S)
    BY <1>1, <1>2, <1>3 DEF Voids
<1> QED
    BY <1>4, <1>5, <1>6 DEF Core

-----------------------------------------------------------------------------
(* Moving a workbasket between partitions.                                 *)

(* The rows of w go to the end of a partition and keep their order; all    *)
(* other rows stay as they are.                                            *)
MovedToEnd(w, partition) ==
    /\ transactions' \in [Pk -> Transaction]
    /\ \A t \in Pk \ Own(w) : transactions'[t] = transactions[t]
    /\ \A t \in Own(w) : /\ transactions'[t].workbasket = w
                         /\ transactions'[t].object = transactions[t].object
                         /\ transactions'[t].partition = partition
    /\ \A t \in Own(w), u \in Pk \ Own(w) :
           transactions[u].partition = partition
           => transactions'[u].order < transactions'[t].order
    /\ \A t, u \in Own(w) :
           /\ Before(t, u) => transactions'[t].order < transactions'[u].order
           /\ t # u => transactions'[t].order # transactions'[u].order

(* All a move leaves as it was.                                            *)
OnlyMoves(w) ==
    /\ Pk' = Pk /\ Own(w)' = Own(w)
    /\ \A t \in Pk \ Own(w) : transactions'[t] = transactions[t]
    /\ SameOrder(Own(w))

(* Transactions that change partition come after all that are there. *)
LEMMA MoveToEndStep ==
    ASSUME Core, NEW w \in WorkBasket,
           NEW partition \in {SEED_FILE, REVISION, DRAFT},
           MoveToEnd(Own(w), partition)
    PROVE  MovedToEnd(w, partition)
<1> DEFINE S == Own(w)
           There == {t \in Pk \ S : transactions[t].partition = partition}
<1>1. S \in SUBSET Pk /\ There \in SUBSET Pk
    BY DEF Own
<1>2. PICK end \in LastOrder(There) :
        /\ end + Cardinality(S) <= MaxOrder
        /\ transactions' =
               [t \in Pk |-> IF t \in S
                             THEN [transactions[t] EXCEPT !.partition = partition,
                                                          !.order = end + Rank(t, S)]
                             ELSE transactions[t]]
    BY DEF MoveToEnd
<1>3. end \in Nat
    <2>1. end \in LastOrder(There)
        BY <1>2
    <2> HIDE DEF There
    <2>2. end \in 0..MaxOrder
        BY <1>1, <2>1, LastOrderBounds DEF Core
    <2> QED
        BY <2>2, BoundAssumption
<1>4. \A u \in There : transactions[u].order <= end /\ transactions[u].order \in Nat
    BY <1>1, <1>2, LastOrderBounds, RowType DEF Core
<1>5. /\ \A t \in S : Rank(t, S) \in 1..Cardinality(S)
      /\ \A t, u \in S : Before(t, u) => Rank(t, S) < Rank(u, S)
      /\ Cardinality(S) \in Nat
    BY <1>1, RankGrows, PkFinite DEF Core
<1>6. \A t \in S : /\ end + Rank(t, S) \in 1..MaxOrder
                   /\ end + Rank(t, S) > end
                   /\ Rank(t, S) \in Nat
    <2> TAKE t \in S
    <2>1. Rank(t, S) \in 1..Cardinality(S) /\ Cardinality(S) \in Nat
        BY <1>5
    <2>2. end + Cardinality(S) <= MaxOrder
        BY <1>2
    <2> HIDE DEF S
    <2> QED
        BY <1>3, <2>1, <2>2, BoundAssumption
<1>7. ASSUME NEW t \in S
      PROVE  /\ transactions'[t] \in Transaction
             /\ transactions'[t].workbasket = w
             /\ transactions'[t].object = transactions[t].object
             /\ transactions'[t].partition = partition
             /\ transactions'[t].order = end + Rank(t, S)
    <2>1. t \in Pk /\ transactions[t] \in Transaction /\ transactions[t].workbasket = w
        BY RowType DEF Core, Own
    <2>2. transactions'[t] = [transactions[t] EXCEPT !.partition = partition,
                                                    !.order = end + Rank(t, S)]
        BY <1>2, <2>1
    <2>3. end + Rank(t, S) \in 1..MaxOrder
        BY <1>6
    <2> HIDE DEF S
    <2> QED
        BY <2>1, <2>2, <2>3 DEF Transaction
<1>8. \A t \in Pk \ S : transactions'[t] = transactions[t]
    BY <1>2
<1>9. transactions' \in [Pk -> Transaction]
    <2>1. \A t \in Pk : transactions'[t] \in Transaction
        BY <1>7, <1>8, RowType DEF Core
    <2>2. transactions' = [t \in Pk |-> transactions'[t]]
        BY <1>2
    <2> QED
        BY <2>1, <2>2
<1>10. \A t \in S, u \in Pk \ S :
          transactions[u].partition = partition
          => transactions'[u].order < transactions'[t].order
    BY <1>3, <1>4, <1>6, <1>7, <1>8
<1>11. \A t, u \in S : Before(t, u) => transactions'[t].order < transactions'[u].order
    BY <1>3, <1>5, <1>6, <1>7
<1>12. \A t, u \in S : t # u => transactions'[t].order # transactions'[u].order
    <2>1. \A t, u \in S : t # u => Before(t, u) \/ Before(u, t)
        BY <1>1, BeforeIsTotal DEF Core
    <2>2. \A t \in S : transactions'[t].order \in Nat
        BY <1>3, <1>6, <1>7
    <2> QED
        BY <1>11, <2>1, <2>2
<1> QED
    BY <1>7, <1>8, <1>9, <1>10, <1>11, <1>12 DEF MovedToEnd

(* Moving a workbasket with the change of its status. *)
LEMMA MovingKeepsOrder ==
    ASSUME Core, NEW w \in WorkBasket,
           NEW partition \in {SEED_FILE, REVISION, DRAFT},
           MovedToEnd(w, partition),
           NEW new \in Status, status' = [status EXCEPT ![w] = new],
           new \in ApprovedStatus <=> partition # DRAFT,
           lastPk' = lastPk, currentVersion' \in [Object -> Pk \cup {Null}],
           bereft' \subseteq Object
    PROVE  Core' /\ OnlyMoves(w)
<1>1. Pk' = Pk
    BY DEF MovedToEnd, Pk
<1>2. TypeOK'
    BY <1>1 DEF Core, TypeOK, MovedToEnd
<1>3. Own(w)' = Own(w)
    BY <1>1 DEF Own, MovedToEnd
<1>4. OrdersDistinct'
    <2> SUFFICES ASSUME NEW t \in Pk, NEW u \in Pk, t # u,
                        transactions'[t].partition = transactions'[u].partition,
                        \/ IsApproved(t)'
                        \/ transactions'[t].workbasket = transactions'[u].workbasket
                 PROVE  transactions'[t].order # transactions'[u].order
        BY <1>1 DEF OrdersDistinct
    <2>1. /\ transactions'[t].order \in Nat
          /\ transactions'[u].order \in Nat
        BY BoundAssumption DEF MovedToEnd, Transaction
    <2>2. CASE t \in Own(w) /\ u \in Own(w)
        BY <2>2 DEF MovedToEnd
    <2>3. CASE t \in Own(w) /\ u \notin Own(w)
        BY <2>1, <2>3 DEF MovedToEnd
    <2>4. CASE t \notin Own(w) /\ u \in Own(w)
        BY <2>1, <2>4 DEF MovedToEnd
    <2>5. CASE t \notin Own(w) /\ u \notin Own(w)
        BY <2>5 DEF MovedToEnd, Core, OrdersDistinct, IsApproved
    <2> QED
        BY <2>2, <2>3, <2>4, <2>5
<1>5. PartitionFollowsStatus'
    <2> SUFFICES ASSUME NEW t \in Pk
                 PROVE  IsApproved(t)' <=> status'[transactions'[t].workbasket] \in ApprovedStatus
        BY <1>1 DEF PartitionFollowsStatus
    <2>1. status \in [WorkBasket -> Status]
        BY DEF Core, TypeOK
    <2>2. CASE t \in Own(w)
        BY <2>1, <2>2 DEF MovedToEnd, IsApproved
    <2>3. CASE t \notin Own(w)
        <3>1. transactions'[t] = transactions[t] /\ transactions[t].workbasket # w
            BY <2>3 DEF MovedToEnd, Own
        <3>2. transactions[t].workbasket \in WorkBasket
            BY RowType DEF Core
        <3> QED
            BY <2>1, <3>1, <3>2 DEF Core, PartitionFollowsStatus, IsApproved
    <2> QED
        BY <2>2, <2>3
<1>6. SameOrder(Own(w))
    <2> SUFFICES ASSUME NEW t \in Own(w), NEW u \in Own(w)
                 PROVE  Before(t, u)' <=> Before(t, u)
        BY DEF SameOrder
    <2>1. t # u => Before(t, u) \/ Before(u, t)
        BY BeforeIsTotal DEF Core, Own
    <2>2. ~Before(t, t)
        BY BeforeIsStrict DEF Core, Own
    <2>3. \A r, s \in {t, u} : /\ Before(r, s) => transactions'[r].order < transactions'[s].order
                             /\ transactions'[r].partition = transactions'[s].partition
                             /\ transactions'[r].order \in Nat
                             /\ transactions'[r].partition \in Nat
        BY BoundAssumption DEF MovedToEnd, Transaction, Own, SEED_FILE, REVISION, DRAFT
    <2> QED
        BY <2>1, <2>2, <2>3 DEF Before
<1>7. OnlyMoves(w)
    BY <1>1, <1>3, <1>6 DEF OnlyMoves, MovedToEnd
<1> QED
    BY <1>2, <1>4, <1>5, <1>7 DEF Core

(* A change of status alone.                                               *)
LEMMA StatusKeepsOrder ==
    ASSUME Core, NEW w \in WorkBasket, NEW new \in Status,
           status' = [status EXCEPT ![w] = new],
           UNCHANGED <<transactions, lastPk, versions>>,
           Own(w) = {} \/ (new \in ApprovedStatus <=> status[w] \in ApprovedStatus)
    PROVE  Core'
<1>1. Pk' = Pk /\ status \in [WorkBasket -> Status]
    BY DEF Pk, Core, TypeOK
<1>2. TypeOK'
    BY <1>1 DEF Core, TypeOK, versions
<1>3. OrdersDistinct'
    BY <1>1 DEF Core, OrdersDistinct, IsApproved
<1>4. PartitionFollowsStatus'
    <2> SUFFICES ASSUME NEW t \in Pk
                 PROVE  IsApproved(t)' <=> status'[transactions'[t].workbasket] \in ApprovedStatus
        BY <1>1 DEF PartitionFollowsStatus
    <2>1. IsApproved(t) <=> status[transactions[t].workbasket] \in ApprovedStatus
        BY DEF Core, PartitionFollowsStatus
    <2>2. transactions[t].workbasket = w => t \in Own(w)
        BY DEF Own
    <2>3. transactions[t].workbasket \in WorkBasket
        BY RowType DEF Core
    <2> QED
        BY <1>1, <2>1, <2>2, <2>3 DEF IsApproved
<1> QED
    BY <1>2, <1>3, <1>4 DEF Core

(* Approval goes to an approved partition behind everything approved.      *)
LEMMA ApprovedPartitionIsLast ==
    ASSUME Core, NEW partition \in ApprovedPartition
    PROVE  /\ partition \in {SEED_FILE, REVISION} /\ partition # DRAFT
           /\ \A t \in Approved : transactions[t].partition <= partition
<1>1. \A t \in Approved : /\ transactions[t].partition \in {SEED_FILE, REVISION}
                         /\ status[transactions[t].workbasket] \in ApprovedStatus
                         /\ transactions[t].workbasket \in WorkBasket
    BY RowType DEF Core, PartitionFollowsStatus, Approved, IsApproved
<1>2. CASE Scheme = "SEED_FIRST"
    BY <1>1, <1>2 DEF ApprovedPartition, SEED_FILE, REVISION, DRAFT
<1>3. CASE Scheme = "SEED_ONLY"
    BY <1>1, <1>3 DEF ApprovedPartition, SEED_FILE, REVISION, DRAFT, Approved
<1>4. CASE Scheme = "REVISION_ONLY"
    BY <1>1, <1>4 DEF ApprovedPartition, SEED_FILE, REVISION, DRAFT
<1> QED
    BY <1>2, <1>3, <1>4, SchemeAssumption

(* The newest version is a row, or there is none. *)
LEMMA NewestType ==
    ASSUME TypeOK, NEW S \in SUBSET Pk
    PROVE  Newest(S) \in Pk \cup {Null}
<1>1. CASE S = {}
    BY <1>1 DEF Newest
<1>2. CASE S # {}
    BY <1>2, NewestIsNewest
<1> QED
    BY <1>1, <1>2

(* A queued workbasket: its rows become the end of the history.            *)
LEMMA QueueStep ==
    ASSUME Core, NEW w \in WorkBasket, Queue(w), Own(w) # {}
    PROVE  /\ Core' /\ Pk' = Pk /\ OnlyMoves(w)
           /\ currentVersion' = Saved(w)
           /\ bereft' = bereft \ ObjectsIn(Own(w))
           /\ Own(w) \cap Approved = {}
           /\ Approved' = Approved \cup Own(w)
           /\ \A t \in Approved : transactions'[t] = transactions[t]
           /\ \A t \in Pk : transactions'[t].object = transactions[t].object
           /\ \A t \in Approved, u \in Own(w) : Before(t, u)'
<1>1. /\ Own(w) \cap Approved = {} /\ currentVersion' = Saved(w) /\ lastPk' = lastPk
      /\ bereft' = bereft \ ObjectsIn(Own(w)) /\ bereft' \subseteq Object
      /\ status' = [status EXCEPT ![w] = "QUEUED"]
    BY DEF Queue, Core, TypeOK
<1>2. PICK partition \in ApprovedPartition : MoveToEnd(Own(w), partition)
    BY DEF Queue
<1>3. /\ partition \in {SEED_FILE, REVISION, DRAFT} /\ partition # DRAFT
      /\ \A t \in Approved : transactions[t].partition <= partition
    BY ApprovedPartitionIsLast
<1>4. MovedToEnd(w, partition)
    BY <1>2, <1>3, MoveToEndStep
<1>5. Saved(w) \in [Object -> Pk \cup {Null}]
    <2>1. ASSUME NEW o \in Object PROVE Newest(VersionsOf(o, Own(w))) \in Pk \cup {Null}
        <3>1. VersionsOf(o, Own(w)) \in SUBSET Pk
            BY DEF VersionsOf, Own
        <3> QED
            BY <3>1, NewestType DEF Core
    <2> QED
        BY <2>1 DEF Saved, Core, TypeOK
<1>6. Core' /\ Pk' = Pk /\ OnlyMoves(w)
    BY <1>1, <1>3, <1>4, <1>5, MovingKeepsOrder DEF Status, ApprovedStatus, OnlyMoves
<1>7. Approved' = Approved \cup Own(w)
    BY <1>1, <1>3, <1>4, <1>6 DEF Approved, IsApproved, MovedToEnd, Own
<1>8. \A t \in Approved : t \in Pk \ Own(w) /\ transactions'[t] = transactions[t]
    BY <1>1, <1>4 DEF Approved, MovedToEnd
<1>9. \A t \in Pk : transactions'[t].object = transactions[t].object
    BY <1>4 DEF MovedToEnd
<1>10. ASSUME NEW t \in Approved, NEW u \in Own(w) PROVE Before(t, u)'
    <2>1. transactions'[u].partition = partition /\ transactions'[t] = transactions[t]
        BY <1>4, <1>8 DEF MovedToEnd
    <2>2. transactions[t].partition = partition
          => transactions'[t].order < transactions'[u].order
        BY <1>4, <1>8 DEF MovedToEnd
    <2>3. transactions[t].partition <= partition /\ transactions[t].partition \in 1..3
        BY <1>3, RowType DEF Core, Approved
    <2>4. partition \in 1..3
        BY <1>3 DEF SEED_FILE, REVISION, DRAFT
    <2> QED
        BY <2>1, <2>2, <2>3, <2>4 DEF Before
<1> QED
    BY <1>1, <1>6, <1>7, <1>8, <1>9, <1>10

(* A workbasket that returns to draft: its rows leave the history.         *)
LEMMA MoveToDraftStep ==
    ASSUME Core, NEW w \in WorkBasket, MoveToDraft(w), Own(w) # {},
           NEW new \in {"EDITING", "ERRORED"},
           status' = [status EXCEPT ![w] = new], lastPk' = lastPk
    PROVE  /\ Core' /\ Pk' = Pk /\ OnlyMoves(w)
           /\ currentVersion' = Reverted(w)
           /\ bereft' = bereft \ ObjectsIn(Own(w))
           /\ Approved' = Approved \ Own(w)
           /\ \A t \in Approved' : transactions'[t] = transactions[t]
           /\ \A t \in Pk : transactions'[t].object = transactions[t].object
<1>1. /\ Own(w) \subseteq Approved /\ currentVersion' = Reverted(w)
      /\ bereft' = bereft \ ObjectsIn(Own(w)) /\ bereft' \subseteq Object
      /\ MoveToEnd(Own(w), DRAFT)
    BY DEF MoveToDraft, Core, TypeOK
<1>2. MovedToEnd(w, DRAFT)
    BY <1>1, MoveToEndStep
<1>3. Reverted(w) \in [Object -> Pk \cup {Null}]
    <2>1. ASSUME NEW o \in Object
          PROVE  Newest(VersionsOf(o, Approved \ Own(w))) \in Pk \cup {Null}
        <3>1. VersionsOf(o, Approved \ Own(w)) \in SUBSET Pk
            BY DEF VersionsOf, Approved
        <3> QED
            BY <3>1, NewestType DEF Core
    <2> QED
        BY <2>1 DEF Reverted, Core, TypeOK
<1>4. Core' /\ Pk' = Pk /\ OnlyMoves(w)
    BY <1>1, <1>2, <1>3, MovingKeepsOrder DEF Status, ApprovedStatus, OnlyMoves
<1>5. Approved' = Approved \ Own(w)
    BY <1>2, <1>4 DEF Approved, IsApproved, MovedToEnd, Own
<1>6. \A t \in Approved' : transactions'[t] = transactions[t]
    BY <1>2, <1>5 DEF MovedToEnd, Approved
<1>7. \A t \in Pk : transactions'[t].object = transactions[t].object
    BY <1>2 DEF MovedToEnd
<1> QED
    BY <1>1, <1>4, <1>5, <1>6, <1>7

-----------------------------------------------------------------------------
(* What a step does to the history: nothing, it appends a workbasket,      *)
(* takes one out, or leaves all places and empties some.                   *)

Leaves ==
    /\ Approved' = Approved
    /\ \A t \in Approved : transactions'[t] = transactions[t]
    /\ UNCHANGED versions

Appends(w) ==
    /\ Pk' = Pk
    /\ Own(w) \cap Approved = {}
    /\ Approved' = Approved \cup Own(w)
    /\ \A t \in Approved : transactions'[t] = transactions[t]
    /\ \A t \in Pk : transactions'[t].object = transactions[t].object
    /\ \A t \in Approved, u \in Own(w) : Before(t, u)'
    /\ currentVersion' = Saved(w)
    /\ bereft' = bereft \ ObjectsIn(Own(w))

TakesOut(w) ==
    /\ status[w] = "QUEUED"
    /\ Pk' = Pk
    /\ Approved' = Approved \ Own(w)
    /\ \A t \in Approved' : transactions'[t] = transactions[t]
    /\ \A t \in Pk : transactions'[t].object = transactions[t].object
    /\ currentVersion' = Reverted(w)
    /\ bereft' = bereft \ ObjectsIn(Own(w))

(* Editing a workbasket changes nothing that is approved. *)
LEMMA EditingLeaves ==
    ASSUME Core, NEW w \in WorkBasket, OnlyDraftsOf(w), TypeOK', UNCHANGED versions
    PROVE  Core' /\ Leaves
<1>1. Core' /\ Approved' = Approved /\ \A t \in Approved : transactions'[t] = transactions[t]
    BY EditingKeepsOrder DEF Core
<1> QED
    BY <1>1 DEF Leaves

(* Nor does a status that leaves an empty or approved workbasket as it     *)
(* was.                                                                    *)
LEMMA StatusLeaves ==
    ASSUME Core, NEW w \in WorkBasket, NEW new \in Status,
           status' = [status EXCEPT ![w] = new],
           UNCHANGED <<transactions, lastPk, versions>>,
           Own(w) = {} \/ (new \in ApprovedStatus <=> status[w] \in ApprovedStatus)
    PROVE  Core' /\ Leaves
BY StatusKeepsOrder DEF Leaves, Approved, IsApproved, Pk

(* Every step leaves the approved history alone, appends a workbasket to   *)
(* it, takes one out or empties rows.                                      *)
LEMMA StepKinds ==
    ASSUME Core, CurrentIsApproved, Next
    PROVE  /\ Core'
           /\ \/ Leaves
              \/ \E w \in WorkBasket : \/ Appends(w) \/ TakesOut(w)
                                       \/ \E S \in SUBSET Own(w) : Voids(S)
<1>1. ASSUME NEW w \in WorkBasket, NEW o \in Object, Edit(w, o)
      PROVE  Core' /\ Leaves
    BY <1>1, EditStep, EditingLeaves
<1>2. ASSUME NEW w \in WorkBasket, NEW o \in Object, EndObject(w, o)
      PROVE  Core' /\ Leaves
    BY <1>2, EndObjectStep, EditingLeaves
<1>3. ASSUME NEW w \in WorkBasket, DeleteChanges(w)
      PROVE  Core' /\ (Leaves \/ \E S \in SUBSET Own(w) : Voids(S))
    <2>1. CASE status[w] = "EDITING"
        BY <1>3, <2>1, DeleteChangesStep, EditingLeaves
    <2>2. CASE status[w] # "EDITING"
        BY <1>3, <2>2, VoidStep
    <2> QED
        BY <2>1, <2>2
<1>4. ASSUME NEW t \in Pk,
             PromoteToTop(t) \/ DemoteToBottom(t) \/ Promote(t) \/ Demote(t)
      PROVE  Core' /\ Leaves
    <2> DEFINE w == transactions[t].workbasket
    <2>1. w \in WorkBasket
        BY RowType DEF Core
    <2>2. TypeOK' /\ OnlyDraftsOf(w) /\ UNCHANGED versions
        BY <1>4, PromoteToTopStep, DemoteToBottomStep, PromoteStep
    <2> HIDE DEF w
    <2> QED
        BY <2>1, <2>2, EditingLeaves
<1>5. ASSUME NEW w \in WorkBasket, Queue(w)
      PROVE  Core' /\ (Leaves \/ Appends(w))
    <2>1. CASE Own(w) = {}
        BY <1>5, <2>1, StatusLeaves DEF Queue, Status
    <2>2. CASE Own(w) # {}
        BY <1>5, <2>2, QueueStep DEF Appends
    <2> QED
        BY <2>1, <2>2
<1>6. ASSUME NEW w \in WorkBasket, Dequeue(w) \/ CdsError(w)
      PROVE  Core' /\ (Leaves \/ TakesOut(w))
    <2>1. PICK new \in {"EDITING", "ERRORED"} : status' = [status EXCEPT ![w] = new]
        BY <1>6 DEF Dequeue, CdsError
    <2>2. MoveToDraft(w) /\ lastPk' = lastPk /\ status[w] = "QUEUED"
        BY <1>6 DEF Dequeue, CdsError
    <2>3. CASE Own(w) = {}
        <3>1. UNCHANGED <<transactions, lastPk, versions>>
            BY <2>2, <2>3 DEF MoveToDraft
        <3>2. new \in Status
            BY DEF Status
        <3> QED
            BY <2>1, <2>3, <3>1, <3>2, StatusLeaves
    <2>4. CASE Own(w) # {}
        BY <2>1, <2>2, <2>4, MoveToDraftStep DEF TakesOut
    <2> QED
        BY <2>3, <2>4
<1>7. ASSUME NEW w \in WorkBasket, CdsConfirmed(w)
      PROVE  Core' /\ Leaves
    BY <1>7, StatusLeaves DEF CdsConfirmed, Status, ApprovedStatus
<1>8. ASSUME NEW w \in WorkBasket, Restore(w) \/ Archive(w) \/ Unarchive(w)
      PROVE  Core' /\ Leaves
    BY <1>8, StatusLeaves DEF Restore, Archive, Unarchive, Status, ApprovedStatus
<1> QED
    BY <1>1, <1>2, <1>3, <1>4, <1>5, <1>6, <1>7, <1>8 DEF Next

(* The inductive invariant: the order and the status of the rows, and the  *)
(* current versions that they allow.                                       *)
IInv == Core /\ CurrentIsApproved /\ CurrentNotOvertaken

(* The empty table satisfies the invariant. *)
LEMMA InitIInv == Init => IInv
<1> SUFFICES ASSUME Init PROVE IInv
    OBVIOUS
<1>1. Pk = {} /\ Approved = {}
    BY DEF Init, Pk, Approved
<1>2. TypeOK
    BY <1>1, BoundAssumption DEF Init, TypeOK, Status
<1>3. \A o \in Object : VersionsOf(o, Approved) = {}
    BY <1>1 DEF VersionsOf
<1> QED
    BY <1>1, <1>2, <1>3 DEF Init, IInv, Core, OrdersDistinct, PartitionFollowsStatus,
       CurrentIsApproved, CurrentNotOvertaken

(* Every step keeps it. *)
LEMMA NextIInv == IInv /\ [Next]_vars => IInv'
<1> SUFFICES ASSUME IInv, [Next]_vars PROVE IInv'
    OBVIOUS
<1>1. CASE UNCHANGED vars
    BY <1>1 DEF vars, IInv, Core, TypeOK, OrdersDistinct, PartitionFollowsStatus,
       CurrentIsApproved, CurrentNotOvertaken, Pk, Approved, IsApproved, VersionsOf, Before
<1>2. CASE Next
    <2>1. /\ Core'
          /\ \/ Leaves
             \/ \E w \in WorkBasket : \/ Appends(w) \/ TakesOut(w)
                                      \/ \E S \in SUBSET Own(w) : Voids(S)
        BY <1>2, StepKinds DEF IInv
    <2>2. ASSUME NEW o \in Object
          PROVE  /\ IF currentVersion'[o] = Null
                    THEN VersionsOf(o, Approved)' = {} \/ o \in bereft'
                    ELSE currentVersion'[o] \in VersionsOf(o, Approved)'
                 /\ currentVersion'[o] # Null =>
                    \A t \in VersionsOf(o, Approved)' :
                        t <= currentVersion'[o] \/ Before(t, currentVersion[o])'
        <3> DEFINE V == VersionsOf(o, Approved)
                   c == currentVersion[o]
        <3>1. /\ IF c = Null THEN V = {} \/ o \in bereft ELSE c \in V
              /\ c # Null => \A t \in V : t <= c \/ Before(t, c)
              /\ V \in SUBSET Pk
            BY DEF IInv, CurrentIsApproved, CurrentNotOvertaken, VersionsOf, Approved
        <3>2. CASE Leaves
            <4>1. /\ VersionsOf(o, Approved)' = V /\ currentVersion'[o] = c
                  /\ o \in bereft' <=> o \in bereft
                BY <3>2 DEF Leaves, VersionsOf, versions
            <4>2. \A t, u \in V : Before(t, u) => Before(t, u)'
                BY <3>2 DEF Leaves, VersionsOf, Before
            <4> QED
                BY <3>1, <4>1, <4>2
        <3>3. ASSUME NEW w \in WorkBasket, Appends(w)
              PROVE  <2>2!2
            <4> DEFINE O == VersionsOf(o, Own(w))
            <4>1. VersionsOf(o, Approved)' = V \cup O
                BY <3>3 DEF Appends, VersionsOf, Approved, Own
            <4>2. CASE O = {}
                <5>1. /\ VersionsOf(o, Approved)' = V /\ currentVersion'[o] = c
                      /\ o \in bereft' <=> o \in bereft
                    BY <3>3, <4>1, <4>2 DEF Appends, Saved, ObjectsIn, VersionsOf
                <5>2. \A t, u \in V : Before(t, u) => Before(t, u)'
                    BY <3>3 DEF Appends, VersionsOf, Before
                <5> QED
                    BY <3>1, <5>1, <5>2
            <4>3. CASE O # {}
                <5>1. currentVersion'[o] = Newest(O)
                    BY <3>3, <4>3 DEF Appends, Saved
                <5>2. O \in SUBSET Pk
                    BY DEF VersionsOf, Own
                <5>3. Newest(O) \in O /\ \A t \in O : t <= Newest(O)
                    BY <4>3, <5>2, NewestIsNewest DEF IInv, Core
                <5>4. \A t \in V : Before(t, currentVersion[o])'
                    BY <3>3, <5>1, <5>3 DEF Appends, VersionsOf
                <5>5. Newest(O) # Null
                    BY <5>2, <5>3, RowType DEF IInv, Core
                <5> QED
                    BY <4>1, <5>1, <5>3, <5>4, <5>5
            <4> QED
                BY <4>2, <4>3
        <3>4. ASSUME NEW w \in WorkBasket, TakesOut(w)
              PROVE  <2>2!2
            <4> DEFINE O == VersionsOf(o, Own(w))
                       L == VersionsOf(o, Approved \ Own(w))
            <4>1. VersionsOf(o, Approved)' = L
                BY <3>4 DEF TakesOut, VersionsOf, Approved
            <4>2. CASE O = {}
                <5>1. L = V
                    BY <4>2 DEF VersionsOf, Approved
                <5>2. currentVersion'[o] = c /\ (o \in bereft' <=> o \in bereft)
                    BY <3>4, <4>2 DEF TakesOut, Reverted, ObjectsIn, VersionsOf
                <5>3. \A t, u \in V : Before(t, u) => Before(t, u)'
                    <6>1. \A t \in V : transactions'[t] = transactions[t]
                        BY <3>4, <4>1, <5>1 DEF TakesOut, VersionsOf
                    <6> QED
                        BY <6>1 DEF Before
                <5> QED
                    BY <3>1, <4>1, <5>1, <5>2, <5>3
            <4>3. CASE O # {}
                <5>1. currentVersion'[o] = Newest(L)
                    BY <3>4, <4>3 DEF TakesOut, Reverted
                <5>2. L \in SUBSET Pk
                    BY DEF VersionsOf, Approved
                <5>3. L # {} => Newest(L) \in L /\ \A t \in L : t <= Newest(L)
                    BY <5>2, NewestIsNewest DEF IInv, Core
                <5>4. L = {} => Newest(L) = Null
                    BY DEF Newest
                <5>5. L # {} => Newest(L) # Null
                    BY <5>2, <5>3, RowType DEF IInv, Core
                <5> QED
                    BY <4>1, <5>1, <5>3, <5>4, <5>5
            <4> QED
                BY <4>2, <4>3
        <3>5. ASSUME NEW S, Voids(S)
              PROVE  <2>2!2
            <4>1. \A t, u \in V : Before(t, u) => Before(t, u)'
                BY <3>1, <3>5 DEF Voids, Before
            <4>2. CASE c \in S
                BY <3>5, <4>2 DEF Voids
            <4>3. CASE c \notin S
                <5>1. currentVersion'[o] = c /\ (o \in bereft => o \in bereft')
                    BY <3>5, <4>3 DEF Voids
                <5>2. VersionsOf(o, Approved)' = V \ S
                    <6>1. Approved' = Approved
                        BY <3>5 DEF Voids, Approved, IsApproved
                    <6>2. o # Null
                        BY ObjectAssumption
                    <6> QED
                        BY <3>5, <6>1, <6>2 DEF Voids, VersionsOf, Approved
                <5> QED
                    BY <3>1, <4>1, <4>3, <5>1, <5>2
            <4> QED
                BY <4>2, <4>3
        <3> QED
            BY <2>1, <3>2, <3>3, <3>4, <3>5
    <2> QED
        BY <2>1, <2>2 DEF IInv, CurrentIsApproved, CurrentNotOvertaken
<1> QED
    BY <1>1, <1>2

(* So it holds throughout. *)
LEMMA InvariantHolds == Spec => []IInv
BY InitIInv, NextIInv, PTL DEF Spec

-----------------------------------------------------------------------------
(* The theorems.                                                           *)

(* The columns keep their types, and no order number leaves its bounds.    *)
THEOREM TypeCorrect == Spec => []TypeOK
<1>1. IInv => TypeOK
    BY DEF IInv, Core
<1> QED
    BY <1>1, InvariantHolds, PTL

(* Approved transactions, and those of one workbasket, are totally ordered *)
(* through every reordering, queueing, withdrawal and rejection.           *)
THEOREM OrdersStayDistinct == Spec => []OrdersDistinct
<1>1. IInv => OrdersDistinct
    BY DEF IInv, Core
<1> QED
    BY <1>1, InvariantHolds, PTL

(* A transaction is in an approved partition exactly while its workbasket  *)
(* is queued or published.                                                 *)
THEOREM PartitionAgreesWithStatus == Spec => []PartitionFollowsStatus
<1>1. IInv => PartitionFollowsStatus
    BY DEF IInv, Core
<1> QED
    BY <1>1, InvariantHolds, PTL

(* Whatever workbaskets are queued, withdrawn and rejected and whatever    *)
(* users delete, in whatever order: an object with approved versions has   *)
(* one of them as current version, unless a user deleted the one it had,   *)
(* and any other object has none.                                          *)
THEOREM CurrentAlwaysApproved == Spec => []CurrentIsApproved
<1>1. IInv => CurrentIsApproved
    BY DEF IInv
<1> QED
    BY <1>1, InvariantHolds, PTL

(* No approved version is both newer and later in the history than its     *)
(* object's current version.                                               *)
THEOREM CurrentNeverOvertaken == Spec => []CurrentNotOvertaken
<1>1. IInv => CurrentNotOvertaken
    BY DEF IInv
<1> QED
    BY <1>1, InvariantHolds, PTL

(* The history of the tariff is stable: what stays keeps its order, what   *)
(* comes goes to the end, and what is published stays and holds what it    *)
(* held, or nothing once a user has deleted it.                            *)
THEOREM HistoryStaysStable == Spec => HistoryIsStable
<1> DEFINE Stable ==
        /\ \A t, u \in Approved :
            (t \in Approved' /\ u \in Approved') => (Before(t, u) <=> Before(t, u)')
        /\ \A t \in Approved \cap Approved', u \in Approved' \ Approved : Before(t, u)'
        /\ \A t \in Approved :
            status[transactions[t].workbasket] = "PUBLISHED" =>
                /\ t \in Approved'
                /\ transactions'[t].object \in {transactions[t].object, Null}
<1>1. ASSUME IInv, Next PROVE Stable
    <2>1. \/ Leaves
          \/ \E w \in WorkBasket : \/ Appends(w) \/ TakesOut(w)
                                   \/ \E S \in SUBSET Own(w) : Voids(S)
        BY <1>1, StepKinds DEF IInv
    <2>2. CASE Leaves \/ \E w \in WorkBasket : Appends(w) \/ TakesOut(w)
        <3>1. \A t \in Approved \cap Approved' : transactions'[t] = transactions[t]
            BY <2>2 DEF Leaves, Appends, TakesOut
        <3>2. \A t, u \in Approved \cap Approved' : Before(t, u) <=> Before(t, u)'
            BY <3>1 DEF Before
        <3>3. \A t \in Approved \cap Approved', u \in Approved' \ Approved : Before(t, u)'
            BY <2>2 DEF Leaves, Appends, TakesOut
        <3>4. \A t \in Approved :
                status[transactions[t].workbasket] = "PUBLISHED" => t \in Approved'
            BY <2>2 DEF Leaves, Appends, TakesOut, Own, Approved
        <3> QED
            BY <3>1, <3>2, <3>3, <3>4
    <2>3. ASSUME NEW S, Voids(S) PROVE Stable
        <3>1. Approved' = Approved /\ Approved \in SUBSET Pk
            BY <2>3 DEF Voids, Approved, IsApproved
        <3>2. \A t, u \in Approved : Before(t, u) <=> Before(t, u)'
            BY <2>3, <3>1 DEF Voids, Before
        <3>3. \A t \in Approved : transactions'[t].object \in {transactions[t].object, Null}
            BY <2>3, <3>1 DEF Voids
        <3> QED
            BY <3>1, <3>2, <3>3
    <2> QED
        BY <2>1, <2>2, <2>3
<1>2. IInv /\ [Next]_vars => [Stable]_vars
    BY <1>1
<1>3. Spec => [][Stable]_vars
    BY <1>2, InvariantHolds, PTL DEF Spec
<1> QED
    BY <1>3 DEF HistoryIsStable

-----------------------------------------------------------------------------
(* The lists of TariffHistory.                                             *)

(* The members of a list of rows are these rows.                           *)
LEMMA ListMembers ==
    ASSUME NEW S, NEW R \in SUBSET (S \X S), \A s \in S : <<s, s>> \in R
    PROVE  Promise!Members(R) = S
<1>1. \A s \in S : <<s, s>>[1] = s
    OBVIOUS
<1>2. \A pair \in R : pair[1] \in S
    OBVIOUS
<1> QED
    BY <1>1, <1>2 DEF Promise!Members

(* A list with one member more: what comes before the new member is a      *)
(* front of the old list.                                                  *)
LEMMA InsertedInOrder ==
    ASSUME NEW S, NEW c, c \notin S,
           NEW R \in SUBSET (S \X S),
           NEW Q \in SUBSET ((S \cup {c}) \X (S \cup {c})),
           \A s \in S : <<s, s>> \in R,
           <<c, c>> \in Q,
           \A t, u \in S : <<t, u>> \in Q <=> <<t, u>> \in R,
           \A t \in S : <<t, c>> \in Q <=> <<c, t>> \notin Q,
           \A t, u \in S : <<t, u>> \in Q /\ <<u, c>> \in Q => <<t, c>> \in Q
    PROVE  \E F \in Promise!Fronts(R) : Q = Promise!Inserted(R, c, F)
<1> DEFINE F == {t \in S : <<t, c>> \in Q}
<1>1. Promise!Members(R) = S
    BY ListMembers
<1>2. F \in Promise!Fronts(R)
    <2>1. ASSUME NEW pair \in R, pair[2] \in F PROVE pair[1] \in F
        <3>1. pair[1] \in S /\ pair[2] \in S /\ pair = <<pair[1], pair[2]>>
            OBVIOUS
        <3> QED
            BY <2>1, <3>1
    <2> QED
        BY <1>1, <2>1 DEF Promise!Fronts
<1>3. ASSUME NEW t \in S \cup {c}, NEW u \in S \cup {c}
      PROVE  <<t, u>> \in Q <=> <<t, u>> \in Promise!Inserted(R, c, F)
    BY <1>1 DEF Promise!Inserted
<1>4. Promise!Inserted(R, c, F) \in SUBSET ((S \cup {c}) \X (S \cup {c}))
    BY <1>1 DEF Promise!Inserted
<1>5. Q = Promise!Inserted(R, c, F)
    BY <1>3, <1>4
<1> QED
    BY <1>2, <1>5

(* The lists of rows have the rows as members, reflexively. *)
LEMMA ListedRows ==
    ASSUME NEW S
    PROVE  /\ Listed(S) \in SUBSET (S \X S)
           /\ \A s \in S : <<s, s>> \in Listed(S)
           /\ \A t, u \in S : <<t, u>> \in Listed(S) <=> t = u \/ Before(t, u)
           /\ Promise!Members(Listed(S)) = S
<1>1. /\ Listed(S) \in SUBSET (S \X S)
      /\ \A s \in S : <<s, s>> \in Listed(S)
      /\ \A t, u \in S : <<t, u>> \in Listed(S) <=> t = u \/ Before(t, u)
    BY DEF Listed
<1> QED
    BY <1>1, ListMembers

(* The rows of a workbasket are totally ordered.                           *)
OwnRowsOrdered ==
    \A w \in WorkBasket : \A t, u, v \in Own(w) :
        /\ ~Before(t, t)
        /\ t # u => (Before(t, u) <=> ~Before(u, t))
        /\ Before(t, u) /\ Before(u, v) => Before(t, v)

(* That is so whatever has happened.                                      *)
LEMMA OwnOrder == Core => OwnRowsOrdered
<1> SUFFICES ASSUME Core, NEW w \in WorkBasket, NEW t \in Own(w), NEW u \in Own(w), NEW v \in Own(w)
             PROVE  /\ ~Before(t, t)
                    /\ t # u => (Before(t, u) <=> ~Before(u, t))
                    /\ Before(t, u) /\ Before(u, v) => Before(t, v)
    BY DEF OwnRowsOrdered
<1>1. Own(w) \in SUBSET Pk
    BY DEF Own
<1>2. t # u => Before(t, u) \/ Before(u, t)
    BY <1>1, BeforeIsTotal DEF Core
<1> QED
    BY <1>1, <1>2, BeforeIsStrict DEF Core

(* The history as a list: its members are the approved rows.               *)
LEMMA HistoryMembers ==
    Promise!Members(ApprovedChanges) = {Approval(t) : t \in Approved}
<1>1. ASSUME NEW pair \in Listed(Approved)
      PROVE  pair[1] \in Approved /\ pair[2] \in Approved
    BY DEF Listed
<1>2. ASSUME NEW t \in Approved
      PROVE  <<Approval(t), Approval(t)>> \in ApprovedChanges
    <2>1. <<t, t>> \in Listed(Approved)
        BY DEF Listed
    <2>2. <<Approval(<<t, t>>[1]), Approval(<<t, t>>[2])>> = <<Approval(t), Approval(t)>>
        OBVIOUS
    <2> QED
        BY <2>1, <2>2 DEF ApprovedChanges
<1>3. \A pair \in ApprovedChanges : pair[1] \in {Approval(t) : t \in Approved}
    BY <1>1 DEF ApprovedChanges
<1> QED
    BY <1>2, <1>3 DEF Promise!Members

(* What an approval says of its row.                                       *)
LEMMA ApprovalFields ==
    ASSUME NEW t \in Pk
    PROVE  Approval(t).workbasket = transactions[t].workbasket /\ Approval(t).change = t
BY DEF Approval

(* The approvals of w.                                                     *)
LEMMA HistoryEntries ==
    ASSUME NEW w \in WorkBasket
    PROVE  Promise!Entries(w) = {Approval(t) : t \in Own(w) \cap Approved}
<1>1. Promise!Entries(w) = {e \in {Approval(t) : t \in Approved} : e.workbasket = w}
    BY HistoryMembers DEF Promise!Entries
<1>2. \A t \in Approved : Approval(t).workbasket = w <=> t \in Own(w)
    BY ApprovalFields DEF Own, Approved
<1> QED
    BY <1>1, <1>2

-----------------------------------------------------------------------------
(* Edits of drafts implement edits of lists.                               *)

(* Editing w changes nothing but the list of its drafts.                   *)
LEMMA EditingSeen ==
    ASSUME Core, NEW w \in WorkBasket, OnlyDraftsOf(w)
    PROVE  /\ DraftChanges[w] = Listed(Own(w))
           /\ DraftChanges' = [DraftChanges EXCEPT ![w] = Listed(Own(w))']
           /\ ApprovedChanges' = ApprovedChanges
           /\ PublishedWorkBaskets' = PublishedWorkBaskets
           /\ w \notin PublishedWorkBaskets
           /\ Promise!Entries(w) = {}
           /\ Empty' = Empty \cap Pk'
<1>1. Own(w) \cap Approved = {}
    BY DraftsOfEdited DEF OnlyDraftsOf, ApprovedStatus
<1>2. /\ Approved' = Approved
      /\ \A t \in Approved : transactions'[t] = transactions[t]
    BY EditingKeepsOrder
<1>3. DraftChanges[w] = Listed(Own(w))
    <2>1. Own(w) \ Approved = Own(w)
        BY <1>1
    <2> QED
        BY <2>1 DEF DraftChanges
<1>4. DraftChanges'[w] = Listed(Own(w))'
    <2>1. ASSUME NEW t \in Own(w)' PROVE t \notin Approved'
        <3>1. t \in Own(w) => t \notin Approved
            BY <1>1
        <3>2. t \notin Own(w) => t \notin Pk
            BY <2>1 DEF OnlyDraftsOf, Own
        <3> QED
            BY <1>2, <3>1, <3>2 DEF Approved
    <2>2. (Own(w) \ Approved)' = Own(w)'
        BY <2>1
    <2>3. DraftChanges'[w] = Listed(Own(w) \ Approved)'
        BY DEF DraftChanges
    <2> QED
        BY <2>2, <2>3 DEF Listed
<1>5. ASSUME NEW v \in WorkBasket \ {w} PROVE DraftChanges'[v] = DraftChanges[v]
    <2> DEFINE D == Own(v) \ Approved
    <2>1. \A t \in Own(v) : t \in Pk' /\ transactions'[t] = transactions[t]
        BY DEF OnlyDraftsOf, Own
    <2>2. Own(v)' = Own(v)
        BY <2>1 DEF OnlyDraftsOf, Own
    <2>3. D' = D
        BY <1>2, <2>2
    <2>4. \A t, u \in D : Before(t, u)' <=> Before(t, u)
        BY <2>1 DEF Before
    <2>5. Listed(D)' = Listed(D)
        BY <2>3, <2>4 DEF Listed
    <2> QED
        BY <2>5 DEF DraftChanges
<1>6. DraftChanges' = [DraftChanges EXCEPT ![w] = Listed(Own(w))']
    BY <1>4, <1>5 DEF DraftChanges
<1>7. ApprovedChanges' = ApprovedChanges
    <2>1. \A t, u \in Approved : Before(t, u)' <=> Before(t, u)
        BY <1>2 DEF Before
    <2>2. Listed(Approved)' = Listed(Approved)
        BY <1>2, <2>1 DEF Listed
    <2>3. \A t \in Approved : Approval(t)' = Approval(t)
        BY <1>2 DEF Approval
    <2>4. \A pair \in Listed(Approved) : pair[1] \in Approved /\ pair[2] \in Approved
        BY DEF Listed
    <2> QED
        BY <2>2, <2>3, <2>4 DEF ApprovedChanges
<1>8. PublishedWorkBaskets' = PublishedWorkBaskets /\ w \notin PublishedWorkBaskets
    BY DEF OnlyDraftsOf, PublishedWorkBaskets
<1>9. Promise!Entries(w) = {}
    BY <1>1, HistoryEntries
<1>10. Empty' = Empty \cap Pk'
    <2>1. \A t \in Pk' \cap Pk : transactions'[t].object = transactions[t].object
        BY DEF OnlyDraftsOf, Own
    <2>2. \A t \in Pk' \ Pk : transactions'[t].object # Null
        BY DEF OnlyDraftsOf
    <2> QED
        BY <2>1, <2>2 DEF Empty
<1> QED
    BY <1>3, <1>6, <1>7, <1>8, <1>9, <1>10

(* One row of w that is new or comes elsewhere is inserted in its list.    *)
LEMMA InsertedRow ==
    ASSUME Core, Core', NEW w \in WorkBasket, NEW c, OneChange(w, c)
    PROVE  \E F \in Promise!Fronts(Listed(Own(w) \ {c})) :
               Listed(Own(w))' = Promise!Inserted(Listed(Own(w) \ {c}), c, F)
<1> DEFINE S == Own(w) \ {c}
           R == Listed(S)
           Q == Listed(Own(w))'
           now(t, u) == Before(t, u)'
<1>1. Own(w)' = S \cup {c} /\ \A t, u \in S : now(t, u) <=> Before(t, u)
    BY DEF OneChange, SameOrder
<1>2. OwnRowsOrdered'
    BY OwnOrder, PTL
<1>3. \A t, u, v \in S \cup {c} :
        /\ t # u => (now(t, u) <=> ~now(u, t))
        /\ now(t, u) /\ now(u, v) => now(t, v)
    BY <1>1, <1>2 DEF OwnRowsOrdered
<1>4. /\ Q \in SUBSET ((S \cup {c}) \X (S \cup {c}))
      /\ \A t, u \in S \cup {c} : <<t, u>> \in Q <=> t = u \/ now(t, u)
    BY <1>1 DEF Listed
<1>5. /\ R \in SUBSET (S \X S)
      /\ \A s \in S : <<s, s>> \in R
      /\ \A t, u \in S : <<t, u>> \in R <=> t = u \/ Before(t, u)
    BY ListedRows
<1>6. c \notin S
    OBVIOUS
<1> HIDE DEF S, R, Q, now
<1>7. /\ <<c, c>> \in Q
      /\ \A t, u \in S : <<t, u>> \in Q <=> <<t, u>> \in R
      /\ \A t \in S : <<t, c>> \in Q <=> <<c, t>> \notin Q
      /\ \A t, u \in S : <<t, u>> \in Q /\ <<u, c>> \in Q => <<t, c>> \in Q
    BY <1>1, <1>3, <1>4, <1>5, <1>6
<1>8. \E F \in Promise!Fronts(R) : Q = Promise!Inserted(R, c, F)
    BY <1>4, <1>5, <1>6, <1>7, InsertedInOrder
<1> QED
    BY <1>8 DEF S, R, Q

(* A change that takes no row away leaves the empty ones. *)
LEMMA EmptyStays ==
    ASSUME NEW w \in WorkBasket, NEW c, OnlyDraftsOf(w), OneChange(w, c),
           Empty' = Empty \cap Pk'
    PROVE  Empty' = Empty
<1>1. Pk \subseteq Pk'
    BY DEF OnlyDraftsOf, OneChange, Own
<1> QED
    BY <1>1 DEF Empty

(* A new version is a change added to the list.                            *)
LEMMA AddImplemented ==
    ASSUME Core, Core', NEW w \in WorkBasket, OnlyDraftsOf(w),
           NEW c \in 1..MaxPk, c \notin Pk, OneChange(w, c)
    PROVE  Promise!Add(w)
<1>1. /\ DraftChanges[w] = Listed(Own(w))
      /\ DraftChanges' = [DraftChanges EXCEPT ![w] = Listed(Own(w))']
      /\ ApprovedChanges' = ApprovedChanges
      /\ PublishedWorkBaskets' = PublishedWorkBaskets
      /\ w \notin PublishedWorkBaskets
      /\ Promise!Entries(w) = {}
      /\ Empty' = Empty \cap Pk'
    BY EditingSeen
<1>2. Own(w) \ {c} = Own(w)
    BY DEF Own
<1>3. PICK F \in Promise!Fronts(Listed(Own(w))) :
        Listed(Own(w))' = Promise!Inserted(Listed(Own(w)), c, F)
    BY <1>2, InsertedRow
<1>4. \A v \in WorkBasket : c \notin Promise!Members(DraftChanges[v])
    <2> TAKE v \in WorkBasket
    <2>1. Promise!Members(DraftChanges[v]) = Own(v) \ Approved
        BY ListedRows DEF DraftChanges
    <2> QED
        BY <2>1 DEF Own
<1>5. \A e \in Promise!Members(ApprovedChanges) : e.change # c
    <2>1. \A t \in Approved : Approval(t).change # c
        BY ApprovalFields DEF Approved
    <2> QED
        BY <2>1, HistoryMembers
<1>6. DraftChanges' = [DraftChanges EXCEPT ![w] = Promise!Inserted(@, c, F)]
    BY <1>1, <1>3
<1>7. Empty' = Empty
    BY <1>1, EmptyStays
<1> QED
    BY <1>1, <1>3, <1>4, <1>5, <1>6, <1>7 DEF Promise!Add

(* What stays when rows are taken out of a list.                           *)
LEMMA ListedWithout ==
    ASSUME NEW S, NEW C
    PROVE  Promise!Without(Listed(S), C) = Listed(S \ C)
BY DEF Promise!Without, Listed

(* A row whose place changes is a change moved in the list.                *)
LEMMA MoveImplemented ==
    ASSUME Core, Core', NEW w \in WorkBasket, OnlyDraftsOf(w),
           NEW c \in Own(w), OneChange(w, c)
    PROVE  Promise!Move(w)
<1>1. /\ DraftChanges[w] = Listed(Own(w))
      /\ DraftChanges' = [DraftChanges EXCEPT ![w] = Listed(Own(w))']
      /\ ApprovedChanges' = ApprovedChanges
      /\ PublishedWorkBaskets' = PublishedWorkBaskets
      /\ w \notin PublishedWorkBaskets
      /\ Empty' = Empty \cap Pk'
    BY EditingSeen
<1>2. Promise!Without(DraftChanges[w], {c}) = Listed(Own(w) \ {c})
    BY <1>1, ListedWithout
<1>3. PICK F \in Promise!Fronts(Promise!Without(DraftChanges[w], {c})) :
        Listed(Own(w))' = Promise!Inserted(Promise!Without(DraftChanges[w], {c}), c, F)
    BY <1>2, InsertedRow
<1>4. c \in Promise!Members(DraftChanges[w])
    BY <1>1, ListedRows
<1>5. DraftChanges' = [DraftChanges EXCEPT
                          ![w] = Promise!Inserted(Promise!Without(@, {c}), c, F)]
    BY <1>1, <1>3
<1>6. Empty' = Empty
    BY <1>1, EmptyStays
<1> QED
    BY <1>1, <1>3, <1>4, <1>5, <1>6 DEF Promise!Move

(* Rows that are deleted are changes discarded from the list.              *)
LEMMA DiscardImplemented ==
    ASSUME Core, NEW w \in WorkBasket, OnlyDraftsOf(w), NEW C \in SUBSET Own(w),
           Own(w)' = Own(w) \ C, SameOrder(Own(w) \ C)
    PROVE  Promise!Discard(w)
<1>1. /\ DraftChanges[w] = Listed(Own(w))
      /\ DraftChanges' = [DraftChanges EXCEPT ![w] = Listed(Own(w))']
      /\ ApprovedChanges' = ApprovedChanges
      /\ PublishedWorkBaskets' = PublishedWorkBaskets
      /\ w \notin PublishedWorkBaskets
      /\ Empty' = Empty \cap Pk'
    BY EditingSeen
<1>2. Listed(Own(w))' = Listed(Own(w) \ C)
    BY DEF Listed, SameOrder
<1>3. Listed(Own(w))' = Promise!Without(DraftChanges[w], C)
    BY <1>1, <1>2, ListedWithout
<1>4. C \in SUBSET Promise!Members(DraftChanges[w])
    BY <1>1, ListedRows
<1>5. DraftChanges' = [DraftChanges EXCEPT ![w] = Promise!Without(@, C)]
    BY <1>1, <1>3
<1>6. Empty' = Empty \ C
    <2>1. \A t \in Empty : t \in Pk' <=> t \notin C
        BY DEF Empty, Own, OnlyDraftsOf
    <2> QED
        BY <1>1, <2>1
<1> QED
    BY <1>1, <1>4, <1>5, <1>6 DEF Promise!Discard

-----------------------------------------------------------------------------
(* Approval and withdrawal.                                                *)

(* A move between partitions leaves the drafts of the other workbaskets.   *)
LEMMA OtherDraftsStay ==
    ASSUME NEW w \in WorkBasket, NEW v \in WorkBasket \ {w}, OnlyMoves(w),
           \A t \in Pk \ Own(w) : t \in Approved' <=> t \in Approved
    PROVE  DraftChanges'[v] = DraftChanges[v]
<1> DEFINE D == Own(v) \ Approved
<1>1. Own(v) \in SUBSET (Pk \ Own(w))
    BY DEF Own
<1>2. Own(v)' = Own(v)
    BY <1>1 DEF OnlyMoves, Own
<1>3. D' = D
    BY <1>1, <1>2
<1>4. \A t, u \in D : Before(t, u)' <=> Before(t, u)
    BY <1>1 DEF OnlyMoves, Before
<1>5. Listed(D)' = Listed(D)
    BY <1>3, <1>4 DEF Listed
<1> QED
    BY <1>5 DEF DraftChanges

(* The lists of approvals: what is in one, in terms of rows.               *)
HistoryIsListed ==
    /\ \A t, u \in Approved :
           <<Approval(t), Approval(u)>> \in ApprovedChanges <=> t = u \/ Before(t, u)
    /\ \A pair \in ApprovedChanges : \E t, u \in Approved :
           pair = <<Approval(t), Approval(u)>>

(* It is so in every state.                                                *)
LEMMA HistoryPairs == HistoryIsListed
<1>1. ASSUME NEW t \in Approved, NEW u \in Approved,
             <<Approval(t), Approval(u)>> \in ApprovedChanges
      PROVE  t = u \/ Before(t, u)
    <2>1. PICK p \in Listed(Approved) :
            <<Approval(t), Approval(u)>> = <<Approval(p[1]), Approval(p[2])>>
        BY <1>1 DEF ApprovedChanges
    <2>2. p[1] \in Approved /\ p[2] \in Approved /\ (p[1] = p[2] \/ Before(p[1], p[2]))
        BY DEF Listed
    <2>3. Approval(t) = Approval(p[1]) /\ Approval(u) = Approval(p[2])
        BY <2>1
    <2>4. t = p[1] /\ u = p[2]
        BY <2>2, <2>3, ApprovalFields DEF Approved
    <2> QED
        BY <2>2, <2>4
<1>2. ASSUME NEW t \in Approved, NEW u \in Approved, t = u \/ Before(t, u)
      PROVE  <<Approval(t), Approval(u)>> \in ApprovedChanges
    <2>1. <<t, u>> \in Listed(Approved)
        BY <1>2 DEF Listed
    <2>2. <<Approval(<<t, u>>[1]), Approval(<<t, u>>[2])>> = <<Approval(t), Approval(u)>>
        OBVIOUS
    <2> QED
        BY <2>1, <2>2 DEF ApprovedChanges
<1>3. ASSUME NEW pair \in ApprovedChanges
      PROVE  \E t, u \in Approved : pair = <<Approval(t), Approval(u)>>
    <2>1. PICK p \in Listed(Approved) : pair = <<Approval(p[1]), Approval(p[2])>>
        BY DEF ApprovedChanges
    <2>2. p[1] \in Approved /\ p[2] \in Approved
        BY DEF Listed
    <2> QED
        BY <2>1, <2>2
<1> QED
    BY <1>1, <1>2, <1>3 DEF HistoryIsListed

(* The block of a workbasket, all of whose rows are drafts.                *)
LEMMA BlockPairs ==
    ASSUME NEW w \in WorkBasket, Own(w) \cap Approved = {}
    PROVE  /\ \A t, u \in Own(w) :
                  <<Approval(t), Approval(u)>> \in Promise!Block(w) <=> t = u \/ Before(t, u)
           /\ \A pair \in Promise!Block(w) : \E t, u \in Own(w) :
                  pair = <<Approval(t), Approval(u)>>
           /\ Promise!Members(Promise!Block(w)) = {Approval(t) : t \in Own(w)}
<1>1. DraftChanges[w] = Listed(Own(w))
    <2>1. Own(w) \ Approved = Own(w)
        OBVIOUS
    <2> QED
        BY <2>1 DEF DraftChanges
<1>2. \A t \in Own(w) : Promise!Entry(w, t) = Approval(t) /\ t \in Pk
    BY DEF Promise!Entry, Approval, Own
<1>3. ASSUME NEW t \in Own(w), NEW u \in Own(w),
             <<Approval(t), Approval(u)>> \in Promise!Block(w)
      PROVE  t = u \/ Before(t, u)
    <2>1. PICK p \in Listed(Own(w)) :
            <<Approval(t), Approval(u)>> = <<Promise!Entry(w, p[1]), Promise!Entry(w, p[2])>>
        BY <1>1, <1>3 DEF Promise!Block
    <2>2. p[1] \in Own(w) /\ p[2] \in Own(w) /\ (p[1] = p[2] \/ Before(p[1], p[2]))
        BY DEF Listed
    <2>3. Approval(t) = Approval(p[1]) /\ Approval(u) = Approval(p[2])
        BY <1>2, <2>1, <2>2
    <2>4. t = p[1] /\ u = p[2]
        BY <1>2, <2>2, <2>3, ApprovalFields
    <2> QED
        BY <2>2, <2>4
<1>4. ASSUME NEW t \in Own(w), NEW u \in Own(w), t = u \/ Before(t, u)
      PROVE  <<Approval(t), Approval(u)>> \in Promise!Block(w)
    <2>1. <<t, u>> \in DraftChanges[w]
        BY <1>1, <1>4, ListedRows
    <2>2. <<Promise!Entry(w, <<t, u>>[1]), Promise!Entry(w, <<t, u>>[2])>>
          = <<Approval(t), Approval(u)>>
        BY <1>2
    <2> QED
        BY <2>1, <2>2 DEF Promise!Block
<1>5. ASSUME NEW pair \in Promise!Block(w)
      PROVE  \E t, u \in Own(w) : pair = <<Approval(t), Approval(u)>>
    <2>1. PICK p \in Listed(Own(w)) :
            pair = <<Promise!Entry(w, p[1]), Promise!Entry(w, p[2])>>
        BY <1>1 DEF Promise!Block
    <2>2. p[1] \in Own(w) /\ p[2] \in Own(w)
        BY DEF Listed
    <2> QED
        BY <1>2, <2>1, <2>2
<1>6. Promise!Members(Promise!Block(w)) = {Approval(t) : t \in Own(w)}
    <2>1. \A t \in Own(w) : <<Approval(t), Approval(t)>> \in Promise!Block(w)
        BY <1>4
    <2>2. \A t \in Own(w) : Approval(t) \in Promise!Members(Promise!Block(w))
        <3> TAKE t \in Own(w)
        <3>1. <<Approval(t), Approval(t)>>[1] = Approval(t)
            OBVIOUS
        <3> QED
            BY <2>1, <3>1 DEF Promise!Members
    <2>3. \A e \in Promise!Members(Promise!Block(w)) : e \in {Approval(t) : t \in Own(w)}
        BY <1>5 DEF Promise!Members
    <2> QED
        BY <2>2, <2>3
<1> QED
    BY <1>3, <1>4, <1>5, <1>6

(* Of two rows only one comes first.                                       *)
OneWay == \A t, u \in Pk : Before(t, u) => ~Before(u, t)

(* It is so for rows with their types.                                     *)
LEMMA BeforeOneWay == Core => OneWay
BY BeforeIsStrict DEF Core, OneWay

(* Queueing a workbasket appends its block to the history.                 *)
LEMMA ApproveImplemented ==
    ASSUME Core, NEW w \in WorkBasket, Queue(w), Own(w) # {}
    PROVE  Promise!Approve(w)
<1>1. /\ Core' /\ OnlyMoves(w)
      /\ Own(w) \cap Approved = {}
      /\ Approved' = Approved \cup Own(w)
      /\ \A t \in Approved : transactions'[t] = transactions[t]
      /\ \A t \in Approved, u \in Own(w) : Before(t, u)'
    BY QueueStep
<1>2. status' = [status EXCEPT ![w] = "QUEUED"] /\ status[w] = "EDITING"
    BY DEF Queue
<1>3. w \notin PublishedWorkBaskets /\ PublishedWorkBaskets' = PublishedWorkBaskets
    BY <1>2 DEF PublishedWorkBaskets, Core, TypeOK
<1>4. Promise!Entries(w) = {}
    BY <1>1, HistoryEntries
<1>5. DraftChanges' = [DraftChanges EXCEPT ![w] = {}]
    <2>1. DraftChanges'[w] = {}
        <3>1. (Own(w) \ Approved)' = {}
            BY <1>1 DEF OnlyMoves
        <3> QED
            BY <3>1 DEF DraftChanges, Listed
    <2>2. \A v \in WorkBasket \ {w} : DraftChanges'[v] = DraftChanges[v]
        BY <1>1, OtherDraftsStay
    <2> QED
        BY <2>1, <2>2 DEF DraftChanges
<1> DEFINE H == ApprovedChanges
           B == Promise!Block(w)
<1>6. \A t \in Approved \cup Own(w) : Approval(t)' = Approval(t)
    BY <1>1 DEF Approval, OnlyMoves, Own
<1>7. /\ \A t, u \in Approved : Before(t, u)' <=> Before(t, u)
      /\ \A t, u \in Own(w) : Before(t, u)' <=> Before(t, u)
    BY <1>1 DEF OnlyMoves, SameOrder, Before
<1>8. \A t \in Approved, u \in Own(w) : Before(t, u)' /\ ~Before(u, t)' /\ t # u
    <2>1. Approved' \in SUBSET Pk'
        BY DEF Approved
    <2>2. \A t, u \in Pk' : Before(t, u)' => ~Before(u, t)'
        <3>1. OneWay'
            BY <1>1, BeforeOneWay, PTL
        <3> QED
            BY <3>1 DEF OneWay
    <2> QED
        BY <1>1, <2>1, <2>2
<1>9. /\ \A t, u \in Approved \cup Own(w) :
            <<Approval(t), Approval(u)>> \in H' <=> t = u \/ Before(t, u)'
      /\ \A pair \in H' : \E t, u \in Approved \cup Own(w) : pair = <<Approval(t), Approval(u)>>
    <2>1. /\ \A t, u \in Approved' :
               <<Approval(t)', Approval(u)'>> \in H' <=> t = u \/ Before(t, u)'
          /\ \A pair \in H' : \E t, u \in Approved' : pair = <<Approval(t)', Approval(u)'>>
        <3>1. HistoryIsListed'
            BY HistoryPairs, PTL
        <3> QED
            BY <3>1 DEF HistoryIsListed
    <2> QED
        BY <1>1, <1>6, <2>1
<1>10. /\ \A t, u \in Approved :
            <<Approval(t), Approval(u)>> \in H <=> t = u \/ Before(t, u)
       /\ \A pair \in H : \E t, u \in Approved : pair = <<Approval(t), Approval(u)>>
       /\ Promise!Members(H) = {Approval(t) : t \in Approved}
    BY HistoryPairs, HistoryMembers DEF HistoryIsListed
<1>11. /\ \A t, u \in Own(w) :
            <<Approval(t), Approval(u)>> \in B <=> t = u \/ Before(t, u)
       /\ \A pair \in B : \E t, u \in Own(w) : pair = <<Approval(t), Approval(u)>>
       /\ Promise!Members(B) = {Approval(t) : t \in Own(w)}
    BY <1>1, BlockPairs
<1>12. \A t, u \in Approved \cup Own(w) : Approval(t) = Approval(u) => t = u
    BY ApprovalFields DEF Approved, Own
<1>13. Promise!Followed(H, B)
         = H \cup B \cup ({Approval(t) : t \in Approved} \X {Approval(t) : t \in Own(w)})
    BY <1>10, <1>11 DEF Promise!Followed
<1> HIDE DEF H, B
<1>14. ASSUME NEW t \in Approved \cup Own(w), NEW u \in Approved \cup Own(w)
       PROVE  <<Approval(t), Approval(u)>> \in H'
              <=> <<Approval(t), Approval(u)>> \in Promise!Followed(H, B)
    <2>1. CASE t \in Approved /\ u \in Approved
        <3>1. <<Approval(t), Approval(u)>> \notin B
            BY <1>1, <1>11, <1>12, <2>1
        <3>2. Approval(u) \notin {Approval(s) : s \in Own(w)}
            BY <1>1, <1>12, <2>1
        <3> QED
            BY <1>7, <1>9, <1>10, <1>13, <2>1, <3>1, <3>2
    <2>2. CASE t \in Own(w) /\ u \in Own(w)
        <3>1. <<Approval(t), Approval(u)>> \notin H
            BY <1>1, <1>10, <1>12, <2>2
        <3>2. Approval(t) \notin {Approval(s) : s \in Approved}
            BY <1>1, <1>12, <2>2
        <3> QED
            BY <1>7, <1>9, <1>11, <1>13, <2>2, <3>1, <3>2
    <2>3. CASE t \in Approved /\ u \in Own(w)
        BY <1>8, <1>9, <1>13, <2>3
    <2>4. CASE t \in Own(w) /\ u \in Approved
        <3>1. <<Approval(t), Approval(u)>> \notin H /\ <<Approval(t), Approval(u)>> \notin B
            BY <1>1, <1>10, <1>11, <1>12, <2>4
        <3>2. Approval(t) \notin {Approval(s) : s \in Approved}
            BY <1>1, <1>12, <2>4
        <3>3. <<Approval(t), Approval(u)>> \notin H'
            BY <1>8, <1>9, <2>4
        <3> QED
            BY <1>13, <3>1, <3>2, <3>3
    <2> QED
        BY <2>1, <2>2, <2>3, <2>4
<1>15. \A pair \in Promise!Followed(H, B) :
          \E t, u \in Approved \cup Own(w) : pair = <<Approval(t), Approval(u)>>
    BY <1>10, <1>11, <1>13
<1>16. H' = Promise!Followed(H, B)
    BY <1>9, <1>14, <1>15
<1>17. Empty' = Empty
    BY <1>1, QueueStep DEF Empty
<1> QED
    BY <1>3, <1>4, <1>5, <1>16, <1>17 DEF H, B, Promise!Approve

(* A withdrawn or rejected workbasket takes its block out of the history,  *)
(* and nothing else, and has the list back that it had.                    *)
LEMMA WithdrawImplemented ==
    ASSUME Core, NEW w \in WorkBasket, MoveToDraft(w), Own(w) # {},
           status[w] = "QUEUED", NEW new \in {"EDITING", "ERRORED"},
           status' = [status EXCEPT ![w] = new], lastPk' = lastPk
    PROVE  Promise!Withdraw(w)
<1>1. /\ Core' /\ OnlyMoves(w)
      /\ Approved' = Approved \ Own(w)
      /\ \A t \in Approved' : transactions'[t] = transactions[t]
    BY MoveToDraftStep
<1>2. Own(w) \subseteq Approved
    BY DEF MoveToDraft
<1>3. w \notin PublishedWorkBaskets /\ PublishedWorkBaskets' = PublishedWorkBaskets
    BY DEF PublishedWorkBaskets, Core, TypeOK
<1>4. DraftChanges[w] = {}
    BY <1>2 DEF DraftChanges, Listed
<1> DEFINE H == ApprovedChanges
           E == Promise!Entries(w)
<1>5. /\ \A t, u \in Approved :
            <<Approval(t), Approval(u)>> \in H <=> t = u \/ Before(t, u)
      /\ \A pair \in H : \E t, u \in Approved : pair = <<Approval(t), Approval(u)>>
    BY HistoryPairs DEF HistoryIsListed
<1>6. E = {Approval(t) : t \in Own(w)}
    <2>1. Own(w) \cap Approved = Own(w)
        BY <1>2
    <2> QED
        BY <2>1, HistoryEntries
<1>7. \A t, u \in Approved : Approval(t) = Approval(u) => t = u
    BY ApprovalFields DEF Approved
<1>8. H' = Promise!Without(H, E)
    <2>1. \A t \in Approved' : Approval(t)' = Approval(t)
        BY <1>1 DEF Approval
    <2>2. \A t, u \in Approved' : Before(t, u)' <=> Before(t, u)
        BY <1>1 DEF Before
    <2>3. /\ \A t, u \in Approved \ Own(w) :
               <<Approval(t), Approval(u)>> \in H' <=> t = u \/ Before(t, u)
          /\ \A pair \in H' : \E t, u \in Approved \ Own(w) : pair = <<Approval(t), Approval(u)>>
        <3>1. HistoryIsListed'
            BY HistoryPairs, PTL
        <3> QED
            BY <1>1, <2>1, <2>2, <3>1 DEF HistoryIsListed
    <2>4. \A t \in Approved : Approval(t) \in E <=> t \in Own(w)
        BY <1>2, <1>6, <1>7
    <2> HIDE DEF H, E
    <2>5. ASSUME NEW pair \in H' PROVE pair \in Promise!Without(H, E)
        <3>1. PICK t \in Approved \ Own(w), u \in Approved \ Own(w) :
                pair = <<Approval(t), Approval(u)>>
            BY <2>3, <2>5
        <3>2. pair \in H /\ pair[1] = Approval(t) /\ pair[2] = Approval(u)
            BY <1>5, <2>3, <2>5, <3>1
        <3> QED
            BY <2>4, <3>1, <3>2 DEF Promise!Without
    <2>6. ASSUME NEW pair \in Promise!Without(H, E) PROVE pair \in H'
        <3>1. pair \in H /\ pair[1] \notin E /\ pair[2] \notin E
            BY <2>6 DEF Promise!Without
        <3>2. PICK t \in Approved, u \in Approved : pair = <<Approval(t), Approval(u)>>
            BY <1>5, <3>1
        <3>3. t \in Approved \ Own(w) /\ u \in Approved \ Own(w)
            BY <2>4, <3>1, <3>2
        <3> QED
            BY <1>5, <2>3, <3>1, <3>2, <3>3
    <2> QED
        BY <2>5, <2>6
<1>9. DraftChanges'[w] = Promise!Withdrawn(w)
    <2>1. DraftChanges'[w] = Listed(Own(w))'
        <3>1. (Own(w) \ Approved)' = Own(w)
            BY <1>1 DEF OnlyMoves
        <3>2. Own(w)' = Own(w)
            BY <1>1 DEF OnlyMoves
        <3> QED
            BY <3>1, <3>2 DEF DraftChanges, Listed
    <2>2. Listed(Own(w))' = Listed(Own(w))
        BY <1>1 DEF Listed, OnlyMoves, SameOrder
    <2>3. \A t \in Own(w) : Approval(t).change = t
        BY ApprovalFields DEF Own
    <2>4. Promise!Withdrawn(w) = {<<pair[1].change, pair[2].change>> : pair \in H \cap (E \X E)}
        BY DEF Promise!Withdrawn
    <2> HIDE DEF H, E
    <2>5. ASSUME NEW p \in Listed(Own(w)) PROVE p \in Promise!Withdrawn(w)
        <3>1. PICK t \in Own(w), u \in Own(w) : p = <<t, u>> /\ (t = u \/ Before(t, u))
            BY <2>5 DEF Listed
        <3>2. <<Approval(t), Approval(u)>> \in H \cap (E \X E)
            BY <1>2, <1>5, <1>6, <3>1
        <3>3. <<<<Approval(t), Approval(u)>>[1].change, <<Approval(t), Approval(u)>>[2].change>> = p
            BY <2>3, <3>1
        <3> QED
            BY <2>4, <3>2, <3>3
    <2>6. ASSUME NEW p \in Promise!Withdrawn(w) PROVE p \in Listed(Own(w))
        <3>1. PICK pair \in H \cap (E \X E) : p = <<pair[1].change, pair[2].change>>
            BY <2>4, <2>6
        <3>2. PICK t \in Own(w), u \in Own(w) : pair = <<Approval(t), Approval(u)>>
            BY <1>6, <3>1
        <3>3. t = u \/ Before(t, u)
            BY <1>2, <1>5, <3>1, <3>2
        <3>4. p = <<t, u>>
            BY <2>3, <3>1, <3>2
        <3> QED
            BY <3>3, <3>4, ListedRows
    <2> QED
        BY <2>1, <2>2, <2>5, <2>6
<1>10. DraftChanges' = [DraftChanges EXCEPT ![w] = Promise!Withdrawn(w)]
    <2>1. \A v \in WorkBasket \ {w} : DraftChanges'[v] = DraftChanges[v]
        BY <1>1, OtherDraftsStay
    <2> QED
        BY <1>9, <2>1 DEF DraftChanges
<1>11. Empty' = Empty
    BY MoveToDraftStep DEF Empty
<1> QED
    BY <1>3, <1>4, <1>8, <1>10, <1>11 DEF Promise!Withdraw

(* While all rows keep their places, the lists stay.                       *)
LEMMA ListsStay ==
    ASSUME Pk' = Pk,
           \A t \in Pk : /\ transactions'[t].workbasket = transactions[t].workbasket
                         /\ transactions'[t].partition = transactions[t].partition
                         /\ transactions'[t].order = transactions[t].order
    PROVE  DraftChanges' = DraftChanges /\ ApprovedChanges' = ApprovedChanges
<1>1. Approved' = Approved /\ \A w \in WorkBasket : Own(w)' = Own(w)
    BY DEF Approved, IsApproved, Own
<1>2. \A t, u \in Pk : Before(t, u)' <=> Before(t, u)
    BY DEF Before
<1>3. DraftChanges' = DraftChanges
    <2>1. \A w \in WorkBasket : Listed(Own(w) \ Approved)' = Listed(Own(w) \ Approved)
        BY <1>1, <1>2 DEF Listed, Own
    <2> QED
        BY <2>1 DEF DraftChanges
<1>4. ApprovedChanges' = ApprovedChanges
    <2>1. Listed(Approved)' = Listed(Approved)
        BY <1>1, <1>2 DEF Listed, Approved
    <2>2. \A t \in Pk : Approval(t)' = Approval(t)
        BY DEF Approval
    <2> QED
        BY <2>1, <2>2 DEF ApprovedChanges, Listed, Approved
<1> QED
    BY <1>3, <1>4

(* A change of status alone leaves everything. *)
LEMMA StatusUnseen ==
    ASSUME UNCHANGED transactions
    PROVE  /\ DraftChanges' = DraftChanges /\ ApprovedChanges' = ApprovedChanges
           /\ Empty' = Empty
<1>1. Pk' = Pk /\ Empty' = Empty
    BY DEF Pk, Empty
<1> QED
    BY <1>1, ListsStay

(* A deletion by hand from a workbasket that is not being edited voids     *)
(* changes of it.                                                          *)
LEMMA VoidImplemented ==
    ASSUME NEW w \in WorkBasket, NEW S \in SUBSET Own(w), Voids(S)
    PROVE  Promise!Void(w)
<1>1. /\ DraftChanges' = DraftChanges /\ ApprovedChanges' = ApprovedChanges
      /\ PublishedWorkBaskets' = PublishedWorkBaskets
    BY ListsStay DEF Voids, PublishedWorkBaskets
<1>2. Empty' = Empty \cup S
    BY DEF Voids, Empty, Own
<1>3. S \in SUBSET (Promise!Members(DraftChanges[w])
                     \cup {e.change : e \in Promise!Entries(w)})
    <2>1. Promise!Members(DraftChanges[w]) = Own(w) \ Approved
        BY ListedRows DEF DraftChanges
    <2>2. \A t \in Own(w) \cap Approved : /\ Approval(t) \in Promise!Entries(w)
                                          /\ Approval(t).change = t
        BY HistoryEntries, ApprovalFields DEF Own
    <2> QED
        BY <2>1, <2>2
<1> QED
    BY <1>1, <1>2, <1>3 DEF Promise!Void

(* Every step is a step of the lists, or leaves them.                      *)
LEMMA StepImplemented == IInv /\ IInv' /\ [Next]_vars => [Promise!Next]_Promise!vars
<1> SUFFICES ASSUME IInv, IInv', [Next]_vars PROVE [Promise!Next]_Promise!vars
    OBVIOUS
<1> USE DEF IInv
<1>1. Core /\ Core'
    OBVIOUS
<1>2. ASSUME NEW w \in WorkBasket,
             \/ Promise!Add(w) \/ Promise!Move(w) \/ Promise!Discard(w) \/ Promise!Void(w)
             \/ Promise!Approve(w) \/ Promise!Withdraw(w) \/ Promise!Publish(w)
      PROVE  [Promise!Next]_Promise!vars
    BY <1>2 DEF Promise!Next
<1>3. ASSUME UNCHANGED <<transactions, PublishedWorkBaskets>>
      PROVE  [Promise!Next]_Promise!vars
    BY <1>3, StatusUnseen DEF Promise!vars
<1>4. ASSUME NEW w \in WorkBasket, NEW o \in Object, Edit(w, o) \/ EndObject(w, o)
      PROVE  [Promise!Next]_Promise!vars
    <2>1. OnlyDraftsOf(w) /\ lastPk' \notin Pk /\ OneChange(w, lastPk')
        BY <1>1, <1>4, EditStep, EndObjectStep
    <2>2. lastPk' \in 1..MaxPk
        BY <1>1, <1>4, BoundAssumption DEF Core, TypeOK, Edit, EndObject
    <2>3. Promise!Add(w)
        BY <1>1, <2>1, <2>2, AddImplemented
    <2> QED
        BY <1>2, <2>3
<1>5. ASSUME NEW w \in WorkBasket, DeleteChanges(w)
      PROVE  [Promise!Next]_Promise!vars
    <2>1. CASE status[w] = "EDITING"
        <3>1. /\ OnlyDraftsOf(w)
              /\ \E S \in SUBSET Own(w) : Own(w)' = Own(w) \ S /\ SameOrder(Own(w) \ S)
            BY <1>1, <1>5, <2>1, DeleteChangesStep
        <3>2. Promise!Discard(w)
            BY <1>1, <3>1, DiscardImplemented
        <3> QED
            BY <1>2, <3>2
    <2>2. CASE status[w] # "EDITING"
        BY <1>1, <1>2, <1>5, <2>2, VoidStep, VoidImplemented
    <2> QED
        BY <2>1, <2>2
<1>6. ASSUME NEW t \in Pk,
             PromoteToTop(t) \/ DemoteToBottom(t) \/ Promote(t) \/ Demote(t)
      PROVE  [Promise!Next]_Promise!vars
    <2> DEFINE w == transactions[t].workbasket
    <2>1. w \in WorkBasket /\ t \in Own(w)
        BY <1>1, RowType DEF Core, Own
    <2>2. OnlyDraftsOf(w) /\ OneChange(w, t)
        BY <1>1, <1>6, PromoteToTopStep, DemoteToBottomStep, PromoteStep
    <2> HIDE DEF w
    <2>3. Promise!Move(w)
        BY <1>1, <2>1, <2>2, MoveImplemented
    <2> QED
        BY <1>2, <2>1, <2>3
<1>7. ASSUME NEW w \in WorkBasket, Queue(w)
      PROVE  [Promise!Next]_Promise!vars
    <2>1. CASE Own(w) # {}
        BY <1>1, <1>2, <1>7, <2>1, ApproveImplemented
    <2>2. CASE Own(w) = {}
        BY <1>1, <1>3, <1>7, <2>2 DEF Queue, PublishedWorkBaskets, Core, TypeOK
    <2> QED
        BY <2>1, <2>2
<1>8. ASSUME NEW w \in WorkBasket, Dequeue(w) \/ CdsError(w)
      PROVE  [Promise!Next]_Promise!vars
    <2>1. PICK new \in {"EDITING", "ERRORED"} : status' = [status EXCEPT ![w] = new]
        BY <1>8 DEF Dequeue, CdsError
    <2>2. MoveToDraft(w) /\ lastPk' = lastPk /\ status[w] = "QUEUED"
        BY <1>8 DEF Dequeue, CdsError
    <2>3. CASE Own(w) # {}
        BY <1>1, <1>2, <2>1, <2>2, <2>3, WithdrawImplemented
    <2>4. CASE Own(w) = {}
        BY <1>1, <1>3, <2>1, <2>2, <2>4 DEF MoveToDraft, PublishedWorkBaskets, Core, TypeOK
    <2> QED
        BY <2>3, <2>4
<1>9. ASSUME NEW w \in WorkBasket, CdsConfirmed(w)
      PROVE  [Promise!Next]_Promise!vars
    <2>1. DraftChanges[w] = {}
        <3>1. Own(w) \ Approved = {}
            BY <1>1, <1>9 DEF CdsConfirmed, Core, PartitionFollowsStatus, ApprovedStatus,
               Own, Approved
        <3> QED
            BY <3>1 DEF DraftChanges, Listed
    <2>2. PublishedWorkBaskets' = PublishedWorkBaskets \cup {w}
        BY <1>1, <1>9 DEF CdsConfirmed, PublishedWorkBaskets, Core, TypeOK
    <2>3. Promise!Publish(w)
        BY <1>9, <2>1, <2>2, StatusUnseen DEF CdsConfirmed, Promise!Publish
    <2> QED
        BY <1>2, <2>3
<1>10. ASSUME NEW w \in WorkBasket, Restore(w) \/ Archive(w) \/ Unarchive(w)
       PROVE  [Promise!Next]_Promise!vars
    BY <1>1, <1>3, <1>10
    DEF Restore, Archive, Unarchive, PublishedWorkBaskets, Core, TypeOK
<1>11. CASE UNCHANGED vars
    BY <1>3, <1>11 DEF vars, PublishedWorkBaskets
<1>12. CASE Next
    BY <1>4, <1>5, <1>6, <1>7, <1>8, <1>9, <1>10, <1>12 DEF Next
<1> QED
    BY <1>11, <1>12

(* Partitions and order numbers implement the lists of changes, for any    *)
(* number of workbaskets and changes, and through every sequence of edits, *)
(* reorderings, approvals, withdrawals, rejections and deletions.          *)
THEOREM TransactionsImplementHistory == Spec => ImplementsTariffHistory
<1>1. Init => Promise!Init
    <2> SUFFICES ASSUME Init PROVE Promise!Init
        OBVIOUS
    <2>1. Pk = {} /\ Approved = {}
        BY DEF Init, Pk, Approved
    <2>2. \A w \in WorkBasket : DraftChanges[w] = {}
        BY <2>1 DEF DraftChanges, Own, Listed
    <2>3. ApprovedChanges = {}
        BY <2>1 DEF ApprovedChanges, Listed
    <2>4. PublishedWorkBaskets = {}
        BY DEF Init, PublishedWorkBaskets
    <2> QED
        BY <2>1, <2>2, <2>3, <2>4 DEF Promise!Init, DraftChanges, Empty
<1> QED
    BY <1>1, StepImplemented, InvariantHolds, PTL DEF Spec, ImplementsTariffHistory, Promise!Spec
=============================================================================
