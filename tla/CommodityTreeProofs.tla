-------------------------- MODULE CommodityTreeProofs --------------------------
(***************************************************************************)
(* Theorems about CommodityTree, for lists of any length, indents of any   *)
(* depth, any suffixes and any goods that come in several versions, the    *)
(* chapter and skipped levels excepted (~AnyVersions).                     *)
(***************************************************************************)
EXTENDS CommodityTree, FiniteSetTheorems, SequenceTheorems, WellFoundedInduction, TLAPS

-----------------------------------------------------------------------------
(* The last and the first of a set of goods.                               *)

(* A set of goods that is not empty has a last one.  By minimality: of the *)
(* subsets without a last good, a smallest one would still have none with  *)
(* one good less.                                                          *)
LEMMA LowestIsLast ==
    ASSUME NEW n \in Nat, NEW S \in SUBSET (1..n), S # {}
    PROVE  Lowest(S) \in S /\ \A h \in S : h <= Lowest(S)
<1> DEFINE HasLast(T) == \E g \in T : \A h \in T : h <= g
           Bad == {T \in SUBSET S : T # {} /\ ~HasLast(T)}
<1>1. IsFiniteSet(S)
    <2>1. IsFiniteSet(1..n)
        BY FS_Interval
    <2> QED
        BY <2>1, FS_Subset
<1>2. Bad = {}
    <2>1. SUFFICES ASSUME Bad # {} PROVE FALSE
        OBVIOUS
    <2>2. IsWellFoundedOn(StrictSubsetOrdering(S), SUBSET S)
        <3>1. FiniteSubsetsOf(S) = SUBSET S
            BY <1>1, FS_FiniteSubsetsOfFinite
        <3> QED
            BY <3>1, FS_StrictSubsetOrderingWellFounded
    <2>3. PICK T \in Bad : \A U \in Bad : ~(<<U, T>> \in StrictSubsetOrdering(S))
        <3>1. Bad \subseteq SUBSET S
            OBVIOUS
        <3> HIDE DEF Bad
        <3> QED
            BY <2>1, <2>2, <3>1, WFMin
    <2>4. PICK x \in T : TRUE
        OBVIOUS
    <2>5. T \ {x} \notin Bad
        BY <2>3 DEF StrictSubsetOrdering
    <2>6. CASE T \ {x} = {}
        <3>1. x \in Nat
            BY <2>3, <2>4
        <3> QED
            BY <2>4, <2>6, <3>1
    <2>7. CASE HasLast(T \ {x})
        <3>1. PICK g \in T \ {x} : \A h \in T \ {x} : h <= g
            BY <2>7
        <3>2. x \in Nat /\ g \in Nat /\ \A h \in T : h \in Nat
            BY <2>3, <2>4, <3>1
        <3>3. CASE x <= g
            BY <2>3, <3>1, <3>2, <3>3
        <3>4. CASE g < x
            BY <2>3, <2>4, <3>1, <3>2, <3>4
        <3> QED
            BY <3>2, <3>3, <3>4
    <2> QED
        BY <2>3, <2>5, <2>6, <2>7
<1>3. HasLast(S)
    BY <1>2
<1> QED
    BY <1>3 DEF Lowest

(* There is only one. *)
LEMMA LowestIs ==
    ASSUME NEW S \in SUBSET Nat, NEW g \in S, \A h \in S : h <= g
    PROVE  Lowest(S) = g
<1>1. Lowest(S) \in S /\ \A h \in S : h <= Lowest(S)
    BY DEF Lowest
<1>2. Lowest(S) \in Nat /\ g \in Nat /\ Lowest(S) <= g /\ g <= Lowest(S)
    BY <1>1
<1> QED
    BY <1>2

(* ... and a first one. *)
LEMMA HasFirst ==
    ASSUME NEW n \in Nat, NEW S \in SUBSET (1..n), S # {}
    PROVE  \E g \in S : \A h \in S : g <= h
<1> DEFINE T == {k \in 1..n : n + 1 - k \in S}
<1>1. T # {}
    <2>1. PICK g \in S : TRUE
        OBVIOUS
    <2>2. n + 1 - g \in 1..n /\ n + 1 - (n + 1 - g) = g
        BY <2>1
    <2> QED
        BY <2>1, <2>2
<1>2. Lowest(T) \in T /\ \A k \in T : k <= Lowest(T)
    BY <1>1, LowestIsLast
<1> DEFINE g == n + 1 - Lowest(T)
<1>3. g \in S /\ Lowest(T) \in 1..n
    BY <1>2
<1>4. ASSUME NEW h \in S PROVE g <= h
    <2>1. h \in 1..n /\ n + 1 - h \in 1..n /\ n + 1 - (n + 1 - h) = h
        OBVIOUS
    <2>2. n + 1 - h <= Lowest(T)
        BY <1>2, <2>1
    <2> QED
        BY <1>3, <2>1, <2>2
<1> QED
    BY <1>3, <1>4

-----------------------------------------------------------------------------
(* The list.                                                               *)

(* A good stands at the place of its number; behind it come its versions,  *)
(* which are no different, and then the goods with larger numbers.         *)
Listed ==
    /\ \A i \in DOMAIN commodities :
        /\ commodities[i].good \in DOMAIN commodities
        /\ commodities[commodities[i].good] = commodities[i]
    /\ \A i, j \in DOMAIN commodities :
        i <= j => commodities[i].good <= commodities[j].good

LastGood == Last(commodities).good

(* What the members of the list are. *)
LEMMA MembersOfList ==
    ASSUME TypeOK, Listed
    PROVE  /\ Members \in SUBSET (1..Len(commodities)) /\ Members \in SUBSET Goods
           /\ Len(commodities) \in Nat
           /\ \A g \in Members : /\ commodities[g] \in Commodity
                                 /\ commodities[g].good = g
                                 /\ g \in Nat \ {0}
           /\ commodities # <<>> => /\ LastGood \in Members
                                    /\ \A g \in Members : g <= LastGood
                                    /\ commodities[LastGood] = Last(commodities)
           /\ Placeable \in SUBSET Members
           /\ \A g \in Placeable : IndentOf(g) \in Nat /\ IndentOf(g) <= MaxIndent
<1>1. /\ commodities \in Seq(Commodity) /\ Len(commodities) \in Nat
      /\ DOMAIN commodities = 1..Len(commodities)
      /\ \A i \in DOMAIN commodities : commodities[i] \in Commodity
    BY DEF TypeOK
<1>2. ASSUME NEW g \in Members
      PROVE  /\ g \in DOMAIN commodities /\ g \in Goods
             /\ commodities[g] \in Commodity
             /\ commodities[g].good = g
    BY <1>1 DEF Members, Listed, Commodity
<1>3. ASSUME commodities # <<>>
      PROVE  /\ LastGood \in Members
             /\ \A g \in Members : g <= LastGood
             /\ commodities[LastGood] = Last(commodities)
    <2>1. Len(commodities) \in DOMAIN commodities
        BY <1>1, <1>3, EmptySeq
    <2>2. \A i \in DOMAIN commodities : i <= Len(commodities)
        BY <1>1
    <2> QED
        BY <1>1, <2>1, <2>2 DEF Listed, LastGood, Last, Members
<1>4. Placeable \in SUBSET Members
    BY DEF Placeable
<1>5. ASSUME NEW g \in Placeable PROVE IndentOf(g) \in Nat /\ IndentOf(g) <= MaxIndent
    BY <1>2, MaxIndentAssumption DEF Placeable, IndentOf, Commodity, Indents
<1> QED
    BY <1>1, <1>2, <1>3, <1>4, <1>5 DEF Goods

(* The two ways to go on with the list: with a good behind all others, or  *)
(* with one more version of the last one, in a list that is regular.       *)
Fresh(c) ==
    /\ c.good \notin Members
    /\ \A g \in Members : g < c.good
    /\ c.good = Len(commodities) + 1

Repeated(c) ==
    /\ c.good \in Members
    /\ \A g \in Members : g <= c.good
    /\ commodities[c.good] = c
    /\ Regular
    /\ \E g \in Placeable : g < c.good

Reads(c) ==
    /\ c \in Commodity
    /\ ComesNext(c)
    /\ commodities' = Append(commodities, c)
    /\ Len(commodities) < MaxCommodities

LEMMA ReadKinds ==
    ASSUME TypeOK, Listed, ~AnyVersions, NEW c, Reads(c)
    PROVE  Fresh(c) \/ Repeated(c)
<1>1. /\ c.good = Len(commodities) + 1
      \/ /\ commodities # <<>> /\ c = Last(commodities)
         /\ Regular /\ \E g \in Placeable : g < c.good
    BY DEF Reads, ComesNext
<1>2. CASE c.good = Len(commodities) + 1
    <2>1. \A g \in Members : g \in 1..Len(commodities)
        BY MembersOfList
    <2> QED
        BY <1>2, <2>1, MembersOfList DEF Fresh
<1>3. CASE /\ commodities # <<>> /\ c = Last(commodities)
           /\ Regular /\ \E g \in Placeable : g < c.good
    BY <1>3, MembersOfList DEF Repeated, LastGood
<1> QED
    BY <1>1, <1>2, <1>3

(* What the list is afterwards. *)
LEMMA ReadEffect ==
    ASSUME TypeOK, Listed, ~AnyVersions, NEW c, Reads(c)
    PROVE  /\ Listed'
           /\ commodities' # <<>> /\ LastGood' = c.good
           /\ commodities' \in Seq(Commodity) /\ Len(commodities') <= MaxCommodities
           /\ Members' = Members \cup {c.good}
           /\ \A g \in Members : commodities'[g] = commodities[g]
           /\ commodities'[c.good] = c
           /\ c.good \in Goods /\ c.good \in Nat \ {0}
           /\ \A g \in Members : g <= c.good
<1> DEFINE n == Len(commodities)
<1>1. /\ commodities \in Seq(Commodity) /\ n \in Nat
      /\ DOMAIN commodities = 1..n
      /\ c \in Commodity /\ commodities' = Append(commodities, c) /\ n < MaxCommodities
    BY DEF TypeOK, Reads
<1>2. /\ commodities' \in Seq(Commodity) /\ Len(commodities') = n + 1
      /\ DOMAIN commodities' = 1..(n + 1)
      /\ \A i \in 1..n : commodities'[i] = commodities[i]
      /\ commodities'[n + 1] = c
    BY <1>1
<1>3. Last(commodities)' = c
    BY <1>2 DEF Last
<1>4. Members' = Members \cup {c.good}
    BY <1>1, <1>2 DEF Members
<1>5. c.good \in Goods /\ c.good \in Nat \ {0}
    BY <1>1 DEF Commodity, Goods
<1>6. Fresh(c) \/ Repeated(c)
    BY ReadKinds
<1>7. \A g \in Members : g <= c.good
    BY <1>5, <1>6, MembersOfList DEF Fresh, Repeated
<1>8. c.good \in 1..(n + 1) /\ commodities'[c.good] = c
    BY <1>1, <1>2, <1>6, MembersOfList DEF Fresh, Repeated
<1>9. \A g \in Members : commodities'[g] = commodities[g]
    BY <1>2, MembersOfList
<1>10. Listed'
    <2>1. ASSUME NEW i \in 1..(n + 1)
          PROVE  commodities'[i].good \in 1..(n + 1)
                 /\ commodities'[commodities'[i].good] = commodities'[i]
        <3>1. CASE i = n + 1
            BY <1>2, <1>8, <3>1
        <3>2. CASE i \in 1..n
            <4>1. commodities[i].good \in 1..n /\ commodities[commodities[i].good] = commodities[i]
                BY <1>1, <3>2 DEF Listed
            <4> QED
                BY <1>1, <1>2, <3>2, <4>1
        <3> QED
            BY <1>1, <3>1, <3>2
    <2>2. ASSUME NEW i \in 1..(n + 1), NEW j \in 1..(n + 1), i <= j
          PROVE  commodities'[i].good <= commodities'[j].good
        <3>1. CASE j \in 1..n
            BY <1>1, <1>2, <2>2, <3>1 DEF Listed
        <3>2. CASE j = n + 1 /\ i \in 1..n
            BY <1>1, <1>2, <1>7, <3>2 DEF Members
        <3>3. CASE i = n + 1
            BY <1>1, <1>2, <1>5, <2>2, <3>3
        <3> QED
            BY <1>1, <3>1, <3>2, <3>3
    <2> QED
        BY <1>2, <2>1, <2>2 DEF Listed
<1>11. commodities' # <<>> /\ Len(commodities') <= MaxCommodities
    BY <1>1, <1>2, MaxCommoditiesAssumption
<1>12. LastGood' = c.good
    BY <1>3 DEF LastGood
<1> QED
    BY <1>2, <1>4, <1>5, <1>7, <1>8, <1>9, <1>10, <1>11, <1>12

(* Which goods can be placed: those of before, and the one that was read.  *)
LEMMA PlaceableRead ==
    ASSUME TypeOK, Listed, ~AnyVersions, NEW c, Reads(c)
    PROVE  /\ \A g \in Placeable : /\ g \in Goods /\ commodities'[g] = commodities[g]
                                   /\ g <= c.good
           /\ c.indent = NoIndent => Placeable' = Placeable
           /\ c.indent # NoIndent => Placeable' = Placeable \cup {c.good}
           /\ commodities'[c.good] = c
           /\ Fresh(c) => \A g \in Placeable : g < c.good
           /\ Repeated(c) => Placeable' = Placeable /\ commodities[c.good] = c
<1>1. /\ Members' = Members \cup {c.good}
      /\ \A g \in Members : commodities'[g] = commodities[g] /\ g <= c.good
      /\ commodities'[c.good] = c
    BY ReadEffect
<1>2. Placeable \in SUBSET Members /\ Placeable' \in SUBSET Members' /\ Members \in SUBSET Goods
    BY MembersOfList DEF Placeable
<1>3. \A g \in Members : commodities'[g].indent = commodities[g].indent
    BY <1>1
<1>4. commodities'[c.good].indent = c.indent
    BY <1>1
<1>5. \A g \in Members' : g \in Placeable' <=> commodities'[g].indent # NoIndent
    BY DEF Placeable, IndentOf
<1>6. \A g \in Members : g \in Placeable <=> commodities[g].indent # NoIndent
    BY DEF Placeable, IndentOf
<1>7. ASSUME c.indent # NoIndent PROVE Placeable' = Placeable \cup {c.good}
    BY <1>1, <1>2, <1>3, <1>4, <1>5, <1>6, <1>7
<1>8. ASSUME Repeated(c) PROVE Placeable' = Placeable /\ commodities[c.good] = c
    <2>1. c.good \in Members /\ commodities[c.good] = c
        BY <1>8 DEF Repeated
    <2>2. Members' = Members
        BY <1>1, <2>1
    <2>3. \A g \in Members : g \in Placeable' <=> g \in Placeable
        BY <1>3, <1>5, <1>6, <2>2
    <2> QED
        BY <1>2, <2>1, <2>2, <2>3
<1>9. ASSUME Fresh(c) PROVE \A g \in Placeable : g < c.good
    BY <1>2, <1>9 DEF Fresh
<1>10. ASSUME c.indent = NoIndent PROVE Placeable' = Placeable
    <2>1. CASE Fresh(c)
        <3>1. c.good \notin Members
            BY <2>1 DEF Fresh
        <3>2. c.good \notin Placeable'
            BY <1>1, <1>4, <1>5, <1>10
        <3>3. \A g \in Members : g \in Placeable' <=> g \in Placeable
            BY <1>1, <1>3, <1>5, <1>6
        <3> QED
            BY <1>1, <1>2, <3>1, <3>2, <3>3
    <2> QED
        BY <1>8, <2>1, ReadKinds
<1> QED
    BY <1>1, <1>2, <1>3, <1>4, <1>7, <1>8, <1>9, <1>10

(* A list is regular when its first good has indent 0 and no good is more  *)
(* than one deeper than the one before it.                                 *)
RegularForm ==
    \A g \in Placeable :
        /\ (\A h \in Placeable : g <= h) => commodities[g].indent = 0
        /\ \A b \in Placeable :
            (b < g /\ \A h \in Placeable : h < g => h <= b)
            => commodities[g].indent <= commodities[b].indent + 1

LEMMA RegularIs == TypeOK /\ Listed => (Regular <=> RegularForm)
<1> SUFFICES ASSUME TypeOK, Listed PROVE Regular <=> RegularForm
    OBVIOUS
<1> DEFINE Before(g) == {h \in Placeable : h < g}
<1>1. Placeable \in SUBSET (1..Len(commodities)) /\ Len(commodities) \in Nat
    BY MembersOfList
<1>2. Regular <=> \A g \in Placeable :
        IF Before(g) = {} THEN commodities[g].indent = 0
        ELSE commodities[g].indent <= commodities[Lowest(Before(g))].indent + 1
    <2>1. Placeable \ {} = Placeable
        OBVIOUS
    <2> QED
        BY <2>1 DEF Regular, RegularWithout, IndentOf
<1>3. ASSUME NEW g \in Placeable
      PROVE  /\ Before(g) = {} <=> \A h \in Placeable : g <= h
             /\ Before(g) # {} => /\ Lowest(Before(g)) \in Before(g)
                                  /\ \A h \in Before(g) : h <= Lowest(Before(g))
             /\ \A b \in Before(g) : (\A h \in Before(g) : h <= b) => b = Lowest(Before(g))
    <2>0. g \in Nat /\ \A h \in Placeable : h \in Nat /\ h \in 1..Len(commodities)
        BY <1>1
    <2>1. Before(g) \in SUBSET (1..Len(commodities)) /\ Before(g) \in SUBSET Nat
        BY <2>0
    <2>2. Before(g) = {} <=> \A h \in Placeable : g <= h
        <3>1. \A h \in Placeable : g <= h <=> ~(h < g)
            BY <2>0
        <3> QED
            BY <3>1
    <2> HIDE DEF Before
    <2> QED
        BY <1>1, <2>1, <2>2, LowestIsLast, LowestIs
<1>4. ASSUME NEW g \in Placeable
      PROVE  (IF Before(g) = {} THEN commodities[g].indent = 0
              ELSE commodities[g].indent <= commodities[Lowest(Before(g))].indent + 1)
             <=> /\ (\A h \in Placeable : g <= h) => commodities[g].indent = 0
                 /\ \A b \in Placeable :
                      (b < g /\ \A h \in Placeable : h < g => h <= b)
                      => commodities[g].indent <= commodities[b].indent + 1
    <2>1. \A b \in Placeable : (b < g /\ \A h \in Placeable : h < g => h <= b)
                                <=> b \in Before(g) /\ \A h \in Before(g) : h <= b
        OBVIOUS
    <2>2. Before(g) \in SUBSET Placeable
        OBVIOUS
    <2>3. (Before(g) = {}) => ~ \E b \in Placeable : b \in Before(g)
        OBVIOUS
    <2> HIDE DEF Before
    <2> QED
        BY <1>3, <2>1, <2>2, <2>3
<1> QED
    BY <1>2, <1>4 DEF RegularForm

(* A regular list has been regular all the time; the next good is at most  *)
(* one deeper than the last, and the first one has indent 0.               *)
LEMMA RegularRead ==
    ASSUME TypeOK, TypeOK', Listed, ~AnyVersions, NEW c, Reads(c), Regular'
    PROVE  /\ Regular
           /\ Fresh(c) /\ c.indent # NoIndent =>
                IF Placeable = {} THEN c.indent = 0
                ELSE c.indent <= commodities[Lowest(Placeable)].indent + 1
<1>1. Listed'
    BY ReadEffect
<1>2. Regular <=> RegularForm
    BY RegularIs
<1>3. (TypeOK /\ Listed => (Regular <=> RegularForm))'
    BY RegularIs, PTL
<1>4. RegularForm'
    BY <1>1, <1>3
<1>5. /\ \A g \in Placeable : commodities'[g] = commodities[g] /\ g <= c.good
      /\ commodities'[c.good] = c
      /\ Placeable \in SUBSET Placeable'
      /\ c.indent # NoIndent => c.good \in Placeable'
      /\ Fresh(c) => \A g \in Placeable : g < c.good
      /\ Placeable' \in SUBSET (Placeable \cup {c.good})
    <2>1. Fresh(c) \/ Repeated(c)
        BY ReadKinds
    <2> QED
        BY <2>1, PlaceableRead
<1>6. c.good \in Nat /\ \A g \in Placeable : g \in Nat
    BY MembersOfList, ReadEffect
<1>7. RegularForm
    <2>1. \A g \in Placeable :
            /\ (\A h \in Placeable' : g <= h) => commodities[g].indent = 0
            /\ \A b \in Placeable :
                (b < g /\ \A h \in Placeable' : h < g => h <= b) => commodities[g].indent <= commodities[b].indent + 1
        BY <1>4, <1>5 DEF RegularForm
    <2>2. \A g \in Placeable : (\A h \in Placeable : g <= h) => \A h \in Placeable' : g <= h
        BY <1>5, <1>6
    <2>3. \A g, b \in Placeable : (\A h \in Placeable : h < g => h <= b)
                                    => \A h \in Placeable' : h < g => h <= b
        BY <1>5, <1>6
    <2> QED
        BY <2>1, <2>2, <2>3 DEF RegularForm
<1>8. ASSUME Fresh(c), c.indent # NoIndent, Placeable = {}
      PROVE  c.indent = 0
    <2>1. Placeable' = {c.good}
        BY <1>5, <1>8
    <2> QED
        BY <1>4, <1>5, <1>6, <2>1 DEF RegularForm
<1>9. ASSUME Fresh(c), c.indent # NoIndent, Placeable # {}
      PROVE  c.indent <= commodities[Lowest(Placeable)].indent + 1
    <2> DEFINE b == Lowest(Placeable)
    <2>1. b \in Placeable /\ \A h \in Placeable : h <= b
        BY <1>9, MembersOfList, LowestIsLast
    <2>2. /\ c.good \in Placeable' /\ b \in Placeable' /\ b < c.good
          /\ \A h \in Placeable' : h < c.good => h <= b
        BY <1>5, <1>6, <1>9, <2>1
    <2> HIDE DEF b
    <2>3. commodities'[c.good].indent <= commodities'[b].indent + 1
        BY <1>4, <2>2 DEF RegularForm
    <2>4. commodities'[b].indent = commodities[b].indent
        BY <1>5, <2>1
    <2> QED
        BY <1>5, <2>3, <2>4 DEF b
<1> QED
    BY <1>2, <1>7, <1>8, <1>9

-----------------------------------------------------------------------------
(* Sequences of goods.                                                     *)

Increasing(s) == \A i, j \in DOMAIN s : i < j => s[i] < s[j]

(* The first goods of a column. *)
LEMMA FirstOnes ==
    ASSUME NEW S, NEW s, NEW m \in Int, \A i \in 1..m : s[i] \in S,
           NEW p, p = SubSeq(s, 1, m)
    PROVE  /\ p \in Seq(S)
           /\ Len(p) = IF 1 <= m THEN m ELSE 0
           /\ \A i \in 1..m : p[i] = s[i]
<1>1. /\ p \in Seq(S)
      /\ Len(p) = IF 1 <= m THEN m - 1 + 1 ELSE 0
      /\ \A i \in 1..(m - 1 + 1) : p[i] = s[1 + i - 1]
    <2>1. 1 \in Int
        OBVIOUS
    <2> QED
        BY <2>1, SubSeqProperties
<1>2. m - 1 + 1 = m
    OBVIOUS
<1>3. \A i \in 1..m : 1 + i - 1 = i
    OBVIOUS
<1> QED
    BY <1>1, <1>2, <1>3

(* The column after a good took its place at indent k. *)
LEMMA PlacedColumn ==
    ASSUME column \in Seq(Goods), NEW g \in Goods, NEW k \in Nat
    PROVE  /\ k = 0 => Placed(g, k) = <<>>
           /\ k > 0 => LET m == AtMost(k - 1, Len(column))
                       IN  /\ m \in 0..Len(column) /\ m <= k - 1
                           /\ Len(Placed(g, k)) = m + 1
                           /\ \A i \in 1..m : Placed(g, k)[i] = column[i]
                           /\ Placed(g, k)[m + 1] = g
           /\ Placed(g, k) \in Seq(Goods)
           /\ Len(Placed(g, k)) <= k
<1>1. CASE k = 0
    BY <1>1 DEF Placed
<1>2. CASE k > 0
    <2> DEFINE m == AtMost(k - 1, Len(column))
               kept == SubSeq(column, 1, m)
    <2>1. Len(column) \in Nat /\ m \in 0..Len(column) /\ m <= k - 1 /\ m \in Int
        BY <1>2 DEF AtMost
    <2>2. \A i \in 1..m : column[i] \in Goods
        BY <2>1, ElementOfSeq
    <2>3. /\ kept \in Seq(Goods) /\ Len(kept) = m
          /\ \A i \in 1..m : kept[i] = column[i]
        <3>1. 1 <= m \/ m = 0
            BY <2>1
        <3> HIDE DEF m
        <3>2. /\ kept \in Seq(Goods) /\ Len(kept) = IF 1 <= m THEN m ELSE 0
              /\ \A i \in 1..m : kept[i] = column[i]
            BY <2>1, <2>2, FirstOnes
        <3> HIDE DEF kept
        <3> QED
            BY <3>1, <3>2
    <2>4. Placed(g, k) = Append(kept, g)
        <3>1. k # 0
            BY <1>2
        <3> QED
            BY <3>1, Zenon DEF Placed
    <2> HIDE DEF kept
    <2>5. /\ Append(kept, g) \in Seq(Goods) /\ Len(Append(kept, g)) = m + 1
          /\ \A i \in 1..m : Append(kept, g)[i] = column[i]
          /\ Append(kept, g)[m + 1] = g
        BY <2>1, <2>3
    <2> QED
        BY <1>2, <2>1, <2>4, <2>5
<1> QED
    BY <1>1, <1>2

(* The way that the loop starts with: the goods above the last one. *)
LEMMA WayStart ==
    ASSUME NEW col \in Seq(Goods), NEW k \in Nat
    PROVE  LET w == SubSeq(col, 1, AtMost(k - 1, Len(col)))
           IN  /\ w \in Seq(Goods) /\ Len(w) \in 0..Len(col)
               /\ Len(w) = IF k > 0 THEN AtMost(k - 1, Len(col)) ELSE 0
               /\ \A i \in 1..Len(w) : w[i] = col[i]
<1> DEFINE m == AtMost(k - 1, Len(col))
           w == SubSeq(col, 1, m)
<1>1. Len(col) \in Nat /\ m \in Int /\ m <= Len(col) /\ m <= k - 1 /\ (k > 0 => m >= 0)
    BY DEF AtMost
<1>2. \A i \in 1..m : col[i] \in Goods
    BY <1>1, ElementOfSeq
<1> HIDE DEF m
<1>3. /\ w \in Seq(Goods)
      /\ Len(w) = IF 1 <= m THEN m ELSE 0
      /\ \A i \in 1..m : w[i] = col[i]
    BY <1>1, <1>2, FirstOnes
<1> HIDE DEF w
<1>4. \A i \in 1..Len(w) : i \in 1..m
    BY <1>1, <1>3
<1>5. Len(w) \in 0..Len(col) /\ Len(w) = IF k > 0 THEN m ELSE 0
    BY <1>1, <1>3
<1>6. w \in Seq(Goods) /\ \A i \in 1..Len(w) : w[i] = col[i]
    BY <1>3, <1>4
<1> QED
    BY <1>5, <1>6, Zenon DEF m, w

(* One more ancestor in front of the way. *)
LEMMA Prepended ==
    ASSUME NEW s \in Seq(Goods), NEW g \in Goods, NEW t, t = <<g>> \o s
    PROVE  /\ t \in Seq(Goods) /\ t # <<>> /\ Head(t) = g
           /\ Elems(t) = {g} \cup Elems(s)
           /\ Increasing(s) /\ (s # <<>> => g < Head(s)) => Increasing(t)
<1>1. <<g>> \in Seq(Goods) /\ Len(<<g>>) = 1 /\ <<g>>[1] = g
    OBVIOUS
<1>2. /\ t \in Seq(Goods) /\ Len(t) = 1 + Len(s)
      /\ \A i \in 1..(1 + Len(s)) : t[i] = IF i <= 1 THEN <<g>>[i] ELSE s[i - 1]
    BY <1>1, ConcatProperties
<1>3. /\ Len(s) \in Nat /\ DOMAIN s = 1..Len(s) /\ DOMAIN t = 1..(1 + Len(s))
      /\ t[1] = g /\ \A i \in 1..Len(s) : t[i + 1] = s[i]
      /\ \A i \in 2..(1 + Len(s)) : i - 1 \in 1..Len(s) /\ t[i] = s[i - 1]
    BY <1>1, <1>2
<1>4. t # <<>> /\ Head(t) = g
    BY <1>2, <1>3
<1>5. Elems(t) = {g} \cup Elems(s)
    <2>1. ASSUME NEW x \in Elems(t) PROVE x \in {g} \cup Elems(s)
        <3>1. PICK i \in 1..(1 + Len(s)) : x = t[i]
            BY <1>3, <2>1 DEF Elems
        <3>2. i = 1 \/ i \in 2..(1 + Len(s))
            BY <1>3
        <3> QED
            BY <1>3, <3>1, <3>2 DEF Elems
    <2>2. ASSUME NEW x \in Elems(s) PROVE x \in Elems(t)
        <3>1. PICK i \in 1..Len(s) : x = s[i]
            BY <1>3, <2>2 DEF Elems
        <3>2. i + 1 \in 1..(1 + Len(s))
            BY <1>3
        <3> QED
            BY <1>3, <3>1, <3>2 DEF Elems
    <2>3. g \in Elems(t)
        <3>1. 1 \in 1..(1 + Len(s))
            BY <1>3
        <3> QED
            BY <1>3, <3>1 DEF Elems
    <2> QED
        BY <2>1, <2>2, <2>3
<1>6. ASSUME Increasing(s), s # <<>> => g < Head(s) PROVE Increasing(t)
    <2> SUFFICES ASSUME NEW i \in 1..(1 + Len(s)), NEW j \in 1..(1 + Len(s)), i < j
                 PROVE  t[i] < t[j]
        BY <1>3 DEF Increasing
    <2>1. j \in 2..(1 + Len(s)) /\ j - 1 \in 1..Len(s) /\ t[j] = s[j - 1]
        BY <1>3
    <2>2. s # <<>> /\ Head(s) = s[1] /\ 1 \in 1..Len(s)
        BY <1>3, <2>1
    <2>3. \A n \in 1..Len(s) : s[n] \in Nat
        <3>1. \A n \in 1..Len(s) : s[n] \in Goods
            BY ElementOfSeq
        <3>2. \A x \in Goods : x \in Nat
            BY DEF Goods
        <3> QED
            BY <3>1, <3>2
    <2>4. CASE i = 1
        <3>1. CASE j = 2
            BY <1>3, <1>6, <2>1, <2>2, <2>4, <3>1
        <3>2. CASE j > 2
            <4>1. s[1] < s[j - 1]
                <5>1. 1 < j - 1
                    BY <2>1, <3>2
                <5> QED
                    BY <1>3, <1>6, <2>1, <2>2, <5>1 DEF Increasing
            <4>2. g < s[1] /\ g \in Nat /\ s[1] \in Nat /\ s[j - 1] \in Nat
                BY <1>6, <2>1, <2>2, <2>3 DEF Goods
            <4> QED
                BY <1>3, <2>1, <2>4, <4>1, <4>2
        <3> QED
            BY <2>1, <3>1, <3>2
    <2>5. CASE i # 1
        <3>1. i - 1 \in 1..Len(s) /\ t[i] = s[i - 1] /\ i - 1 < j - 1
            BY <1>3, <2>5
        <3> QED
            BY <1>3, <1>6, <2>1, <3>1 DEF Increasing
    <2> QED
        BY <2>4, <2>5
<1> QED
    BY <1>2, <1>4, <1>5, <1>6

-----------------------------------------------------------------------------
(* Types.                                                                  *)

(* A parent is a good, or nobody. *)
LEMMA ParentType ==
    ASSUME TypeOK, NEW k \in Nat, NEW suffix
    PROVE  ParentOf(k, suffix) \in Goods \cup {Nobody}
<1>1. /\ zeros \in Seq(Goods) /\ column \in Seq(Goods)
      /\ Len(zeros) \in Nat /\ Len(column) \in Nat
      /\ \A i \in 1..Len(zeros) : zeros[i] \in Goods
      /\ \A i \in 1..Len(column) : column[i] \in Goods
      /\ DOMAIN zeros = 1..Len(zeros)
    BY DEF TypeOK
<1>2. FirstZero \in Goods \cup {Nobody}
    BY <1>1, HeadTailProperties DEF FirstZero
<1>3. ParentOfZero(suffix) \in Goods \cup {Nobody}
    <2> DEFINE lower == {i \in DOMAIN zeros : SuffixOf(zeros[i]) < suffix}
    <2>1. lower \in SUBSET (1..Len(zeros))
        BY <1>1
    <2>2. lower # {} => Lowest(lower) \in lower
        BY <1>1, <2>1, LowestIsLast
    <2>3. ParentOfZero(suffix) = IF lower = {} THEN FirstZero ELSE zeros[Lowest(lower)]
        BY DEF ParentOfZero
    <2> HIDE DEF lower
    <2> QED
        BY <1>1, <1>2, <2>1, <2>2, <2>3
<1>4. zeros # <<>> => Last(zeros) \in Goods
    BY <1>1, EmptySeq DEF Last
<1>5. ASSUME k >= 2, column # <<>> PROVE column[AtMost(k - 1, Len(column))] \in Goods
    <2>1. Len(column) >= 1
        BY <1>1, <1>5, EmptySeq
    <2>2. AtMost(k - 1, Len(column)) \in 1..Len(column)
        BY <1>1, <1>5, <2>1 DEF AtMost
    <2> QED
        BY <1>1, <2>2
<1> QED
    BY <1>2, <1>3, <1>4, <1>5 DEF ParentOf

Step(c) == Reads(c) /\ ~climbing /\ (Skip(c) \/ Visit(c))

(* What Read does. *)
LEMMA ReadIsStep ==
    ASSUME Read
    PROVE  \E c : Step(c)
<1>1. PICK g \in Goods, suffix \in Suffixes, dated \in Indents \cup {NoIndent},
           latest \in Indents \cup {NoIndent} :
        LET c == [good |-> g, suffix |-> suffix, indent |-> UsedIndent(dated, latest)]
        IN  /\ ComesNext(c)
            /\ commodities' = Append(commodities, c)
            /\ Skip(c) \/ Visit(c)
    BY DEF Read
<1> DEFINE c == [good |-> g, suffix |-> suffix, indent |-> UsedIndent(dated, latest)]
<1>2. UsedIndent(dated, latest) \in Indents \cup {NoIndent}
    BY DEF UsedIndent
<1>3. c \in Commodity
    BY <1>2 DEF Commodity
<1> QED
    BY <1>1, <1>3 DEF Step, Reads, Read

(* A good that is visited has an indent. *)
LEMMA VisitedIndent ==
    ASSUME NEW c, Reads(c), Visit(c)
    PROVE  c.indent \in Nat /\ c.indent <= MaxIndent /\ c.good \in Goods
BY MaxIndentAssumption DEF Reads, Visit, Commodity, Indents

(* The columns and dictionaries keep their types. *)
LEMMA TypeStep ==
    ASSUME TypeOK, Listed, ~AnyVersions, [Next]_vars
    PROVE  TypeOK'
<1>1. ASSUME NEW c, Step(c) PROVE TypeOK'
    <2>1. /\ commodities' \in Seq(Commodity) /\ Len(commodities') <= MaxCommodities
          /\ commodities' # <<>>
        BY <1>1, ReadEffect DEF Step
    <2>2. CASE Skip(c)
        BY <1>1, <2>1, <2>2 DEF TypeOK, Skip
    <2>3. CASE Visit(c)
        <3>1. c.indent \in Nat /\ c.indent <= MaxIndent /\ c.good \in Goods
            BY <1>1, <2>3, VisitedIndent DEF Step
        <3>2. edges' \in [Goods -> Goods \cup {Nobody}]
            BY <2>3, <3>1, ParentType DEF Visit, TypeOK
        <3>3. zeros' \in Seq(Goods)
            BY <2>3, <3>1 DEF Visit, TypeOK
        <3>4. column' \in Seq(Goods) /\ Len(column') <= MaxIndent
            <4>1. /\ column' = Placed(c.good, c.indent)
                  /\ column \in Seq(Goods)
                BY <2>3 DEF Visit, TypeOK
            <4>2. Placed(c.good, c.indent) \in Seq(Goods) /\ Len(Placed(c.good, c.indent)) <= c.indent
                BY <3>1, <4>1, PlacedColumn
            <4> QED
                BY <3>1, <4>1, <4>2, MaxIndentAssumption
        <3>5. way' \in Seq(Goods)
            BY <2>3, <3>1, <3>4, WayStart DEF Visit
        <3> QED
            BY <2>1, <2>3, <3>2, <3>3, <3>4, <3>5 DEF TypeOK, Visit
    <2> QED
        BY <1>1, <2>2, <2>3 DEF Step
<1>2. ASSUME TypeOK, commodities # <<>> PROVE Last(commodities).good \in Goods
    <2>1. commodities \in Seq(Commodity) /\ Len(commodities) \in 1..Len(commodities)
        BY <1>2, EmptySeq DEF TypeOK
    <2>2. Last(commodities) \in Commodity
        BY <2>1, ElementOfSeq DEF Last
    <2> QED
        BY <2>2 DEF Commodity
<1>3. CASE Climb
    <2>1. Above \in Goods
        <3> DEFINE x == IF way = <<>> THEN Last(commodities).good ELSE Head(way)
        <3>1. x \in Goods
            BY <1>2, <1>3, HeadTailProperties DEF Climb, TypeOK
        <3>2. edges \in [Goods -> Goods \cup {Nobody}] /\ Above # Nobody
            BY <1>3 DEF Climb, TypeOK
        <3>3. Above = edges[x]
            BY Zenon DEF Above
        <3> HIDE DEF x
        <3> QED
            BY <3>1, <3>2, <3>3
    <2>2. way' \in Seq(Goods)
        BY <1>3, <2>1, Prepended DEF Climb, TypeOK
    <2> QED
        BY <1>3, <2>2 DEF Climb, TypeOK
<1>4. CASE Arrive
    <2>1. Last(commodities).good \in Goods
        BY <1>2, <1>4 DEF Arrive, TypeOK
    <2> DEFINE g == Last(commodities).good
               D(h) == descendants[h] \cup IF h \in Elems(way) THEN {g} ELSE {}
    <2>2. /\ ancestors' = [ancestors EXCEPT ![g] = way]
          /\ descendants' = [h \in Goods |-> D(h)]
          /\ climbing' = FALSE /\ way' = <<>>
          /\ UNCHANGED <<commodities, zeros, column, edges>>
        BY <1>4 DEF Arrive
    <2>3. \A h \in Goods : D(h) \in SUBSET Goods
        BY <2>1 DEF TypeOK
    <2> HIDE DEF D
    <2>4. descendants' \in [Goods -> SUBSET Goods]
        BY <2>2, <2>3
    <2>5. ancestors' \in [Goods -> Seq(Goods)]
        BY <2>1, <2>2 DEF TypeOK
    <2>6. ~climbing' /\ climbing' \in BOOLEAN /\ way' = <<>>
        BY <1>4 DEF Arrive
    <2>7. commodities' = commodities /\ zeros' = zeros /\ column' = column /\ edges' = edges
        BY <1>4 DEF Arrive
    <2> QED
        BY <2>4, <2>5, <2>6, <2>7 DEF TypeOK
<1>5. CASE UNCHANGED vars
    BY <1>5 DEF vars, TypeOK
<1> QED
    BY <1>1, <1>3, <1>4, <1>5, ReadIsStep DEF Next

-----------------------------------------------------------------------------
(* The invariant behind the climb.                                         *)

(* indents[0] holds the 0-indents of the list, in order. *)
ZerosInv ==
    /\ \A i \in DOMAIN zeros : zeros[i] \in Placeable /\ commodities[zeros[i]].indent = 0
    /\ \A g \in Placeable : commodities[g].indent = 0 => \E i \in DOMAIN zeros : zeros[i] = g
    /\ \A i, j \in DOMAIN zeros : i <= j => zeros[i] <= zeros[j]

(* In a regular list, the column holds at each indent up to that of the    *)
(* last good the last good there, and all goods behind it are deeper.      *)
RegularColumn ==
    /\ Placeable # {} => Len(column) = commodities[Lowest(Placeable)].indent
    /\ \A j \in DOMAIN column :
        /\ commodities[column[j]].indent = j
        /\ \A h \in Placeable : column[j] < h => commodities[h].indent > j

ColumnInv ==
    /\ \A j \in DOMAIN column : column[j] \in Placeable
    /\ Increasing(column)
    /\ Regular => RegularColumn

(* A parent comes before its child. *)
Upward == \A g \in Goods : edges[g] < g

WayInv ==
    /\ Increasing(way)
    /\ climbing => LastGood \in Placeable

ClimbInv == Listed /\ ZerosInv /\ ColumnInv /\ Upward /\ WayInv

(* The suffix that is looked up is that of the good. *)
LEMMA SuffixIs ==
    ASSUME TypeOK, Listed, NEW g \in Members
    PROVE  SuffixOf(g) = commodities[g].suffix
<1>1. ASSUME NEW d \in Elems(commodities), d.good = g
      PROVE  d = commodities[g]
    BY <1>1 DEF Elems, Listed
<1>2. commodities[g] \in Elems(commodities) /\ commodities[g].good = g
    <2>1. g \in DOMAIN commodities
        BY MembersOfList DEF TypeOK
    <2> QED
        BY <2>1, MembersOfList DEF Elems
<1> HIDE DEF Elems
<1> DEFINE d == CHOOSE x \in Elems(commodities) : x.good = g
<1>3. d \in Elems(commodities) /\ d.good = g
    BY <1>2
<1>4. d = commodities[g]
    BY <1>1, <1>3
<1>5. SuffixOf(g) = d.suffix
    BY DEF SuffixOf
<1> QED
    BY <1>4, <1>5

(* The good that was read last is the last that can be placed. *)
LEMMA LastPlaceable ==
    ASSUME TypeOK, Listed, ~AnyVersions, NEW c, Reads(c), c.indent # NoIndent
    PROVE  c.good \in Placeable' /\ Lowest(Placeable') = c.good
<1>1. c.good \in Placeable' /\ \A g \in Placeable' : g <= c.good
    <2>1. c.good \in Nat
        BY ReadEffect
    <2> QED
        BY <2>1, PlaceableRead
<1>2. Placeable' \in SUBSET Nat
    <2>1. \A g \in Placeable' : g \in Members \cup {c.good}
        BY ReadEffect DEF Placeable
    <2> QED
        BY <2>1, MembersOfList, ReadEffect
<1> QED
    BY <1>1, <1>2, LowestIs

(* In a regular list the column is long enough for the next good. *)
LEMMA DepthRead ==
    ASSUME TypeOK, TypeOK', Listed, ~AnyVersions, ColumnInv,
           NEW c, Reads(c), c.indent # NoIndent
    PROVE  /\ Regular' => c.indent <= Len(column) + 1
           /\ Repeated(c) => RegularColumn /\ c.indent = Len(column)
<1>1. Len(column) \in Nat
    BY DEF TypeOK
<1>2. ASSUME Repeated(c) PROVE RegularColumn /\ c.indent = Len(column)
    <2>1. RegularColumn
        BY <1>2 DEF Repeated, ColumnInv
    <2>2. Placeable' = Placeable /\ commodities[c.good] = c
        BY <1>2, PlaceableRead
    <2>3. Lowest(Placeable) = c.good /\ Placeable # {}
        BY <2>2, LastPlaceable
    <2> QED
        BY <2>1, <2>2, <2>3 DEF RegularColumn
<1>3. ASSUME Regular' PROVE c.indent <= Len(column) + 1
    <2>1. CASE Fresh(c) /\ Placeable = {}
        BY <1>1, <1>3, <2>1, RegularRead
    <2>2. CASE Fresh(c) /\ Placeable # {}
        <3>1. RegularColumn
            BY <1>3, RegularRead DEF ColumnInv
        <3> QED
            BY <1>3, <2>2, <3>1, RegularRead DEF RegularColumn
    <2>3. CASE Repeated(c)
        BY <1>1, <1>2, <2>3
    <2> QED
        BY <2>1, <2>2, <2>3, ReadKinds
<1> QED
    BY <1>2, <1>3

LEMMA ZerosStep ==
    ASSUME TypeOK, Listed, ~AnyVersions, ZerosInv, NEW c, Step(c)
    PROVE  ZerosInv'
<1>1. /\ Reads(c)
      /\ \A g \in Placeable : g \in Goods /\ commodities'[g] = commodities[g] /\ g <= c.good
      /\ commodities'[c.good] = c
      /\ c.good \in Nat
    BY PlaceableRead, ReadEffect DEF Step
<1>2. CASE Skip(c)
    <2>1. Placeable' = Placeable /\ zeros' = zeros
        BY <1>1, <1>2, PlaceableRead DEF Skip
    <2> QED
        BY <1>1, <2>1 DEF ZerosInv
<1>3. CASE Visit(c)
    <2>1. Placeable' = Placeable \cup {c.good}
        BY <1>1, <1>3, PlaceableRead DEF Visit
    <2>2. CASE c.indent # 0
        <3>1. zeros' = zeros
            BY <1>3, <2>2 DEF Visit
        <3> QED
            BY <1>1, <2>1, <2>2, <3>1 DEF ZerosInv
    <2>3. CASE c.indent = 0
        <3> DEFINE n == Len(zeros)
        <3>1. /\ n \in Nat /\ DOMAIN zeros = 1..n /\ DOMAIN zeros' = 1..(n + 1)
              /\ \A i \in 1..n : zeros'[i] = zeros[i]
              /\ zeros'[n + 1] = c.good
            BY <1>3, <2>3 DEF Visit, TypeOK
        <3> HIDE DEF n
        <3>2. /\ \A i \in 1..n : zeros[i] \in Placeable /\ commodities[zeros[i]].indent = 0
              /\ \A g \in Placeable : commodities[g].indent = 0 => \E i \in 1..n : zeros[i] = g
              /\ \A i, j \in 1..n : i <= j => zeros[i] <= zeros[j]
            BY <3>1 DEF ZerosInv
        <3>3. ASSUME NEW i \in 1..(n + 1)
              PROVE  zeros'[i] \in Placeable' /\ commodities'[zeros'[i]].indent = 0
            <4>1. i \in 1..n \/ i = n + 1
                BY <3>1
            <4> QED
                BY <1>1, <2>1, <2>3, <3>1, <3>2, <4>1
        <3>4. ASSUME NEW g \in Placeable', commodities'[g].indent = 0
              PROVE  \E i \in 1..(n + 1) : zeros'[i] = g
            <4>1. n + 1 \in 1..(n + 1) /\ \A i \in 1..n : i \in 1..(n + 1)
                BY <3>1
            <4> QED
                BY <1>1, <2>1, <3>1, <3>2, <3>4, <4>1
        <3>5. ASSUME NEW i \in 1..(n + 1), NEW j \in 1..(n + 1), i <= j
              PROVE  zeros'[i] <= zeros'[j]
            <4>1. CASE j \in 1..n
                BY <3>1, <3>2, <3>5, <4>1
            <4>2. CASE j = n + 1 /\ i \in 1..n
                BY <1>1, <3>1, <3>2, <4>2
            <4>3. CASE j = n + 1 /\ i = n + 1
                BY <1>1, <3>1, <4>3
            <4> QED
                BY <3>1, <4>1, <4>2, <4>3
        <3> QED
            BY <3>1, <3>3, <3>4, <3>5 DEF ZerosInv
    <2> QED
        BY <2>2, <2>3
<1> QED
    BY <1>2, <1>3 DEF Step

(* What the invariants say of the places of the columns. *)
LEMMA ZerosPlaces ==
    ASSUME TypeOK, ZerosInv
    PROVE  /\ Len(zeros) \in Nat /\ DOMAIN zeros = 1..Len(zeros) /\ zeros \in Seq(Goods)
           /\ \A i \in 1..Len(zeros) : zeros[i] \in Placeable /\ commodities[zeros[i]].indent = 0
           /\ \A i, j \in 1..Len(zeros) : i <= j => zeros[i] <= zeros[j]
<1>1. zeros \in Seq(Goods)
    BY DEF TypeOK
<1>2. Len(zeros) \in Nat /\ DOMAIN zeros = 1..Len(zeros)
    BY <1>1
<1> QED
    BY <1>1, <1>2 DEF ZerosInv

LEMMA ColumnPlaces ==
    ASSUME TypeOK, ColumnInv
    PROVE  /\ Len(column) \in Nat /\ DOMAIN column = 1..Len(column) /\ column \in Seq(Goods)
           /\ \A j \in 1..Len(column) : column[j] \in Placeable
           /\ \A i, j \in 1..Len(column) : i < j => column[i] < column[j]
<1>1. column \in Seq(Goods)
    BY DEF TypeOK
<1>2. Len(column) \in Nat /\ DOMAIN column = 1..Len(column)
    BY <1>1
<1> QED
    BY <1>1, <1>2 DEF ColumnInv, Increasing

LEMMA ColumnStep ==
    ASSUME TypeOK, TypeOK', Listed, ~AnyVersions, ColumnInv, NEW c, Step(c)
    PROVE  ColumnInv'
<1>1. /\ Reads(c)
      /\ \A g \in Placeable : g \in Goods /\ commodities'[g] = commodities[g] /\ g <= c.good
      /\ Fresh(c) => \A g \in Placeable : g < c.good
      /\ commodities'[c.good] = c
      /\ c.good \in Nat
    BY PlaceableRead, ReadEffect DEF Step
<1>2. Regular' => Regular
    BY <1>1, RegularRead
<1>3. /\ Len(column) \in Nat /\ DOMAIN column = 1..Len(column)
      /\ \A j \in 1..Len(column) : column[j] \in Placeable
      /\ \A i, j \in 1..Len(column) : i < j => column[i] < column[j]
    BY ColumnPlaces
<1>4. CASE Skip(c)
    <2>1. Placeable' = Placeable /\ column' = column
        BY <1>1, <1>4, PlaceableRead DEF Skip
    <2>2. ASSUME RegularColumn PROVE RegularColumn'
        <3>1. Placeable # {} => Lowest(Placeable) \in Placeable
            BY MembersOfList, LowestIsLast
        <3>2. Lowest(Placeable)' = Lowest(Placeable)
            BY <2>1 DEF Lowest
        <3>3. Placeable # {} => Len(column') = commodities'[Lowest(Placeable)].indent
            BY <1>1, <2>1, <2>2, <3>1 DEF RegularColumn
        <3>4. ASSUME NEW j \in DOMAIN column
              PROVE  /\ commodities'[column[j]].indent = j
                     /\ \A h \in Placeable : column[j] < h => commodities'[h].indent > j
            BY <1>1, <1>3, <2>2 DEF RegularColumn
        <3> QED
            BY <2>1, <3>2, <3>3, <3>4 DEF RegularColumn
    <2> QED
        BY <1>2, <2>1, <2>2 DEF ColumnInv, Increasing
<1>5. CASE Visit(c)
    <2> DEFINE k == c.indent
               m == AtMost(k - 1, Len(column))
    <2>1. /\ Placeable' = Placeable \cup {c.good}
          /\ Lowest(Placeable') = c.good
        BY <1>1, <1>5, PlaceableRead, LastPlaceable DEF Visit
    <2>2. k \in Nat /\ c.good \in Goods /\ column' = Placed(c.good, k)
        BY <1>1, <1>5, VisitedIndent DEF Visit
    <2>3. CASE k = 0
        <3>1. column' = <<>> /\ Len(column') = 0 /\ DOMAIN column' = {}
            BY <2>2, <2>3 DEF Placed
        <3>2. RegularColumn'
            BY <1>1, <2>1, <2>3, <3>1 DEF RegularColumn
        <3> QED
            BY <3>1, <3>2 DEF ColumnInv, Increasing
    <2>4. CASE k > 0
        <3>1. /\ m \in 0..Len(column) /\ m <= k - 1
              /\ Len(column') = m + 1
              /\ \A i \in 1..m : column'[i] = column[i]
              /\ column'[m + 1] = c.good
              /\ column' \in Seq(Goods)
            BY <2>2, <2>4, PlacedColumn DEF TypeOK
        <3>2. DOMAIN column' = 1..(m + 1)
            BY <3>1
        <3>3. m \in Nat /\ (\A i \in 1..m : i \in 1..Len(column)) /\ \A i \in 1..(m + 1) : i \in 1..m \/ i = m + 1
            BY <1>3, <3>1
        <3>4. ASSUME Regular' \/ Repeated(c) PROVE m = k - 1
            <4>1. k <= Len(column) + 1
                BY <1>1, <1>3, <1>5, <3>4, DepthRead DEF Visit
            <4> QED
                BY <1>3, <2>2, <4>1 DEF AtMost
        <3>5. ASSUME Repeated(c) PROVE Len(column) = m + 1
            BY <1>1, <1>3, <1>5, <2>2, <3>4, <3>5, DepthRead DEF Visit
        <3> HIDE DEF m
        <3>6. ASSUME NEW i \in 1..m PROVE column[i] < c.good
            <4>1. column[i] \in Placeable
                BY <1>3, <3>3
            <4>2. CASE Fresh(c)
                BY <1>1, <4>1, <4>2
            <4>3. CASE Repeated(c)
                <5>1. m + 1 \in 1..Len(column) /\ i \in 1..Len(column) /\ i < m + 1
                    BY <3>3, <3>5, <4>3
                <5>2. column[i] < column[m + 1] /\ column[m + 1] <= c.good
                    BY <1>1, <1>3, <5>1
                <5>3. column[i] \in Nat /\ column[m + 1] \in Nat
                    BY <1>3, <5>1, MembersOfList
                <5> QED
                    BY <1>1, <5>2, <5>3
            <4> QED
                BY <1>1, <4>2, <4>3, ReadKinds
        <3>7. \A j \in 1..(m + 1) : column'[j] \in Placeable'
            BY <1>3, <2>1, <3>1, <3>3
        <3>8. ASSUME NEW i \in 1..(m + 1), NEW j \in 1..(m + 1), i < j
              PROVE  column'[i] < column'[j]
            <4>1. i \in 1..m
                BY <3>3, <3>8
            <4>2. CASE j \in 1..m
                BY <1>3, <3>1, <3>3, <3>8, <4>1, <4>2
            <4>3. CASE j = m + 1
                BY <3>1, <3>6, <4>1, <4>3
            <4> QED
                BY <3>3, <4>2, <4>3
        <3>9. ASSUME Regular' PROVE RegularColumn'
            <4>1. RegularColumn
                BY <1>2, <3>9 DEF ColumnInv
            <4>2. Len(column') = commodities'[Lowest(Placeable')].indent
                BY <1>1, <2>1, <2>2, <3>1, <3>4, <3>9
            <4>3. ASSUME NEW j \in 1..(m + 1)
                  PROVE  /\ commodities'[column'[j]].indent = j
                         /\ \A h \in Placeable' : column'[j] < h => commodities'[h].indent > j
                <5>1. CASE j = m + 1
                    <6>1. commodities'[column'[j]].indent = j
                        BY <1>1, <2>2, <3>1, <3>4, <3>9, <5>1
                    <6>2. ~ \E h \in Placeable' : c.good < h
                        BY <1>1, <2>1, MembersOfList
                    <6> QED
                        BY <3>1, <5>1, <6>1, <6>2
                <5>2. CASE j \in 1..m
                    <6>1. /\ column'[j] = column[j] /\ column[j] \in Placeable
                          /\ commodities[column[j]].indent = j
                          /\ \A h \in Placeable : column[j] < h => commodities[h].indent > j
                        BY <1>3, <3>1, <3>3, <4>1, <5>2 DEF RegularColumn
                    <6>2. c.indent > j
                        BY <2>2, <3>3, <3>4, <3>9, <5>2
                    <6> QED
                        BY <1>1, <2>1, <6>1, <6>2
                <5> QED
                    BY <3>3, <5>1, <5>2
            <4> QED
                BY <3>2, <4>2, <4>3 DEF RegularColumn
        <3> QED
            BY <3>2, <3>7, <3>8, <3>9 DEF ColumnInv, Increasing
    <2> QED
        BY <2>2, <2>3, <2>4
<1> QED
    BY <1>1, <1>4, <1>5 DEF Step

(* A parent is in front of its child: the goods in the columns are, unless *)
(* the good comes a second time, and then one with a lower suffix, a lower *)
(* indent or the first of the list is chosen.                              *)
LEMMA ParentBefore ==
    ASSUME TypeOK, TypeOK', Listed, ~AnyVersions, ZerosInv, ColumnInv,
           NEW c, Reads(c), c.indent \in Nat
    PROVE  LET p == ParentOf(c.indent, c.suffix)
           IN  p = Nobody \/ (p \in Placeable /\ p < c.good)
<1> DEFINE k == c.indent
<1>1. /\ \A g \in Placeable : g \in Goods /\ g \in Nat /\ g <= c.good
      /\ Fresh(c) => \A g \in Placeable : g < c.good
      /\ Repeated(c) => Placeable' = Placeable /\ commodities[c.good] = c
      /\ c.good \in Nat
    BY PlaceableRead, ReadEffect, MembersOfList
<1>2. k # NoIndent
    BY DEF NoIndent
<1>3. /\ Len(zeros) \in Nat /\ DOMAIN zeros = 1..Len(zeros)
      /\ Len(column) \in Nat /\ DOMAIN column = 1..Len(column)
      /\ zeros \in Seq(Goods) /\ column \in Seq(Goods)
      /\ \A i \in 1..Len(zeros) : zeros[i] \in Placeable /\ commodities[zeros[i]].indent = 0
      /\ \A i, j \in 1..Len(zeros) : i <= j => zeros[i] <= zeros[j]
      /\ \A j \in 1..Len(column) : column[j] \in Placeable
      /\ \A i, j \in 1..Len(column) : i < j => column[i] < column[j]
    BY ZerosPlaces, ColumnPlaces
<1> DEFINE Fine(p) == p = Nobody \/ (p \in Placeable /\ p < c.good)
<1>4. zeros # <<>> => 1 \in 1..Len(zeros) /\ Len(zeros) \in 1..Len(zeros)
                      /\ FirstZero = zeros[1] /\ Last(zeros) = zeros[Len(zeros)]
    BY <1>3, EmptySeq DEF FirstZero, Last
<1>5. Fine(FirstZero)
    <2>1. CASE zeros = <<>>
        BY <2>1 DEF FirstZero
    <2>2. CASE zeros # <<>> /\ Fresh(c)
        BY <1>1, <1>3, <1>4, <2>2
    <2>3. CASE zeros # <<>> /\ Repeated(c)
        <3>1. RegularForm
            BY <2>3, RegularIs DEF Repeated
        <3>2. PICK f \in Placeable : \A h \in Placeable : f <= h
            <4>1. Placeable \in SUBSET (1..Len(commodities)) /\ Len(commodities) \in Nat /\ Placeable # {}
                BY <2>3, MembersOfList DEF Repeated
            <4> QED
                BY <4>1, HasFirst
        <3>3. f < c.good
            BY <1>1, <2>3, <3>2 DEF Repeated
        <3>4. commodities[f].indent = 0
            BY <3>1, <3>2 DEF RegularForm
        <3>5. PICK i \in 1..Len(zeros) : zeros[i] = f
            BY <1>3, <3>4 DEF ZerosInv
        <3>6. zeros[1] <= f
            BY <1>3, <1>4, <2>3, <3>5
        <3> QED
            BY <1>1, <1>3, <1>4, <2>3, <3>3, <3>6
    <2> QED
        BY <2>1, <2>2, <2>3, ReadKinds
<1>6. CASE k = 0
    <2> DEFINE lower == {i \in DOMAIN zeros : SuffixOf(zeros[i]) < c.suffix}
    <2>1. lower \in SUBSET (1..Len(zeros))
        BY <1>3
    <2>2. lower # {} => Lowest(lower) \in lower
        BY <1>3, <2>1, LowestIsLast
    <2>3. ASSUME NEW i \in lower PROVE Fine(zeros[i])
        <3>1. zeros[i] \in Placeable /\ zeros[i] <= c.good
            BY <1>1, <1>3
        <3>2. zeros[i] # c.good
            <4>1. CASE Fresh(c)
                BY <1>1, <3>1, <4>1
            <4>2. CASE Repeated(c)
                <5>1. SuffixOf(c.good) = c.suffix /\ c.suffix \in Nat
                    <6>1. commodities[c.good] = c /\ c \in Commodity /\ c.good \in Members
                        BY <4>2 DEF Repeated, Reads
                    <6> QED
                        BY <6>1, SuffixIs, SuffixesAssumption DEF Commodity
                <5> QED
                    BY <5>1
            <4> QED
                BY <4>1, <4>2, ReadKinds
        <3> QED
            BY <1>1, <3>1, <3>2
    <2>4. ParentOf(k, c.suffix) = IF lower = {} THEN FirstZero ELSE zeros[Lowest(lower)]
        BY <1>6 DEF ParentOf, ParentOfZero
    <2> HIDE DEF lower, Fine
    <2>5. Fine(ParentOf(k, c.suffix))
        BY <1>5, <2>2, <2>3, <2>4
    <2> QED
        BY <2>5 DEF Fine
<1>7. CASE k = 1
    <2>1. ParentOf(k, c.suffix) = IF zeros = <<>> THEN Nobody ELSE Last(zeros)
        BY <1>7 DEF ParentOf
    <2>2. ASSUME zeros # <<>> PROVE Last(zeros) \in Placeable /\ Last(zeros) < c.good
        <3>1. Last(zeros) \in Placeable /\ commodities[Last(zeros)].indent = 0
            BY <1>3, <1>4, <2>2
        <3>2. Last(zeros) # c.good
            BY <1>1, <1>7, <3>1, ReadKinds
        <3> QED
            BY <1>1, <3>1, <3>2
    <2> QED
        BY <2>1, <2>2
<1>8. CASE k >= 2
    <2> DEFINE j == AtMost(k - 1, Len(column))
    <2>1. ParentOf(k, c.suffix) = IF column = <<>> THEN FirstZero ELSE column[j]
        BY <1>8 DEF ParentOf
    <2>2. ASSUME column # <<>> PROVE column[j] \in Placeable /\ column[j] < c.good
        <3>1. Len(column) >= 1
            BY <1>3, <2>2, EmptySeq
        <3>2. j \in 1..Len(column) /\ j <= k - 1
            BY <1>3, <1>8, <3>1 DEF AtMost
        <3>3. CASE Fresh(c)
            BY <1>1, <1>3, <3>2, <3>3
        <3>4. CASE Repeated(c)
            <4>1. k = Len(column)
                BY <1>2, <3>4, DepthRead
            <4>2. k \in 1..Len(column) /\ j < k
                BY <1>3, <1>8, <3>2, <4>1
            <4>3. column[j] < column[k] /\ column[k] <= c.good /\ column[j] \in Placeable /\ column[k] \in Placeable
                BY <1>1, <1>3, <3>2, <4>2
            <4> QED
                BY <1>1, <4>3
        <3> QED
            BY <3>3, <3>4, ReadKinds
    <2> HIDE DEF j
    <2> QED
        BY <1>5, <2>1, <2>2
<1> QED
    BY <1>6, <1>7, <1>8

(* What is behind a step of the loop. *)
LEMMA ReachedIs ==
    ASSUME TypeOK, Listed, WayInv, climbing
    PROVE  LET x == IF way = <<>> THEN LastGood ELSE Head(way)
           IN  /\ x \in Goods /\ Above = edges[x] /\ LastGood \in Placeable
               /\ edges[x] \in Goods \cup {Nobody}
<1> DEFINE x == IF way = <<>> THEN LastGood ELSE Head(way)
<1>1. LastGood \in Placeable /\ LastGood \in Goods
    BY MembersOfList DEF WayInv
<1>2. way \in Seq(Goods)
    BY DEF TypeOK
<1>3. way # <<>> => Head(way) \in Goods
    BY <1>2, HeadTailProperties
<1>4. x \in Goods
    BY <1>1, <1>3
<1>5. Above = edges[x]
    BY Zenon DEF Above, LastGood
<1> HIDE DEF x
<1>6. edges[x] \in Goods \cup {Nobody}
    BY <1>4 DEF TypeOK
<1> QED
    BY <1>1, <1>4, <1>5, <1>6 DEF x

LEMMA ClimbStep ==
    ASSUME TypeOK, ClimbInv, ~AnyVersions, [Next]_vars
    PROVE  ClimbInv'
<1>1. TypeOK' /\ Listed
    BY TypeStep DEF ClimbInv
<1>2. ASSUME NEW c, Step(c) PROVE ClimbInv'
    <2>1. Listed' /\ ZerosInv' /\ ColumnInv'
        BY <1>1, <1>2, ReadEffect, ZerosStep, ColumnStep DEF ClimbInv, Step
    <2>2. CASE Skip(c)
        BY <1>2, <2>1, <2>2 DEF ClimbInv, Skip, Upward, WayInv, Increasing, Step
    <2>3. CASE Visit(c)
        <3>1. c.indent \in Nat /\ c.good \in Goods /\ c.indent # NoIndent
            BY <1>2, <2>3, VisitedIndent DEF Step, Visit
        <3>2. Upward'
            <4> DEFINE p == ParentOf(c.indent, c.suffix)
            <4>1. p < c.good
                <5>1. p = Nobody \/ p < c.good
                    BY <1>1, <1>2, <3>1, ParentBefore DEF ClimbInv, Step
                <5>2. Nobody < c.good
                    BY <3>1 DEF Goods, Nobody
                <5> QED
                    BY <5>1, <5>2
            <4>2. edges' = [edges EXCEPT ![c.good] = p] /\ edges \in [Goods -> Goods \cup {Nobody}]
                BY <2>3 DEF Visit, TypeOK
            <4> HIDE DEF p
            <4> QED
                BY <4>1, <4>2 DEF Upward, ClimbInv
        <3>3. Increasing(way')
            <4>1. column' \in Seq(Goods) /\ Increasing(column')
                BY <1>1, <2>1 DEF ColumnInv, TypeOK
            <4>2. /\ way' \in Seq(Goods) /\ Len(way') \in 0..Len(column')
                  /\ \A i \in 1..Len(way') : way'[i] = column'[i]
                BY <2>3, <3>1, <4>1, WayStart DEF Visit
            <4>3. /\ Len(column') \in Nat /\ DOMAIN column' = 1..Len(column')
                  /\ Len(way') \in Nat /\ DOMAIN way' = 1..Len(way')
                BY <4>1, <4>2
            <4> QED
                BY <4>1, <4>2, <4>3 DEF Increasing
        <3>4. LastGood' \in Placeable'
            <4>1. LastGood' = c.good
                BY <1>1, <1>2, ReadEffect DEF Step
            <4> QED
                BY <1>1, <1>2, <3>1, <4>1, LastPlaceable DEF Step
        <3>5. WayInv'
            BY <3>3, <3>4 DEF WayInv
        <3> QED
            BY <2>1, <3>2, <3>5 DEF ClimbInv
    <2> QED
        BY <1>2, <2>2, <2>3 DEF Step
<1>3. ASSUME UNCHANGED <<commodities, zeros, column, edges>>
      PROVE  /\ Listed' /\ ZerosInv' /\ ColumnInv' /\ Upward'
             /\ Placeable' = Placeable /\ LastGood' = LastGood
    <2>1. Placeable' = Placeable /\ LastGood' = LastGood /\ Listed'
        BY <1>1, <1>3 DEF Placeable, Members, IndentOf, LastGood, Last, Listed
    <2>2. Regular' <=> Regular
        BY <2>1, <1>3 DEF Regular, RegularWithout, IndentOf, Lowest
    <2>3. ColumnInv'
        BY <1>3, <2>1, <2>2 DEF ClimbInv, ColumnInv, RegularColumn, Increasing, Lowest
    <2> QED
        BY <1>3, <2>1, <2>3 DEF ClimbInv, ZerosInv, Upward
<1>4. CASE Climb
    <2>1. UNCHANGED <<commodities, zeros, column, edges, climbing>> /\ climbing /\ Above # Nobody
          /\ way' = <<Above>> \o way
        BY <1>4 DEF Climb
    <2> DEFINE x == IF way = <<>> THEN LastGood ELSE Head(way)
    <2>2. x \in Goods /\ Above = edges[x] /\ Above \in Goods /\ LastGood \in Placeable
        BY <1>1, <2>1, ReachedIs DEF ClimbInv
    <2>3. way # <<>> => Above < Head(way)
        BY <2>2 DEF ClimbInv, Upward
    <2> HIDE DEF x
    <2>4. way \in Seq(Goods) /\ Increasing(way)
        BY DEF TypeOK, ClimbInv, WayInv
    <2>5. Increasing(way')
        BY <2>1, <2>2, <2>3, <2>4, Prepended
    <2> QED
        BY <1>3, <2>1, <2>2, <2>5 DEF ClimbInv, WayInv
<1>5. CASE Arrive
    <2>1. UNCHANGED <<commodities, zeros, column, edges>> /\ climbing' = FALSE /\ way' = <<>>
        BY <1>5 DEF Arrive
    <2>2. Increasing(way')
        BY <2>1 DEF Increasing
    <2> QED
        BY <1>3, <2>1, <2>2 DEF ClimbInv, WayInv
<1>6. CASE UNCHANGED vars
    BY <1>3, <1>6 DEF ClimbInv, WayInv, vars, Increasing
<1> QED
    BY <1>2, <1>4, <1>5, <1>6, ReadIsStep DEF Next

LEMMA ClimbStart == Init => TypeOK /\ ClimbInv
<1> SUFFICES ASSUME Init PROVE TypeOK /\ ClimbInv
    OBVIOUS
<1>1. /\ commodities = <<>> /\ zeros = <<>> /\ column = <<>> /\ way = <<>> /\ climbing = FALSE
      /\ edges = [g \in Goods |-> Nobody]
      /\ ancestors = [g \in Goods |-> <<>>]
      /\ descendants = [g \in Goods |-> {}]
    BY DEF Init
<1>2. TypeOK
    <2>1. /\ edges \in [Goods -> Goods \cup {Nobody}]
          /\ ancestors \in [Goods -> Seq(Goods)]
          /\ descendants \in [Goods -> SUBSET Goods]
        BY <1>1
    <2>2. /\ commodities \in Seq(Commodity) /\ commodities = <<>>
          /\ zeros \in Seq(Goods) /\ column \in Seq(Goods) /\ way \in Seq(Goods)
          /\ ~climbing /\ climbing \in BOOLEAN
        <3>1. \A S : <<>> \in Seq(S)
            BY EmptySeq
        <3> QED
            BY <1>1, <3>1
    <2>3. Len(commodities) <= MaxCommodities /\ Len(column) <= MaxIndent
        BY <1>1, MaxCommoditiesAssumption, MaxIndentAssumption
    <2> QED
        BY <2>1, <2>2, <2>3 DEF TypeOK
<1>3. Members = {} /\ Placeable = {}
    BY <1>1 DEF Members, Placeable
<1>4. Listed /\ ZerosInv /\ WayInv
    BY <1>1, <1>3 DEF Listed, ZerosInv, WayInv, Increasing
<1>5. ColumnInv
    BY <1>1, <1>3 DEF ColumnInv, RegularColumn, Increasing
<1>6. Upward
    BY <1>1 DEF Upward, Goods, Nobody
<1> QED
    BY <1>2, <1>4, <1>5, <1>6 DEF ClimbInv

(* The list is read in order; the columns hold goods that were read, in    *)
(* order and at their indents; every parent comes before its child; and    *)
(* the way up is a list in order.                                          *)
THEOREM ColumnsAlwaysInOrder ==
    ASSUME ~AnyVersions
    PROVE  Spec => [](TypeOK /\ ClimbInv)
<1>1. TypeOK /\ ClimbInv /\ [Next]_vars => (TypeOK /\ ClimbInv)'
    BY TypeStep, ClimbStep DEF ClimbInv
<1> QED
    BY <1>1, ClimbStart, PTL DEF Spec

(* The climb to the top of the tree never comes back to a good it passed, *)
(* whatever the indents and their order.                                  *)
THEOREM ClimbAlwaysGoesUp ==
    ASSUME ~AnyVersions
    PROVE  Spec => []ClimbNeverReturns
<1>1. TypeOK /\ ClimbInv => ClimbNeverReturns
    <2> SUFFICES ASSUME TypeOK, ClimbInv, NEW i \in DOMAIN way, NEW j \in DOMAIN way,
                        way[i] = way[j]
                 PROVE  i = j
        BY DEF ClimbNeverReturns
    <2>1. way \in Seq(Goods) /\ Increasing(way)
        BY DEF TypeOK, ClimbInv, WayInv
    <2>2. i \in Nat /\ j \in Nat /\ way[i] \in Nat
        <3>1. i \in 1..Len(way) /\ j \in 1..Len(way) /\ Len(way) \in Nat
            BY <2>1
        <3>2. way[i] \in Goods
            BY <2>1, <3>1, ElementOfSeq
        <3> QED
            BY <3>1, <3>2 DEF Goods
    <2>3. ~(i < j) /\ ~(j < i)
        BY <2>1, <2>2 DEF Increasing
    <2> QED
        BY <2>2, <2>3
<1> QED
    BY <1>1, ColumnsAlwaysInOrder, PTL

-----------------------------------------------------------------------------
(* The invariant behind the tree.                                          *)

Finished(g) == climbing => g # LastGood

(* The parent of a good is the last of those whose block it is in. *)
ParentsInv == \A g \in Placeable : edges[g] = Lowest({h \in Placeable : Under(h, g)})

AncestorsInv ==
    \A g \in Placeable : Finished(g) =>
        /\ Elems(ancestors[g]) = {h \in Placeable : Under(h, g)}
        /\ Increasing(ancestors[g])

DescendantsInv ==
    /\ \A g \in Goods : \A h \in descendants[g] :
            g \in Placeable /\ h \in Placeable /\ Under(g, h)
    /\ \A g, h \in Placeable : Under(g, h) /\ Finished(h) => h \in descendants[g]

(* The good where the climb has come to. *)
Reached == IF way = <<>> THEN LastGood ELSE Head(way)

(* What has been collected is above the last good, and what is above it    *)
(* and has not been collected comes before the place reached.              *)
CollectedInv ==
    climbing =>
        /\ \A h \in Elems(way) : h \in Placeable /\ Under(h, LastGood)
        /\ \A h \in Placeable : Under(h, LastGood) => h \in Elems(way) \/ h < Reached

TreeInv ==
    Regular => ParentsInv /\ AncestorsInv /\ DescendantsInv /\ CollectedInv

(* An order of depths: what is deeper than a deeper good is deeper.  The   *)
(* three goods stand in the list in this order.                            *)
LEMMA DeeperStill ==
    ASSUME TypeOK, Listed, NEW p \in Placeable, NEW x \in Placeable, NEW k \in Placeable,
           p < x, x < k, Deeper(x, p), Deeper(k, x)
    PROVE  Deeper(k, p)
<1>1. /\ commodities[p] \in Commodity /\ commodities[x] \in Commodity /\ commodities[k] \in Commodity
      /\ p \in Nat /\ x \in Nat /\ k \in Nat
      /\ commodities[p].indent \in Nat /\ commodities[x].indent \in Nat
      /\ commodities[k].indent \in Nat
    BY MembersOfList DEF IndentOf
<1>2. /\ commodities[p].suffix \in Nat /\ commodities[x].suffix \in Nat
      /\ commodities[k].suffix \in Nat
    BY <1>1, SuffixesAssumption DEF Commodity
<1>3. Chapter \in Placeable /\ \A h \in Placeable : Chapter <= h
    <2>1. Placeable \in SUBSET (1..Len(commodities)) /\ Len(commodities) \in Nat
        BY MembersOfList
    <2>2. \E g \in Placeable : \A h \in Placeable : g <= h
        BY <2>1, HasFirst
    <2> QED
        BY <2>2 DEF Chapter
<1>4. x # Chapter /\ Chapter \in Nat
    BY <1>1, <1>3, MembersOfList
<1>5. \/ commodities[k].indent > commodities[x].indent
      \/ /\ commodities[k].indent = 0 /\ commodities[x].indent = 0
         /\ commodities[k].suffix > commodities[x].suffix
    BY <1>4 DEF Deeper, IndentOf
<1>6. CASE p = Chapter
    <2>1. k # p
        BY <1>1
    <2> QED
        BY <1>6, <2>1 DEF Deeper
<1>7. CASE p # Chapter
    <2>1. \/ commodities[x].indent > commodities[p].indent
          \/ /\ commodities[x].indent = 0 /\ commodities[p].indent = 0
             /\ commodities[x].suffix > commodities[p].suffix
        BY <1>7 DEF Deeper, IndentOf
    <2>2. \/ commodities[k].indent > commodities[p].indent
          \/ /\ commodities[k].indent = 0 /\ commodities[p].indent = 0
             /\ commodities[k].suffix > commodities[p].suffix
        BY <1>1, <1>2, <1>5, <2>1
    <2> QED
        BY <2>2 DEF Deeper, IndentOf
<1> QED
    BY <1>6, <1>7

(* Under, without the interval. *)
LEMMA UnderIs ==
    ASSUME TypeOK, Listed, NEW g \in Placeable, NEW h \in Placeable
    PROVE  Under(g, h) <=> g < h /\ \A k \in Placeable : g < k /\ k <= h => Deeper(k, g)
<1>1. g \in Nat /\ h \in Nat /\ \A k \in Placeable : k \in Nat
    BY MembersOfList
<1>2. \A k \in Placeable : k \in (g + 1)..h <=> g < k /\ k <= h
    BY <1>1
<1> QED
    BY <1>2 DEF Under

BlockForm ==
    \A g, h \in Placeable :
        Under(g, h) <=> g < h /\ \A k \in Placeable : g < k /\ k <= h => Deeper(k, g)

LEMMA BlocksHaveForm == TypeOK /\ Listed => BlockForm
BY UnderIs DEF BlockForm

(* Blocks nest: the block of a good of a block lies in it, *)
LEMMA UnderTransitive ==
    ASSUME TypeOK, Listed, NEW p \in Placeable, NEW x \in Placeable, NEW g \in Placeable,
           Under(p, x), Under(x, g)
    PROVE  Under(p, g)
<1>1. p \in Nat /\ x \in Nat /\ g \in Nat /\ \A k \in Placeable : k \in Nat
    BY MembersOfList
<1>2. /\ p < x /\ \A k \in Placeable : p < k /\ k <= x => Deeper(k, p)
      /\ x < g /\ \A k \in Placeable : x < k /\ k <= g => Deeper(k, x)
    BY UnderIs
<1>3. ASSUME NEW k \in Placeable, p < k, k <= g PROVE Deeper(k, p)
    <2>1. CASE k <= x
        BY <1>2, <1>3, <2>1
    <2>2. CASE x < k
        <3>1. Deeper(k, x) /\ Deeper(x, p)
            BY <1>1, <1>2, <1>3, <2>2
        <3> QED
            BY <1>2, <2>2, <3>1, DeeperStill
    <2> QED
        BY <1>1, <2>1, <2>2
<1>4. p < g
    BY <1>1, <1>2
<1> QED
    BY <1>3, <1>4, UnderIs

(* and of two goods above a third the later is in the block of the first.  *)
LEMMA UnderBetween ==
    ASSUME TypeOK, Listed, NEW p \in Placeable, NEW x \in Placeable, NEW g \in Placeable,
           Under(p, g), p < x, x <= g
    PROVE  Under(p, x)
<1>1. p \in Nat /\ x \in Nat /\ g \in Nat /\ \A k \in Placeable : k \in Nat
    BY MembersOfList
<1>2. \A k \in Placeable : p < k /\ k <= g => Deeper(k, p)
    BY UnderIs
<1>3. \A k \in Placeable : p < k /\ k <= x => Deeper(k, p)
    BY <1>1, <1>2
<1> QED
    BY <1>3, UnderIs

(* The list that is read goes on: what it means for the goods read before  *)
(* stays the same.                                                         *)
LEMMA UnderStays ==
    ASSUME TypeOK, TypeOK', Listed, ~AnyVersions, NEW c, Reads(c)
    PROVE  \A g, h \in Placeable : Under(g, h)' <=> Under(g, h)
<1>1. /\ \A k \in Placeable : /\ commodities'[k] = commodities[k] /\ k <= c.good
      /\ Placeable \in SUBSET Placeable'
      /\ \A k \in Placeable' : k \in Placeable \/ k = c.good
      /\ Fresh(c) => \A k \in Placeable : k < c.good
      /\ Repeated(c) => Placeable' = Placeable
      /\ Listed'
    <2>1. Fresh(c) \/ Repeated(c)
        BY ReadKinds
    <2> QED
        BY <2>1, PlaceableRead, ReadEffect
<1>2. c.good \in Nat /\ \A k \in Placeable : k \in Nat
    BY MembersOfList, ReadEffect
<1> SUFFICES ASSUME NEW g \in Placeable, NEW h \in Placeable
             PROVE  Under(g, h)' <=> Under(g, h)
    OBVIOUS
<1>3. Chapter' = Chapter
    <2>1. PICK f \in Placeable : \A k \in Placeable : f <= k
        <3>1. Placeable \in SUBSET (1..Len(commodities)) /\ Len(commodities) \in Nat
            BY MembersOfList
        <3> QED
            BY <3>1, HasFirst
    <2>2. f \in Placeable' /\ \A k \in Placeable' : f <= k
        BY <1>1, <2>1
    <2>3. Chapter = f
        <3>1. Chapter \in Placeable /\ \A k \in Placeable : Chapter <= k
            BY <2>1 DEF Chapter
        <3> QED
            BY <1>2, <2>1, <3>1
    <2>4. Chapter' = f
        <3>1. Chapter' \in Placeable' /\ \A k \in Placeable' : Chapter' <= k
            BY <2>2 DEF Chapter
        <3>2. \A k \in Placeable' : k \in Nat
            BY <1>1, <1>2
        <3> QED
            BY <2>2, <3>1, <3>2
    <2> QED
        BY <2>3, <2>4
<1>4. \A k \in Placeable : Deeper(k, g)' <=> Deeper(k, g)
    BY <1>1, <1>3 DEF Deeper, IndentOf
<1>5. \A k \in Placeable' : k \in (g + 1)..h => k \in Placeable
    <2>1. CASE Fresh(c)
        <3>1. ~(c.good \in (g + 1)..h)
            BY <1>1, <1>2, <2>1
        <3> QED
            BY <1>1, <3>1
    <2> QED
        BY <1>1, <2>1, ReadKinds
<1>6. (\A k \in Placeable' \cap (g + 1)..h : Deeper(k, g)') <=> \A k \in Placeable \cap (g + 1)..h : Deeper(k, g)
    BY <1>1, <1>4, <1>5
<1>7. Under(g, h)' <=> g < h /\ \A k \in Placeable' \cap (g + 1)..h : Deeper(k, g)'
    BY DEF Under
<1> QED
    BY <1>6, <1>7 DEF Under

-----------------------------------------------------------------------------
(* The parent.                                                             *)

(* A good that is read hangs from the last of the goods whose block it is  *)
(* in: the one that is found in the columns comes before it, everything in *)
(* between is deeper than the parent and nothing is shallower than the     *)
(* good.                                                                   *)
LEMMA ParentIs ==
    ASSUME TypeOK, TypeOK', Listed, ~AnyVersions, ZerosInv, ColumnInv,
           NEW c, Reads(c), c.indent \in Nat, Regular'
    PROVE  ParentOf(c.indent, c.suffix) = Lowest({h \in Placeable' : Under(h, c.good)'})
<1> DEFINE k == c.indent
           p == ParentOf(k, c.suffix)
           Blocks == {h \in Placeable' : Under(h, c.good)'}
           D(x, y) == \/ commodities'[x].indent > commodities'[y].indent
                      \/ /\ commodities'[x].indent = 0 /\ commodities'[y].indent = 0
                         /\ commodities'[x].suffix > commodities'[y].suffix
<1>1. /\ \A g \in Placeable : /\ commodities'[g] = commodities[g] /\ g <= c.good
                              /\ g \in Nat /\ commodities[g].indent \in Nat
                              /\ commodities[g].suffix \in Nat
      /\ Placeable' = Placeable \cup {c.good}
      /\ commodities'[c.good] = c /\ c.good \in Nat /\ c.suffix \in Nat
      /\ Fresh(c) => \A g \in Placeable : g < c.good
      /\ Listed'
    <2>1. c.indent # NoIndent
        BY DEF NoIndent
    <2>2. \A g \in Placeable : commodities[g] \in Commodity /\ g \in Nat /\ commodities[g].indent \in Nat
        BY MembersOfList DEF IndentOf
    <2>3. \A g \in Placeable : commodities[g].suffix \in Nat
        BY <2>2, SuffixesAssumption DEF Commodity
    <2>4. c.suffix \in Nat
        BY SuffixesAssumption DEF Reads, Commodity
    <2> QED
        BY <2>1, <2>2, <2>3, <2>4, PlaceableRead, ReadEffect
<1>2. /\ Len(zeros) \in Nat /\ DOMAIN zeros = 1..Len(zeros) /\ zeros \in Seq(Goods)
      /\ \A i \in 1..Len(zeros) : zeros[i] \in Placeable /\ commodities[zeros[i]].indent = 0
      /\ \A i, j \in 1..Len(zeros) : i <= j => zeros[i] <= zeros[j]
      /\ \A g \in Placeable : commodities[g].indent = 0 => \E i \in 1..Len(zeros) : zeros[i] = g
    BY ZerosPlaces DEF ZerosInv
<1>3. /\ Len(column) \in Nat /\ column \in Seq(Goods)
      /\ \A j \in 1..Len(column) : column[j] \in Placeable
      /\ DOMAIN column = 1..Len(column)
    BY ColumnPlaces
<1>4. k <= Len(column) + 1 /\ Regular /\ RegularColumn
    <2>1. c.indent # NoIndent
        BY DEF NoIndent
    <2> QED
        BY <2>1, DepthRead, RegularRead DEF ColumnInv
<1>5. p = Nobody \/ (p \in Placeable /\ p < c.good)
    BY ParentBefore
<1>6. \A h \in Placeable' : Under(h, c.good)' <=>
            h < c.good /\ \A x \in Placeable' : h < x /\ x <= c.good => Deeper(x, h)'
    <2>1. (TypeOK /\ Listed => BlockForm)'
        BY BlocksHaveForm, PTL
    <2>2. c.good \in Placeable'
        BY <1>1
    <2> QED
        BY <1>1, <2>1, <2>2 DEF BlockForm
<1>7. CASE Placeable = {}
    <2>1. zeros = <<>> /\ column = <<>> /\ Fresh(c)
        <3>1. Len(zeros) = 0
            BY <1>2, <1>7
        <3>2. Len(column) = 0
            BY <1>3, <1>7
        <3>3. Fresh(c)
            BY <1>7, ReadKinds DEF Repeated
        <3> QED
            BY <1>2, <1>3, <3>1, <3>2, <3>3, EmptySeq
    <2>2. k = 0
        BY <1>7, <2>1, RegularRead DEF NoIndent
    <2>3. p = Nobody
        BY <1>5, <1>7
    <2>4. Blocks = {}
        <3>1. Placeable' = {c.good} /\ ~(c.good < c.good)
            BY <1>1, <1>7
        <3> QED
            BY <1>6, <3>1
    <2> QED
        BY <2>3, <2>4 DEF Lowest
<1>8. CASE Placeable # {}
    <2>1. PICK f \in Placeable : \A g \in Placeable : f <= g
        <3>1. Placeable \in SUBSET (1..Len(commodities)) /\ Len(commodities) \in Nat
            BY MembersOfList
        <3> QED
            BY <1>8, <3>1, HasFirst
    <2>2. f < c.good /\ f \in Placeable' /\ \A g \in Placeable' : f <= g
        <3>1. CASE Fresh(c)
            BY <1>1, <2>1, <3>1
        <3>2. CASE Repeated(c)
            BY <1>1, <2>1, <3>2 DEF Repeated
        <3> QED
            BY <1>1, <2>1, <3>1, <3>2, ReadKinds
    <2>3. Chapter' = f
        <3>1. Chapter' \in Placeable' /\ \A g \in Placeable' : Chapter' <= g
            BY <2>2 DEF Chapter
        <3>2. \A g \in Placeable' : g \in Nat
            BY <1>1
        <3> QED
            BY <2>2, <3>1, <3>2
    <2>4. commodities[f].indent = 0
        BY <1>4, <2>1, RegularIs DEF RegularForm
    <2>5. \A x, y \in Placeable' : /\ y # f => (Deeper(x, y)' <=> D(x, y))
                                   /\ D(x, y) => Deeper(x, y)'
                                   /\ x # f => Deeper(x, f)'
        BY <2>3 DEF Deeper, IndentOf
    <2>6. zeros # <<>> /\ 1 \in 1..Len(zeros) /\ FirstZero = f
        <3>1. PICK i \in 1..Len(zeros) : zeros[i] = f
            BY <1>2, <2>1, <2>4
        <3>2. zeros # <<>> /\ 1 \in 1..Len(zeros) /\ zeros[1] <= zeros[i]
            BY <1>2, <3>1, EmptySeq
        <3>3. zeros[1] = f
            BY <1>1, <1>2, <2>1, <3>1, <3>2
        <3> QED
            BY <3>2, <3>3 DEF FirstZero
    <2> DEFINE Found(q) ==
            /\ q \in Placeable /\ q < c.good
            /\ \A x \in Placeable' : q < x => q = f \/ D(x, q)
            /\ \A h \in Placeable' : q < h /\ h < c.good => ~D(c.good, h)
    <2>7. ASSUME NEW q, Found(q) PROVE Lowest(Blocks) = q
        <3>1. q \in Placeable' /\ q \in Nat /\ Blocks \in SUBSET Nat
            BY <1>1, <2>7
        <3>2. Under(q, c.good)'
            <4>1. ASSUME NEW x \in Placeable', q < x PROVE Deeper(x, q)'
                <5>1. CASE q = f
                    <6>1. x # f
                        BY <1>1, <2>1, <4>1, <5>1
                    <6> QED
                        BY <2>5, <5>1, <6>1
                <5>2. CASE q # f
                    BY <2>5, <2>7, <3>1, <4>1, <5>2
                <5> QED
                    BY <5>1, <5>2
            <4> QED
                BY <1>6, <2>7, <3>1, <4>1
        <3>3. ASSUME NEW h \in Blocks PROVE h <= q
            <4>1. h \in Placeable' /\ h < c.good /\ Deeper(c.good, h)' /\ h \in Nat
                BY <1>1, <1>6
            <4>2. CASE h = f
                BY <2>1, <2>7, <4>2
            <4>3. CASE h # f
                <5>1. D(c.good, h)
                    BY <1>1, <2>5, <4>1, <4>3
                <5> QED
                    BY <2>7, <3>1, <4>1, <5>1
            <4> QED
                BY <4>2, <4>3
        <3>4. q \in Blocks
            BY <3>1, <3>2
        <3> HIDE DEF Blocks
        <3> QED
            BY <3>1, <3>3, <3>4, LowestIs
    <2>8. Found(p)
        <3>1. CASE k = 0
            <4> DEFINE lower == {i \in DOMAIN zeros : SuffixOf(zeros[i]) < c.suffix}
            <4>1. lower \in SUBSET (1..Len(zeros))
                BY <1>2
            <4>2. p = IF lower = {} THEN FirstZero ELSE zeros[Lowest(lower)]
                BY <3>1 DEF ParentOf, ParentOfZero
            <4>3. \A i \in 1..Len(zeros) : i \in lower <=> commodities[zeros[i]].suffix < c.suffix
                <5>1. \A i \in 1..Len(zeros) : SuffixOf(zeros[i]) = commodities[zeros[i]].suffix
                    BY <1>2, SuffixIs DEF Placeable
                <5> QED
                    BY <1>2, <5>1
            <4>4. lower # {} => Lowest(lower) \in lower /\ \A j \in lower : j <= Lowest(lower)
                BY <1>2, <4>1, LowestIsLast
            <4> HIDE DEF lower
            <4>5. CASE lower = {}
                <5>1. p = f
                    BY <2>6, <4>2, <4>5
                <5>2. ASSUME NEW h \in Placeable', h < c.good PROVE ~D(c.good, h)
                    <6>1. h \in Placeable
                        BY <1>1, <5>2
                    <6>2. CASE commodities[h].indent = 0
                        <7>1. PICK i \in 1..Len(zeros) : zeros[i] = h
                            BY <1>2, <6>1, <6>2
                        <7>2. ~(commodities[h].suffix < c.suffix)
                            BY <4>3, <4>5, <7>1
                        <7> QED
                            BY <1>1, <3>1, <6>1, <6>2, <7>2
                    <6>3. CASE commodities[h].indent # 0
                        BY <1>1, <3>1, <6>1, <6>3
                    <6> QED
                        BY <6>2, <6>3
                <5> QED
                    BY <2>1, <2>2, <5>1, <5>2
            <4>6. CASE lower # {}
                <5> DEFINE i == Lowest(lower)
                <5>1. /\ i \in lower /\ i \in 1..Len(zeros) /\ p = zeros[i]
                      /\ \A j \in lower : j <= i
                    BY <4>1, <4>2, <4>4, <4>6
                <5> HIDE DEF i, p
                <5>2. /\ p \in Placeable /\ commodities[p].indent = 0
                      /\ commodities[p].suffix < c.suffix
                    BY <1>2, <4>3, <5>1
                <5>3. p < c.good
                    <6>1. p # Nobody
                        BY <5>2, MembersOfList DEF Nobody
                    <6> QED
                        BY <1>5, <6>1
                <5>4. ASSUME NEW h \in Placeable, p < h, commodities[h].indent = 0
                      PROVE  ~(commodities[h].suffix < c.suffix)
                    <6>1. PICK j \in 1..Len(zeros) : zeros[j] = h
                        BY <1>2, <5>4
                    <6>2. ~(j <= i)
                        BY <1>1, <1>2, <5>1, <5>2, <5>4, <6>1
                    <6> QED
                        BY <4>3, <5>1, <6>1, <6>2
                <5>5. ASSUME NEW x \in Placeable', p < x PROVE D(x, p)
                    <6>1. CASE x = c.good
                        BY <1>1, <3>1, <5>2, <6>1
                    <6>2. CASE x \in Placeable /\ commodities[x].indent = 0
                        BY <1>1, <5>2, <5>4, <5>5, <6>2
                    <6>3. CASE x \in Placeable /\ commodities[x].indent # 0
                        BY <1>1, <5>2, <6>3
                    <6> QED
                        BY <1>1, <6>1, <6>2, <6>3
                <5>6. ASSUME NEW h \in Placeable', p < h, h < c.good PROVE ~D(c.good, h)
                    <6>1. h \in Placeable
                        BY <1>1, <5>6
                    <6>2. commodities[h].indent = 0 => ~(commodities[h].suffix < c.suffix)
                        BY <5>4, <5>6, <6>1
                    <6> QED
                        BY <1>1, <3>1, <6>1, <6>2
                <5> QED
                    BY <5>2, <5>3, <5>5, <5>6
            <4> QED
                BY <4>5, <4>6
        <3>2. CASE k = 1
            <4> DEFINE n == Len(zeros)
            <4>1. n \in 1..n /\ n \in Nat /\ \A i \in 1..n : i <= n
                BY <1>2, <2>6
            <4>2. p = zeros[n]
                BY <2>6, <3>2 DEF ParentOf, Last
            <4> HIDE DEF p
            <4>3. p \in Placeable /\ commodities[p].indent = 0
                BY <1>2, <4>1, <4>2
            <4>4. p < c.good
                <5>1. p # Nobody
                    BY <4>3, MembersOfList DEF Nobody
                <5> QED
                    BY <1>5, <5>1
            <4>5. ASSUME NEW x \in Placeable, p < x PROVE commodities[x].indent > 0
                <5>1. CASE commodities[x].indent = 0
                    <6>1. PICK j \in 1..n : zeros[j] = x
                        BY <1>2, <5>1
                    <6>2. x <= p
                        BY <1>2, <4>1, <4>2, <6>1
                    <6> QED
                        BY <1>1, <4>3, <4>5, <6>2
                <5> QED
                    BY <1>1, <5>1
            <4>6. ASSUME NEW x \in Placeable', p < x PROVE D(x, p)
                BY <1>1, <3>2, <4>3, <4>5, <4>6
            <4>7. ASSUME NEW h \in Placeable', p < h, h < c.good PROVE ~D(c.good, h)
                <5>1. h \in Placeable /\ commodities[h].indent > 0
                    BY <1>1, <4>5, <4>7
                <5> QED
                    BY <1>1, <3>2, <5>1
            <4> QED
                BY <4>3, <4>4, <4>6, <4>7
        <3>3. CASE k >= 2
            <4>1. k - 1 \in 1..Len(column) /\ AtMost(k - 1, Len(column)) = k - 1
                BY <1>3, <1>4, <3>3 DEF AtMost
            <4>2. column # <<>>
                BY <1>3, <4>1, EmptySeq
            <4>3. p = column[k - 1]
                BY <3>3, <4>1, <4>2 DEF ParentOf
            <4> HIDE DEF p
            <4>4. /\ p \in Placeable /\ commodities[p].indent = k - 1
                  /\ \A h \in Placeable : p < h => commodities[h].indent > k - 1
                BY <1>3, <1>4, <4>1, <4>3 DEF RegularColumn
            <4>5. p < c.good
                <5>1. p # Nobody
                    BY <4>4, MembersOfList DEF Nobody
                <5> QED
                    BY <1>5, <5>1
            <4>6. ASSUME NEW x \in Placeable', p < x PROVE D(x, p)
                BY <1>1, <3>3, <4>4, <4>6
            <4>7. ASSUME NEW h \in Placeable', p < h, h < c.good PROVE ~D(c.good, h)
                <5>1. h \in Placeable /\ commodities[h].indent > k - 1
                    BY <1>1, <4>4, <4>7
                <5> QED
                    BY <1>1, <3>3, <5>1
            <4> QED
                BY <4>4, <4>5, <4>6, <4>7
        <3> QED
            BY <3>1, <3>2, <3>3
    <2> QED
        BY <2>7, <2>8
<1> QED
    BY <1>7, <1>8

-----------------------------------------------------------------------------
(* The steps of the traversal.                                             *)

(* The column above a good of indent k is where its climb starts. *)
WayAtStart ==
    /\ LastGood \in Placeable
    /\ LET k == commodities[LastGood].indent
       IN  Len(way) = IF k > 0 THEN k - 1 ELSE 0
    /\ \A i \in 1..Len(way) : way[i] = column[i]

LEMMA CollectedAtStart ==
    TypeOK /\ Listed /\ Regular /\ ColumnInv /\ WayAtStart => CollectedInv
<1> SUFFICES ASSUME TypeOK, Listed, Regular, ColumnInv, WayAtStart
             PROVE  CollectedInv
    OBVIOUS
<1> DEFINE g == LastGood
           k == commodities[g].indent
<1>1. /\ \A h \in Placeable : /\ h \in Nat /\ h <= g /\ commodities[h].indent \in Nat
      /\ g \in Placeable /\ g \in Nat /\ k \in Nat
    <2>1. commodities # <<>>
        <3>1. Members # {}
            BY DEF WayAtStart, Placeable
        <3>2. commodities # <<>> \/ DOMAIN commodities = {}
            OBVIOUS
        <3> QED
            BY <3>1, <3>2 DEF Members
    <2>2. \A h \in Placeable : h \in Members
        BY DEF Placeable
    <2> QED
        BY <2>1, <2>2, MembersOfList DEF WayAtStart, IndentOf
<1>2. Lowest(Placeable) = g
    <2>1. Placeable \in SUBSET Nat
        BY <1>1
    <2> QED
        BY <1>1, <2>1, LowestIs
<1>3. /\ Len(column) = k /\ DOMAIN column = 1..k
      /\ \A j \in 1..k : /\ column[j] \in Placeable /\ commodities[column[j]].indent = j
                         /\ \A h \in Placeable : column[j] < h => commodities[h].indent > j
    BY <1>1, <1>2, ColumnPlaces DEF ColumnInv, RegularColumn
<1>4. /\ way \in Seq(Goods) /\ Len(way) \in Nat /\ DOMAIN way = 1..Len(way)
      /\ Len(way) = IF k > 0 THEN k - 1 ELSE 0
      /\ \A i \in 1..Len(way) : i \in 1..k /\ i < k /\ way[i] = column[i]
    <2>1. way \in Seq(Goods) /\ Len(way) \in Nat /\ DOMAIN way = 1..Len(way)
        BY DEF TypeOK
    <2>2. Len(way) = IF k > 0 THEN k - 1 ELSE 0
        BY DEF WayAtStart
    <2>3. \A i \in 1..Len(way) : i \in 1..k /\ i < k
        BY <1>1, <2>2
    <2> QED
        BY <2>1, <2>2, <2>3 DEF WayAtStart
<1>5. Elems(way) = {way[i] : i \in 1..Len(way)}
    BY <1>4 DEF Elems
<1>6. \A h, x \in Placeable :
        /\ commodities[x].indent > commodities[h].indent => Deeper(x, h)
        /\ Deeper(x, h) => \/ commodities[x].indent > commodities[h].indent
                           \/ commodities[h].indent = 0
    <2>1. commodities[Chapter].indent = 0
        <3>1. Chapter \in Placeable /\ \A h \in Placeable : Chapter <= h
            <4>1. Placeable \in SUBSET (1..Len(commodities)) /\ Len(commodities) \in Nat
                BY MembersOfList
            <4>2. \E f \in Placeable : \A h \in Placeable : f <= h
                BY <1>1, <4>1, HasFirst
            <4> QED
                BY <4>2 DEF Chapter
        <3> QED
            BY <3>1, RegularIs DEF RegularForm
    <2> QED
        BY <2>1 DEF Deeper, IndentOf
<1>7. ASSUME NEW i \in 1..Len(way)
      PROVE  way[i] \in Placeable /\ Under(way[i], g)
    <2>1. /\ way[i] \in Placeable /\ commodities[way[i]].indent = i /\ i < k
          /\ \A h \in Placeable : way[i] < h => commodities[h].indent > i
        BY <1>3, <1>4
    <2>2. way[i] # g
        BY <1>4, <2>1
    <2>3. way[i] < g
        <3> DEFINE y == way[i]
        <3>1. y \in Nat /\ y <= g /\ y # g /\ g \in Nat
            BY <1>1, <2>1, <2>2
        <3> HIDE DEF y
        <3>2. y < g
            BY <3>1
        <3> QED
            BY <3>2 DEF y
    <2>4. \A h \in Placeable : way[i] < h => Deeper(h, way[i])
        BY <1>6, <2>1
    <2> QED
        BY <1>1, <2>1, <2>3, <2>4, UnderIs
<1>8. ASSUME NEW h \in Placeable, Under(h, g)
      PROVE  h \in Elems(way) \/ h < Reached
    <2> DEFINE n == commodities[h].indent
    <2>1. h < g /\ \A x \in Placeable : h < x /\ x <= g => Deeper(x, h)
        BY <1>1, <1>8, UnderIs
    <2>2. n \in Nat /\ (k > n \/ n = 0)
        BY <1>1, <1>6, <2>1
    <2>3. CASE k < 2
        <3>1. Len(way) = 0
            BY <1>1, <1>4, <2>3
        <3>2. Reached = g
            BY <1>4, <3>1, EmptySeq DEF Reached
        <3> QED
            BY <2>1, <3>2
    <2>4. CASE k >= 2
        <3>1. Len(way) = k - 1 /\ 1 \in 1..Len(way) /\ 1 \in 1..k
            BY <1>1, <1>4, <2>4
        <3>2. Reached = column[1]
            <4>1. way # <<>> /\ Head(way) = way[1]
                BY <1>4, <3>1, EmptySeq
            <4> QED
                BY <1>4, <3>1, <4>1 DEF Reached
        <3>3. CASE n = 0
            <4>1. column[1] \in Placeable /\ commodities[column[1]].indent = 1
                  /\ ~(column[1] < h)
                BY <1>3, <2>2, <3>1, <3>3
            <4>2. column[1] # h
                BY <3>3, <4>1
            <4>3. column[1] \in Nat /\ h \in Nat
                BY <1>1, <4>1
            <4>4. h < column[1]
                BY <4>1, <4>2, <4>3
            <4> QED
                BY <3>2, <4>4
        <3>4. CASE n # 0
            <4>1. n \in 1..Len(way) /\ n \in 1..k
                BY <1>1, <2>2, <3>1, <3>4
            <4>2. column[n] \in Placeable /\ commodities[column[n]].indent = n /\ ~(column[n] < h)
                BY <1>3, <2>2, <4>1
            <4>3. ~(h < column[n])
                <5>1. SUFFICES ASSUME h < column[n] PROVE FALSE
                    OBVIOUS
                <5>2. Deeper(column[n], h)
                    BY <1>1, <2>1, <4>2, <5>1
                <5>3. commodities[column[n]].indent > n
                    BY <1>6, <3>4, <4>2, <5>2
                <5> QED
                    BY <2>2, <4>2, <5>3
            <4>4. h = column[n]
                <5>1. h \in Nat /\ column[n] \in Nat
                    BY <1>1, <4>2
                <5> QED
                    BY <4>2, <4>3, <5>1
            <4>5. way[n] \in Elems(way) /\ way[n] = column[n]
                BY <1>4, <1>5, <4>1
            <4> QED
                BY <4>4, <4>5
        <3> QED
            BY <3>3, <3>4
    <2> QED
        BY <1>1, <2>3, <2>4
<1> QED
    BY <1>5, <1>7, <1>8 DEF CollectedInv

(* The blocks of the list that is read stay what they are. *)
LEMMA BlocksStay ==
    ASSUME TypeOK, TypeOK', Listed, ~AnyVersions, NEW c, Reads(c)
    PROVE  /\ \A g \in Placeable : {h \in Placeable' : Under(h, g)'} = {h \in Placeable : Under(h, g)}
           /\ \A g \in Placeable' : \A h \in Placeable : Under(g, h)' => g \in Placeable
<1>1. /\ \A k \in Placeable : k <= c.good
      /\ Placeable \in SUBSET Placeable'
      /\ \A k \in Placeable' : k \in Placeable \/ k = c.good
    <2>1. Fresh(c) \/ Repeated(c)
        BY ReadKinds
    <2> QED
        BY <2>1, PlaceableRead
<1>2. c.good \in Nat /\ \A k \in Placeable : k \in Nat
    BY MembersOfList, ReadEffect
<1>3. ASSUME NEW g \in Placeable', NEW h \in Placeable, Under(g, h)'
      PROVE  g \in Placeable
    <2>1. g < h
        BY <1>3 DEF Under
    <2> QED
        BY <1>1, <1>2, <2>1
<1>4. \A g, h \in Placeable : Under(g, h)' <=> Under(g, h)
    BY UnderStays
<1> QED
    BY <1>1, <1>3, <1>4

LEMMA TreeVisit ==
    ASSUME TypeOK, TypeOK', ClimbInv, ClimbInv', TreeInv, ~AnyVersions,
           NEW c, Reads(c), ~climbing, Visit(c)
    PROVE  TreeInv'
<1> SUFFICES ASSUME Regular'
             PROVE  ParentsInv' /\ AncestorsInv' /\ DescendantsInv' /\ CollectedInv'
    BY DEF TreeInv
<1>1. Listed /\ ZerosInv /\ ColumnInv /\ Listed' /\ ColumnInv'
    BY DEF ClimbInv
<1>2. c.indent \in Nat /\ c.indent # NoIndent /\ c.good \in Goods
    BY VisitedIndent DEF Visit
<1>3. ParentsInv /\ AncestorsInv /\ DescendantsInv
    BY <1>1, RegularRead DEF TreeInv
<1>4. /\ \A g \in Placeable : g \in Placeable' /\ g <= c.good /\ g \in Nat /\ g \in Goods
      /\ \A g \in Placeable' : g \in Placeable \/ g = c.good
      /\ c.good \in Nat /\ commodities'[c.good] = c
      /\ LastGood' = c.good
    BY <1>1, <1>2, PlaceableRead, ReadEffect, MembersOfList
<1>5. /\ \A g, h \in Placeable : Under(g, h)' <=> Under(g, h)
      /\ \A g \in Placeable : {h \in Placeable' : Under(h, g)'} = {h \in Placeable : Under(h, g)}
      /\ \A g \in Placeable' : \A h \in Placeable : Under(g, h)' => g \in Placeable
    BY <1>1, UnderStays, BlocksStay
<1>6. ParentsInv'
    <2>1. ASSUME NEW g \in Placeable'
          PROVE  edges'[g] = Lowest({h \in Placeable' : Under(h, g)'})
        <3>1. edges' = [edges EXCEPT ![c.good] = ParentOf(c.indent, c.suffix)]
              /\ edges \in [Goods -> Goods \cup {Nobody}]
            BY DEF Visit, TypeOK
        <3>2. CASE g = c.good
            <4>1. edges'[g] = ParentOf(c.indent, c.suffix)
                BY <1>2, <3>1, <3>2
            <4> QED
                BY <1>1, <1>2, <3>2, <4>1, ParentIs
        <3>3. CASE g # c.good
            <4>1. g \in Placeable /\ g \in Goods
                BY <1>4, <3>3
            <4>2. edges'[g] = edges[g]
                BY <3>1, <3>3, <4>1
            <4>3. edges[g] = Lowest({h \in Placeable : Under(h, g)})
                BY <1>3, <4>1 DEF ParentsInv
            <4> QED
                BY <1>5, <4>1, <4>2, <4>3
        <3> QED
            BY <3>2, <3>3
    <2> QED
        BY <2>1 DEF ParentsInv
<1>7. climbing' /\ ancestors' = ancestors /\ descendants' = descendants
    BY DEF Visit
<1>8. \A g : Finished(g)' => g # c.good
    BY <1>4, <1>7 DEF Finished
<1>9. \A g : Finished(g)
    BY DEF Finished
<1>10. AncestorsInv'
    <2>1. ASSUME NEW g \in Placeable', Finished(g)'
          PROVE  /\ Elems(ancestors'[g]) = {h \in Placeable' : Under(h, g)'}
                 /\ Increasing(ancestors'[g])
        <3>1. g \in Placeable
            BY <1>4, <1>8, <2>1
        <3>2. /\ Elems(ancestors[g]) = {h \in Placeable : Under(h, g)}
              /\ Increasing(ancestors[g])
            BY <1>3, <1>9, <3>1 DEF AncestorsInv
        <3> QED
            BY <1>5, <1>7, <3>1, <3>2
    <2> QED
        BY <2>1 DEF AncestorsInv
<1>11. DescendantsInv'
    <2>1. ASSUME NEW g \in Goods, NEW h \in descendants[g]
          PROVE  g \in Placeable' /\ h \in Placeable' /\ Under(g, h)'
        BY <1>3, <1>4, <1>5 DEF DescendantsInv
    <2>2. ASSUME NEW g \in Placeable', NEW h \in Placeable', Under(g, h)', Finished(h)'
          PROVE  h \in descendants[g]
        <3>1. h \in Placeable
            BY <1>4, <1>8, <2>2
        <3>2. g \in Placeable /\ Under(g, h)
            BY <1>5, <2>2, <3>1
        <3> QED
            BY <1>3, <1>9, <3>1, <3>2 DEF DescendantsInv
    <2> QED
        BY <1>7, <2>1, <2>2 DEF DescendantsInv
<1>12. CollectedInv'
    <2>1. WayAtStart'
        <3>1. LastGood' \in Placeable' /\ commodities'[LastGood'].indent = c.indent
            BY <1>1, <1>2, <1>4, LastPlaceable
        <3>2. Len(column') = c.indent
            <4>1. Lowest(Placeable') = c.good
                BY <1>1, <1>2, LastPlaceable
            <4>2. RegularColumn'
                BY <1>1 DEF ColumnInv
            <4> QED
                BY <1>4, <3>1, <4>1, <4>2 DEF RegularColumn
        <3>3. /\ Len(way') = IF c.indent > 0 THEN AtMost(c.indent - 1, Len(column')) ELSE 0
              /\ \A i \in 1..Len(way') : way'[i] = column'[i]
            <4>1. column' \in Seq(Goods)
                BY DEF TypeOK
            <4> QED
                BY <1>2, <4>1, WayStart DEF Visit
        <3>4. AtMost(c.indent - 1, Len(column')) = c.indent - 1
            BY <1>2, <3>2 DEF AtMost
        <3> QED
            BY <3>1, <3>3, <3>4 DEF WayAtStart
    <2>2. (TypeOK /\ Listed /\ Regular /\ ColumnInv /\ WayAtStart => CollectedInv)'
        BY CollectedAtStart, PTL
    <2> QED
        BY <1>1, <2>1, <2>2
<1> QED
    BY <1>6, <1>10, <1>11, <1>12

(* A good that is left out changes nothing. *)
LEMMA TreeSkip ==
    ASSUME TypeOK, TypeOK', ClimbInv, TreeInv, ~AnyVersions,
           NEW c, Reads(c), ~climbing, Skip(c)
    PROVE  TreeInv'
<1> SUFFICES ASSUME Regular'
             PROVE  ParentsInv' /\ AncestorsInv' /\ DescendantsInv' /\ CollectedInv'
    BY DEF TreeInv
<1>1. Listed
    BY DEF ClimbInv
<1>2. ParentsInv /\ AncestorsInv /\ DescendantsInv
    BY <1>1, RegularRead DEF TreeInv
<1>3. /\ Placeable' = Placeable
      /\ \A g, h \in Placeable : Under(g, h)' <=> Under(g, h)
      /\ \A g \in Placeable : {h \in Placeable : Under(h, g)'} = {h \in Placeable : Under(h, g)}
    BY <1>1, PlaceableRead, UnderStays DEF Skip
<1>4. /\ edges' = edges /\ ancestors' = ancestors /\ descendants' = descendants
      /\ ~climbing'
    BY DEF Skip
<1>5. \A g : Finished(g) /\ Finished(g)'
    BY <1>4 DEF Finished
<1>6. ParentsInv'
    BY <1>2, <1>3, <1>4 DEF ParentsInv
<1>7. AncestorsInv'
    <2>1. \A g \in Placeable : /\ Elems(ancestors[g]) = {h \in Placeable : Under(h, g)'}
                               /\ Increasing(ancestors[g])
        BY <1>2, <1>3, <1>5 DEF AncestorsInv
    <2> QED
        BY <1>3, <1>4, <2>1 DEF AncestorsInv
<1>8. DescendantsInv'
    <2>1. \A g \in Goods : \A h \in descendants[g] : g \in Placeable /\ h \in Placeable /\ Under(g, h)'
        BY <1>2, <1>3 DEF DescendantsInv
    <2>2. \A g, h \in Placeable : Under(g, h)' => h \in descendants[g]
        BY <1>2, <1>3, <1>5 DEF DescendantsInv
    <2> QED
        BY <1>3, <1>4, <2>1, <2>2 DEF DescendantsInv
<1>9. CollectedInv'
    BY <1>4 DEF CollectedInv
<1> QED
    BY <1>6, <1>7, <1>8, <1>9

(* What the tree of the list is does not change while the loop goes up. *)
LEMMA SameList ==
    ASSUME UNCHANGED commodities
    PROVE  /\ Placeable' = Placeable /\ LastGood' = LastGood
           /\ Regular' = Regular
           /\ \A g, h : Under(g, h)' = Under(g, h)
<1>1. Placeable' = Placeable /\ LastGood' = LastGood
    BY DEF Placeable, Members, IndentOf, LastGood, Last
<1>2. Regular' = Regular
    BY <1>1 DEF Regular, RegularWithout, IndentOf, Lowest
<1>3. Chapter' = Chapter
    BY <1>1 DEF Chapter
<1>4. \A g, h : Deeper(g, h)' = Deeper(g, h)
    BY <1>3 DEF Deeper, IndentOf
<1>5. \A g, h : Under(g, h)' = Under(g, h)
    BY <1>1, <1>4 DEF Under
<1> QED
    BY <1>1, <1>2, <1>5

(* The last of the goods above the place that the loop has reached. *)
LEMMA AboveIs ==
    ASSUME TypeOK, Listed, WayInv, ParentsInv, CollectedInv, climbing
    PROVE  /\ Reached \in Placeable /\ Reached <= LastGood
           /\ Reached = LastGood \/ Under(Reached, LastGood)
           /\ Above = Nobody => \A h \in Placeable : ~Under(h, Reached)
           /\ Above # Nobody => /\ Above \in Placeable /\ Under(Above, Reached)
                                /\ \A h \in Placeable : Under(h, Reached) => h <= Above
<1>1. Reached \in Placeable /\ (Reached = LastGood \/ Under(Reached, LastGood))
    <2>1. LastGood \in Placeable
        BY DEF WayInv
    <2>2. ASSUME way # <<>> PROVE Head(way) \in Elems(way)
        <3>1. way \in Seq(Goods)
            BY DEF TypeOK
        <3>2. 1 \in DOMAIN way /\ Head(way) = way[1]
            BY <2>2, <3>1, EmptySeq
        <3> QED
            BY <3>2 DEF Elems
    <2> QED
        BY <2>1, <2>2 DEF Reached, CollectedInv
<1>2. Reached <= LastGood
    <2>1. LastGood \in Placeable
        BY DEF WayInv
    <2>2. Reached \in Nat /\ LastGood \in Nat
        BY <1>1, <2>1, MembersOfList
    <2>3. Under(Reached, LastGood) => Reached < LastGood
        BY DEF Under
    <2> QED
        BY <1>1, <2>2, <2>3
<1> DEFINE S == {h \in Placeable : Under(h, Reached)}
<1>3. Above = Lowest(S)
    <2>1. Above = edges[Reached]
        BY Zenon DEF Above, Reached, LastGood
    <2> QED
        BY <1>1, <2>1 DEF ParentsInv
<1>4. S \in SUBSET (1..Len(commodities)) /\ Len(commodities) \in Nat
    BY MembersOfList
<1>5. S # {} => Lowest(S) \in S /\ \A h \in S : h <= Lowest(S)
    BY <1>4, LowestIsLast
<1>6. S = {} => Lowest(S) = Nobody
    BY DEF Lowest
<1>7. ~(Nobody \in S)
    BY <1>4 DEF Nobody
<1>8. ASSUME Above = Nobody PROVE \A h \in Placeable : ~Under(h, Reached)
    <2>1. S = {}
        BY <1>3, <1>5, <1>7, <1>8
    <2> QED
        BY <2>1
<1>9. ASSUME Above # Nobody
      PROVE  /\ Above \in Placeable /\ Under(Above, Reached)
             /\ \A h \in Placeable : Under(h, Reached) => h <= Above
    <2>1. Above \in S /\ \A h \in S : h <= Above
        BY <1>3, <1>5, <1>6, <1>9
    <2> QED
        BY <2>1
<1> QED
    BY <1>1, <1>2, <1>8, <1>9

LEMMA TreeClimb ==
    ASSUME TypeOK, ClimbInv, TreeInv, Climb
    PROVE  TreeInv'
<1>1. /\ climbing /\ Above # Nobody /\ way' = <<Above>> \o way
      /\ UNCHANGED <<commodities, zeros, column, edges, ancestors, descendants, climbing>>
    BY DEF Climb
<1>2. /\ Placeable' = Placeable /\ LastGood' = LastGood /\ Regular' = Regular
      /\ \A g, h : Under(g, h)' = Under(g, h)
    BY <1>1, SameList
<1>3. Listed /\ WayInv
    BY DEF ClimbInv
<1> SUFFICES ASSUME Regular
             PROVE  ParentsInv' /\ AncestorsInv' /\ DescendantsInv' /\ CollectedInv'
    BY <1>2 DEF TreeInv
<1>4. ParentsInv /\ AncestorsInv /\ DescendantsInv /\ CollectedInv
    BY DEF TreeInv
<1>5. ParentsInv'
    BY <1>1, <1>2, <1>4 DEF ParentsInv
<1>6. \A g : Finished(g)' = Finished(g)
    BY <1>1, <1>2 DEF Finished
<1>7. AncestorsInv'
    BY <1>1, <1>2, <1>4, <1>6 DEF AncestorsInv, Elems, Increasing
<1>8. DescendantsInv'
    BY <1>1, <1>2, <1>4, <1>6 DEF DescendantsInv
<1>9. CollectedInv'
    <2>1. /\ Reached \in Placeable /\ Reached <= LastGood
          /\ Reached = LastGood \/ Under(Reached, LastGood)
          /\ Above \in Placeable /\ Under(Above, Reached)
          /\ \A h \in Placeable : Under(h, Reached) => h <= Above
        BY <1>1, <1>3, <1>4, AboveIs
    <2>2. LastGood \in Placeable /\ way \in Seq(Goods) /\ Above \in Goods
        BY <1>3, <1>1, <2>1, MembersOfList DEF WayInv, TypeOK
    <2>3. Elems(way') = {Above} \cup Elems(way) /\ way' # <<>> /\ Head(way') = Above
        BY <1>1, <2>2, Prepended
    <2>4. Reached' = Above
        BY <2>3 DEF Reached
    <2>5. Under(Above, LastGood)
        BY <1>3, <2>1, <2>2, UnderTransitive
    <2>6. ASSUME NEW h \in Elems(way') PROVE h \in Placeable /\ Under(h, LastGood)
        BY <1>1, <1>4, <2>1, <2>3, <2>5 DEF CollectedInv
    <2>7. ASSUME NEW h \in Placeable, Under(h, LastGood)
          PROVE  h \in Elems(way') \/ h < Above
        <3>1. h \in Elems(way) \/ h < Reached
            BY <1>1, <1>4, <2>7 DEF CollectedInv
        <3>2. CASE h < Reached
            <4>1. Under(h, Reached)
                BY <1>3, <2>1, <2>2, <2>7, <3>2, UnderBetween
            <4>2. h <= Above /\ h \in Nat /\ Above \in Nat
                BY <1>3, <2>1, <4>1, MembersOfList
            <4> QED
                BY <2>3, <4>2
        <3> QED
            BY <2>3, <3>1, <3>2
    <2> QED
        BY <1>2, <2>4, <2>6, <2>7 DEF CollectedInv
<1> QED
    BY <1>5, <1>7, <1>8, <1>9

LEMMA TreeArrive ==
    ASSUME TypeOK, TypeOK', ClimbInv, TreeInv, Arrive
    PROVE  TreeInv'
<1> DEFINE g == LastGood
<1>1. /\ climbing /\ Above = Nobody /\ ~climbing'
      /\ ancestors' = [ancestors EXCEPT ![g] = way]
      /\ UNCHANGED <<commodities, zeros, column, edges>>
    BY DEF Arrive, LastGood
<1>2. /\ Placeable' = Placeable /\ LastGood' = LastGood /\ Regular' = Regular
      /\ \A x, h : Under(x, h)' = Under(x, h)
    BY <1>1, SameList
<1>3. Listed /\ WayInv /\ g \in Placeable /\ Increasing(way)
    BY <1>1 DEF ClimbInv, WayInv
<1> SUFFICES ASSUME Regular
             PROVE  ParentsInv' /\ AncestorsInv' /\ DescendantsInv' /\ CollectedInv'
    BY <1>2 DEF TreeInv
<1>4. ParentsInv /\ AncestorsInv /\ DescendantsInv /\ CollectedInv
    BY DEF TreeInv
<1>5. ParentsInv'
    BY <1>1, <1>2, <1>4 DEF ParentsInv
<1>6. \A h : Finished(h) <=> h # g
    BY <1>1 DEF Finished
<1>7. Elems(way) = {h \in Placeable : Under(h, g)}
    <2>1. /\ Reached \in Placeable /\ Reached <= g
          /\ \A h \in Placeable : ~Under(h, Reached)
        BY <1>1, <1>3, <1>4, AboveIs
    <2>2. ASSUME NEW h \in Placeable, Under(h, g) PROVE h \in Elems(way)
        <3>1. h \in Elems(way) \/ h < Reached
            BY <1>1, <1>4, <2>2 DEF CollectedInv
        <3>2. ~(h < Reached)
            BY <1>3, <2>1, <2>2, UnderBetween
        <3> QED
            BY <3>1, <3>2
    <2> QED
        BY <1>1, <1>4, <2>2 DEF CollectedInv
<1>8. Placeable \in SUBSET Goods
    BY <1>3, MembersOfList
<1>9. AncestorsInv'
    <2>1. ASSUME NEW x \in Placeable
          PROVE  /\ Elems(ancestors'[x]) = {h \in Placeable : Under(h, x)}
                 /\ Increasing(ancestors'[x])
        <3>1. x \in Goods /\ ancestors \in [Goods -> Seq(Goods)]
            BY <1>8 DEF TypeOK
        <3>2. CASE x = g
            <4>1. ancestors'[x] = way
                BY <1>1, <3>1, <3>2
            <4> QED
                BY <1>3, <1>7, <3>2, <4>1
        <3>3. CASE x # g
            <4>1. ancestors'[x] = ancestors[x]
                BY <1>1, <3>1, <3>3
            <4>2. Finished(x)
                BY <1>6, <3>3
            <4> QED
                BY <1>4, <4>1, <4>2 DEF AncestorsInv
        <3> QED
            BY <3>2, <3>3
    <2> QED
        BY <1>2, <2>1 DEF AncestorsInv
<1>10. \A x \in Goods : descendants'[x] = descendants[x] \cup IF x \in Elems(way) THEN {g} ELSE {}
    BY DEF Arrive, LastGood
<1>11. DescendantsInv'
    <2>1. ASSUME NEW x \in Goods, NEW h \in descendants'[x]
          PROVE  x \in Placeable /\ h \in Placeable /\ Under(x, h)
        <3>1. CASE h \in descendants[x]
            BY <1>4, <3>1 DEF DescendantsInv
        <3>2. CASE x \in Elems(way) /\ h = g
            BY <1>3, <1>7, <3>2
        <3> QED
            BY <1>10, <2>1, <3>1, <3>2
    <2>2. ASSUME NEW x \in Placeable, NEW h \in Placeable, Under(x, h)
          PROVE  h \in descendants'[x]
        <3>1. x \in Goods
            BY <1>8
        <3>2. CASE h # g
            <4>1. h \in descendants[x]
                BY <1>4, <1>6, <2>2, <3>2 DEF DescendantsInv
            <4> QED
                BY <1>10, <3>1, <4>1
        <3>3. CASE h = g
            <4>1. x \in Elems(way)
                BY <1>7, <2>2, <3>3
            <4> QED
                BY <1>10, <3>1, <3>3, <4>1
        <3> QED
            BY <3>2, <3>3
    <2> QED
        BY <1>2, <2>1, <2>2 DEF DescendantsInv
<1>12. CollectedInv'
    BY <1>1 DEF CollectedInv
<1> QED
    BY <1>5, <1>9, <1>11, <1>12

LEMMA TreeStep ==
    ASSUME TypeOK, ClimbInv, TreeInv, ~AnyVersions, [Next]_vars
    PROVE  TreeInv'
<1>1. TypeOK' /\ ClimbInv'
    BY TypeStep, ClimbStep DEF ClimbInv
<1>2. ASSUME NEW c, Step(c) PROVE TreeInv'
    BY <1>1, <1>2, TreeVisit, TreeSkip DEF Step
<1>3. CASE Climb
    BY <1>3, TreeClimb
<1>4. CASE Arrive
    BY <1>1, <1>4, TreeArrive
<1>5. CASE UNCHANGED vars
    <2>1. /\ Placeable' = Placeable /\ LastGood' = LastGood /\ Regular' = Regular
          /\ \A x, h : Under(x, h)' = Under(x, h)
        BY <1>5, SameList DEF vars
    <2>2. /\ edges' = edges /\ ancestors' = ancestors /\ descendants' = descendants
          /\ climbing' = climbing /\ way' = way
        BY <1>5 DEF vars
    <2>3. (ParentsInv' <=> ParentsInv) /\ (CollectedInv' <=> CollectedInv)
        BY <2>1, <2>2 DEF ParentsInv, CollectedInv, Reached, Elems
    <2>4. (AncestorsInv' <=> AncestorsInv) /\ (DescendantsInv' <=> DescendantsInv)
        BY <2>1, <2>2 DEF AncestorsInv, DescendantsInv, Finished, Elems, Increasing
    <2> QED
        BY <2>1, <2>3, <2>4 DEF TreeInv
<1> QED
    BY <1>2, <1>3, <1>4, <1>5, ReadIsStep DEF Next

LEMMA TreeStart == Init => TreeInv
<1> SUFFICES ASSUME Init PROVE TreeInv
    OBVIOUS
<1>1. /\ Placeable = {} /\ ~climbing
      /\ descendants = [g \in Goods |-> {}]
    BY DEF Init, Placeable, Members
<1> QED
    BY <1>1 DEF TreeInv, ParentsInv, AncestorsInv, DescendantsInv, CollectedInv

(* The tree that the traversal builds is the one the indented list means:  *)
(* ancestors, descendants, parents and common ancestors.                   *)
THEOREM TreeIsAlwaysThatOfTheList ==
    ASSUME ~AnyVersions
    PROVE  Spec => []TreeOfTheList
<1>1. TypeOK /\ ClimbInv /\ TreeInv /\ [Next]_vars => (TypeOK /\ ClimbInv /\ TreeInv)'
    BY TypeStep, ClimbStep, TreeStep DEF ClimbInv
<1>2. TypeOK /\ ClimbInv /\ TreeInv => TreeOfTheList
    <2> SUFFICES ASSUME TypeOK, ClimbInv, TreeInv, Regular, ~climbing, NEW g \in Placeable
                 PROVE  /\ descendants[g] = {h \in Placeable : Under(g, h)}
                        /\ Elems(ancestors[g]) = {h \in Placeable : Under(h, g)}
                        /\ \A i, j \in DOMAIN ancestors[g] :
                               i < j => ancestors[g][i] < ancestors[g][j]
                        /\ edges[g] = Lowest(Elems(ancestors[g]))
                        /\ \A h \in Placeable :
                               LET common == {k \in Placeable : Under(k, g) /\ Under(k, h)}
                                   found  == GetCommonAncestor(g, h)
                               IN  IF common = {} THEN found = Nobody
                                   ELSE found \in common /\ descendants[found] \cap common = {}
        BY Zenon DEF TreeOfTheList
    <2>1. /\ Listed /\ ParentsInv /\ AncestorsInv /\ DescendantsInv
          /\ \A x : Finished(x)
        BY DEF ClimbInv, TreeInv, Finished
    <2>2. Placeable \in SUBSET Goods /\ Placeable \in SUBSET Members
        BY <2>1, MembersOfList
    <2>3. \A x \in Placeable : descendants[x] = {h \in Placeable : Under(x, h)}
        BY <2>1, <2>2 DEF DescendantsInv
    <2>4. \A x \in Placeable : /\ Elems(ancestors[x]) = {h \in Placeable : Under(h, x)}
                               /\ Increasing(ancestors[x])
        BY <2>1 DEF AncestorsInv
    <2>5. edges[g] = Lowest(Elems(ancestors[g]))
        BY <2>1, <2>4 DEF ParentsInv
    <2>6. ASSUME NEW h \in Placeable
          PROVE  LET common == {k \in Placeable : Under(k, g) /\ Under(k, h)}
                     found  == GetCommonAncestor(g, h)
                 IN  IF common = {} THEN found = Nobody
                     ELSE found \in common /\ descendants[found] \cap common = {}
        <3> DEFINE common == {k \in Placeable : Under(k, g) /\ Under(k, h)}
                   found  == GetCommonAncestor(g, h)
        <3>1. Members \cap Elems(ancestors[g]) \cap Elems(ancestors[h]) = common
            BY <2>2, <2>4
        <3>2. found = Lowest(common)
            BY <3>1 DEF GetCommonAncestor
        <3>3. common \in SUBSET (1..Len(commodities)) /\ Len(commodities) \in Nat
              /\ common \in SUBSET Placeable
            BY <2>1, MembersOfList
        <3> HIDE DEF common, found
        <3>4. ASSUME common = {} PROVE found = Nobody
            BY <3>2, <3>4 DEF Lowest
        <3>5. ASSUME common # {}
              PROVE  found \in common /\ descendants[found] \cap common = {}
            <4>1. found \in common /\ \A k \in common : k <= found
                BY <3>2, <3>3, <3>5, LowestIsLast
            <4>2. ASSUME NEW k \in descendants[found] PROVE k \notin common
                <5>1. found \in Placeable
                    BY <3>3, <4>1
                <5>2. k \in Placeable /\ Under(found, k)
                    BY <2>3, <4>2, <5>1
                <5>3. k \in Nat /\ found \in Nat
                    BY <2>1, <5>1, <5>2, MembersOfList
                <5>4. found < k
                    BY <5>2 DEF Under
                <5>5. ~(k <= found)
                    BY <5>3, <5>4
                <5> QED
                    BY <4>1, <5>5
            <4> QED
                BY <4>1, <4>2
        <3> QED
            BY <3>4, <3>5, Zenon DEF common, found
    <2> QED
        BY <2>3, <2>4, <2>5, <2>6 DEF Increasing
<1> QED
    BY <1>1, <1>2, ClimbStart, TreeStart, PTL DEF Spec
=============================================================================
