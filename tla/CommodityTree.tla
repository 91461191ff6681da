--------------------------- MODULE CommodityTree ---------------------------
(***************************************************************************)
(* The tree of the goods of one chapter (CommodityTreeSnapshot in          *)
(* src/commodities/models/dc.py).  The tariff stores no edges: every good  *)
(* has a line number, a suffix and an indent, and the tree is what an      *)
(* indented list means.  _traverse reads the sorted list once, keeping the *)
(* 0-indents met so far and the last good at each deeper indent, and       *)
(* derives from them the parent, the ancestors and the descendants of each *)
(* good.  The duties shown for a good, the missing-measures check and the  *)
(* rule NIG2 all read this tree.                                           *)
(*                                                                         *)
(* The list is chosen while it is traversed: a step takes the next good of *)
(* any suffix and indent.  Goods are numbered in their sorted order.       *)
(***************************************************************************)
EXTENDS Integers, Sequences

CONSTANTS
    MaxCommodities,  \* bound: the length of the list
    MaxIndent,       \* bound: the deepest indent
    Suffixes,        \* product line suffixes, ordered as numbers
    Versions,        \* the goods the list may hold in several versions,
    AnyVersions      \* also of the chapter, or where a level is skipped?

ASSUME MaxCommoditiesAssumption == MaxCommodities \in Nat
ASSUME MaxIndentAssumption == MaxIndent \in Nat
ASSUME SuffixesAssumption == Suffixes \subseteq Nat
ASSUME VersionsAssumption == Versions \subseteq 1..MaxCommodities
ASSUME AnyVersionsAssumption == AnyVersions \in BOOLEAN

VARIABLES
    commodities,  \* the sorted list, as far as it has been read
    zeros,        \* indents[0]: the goods of indent 0 read so far
    column,       \* indents[1:]: the last good at each indent from 1 on
    edges,        \* the parent of each good
    ancestors,    \* its ancestors, from the top of the tree down
    descendants,  \* its descendants
    climbing,     \* is the while loop under way for the last good?
    way           \* the ancestors that loop has collected

vars == <<commodities, zeros, column, edges, ancestors, descendants,
          climbing, way>>

Nobody == 0      \* None where a good is expected
NoIndent == -1   \* None where an indent is expected

Goods == 1..MaxCommodities
Indents == 0..MaxIndent

Commodity ==
    [good : Goods, suffix : Suffixes, indent : Indents \cup {NoIndent}]

Last(s) == s[Len(s)]
Elems(s) == {s[i] : i \in DOMAIN s}
AtMost(m, n) == IF m <= n THEN m ELSE n

\* The last of a set of goods, or of places in a list.
Lowest(S) == IF S = {} THEN Nobody
             ELSE CHOOSE g \in S : \A h \in S : h <= g

(***************************************************************************)
(* The indent that counts: the one valid on the snapshot's date, but an    *)
(* indent of 0 on that date is false and gives way to the latest indent.   *)
(***************************************************************************)
UsedIndent(dated, latest) == IF dated \in {NoIndent, 0} THEN latest ELSE dated

SuffixOf(g) == (CHOOSE c \in Elems(commodities) : c.good = g).suffix

(***************************************************************************)
(* The parent of a good read next.  A 0-indent hangs from the last         *)
(* 0-indent with a lower suffix, and from the first of the list when there *)
(* is none; indent 1 hangs from the last 0-indent; a deeper good from the  *)
(* good above it in the column, or from the last one when the column is    *)
(* too short, and from the first 0-indent when it is empty.                *)
(***************************************************************************)
FirstZero == IF zeros = <<>> THEN Nobody ELSE Head(zeros)

ParentOfZeroNotHigher(suffix) ==
    LET notHigher == {i \in DOMAIN zeros : SuffixOf(zeros[i]) <= suffix}
    IN  IF notHigher = {} THEN FirstZero ELSE zeros[Lowest(notHigher)]

ParentOfZeroOncePlaced(suffix) ==
    LET lower == {i \in DOMAIN zeros : SuffixOf(zeros[i]) < suffix}
    IN  CASE lower # {} -> zeros[Lowest(lower)]
          [] zeros = <<>> -> Len(commodities) + 1
          [] OTHER -> FirstZero

ParentOfZero(suffix) ==
    LET lower == {i \in DOMAIN zeros : SuffixOf(zeros[i]) < suffix}
    IN  IF lower = {} THEN FirstZero ELSE zeros[Lowest(lower)]

ParentOf(indent, suffix) ==
    CASE indent = 0 -> ParentOfZero(suffix)
      [] indent = 1 -> IF zeros = <<>> THEN Nobody ELSE Last(zeros)
      [] OTHER -> IF column = <<>> THEN FirstZero
                  ELSE column[AtMost(indent - 1, Len(column))]

\* indents after the good took its place: what was deeper is forgotten
Placed(g, indent) ==
    IF indent = 0 THEN <<>>
    ELSE Append(SubSeq(column, 1, AtMost(indent - 1, Len(column))), g)

Init ==
    /\ commodities = <<>>
    /\ zeros = <<>>
    /\ column = <<>>
    /\ edges = [g \in Goods |-> Nobody]
    /\ ancestors = [g \in Goods |-> <<>>]
    /\ descendants = [g \in Goods |-> {}]
    /\ climbing = FALSE
    /\ way = <<>>

\* A good without any indent is left out, with a warning.
Skip(c) ==
    /\ c.indent = NoIndent
    /\ UNCHANGED <<zeros, column, edges, ancestors, descendants, climbing,
                   way>>

(***************************************************************************)
(* One round of the for loop, up to the while loop.                        *)
(***************************************************************************)
Visit(c) ==
    /\ c.indent # NoIndent
    /\ edges' = [edges EXCEPT ![c.good] = ParentOf(c.indent, c.suffix)]
    /\ zeros' = IF c.indent = 0 THEN Append(zeros, c.good) ELSE zeros
    /\ column' = Placed(c.good, c.indent)
    /\ way' = SubSeq(column', 1, AtMost(c.indent - 1, Len(column')))
    /\ climbing' = TRUE
    /\ UNCHANGED <<ancestors, descendants>>

(***************************************************************************)
(* The lists the method is written for start with the chapter, and no      *)
(* indent skips a level.                                                   *)
(***************************************************************************)
Members == {commodities[i].good : i \in DOMAIN commodities}
IndentOf(g) == commodities[g].indent
Placeable == {g \in Members : IndentOf(g) # NoIndent}
Chapter == CHOOSE g \in Placeable : \A h \in Placeable : g <= h

RegularWithout(S) ==
    LET rest == Placeable \ S
    IN  \A g \in rest :
            LET before == {h \in rest : h < g}
            IN  IF before = {} THEN IndentOf(g) = 0
                ELSE IndentOf(g) <= IndentOf(Lowest(before)) + 1
Regular == RegularWithout({})

(***************************************************************************)
(* The next good of the sorted list.  Goods are equal when their records   *)
(* and indents are (Commodity compares sid and indent_sid): versions of    *)
(* one good share its line and suffix, and come one after the other.       *)
(***************************************************************************)
ComesNext(c) ==
    \/ c.good = Len(commodities) + 1
    \/ /\ c.good \in Versions
       /\ commodities # <<>>
       /\ c = Last(commodities)
       /\ AnyVersions \/ (Regular /\ \E g \in Placeable : g < c.good)

Read ==
    /\ ~climbing
    /\ Len(commodities) < MaxCommodities
    /\ \E g \in Goods, suffix \in Suffixes,
          dated, latest \in Indents \cup {NoIndent} :
        LET c == [good |-> g, suffix |-> suffix,
                  indent |-> UsedIndent(dated, latest)]
        IN  /\ ComesNext(c)
            /\ commodities' = Append(commodities, c)
            /\ Skip(c) \/ Visit(c)

(***************************************************************************)
(* One round of the while loop: go up an edge, or keep what was collected  *)
(* when there is none.                                                     *)
(***************************************************************************)
Above ==
    edges[IF way = <<>> THEN Last(commodities).good ELSE Head(way)]

Climb ==
    /\ climbing
    /\ Above # Nobody
    /\ way' = <<Above>> \o way
    /\ UNCHANGED <<commodities, zeros, column, edges, ancestors, descendants,
                   climbing>>

Arrive ==
    LET g == Last(commodities).good
    IN  /\ climbing
        /\ Above = Nobody
        /\ ancestors' = [ancestors EXCEPT ![g] = way]
        /\ descendants' =
               [h \in Goods |-> descendants[h]
                                   \cup IF h \in Elems(way) THEN {g} ELSE {}]
        /\ climbing' = FALSE
        /\ way' = <<>>
        /\ UNCHANGED <<commodities, zeros, column, edges>>

Next == Read \/ Climb \/ Arrive

Spec == Init /\ [][Next]_vars

(***************************************************************************)
(* What is asked of the tree.                                              *)
(***************************************************************************)
GetChildren(g) == {h \in Members : edges[h] = g}

GetCommonAncestor(g, h) ==
    Lowest(Members \cap Elems(ancestors[g]) \cap Elems(ancestors[h]))

GetPotentialParents(g) ==
    {h \in GetChildren(IF edges[g] = Nobody THEN Nobody ELSE edges[edges[g]]) :
        h < g}

(***************************************************************************)
(*                             PROPERTIES                                  *)
(***************************************************************************)
TypeOK ==
    /\ commodities \in Seq(Commodity)
    /\ Len(commodities) <= MaxCommodities
    /\ zeros \in Seq(Goods)
    /\ column \in Seq(Goods) /\ Len(column) <= MaxIndent
    /\ edges \in [Goods -> Goods \cup {Nobody}]
    /\ ancestors \in [Goods -> Seq(Goods)]
    /\ descendants \in [Goods -> SUBSET Goods]
    /\ climbing \in BOOLEAN
    /\ way \in Seq(Goods)
    /\ (climbing => commodities # <<>>)

(***************************************************************************)
(* What an indented list means, stated without a traversal: Under(g, h)    *)
(* holds when g comes before h and nothing from behind g up to h is as     *)
(* shallow as g.  The first good, the chapter, is above all others, and    *)
(* among 0-indents the lower suffix is the shallower one.                  *)
(***************************************************************************)
Deeper(h, g) ==
    \/ g = Chapter /\ h # g
    \/ IndentOf(h) > IndentOf(g)
    \/ IndentOf(h) = 0 /\ IndentOf(g) = 0
       /\ commodities[h].suffix > commodities[g].suffix

Under(g, h) == g < h /\ \A k \in Placeable \cap (g + 1)..h : Deeper(k, g)

UnderWithout(p, g, h) ==
    g < h /\ \A k \in (Placeable \cap (g + 1)..h) \ {p} : Deeper(k, g)

(***************************************************************************)
(* The tree the traversal leaves is the one the indented list means: the   *)
(* descendants of a good are the block of deeper goods behind it, however  *)
(* 0-indent headings nest by suffix; the ancestors are the goods whose     *)
(* block it is in, in list order; the last of them is its parent; and      *)
(* get_common_ancestor returns the lowest good that is above both.         *)
(***************************************************************************)
TreeOfTheList ==
    Regular /\ ~climbing =>
        \A g \in Placeable :
            /\ descendants[g] = {h \in Placeable : Under(g, h)}
            /\ Elems(ancestors[g]) = {h \in Placeable : Under(h, g)}
            /\ \A i, j \in DOMAIN ancestors[g] :
                   i < j => ancestors[g][i] < ancestors[g][j]
            /\ edges[g] = Lowest(Elems(ancestors[g]))
            /\ \A h \in Placeable :
                   LET common == {k \in Placeable : Under(k, g) /\ Under(k, h)}
                       found  == GetCommonAncestor(g, h)
                   IN  IF common = {} THEN found = Nobody
                       ELSE found \in common /\ descendants[found] \cap common = {}

(***************************************************************************)
(* The while loop has no other way out than a good without parent, so it   *)
(* must never come back to a good it passed, also when indents skip        *)
(* levels.  It does when the chapter, or a good that skips a level, comes  *)
(* in two versions: the second is its own parent and the loop never ends.  *)
(***************************************************************************)
ClimbNeverReturns == \A i, j \in DOMAIN way : way[i] = way[j] => i = j

(***************************************************************************)
(* No good is its own ancestor.  One is when its indent skips a level: the *)
(* column the loop starts from then holds the good itself.                 *)
(***************************************************************************)
NobodyAboveItself == \A g \in Goods : g \notin Elems(ancestors[g])

(***************************************************************************)
(* The docstring of get_potential_parents: when the parent of a good is    *)
(* end-dated, another parent could be present to inherit the child; that   *)
(* one, unless it is the grandparent, is among the potential parents.  It  *)
(* is not when it is a 0-indent heading nested deeper than the parent.     *)
(***************************************************************************)
HeirIsPotentialParent ==
    Regular /\ ~climbing =>
        \A g \in Placeable :
            LET p == edges[g]
                heir == Lowest({h \in Placeable \ {p} : UnderWithout(p, h, g)})
            IN  p \notin {Nobody, Chapter} /\ heir # edges[p]
                    /\ RegularWithout({p}) => heir \in GetPotentialParents(g)

============================================================================
