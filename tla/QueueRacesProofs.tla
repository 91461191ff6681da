-------------------------- MODULE QueueRacesProofs --------------------------
(***************************************************************************)
(* Theorems about QueueRaces, for any number of sessions and rows.         *)
(***************************************************************************)
EXTENDS QueueRaces, QueuePositionsProofs

-----------------------------------------------------------------------------
(* Whatever overlaps.  Every copy of a row that a session holds, loaded or *)
(* written, has a position exactly if it awaits processing, except for the *)
(* moment in which begin_processing has saved the new state and not yet    *)
(* taken the row off the order.  So no copy that is saved, however old it  *)
(* is, can lose a row.                                                     *)

Well(r) == r \in Row /\ (r.position > 0 <=> r.state = "AWAITING_PROCESSING")

(* A row made of its columns is well. *)
LEMMA WellColumns ==
    ASSUME NEW n \in Nat, NEW st \in States, NEW e \in BOOLEAN,
           n > 0 <=> st = "AWAITING_PROCESSING"
    PROVE  Well([position |-> n, state |-> st, envelope |-> e])
<1> DEFINE r == [position |-> n, state |-> st, envelope |-> e]
<1>1. r.position = n /\ r.state = st
    OBVIOUS
<1>2. r \in Row
    BY DEF Row
<1> QED
    BY <1>1, <1>2 DEF Well

AllWell(rows) == DOMAIN rows \subseteq Pwb /\ \A p \in DOMAIN rows : Well(rows[p])

(* Between the two writes of begin_processing. *)
HalfWritten(s) ==
    /\ target[s] \in DOMAIN draft[s] /\ DOMAIN draft[s] \subseteq {target[s]}
    /\ draft[s][target[s]] \in Row
    /\ draft[s][target[s]].state = "CURRENTLY_PROCESSING"

SessionWell(s) ==
    /\ pc[s] # "idle" => target[s] \in Pwb /\ Well(instance[s])
    /\ pc[s] = "checked" /\ kind[s] = "begin_processing"
            => instance[s].state = "AWAITING_PROCESSING"
    /\ topBefore[s] # None \/ pc[s] = "comparing" => topBefore[s] \subseteq Pwb
    /\ AllWell(stale[s])
    /\ IF pc[s] = "popping" THEN HalfWritten(s) ELSE AllWell(draft[s])

Typing ==
    /\ row \in [Pwb -> Row]
    /\ pc \in [Session -> {"idle", "started", "checked", "popping", "shifting",
                           "comparing", "unlinking", "scheduling", "saving",
                           "committing"}]
    /\ kind \in [Session -> Requests \cup {"none"}]
    /\ target \in [Session -> Pwb \cup {None}]
    /\ instance = [s \in Session |-> instance[s]]
    /\ topBefore = [s \in Session |-> topBefore[s]]
    /\ stale = [s \in Session |-> stale[s]]
    /\ draft = [s \in Session |-> draft[s]]

CopiesWell ==
    /\ Typing
    /\ \A p \in Pwb : Well(row[p])
    /\ \A s \in Session : SessionWell(s)

(* A step of s leaves the other sessions alone. *)
OnlyFor(s) ==
    \A t \in Session \ {s} :
        /\ pc'[t] = pc[t] /\ kind'[t] = kind[t] /\ target'[t] = target[t]
        /\ instance'[t] = instance[t] /\ topBefore'[t] = topBefore[t]
        /\ stale'[t] = stale[t] /\ draft'[t] = draft[t]

(* A step that leaves the table, its own session and the types well leaves *)
(* all well.                                                               *)
LEMMA OthersStayWell ==
    ASSUME CopiesWell, NEW s \in Session, OnlyFor(s), SessionWell(s)',
           Typing', \A p \in Pwb : Well(row'[p])
    PROVE  CopiesWell'
<1>1. ASSUME NEW t \in Session \ {s}
      PROVE  SessionWell(t)'
    <2>1. SessionWell(t)
        BY DEF CopiesWell
    <2> QED
        BY <2>1 DEF OnlyFor, SessionWell, HalfWritten, AllWell
<1> QED
    BY <1>1 DEF CopiesWell

(* A request that ends leaves nothing behind. *)
LEMMA FinishWell ==
    ASSUME CopiesWell, NEW s \in Session, Finish(s),
           row' \in [Pwb -> Row], \A p \in Pwb : Well(row'[p])
    PROVE  CopiesWell'
<1>1. Typing'
    BY DEF CopiesWell, Typing, Finish, Goto
<1>2. OnlyFor(s)
    BY DEF CopiesWell, Typing, Finish, Goto, OnlyFor
<1>3. /\ pc'[s] = "idle" /\ topBefore'[s] = None
      /\ stale'[s] = NoRows /\ draft'[s] = NoRows
    BY DEF CopiesWell, Typing, Finish, Goto
<1>4. AllWell(NoRows)
    BY DEF AllWell, NoRows
<1>5. SessionWell(s)'
    BY <1>3, <1>4 DEF SessionWell, AllWell
<1> QED
    BY <1>1, <1>2, <1>5, OthersStayWell

(* A request that is rolled back leaves nothing behind either. *)
LEMMA RollBackWell ==
    ASSUME CopiesWell, NEW s \in Session, RollBack(s)
    PROVE  CopiesWell'
BY FinishWell DEF RollBack, CopiesWell, Typing

(* What a session sees is well, as the table and its draft are. *)
LEMMA ViewWell ==
    ASSUME CopiesWell, NEW s \in Session, pc[s] # "popping"
    PROVE  /\ View(s) \in [Pwb -> Row]
           /\ \A p \in Pwb : Well(View(s)[p])
<1>1. AllWell(draft[s]) /\ \A p \in Pwb : Well(row[p])
    BY DEF CopiesWell, SessionWell
<1>2. View(s) = [p \in Pwb |-> IF p \in DOMAIN draft[s] THEN draft[s][p] ELSE row[p]]
    BY <1>1 DEF View, Overlay, AllWell, CopiesWell, Typing
<1>3. \A p \in Pwb : Well(View(s)[p])
    BY <1>1, <1>2 DEF AllWell
<1> QED
    BY <1>2, <1>3 DEF Well

(* A column that has a place for exactly the rows that had one before      *)
(* leaves the rows well.                                                   *)
LEMMA SetPositionsWell ==
    ASSUME NEW table \in [Pwb -> Row], \A p \in Pwb : Well(table[p]),
           NEW pos \in [Pwb -> Nat],
           \A p \in Pwb : pos[p] > 0 <=> table[p].position > 0
    PROVE  /\ SetPositions(table, pos) \in [Pwb -> Row]
           /\ \A p \in Pwb : Well(SetPositions(table, pos)[p])
BY DEF SetPositions, Well, Row

(* What is written of a well table is well. *)
LEMMA ChangesWell ==
    ASSUME NEW table, \A p \in Pwb : Well(table[p]), NEW rows \in SUBSET Pwb
    PROVE  AllWell(Changes(table, rows))
BY DEF AllWell, Changes

(* The reorderings but abandon keep every row's place in the queue. *)
LEMMA ReorderedKeepsPlaces ==
    ASSUME NEW pos \in [Pwb -> Nat], NEW p \in Pwb, NEW k \in Reorderings
    PROVE  /\ Reordered(k, pos, p) \in [Pwb -> Nat]
           /\ k # "abandon" => \A q \in Pwb : Reordered(k, pos, p)[q] > 0 <=> pos[q] > 0
           /\ k = "abandon" /\ pos[p] # 0 =>
                \A q \in Pwb : Reordered(k, pos, p)[q] > 0 <=> pos[q] > 0 /\ q # p
<1>1. CASE k = "promote_position"
    <2>1. Reordered(k, pos, p) = Promoted(pos, p)
        BY <1>1 DEF Reordered
    <2> QED
        BY <1>1, <2>1 DEF Promoted, SwappedWith
<1>2. CASE k = "demote_position"
    <2>1. Reordered(k, pos, p) = Demoted(pos, p)
        BY <1>2 DEF Reordered
    <2> QED
        BY <1>2, <2>1 DEF Demoted, SwappedWith
<1>3. CASE k = "promote_to_top_position"
    <2>1. Reordered(k, pos, p) = PromotedToTop(pos, p)
        BY <1>3 DEF Reordered
    <2> QED
        BY <1>3, <2>1 DEF PromotedToTop
<1>4. CASE k = "abandon"
    <2>1. Reordered(k, pos, p) = Removed(pos, p)
        BY <1>4 DEF Reordered
    <2>2. Removed(pos, p) = [q \in Pwb |-> IF q = p THEN (IF 0 > pos[p] THEN 0 - 1 ELSE 0)
                                ELSE IF pos[q] > pos[p] THEN pos[q] - 1 ELSE pos[q]]
        BY DEF Removed, CloseGap
    <2> QED
        BY <1>4, <2>1, <2>2
<1> QED
    BY <1>1, <1>2, <1>3, <1>4 DEF Reorderings

(* The table with its rows' places exchanged, as WriteOrder and ShiftRest  *)
(* compute it, is well.                                                    *)
LEMMA OrderWritten ==
    ASSUME CopiesWell, NEW s \in Session, WriteOrder(s)
    PROVE  CopiesWell'
<1> DEFINE p     == target[s]
           k     == kind[s]
           moved == SetPositions(row, Reordered(k, Positions(row), p))
           after == IF k = "abandon" THEN [moved EXCEPT ![p].state = "ABANDONED"]
                    ELSE moved
<1>1. CASE RollBack(s)
    BY <1>1, RollBackWell
<1>2. CASE /\ k = "abandon" => row[p].position # 0
           /\ Goto(s, IF topBefore[s] = None THEN "committing" ELSE "comparing")
           /\ draft' = [draft EXCEPT ![s] = Changes(after, {p})]
           /\ UNCHANGED <<row, kind, target, instance, topBefore, stale>>
    <2>1. p \in Pwb /\ Well(instance[s]) /\ AllWell(stale[s]) /\ k \in Reorderings
        BY DEF CopiesWell, SessionWell, WriteOrder
    <2>2. /\ row \in [Pwb -> Row] /\ \A q \in Pwb : Well(row[q])
          /\ Positions(row) \in [Pwb -> Nat]
          /\ \A q \in Pwb : Positions(row)[q] = row[q].position
        BY DEF CopiesWell, Typing, Positions, Row
    <2>3. \A q \in Pwb : Well(after[q])
        <3> DEFINE pos == Reordered(k, Positions(row), p)
        <3>1. CASE k # "abandon"
            <4>1. /\ pos \in [Pwb -> Nat]
                  /\ \A q \in Pwb : pos[q] > 0 <=> row[q].position > 0
                BY <2>1, <2>2, <3>1, ReorderedKeepsPlaces
            <4> HIDE DEF pos
            <4>2. \A q \in Pwb : Well(SetPositions(row, pos)[q])
                BY <2>2, <4>1, SetPositionsWell
            <4> QED
                BY <3>1, <4>2 DEF pos
        <3>2. CASE k = "abandon"
            <4>1. /\ pos \in [Pwb -> Nat]
                  /\ \A q \in Pwb : pos[q] > 0 <=> row[q].position > 0 /\ q # p
                BY <1>2, <2>1, <2>2, <3>2, ReorderedKeepsPlaces
            <4>2. moved = SetPositions(row, pos) /\ after = [moved EXCEPT ![p].state = "ABANDONED"]
                BY <3>2
            <4> HIDE DEF pos, moved, after
            <4>3. moved = [q \in Pwb |-> [row[q] EXCEPT !.position = pos[q]]]
                BY <4>2 DEF SetPositions
            <4>9. \A q \in Pwb :
                    moved[q] = [position |-> pos[q], state |-> row[q].state,
                                envelope |-> row[q].envelope]
                BY <2>2, <4>3 DEF Row
            <4>4. after[p] = [position |-> pos[p], state |-> "ABANDONED",
                              envelope |-> row[p].envelope]
                <5>1. after[p] = [moved[p] EXCEPT !.state = "ABANDONED"]
                    BY <2>1, <4>2, <4>3
                <5>2. moved[p] = [position |-> pos[p], state |-> row[p].state,
                                  envelope |-> row[p].envelope]
                    BY <2>1, <4>9
                <5> QED
                    BY <5>1, <5>2
            <4>5. \A q \in Pwb \ {p} :
                    after[q] = [position |-> pos[q], state |-> row[q].state,
                                envelope |-> row[q].envelope]
                BY <4>2, <4>3, <4>9
            <4>6. pos[p] = 0
                BY <2>1, <4>1
            <4>10. \A q \in Pwb : row[q].envelope \in BOOLEAN /\ row[q].state \in States
                BY <2>2 DEF Row
            <4>7. Well(after[p])
                BY <2>1, <4>1, <4>4, <4>6, <4>10, WellColumns DEF States
            <4>8. ASSUME NEW q \in Pwb \ {p}
                  PROVE  Well(after[q])
                <5>1. pos[q] > 0 <=> row[q].state = "AWAITING_PROCESSING"
                    BY <2>2, <4>1 DEF Well
                <5>2. Well([position |-> pos[q], state |-> row[q].state,
                            envelope |-> row[q].envelope])
                    BY <4>1, <4>10, <5>1, WellColumns
                <5> QED
                    BY <4>5, <5>2
            <4> QED
                BY <4>7, <4>8
        <3> QED
            BY <3>1, <3>2
    <2>4. AllWell(Changes(after, {p}))
        <3> HIDE DEF after
        <3> QED
            BY <2>1, <2>3, ChangesWell
    <2> HIDE DEF after, moved
    <2>5. Typing' /\ OnlyFor(s)
        BY <1>2 DEF CopiesWell, Typing, Goto, OnlyFor
    <2>6. /\ draft'[s] = Changes(after, {p}) /\ pc'[s] \in {"committing", "comparing"}
          /\ pc'[s] = "comparing" => topBefore[s] # None
        BY <1>2 DEF CopiesWell, Typing, Goto
    <2>7. SessionWell(s)'
        BY <1>2, <2>1, <2>4, <2>6 DEF CopiesWell, SessionWell, AllWell
    <2> QED
        BY <1>2, <2>2, <2>5, <2>7, OthersStayWell
<1> QED
    BY <1>1, <1>2 DEF WriteOrder

(* The steps of begin_processing: between its two writes only the row that *)
(* the request holds locked is half written.                               *)
LEMMA BeginningWell ==
    ASSUME CopiesWell, NEW s \in Session,
           CheckConditions(s) \/ SaveProcessing(s) \/ PopTop(s) \/ ShiftRest(s)
    PROVE  CopiesWell'
<1> DEFINE p == target[s]
<1>0. /\ \A q \in Pwb : Well(row[q])
      /\ AllWell(stale[s])
      /\ pc[s] # "idle" => p \in Pwb /\ Well(instance[s])
      /\ topBefore[s] # None \/ pc[s] = "comparing" => topBefore[s] \subseteq Pwb
    BY DEF CopiesWell, SessionWell
<1>1. CASE RollBack(s)
    BY <1>1, RollBackWell
<1>2. CASE CheckConditions(s) /\ ~RollBack(s)
    <2>1. /\ pc[s] = "started" /\ Goto(s, "checked")
          /\ instance[s].state = "AWAITING_PROCESSING"
          /\ instance' = [instance EXCEPT ![s].position = 1]
          /\ UNCHANGED <<row, kind, target, topBefore, stale, draft>>
        BY <1>2 DEF CheckConditions
    <2>2. instance'[s] = [instance[s] EXCEPT !.position = 1]
        BY <2>1 DEF CopiesWell, Typing
    <2>3. Well(instance'[s]) /\ instance'[s].state = "AWAITING_PROCESSING"
        BY <1>0, <2>1, <2>2 DEF Well, Row
    <2>4. Typing' /\ OnlyFor(s) /\ pc'[s] = "checked"
        BY <2>1 DEF CopiesWell, Typing, Goto, OnlyFor
    <2>5. AllWell(draft[s])
        BY <2>1 DEF CopiesWell, SessionWell
    <2>6. SessionWell(s)'
        BY <1>0, <2>1, <2>3, <2>4, <2>5 DEF SessionWell, AllWell
    <2> QED
        BY <1>0, <2>1, <2>4, <2>6, OthersStayWell
<1>3. CASE SaveProcessing(s) /\ ~RollBack(s)
    <2>1. /\ pc[s] = "checked" /\ kind[s] = "begin_processing" /\ Goto(s, "popping")
          /\ draft' = [draft EXCEPT ![s] =
                [q \in {p} |-> [instance[s] EXCEPT !.state = "CURRENTLY_PROCESSING"]]]
          /\ UNCHANGED <<row, kind, target, instance, topBefore, stale>>
        BY <1>3 DEF SaveProcessing
    <2>2. draft'[s] = [q \in {p} |-> [instance[s] EXCEPT !.state = "CURRENTLY_PROCESSING"]]
        BY <2>1 DEF CopiesWell, Typing
    <2>3. /\ DOMAIN draft'[s] = {p}
          /\ draft'[s][p] = [instance[s] EXCEPT !.state = "CURRENTLY_PROCESSING"]
        BY <2>2
    <2>4. draft'[s][p] \in Row /\ draft'[s][p].state = "CURRENTLY_PROCESSING"
        <3>1. draft'[s][p] = [position |-> instance[s].position,
                              state |-> "CURRENTLY_PROCESSING",
                              envelope |-> instance[s].envelope]
            BY <1>0, <2>1, <2>3 DEF Well, Row
        <3>2. instance[s].position \in Nat /\ instance[s].envelope \in BOOLEAN
            BY <1>0, <2>1 DEF Well, Row
        <3> QED
            BY <3>1, <3>2 DEF Row, States
    <2>5. Typing' /\ OnlyFor(s) /\ pc'[s] = "popping"
        BY <2>1 DEF CopiesWell, Typing, Goto, OnlyFor
    <2>6. SessionWell(s)'
        BY <1>0, <2>1, <2>3, <2>4, <2>5 DEF SessionWell, AllWell, HalfWritten
    <2> QED
        BY <1>0, <2>1, <2>5, <2>6, OthersStayWell
<1>4. CASE PopTop(s) /\ ~RollBack(s)
    <2>1. /\ pc[s] = "popping" /\ Goto(s, "shifting")
          /\ draft' = [draft EXCEPT ![s][p].position = 0]
          /\ UNCHANGED <<row, kind, target, instance, topBefore, stale>>
        BY <1>4 DEF PopTop
    <2>2. HalfWritten(s)
        BY <2>1 DEF CopiesWell, SessionWell
    <2>3. draft'[s] = [draft[s] EXCEPT ![p] = [draft[s][p] EXCEPT !.position = 0]]
        BY <2>1 DEF CopiesWell, Typing
    <2>4. DOMAIN draft'[s] = {p} /\ draft'[s][p] = [draft[s][p] EXCEPT !.position = 0]
        BY <2>2, <2>3 DEF HalfWritten
    <2>5. Well(draft'[s][p])
        BY <2>2, <2>4 DEF HalfWritten, Well, Row
    <2>6. Typing' /\ OnlyFor(s) /\ pc'[s] = "shifting"
        BY <2>1 DEF CopiesWell, Typing, Goto, OnlyFor
    <2>7. SessionWell(s)'
        BY <1>0, <2>1, <2>4, <2>5, <2>6 DEF SessionWell, AllWell
    <2> QED
        BY <1>0, <2>1, <2>6, <2>7, OthersStayWell
<1>5. CASE ShiftRest(s) /\ ~RollBack(s)
    <2> DEFINE pos   == CloseGap(Positions(View(s)), 1)
               moved == SetPositions(View(s), pos)
    <2>1. /\ pc[s] = "shifting" /\ Goto(s, "committing")
          /\ draft' = [draft EXCEPT ![s] = Changes(moved, {p})]
          /\ UNCHANGED <<row, kind, target, instance, topBefore, stale>>
        BY <1>5 DEF ShiftRest
    <2>2. View(s) \in [Pwb -> Row] /\ \A q \in Pwb : Well(View(s)[q])
        BY <2>1, ViewWell
    <2>3. pos \in [Pwb -> Nat] /\ \A q \in Pwb : pos[q] > 0 <=> View(s)[q].position > 0
        <3>1. pos = [q \in Pwb |-> IF View(s)[q].position > 1 THEN View(s)[q].position - 1
                                   ELSE View(s)[q].position]
            BY DEF CloseGap, Positions
        <3>2. \A q \in Pwb : View(s)[q].position \in Nat
            BY <2>2 DEF Row
        <3> QED
            BY <3>1, <3>2
    <2> HIDE DEF pos
    <2>4. \A q \in Pwb : Well(moved[q])
        BY <2>2, <2>3, SetPositionsWell
    <2> HIDE DEF moved
    <2>5. AllWell(Changes(moved, {p}))
        BY <1>0, <2>1, <2>4, ChangesWell
    <2>6. Typing' /\ OnlyFor(s) /\ pc'[s] = "committing" /\ draft'[s] = Changes(moved, {p})
        BY <2>1 DEF CopiesWell, Typing, Goto, OnlyFor
    <2>7. SessionWell(s)'
        BY <1>0, <2>1, <2>5, <2>6 DEF SessionWell, AllWell
    <2> QED
        BY <1>0, <2>1, <2>6, <2>7, OthersStayWell
<1> QED
    BY <1>1, <1>2, <1>3, <1>4, <1>5

(* What a request or a task loads when it starts is a copy of the table. *)
LEMMA ReceivingWell ==
    ASSUME CopiesWell, NEW s \in Session,
           \/ \E k \in Kinds, p \in Pwb : Receive(s, k, p)
           \/ \E p \in Pwb : Create(s, p)
           \/ ReadTop(s) \/ StartRendering(s)
    PROVE  CopiesWell'
<1>0. /\ \A q \in Pwb : Well(row[q])
      /\ AllWell(stale[s])
      /\ pc[s] # "idle" => target[s] \in Pwb /\ Well(instance[s])
      /\ topBefore[s] # None \/ pc[s] = "comparing" => topBefore[s] \subseteq Pwb
      /\ pc[s] # "popping" => AllWell(draft[s])
    BY DEF CopiesWell, SessionWell
<1>1. CASE RollBack(s)
    BY <1>1, RollBackWell
<1>2. ASSUME NEW k \in Kinds, NEW p \in Pwb, Receive(s, k, p)
      PROVE  CopiesWell'
    <2>1. k \in Requests
        BY RaceAssumption
    <2>2. Typing' /\ OnlyFor(s)
        BY <1>2, <2>1 DEF CopiesWell, Typing, Goto, OnlyFor, Receive
    <2>3. /\ pc[s] = "idle" /\ pc'[s] = "started" /\ target'[s] = p /\ instance'[s] = row[p]
          /\ UNCHANGED <<row, topBefore, stale, draft>>
        BY <1>2 DEF CopiesWell, Typing, Goto, Receive
    <2>4. SessionWell(s)'
        BY <1>0, <2>3 DEF SessionWell, AllWell
    <2> QED
        BY <1>0, <2>2, <2>3, <2>4, OthersStayWell
<1>3. ASSUME NEW p \in Pwb, Create(s, p)
      PROVE  CopiesWell'
    <2>1. PICK last \in {0} \cup {row[q].position : q \in Pwb} :
            row' = [row EXCEPT ![p] = [position |-> last + 1,
                                       state |-> "AWAITING_PROCESSING",
                                       envelope |-> FALSE]]
        BY <1>3 DEF Create
    <2>2. last \in Nat
        BY DEF CopiesWell, Typing, Row
    <2>3. row' \in [Pwb -> Row] /\ \A q \in Pwb : Well(row'[q])
        <3>1. Well([position |-> last + 1, state |-> "AWAITING_PROCESSING",
                    envelope |-> FALSE])
            <4>1. /\ last + 1 \in Nat /\ "AWAITING_PROCESSING" \in States
                  /\ last + 1 > 0 <=> "AWAITING_PROCESSING" = "AWAITING_PROCESSING"
                BY <2>2 DEF States
            <4>2. FALSE \in BOOLEAN
                OBVIOUS
            <4> QED
                BY <4>1, <4>2, WellColumns, Zenon
        <3>2. \A q \in Pwb : Well(row'[q])
            BY <1>0, <2>1, <3>1 DEF CopiesWell, Typing
        <3> QED
            BY <2>1, <3>2 DEF CopiesWell, Typing, Well
    <2>4. Typing' /\ OnlyFor(s)
        BY <1>3, <2>3 DEF CopiesWell, Typing, OnlyFor, Create
    <2>5. SessionWell(s)'
        BY <1>0, <1>3 DEF SessionWell, AllWell, Create
    <2> QED
        BY <2>3, <2>4, <2>5, OthersStayWell
<1>4. CASE ReadTop(s) /\ ~RollBack(s)
    <2>1. /\ pc[s] = "started" /\ Goto(s, "checked") /\ kind[s] \in Reorderings
          /\ topBefore' = [topBefore EXCEPT ![s] =
                IF Processing(row) = {} THEN Top(row) ELSE None]
          /\ UNCHANGED <<row, kind, target, instance, stale, draft>>
        BY <1>4 DEF ReadTop
    <2>2. Typing' /\ OnlyFor(s) /\ pc'[s] = "checked"
        BY <2>1 DEF CopiesWell, Typing, Goto, OnlyFor
    <2>3. topBefore'[s] # None => topBefore'[s] \subseteq Pwb
        BY <2>1 DEF CopiesWell, Typing, Top, Awaiting, WithState
    <2>4. SessionWell(s)'
        BY <1>0, <2>1, <2>2, <2>3 DEF SessionWell, AllWell, Reorderings
    <2> QED
        BY <1>0, <2>1, <2>2, <2>4, OthersStayWell
<1>5. CASE StartRendering(s) /\ ~RollBack(s)
    <2>1. /\ pc[s] = "started" /\ Goto(s, "saving")
          /\ stale' = [stale EXCEPT ![s] =
                [p \in {target[s]} |-> [instance[s] EXCEPT !.envelope = TRUE]]]
          /\ UNCHANGED <<row, kind, target, instance, topBefore, draft>>
        BY <1>5 DEF StartRendering
    <2>2. stale'[s] = [p \in {target[s]} |-> [instance[s] EXCEPT !.envelope = TRUE]]
        BY <2>1 DEF CopiesWell, Typing
    <2>3. /\ DOMAIN stale'[s] = {target[s]}
          /\ stale'[s][target[s]] = [instance[s] EXCEPT !.envelope = TRUE]
        BY <2>2
    <2>4. AllWell(stale'[s])
        <3>1. stale'[s][target[s]] = [position |-> instance[s].position,
                                      state |-> instance[s].state, envelope |-> TRUE]
            <4>1. instance[s] = [position |-> instance[s].position,
                                 state |-> instance[s].state,
                                 envelope |-> instance[s].envelope]
                BY <1>0, <2>1 DEF Well, Row
            <4> QED
                BY <2>3, <4>1
        <3>2. Well(stale'[s][target[s]])
            <4>1. /\ instance[s].position \in Nat /\ instance[s].state \in States
                  /\ instance[s].position > 0 <=> instance[s].state = "AWAITING_PROCESSING"
                BY <1>0, <2>1 DEF Well, Row
            <4>2. TRUE \in BOOLEAN
                OBVIOUS
            <4> QED
                BY <3>1, <4>1, <4>2, WellColumns, Zenon
        <3> QED
            BY <1>0, <2>1, <2>3, <3>2 DEF AllWell
    <2>5. Typing' /\ OnlyFor(s) /\ pc'[s] = "saving"
        BY <2>1 DEF CopiesWell, Typing, Goto, OnlyFor
    <2>6. SessionWell(s)'
        BY <1>0, <2>1, <2>4, <2>5 DEF SessionWell, AllWell
    <2> QED
        BY <1>0, <2>1, <2>5, <2>6, OthersStayWell
<1> QED
    BY <1>1, <1>2, <1>3, <1>4, <1>5

(* The reads and whole-row saves of create_envelope_on_new_top. *)
LEMMA DecoratorWell ==
    ASSUME CopiesWell, NEW s \in Session,
           CompareTop(s) \/ UnlinkOldTop(s) \/ ReadNewTop(s) \/ SaveNewTop(s)
    PROVE  CopiesWell'
<1>0. /\ \A q \in Pwb : Well(row[q])
      /\ AllWell(stale[s])
      /\ pc[s] # "idle" => target[s] \in Pwb /\ Well(instance[s])
      /\ topBefore[s] # None \/ pc[s] = "comparing" => topBefore[s] \subseteq Pwb
      /\ pc[s] # "popping" => AllWell(draft[s])
    BY DEF CopiesWell, SessionWell
<1>1. CASE RollBack(s)
    BY <1>1, RollBackWell
<1>2. CASE CompareTop(s) /\ ~RollBack(s)
    <2> DEFINE old == [p \in {q \in topBefore[s] : View(s)[q].envelope} |->
                        [View(s)[p] EXCEPT !.envelope = FALSE]]
    <2>1. /\ pc[s] = "comparing"
          /\ \/ Goto(s, "committing") /\ stale' = stale
             \/ Goto(s, "unlinking") /\ stale' = [stale EXCEPT ![s] = old]
          /\ UNCHANGED <<row, kind, target, instance, topBefore, draft>>
        BY <1>2 DEF CompareTop
    <2>2. \A q \in Pwb : Well(View(s)[q])
        BY <2>1, ViewWell
    <2>3. topBefore[s] \subseteq Pwb
        BY <1>0, <2>1
    <2>4. AllWell(old)
        BY <2>2, <2>3 DEF AllWell, Well, Row
    <2> HIDE DEF old
    <2>5. AllWell(stale'[s])
        BY <1>0, <2>1, <2>4 DEF CopiesWell, Typing
    <2>6. Typing' /\ OnlyFor(s) /\ pc'[s] \in {"committing", "unlinking"}
        BY <2>1 DEF CopiesWell, Typing, Goto, OnlyFor
    <2>7. SessionWell(s)'
        BY <1>0, <2>1, <2>5, <2>6 DEF SessionWell, AllWell
    <2> QED
        BY <1>0, <2>1, <2>6, <2>7, OthersStayWell
<1>3. CASE UnlinkOldTop(s) \/ SaveNewTop(s)
    <2>1. /\ pc[s] \in {"unlinking", "saving"}
          /\ Goto(s, "scheduling") \/ Goto(s, "committing")
          /\ draft' = [draft EXCEPT ![s] = Overlay(draft[s], stale[s])]
          /\ UNCHANGED <<row, kind, target, instance, topBefore, stale>>
        BY <1>3 DEF UnlinkOldTop, SaveNewTop, SaveStale
    <2>2. draft'[s] = Overlay(draft[s], stale[s])
        BY <2>1 DEF CopiesWell, Typing
    <2>3. draft'[s] = [p \in DOMAIN stale[s] \cup DOMAIN draft[s] |->
                        IF p \in DOMAIN stale[s] THEN stale[s][p] ELSE draft[s][p]]
        BY <2>2 DEF Overlay
    <2>4. AllWell(draft'[s])
        BY <1>0, <2>1, <2>3 DEF AllWell
    <2>5. Typing' /\ OnlyFor(s) /\ pc'[s] \in {"scheduling", "committing"}
        BY <2>1 DEF CopiesWell, Typing, Goto, OnlyFor
    <2>6. SessionWell(s)'
        BY <1>0, <2>1, <2>4, <2>5 DEF SessionWell, AllWell
    <2> QED
        BY <1>0, <2>1, <2>5, <2>6, OthersStayWell
<1>4. CASE ReadNewTop(s)
    <2>1. /\ pc[s] = "scheduling" /\ Goto(s, "saving")
          /\ stale' = [stale EXCEPT ![s] = [p \in Top(View(s)) |-> View(s)[p]]]
          /\ UNCHANGED <<row, kind, target, instance, topBefore, draft>>
        BY <1>4 DEF ReadNewTop
    <2>2. \A q \in Pwb : Well(View(s)[q])
        BY <2>1, ViewWell
    <2>3. Top(View(s)) \subseteq Pwb
        BY DEF Top, Awaiting, WithState
    <2>4. AllWell(stale'[s])
        BY <2>1, <2>2, <2>3 DEF CopiesWell, Typing, AllWell
    <2>5. Typing' /\ OnlyFor(s) /\ pc'[s] = "saving"
        BY <2>1 DEF CopiesWell, Typing, Goto, OnlyFor
    <2>6. SessionWell(s)'
        BY <1>0, <2>1, <2>4, <2>5 DEF SessionWell, AllWell
    <2> QED
        BY <1>0, <2>1, <2>5, <2>6, OthersStayWell
<1> QED
    BY <1>1, <1>2, <1>3, <1>4

(* Whatever is committed is well. *)
LEMMA CommittedWell ==
    ASSUME CopiesWell, NEW s \in Session, Commit(s) \/ SaveEnvelope(s)
    PROVE  CopiesWell'
<1>1. CASE Commit(s)
    <2>1. row' \in [Pwb -> Row] /\ \A p \in Pwb : Well(row'[p])
        BY <1>1, ViewWell DEF Commit
    <2> QED
        BY <1>1, <2>1, FinishWell DEF Commit
<1>2. CASE SaveEnvelope(s)
    <2>1. AllWell(stale[s]) /\ \A p \in Pwb : Well(row[p])
        BY DEF CopiesWell, SessionWell
    <2>2. row' = [p \in Pwb |-> IF p \in DOMAIN stale[s] THEN stale[s][p] ELSE row[p]]
        BY <1>2, <2>1 DEF SaveEnvelope, Overlay, AllWell, CopiesWell, Typing
    <2>3. \A p \in Pwb : Well(row'[p])
        BY <2>1, <2>2 DEF AllWell
    <2>4. row' \in [Pwb -> Row]
        BY <2>2, <2>3 DEF Well
    <2> QED
        BY <1>2, <2>3, <2>4, FinishWell DEF SaveEnvelope
<1> QED
    BY <1>1, <1>2

(* Every step of every session leaves the copies well, *)
LEMMA CopiesStayWell ==
    ASSUME CopiesWell, [Next]_vars
    PROVE  CopiesWell'
<1>1. ASSUME NEW s \in Session, Step(s)
      PROVE  CopiesWell'
    <2>1. CASE RollBack(s)
        BY <2>1, RollBackWell
    <2> QED
        BY <1>1, <2>1, OrderWritten, BeginningWell, ReceivingWell, DecoratorWell,
           CommittedWell DEF Step, BreakDeadlock
<1>2. CASE UNCHANGED vars
    BY <1>2 DEF vars, CopiesWell, Typing, SessionWell, HalfWritten, AllWell
<1> QED
    BY <1>1, <1>2 DEF Next

(* ... as they are at the start, *)
LEMMA CopiesStartWell ==
    ASSUME Init
    PROVE  CopiesWell
<1>1. PICK pos \in [Pwb \ InHand -> 0..Waiting] :
        row = [p \in Pwb |->
                    CASE p \in InHand ->
                            [Unused EXCEPT !.state = "CURRENTLY_PROCESSING",
                                           !.envelope = TRUE]
                      [] p \notin InHand /\ pos[p] > 0 ->
                            [position |-> pos[p], state |-> "AWAITING_PROCESSING",
                             envelope |-> InHand = {} /\ pos[p] = 1]
                      [] OTHER -> Unused]
    BY DEF Init
<1>2. Waiting \in Nat
    <2>1. IsFiniteSet(Pwb \ InHand)
        BY RaceAssumption, FS_Subset
    <2> QED
        BY <2>1, RaceAssumption, FS_CardinalityType
<1>3. ASSUME NEW p \in Pwb
      PROVE  Well(row[p])
    <2>1. CASE p \in InHand
        <3>1. row[p] = [position |-> 0, state |-> "CURRENTLY_PROCESSING",
                        envelope |-> TRUE]
            BY <1>1, <2>1 DEF Unused
        <3>2. 0 \in Nat /\ "CURRENTLY_PROCESSING" \in States
              /\ (0 > 0 <=> "CURRENTLY_PROCESSING" = "AWAITING_PROCESSING")
            BY DEF States
        <3>3. TRUE \in BOOLEAN
            OBVIOUS
        <3>4. Well([position |-> 0, state |-> "CURRENTLY_PROCESSING", envelope |-> TRUE])
            BY <3>2, <3>3, WellColumns, Zenon
        <3> QED
            BY <3>1, <3>4
    <2>2. CASE p \notin InHand /\ pos[p] > 0
        <3>1. row[p] = [position |-> pos[p], state |-> "AWAITING_PROCESSING",
                        envelope |-> InHand = {} /\ pos[p] = 1]
            BY <1>1, <2>2
        <3>2. pos[p] \in Nat /\ (InHand = {} /\ pos[p] = 1) \in BOOLEAN
            BY <1>2, <2>2
        <3> QED
            BY <2>2, <3>1, <3>2 DEF Well, Row, States
    <2>3. CASE p \notin InHand /\ ~(pos[p] > 0)
        <3>1. row[p] = [position |-> 0, state |-> "no row", envelope |-> FALSE]
            BY <1>1, <2>3 DEF Unused
        <3>2. 0 \in Nat /\ "no row" \in States
              /\ (0 > 0 <=> "no row" = "AWAITING_PROCESSING")
            BY DEF States
        <3>3. FALSE \in BOOLEAN
            OBVIOUS
        <3>4. Well([position |-> 0, state |-> "no row", envelope |-> FALSE])
            BY <3>2, <3>3, WellColumns, Zenon
        <3> QED
            BY <3>1, <3>4
    <2> QED
        BY <2>1, <2>2, <2>3
<1>4. row \in [Pwb -> Row]
    BY <1>1, <1>3 DEF Well
<1>5. Typing
    BY <1>4 DEF Init, Typing
<1>6. \A s \in Session : SessionWell(s)
    BY DEF Init, SessionWell, AllWell, NoRows
<1> QED
    BY <1>3, <1>5, <1>6 DEF CopiesWell

(* ... and so they always are. *)
LEMMA CopiesAlwaysWell == Spec => []CopiesWell
BY CopiesStartWell, CopiesStayWell, PTL DEF Spec

(* The table, its copies and its drafts keep their types, for any sessions *)
(* and rows.                                                               *)
THEOREM TypeCorrect == Spec => []TypeOK
<1>1. CopiesWell => TypeOK
    BY DEF CopiesWell, Typing, TypeOK, SessionWell, HalfWritten, AllWell, Well
<1> QED
    BY <1>1, CopiesAlwaysWell, PTL

(* Whatever overlaps, and even where the order is lost: a row that awaits  *)
(* processing has a place in the queue, and no other row has one.          *)
THEOREM NeverARowLost == Spec => []NoRowLost
<1>1. CopiesWell => NoRowLost
    BY DEF CopiesWell, NoRowLost, Well
<1> QED
    BY <1>1, CopiesAlwaysWell, PTL

-----------------------------------------------------------------------------
(* Requests that reorder the queue while HMRC has a row in its hands.  A   *)
(* request that has its locks has computed its outcome from rows that      *)
(* nobody can change before it commits, and what others commit meanwhile   *)
(* would not have changed that outcome: it is still one operation on the   *)
(* order that it commits to.                                               *)

(* No request moves a row behind the last one. *)
LEMMA ReorderedNoLonger ==
    ASSUME NEW pos \in [Pwb -> Nat], NEW p \in Pwb, NEW k \in Reorderings, NEW q \in Pwb
    PROVE  \E r \in Pwb : Reordered(k, pos, p)[q] <= pos[r]
<1>1. CASE k = "promote_position"
    <2>1. Reordered(k, pos, p) = Promoted(pos, p)
        BY <1>1 DEF Reordered
    <2>2. Promoted(pos, p)[q] <= pos[p] \/ Promoted(pos, p)[q] <= pos[q]
        BY DEF Promoted, SwappedWith
    <2> QED
        BY <2>1, <2>2
<1>2. CASE k = "demote_position"
    <2>1. Reordered(k, pos, p) = Demoted(pos, p)
        BY <1>2 DEF Reordered
    <2>2. CASE pos[p] = 0 \/ IsLast(pos, p)
        BY <2>1, <2>2 DEF Demoted
    <2>3. CASE ~(pos[p] = 0 \/ IsLast(pos, p))
        <3>1. PICK r \in Pwb : pos[r] > pos[p]
            BY <2>3 DEF IsLast
        <3>2. \/ Demoted(pos, p)[q] = pos[p] + 1 \/ Demoted(pos, p)[q] = pos[p]
              \/ Demoted(pos, p)[q] = pos[q]
            BY <2>3 DEF Demoted, SwappedWith
        <3> QED
            BY <2>1, <3>1, <3>2
    <2> QED
        BY <2>2, <2>3
<1>3. CASE k = "promote_to_top_position"
    <2>1. Reordered(k, pos, p) = PromotedToTop(pos, p)
        BY <1>3 DEF Reordered
    <2>2. PromotedToTop(pos, p)[q] <= pos[p] \/ PromotedToTop(pos, p)[q] <= pos[q]
        BY DEF PromotedToTop
    <2> QED
        BY <2>1, <2>2
<1>4. CASE k = "abandon"
    <2>1. Reordered(k, pos, p) = Removed(pos, p)
        BY <1>4 DEF Reordered
    <2>2. Removed(pos, p)[q] <= pos[q]
        BY DEF Removed, CloseGap
    <2> QED
        BY <2>1, <2>2
<1> QED
    BY <1>1, <1>2, <1>3, <1>4 DEF Reorderings

(* The rows that the request k moves or names. *)
Touched(k, pos, p) == {p} \cup {q \in Pwb : Reordered(k, pos, p)[q] # pos[q]}

(* Between the order pos, which a request has read, and the order pos2, to *)
(* which it commits, others have moved rows that it does not touch, and    *)
(* have put none behind the last one.                                      *)
MovedElsewhere(k, pos, pos2, p) ==
    /\ pos2 \in [Pwb -> Nat]
    /\ \E Q \in SUBSET Pwb : IsQueueOrder(pos2, Q)
    /\ \A q \in Touched(k, pos, p) : pos2[q] = pos[q]
    /\ \A q \in Pwb : \E r \in Pwb : pos2[q] <= pos[r]

(* The request does to pos2 what it did to pos: it moves the rows it       *)
(* touches to the same places, and no other.                               *)
SameMoves(k, pos, pos2, p) ==
    \A q \in Pwb : Reordered(k, pos2, p)[q] =
                        IF q \in Touched(k, pos, p) THEN Reordered(k, pos, p)[q] ELSE pos2[q]

(* In a queue in order a place has one row, and every place before an      *)
(* occupied one is occupied.                                               *)
LEMMA PlacesUnique ==
    ASSUME NEW pos \in [Pwb -> Nat], NEW Q \in SUBSET Pwb, IsQueueOrder(pos, Q)
    PROVE  /\ \A q, r \in Pwb : pos[q] = pos[r] /\ pos[q] # 0 => q = r
           /\ \A q \in Pwb : \A n \in 1..pos[q] : \E r \in Pwb : pos[r] = n
BY DEF IsQueueOrder

(* promote_position swaps the same two rows if others have moved other     *)
(* rows meanwhile,                                                         *)
LEMMA PromotedElsewhere ==
    ASSUME NEW pos \in [Pwb -> Nat], NEW Q \in SUBSET Pwb, IsQueueOrder(pos, Q),
           NEW p \in Pwb, NEW pos2, MovedElsewhere("promote_position", pos, pos2, p)
    PROVE  SameMoves("promote_position", pos, pos2, p)
<1> DEFINE k == "promote_position"
<1>1. /\ Reordered(k, pos, p) = Promoted(pos, p)
      /\ Reordered(k, pos2, p) = Promoted(pos2, p)
    BY DEF Reordered
<1>2. /\ pos2 \in [Pwb -> Nat] /\ pos2[p] = pos[p]
      /\ \A q \in Touched(k, pos, p) : pos2[q] = pos[q]
    BY DEF MovedElsewhere, Touched
<1>3. /\ \A q, r \in Pwb : pos2[q] = pos2[r] /\ pos2[q] # 0 => q = r
      /\ \A q, r \in Pwb : pos[q] = pos[r] /\ pos[q] # 0 => q = r
    BY PlacesUnique DEF MovedElsewhere
<1>4. CASE pos[p] <= 1
    <2>1. Promoted(pos, p) = pos /\ Promoted(pos2, p) = pos2
        BY <1>2, <1>4 DEF Promoted
    <2> QED
        BY <1>1, <1>2, <2>1 DEF SameMoves
<1>5. CASE pos[p] > 1
    <2>1. pos[p] - 1 \in 1..pos[p]
        BY <1>5
    <2>2. PICK r \in Pwb : pos[r] = pos[p] - 1
        BY <2>1, PlacesUnique
    <2>3. \A q \in Pwb : Promoted(pos, p)[q] =
            IF q = p THEN pos[p] - 1 ELSE IF pos[q] = pos[p] - 1 THEN pos[p] ELSE pos[q]
        BY <1>5 DEF Promoted, SwappedWith
    <2>4. \A q \in Pwb : Promoted(pos2, p)[q] =
            IF q = p THEN pos[p] - 1 ELSE IF pos2[q] = pos[p] - 1 THEN pos[p] ELSE pos2[q]
        BY <1>2, <1>5 DEF Promoted, SwappedWith
    <2>5. Promoted(pos, p)[r] # pos[r] /\ r # p
        BY <1>5, <2>2, <2>3
    <2>6. r \in Touched(k, pos, p) /\ pos2[r] = pos[p] - 1
        BY <1>1, <1>2, <2>2, <2>5 DEF Touched
    <2>7. \A q \in Pwb : pos2[q] = pos[p] - 1 <=> q = r
        BY <1>3, <1>5, <2>6
    <2>8. \A q \in Pwb : pos[q] = pos[p] - 1 <=> q = r
        BY <1>3, <1>5, <2>2
    <2>9. \A q \in Pwb : q \in Touched(k, pos, p) <=> q = p \/ q = r
        BY <1>1, <2>3, <2>6, <2>8 DEF Touched
    <2> QED
        BY <1>1, <2>3, <2>4, <2>7, <2>8, <2>9 DEF SameMoves
<1> QED
    BY <1>4, <1>5

(* ... demote_position, too, even if it has nobody to swap with, *)
LEMMA DemotedElsewhere ==
    ASSUME NEW pos \in [Pwb -> Nat], NEW Q \in SUBSET Pwb, IsQueueOrder(pos, Q),
           NEW p \in Pwb, NEW pos2, MovedElsewhere("demote_position", pos, pos2, p)
    PROVE  SameMoves("demote_position", pos, pos2, p)
<1> DEFINE k == "demote_position"
<1>1. /\ Reordered(k, pos, p) = Demoted(pos, p)
      /\ Reordered(k, pos2, p) = Demoted(pos2, p)
    BY DEF Reordered
<1>2. /\ pos2 \in [Pwb -> Nat] /\ pos2[p] = pos[p]
      /\ \A q \in Touched(k, pos, p) : pos2[q] = pos[q]
    BY DEF MovedElsewhere, Touched
<1>3. /\ \A q, r \in Pwb : pos2[q] = pos2[r] /\ pos2[q] # 0 => q = r
      /\ \A q, r \in Pwb : pos[q] = pos[r] /\ pos[q] # 0 => q = r
    BY PlacesUnique DEF MovedElsewhere
<1>4. CASE pos[p] = 0 \/ IsLast(pos, p)
    <2>1. pos2[p] = 0 \/ IsLast(pos2, p)
        BY <1>2, <1>4 DEF IsLast, MovedElsewhere
    <2>2. Demoted(pos, p) = pos /\ Demoted(pos2, p) = pos2
        BY <1>4, <2>1 DEF Demoted
    <2> QED
        BY <1>1, <1>2, <2>2 DEF SameMoves
<1>5. CASE ~(pos[p] = 0 \/ IsLast(pos, p))
    <2>0. PICK s \in Pwb : pos[s] > pos[p]
        BY <1>5 DEF IsLast
    <2>1. pos[p] + 1 \in 1..pos[s]
        BY <2>0
    <2>2. PICK r \in Pwb : pos[r] = pos[p] + 1
        BY <2>1, PlacesUnique
    <2>3. \A q \in Pwb : Demoted(pos, p)[q] =
            IF q = p THEN pos[p] + 1 ELSE IF pos[q] = pos[p] + 1 THEN pos[p] ELSE pos[q]
        BY <1>5 DEF Demoted, SwappedWith
    <2>5. Demoted(pos, p)[r] # pos[r] /\ r # p
        BY <2>2, <2>3
    <2>6. r \in Touched(k, pos, p) /\ pos2[r] = pos[p] + 1
        BY <1>1, <1>2, <2>2, <2>5 DEF Touched
    <2>10. ~(pos2[p] = 0 \/ IsLast(pos2, p))
        BY <1>2, <1>5, <2>6 DEF IsLast
    <2>4. \A q \in Pwb : Demoted(pos2, p)[q] =
            IF q = p THEN pos[p] + 1 ELSE IF pos2[q] = pos[p] + 1 THEN pos[p] ELSE pos2[q]
        BY <1>2, <2>10 DEF Demoted, SwappedWith
    <2>7. \A q \in Pwb : pos2[q] = pos[p] + 1 <=> q = r
        BY <1>3, <2>6
    <2>8. \A q \in Pwb : pos[q] = pos[p] + 1 <=> q = r
        BY <1>3, <2>2
    <2>9. \A q \in Pwb : q \in Touched(k, pos, p) <=> q = p \/ q = r
        BY <1>1, <2>3, <2>6, <2>8 DEF Touched
    <2> QED
        BY <1>1, <2>3, <2>4, <2>7, <2>8, <2>9 DEF SameMoves
<1> QED
    BY <1>4, <1>5

(* ... promote_to_top_position has locked all rows up to its own, *)
LEMMA PromotedToTopElsewhere ==
    ASSUME NEW pos \in [Pwb -> Nat], NEW Q \in SUBSET Pwb, IsQueueOrder(pos, Q),
           NEW p \in Pwb, NEW pos2, MovedElsewhere("promote_to_top_position", pos, pos2, p)
    PROVE  SameMoves("promote_to_top_position", pos, pos2, p)
<1> DEFINE k == "promote_to_top_position"
<1>1. /\ Reordered(k, pos, p) = PromotedToTop(pos, p)
      /\ Reordered(k, pos2, p) = PromotedToTop(pos2, p)
    BY DEF Reordered
<1>2. /\ pos2 \in [Pwb -> Nat] /\ pos2[p] = pos[p]
      /\ \A q \in Touched(k, pos, p) : pos2[q] = pos[q]
    BY DEF MovedElsewhere, Touched
<1>3. /\ \A q, r \in Pwb : pos2[q] = pos2[r] /\ pos2[q] # 0 => q = r
      /\ \A q, r \in Pwb : pos[q] = pos[r] /\ pos[q] # 0 => q = r
    BY PlacesUnique DEF MovedElsewhere
<1>4. CASE pos[p] <= 1
    <2>1. PromotedToTop(pos, p) = pos /\ PromotedToTop(pos2, p) = pos2
        BY <1>2, <1>4 DEF PromotedToTop
    <2> QED
        BY <1>1, <1>2, <2>1 DEF SameMoves
<1>5. CASE pos[p] > 1
    <2>1. \A q \in Pwb : PromotedToTop(pos, p)[q] =
            IF q = p THEN 1 ELSE IF pos[q] >= 1 /\ pos[q] < pos[p] THEN pos[q] + 1 ELSE pos[q]
        BY <1>5 DEF PromotedToTop
    <2>2. \A q \in Pwb : PromotedToTop(pos2, p)[q] =
            IF q = p THEN 1 ELSE IF pos2[q] >= 1 /\ pos2[q] < pos[p] THEN pos2[q] + 1
            ELSE pos2[q]
        BY <1>2, <1>5 DEF PromotedToTop
    <2>3. \A q \in Pwb : q \in Touched(k, pos, p) <=> pos[q] >= 1 /\ pos[q] <= pos[p]
        BY <1>1, <1>3, <1>5, <2>1 DEF Touched
    <2>4. ASSUME NEW q \in Pwb, pos2[q] >= 1, pos2[q] < pos[p]
          PROVE  q \in Touched(k, pos, p)
        <3>1. pos2[q] \in 1..pos[p]
            BY <1>2, <2>4
        <3>2. PICK r \in Pwb : pos[r] = pos2[q]
            BY <3>1, PlacesUnique
        <3>3. r \in Touched(k, pos, p)
            BY <1>2, <2>3, <2>4, <3>2
        <3> QED
            BY <1>2, <1>3, <2>4, <3>2, <3>3
    <2>5. \A q \in Touched(k, pos, p) : pos2[q] = pos[q]
        BY <1>2
    <2>6. p \in Touched(k, pos, p)
        BY DEF Touched
    <2> QED
        BY <1>1, <1>2, <2>1, <2>2, <2>3, <2>4, <2>5, <2>6 DEF SameMoves
<1> QED
    BY <1>4, <1>5

(* ... and abandon all rows from its own on. *)
LEMMA RemovedElsewhere ==
    ASSUME NEW pos \in [Pwb -> Nat], NEW Q \in SUBSET Pwb, IsQueueOrder(pos, Q),
           NEW p \in Pwb, pos[p] # 0, NEW pos2, MovedElsewhere("abandon", pos, pos2, p)
    PROVE  SameMoves("abandon", pos, pos2, p)
<1> DEFINE k == "abandon"
<1>1. /\ Reordered(k, pos, p) = Removed(pos, p)
      /\ Reordered(k, pos2, p) = Removed(pos2, p)
    BY DEF Reordered
<1>2. /\ pos2 \in [Pwb -> Nat] /\ pos2[p] = pos[p]
      /\ \A q \in Touched(k, pos, p) : pos2[q] = pos[q]
      /\ \A q \in Pwb : \E r \in Pwb : pos2[q] <= pos[r]
    BY DEF MovedElsewhere, Touched
<1>3. \A q, r \in Pwb : pos2[q] = pos2[r] /\ pos2[q] # 0 => q = r
    BY PlacesUnique DEF MovedElsewhere
<1>4. \A q \in Pwb : Removed(pos, p)[q] =
        IF q = p THEN 0 ELSE IF pos[q] > pos[p] THEN pos[q] - 1 ELSE pos[q]
    BY DEF Removed, CloseGap
<1>5. \A q \in Pwb : Removed(pos2, p)[q] =
        IF q = p THEN 0 ELSE IF pos2[q] > pos[p] THEN pos2[q] - 1 ELSE pos2[q]
    BY <1>2 DEF Removed, CloseGap
<1>6. \A q \in Pwb : q \in Touched(k, pos, p) <=> q = p \/ pos[q] > pos[p]
    BY <1>1, <1>4 DEF Touched
<1>7. ASSUME NEW q \in Pwb, pos2[q] > pos[p]
      PROVE  q \in Touched(k, pos, p)
    <2>1. PICK last \in Pwb : pos2[q] <= pos[last]
        BY <1>2
    <2>2. pos2[q] \in 1..pos[last]
        BY <1>2, <1>7, <2>1
    <2>3. PICK r \in Pwb : pos[r] = pos2[q]
        BY <2>2, PlacesUnique
    <2>4. r \in Touched(k, pos, p)
        BY <1>6, <1>7, <2>3
    <2> QED
        BY <1>2, <1>3, <1>7, <2>3, <2>4
<1> QED
    BY <1>1, <1>2, <1>4, <1>5, <1>6, <1>7 DEF SameMoves

(* Whichever request it is. *)
LEMMA ReorderedElsewhere ==
    ASSUME NEW pos \in [Pwb -> Nat], NEW Q \in SUBSET Pwb, IsQueueOrder(pos, Q),
           NEW p \in Pwb, NEW k \in Reorderings, k = "abandon" => pos[p] # 0,
           NEW pos2, MovedElsewhere(k, pos, pos2, p)
    PROVE  SameMoves(k, pos, pos2, p)
BY PromotedElsewhere, DemotedElsewhere, PromotedToTopElsewhere, RemovedElsewhere
   DEF Reorderings

-----------------------------------------------------------------------------
(* What a request that reorders the queue makes of the table.              *)
OutcomeOf(table, k, p) ==
    LET moved == SetPositions(table, Reordered(k, Positions(table), p)) IN
    IF k = "abandon" THEN [moved EXCEPT ![p].state = "ABANDONED"] ELSE moved

OutcomeRow(table, k, p, q) ==
    [position |-> Reordered(k, Positions(table), p)[q],
     state |-> IF k = "abandon" /\ q = p THEN "ABANDONED" ELSE table[q].state,
     envelope |-> table[q].envelope]

Outcome(s) == OutcomeOf(row, kind[s], target[s])

(* The outcome of a request, row by row. *)
LEMMA OutcomeColumns ==
    ASSUME NEW table \in [Pwb -> Row], NEW k \in Reorderings, NEW p \in Pwb
    PROVE  /\ Positions(table) \in [Pwb -> Nat]
           /\ Reordered(k, Positions(table), p) \in [Pwb -> Nat]
           /\ OutcomeOf(table, k, p) = [q \in Pwb |-> OutcomeOf(table, k, p)[q]]
           /\ \A q \in Pwb : OutcomeOf(table, k, p)[q] = OutcomeRow(table, k, p, q)
<1> DEFINE pos == Reordered(k, Positions(table), p)
           moved == SetPositions(table, pos)
           out == OutcomeOf(table, k, p)
<1>1. Positions(table) \in [Pwb -> Nat]
    BY DEF Positions, Row
<1>2. pos \in [Pwb -> Nat]
    BY <1>1, ReorderedKeepsPlaces
<1>3. out = IF k = "abandon" THEN [moved EXCEPT ![p].state = "ABANDONED"] ELSE moved
    BY DEF OutcomeOf
<1> HIDE DEF pos, out
<1>4. moved = [q \in Pwb |-> [table[q] EXCEPT !.position = pos[q]]]
    BY DEF SetPositions
<1> HIDE DEF moved
<1>5. \A q \in Pwb : moved[q] = [position |-> pos[q], state |-> table[q].state,
                                 envelope |-> table[q].envelope]
    BY <1>1, <1>4 DEF Row
<1>6. CASE k = "abandon"
    <2>1. out = [moved EXCEPT ![p].state = "ABANDONED"]
        BY <1>3, <1>6
    <2>2. out[p] = [moved[p] EXCEPT !.state = "ABANDONED"]
        BY <1>4, <2>1
    <2>3. out[p] = [position |-> pos[p], state |-> "ABANDONED", envelope |-> table[p].envelope]
        <3>1. moved[p] = [position |-> pos[p], state |-> table[p].state,
                          envelope |-> table[p].envelope]
            BY <1>5
        <3> QED
            BY <2>2, <3>1
    <2>4. \A q \in Pwb \ {p} : out[q] = moved[q]
        BY <1>4, <2>1
    <2>5. out = [q \in Pwb |-> out[q]]
        BY <1>4, <2>1
    <2>6. ASSUME NEW q \in Pwb
          PROVE  out[q] =
                    [position |-> pos[q],
                     state |-> IF k = "abandon" /\ q = p THEN "ABANDONED" ELSE table[q].state,
                     envelope |-> table[q].envelope]
        <3>1. CASE q = p
            BY <1>6, <2>3, <3>1
        <3>2. CASE q # p
            BY <1>5, <2>4, <3>2
        <3> QED
            BY <3>1, <3>2
    <2> QED
        BY <1>1, <1>2, <2>5, <2>6 DEF pos, out, OutcomeRow
<1>7. CASE k # "abandon"
    <2>1. out = moved
        BY <1>3, <1>7
    <2>2. out = [q \in Pwb |-> out[q]]
        BY <1>4, <2>1
    <2> QED
        BY <1>1, <1>2, <1>5, <1>7, <2>1, <2>2 DEF pos, out, OutcomeRow
<1> QED
    BY <1>6, <1>7

(* A request that has its locks: what it has written is what its operation *)
(* makes of the table as it is now, not only as it was when it looked.     *)
Pending(s) ==
    /\ draft[s] = Changes(Outcome(s), {target[s]})
    /\ kind[s] = "abandon" => row[target[s]].position # 0

(* A row is in HMRC's hands, so that no reordering makes a new top for     *)
(* create_envelope_on_new_top to save whole, and neither begin_processing  *)
(* nor the task is at work, which save whole rows themselves.              *)
OnlyReorderings ==
    /\ InHand # {}
    /\ Kinds \subseteq Reorderings \cup {"create"}

SessionOrderly(s) ==
    /\ pc[s] \in {"idle", "started", "checked", "committing"}
    /\ pc[s] # "idle" => kind[s] \in Reorderings
    /\ topBefore[s] = None
    /\ pc[s] = "committing" => Pending(s)
    /\ pc[s] # "committing" => DOMAIN draft[s] = {}

(* The inductive invariant: the order, and requests whose locks are apart. *)
Orderly ==
    /\ QueueOrder
    /\ Processing(row) # {}
    /\ \A s \in Session : SessionOrderly(s)
    /\ \A s, t \in Session : s # t => DOMAIN draft[s] \cap DOMAIN draft[t] = {}

(* The rows a pending request has locked are those it touches. *)
LEMMA PendingLocks ==
    ASSUME CopiesWell, NEW s \in Session, target[s] \in Pwb, kind[s] \in Reorderings,
           Pending(s)
    PROVE  /\ DOMAIN draft[s] = Touched(kind[s], Positions(row), target[s])
           /\ \A q \in DOMAIN draft[s] : draft[s][q] = Outcome(s)[q]
           /\ View(s) = Outcome(s)
<1> DEFINE p == target[s]
           pos == Reordered(kind[s], Positions(row), p)
<1>1. /\ draft[s] = [q \in {p} \cup {r \in Pwb : Outcome(s)[r] # row[r]} |-> Outcome(s)[q]]
    BY DEF Pending, Changes
<1>2. row \in [Pwb -> Row] /\ \A q \in Pwb : Positions(row)[q] = row[q].position
    BY DEF CopiesWell, Typing, Positions
<1>3. \A q \in Pwb : Outcome(s)[q] =
                [position |-> pos[q],
                 state |-> IF kind[s] = "abandon" /\ q = p THEN "ABANDONED"
                           ELSE row[q].state,
                 envelope |-> row[q].envelope]
    BY <1>2, OutcomeColumns DEF Outcome, OutcomeRow
<1> HIDE DEF pos
<1>4. ASSUME NEW q \in Pwb, q # p
      PROVE  Outcome(s)[q] # row[q] <=> pos[q] # Positions(row)[q]
    <2>1. row[q] = [position |-> row[q].position, state |-> row[q].state,
                    envelope |-> row[q].envelope]
        BY <1>2 DEF Row
    <2>2. Outcome(s)[q] = [position |-> pos[q], state |-> row[q].state,
                           envelope |-> row[q].envelope]
        BY <1>3, <1>4
    <2>3. CASE pos[q] = row[q].position
        BY <1>2, <2>1, <2>2, <2>3
    <2>4. CASE pos[q] # row[q].position
        <3>1. Outcome(s)[q].position = pos[q]
            BY <2>2
        <3> QED
            BY <1>2, <2>4, <3>1
    <2> QED
        BY <2>3, <2>4
<1>5. DOMAIN draft[s] = Touched(kind[s], Positions(row), p)
    BY <1>1, <1>4 DEF Touched, pos
<1>6. \A q \in DOMAIN draft[s] : draft[s][q] = Outcome(s)[q]
    BY <1>1
<1>7. View(s) = [q \in Pwb |-> IF q \in DOMAIN draft[s] THEN draft[s][q] ELSE row[q]]
    BY <1>1, <1>2 DEF View, Overlay
<1>8. \A q \in Pwb : View(s)[q] = Outcome(s)[q]
    BY <1>1, <1>7
<1>9. Outcome(s) = [q \in Pwb |-> Outcome(s)[q]]
    BY <1>2, OutcomeColumns DEF Outcome
<1>10. View(s) = Outcome(s)
    BY <1>7, <1>8, <1>9
<1> QED
    BY <1>5, <1>6, <1>10

(* The outcome of a request is a queue in order, with no row behind the    *)
(* last one, and only an abandoned row changes its state.                  *)
LEMMA OutcomeOrder ==
    ASSUME CopiesWell, QueueOrder, NEW s \in Session, target[s] \in Pwb,
           kind[s] \in Reorderings, kind[s] = "abandon" => row[target[s]].position # 0
    PROVE  /\ Positions(Outcome(s)) = Reordered(kind[s], Positions(row), target[s])
           /\ IsQueueOrder(Positions(Outcome(s)), Awaiting(Outcome(s)))
           /\ Processing(row) \subseteq Processing(Outcome(s))
<1> DEFINE p == target[s]
           k == kind[s]
           pos == Positions(row)
           Q == Awaiting(row)
<1>1. /\ pos \in [Pwb -> Nat] /\ Reordered(k, pos, p) \in [Pwb -> Nat]
      /\ Outcome(s) = [q \in Pwb |-> Outcome(s)[q]]
      /\ \A q \in Pwb : /\ Outcome(s)[q].position = Reordered(k, pos, p)[q]
                        /\ Outcome(s)[q].state =
                             IF k = "abandon" /\ q = p THEN "ABANDONED" ELSE row[q].state
    <2>1. /\ pos \in [Pwb -> Nat] /\ Reordered(k, pos, p) \in [Pwb -> Nat]
          /\ Outcome(s) = [q \in Pwb |-> Outcome(s)[q]]
        BY OutcomeColumns DEF Outcome, CopiesWell, Typing
    <2>2. ASSUME NEW q \in Pwb
          PROVE  /\ Outcome(s)[q].position = Reordered(k, pos, p)[q]
                 /\ Outcome(s)[q].state =
                        IF k = "abandon" /\ q = p THEN "ABANDONED" ELSE row[q].state
        <3>1. Outcome(s)[q] =
                [position |-> Reordered(k, pos, p)[q],
                 state |-> IF k = "abandon" /\ q = p THEN "ABANDONED" ELSE row[q].state,
                 envelope |-> row[q].envelope]
            BY OutcomeColumns DEF Outcome, OutcomeRow, CopiesWell, Typing
        <3> QED
            BY <3>1
    <2> QED
        BY <2>1, <2>2
<1>2. Positions(Outcome(s)) = Reordered(k, pos, p)
    BY <1>1 DEF Positions
<1>3. IsQueueOrder(pos, Q) /\ Q \in SUBSET Pwb
    BY DEF QueueOrder, Awaiting, WithState
<1>4. \A q \in Pwb : pos[q] = row[q].position
    BY DEF Positions
<1> HIDE DEF pos, Q
<1>5. CASE k = "promote_position"
    <2>1. Awaiting(Outcome(s)) = Q
        BY <1>1, <1>5 DEF Awaiting, WithState, Q
    <2> QED
        BY <1>1, <1>2, <1>3, <1>5, <2>1, PromotedOrder
           DEF Reordered, Processing, WithState, pos
<1>6. CASE k = "demote_position"
    <2>1. Awaiting(Outcome(s)) = Q
        BY <1>1, <1>6 DEF Awaiting, WithState, Q
    <2> QED
        BY <1>1, <1>2, <1>3, <1>6, <2>1, DemotedOrder
           DEF Reordered, Processing, WithState, pos
<1>7. CASE k = "promote_to_top_position"
    <2>1. Awaiting(Outcome(s)) = Q
        BY <1>1, <1>7 DEF Awaiting, WithState, Q
    <2> QED
        BY <1>1, <1>2, <1>3, <1>7, <2>1, PromotedToTopOrder
           DEF Reordered, Processing, WithState, pos
<1>8. CASE k = "abandon"
    <2>1. pos[p] # 0
        BY <1>4, <1>8
    <2>2. p \in Q
        BY <1>1, <1>3, <2>1 DEF IsQueueOrder
    <2>3. Awaiting(Outcome(s)) = Q \ {p}
        BY <1>1, <1>8 DEF Awaiting, WithState, Q
    <2>4. row[p].state = "AWAITING_PROCESSING"
        BY <2>2 DEF Q, Awaiting, WithState
    <2>5. Processing(row) \subseteq Processing(Outcome(s))
        BY <1>1, <2>4 DEF Processing, WithState
    <2> QED
        BY <1>1, <1>2, <1>3, <1>8, <2>2, <2>3, <2>5, RemovedOrder DEF Reordered, pos
<1> QED
    BY <1>5, <1>6, <1>7, <1>8 DEF Reorderings


(* A step that commits nothing and locks only what nobody else has locked  *)
(* keeps the order.                                                        *)
LEMMA OthersStayOrderly ==
    ASSUME Orderly, NEW s \in Session, OnlyFor(s), row' = row, SessionOrderly(s)',
           \A t \in Session \ {s} : DOMAIN draft'[s] \cap DOMAIN draft[t] = {}
    PROVE  Orderly'
<1>1. QueueOrder' /\ Processing(row') # {}
    BY DEF Orderly, QueueOrder
<1>2. ASSUME NEW t \in Session \ {s}
      PROVE  SessionOrderly(t)'
    <2>1. SessionOrderly(t)
        BY DEF Orderly
    <2>2. Outcome(t)' = Outcome(t)
        BY DEF Outcome, OnlyFor
    <2>3. Pending(t) => Pending(t)'
        BY <2>2 DEF Pending, Changes, OnlyFor
    <2> QED
        BY <2>1, <2>3 DEF SessionOrderly, OnlyFor
<1>3. \A t, u \in Session : t # u => DOMAIN draft'[t] \cap DOMAIN draft'[u] = {}
    BY DEF Orderly, OnlyFor
<1> QED
    BY <1>1, <1>2, <1>3 DEF Orderly

(* A request that is rolled back gives its locks back, *)
LEMMA RollBackOrderly ==
    ASSUME Orderly, CopiesWell, NEW s \in Session, RollBack(s)
    PROVE  Orderly'
<1>1. OnlyFor(s) /\ row' = row
    BY DEF CopiesWell, Typing, RollBack, Finish, Goto, OnlyFor
<1>2. pc'[s] = "idle" /\ topBefore'[s] = None /\ draft'[s] = NoRows
    BY DEF CopiesWell, Typing, RollBack, Finish, Goto
<1>3. DOMAIN draft'[s] = {}
    BY <1>2 DEF NoRows
<1>4. SessionOrderly(s)'
    BY <1>2, <1>3 DEF SessionOrderly
<1> QED
    BY <1>1, <1>3, <1>4, OthersStayOrderly

(* ... one that writes has what its operation makes of the order as it is, *)
LEMMA WriteOrderOrderly ==
    ASSUME Orderly, CopiesWell, NEW s \in Session, WriteOrder(s)
    PROVE  Orderly'
<1> DEFINE p == target[s]
<1>1. CASE RollBack(s)
    BY <1>1, RollBackOrderly
<1>2. CASE ~RollBack(s)
    <2>1. /\ pc[s] = "checked" /\ kind[s] \in Reorderings
          /\ CanLock(s, DOMAIN Changes(Outcome(s), {p}))
          /\ kind[s] = "abandon" => row[p].position # 0
          /\ Goto(s, IF topBefore[s] = None THEN "committing" ELSE "comparing")
          /\ draft' = [draft EXCEPT ![s] = Changes(Outcome(s), {p})]
          /\ UNCHANGED <<row, kind, target, instance, topBefore, stale>>
        BY <1>2 DEF WriteOrder, Outcome, OutcomeOf
    <2>2. topBefore[s] = None
        BY DEF Orderly, SessionOrderly
    <2>3. /\ OnlyFor(s) /\ pc'[s] = "committing"
          /\ draft'[s] = Changes(Outcome(s), {p})
        BY <2>1, <2>2 DEF CopiesWell, Typing, Goto, OnlyFor
    <2>4. Outcome(s)' = Outcome(s)
        BY <2>1 DEF Outcome
    <2>5. Pending(s)'
        BY <2>1, <2>3, <2>4 DEF Pending, Changes
    <2>6. SessionOrderly(s)'
        BY <2>1, <2>2, <2>3, <2>5 DEF SessionOrderly
    <2>7. \A t \in Session \ {s} : DOMAIN draft'[s] \cap DOMAIN draft[t] = {}
        BY <2>1, <2>3 DEF CanLock, LockedByOthers
    <2> QED
        BY <2>1, <2>3, <2>6, <2>7, OthersStayOrderly
<1> QED
    BY <1>1, <1>2

(* ... one that looks for the top finds an occupied queue and none, *)
LEMMA ReadTopOrderly ==
    ASSUME Orderly, CopiesWell, NEW s \in Session, ReadTop(s)
    PROVE  Orderly'
<1>1. CASE RollBack(s)
    BY <1>1, RollBackOrderly
<1>2. CASE ~RollBack(s)
    <2>1. /\ pc[s] = "started" /\ Goto(s, "checked") /\ kind[s] \in Reorderings
          /\ topBefore' = [topBefore EXCEPT ![s] = None]
          /\ UNCHANGED <<row, kind, target, instance, stale, draft>>
        BY <1>2 DEF ReadTop, Orderly
    <2>2. OnlyFor(s) /\ pc'[s] = "checked" /\ topBefore'[s] = None
        BY <2>1 DEF CopiesWell, Typing, Goto, OnlyFor
    <2>3. DOMAIN draft[s] = {}
        BY <2>1 DEF Orderly, SessionOrderly
    <2>4. SessionOrderly(s)'
        BY <2>1, <2>2, <2>3 DEF SessionOrderly
    <2> QED
        BY <2>1, <2>2, <2>3, <2>4, OthersStayOrderly
<1> QED
    BY <1>1, <1>2

(* ... and one that starts has locked nothing. *)
LEMMA ReceiveOrderly ==
    ASSUME OnlyReorderings, Orderly, CopiesWell, NEW s \in Session,
           NEW k \in Kinds, NEW p \in Pwb, Receive(s, k, p)
    PROVE  Orderly'
<1>1. k \in Reorderings
    BY DEF Receive, OnlyReorderings
<1>2. OnlyFor(s) /\ pc[s] = "idle" /\ pc'[s] = "started" /\ kind'[s] = k
    BY DEF CopiesWell, Typing, Goto, OnlyFor, Receive
<1>3. UNCHANGED <<row, topBefore, draft>>
    BY DEF Receive
<1>4. DOMAIN draft[s] = {} /\ topBefore[s] = None
    BY <1>2 DEF Orderly, SessionOrderly
<1>5. SessionOrderly(s)'
    BY <1>1, <1>2, <1>3, <1>4 DEF SessionOrderly
<1> QED
    BY <1>2, <1>3, <1>4, <1>5, OthersStayOrderly

(* create joins the queue behind its last row, and overlaps with nothing.  *)
LEMMA CreateOrderly ==
    ASSUME Orderly, CopiesWell, NEW s \in Session, NEW p \in Pwb, Create(s, p)
    PROVE  /\ Orderly'
           /\ Positions(row') = Joined(Positions(row), p)
           /\ \A q \in Pwb \ {p} : row'[q] = row[q]
<1> DEFINE pos == Positions(row)
           Q == Awaiting(row)
<1>1. PICK last \in {0} \cup {row[q].position : q \in Pwb} :
        /\ IsMaxPosition(pos, last)
        /\ row' = [row EXCEPT ![p] = [position |-> last + 1,
                                      state |-> "AWAITING_PROCESSING",
                                      envelope |-> FALSE]]
    BY DEF Create
<1>2. /\ pos \in [Pwb -> Nat] /\ Q \in SUBSET Pwb /\ IsQueueOrder(pos, Q)
      /\ \A q \in Pwb : pos[q] = row[q].position
      /\ row \in [Pwb -> Row]
    BY DEF CopiesWell, Typing, Positions, Awaiting, WithState, Row, Orderly, QueueOrder
<1>3. p \notin Q /\ row[p].state = "no row"
    BY DEF Create, Awaiting, WithState
<1>4. /\ row'[p] = [position |-> last + 1, state |-> "AWAITING_PROCESSING",
                    envelope |-> FALSE]
      /\ \A q \in Pwb \ {p} : row'[q] = row[q]
    BY <1>1, <1>2
<1>5. row'[p].position = last + 1 /\ row'[p].state = "AWAITING_PROCESSING"
    BY <1>4
<1>6. Positions(row') = [pos EXCEPT ![p] = last + 1]
    BY <1>2, <1>4, <1>5 DEF Positions
<1>7. Awaiting(row') = Q \cup {p}
    BY <1>4, <1>5 DEF Awaiting, WithState
<1> HIDE DEF pos, Q
<1>8. QueueOrder'
    <2>1. p \in Pwb \ Q
        BY <1>3
    <2>2. IsQueueOrder([pos EXCEPT ![p] = last + 1], Q \cup {p})
        BY <1>1, <1>2, <2>1, JoinedOrder
    <2> QED
        BY <1>6, <1>7, <2>2 DEF QueueOrder
<1>9. Processing(row') # {}
    <2>1. PICK q \in Pwb : row[q].state = "CURRENTLY_PROCESSING"
        BY DEF Orderly, Processing, WithState
    <2> QED
        BY <1>3, <1>4, <2>1 DEF Processing, WithState
<1>10. UNCHANGED <<pc, kind, target, instance, topBefore, stale, draft>>
    BY DEF Create
<1>11. ASSUME NEW t \in Session
       PROVE  SessionOrderly(t)' /\ pc[t] # "committing"
    <2>1. SessionOrderly(t) /\ SessionOrderly(s)
        BY DEF Orderly
    <2>2. DOMAIN draft[t] = {}
        BY <2>1 DEF Create, LockedByOthers, SessionOrderly
    <2>3. pc[t] # "committing"
        BY <2>1, <2>2 DEF SessionOrderly, Pending, Changes
    <2> QED
        BY <1>10, <2>1, <2>3 DEF SessionOrderly
<1>12. last = Cardinality(Q) /\ Cardinality(Q) \in Nat
    <2>1. /\ Cardinality(Q) \in Nat
          /\ \A q \in Q : pos[q] \in 1..Cardinality(Q)
          /\ \A n \in 1..Cardinality(Q) : \E q \in Q : pos[q] = n
        BY <1>2, RaceAssumption, PositionsFillRange
    <2>2. /\ last = 0 \/ \E q \in Pwb : last = pos[q]
          /\ \A q \in Pwb : pos[q] <= last
        BY <1>1, <1>2 DEF IsMaxPosition
    <2>3. last \in Nat
        BY <1>2, <2>2
    <2>4. last <= Cardinality(Q)
        BY <1>2, <2>1, <2>2 DEF IsQueueOrder
    <2>5. Cardinality(Q) > 0 => Cardinality(Q) <= last
        <3>1. Cardinality(Q) > 0 => Cardinality(Q) \in 1..Cardinality(Q)
            BY <2>1
        <3> QED
            BY <1>2, <2>1, <2>2, <3>1
    <2> QED
        BY <2>1, <2>3, <2>4, <2>5
<1>13. {q \in Pwb : pos[q] > 0} = Q
    BY <1>2 DEF IsQueueOrder
<1>14. Positions(row') = Joined(pos, p)
    <2>1. last + 1 = 1 + Cardinality(Q)
        BY <1>12
    <2> QED
        BY <1>6, <1>13, <2>1 DEF Joined
<1> QED
    BY <1>4, <1>8, <1>9, <1>10, <1>11, <1>14 DEF Orderly, pos

(* A commit is one operation on the order it replaces, and leaves every    *)
(* other pending request one operation on the order it makes.              *)
LEMMA CommitOrderly ==
    ASSUME Orderly, CopiesWell, NEW s \in Session, Commit(s)
    PROVE  /\ Orderly'
           /\ target[s] \in Pwb /\ kind[s] \in Reorderings
           /\ Positions(row') = Reordered(kind[s], Positions(row), target[s])
           /\ \A q \in Pwb \ {target[s]} : row'[q].state = row[q].state
<1> DEFINE pos == Positions(row)
           new == Positions(row')
<1>1. /\ target[s] \in Pwb /\ kind[s] \in Reorderings /\ Pending(s)
      /\ row' = View(s)
    BY DEF Commit, Orderly, SessionOrderly, CopiesWell, SessionWell
<1>2. row' = Outcome(s) /\ DOMAIN draft[s] = Touched(kind[s], pos, target[s])
    BY <1>1, PendingLocks
<1>3. /\ new = Reordered(kind[s], pos, target[s])
      /\ QueueOrder'
      /\ Processing(row) \subseteq Processing(row')
    BY <1>1, <1>2, OutcomeOrder DEF Pending, QueueOrder, Orderly
<1>4. /\ row \in [Pwb -> Row] /\ row' \in [Pwb -> Row]
      /\ pos \in [Pwb -> Nat] /\ new \in [Pwb -> Nat]
      /\ \A q \in Pwb : pos[q] = row[q].position /\ new[q] = row'[q].position
      /\ row' = [q \in Pwb |-> IF q \in DOMAIN draft[s] THEN draft[s][q] ELSE row[q]]
    <2>1. CopiesWell'
        BY CommittedWell
    <2>2. DOMAIN draft[s] \subseteq Pwb
        BY <1>1, <1>2 DEF Touched
    <2>3. row' = [q \in Pwb |-> IF q \in DOMAIN draft[s] THEN draft[s][q] ELSE row[q]]
        BY <1>1, <2>2 DEF View, Overlay, CopiesWell, Typing
    <2> QED
        BY <2>1, <2>3 DEF CopiesWell, Typing, Positions, Row
<1> HIDE DEF pos, new
<1>5. /\ OnlyFor(s) /\ pc'[s] = "idle" /\ topBefore'[s] = None
      /\ DOMAIN draft'[s] = {}
    <2>1. OnlyFor(s) /\ pc'[s] = "idle" /\ topBefore'[s] = None /\ draft'[s] = NoRows
        BY DEF CopiesWell, Typing, Commit, Finish, Goto, OnlyFor
    <2> QED
        BY <2>1 DEF NoRows
<1>6. \A q \in Pwb \ {target[s]} : row'[q].state = row[q].state
    <2>1. \A q \in Pwb : row'[q] = OutcomeRow(row, kind[s], target[s], q)
        <3>1. row \in [Pwb -> Row] /\ kind[s] \in Reorderings /\ target[s] \in Pwb
            BY <1>1, <1>4
        <3>2. \A q \in Pwb : OutcomeOf(row, kind[s], target[s])[q]
                                = OutcomeRow(row, kind[s], target[s], q)
            BY ONLY <3>1, OutcomeColumns
        <3> QED
            BY <1>2, <3>2 DEF Outcome
    <2>2. ASSUME NEW q \in Pwb \ {target[s]}
          PROVE  row'[q].state = row[q].state
        <3>1. row'[q] = [position |-> Reordered(kind[s], Positions(row), target[s])[q],
                         state |-> row[q].state, envelope |-> row[q].envelope]
            BY <2>1 DEF OutcomeRow
        <3> QED
            BY <3>1
    <2> QED
        BY <2>2
<1>7. ASSUME NEW t \in Session \ {s}, pc[t] = "committing"
      PROVE  Pending(t)'
    <2> DEFINE p == target[t]
               k == kind[t]
               D == DOMAIN draft[t]
               out == OutcomeOf(row, k, p)
               out2 == OutcomeOf(row', k, p)
    <2>1. p \in Pwb /\ k \in Reorderings /\ Pending(t)
        BY <1>7 DEF Orderly, SessionOrderly, CopiesWell, SessionWell
    <2>2. D = Touched(k, pos, p) /\ \A q \in D : draft[t][q] = out[q]
        BY <2>1, PendingLocks DEF Outcome, pos
    <2>3. D \cap DOMAIN draft[s] = {} /\ D \subseteq Pwb /\ p \in D
        BY <2>1, <2>2 DEF Orderly, Touched
    <2>4. \A q \in D : row'[q] = row[q] /\ new[q] = pos[q]
        BY <1>4, <2>3
    <2>5. MovedElsewhere(k, pos, new, p)
        <3>1. \E Q \in SUBSET Pwb : IsQueueOrder(new, Q)
            BY <1>3 DEF QueueOrder, Awaiting, WithState, new
        <3>2. \A q \in Pwb : \E r \in Pwb : new[q] <= pos[r]
            BY <1>1, <1>3, <1>4, ReorderedNoLonger
        <3> QED
            BY <1>4, <2>2, <2>4, <3>1, <3>2 DEF MovedElsewhere
    <2>6. SameMoves(k, pos, new, p)
        <3>1. k = "abandon" => pos[p] # 0
            BY <1>4, <2>1 DEF Pending
        <3>2. IsQueueOrder(pos, Awaiting(row)) /\ Awaiting(row) \in SUBSET Pwb
            BY DEF Orderly, QueueOrder, Awaiting, WithState, pos
        <3> QED
            BY <1>4, <2>1, <2>5, <3>1, <3>2, ReorderedElsewhere
    <2>7. \A q \in Pwb : /\ out[q] = OutcomeRow(row, k, p, q)
                          /\ out2[q] = OutcomeRow(row', k, p, q)
        <3>1. row \in [Pwb -> Row] /\ row' \in [Pwb -> Row] /\ k \in Reorderings /\ p \in Pwb
            BY <1>4, <2>1
        <3>2. \A q \in Pwb : out[q] = OutcomeRow(row, k, p, q)
            BY ONLY <3>1, OutcomeColumns
        <3>3. \A q \in Pwb : out2[q] = OutcomeRow(row', k, p, q)
            BY ONLY <3>1, OutcomeColumns
        <3> QED
            BY <3>2, <3>3
    <2>8. ASSUME NEW q \in D
          PROVE  out2[q] = out[q]
        <3>1. Reordered(k, new, p)[q] = Reordered(k, pos, p)[q] /\ row'[q] = row[q]
            BY <2>2, <2>3, <2>4, <2>6 DEF SameMoves
        <3>2. q \in Pwb
            BY <2>3
        <3>3. OutcomeRow(row', k, p, q) = OutcomeRow(row, k, p, q)
            BY <3>1 DEF OutcomeRow, pos, new
        <3> QED
            BY <2>7, <3>2, <3>3
    <2>9. ASSUME NEW q \in Pwb \ D
          PROVE  out2[q] = row'[q]
        <3>1. Reordered(k, new, p)[q] = row'[q].position /\ q # p
            BY <1>4, <2>2, <2>3, <2>6 DEF SameMoves
        <3>2. out2[q] = [position |-> row'[q].position, state |-> row'[q].state,
                         envelope |-> row'[q].envelope]
            BY <2>7, <3>1 DEF OutcomeRow, new
        <3> QED
            BY <1>4, <3>2 DEF Row
    <2>10. draft[t] = [q \in {p} \cup {r \in Pwb : out[r] # row[r]} |-> out[q]]
        BY <2>1 DEF Pending, Changes, Outcome
    <2>11. D = {p} \cup {r \in Pwb : out[r] # row[r]}
        BY <2>10
    <2> HIDE DEF out, out2, D
    <2>12. {p} \cup {r \in Pwb : out2[r] # row'[r]} = D
        BY <2>3, <2>4, <2>8, <2>9, <2>11
    <2>13. draft[t] = [q \in {p} \cup {r \in Pwb : out2[r] # row'[r]} |-> out2[q]]
        BY <2>8, <2>10, <2>11, <2>12
    <2>14. /\ draft'[t] = draft[t] /\ target'[t] = target[t] /\ kind'[t] = kind[t]
        BY <1>5 DEF OnlyFor
    <2>15. draft'[t] = Changes(Outcome(t), {target[t]})'
        BY <2>13, <2>14 DEF Changes, Outcome, out2
    <2>16. k = "abandon" => row'[p].position # 0
        BY <2>1, <2>3, <2>4 DEF Pending
    <2> QED
        BY <2>14, <2>15, <2>16 DEF Pending
<1>8. ASSUME NEW t \in Session
      PROVE  SessionOrderly(t)'
    <2>1. SessionOrderly(t)
        BY DEF Orderly
    <2> QED
        BY <1>5, <1>7, <2>1 DEF SessionOrderly, OnlyFor
<1>9. \A t, u \in Session : t # u => DOMAIN draft'[t] \cap DOMAIN draft'[u] = {}
    BY <1>5 DEF Orderly, OnlyFor
<1>10. Processing(row') # {}
    BY <1>3 DEF Orderly
<1> QED
    BY <1>1, <1>3, <1>6, <1>8, <1>9, <1>10 DEF Orderly, pos, new

(* What the runs call serializable, for one step. *)
SerialStep ==
    \E p \in Pwb :
        /\ Positions(row') \in {Positions(row), Joined(Positions(row), p)} \cup
                {Reordered(k, Positions(row), p) : k \in Reorderings}
        /\ \A q \in Pwb \ {p} : row'[q].state = row[q].state

(* Every step keeps the order, and is one operation on it or none. *)
LEMMA StepOrderly ==
    ASSUME OnlyReorderings, Orderly, CopiesWell, Next
    PROVE  Orderly' /\ SerialStep
<1>1. PICK s \in Session : Step(s)
    BY DEF Next
<1>2. SessionOrderly(s)
    BY DEF Orderly
<1>3. row' = row => SerialStep
    <2>1. \E p \in Pwb : TRUE
        BY RaceAssumption DEF OnlyReorderings
    <2> QED
        BY <2>1 DEF SerialStep
<1>4. CASE \E k \in Kinds, p \in Pwb : Receive(s, k, p)
    BY <1>3, <1>4, ReceiveOrderly DEF Receive
<1>5. CASE \E p \in Pwb : Create(s, p)
    BY <1>5, CreateOrderly DEF SerialStep
<1>6. CASE ReadTop(s)
    BY <1>3, <1>6, ReadTopOrderly DEF ReadTop, RollBack
<1>7. CASE WriteOrder(s)
    BY <1>3, <1>7, WriteOrderOrderly DEF WriteOrder, RollBack
<1>8. CASE Commit(s)
    BY <1>8, CommitOrderly DEF SerialStep
<1>9. CASE CheckConditions(s) \/ SaveProcessing(s) \/ PopTop(s) \/ ShiftRest(s)
    BY <1>2, <1>9 DEF SessionOrderly, Reorderings, CheckConditions, SaveProcessing, PopTop,
                      ShiftRest
<1>10. CASE CompareTop(s) \/ UnlinkOldTop(s) \/ ReadNewTop(s) \/ SaveNewTop(s)
    BY <1>2, <1>10 DEF SessionOrderly, CompareTop, UnlinkOldTop, ReadNewTop, SaveNewTop
<1>11. CASE BreakDeadlock(s)
    BY <1>2, <1>11 DEF SessionOrderly, BreakDeadlock, WaitsFor
<1>12. CASE StartRendering(s) \/ SaveEnvelope(s)
    BY <1>2, <1>12 DEF SessionOrderly, Reorderings, StartRendering, SaveEnvelope
<1> QED
    BY <1>1, <1>4, <1>5, <1>6, <1>7, <1>8, <1>9, <1>10, <1>11, <1>12 DEF Step

(* A queue of Waiting rows that fill the places 1 to Waiting is in order.  *)
LEMMA StartsOrderly ==
    ASSUME OnlyReorderings, Init
    PROVE  Orderly
<1> DEFINE R == Pwb \ InHand
<1>1. PICK pos \in [R -> 0..Waiting] :
        /\ \A n \in 1..Waiting : \E p \in R : pos[p] = n
        /\ Cardinality({p \in R : pos[p] > 0}) = Waiting
        /\ row = [p \in Pwb |->
                    CASE p \in InHand ->
                            [Unused EXCEPT !.state = "CURRENTLY_PROCESSING",
                                           !.envelope = TRUE]
                      [] p \notin InHand /\ pos[p] > 0 ->
                            [position |-> pos[p], state |-> "AWAITING_PROCESSING",
                             envelope |-> InHand = {} /\ pos[p] = 1]
                      [] OTHER -> Unused]
    BY DEF Init
<1> DEFINE S == {p \in R : pos[p] > 0}
<1>2. Waiting \in Nat /\ IsFiniteSet(S)
    <2>1. IsFiniteSet(R)
        BY RaceAssumption, FS_Subset
    <2> QED
        BY <2>1, RaceAssumption, FS_CardinalityType, FS_Subset
<1>3. ASSUME NEW p \in Pwb
      PROVE  /\ p \in InHand => row[p].position = 0 /\ row[p].state = "CURRENTLY_PROCESSING"
             /\ p \in S => row[p].position = pos[p] /\ row[p].state = "AWAITING_PROCESSING"
             /\ p \notin InHand \cup S => row[p].position = 0 /\ row[p].state = "no row"
    <2>1. CASE p \in InHand
        <3>1. row[p] = [position |-> 0, state |-> "CURRENTLY_PROCESSING", envelope |-> TRUE]
            BY <1>1, <2>1 DEF Unused
        <3> QED
            BY <2>1, <3>1
    <2>2. CASE p \in S
        <3>1. row[p] = [position |-> pos[p], state |-> "AWAITING_PROCESSING",
                        envelope |-> InHand = {} /\ pos[p] = 1]
            BY <1>1, <2>2
        <3> QED
            BY <2>2, <3>1
    <2>3. CASE p \notin InHand \cup S
        <3>1. row[p] = Unused
            BY <1>1, <2>3
        <3>2. Unused.position = 0 /\ Unused.state = "no row"
            BY DEF Unused
        <3> QED
            BY <2>3, <3>1, <3>2
    <2> QED
        BY <2>1, <2>2, <2>3
<1>4. Awaiting(row) = S
    BY <1>3 DEF Awaiting, WithState
<1>9. \A p \in Pwb : row[p].position = IF p \in S THEN pos[p] ELSE 0
    BY <1>3
<1>10. \A p \in S : p \in Pwb /\ pos[p] # 0
    BY <1>2
<1>5. \A p, q \in S : pos[p] = pos[q] => p = q
    <2> DEFINE f == [p \in S |-> pos[p]]
               N == 1..Waiting
    <2>1. f \in Surjection(S, N)
        <3>1. \A p \in S : pos[p] \in N
            BY <1>1, <1>2
        <3>2. f \in [S -> N]
            BY <3>1
        <3>3. \A n \in N : \E p \in S : f[p] = n
            BY <1>1, <1>2
        <3> QED
            BY <3>2, <3>3 DEF Surjection
    <2>2. IsFiniteSet(N) /\ Cardinality(N) = Waiting
        <3>1. 1 \in Int /\ Waiting \in Int
            BY <1>2
        <3>2. IsFiniteSet(1..Waiting)
              /\ Cardinality(1..Waiting) = IF 1 > Waiting THEN 0 ELSE Waiting - 1 + 1
            BY <3>1, FS_Interval
        <3> QED
            BY <1>2, <3>2
    <2>3. Cardinality(S) = Cardinality(N)
        BY <1>1, <2>2
    <2> HIDE DEF f, N, S
    <2>4. f \in Injection(S, N)
        BY <1>2, <2>1, <2>2, <2>3, FS_SurjSameCardinalityImpliesInj
    <2> QED
        BY <2>4 DEF f, Injection, IsInjective
<1>6. QueueOrder
    <2>1. \A p \in Pwb : Positions(row)[p] = row[p].position
        BY DEF Positions
    <2>2. DOMAIN Positions(row) = Pwb
        BY DEF Positions
    <2>3. \A p \in Pwb : Positions(row)[p] # 0 <=> p \in S
        BY <1>9, <1>10, <2>1
    <2>4. \A p \in S : Positions(row)[p] = pos[p]
        BY <1>9, <1>10, <2>1
    <2>5. \A p \in S : \A n \in 1..pos[p] : \E q \in S : pos[q] = n
        BY <1>1, <1>2
    <2> HIDE DEF S
    <2> QED
        BY <1>4, <1>5, <2>2, <2>3, <2>4, <2>5 DEF QueueOrder, IsQueueOrder
<1>7. Processing(row) # {}
    BY <1>3, RaceAssumption DEF OnlyReorderings, Processing, WithState
<1>8. \A s \in Session : pc[s] = "idle" /\ topBefore[s] = None /\ DOMAIN draft[s] = {}
    BY DEF Init, NoRows
<1> QED
    BY <1>6, <1>7, <1>8 DEF Orderly, SessionOrderly

(* The order and the copies are kept for ever. *)
LEMMA AlwaysOrderly ==
    ASSUME OnlyReorderings
    PROVE  Spec => [](Orderly /\ CopiesWell)
<1>1. Init => Orderly
    BY StartsOrderly
<1>2. Orderly /\ CopiesWell /\ [Next]_vars => Orderly'
    <2> SUFFICES ASSUME Orderly, CopiesWell, [Next]_vars
                 PROVE  Orderly'
        OBVIOUS
    <2>1. CASE Next
        BY <2>1, StepOrderly
    <2>2. CASE UNCHANGED vars
        BY <2>2 DEF vars, Orderly, QueueOrder, SessionOrderly, Pending, Changes, Outcome
    <2> QED
        BY <2>1, <2>2
<1> QED
    BY <1>1, <1>2, CopiesAlwaysWell, PTL DEF Spec

(* While HMRC has a row in its hands, any number of requests that reorder  *)
(* the queue, take rows out of it and put rows into it at once leave its   *)
(* positions 1, 2, ... without gap or duplicate.                           *)
THEOREM OrderSurvivesOverlap ==
    ASSUME OnlyReorderings
    PROVE  Spec => []QueueOrder
<1>1. Orderly => QueueOrder
    BY DEF Orderly
<1> QED
    BY <1>1, AlwaysOrderly, PTL

(* ... and each of them has, when it commits, the effect of one operation  *)
(* on the order as it is then, whatever it was when the request read it.   *)
THEOREM RequestsSerializable ==
    ASSUME OnlyReorderings
    PROVE  Spec => Serializable
<1>1. Orderly /\ CopiesWell /\ [Next]_vars => [SerialStep]_vars
    BY StepOrderly
<1> QED
    BY <1>1, AlwaysOrderly, PTL DEF Spec, Serializable, SerialStep

=============================================================================
