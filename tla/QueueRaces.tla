----------------------------- MODULE QueueRaces -----------------------------
(***************************************************************************)
(* PackagingQueue taken apart: requests and tasks as database sessions     *)
(* that overlap.  Each @atomic queue operation is one READ COMMITTED       *)
(* transaction: a query sees what others have committed and what its own   *)
(* transaction has written; SELECT ... FOR UPDATE NOWAIT fails with        *)
(* OperationalError on a row another transaction has locked; an UPDATE     *)
(* waits for it.  A Celery task commits every save at once.  A model       *)
(* instance is a copy of its row, and instance.save() writes every column  *)
(* of the copy, however old it is.                                         *)
(***************************************************************************)
EXTENDS QueuePositions, FiniteSets

CONSTANTS
    Session,        \* web workers and Celery workers
    Pwb,            \* rows PackagedWorkBasket may use
    InHand,         \* rows HMRC is already processing at the start
    Waiting,        \* number of rows queued at the start
    Kinds,          \* the kinds of request and task that arrive
    None            \* no row

Requests == {"promote_position", "demote_position", "promote_to_top_position", "abandon",
             "begin_processing", "create", "create_xml_envelope_file"}
Reorderings == {"promote_position", "demote_position", "promote_to_top_position", "abandon"}

ASSUME RaceAssumption ==
    /\ IsFiniteSet(Pwb)
    /\ InHand \subseteq Pwb
    /\ Waiting \in 0..Cardinality(Pwb \ InHand)
    /\ Kinds \subseteq Requests
    /\ None \notin Pwb

VARIABLES
    row,        \* the committed table: position, processing_state and "envelope
                \*   is not NULL" of each row
    pc,         \* how far a session has come with its request
    kind,       \* the request it serves
    target,     \* the row the request names
    instance,   \* its copy of that row, as of the last read
    topBefore,  \* create_envelope_on_new_top: the top row before the operation,
                \*   None when something was being processed
    stale,      \* the instance that the session has read and is about to save
    draft       \* rows the session has locked, as it has written them

vars == <<row, pc, kind, target, instance, topBefore, stale, draft>>

States == {"no row", "AWAITING_PROCESSING", "CURRENTLY_PROCESSING", "ABANDONED"}
Row == [position : Nat, state : States, envelope : BOOLEAN]

TypeOK ==
    /\ row \in [Pwb -> Row]
    /\ pc \in [Session -> {"idle", "started", "checked", "popping", "shifting",
                           "comparing", "unlinking", "scheduling", "saving",
                           "committing"}]
    /\ kind \in [Session -> Requests \cup {"none"}]
    /\ target \in [Session -> Pwb \cup {None}]
    /\ \A s \in Session :
        /\ pc[s] # "idle" => target[s] \in Pwb /\ instance[s] \in Row
        /\ topBefore[s] # None => topBefore[s] \subseteq Pwb
        /\ DOMAIN stale[s] \cup DOMAIN draft[s] \subseteq Pwb
        /\ \A p \in DOMAIN stale[s] : stale[s][p] \in Row
        /\ \A p \in DOMAIN draft[s] : draft[s][p] \in Row

-----------------------------------------------------------------------------
Overlay(table, changes) ==
    [p \in DOMAIN table \cup DOMAIN changes |->
        IF p \in DOMAIN changes THEN changes[p] ELSE table[p]]

(* What a query of session s sees. *)
View(s) == Overlay(row, draft[s])

Positions(table) == [p \in Pwb |-> table[p].position]
WithState(table, state) == {p \in Pwb : table[p].state = state}
Processing(table) == WithState(table, "CURRENTLY_PROCESSING")
Awaiting(table) == WithState(table, "AWAITING_PROCESSING")
Top(table) == {p \in Awaiting(table) : table[p].position = 1}

LockedByOthers(s) == UNION {DOMAIN draft[t] : t \in Session \ {s}}

(* SELECT ... FOR UPDATE NOWAIT succeeds. *)
LocksIgnored(s, rows) == TRUE

CanLock(s, rows) == rows \cap LockedByOthers(s) = {}

Unused == [position |-> 0, state |-> "no row", envelope |-> FALSE]
NoRows == [p \in {} |-> Unused]

(* The rows of table whose position or state differs from the committed    *)
(* one, and those in rows: what an operation locks.                        *)
Changes(table, rows) == [p \in rows \cup {q \in Pwb : table[q] # row[q]} |-> table[p]]

SetPositions(table, pos) == [p \in Pwb |-> [table[p] EXCEPT !.position = pos[p]]]

Goto(s, label) == pc' = [pc EXCEPT ![s] = label]

(* The request ends: committed elsewhere, or refused and rolled back. *)
Finish(s) ==
    /\ Goto(s, "idle")
    /\ kind' = [kind EXCEPT ![s] = "none"]
    /\ target' = [target EXCEPT ![s] = None]
    /\ instance' = [instance EXCEPT ![s] = None]
    /\ topBefore' = [topBefore EXCEPT ![s] = None]
    /\ stale' = [stale EXCEPT ![s] = NoRows]
    /\ draft' = [draft EXCEPT ![s] = NoRows]

RollBack(s) == Finish(s) /\ UNCHANGED row

-----------------------------------------------------------------------------
Init ==
    /\ \E pos \in [Pwb \ InHand -> 0..Waiting] :
        /\ \A n \in 1..Waiting : \E p \in Pwb \ InHand : pos[p] = n
        /\ Cardinality({p \in Pwb \ InHand : pos[p] > 0}) = Waiting
        /\ row = [p \in Pwb |->
                    CASE p \in InHand ->
                            [Unused EXCEPT !.state = "CURRENTLY_PROCESSING",
                                           !.envelope = TRUE]
                      [] p \notin InHand /\ pos[p] > 0 ->
                            [position |-> pos[p], state |-> "AWAITING_PROCESSING",
                             envelope |-> InHand = {} /\ pos[p] = 1]
                      [] OTHER -> Unused]
    /\ pc = [s \in Session |-> "idle"]
    /\ kind = [s \in Session |-> "none"]
    /\ target = [s \in Session |-> None]
    /\ instance = [s \in Session |-> None]
    /\ topBefore = [s \in Session |-> None]
    /\ stale = [s \in Session |-> NoRows]
    /\ draft = [s \in Session |-> NoRows]

(* The queue starts in order, its top row with an envelope unless another  *)
(* row is in HMRC's hands.  The view, or the task, loads its instance.     *)
Receive(s, k, p) ==
    /\ pc[s] = "idle"
    /\ k # "create"
    /\ row[p].state # "no row"
    /\ Goto(s, "started")
    /\ kind' = [kind EXCEPT ![s] = k]
    /\ target' = [target EXCEPT ![s] = p]
    /\ instance' = [instance EXCEPT ![s] = row[p]]
    /\ UNCHANGED <<row, topBefore, stale, draft>>

(* Manager.create takes the table in EXCLUSIVE mode, which waits for every *)
(* row lock and keeps new ones out until it commits: one step.             *)
Create(s, p) ==
    /\ "create" \in Kinds
    /\ pc[s] = "idle"
    /\ LockedByOthers(s) = {}
    /\ row[p].state = "no row"
    /\ \E last \in {0} \cup {row[q].position : q \in Pwb} :
        /\ IsMaxPosition(Positions(row), last)
        /\ row' = [row EXCEPT ![p] = [position |-> last + 1,
                                      state |-> "AWAITING_PROCESSING",
                                      envelope |-> FALSE]]
    /\ UNCHANGED <<pc, kind, target, instance, topBefore, stale, draft>>

-----------------------------------------------------------------------------
(* begin_processing.                                                       *)

(* The two transition conditions; the first one refreshes the instance's   *)
(* position and nothing else.  No lock is held yet.                        *)
CheckConditions(s) ==
    LET p == target[s] IN
    /\ kind[s] = "begin_processing"
    /\ pc[s] = "started"
    /\ IF /\ instance[s].state = "AWAITING_PROCESSING"
          /\ row[p].position = 1
          /\ Processing(row) = {}
       THEN /\ Goto(s, "checked")
            /\ instance' = [instance EXCEPT ![s].position = 1]
            /\ UNCHANGED <<row, kind, target, topBefore, stale, draft>>
       ELSE RollBack(s)

(* select_for_update(nowait=True).get(pk) throws its result away; the two  *)
(* saves that follow write the instance as it was checked.                 *)
SaveProcessing(s) ==
    LET p == target[s] IN
    /\ kind[s] = "begin_processing"
    /\ pc[s] = "checked"
    /\ IF CanLock(s, {p})
       THEN /\ Goto(s, "popping")
            /\ draft' = [draft EXCEPT ![s] =
                    [q \in {p} |-> [instance[s] EXCEPT !.state = "CURRENTLY_PROCESSING"]]]
            /\ UNCHANGED <<row, kind, target, instance, topBefore, stale>>
       ELSE RollBack(s)

(* pop_top starts with currently_processing(), which raises                *)
(* MultipleObjectsReturned if another row is seen there as well.           *)
PopTop(s) ==
    LET p == target[s] IN
    /\ kind[s] = "begin_processing"
    /\ pc[s] = "popping"
    /\ IF Processing(View(s)) = {p} /\ View(s)[p].position = 1
       THEN /\ Goto(s, "shifting")
            /\ draft' = [draft EXCEPT ![s][p].position = 0]
            /\ UNCHANGED <<row, kind, target, instance, topBefore, stale>>
       ELSE RollBack(s)

(* ... and ends by locking and moving up the rows behind. *)
ShiftRest(s) ==
    LET behind == {q \in Pwb : View(s)[q].position > 1}
        moved  == SetPositions(View(s), CloseGap(Positions(View(s)), 1))
    IN  /\ kind[s] = "begin_processing"
        /\ pc[s] = "shifting"
        /\ IF CanLock(s, behind)
           THEN /\ Goto(s, "committing")
                /\ draft' = [draft EXCEPT ![s] = Changes(moved, {target[s]})]
                /\ UNCHANGED <<row, kind, target, instance, topBefore, stale>>
           ELSE RollBack(s)

-----------------------------------------------------------------------------
(* The reordering requests, under create_envelope_on_new_top.              *)

(* The decorator looks at the queue before the operation takes its locks. *)
ReadTop(s) ==
    /\ kind[s] \in Reorderings
    /\ pc[s] = "started"
    /\ IF Cardinality(Processing(row)) > 1
       THEN RollBack(s)
       ELSE /\ Goto(s, "checked")
            /\ topBefore' = [topBefore EXCEPT ![s] =
                    IF Processing(row) = {} THEN Top(row) ELSE None]
            /\ UNCHANGED <<row, kind, target, instance, stale, draft>>

Reordered(k, pos, p) ==
    CASE k = "promote_position"        -> Promoted(pos, p)
      [] k = "demote_position"         -> Demoted(pos, p)
      [] k = "promote_to_top_position" -> PromotedToTop(pos, p)
      [] k = "abandon"                 -> Removed(pos, p)

(* promote_position and demote_position get() the one row they swap with:  *)
(* DoesNotExist or MultipleObjectsReturned end a request on a broken order. *)
SwapFound(k, pos, p) ==
    LET n == IF k = "promote_position" THEN pos[p] - 1 ELSE pos[p] + 1 IN
    k \in {"promote_position", "demote_position"} /\ Reordered(k, pos, p) # pos
        => \E q \in Pwb : {r \in Pwb : pos[r] = n} = {q}

(* The operation: its row first, then the others it moves, all read under  *)
(* their locks.  abandon checks processing_state on the instance, and the  *)
(* position on the locked row.                                             *)
WriteOrder(s) ==
    LET p     == target[s]
        moved == SetPositions(row, Reordered(kind[s], Positions(row), p))
        after == IF kind[s] = "abandon"
                 THEN [moved EXCEPT ![p].state = "ABANDONED"]
                 ELSE moved
    IN  /\ kind[s] \in Reorderings
        /\ pc[s] = "checked"
        /\ IF /\ CanLock(s, DOMAIN Changes(after, {p}))
              /\ SwapFound(kind[s], Positions(row), p)
              /\ kind[s] = "abandon" => /\ instance[s].state = "AWAITING_PROCESSING"
                                        /\ row[p].position # 0
           THEN /\ Goto(s, IF topBefore[s] = None THEN "committing" ELSE "comparing")
                /\ draft' = [draft EXCEPT ![s] = Changes(after, {p})]
                /\ UNCHANGED <<row, kind, target, instance, topBefore, stale>>
           ELSE RollBack(s)

(* The decorator again.  With another top than before it reads the old top *)
(* again, without a lock, to unlink its envelope if it has one; with no    *)
(* old top it dies on None.refresh_from_db().                              *)
CompareTop(s) ==
    /\ pc[s] = "comparing"
    /\ IF Top(View(s)) = topBefore[s]
       THEN Goto(s, "committing") /\ UNCHANGED <<row, kind, target, instance, topBefore, stale, draft>>
       ELSE IF topBefore[s] = {}
       THEN RollBack(s)
       ELSE /\ Goto(s, "unlinking")
            /\ stale' = [stale EXCEPT ![s] =
                    [p \in {q \in topBefore[s] : View(s)[q].envelope} |->
                        [View(s)[p] EXCEPT !.envelope = FALSE]]]
            /\ UNCHANGED <<row, kind, target, instance, topBefore, draft>>

(* instance.save() in a request: an UPDATE of every column, which waits    *)
(* until no other transaction has the row locked.                          *)
SaveStale(s) ==
    /\ CanLock(s, DOMAIN stale[s])
    /\ draft' = [draft EXCEPT ![s] = Overlay(draft[s], stale[s])]

UnlinkOldTop(s) ==
    /\ pc[s] = "unlinking"
    /\ SaveStale(s)
    /\ Goto(s, "scheduling")
    /\ UNCHANGED <<row, kind, target, instance, topBefore, stale>>

(* create_envelope_for_top: the new top is read, again without a lock, and *)
(* saved with the ID of the task scheduled for it.                         *)
ReadNewTop(s) ==
    /\ pc[s] = "scheduling"
    /\ stale' = [stale EXCEPT ![s] = [p \in Top(View(s)) |-> View(s)[p]]]
    /\ Goto(s, "saving")
    /\ UNCHANGED <<row, kind, target, instance, topBefore, draft>>

SaveNewTop(s) ==
    /\ kind[s] \in Reorderings
    /\ pc[s] = "saving"
    /\ SaveStale(s)
    /\ Goto(s, "committing")
    /\ UNCHANGED <<row, kind, target, instance, topBefore, stale>>

(* Two requests wait for each other's rows: PostgreSQL aborts one. *)
WaitsFor(s, t) ==
    /\ kind[s] \in Reorderings
    /\ pc[s] \in {"unlinking", "saving"}
    /\ DOMAIN stale[s] \cap DOMAIN draft[t] # {}

BreakDeadlock(s) ==
    /\ \E t \in Session \ {s} : WaitsFor(s, t) /\ WaitsFor(t, s)
    /\ RollBack(s)

Commit(s) ==
    /\ pc[s] = "committing"
    /\ row' = View(s)
    /\ Finish(s)

-----------------------------------------------------------------------------
(* The task create_xml_envelope_file.                                      *)

(* EnvelopeManager.create checks the instance's position, and then renders *)
(* the workbasket, which takes its time.                                   *)
StartRendering(s) ==
    /\ kind[s] = "create_xml_envelope_file"
    /\ pc[s] = "started"
    /\ IF Processing(row) = {} /\ instance[s].position = 1
       THEN /\ Goto(s, "saving")
            /\ stale' = [stale EXCEPT ![s] =
                    [p \in {target[s]} |-> [instance[s] EXCEPT !.envelope = TRUE]]]
            /\ UNCHANGED <<row, kind, target, instance, topBefore, draft>>
       ELSE RollBack(s)

(* packaged_work_basket.save() in autocommit mode. *)
SaveEnvelope(s) ==
    /\ kind[s] = "create_xml_envelope_file"
    /\ pc[s] = "saving"
    /\ CanLock(s, {target[s]})
    /\ row' = Overlay(row, stale[s])
    /\ Finish(s)

-----------------------------------------------------------------------------
Step(s) ==
    \/ \E k \in Kinds, p \in Pwb : Receive(s, k, p)
    \/ \E p \in Pwb : Create(s, p)
    \/ CheckConditions(s) \/ SaveProcessing(s) \/ PopTop(s) \/ ShiftRest(s)
    \/ ReadTop(s) \/ WriteOrder(s)
    \/ CompareTop(s) \/ UnlinkOldTop(s) \/ ReadNewTop(s) \/ SaveNewTop(s)
    \/ BreakDeadlock(s)
    \/ Commit(s)
    \/ StartRendering(s) \/ SaveEnvelope(s)

Next == \E s \in Session : Step(s)

Spec == Init /\ [][Next]_vars

-----------------------------------------------------------------------------
(* Properties.                                                             *)

(* TestPackagingQueueRaceConditions: "concurrent requests to reorder       *)
(* packaged workbaskets don't result in duplicate or non-consecutive       *)
(* positions".                                                             *)
QueueOrder == IsQueueOrder(Positions(row), Awaiting(row))

(* Whatever overlaps, and even where QueueOrder is lost, no row is lost:   *)
(* a row that awaits processing always has a place in the queue, so HMRC   *)
(* can reach it, and a row that does not never takes a place up.           *)
NoRowLost ==
    \A p \in Pwb : row[p].position > 0 <=> row[p].state = "AWAITING_PROCESSING"

(* begin_processing: "Only a single instance may have its                  *)
(* `processing_state` set to CURRENTLY_PROCESSING".                        *)
AtMostOneProcessing == \A p, q \in Processing(row) : p = q

(* Overlapping requests are serializable: whatever is committed is one     *)
(* whole queue operation applied to the order committed before it, even    *)
(* when other requests have committed since the request read the queue.    *)
Joined(pos, p) ==
    [pos EXCEPT ![p] = 1 + Cardinality({q \in Pwb : pos[q] > 0})]

Serializable ==
    [][\E p \in Pwb :
        /\ Positions(row') \in {Positions(row), Joined(Positions(row), p)} \cup
                {Reordered(k, Positions(row), p) : k \in Reorderings}
        /\ \A q \in Pwb \ {p} : row'[q].state = row[q].state]_vars
=============================================================================
