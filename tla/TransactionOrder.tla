--------------------------- MODULE TransactionOrder ---------------------------
(***************************************************************************)
(* The transactions of all workbaskets: their partition, their order       *)
(* within it, and the current version of each object, over editing,        *)
(* reordering, queueing, withdrawal, rejection and publication.            *)
(*                                                                         *)
(* A transaction holds one version of one object, so that the primary key  *)
(* of the transaction stands for the version's as well: both grow with     *)
(* time. An object is a VersionGroup. Keys are never used twice. A         *)
(* transaction whose version was deleted may stay, and is empty.           *)
(***************************************************************************)
EXTENDS Integers, FiniteSets

CONSTANTS WorkBasket,   \* the workbaskets, all created in advance
          Object,       \* the objects that users edit
          Scheme,       \* settings.TRANSACTION_SCHEMA
          MaxPk,        \* bound: transactions ever created
          MaxOrder      \* bound: the largest order number

Null == 0

ASSUME ObjectAssumption == Null \notin Object
ASSUME SchemeAssumption == Scheme \in {"SEED_FIRST", "SEED_ONLY", "REVISION_ONLY"}
ASSUME BoundAssumption == MaxPk \in Nat /\ MaxOrder \in Nat

VARIABLES status,           \* the status of each workbasket
          transactions,     \* the existing transactions, by primary key
          lastPk,           \* the last primary key given out
          currentVersion,   \* each object's current version, or Null
          bereft            \* history: the objects whose current version a user
                            \* deleted, and that have got none since

vars == <<status, transactions, lastPk, currentVersion, bereft>>
versions == <<currentVersion, bereft>>

SEED_FILE == 1
REVISION == 2
DRAFT == 3

Status == {"EDITING", "QUEUED", "PUBLISHED", "ERRORED", "ARCHIVED"}
ApprovedStatus == {"QUEUED", "PUBLISHED"}
Transaction == [workbasket : WorkBasket, object : Object \cup {Null},
                partition : {SEED_FILE, REVISION, DRAFT}, order : 1..MaxOrder]

Pk == DOMAIN transactions
Own(w) == {t \in Pk : transactions[t].workbasket = w}
VersionsOf(o, S) == {t \in S : transactions[t].object = o}
ObjectsIn(S) == {transactions[t].object : t \in S} \ {Null}
Empty == {t \in Pk : transactions[t].object = Null}
IsApproved(t) == transactions[t].partition # DRAFT
Approved == {t \in Pk : IsApproved(t)}

-----------------------------------------------------------------------------
(* Transaction.Meta.ordering. first() and last() of a query give one of    *)
(* the rows that none precedes or follows: of the drafts of several        *)
(* workbaskets that share a place, the database picks one.                 *)
Before(t, u) ==
    \/ transactions[t].partition < transactions[u].partition
    \/ /\ transactions[t].partition = transactions[u].partition
       /\ transactions[t].order < transactions[u].order

First(S) == {t \in S : \A u \in S : ~Before(u, t)}
Last(S) == {t \in S : \A u \in S : ~Before(t, u)}
LastOrderBeforeFirst(S) == IF S = {} THEN {-1} ELSE {transactions[t].order : t \in Last(S)}

LastOrder(S) == IF S = {} THEN {0} ELSE {transactions[t].order : t \in Last(S)}

Newest(S) == IF S = {} THEN Null ELSE CHOOSE t \in S : \A u \in S : u <= t

-----------------------------------------------------------------------------
Init ==
    /\ status = [w \in WorkBasket |-> "EDITING"]
    /\ transactions = [t \in {} |-> Null]
    /\ lastPk = 0
    /\ currentVersion = [o \in Object |-> Null]
    /\ bereft = {}

(* What a user of w can edit: an object that has an approved version or    *)
(* one of w's own, or one that is created now.                             *)
Editable(w, o) ==
    \/ VersionsOf(o, Pk) = {}
    \/ VersionsOf(o, Approved \cup Own(w)) # {}

NewOrderAfterApproved(w) == {last + 1 : last \in LastOrder(Approved)}

(* new_transaction: the order follows the workbasket's last transaction,   *)
(* or else the last approved one.                                          *)
NewOrder(w) ==
    {last + 1 : last \in LastOrder(IF Own(w) # {} THEN Own(w) ELSE Approved)}

NewRow(w, o, n) == [workbasket |-> w, object |-> o, partition |-> DRAFT, order |-> n]

Created(rows, row) ==
    [t \in DOMAIN rows \cup {lastPk + 1} |-> IF t \in DOMAIN rows THEN rows[t] ELSE row]

Edit(w, o) ==
    /\ status[w] = "EDITING"
    /\ Editable(w, o)
    /\ lastPk < MaxPk
    /\ \E n \in NewOrder(w) :
        /\ n <= MaxOrder
        /\ transactions' = Created(transactions, NewRow(w, o, n))
    /\ lastPk' = lastPk + 1
    /\ UNCHANGED <<status, versions>>

(* promote_item_to_top gives the order of the first row to one row, and    *)
(* moves those before it down by one.                                      *)
RaisedAbove(S, bound) ==
    [t \in Pk |-> IF t \in S /\ transactions[t].order < bound
                  THEN [transactions[t] EXCEPT !.order = @ + 1]
                  ELSE transactions[t]]

(* end_objects, delete_objects: the new version of the object is put       *)
(* before everything else in the workbasket.                               *)
EndObject(w, o) ==
    /\ status[w] = "EDITING"
    /\ VersionsOf(o, Approved \cup Own(w)) # {}
    /\ lastPk < MaxPk
    /\ \E n \in NewOrder(w) :
        /\ n <= MaxOrder
        /\ IF Own(w) = {}
           THEN transactions' = Created(transactions, NewRow(w, o, n))
           ELSE \E top \in First(Own(w)) :
                   transactions' = Created(RaisedAbove(Own(w), n),
                                           NewRow(w, o, transactions[top].order))
    /\ lastPk' = lastPk + 1
    /\ UNCHANGED <<status, versions>>

-----------------------------------------------------------------------------
(* WorkBasketTransactionOrderView: the four ways of moving a transaction   *)
(* of a workbasket that is being edited.                                   *)
Reorderable(t) == status[transactions[t].workbasket] = "EDITING"
Siblings(t) == Own(transactions[t].workbasket)

PromoteToTop(t) ==
    /\ Reorderable(t)
    /\ \E top \in First(Siblings(t)) \ {t} :
        transactions' = [RaisedAbove(Siblings(t), transactions[t].order)
                            EXCEPT ![t].order = transactions[top].order]
    /\ UNCHANGED <<status, lastPk, versions>>

LoweredBelow(S, bound) ==
    [t \in Pk |-> IF t \in S /\ transactions[t].order > bound
                  THEN [transactions[t] EXCEPT !.order = @ - 1]
                  ELSE transactions[t]]

DemoteToBottom(t) ==
    /\ Reorderable(t)
    /\ \E bottom \in Last(Siblings(t)) \ {t} :
        transactions' = [LoweredBelow(Siblings(t), transactions[t].order)
                            EXCEPT ![t].order = transactions[bottom].order]
    /\ UNCHANGED <<status, lastPk, versions>>

Swapped(t, u) ==
    [transactions EXCEPT ![t].order = transactions[u].order,
                         ![u].order = transactions[t].order]

Promote(t) ==
    /\ Reorderable(t)
    /\ \E u \in Last({s \in Siblings(t) : transactions[s].order < transactions[t].order}) :
        transactions' = Swapped(t, u)
    /\ UNCHANGED <<status, lastPk, versions>>

Demote(t) ==
    /\ Reorderable(t)
    /\ \E u \in First({s \in Siblings(t) : transactions[s].order > transactions[t].order}) :
        transactions' = Swapped(t, u)
    /\ UNCHANGED <<status, lastPk, versions>>

Emptied(S) ==
    [t \in Pk |-> IF t \in S THEN [transactions[t] EXCEPT !.object = Null]
                  ELSE transactions[t]]

Purged(rows) == [t \in Pk \ rows |-> transactions[t]]

(* WorkBasketChangesDelete: some of the selected versions are deleted,     *)
(* whatever the status; where one was an object's current version, NULL    *)
(* remains. purge_empty_transactions follows, and raises unless w is being *)
(* edited: what was deleted stays deleted.                                 *)
DeleteChanges(w) ==
    /\ \E S \in SUBSET (Own(w) \ Empty) :
        /\ transactions' = IF status[w] = "EDITING"
                           THEN Purged(S \cup (Own(w) \cap Empty))
                           ELSE Emptied(S)
        /\ currentVersion' = [o \in Object |-> IF currentVersion[o] \in S
                                               THEN Null ELSE currentVersion[o]]
        /\ bereft' = bereft \cup {o \in Object : currentVersion[o] \in S}
    /\ UNCHANGED <<status, lastPk>>

-----------------------------------------------------------------------------
RankByKey(t, S) == Cardinality({u \in S : u < t}) + 1

MoveToStart(S, partition) ==
    /\ Cardinality(S) <= MaxOrder
    /\ transactions' =
           [t \in Pk |-> IF t \in S
                         THEN [transactions[t] EXCEPT !.partition = partition,
                                                      !.order = Cardinality({u \in S : Before(u, t)}) + 1]
                         ELSE transactions[t]]

(* move_to_end_of_partition: rows S, in their order, after the last other  *)
(* row of the partition.                                                   *)
Rank(t, S) == Cardinality({u \in S : Before(u, t)}) + 1

MoveToEnd(S, partition) ==
    \E end \in LastOrder({t \in Pk \ S : transactions[t].partition = partition}) :
        /\ end + Cardinality(S) <= MaxOrder
        /\ transactions' =
               [t \in Pk |-> IF t \in S
                             THEN [transactions[t] EXCEPT !.partition = partition,
                                                          !.order = end + Rank(t, S)]
                             ELSE transactions[t]]

(* get_approved_partition; empty where it raises ValueError.               *)
ApprovedPartition ==
    CASE Scheme = "SEED_FIRST" ->
            IF \E w \in WorkBasket : status[w] \in ApprovedStatus
            THEN {REVISION} ELSE {SEED_FILE}
      [] Scheme = "SEED_ONLY" ->
            IF \E t \in Pk : transactions[t].partition = REVISION
            THEN {} ELSE {SEED_FILE}
      [] OTHER -> {REVISION}

SavedInReverse(w) ==
    [o \in Object |-> IF VersionsOf(o, Own(w)) # {}
                      THEN CHOOSE t \in VersionsOf(o, Own(w)) :
                               \A u \in VersionsOf(o, Own(w)) : t <= u
                      ELSE currentVersion[o]]

(* save_drafts makes each version current in the order of primary keys, so *)
(* that the newest of an object's versions remains.                        *)
Saved(w) ==
    [o \in Object |-> IF VersionsOf(o, Own(w)) # {}
                      THEN Newest(VersionsOf(o, Own(w)))
                      ELSE currentVersion[o]]

RevertedToAnyApproved(w) ==
    [o \in Object |-> IF VersionsOf(o, Own(w)) # {}
                      THEN Newest(VersionsOf(o, Approved))
                      ELSE currentVersion[o]]

(* revert_current_version: the newest approved version of another          *)
(* workbasket, or none.                                                    *)
Reverted(w) ==
    [o \in Object |-> IF VersionsOf(o, Own(w)) # {}
                      THEN Newest(VersionsOf(o, Approved \ Own(w)))
                      ELSE currentVersion[o]]

(* WorkBasket.queue: business rules hold and users are assigned. Without   *)
(* transactions only the status changes. With empty ones alone no update   *)
(* time is found to compare the checks with, and it raises ValueError.     *)
Queue(w) ==
    /\ status[w] = "EDITING"
    /\ IF Own(w) = {}
       THEN UNCHANGED <<transactions, versions>>
       ELSE /\ ObjectsIn(Own(w)) # {}
            /\ Own(w) \cap Approved = {}
            /\ currentVersion' = Saved(w)
            /\ bereft' = bereft \ ObjectsIn(Own(w))
            /\ \E partition \in ApprovedPartition : MoveToEnd(Own(w), partition)
    /\ status' = [status EXCEPT ![w] = "QUEUED"]
    /\ UNCHANGED lastPk

MoveToDraft(w) ==
    IF Own(w) = {}
    THEN UNCHANGED <<transactions, versions>>
    ELSE /\ Own(w) \subseteq Approved
         /\ currentVersion' = Reverted(w)
         /\ bereft' = bereft \ ObjectsIn(Own(w))
         /\ MoveToEnd(Own(w), DRAFT)

Dequeue(w) ==
    /\ status[w] = "QUEUED"
    /\ MoveToDraft(w)
    /\ status' = [status EXCEPT ![w] = "EDITING"]
    /\ UNCHANGED lastPk

CdsErrorKeepingPartition(w) ==
    /\ status[w] = "QUEUED"
    /\ status' = [status EXCEPT ![w] = "ERRORED"]
    /\ UNCHANGED <<transactions, lastPk, versions>>

CdsError(w) ==
    /\ status[w] = "QUEUED"
    /\ MoveToDraft(w)
    /\ status' = [status EXCEPT ![w] = "ERRORED"]
    /\ UNCHANGED lastPk

CdsConfirmed(w) ==
    /\ status[w] = "QUEUED"
    /\ status' = [status EXCEPT ![w] = "PUBLISHED"]
    /\ UNCHANGED <<transactions, lastPk, versions>>

Restore(w) ==
    /\ status[w] = "ERRORED"
    /\ status' = [status EXCEPT ![w] = "EDITING"]
    /\ UNCHANGED <<transactions, lastPk, versions>>

Archive(w) ==
    /\ status[w] = "EDITING"
    /\ Own(w) = {}
    /\ status' = [status EXCEPT ![w] = "ARCHIVED"]
    /\ UNCHANGED <<transactions, lastPk, versions>>

Unarchive(w) ==
    /\ status[w] = "ARCHIVED"
    /\ status' = [status EXCEPT ![w] = "EDITING"]
    /\ UNCHANGED <<transactions, lastPk, versions>>

(* ImportBatch.failed: clear_workbasket deletes what was imported into a   *)
(* workbasket that is being edited, and makes the newest remaining version *)
(* of each object current; then the workbasket is archived.                *)
ImportFailed(w) ==
    /\ status[w] = "EDITING"
    /\ Own(w) # {}
    /\ transactions' = Purged(Own(w))
    /\ bereft' = bereft \ ObjectsIn(Own(w))
    /\ currentVersion' =
           [o \in Object |-> IF VersionsOf(o, Own(w)) # {}
                             THEN Newest(VersionsOf(o, Pk \ Own(w)))
                             ELSE currentVersion[o]]
    /\ status' = [status EXCEPT ![w] = "ARCHIVED"]
    /\ UNCHANGED lastPk

Next ==
    \/ \E w \in WorkBasket :
        \/ \E o \in Object : Edit(w, o) \/ EndObject(w, o)
        \/ DeleteChanges(w)
        \/ Queue(w) \/ Dequeue(w) \/ CdsConfirmed(w) \/ CdsError(w)
        \/ Restore(w) \/ Archive(w) \/ Unarchive(w)
    \/ \E t \in Pk : PromoteToTop(t) \/ DemoteToBottom(t) \/ Promote(t) \/ Demote(t)

Spec == Init /\ [][Next]_vars

(* With imports that fail.                                                 *)
SpecWithImports == Init /\ [][Next \/ \E w \in WorkBasket : ImportFailed(w)]_vars

-----------------------------------------------------------------------------
(* The columns have their types, and keys are given out in turn.           *)
TypeOK ==
    /\ status \in [WorkBasket -> Status]
    /\ lastPk \in 0..MaxPk
    /\ Pk \subseteq 1..lastPk
    /\ transactions \in [Pk -> Transaction]
    /\ currentVersion \in [Object -> Pk \cup {Null}]
    /\ bereft \subseteq Object

(* The ordering (partition, order) is an order: approved transactions      *)
(* never share a place in the tariff's history, nor do two of one          *)
(* workbasket, through any reordering, withdrawal and resubmission. Drafts *)
(* of different workbaskets may.                                           *)
OrdersDistinct ==
    \A t, u \in Pk :
        /\ t # u
        /\ transactions[t].partition = transactions[u].partition
        /\ IsApproved(t) \/ transactions[t].workbasket = transactions[u].workbasket
        => transactions[t].order # transactions[u].order

(* The partition of every transaction agrees with the status of its        *)
(* workbasket, which other code takes for it: only what is queued or       *)
(* published is part of the tariff.                                        *)
PartitionFollowsStatus ==
    \A t \in Pk : IsApproved(t) <=> status[transactions[t].workbasket] \in ApprovedStatus

(* latest_approved() returns approved versions only, and one of every      *)
(* object that has any, unless users deleted the one it had: whatever was  *)
(* withdrawn or deleted, in whatever order, the current version is an      *)
(* approved version of that object.                                        *)
CurrentIsApproved ==
    \A o \in Object :
        IF currentVersion[o] = Null
        THEN VersionsOf(o, Approved) = {} \/ o \in bereft
        ELSE currentVersion[o] \in VersionsOf(o, Approved)

(* No approved version of an object was both made and approved after its   *)
(* current version, whichever workbaskets are queued, withdrawn or         *)
(* rejected. So where versions are approved in the order in which they     *)
(* were made, the current version is the last one.                         *)
CurrentNotOvertaken ==
    \A o \in Object : currentVersion[o] # Null =>
        \A t \in VersionsOf(o, Approved) :
            t <= currentVersion[o] \/ Before(t, currentVersion[o])

(* The current version of o is of the workbasket that was the last to be   *)
(* approved of those with a version of o.                                  *)
CurrentIsLastApproved(o) ==
    \A t \in VersionsOf(o, Approved) :
        /\ currentVersion[o] # Null
        /\ \/ transactions[t].workbasket = transactions[currentVersion[o]].workbasket
           \/ Before(t, currentVersion[o])

(* WorkBasket.cds_error: "roll back the current models to the previous     *)
(* approved version". When CDS rejects a workbasket, each of its objects   *)
(* goes back to the version of the last workbasket that remains approved.  *)
RollbackRestoresPrevious ==
    [][\A w \in WorkBasket, o \in Object :
          /\ status[w] = "QUEUED" /\ status'[w] = "ERRORED"
          /\ VersionsOf(o, Own(w)) # {}
          => CurrentIsLastApproved(o)']_vars

(* The history of the tariff grows at its end, and shrinks where something *)
(* is withdrawn; what stays keeps its order. What is published stays, and  *)
(* holds what it held unless users deleted it: no withdrawal, rejection or *)
(* resubmission of other workbaskets moves it or gives it other content.   *)
HistoryIsStable ==
    [][/\ \A t, u \in Approved :
            (t \in Approved' /\ u \in Approved') => (Before(t, u) <=> Before(t, u)')
       /\ \A t \in Approved \cap Approved', u \in Approved' \ Approved : Before(t, u)'
       /\ \A t \in Approved :
            status[transactions[t].workbasket] = "PUBLISHED" =>
                /\ t \in Approved'
                /\ transactions'[t].object \in {transactions[t].object, Null}]_vars

(* "Transactions in SEED_FILE or REVISION partitions should not be         *)
(* modified": what is approved keeps its content for as long as it is      *)
(* approved. It does not where a user deletes from a page that was opened  *)
(* before the workbasket was queued.                                       *)
ApprovedIsNotModified ==
    [][\A t \in Approved :
          t \in Approved' => transactions'[t].object = transactions[t].object]_vars
=============================================================================
