-------------------------- MODULE TransactionChecks --------------------------
(***************************************************************************)
(* Business rule checks.  A Celery task checks the transactions of one     *)
(* workbasket after the other, and records for each what it looked like    *)
(* and which approved transaction was the last, the head, at the time.     *)
(* WorkBasket.queue asks for a successful check of every transaction that  *)
(* is not out of date.  Users edit while checks run, other workbaskets     *)
(* are approved and withdrawn, and tasks for one workbasket may overlap.   *)
(* A step is what one database transaction does; the one that queues a     *)
(* workbasket is two, since it sees what others commit in between.         *)
(*                                                                         *)
(* The business rules are reduced to two that stand for what rules look    *)
(* at: a model may need others to exist, and may not have the same data as *)
(* its rivals.  A rule sees the approved models and those of its own       *)
(* workbasket up to its transaction.                                       *)
(***************************************************************************)
EXTENDS Integers, Sequences, FiniteSets

CONSTANTS
    WorkBasket,
    Tx,             \* transactions
    Model,          \* tracked models: primary keys
    WorkBasketOf,   \* transaction.workbasket
    TxOf,           \* model.transaction
    Needs,          \* the models a model needs
    Rivals,         \* the models it must differ from
    Data,           \* what a model may say
    Created,        \* the transactions there are at first; users create the others
    Session,        \* Celery workers of the queue rule-check
    None,           \* the head when nothing was approved since the seed file
    MaxRequests,    \* bound: rule checks that users start
    MaxChanges,     \* bound: changes that users make
    Explored        \* bound: the gaps after which a behaviour is followed further

ASSUME CheckAssumption ==
    /\ WorkBasketOf \in [Tx -> WorkBasket]
    /\ Model \subseteq Nat \ {0} /\ TxOf \in [Model -> Tx]
    /\ Needs \in [Model -> SUBSET Model] /\ Rivals \in [Model -> SUBSET Model]
    /\ Created \subseteq Tx
    /\ \A m, n \in Model : TxOf[m] \in Created /\ TxOf[n] \notin Created => m < n
    /\ None \notin Tx
    /\ MaxRequests \in Nat /\ MaxChanges \in Nat

VARIABLES
    status,         \* workbasket.status
    order,          \* the transactions of each workbasket, by their order
    approved,       \* the approved ones since the seed file, by their order
    models, data,   \* the tracked models there are, and what they say
    checks,         \* the TransactionCheck rows, by their primary keys
    sent,           \* call_check_workbasket_sync tasks in the broker
    pc, todo, check, head, toCheck, verdict,
                    \* each worker: its place in the code, the transactions it has
                    \*   still to do, its TransactionCheck, the head it has read, the
                    \*   models to check, and the row it is about to save
    owed,           \* what requests of a workbasket have still to do
    queueing,       \* requests that have found their workbasket fit to be queued
    gaps,           \* history: the ways taken so far by which the code misses a change
    requests, changes

tariff == <<status, order, approved, models, data>>
worker == <<pc, todo, check, head, toCheck, verdict>>
counters == <<requests, changes>>
vars == <<tariff, checks, sent, worker, owed, queueing, gaps, counters>>

Gap == {"dequeued", "removed", "removed during check", "removed late", "reinserted",
        "reordered", "head deleted", "queued late"}

Items(s) == {s[i] : i \in DOMAIN s}
At(s, t) == CHOOSE i \in DOMAIN s : s[i] = t
Own(w) == Items(order[w])
Existing == UNION {Own(w) : w \in WorkBasket}
ModelsOf(t) == {m \in models : TxOf[m] = t}
ModelsIn(w) == UNION {ModelsOf(t) : t \in Own(w)}
Latest(S) == IF S = {} THEN 0 ELSE CHOOSE m \in S : \A n \in S : n =< m

TransactionCheck ==
    [transaction : Tx, head : Tx \cup {None},
     completed : BOOLEAN, successful : BOOLEAN,
     count : Nat, latest : Model \cup {0},
     checked : SUBSET Model, failed : SUBSET Model,     \* model_checks
     edited : SUBSET Model]             \* history: updated_at >= created_at

TypeOK ==
    /\ status \in [WorkBasket -> {"EDITING", "QUEUED"}]
    /\ \A w \in WorkBasket : Own(w) \subseteq {t \in Tx : WorkBasketOf[t] = w}
    /\ Items(approved) \subseteq Tx
    /\ models \subseteq Model /\ data \in [Model -> Data]
    /\ \A k \in DOMAIN checks : checks[k] \in TransactionCheck
    /\ \A k \in DOMAIN checks :
        {checks[k].transaction, checks[k].head} \subseteq Existing \cup {None}
    /\ \A k \in DOMAIN checks : checks[k].successful => checks[k].completed
    /\ \A k \in DOMAIN checks : checks[k].failed \subseteq checks[k].checked
    /\ owed \in [WorkBasket -> SUBSET {"purge", "purging", "delete_checks"}]
    /\ queueing \subseteq WorkBasket /\ gaps \subseteq Gap
    /\ \A s \in Session : pc[s] \in {"idle", "setup", "create", "models", "load", "save"}
    /\ requests \in 0..MaxRequests /\ changes \in 0..MaxChanges

-----------------------------------------------------------------------------
(* The rules, and the models they see from a transaction.                  *)
IsApproved(t) == t \in Items(approved)

UpTo(s, t) == {s[i] : i \in 1..At(s, t)}

VisibleFrom(t) ==
    IF IsApproved(t) THEN UpTo(approved, t)
    ELSE Items(approved) \cup UpTo(order[WorkBasketOf[t]], t)

Passes(m) ==
    LET seen == {n \in models : TxOf[n] \in VisibleFrom(TxOf[m])} IN
    /\ Needs[m] \subseteq seen
    /\ \A n \in Rivals[m] \cap seen : data[n] # data[m]

-----------------------------------------------------------------------------
(* TransactionCheckQueryset.                                               *)

(* Transaction.approved.last(). *)
LatestApproved == IF approved = << >> THEN None ELSE approved[Len(approved)]

(* The order of the transactions, those of the seed file first, then the   *)
(* approved ones, then the drafts.                                         *)
NotBefore(t, u) ==
    \/ u = None
    \/ t # None /\ ~IsApproved(t)
    \/ t # None /\ IsApproved(t) /\ IsApproved(u) /\ At(approved, t) >= At(approved, u)

Current(c) ==
    \/ NotBefore(c.head, LatestApproved)
    \/ IsApproved(c.transaction) /\ NotBefore(c.head, c.transaction)

SameLatest(c) == c.latest = Latest(ModelsOf(c.transaction))

Fresh(c) ==
    LET now == ModelsOf(c.transaction) IN
    c.count = Cardinality(now) /\ c.latest = Latest(now)

(* A check is out of date with the checks before it in its workbasket.     *)
NotAfter(k, l) ==
    LET t == checks[k].transaction
        u == checks[l].transaction
        w == WorkBasketOf[u]
    IN  /\ WorkBasketOf[t] = w
        /\ \/ At(order[w], t) < At(order[w], u)
           \/ t = u /\ k >= l

RequiresUpdate(l) ==
    \E k \in DOMAIN checks : NotAfter(k, l) /\ ~(Fresh(checks[k]) /\ Current(checks[k]))

(* created_at__gt: no model of the workbasket was saved after it. *)
MadeAfterEdits(c) == c.edited \cap ModelsIn(WorkBasketOf[c.transaction]) = {}

UncheckedOrErrored(w) ==
    {t \in Own(w) : ~ \E k \in DOMAIN checks :
        /\ checks[k].transaction = t
        /\ ~RequiresUpdate(k)
        /\ checks[k].completed /\ checks[k].successful
        /\ MadeAfterEdits(checks[k])}

WithoutChecks(rows, gone(_)) ==
    [k \in {l \in DOMAIN rows : ~gone(rows[l])} |-> rows[k]]

DeleteChecks(w) ==
    LET gone(c) == WorkBasketOf[c.transaction] = w IN
    checks' = WithoutChecks(checks, gone)

-----------------------------------------------------------------------------
Init ==
    /\ status = [w \in WorkBasket |-> "EDITING"]
    /\ order \in [WorkBasket -> {s \in UNION {[1..n -> Created] : n \in 0..Cardinality(Created)} :
                                    \A i, j \in DOMAIN s : i < j => s[i] # s[j]}]
    /\ \A w \in WorkBasket : Own(w) = {t \in Created : WorkBasketOf[t] = w}
    /\ approved = << >>
    /\ models = {m \in Model : TxOf[m] \in Created}
    /\ data = [m \in Model |-> CHOOSE d \in Data : TRUE]
    /\ checks = << >>
    /\ sent = [w \in WorkBasket |-> 0]
    /\ pc = [s \in Session |-> "idle"] /\ todo = [s \in Session |-> << >>]
    /\ check = [s \in Session |-> 0] /\ head = [s \in Session |-> None]
    /\ toCheck = [s \in Session |-> {}] /\ verdict = [s \in Session |-> None]
    /\ owed = [w \in WorkBasket |-> {}] /\ queueing = {} /\ gaps = {}
    /\ requests = 0 /\ changes = 0

Change ==
    /\ changes < MaxChanges
    /\ changes' = changes + 1
    /\ UNCHANGED requests

(* What happens to a workbasket, or to the head, between the two steps of  *)
(* a request that queues it goes unseen.                                   *)
Noting(noted, w) ==
    gaps' = gaps \cup noted \cup (IF w \in queueing THEN {"queued late"} ELSE {})

Saved(S) ==
    [k \in DOMAIN checks |->
        IF WorkBasketOf[checks[k].transaction] \in {WorkBasketOf[TxOf[m]] : m \in S}
        THEN [checks[k] EXCEPT !.edited = @ \cup S] ELSE checks[k]]

-----------------------------------------------------------------------------
(* Users edit a workbasket.                                                *)

(* An object created in this workbasket is edited in place; an edit that   *)
(* makes no difference to any rule is left out.                            *)
Edit(m, d) ==
    LET w == WorkBasketOf[TxOf[m]] IN
    /\ m \in models /\ status[w] = "EDITING"
    /\ Rivals[m] # {} /\ d # data[m]
    /\ data' = [data EXCEPT ![m] = d]
    /\ checks' = Saved({m})
    /\ Noting({}, w)
    /\ Change
    /\ UNCHANGED <<status, order, approved, models, sent, worker, owed, queueing>>

(* new_transaction, and the models in it. *)
Create(t, d) ==
    LET w   == WorkBasketOf[t]
        new == {m \in Model : TxOf[m] = t}
    IN  /\ t \notin Created /\ t \notin Existing
        /\ \A s \in Session : t \notin Items(todo[s])
        /\ status[w] = "EDITING"
        /\ order' = [order EXCEPT ![w] = Append(@, t)]
        /\ models' = models \cup new
        /\ data' = [m \in Model |-> IF m \in new THEN d ELSE data[m]]
        /\ checks' = Saved(new)
        /\ Noting({}, w)
        /\ Change
        /\ UNCHANGED <<status, approved, sent, worker, owed, queueing>>

GoneWithHead(c, purged) == c.head \in purged

GoneWith(c, purged) == {c.transaction, c.head} \cap purged # {}

(* Checks of later transactions of a workbasket are left, but none of the  *)
(* one that was changed: nothing shows that they are out of date.          *)
Unnoticed(rows, w, t) ==
    /\ \E k \in DOMAIN rows :
        /\ WorkBasketOf[rows[k].transaction] = w
        /\ At(order[w], rows[k].transaction) > At(order[w], t)
    /\ ~ \E k \in DOMAIN rows : rows[k].transaction = t

(* A check that shows it goes with its head, whichever workbasket that was *)
(* in, and others of its own workbasket are left.                          *)
Uncovered(rows) ==
    \E k \in DOMAIN checks \ DOMAIN rows, l \in DOMAIN rows :
        /\ WorkBasketOf[checks[k].transaction] = WorkBasketOf[rows[l].transaction]
        /\ ~Fresh(checks[k])

(* WorkBasketChangesDelete: rows of TransactionCheck go with their latest  *)
(* model, and of TrackedModelCheck with their model.  The view does not    *)
(* look at the status: a confirmation page may have been left open.  The   *)
(* transactions that it leaves empty, with the checks of them or that have *)
(* them for a head, follow, if the workbasket is EDITING when that is read.*)
Remove(m) ==
    LET t == TxOf[m]
        w == WorkBasketOf[t]
        gone(c) == c.latest = m
        kept == WithoutChecks(checks, gone)
        busy == \E s \in Session :
                    pc[s] \in {"models", "load", "save"} /\ Head(todo[s]) = t
    IN  /\ m \in models
        /\ models' = models \ {m}
        /\ checks' = [k \in DOMAIN kept |->
                [kept[k] EXCEPT !.checked = @ \ {m}, !.failed = @ \ {m}]]
        /\ owed' = [owed EXCEPT ![w] = @ \cup {"purge"}]
        /\ Noting((IF Unnoticed(kept, w, t) THEN {"removed"} ELSE {}) \cup
                  (IF busy THEN {"removed during check"} ELSE {}) \cup
                  (IF status[w] = "QUEUED" THEN {"removed late"} ELSE {}), w)
        /\ Change
        /\ UNCHANGED <<status, order, approved, data, sent, worker, queueing>>

StartPurge(w) ==
    /\ "purge" \in owed[w]
    /\ owed' = [owed EXCEPT ![w] = (@ \ {"purge"}) \cup
            (IF status[w] = "EDITING" THEN {"purging"} ELSE {})]
    /\ UNCHANGED <<tariff, checks, sent, worker, queueing, gaps, counters>>

PurgeEmptyTransactions(w) ==
    LET empty   == {t \in Own(w) : ModelsOf(t) = {}}
        gone(c) == GoneWith(c, empty)
        kept == WithoutChecks(checks, gone)
        rest(s) == SelectSeq(s, LAMBDA t : t \notin empty)
    IN  /\ "purging" \in owed[w]
        /\ order' = [order EXCEPT ![w] = rest(@)]
        /\ approved' = rest(approved)
        /\ checks' = kept
        /\ owed' = [owed EXCEPT ![w] = @ \ {"purging"}]
        /\ Noting((IF \E t \in empty : Unnoticed(kept, w, t) THEN {"removed"} ELSE {}) \cup
                  (IF Uncovered(kept) THEN {"head deleted"} ELSE {}), w)
        /\ UNCHANGED <<status, models, data, sent, worker, queueing, counters>>

(* WorkBasketTransactionOrderView, in brief: a transaction goes to the top, *)
(* and the checks are deleted.                                             *)
Reorder(w, t) ==
    /\ t \in Own(w) /\ t # order[w][1] /\ status[w] = "EDITING"
    /\ order' = [order EXCEPT ![w] = <<t>> \o SelectSeq(@, LAMBDA u : u # t)]
    /\ owed' = [owed EXCEPT ![w] = @ \cup {"delete_checks"}]
    /\ Noting({}, w)
    /\ Change
    /\ UNCHANGED <<status, approved, models, data, checks, sent, worker, queueing>>

DeleteOldChecks(w) ==
    /\ "delete_checks" \in owed[w]
    /\ DeleteChecks(w)
    /\ owed' = [owed EXCEPT ![w] = @ \ {"delete_checks"}]
    /\ UNCHANGED <<tariff, sent, worker, queueing, gaps, counters>>

-----------------------------------------------------------------------------
(* WorkBasket.queue asks nothing of a workbasket without transactions, and *)
(* only changes its status.                                                *)
QueueEmpty(w) ==
    /\ status[w] = "EDITING" /\ w \notin queueing
    /\ order[w] = << >>
    /\ status' = [status EXCEPT ![w] = "QUEUED"]
    /\ UNCHANGED <<order, approved, models, data, checks, sent, worker, owed, queueing,
                   gaps, counters>>

(* For another: the look at the checks, which raises ValueError for        *)
(* transactions without any model (created_at__gt=None), and the move to   *)
(* the end of the approved transactions.                                   *)
FindFit(w) ==
    /\ status[w] = "EDITING" /\ w \notin queueing
    /\ ModelsIn(w) # {}
    /\ UncheckedOrErrored(w) = {}
    /\ queueing' = queueing \cup {w}
    /\ gaps' = gaps \cup (IF "delete_checks" \in owed[w] THEN {"reordered"} ELSE {})
    /\ UNCHANGED <<tariff, checks, sent, worker, owed, counters>>

Approve(w) ==
    /\ w \in queueing
    /\ queueing' = queueing \ {w}
    /\ IF order[w] = << >>
       THEN UNCHANGED <<approved, gaps>>
       ELSE /\ approved' = approved \o order[w]
            /\ gaps' = gaps \cup (IF queueing' # {} THEN {"queued late"} ELSE {})
    /\ status' = [status EXCEPT ![w] = "QUEUED"]
    /\ UNCHANGED <<order, models, data, checks, sent, worker, owed, counters>>

(* dequeue, or cds_error and restore: move_to_draft. *)
Dequeue(w) ==
    /\ status[w] = "QUEUED"
    /\ status' = [status EXCEPT ![w] = "EDITING"]
    /\ approved' = SelectSeq(approved, LAMBDA t : t \notin Own(w))
    /\ gaps' = gaps \cup {"dequeued"}
    /\ Change
    /\ UNCHANGED <<order, models, data, checks, sent, worker, owed, queueing>>

-----------------------------------------------------------------------------
(* The view that starts a rule check, and the one that terminates it,      *)
(* which keeps a task from starting but not one at work.                   *)
RunBusinessRules(w) ==
    /\ status[w] = "EDITING"
    /\ requests < MaxRequests /\ requests' = requests + 1
    /\ DeleteChecks(w)
    /\ sent' = [sent EXCEPT ![w] = @ + 1]
    /\ UNCHANGED <<tariff, worker, owed, queueing, gaps, changes>>

TerminateRuleCheck(w) ==
    /\ status[w] = "EDITING"
    /\ DeleteChecks(w)
    /\ \/ sent[w] > 0 /\ sent' = [sent EXCEPT ![w] = @ - 1]
       \/ UNCHANGED sent
    /\ Change
    /\ UNCHANGED <<tariff, worker, owed, queueing, gaps>>

-----------------------------------------------------------------------------
(* call_check_workbasket_sync.                                             *)

Goto(s, label) == pc' = [pc EXCEPT ![s] = label]

Stop(s) ==
    /\ Goto(s, "idle")
    /\ todo' = [todo EXCEPT ![s] = << >>]
    /\ check' = [check EXCEPT ![s] = 0]
    /\ head' = [head EXCEPT ![s] = None]
    /\ toCheck' = [toCheck EXCEPT ![s] = {}]
    /\ verdict' = [verdict EXCEPT ![s] = None]

NextTransaction(s) ==
    IF Len(todo[s]) = 1 THEN Stop(s)
    ELSE /\ Goto(s, "setup")
         /\ todo' = [todo EXCEPT ![s] = Tail(@)]
         /\ check' = [check EXCEPT ![s] = 0]
         /\ head' = [head EXCEPT ![s] = None]
         /\ verdict' = [verdict EXCEPT ![s] = None]
         /\ UNCHANGED toCheck

(* delete_checks, and the list of the transactions. *)
Start(s, w) ==
    /\ pc[s] = "idle"
    /\ sent[w] > 0
    /\ sent' = [sent EXCEPT ![w] = @ - 1]
    /\ DeleteChecks(w)
    /\ IF order[w] = << >> THEN UNCHANGED <<pc, todo>>
       ELSE /\ Goto(s, "setup")
            /\ todo' = [todo EXCEPT ![s] = order[w]]
    /\ UNCHANGED <<tariff, check, head, toCheck, verdict, owed, queueing, gaps, counters>>

(* setup_or_resume_transaction_check: a complete check that is up to date  *)
(* is left alone (get() raises if there are two), an incomplete one is     *)
(* taken up.                                                               *)
UpToDate(t, completed) ==
    {k \in DOMAIN checks :
        /\ checks[k].transaction = t /\ checks[k].head = LatestApproved
        /\ ~RequiresUpdate(k)
        /\ checks[k].completed = completed}

CheckModels(s, k, S) ==
    /\ check' = [check EXCEPT ![s] = k]
    /\ toCheck' = [toCheck EXCEPT ![s] = S]
    /\ Goto(s, IF S = {} THEN "load" ELSE "models")

Setup(s) ==
    LET t == todo[s][1] IN
    /\ pc[s] = "setup"
    /\ \/ Cardinality(UpToDate(t, TRUE)) > 1 /\ Stop(s)
       \/ Cardinality(UpToDate(t, TRUE)) = 1 /\ NextTransaction(s)
       \/ /\ UpToDate(t, TRUE) = {}
          /\ \E k \in UpToDate(t, FALSE) :
                /\ \A l \in UpToDate(t, FALSE) : l =< k
                /\ CheckModels(s, k, ModelsOf(t))
          /\ UNCHANGED <<todo, head, verdict>>
       \/ /\ UpToDate(t, TRUE) = {} /\ UpToDate(t, FALSE) = {}
          /\ head' = [head EXCEPT ![s] = LatestApproved]
          /\ Goto(s, "create")
          /\ UNCHANGED <<todo, check, toCheck, verdict>>
    /\ UNCHANGED <<tariff, checks, sent, owed, queueing, gaps, counters>>

NewRow(t, h) ==
    [transaction |-> t, head |-> h, completed |-> FALSE, successful |-> FALSE,
     count |-> Cardinality(ModelsOf(t)), latest |-> Latest(ModelsOf(t)),
     checked |-> {}, failed |-> {}, edited |-> {}]

(* A primary key that no row has and no worker remembers. *)
FreshKey ==
    LET used == DOMAIN checks \cup {check[s] : s \in Session} \cup {0} IN
    1 + CHOOSE k \in used : \A l \in used : l =< k

Put(k, row) ==
    checks' = [l \in DOMAIN checks \cup {k} |-> IF l = k THEN row ELSE checks[l]]

(* The row refers to the transaction and to the head: both must be there. *)
CreateCheck(s) ==
    LET t == todo[s][1] IN
    /\ pc[s] = "create"
    /\ IF {t, head[s]} \subseteq Existing \cup {None}
       THEN /\ Put(FreshKey, NewRow(t, head[s]))
            /\ CheckModels(s, FreshKey, ModelsOf(t))
            /\ head' = [head EXCEPT ![s] = None]
            /\ UNCHANGED <<todo, verdict>>
       ELSE Stop(s) /\ UNCHANGED checks
    /\ UNCHANGED <<tariff, sent, owed, queueing, gaps, counters>>

(* check_model: the run dies if the model or the check is gone. *)
CheckModel(s) ==
    LET k == check[s]
        m == CHOOSE n \in toCheck[s] : \A l \in toCheck[s] : n =< l
    IN  /\ pc[s] = "models"
        /\ IF m \in models /\ k \in DOMAIN checks
           THEN /\ IF m \in checks[k].checked THEN UNCHANGED checks
                   ELSE checks' = [checks EXCEPT ![k].checked = @ \cup {m},
                            ![k].failed = IF Passes(m) THEN @ ELSE @ \cup {m}]
                /\ toCheck' = [toCheck EXCEPT ![s] = @ \ {m}]
                /\ Goto(s, IF toCheck[s] = {m} THEN "load" ELSE "models")
                /\ UNCHANGED <<todo, check, head, verdict>>
           ELSE Stop(s) /\ UNCHANGED checks
        /\ UNCHANGED <<tariff, sent, owed, queueing, gaps, counters>>

(* is_transaction_check_complete reads the check and its results ... *)
LoadCheck(s) ==
    LET k == check[s]
        done == ModelsOf(todo[s][1]) \subseteq checks[k].checked
    IN  /\ pc[s] = "load"
        /\ IF k \in DOMAIN checks
           THEN /\ verdict' = [verdict EXCEPT ![s] =
                        [head |-> checks[k].head, completed |-> done,
                         successful |-> done /\ checks[k].failed = {}]]
                /\ Goto(s, "save")
                /\ UNCHANGED <<todo, check, head, toCheck>>
           ELSE Stop(s)
        /\ UNCHANGED <<tariff, checks, sent, owed, queueing, gaps, counters>>

(* ... and saves it.  TransactionCheck.save looks at the models again, and *)
(* a row that is gone by now is inserted anew, created now.                *)
SaveCheck(s) ==
    LET k == check[s]
        t == todo[s][1]
        lost == k \notin DOMAIN checks
        row == IF lost THEN NewRow(t, verdict[s].head) ELSE checks[k]
    IN  /\ pc[s] = "save"
        /\ IF {t, verdict[s].head} \subseteq Existing \cup {None}
           THEN /\ Put(k, [row EXCEPT !.completed = verdict[s].completed,
                                      !.successful = verdict[s].successful,
                                      !.count = Cardinality(ModelsOf(t)),
                                      !.latest = Latest(ModelsOf(t))])
                /\ gaps' = gaps \cup (IF lost THEN {"reinserted"} ELSE {})
                /\ NextTransaction(s)
           ELSE Stop(s) /\ UNCHANGED <<checks, gaps>>
        /\ UNCHANGED <<tariff, sent, owed, queueing, counters>>

Step(s) ==
    \/ \E w \in WorkBasket : Start(s, w)
    \/ Setup(s) \/ CreateCheck(s) \/ CheckModel(s) \/ LoadCheck(s) \/ SaveCheck(s)

Next ==
    /\ gaps \subseteq Explored
    /\ \/ \E m \in Model : Remove(m) \/ \E d \in Data : Edit(m, d)
       \/ \E t \in Tx, d \in Data : Create(t, d)
       \/ \E w \in WorkBasket :
            \/ StartPurge(w) \/ PurgeEmptyTransactions(w) \/ DeleteOldChecks(w)
            \/ QueueEmpty(w) \/ FindFit(w) \/ Approve(w) \/ Dequeue(w)
            \/ RunBusinessRules(w) \/ TerminateRuleCheck(w)
            \/ \E t \in Tx : Reorder(w, t)
       \/ \E s \in Session : Step(s)

(* No fairness: a worker may die, which is to stop between any two steps.  *)
Spec == Init /\ [][Next]_vars

-----------------------------------------------------------------------------
(* Properties.                                                             *)

RulesHold(w) == \A m \in ModelsIn(w) : Passes(m)

QueuesUnfit(w) ==
    status[w] = "EDITING" /\ status'[w] = "QUEUED" /\ ~RulesHold(w)'

(* "Transactions have not yet been fully checked or contain errors": a     *)
(* workbasket that is queued passes the rules, among what is approved by   *)
(* then, whatever its users and those of other workbaskets have changed    *)
(* since and during its checks, as long as none of the known gaps is met.  *)
QueuedPassesRules ==
    [][\A w \in WorkBasket : gaps' = {} => ~QueuesUnfit(w)]_vars

(* "current" means no new transactions have been approved since the check  *)
(* was carried out: also where the head of a check has been withdrawn.     *)
DequeuedIsNoticed ==
    [][\A w \in WorkBasket : gaps' \subseteq {"dequeued"} => ~QueuesUnfit(w)]_vars

(* "If a TransactionCheck on an earlier transaction is stale", that "could *)
(* also invalidate any checks of any subsequent transactions": also where  *)
(* the stale check has been deleted with its head.                         *)
StaleIsNoticed ==
    [][\A w \in WorkBasket : gaps' \subseteq {"head deleted"} => ~QueuesUnfit(w)]_vars
=============================================================================
