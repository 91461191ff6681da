--------------------------- MODULE BulkProcessing ---------------------------
(***************************************************************************)
(* Bulk creation and editing of measures.  The last page of a wizard saves *)
(* a MeasuresBulkCreator or MeasuresBulkEditor, a job, and sends a Celery  *)
(* task that writes its measures into the workbasket.  Meanwhile users     *)
(* queue, withdraw or delete the workbasket, and superusers terminate      *)
(* jobs, which revokes the task and marks the job CANCELLED.               *)
(*                                                                         *)
(* Request and task each load the job's row once and save all its columns  *)
(* later, without a lock: an instance that is saved late undoes what was   *)
(* saved in between.                                                       *)
(***************************************************************************)
EXTENDS Naturals, FiniteSets

CONSTANTS
    Creator, Editor,    \* jobs: MeasuresBulkCreator, MeasuresBulkEditor
    WorkBasket,
    WorkBasketOf,       \* job.workbasket
    Key,                \* job.pk: each of the two tables counts for itself
    Worker,             \* processes that serve the queue bulk-create
    Superuser,
    None,               \* no row, NULL
    MaxDeaths           \* bound: workers that die

Job == Creator \cup Editor

ASSUME BulkAssumption ==
    /\ Creator \cap Editor = {}
    /\ WorkBasketOf \in [Job -> WorkBasket]
    /\ \A j, k \in Job : Key[j] = Key[k] /\ j # k => (j \in Creator <=> k \in Editor)
    /\ None \notin WorkBasket \cup Job
    /\ MaxDeaths \in Nat

VARIABLES
    row,            \* each job's row
    status,         \* workbasket.status
    packaged,       \* workbaskets with a PackagedWorkBasket
    made,           \* where the measures of a job are: a partition, or "NONE"
    sent,           \* tasks in the broker or held for their countdown
    revoked,        \* tasks that the workers were told to revoke
    submitting,     \* requests that found their workbasket EDITING, before the row
    unsaved,        \* requests that have sent a task and not saved its ID yet
    pc, task, instance, seen,   \* each worker: its place in the code, its job, the
                    \*   job as it loaded it, and the status of the workbasket
    cancelling,     \* each superuser: the job in hand, as the request loaded it
    deaths,
    chosen,         \* history: jobs that a superuser meant to terminate
    withdrawn,      \* history: jobs cancelled before any worker took their task
    putBack,        \* history: jobs put back into a queued state by a late save
    hasty           \* history: workbaskets queued before all their jobs had ended,
                    \*   those being submitted included

tables == <<row, status, packaged, made>>
broker == <<sent, revoked>>
worker == <<pc, task, instance, seen>>
request == <<submitting, unsaved, cancelling>>
history == <<chosen, withdrawn, putBack, hasty>>
vars == <<tables, broker, worker, request, deaths, history>>

QueuedStates == {"AWAITING_PROCESSING", "CURRENTLY_PROCESSING"}
DoneProcessingStates == {"SUCCESSFULLY_PROCESSED", "FAILED_PROCESSING"}
ProcessingState == QueuedStates \cup DoneProcessingStates \cup {"CANCELLED"}

BulkProcessor ==
    [processing_state : ProcessingState, task_id : BOOLEAN,
     workbasket : WorkBasket \cup {None}]

ASSUME RowAssumption == None \notin BulkProcessor

JobsOf(w) == {j \in Job : row[j] # None /\ row[j].workbasket = w}
Written == {j \in Job : made[j] # "NONE"}
Contents(w) == {j \in Written : WorkBasketOf[j] = w}

TypeOK ==
    /\ row \in [Job -> BulkProcessor \cup {None}]
    /\ status \in [WorkBasket -> {"EDITING", "QUEUED", "ARCHIVED", "DELETED"}]
    /\ \A j \in Job : row[j] # None /\ row[j].workbasket # None
            => row[j].workbasket = WorkBasketOf[j] /\ status[WorkBasketOf[j]] # "DELETED"
    /\ packaged \subseteq WorkBasket
    /\ made \in [Job -> {"NONE", "DRAFT", "APPROVED"}]
    /\ \A j \in Job : row[j] = None => j \notin sent \cup unsaved \cup Written
    /\ submitting \subseteq {j \in Job : row[j] = None}
    /\ pc \in [Worker -> {"idle", "begun", "creating", "writing", "failed", "created"}]
    /\ \A w \in Worker : pc[w] # "idle" =>
            task[w] \in Job \ sent /\ instance[w] \in BulkProcessor
    /\ \A w, v \in Worker : pc[w] # "idle" /\ task[w] = task[v] => w = v
    /\ deaths \in 0..MaxDeaths

-----------------------------------------------------------------------------
Init ==
    /\ row = [j \in Job |-> None]
    /\ status = [w \in WorkBasket |-> "EDITING"] /\ packaged = {}
    /\ made = [j \in Job |-> "NONE"]
    /\ sent = {} /\ revoked = {} /\ submitting = {} /\ unsaved = {}
    /\ pc = [w \in Worker |-> "idle"] /\ task = [w \in Worker |-> None]
    /\ instance = [w \in Worker |-> None] /\ seen = [w \in Worker |-> None]
    /\ cancelling = [u \in Superuser |-> None]
    /\ deaths = 0
    /\ chosen = {} /\ withdrawn = {} /\ putBack = {} /\ hasty = {}

(* The foreign key of a row that is saved must be NULL or refer to a       *)
(* workbasket that exists; IntegrityError otherwise.                       *)
CanSave(copy) == copy.workbasket = None \/ status[copy.workbasket] # "DELETED"

Saved(j, copy) == row' = [row EXCEPT ![j] = copy]
InState(copy, state) == [copy EXCEPT !.processing_state = state]

(* A save that makes a job wait or work that no longer did.                *)
PutsBack(j) == row[j].processing_state # "AWAITING_PROCESSING"

-----------------------------------------------------------------------------
(* A user submits the wizard.  Whether the workbasket is EDITING is asked  *)
(* when the request starts, of the instance that it loads; the job is      *)
(* created later from that instance, and schedule_task sends the task and  *)
(* then saves the instance that create returned.                           *)
NewRow(j) == [processing_state |-> "AWAITING_PROCESSING", task_id |-> FALSE,
              workbasket |-> WorkBasketOf[j]]

StartSubmit(j) ==
    /\ row[j] = None /\ j \notin submitting
    /\ status[WorkBasketOf[j]] = "EDITING"
    /\ submitting' = submitting \cup {j}
    /\ UNCHANGED <<tables, broker, worker, unsaved, cancelling, deaths, history>>

Submit(j) ==
    /\ j \in submitting
    /\ submitting' = submitting \ {j}
    /\ IF CanSave(NewRow(j))
       THEN /\ Saved(j, NewRow(j))
            /\ sent' = sent \cup {j}
            /\ unsaved' = unsaved \cup {j}
       ELSE UNCHANGED <<row, sent, unsaved>>
    /\ UNCHANGED <<status, packaged, made, revoked, worker, cancelling, deaths, history>>

SaveTaskId(j) ==
    /\ j \in unsaved
    /\ unsaved' = unsaved \ {j}
    /\ IF CanSave(NewRow(j))
       THEN /\ Saved(j, [NewRow(j) EXCEPT !.task_id = TRUE])
            /\ putBack' = IF PutsBack(j) THEN putBack \cup {j} ELSE putBack
       ELSE UNCHANGED <<row, putBack>>
    /\ UNCHANGED <<status, packaged, made, broker, worker, submitting, cancelling,
                   deaths, chosen, withdrawn, hasty>>

-----------------------------------------------------------------------------
(* The workbasket.  Nobody asks whether a job is under way.  save_drafts   *)
(* and move_to_draft raise where transactions of the other kind are found. *)
Ended(j) == row[j].processing_state \in DoneProcessingStates \/ j \in withdrawn

Queue(w) ==
    /\ status[w] = "EDITING"
    /\ \A j \in Contents(w) : made[j] = "DRAFT"
    /\ status' = [status EXCEPT ![w] = "QUEUED"]
    /\ packaged' = packaged \cup {w}
    /\ made' = [j \in Job |-> IF j \in Contents(w) THEN "APPROVED" ELSE made[j]]
    /\ hasty' = IF /\ \A j \in JobsOf(w) : Ended(j)
                   /\ \A j \in submitting : WorkBasketOf[j] # w
                THEN hasty ELSE hasty \cup {w}
    /\ UNCHANGED <<row, broker, worker, request, deaths, chosen, withdrawn, putBack>>

Dequeue(w) ==
    /\ status[w] = "QUEUED"
    /\ \A j \in Contents(w) : made[j] = "APPROVED"
    /\ status' = [status EXCEPT ![w] = "EDITING"]
    /\ made' = [j \in Job |-> IF j \in Contents(w) THEN "DRAFT" ELSE made[j]]
    /\ UNCHANGED <<row, packaged, broker, worker, request, deaths, history>>

CancelledOnly(j) ==
    [row[j] EXCEPT !.processing_state = IF @ \in QueuedStates THEN "CANCELLED" ELSE @]

(* REVOKE_TASKS_AND_SET_NULL. *)
RevokedAndNull(j) ==
    [row[j] EXCEPT !.workbasket = None,
                   !.processing_state = IF @ \in QueuedStates THEN "CANCELLED" ELSE @]

(* The form demands that the workbasket is empty and does not look at its  *)
(* status; one that has been in the packaging queue is archived instead,   *)
(* which must be EDITING.  The statements of the request are one step.     *)
Delete(w) ==
    /\ status[w] # "DELETED"
    /\ Contents(w) = {}
    /\ IF w \in packaged
       THEN /\ status[w] = "EDITING"
            /\ status' = [status EXCEPT ![w] = "ARCHIVED"]
            /\ UNCHANGED <<row, revoked>>
       ELSE /\ status' = [status EXCEPT ![w] = "DELETED"]
            /\ row' = [j \in Job |-> IF j \in JobsOf(w) THEN RevokedAndNull(j) ELSE row[j]]
            /\ revoked' = revoked \cup {j \in JobsOf(w) : row[j].task_id}
    /\ UNCHANGED <<packaged, made, sent, worker, request, deaths, history>>

-----------------------------------------------------------------------------
(* CancelBulkProcessorTask.  Both queue pages list their jobs with the     *)
(* same link, and the view looks its key up among the creators.            *)
TargetOf(j) == {k \in Creator : Key[k] = Key[j] /\ row[k] # None}

Terminate(u, j) ==
    /\ cancelling[u] = None
    /\ row[j] # None /\ row[j].processing_state \in QueuedStates
    /\ \E k \in TargetOf(j) :
        /\ revoked' = IF row[k].task_id THEN revoked \cup {k} ELSE revoked
        /\ cancelling' = [cancelling EXCEPT ![u] = [job |-> k, copy |-> row[k]]]
    /\ chosen' = chosen \cup {j}
    /\ UNCHANGED <<tables, sent, worker, submitting, unsaved, deaths, withdrawn, putBack,
                   hasty>>

CancellableOnlyWaiting == {"AWAITING_PROCESSING"}

Cancellable == QueuedStates

(* ... and saves the instance, if that was in a queued state when loaded.  *)
SaveCancelled(u) ==
    LET j == cancelling[u].job
        copy == cancelling[u].copy
    IN  /\ cancelling[u] # None
        /\ cancelling' = [cancelling EXCEPT ![u] = None]
        /\ IF copy.processing_state \in Cancellable /\ CanSave(copy)
           THEN /\ Saved(j, InState(copy, "CANCELLED"))
                /\ withdrawn' = IF j \in sent \ unsaved THEN withdrawn \cup {j} ELSE withdrawn
           ELSE UNCHANGED <<row, withdrawn>>
        /\ UNCHANGED <<status, packaged, made, broker, worker, submitting, unsaved, deaths,
                       chosen, putBack, hasty>>

-----------------------------------------------------------------------------
(* bulk_create_measures and bulk_edit_measures.                            *)

Goto(w, label) == pc' = [pc EXCEPT ![w] = label]

End(w) ==
    /\ Goto(w, "idle")
    /\ task' = [task EXCEPT ![w] = None]
    /\ instance' = [instance EXCEPT ![w] = None]
    /\ seen' = [seen EXCEPT ![w] = None]

CanBeginUnfinished(copy) == copy.processing_state \notin DoneProcessingStates

CanBegin(copy) == copy.processing_state = "AWAITING_PROCESSING"

(* objects.get and begin_processing, which raises in any other state.      *)
Take(w, j) ==
    /\ pc[w] = "idle"
    /\ j \in sent
    /\ sent' = sent \ {j}
    /\ IF CanBegin(row[j])
       THEN /\ Goto(w, "begun")
            /\ task' = [task EXCEPT ![w] = j]
            /\ instance' = [instance EXCEPT ![w] = InState(row[j], "CURRENTLY_PROCESSING")]
       ELSE UNCHANGED <<pc, task, instance>>
    /\ UNCHANGED <<tables, revoked, seen, request, deaths, history>>

SaveBegun(w) ==
    LET j == task[w] IN
    /\ pc[w] = "begun"
    /\ IF CanSave(instance[w])
       THEN /\ Saved(j, instance[w])
            /\ putBack' = IF PutsBack(j) THEN putBack \cup {j} ELSE putBack
            /\ Goto(w, "creating")
            /\ UNCHANGED <<task, instance, seen>>
       ELSE End(w) /\ UNCHANGED <<row, putBack>>
    /\ UNCHANGED <<status, packaged, made, broker, request, deaths,
                   chosen, withdrawn, hasty>>

(* create_measures or edit_measures, one database transaction: the         *)
(* workbasket is read first.  Anything that raises leads to failure.       *)
ReadWorkbasket(w) ==
    /\ pc[w] = "creating"
    /\ IF status[WorkBasketOf[task[w]]] = "DELETED"
       THEN Goto(w, "failed") /\ UNCHANGED seen
       ELSE /\ Goto(w, "writing")
            /\ seen' = [seen EXCEPT ![w] = status[WorkBasketOf[task[w]]]]
    /\ UNCHANGED <<tables, broker, task, instance, request, deaths, history>>

(* new_transaction picks the partition by the status that was read.        *)
CommitMeasures(w) ==
    LET j == task[w] IN
    /\ pc[w] = "writing"
    /\ IF status[WorkBasketOf[j]] = "DELETED"
       THEN Goto(w, "failed") /\ UNCHANGED made
       ELSE /\ made' = [made EXCEPT ![j] = IF seen[w] = "QUEUED" THEN "APPROVED" ELSE "DRAFT"]
            /\ Goto(w, "created")
    /\ UNCHANGED <<row, status, packaged, broker, task, instance, seen, request,
                   deaths, history>>

CreateRaises(w) ==
    /\ pc[w] = "writing"
    /\ Goto(w, "failed")
    /\ UNCHANGED <<tables, broker, task, instance, seen, request, deaths, history>>

SaveOutcome(w, state) ==
    /\ row' = IF CanSave(instance[w])
              THEN [row EXCEPT ![task[w]] = InState(instance[w], state)] ELSE row
    /\ End(w)
    /\ UNCHANGED <<status, packaged, made, broker, request, deaths, history>>

SucceededEarly(w) ==
    pc[w] \in {"writing", "created"} /\ SaveOutcome(w, "SUCCESSFULLY_PROCESSED")

ProcessingSucceeded(w) == pc[w] = "created" /\ SaveOutcome(w, "SUCCESSFULLY_PROCESSED")

ProcessingFailed(w) == pc[w] = "failed" /\ SaveOutcome(w, "FAILED_PROCESSING")

(* A worker that was told in time drops a revoked task, or kills the       *)
(* process that runs it; an open database transaction is rolled back.      *)
Discard(j) ==
    /\ j \in sent \cap revoked
    /\ sent' = sent \ {j}
    /\ UNCHANGED <<tables, revoked, worker, request, deaths, history>>

Kill(w) ==
    /\ pc[w] # "idle"
    /\ task[w] \in revoked
    /\ End(w)
    /\ UNCHANGED <<tables, broker, request, deaths, history>>

Die(w) ==
    /\ pc[w] # "idle"
    /\ deaths < MaxDeaths /\ deaths' = deaths + 1
    /\ End(w)
    /\ UNCHANGED <<tables, broker, request, history>>

Step(w) ==
    \/ \E j \in Job : Take(w, j)
    \/ SaveBegun(w) \/ ReadWorkbasket(w) \/ CommitMeasures(w) \/ CreateRaises(w)
    \/ ProcessingSucceeded(w) \/ ProcessingFailed(w)

Next ==
    \/ \E j \in Job : StartSubmit(j) \/ Submit(j) \/ SaveTaskId(j) \/ Discard(j)
    \/ \E w \in WorkBasket : Queue(w) \/ Dequeue(w) \/ Delete(w)
    \/ \E u \in Superuser : SaveCancelled(u) \/ \E j \in Job : Terminate(u, j)
    \/ \E w \in Worker : Step(w) \/ Kill(w) \/ Die(w)

Spec == Init /\ [][Next]_vars

(* Workers take tasks and run them, and a request that terminates a job    *)
(* goes on to its end.                                                     *)
FairSpec ==
    /\ Spec
    /\ \A w \in Worker : WF_vars(Step(w))
    /\ \A u \in Superuser : WF_vars(SaveCancelled(u))

-----------------------------------------------------------------------------
(* Properties.                                                             *)

(* "a task that has completed its processing with either a successful or   *)
(* failed outcome": SUCCESSFULLY_PROCESSED says that the measures are      *)
(* there, FAILED_PROCESSING that none is and none will be, and so does a   *)
(* cancellation before a worker took the task, whatever is saved late.     *)
OutcomeIsTrue ==
    \A j \in Job : row[j] # None =>
        /\ row[j].processing_state = "SUCCESSFULLY_PROCESSED" => j \in Written
        /\ row[j].processing_state = "FAILED_PROCESSING" => j \notin Written
        /\ j \in withdrawn => j \notin Written

(* What save_drafts and move_to_draft demand: the measures of a workbasket *)
(* are approved exactly while it is QUEUED.  It suffices to queue one only *)
(* after the outcome of all its jobs is on record, and while nobody is     *)
(* submitting another.                                                     *)
PartitionKept ==
    \A j \in Written : WorkBasketOf[j] \notin hasty =>
        (made[j] = "APPROVED" <=> status[WorkBasketOf[j]] = "QUEUED")

(* ... which does not suffice for a job that is merely CANCELLED, and      *)
(* which the code does not ask for.                                        *)
NothingEntersQueued ==
    \A j \in Written : made[j] = "APPROVED" <=> status[WorkBasketOf[j]] = "QUEUED"

(* Every job ends: none stays for ever in a queued state, terminated or    *)
(* not, its workbasket deleted or not, unless a worker dies or a late save *)
(* puts it back there.                                                     *)
EveryJobEnds ==
    \A j \in Job :
        [](deaths = 0 /\ j \notin putBack) =>
            (row[j] # None ~> row[j] # None /\ row[j].processing_state \notin QueuedStates)

(* "After termination, check the process status in the measure process     *)
(* queue to confirm": a job that is CANCELLED, and that no worker has in   *)
(* hand any more, has made no measures.                                    *)
CancelledIsConfirmed ==
    \A j \in Job :
        row[j] # None /\ row[j].processing_state = "CANCELLED" /\ (\A w \in Worker : task[w] # j)
            => j \notin Written

(* A job is CANCELLED because somebody terminated it or deleted its        *)
(* workbasket.                                                             *)
CancelledOnPurpose ==
    \A j \in Job : row[j] # None /\ row[j].processing_state = "CANCELLED"
        => j \in chosen \/ row[j].workbasket = None
=============================================================================
