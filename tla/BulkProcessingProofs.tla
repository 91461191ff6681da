------------------------ MODULE BulkProcessingProofs ------------------------
(***************************************************************************)
(* Theorems about BulkProcessing, for any jobs, workbaskets, workers and   *)
(* superusers, and any number of deaths.                                   *)
(***************************************************************************)
EXTENDS BulkProcessing, TLAPS

-----------------------------------------------------------------------------
(* The inductive invariant.                                                *)

(* The variables of the broker, the workers and the superusers. *)
Typing ==
    /\ sent \subseteq Job /\ unsaved \subseteq Job /\ withdrawn \subseteq Job
    /\ task \in [Worker -> Job \cup {None}]
    /\ \A w \in Worker : pc[w] = "idle" => task[w] = None
    /\ instance \in [Worker -> BulkProcessor \cup {None}]
    /\ seen \in [Worker -> {"EDITING", "QUEUED", "ARCHIVED", "DELETED", None}]
    /\ cancelling \in [Superuser -> [job : Job, copy : BulkProcessor] \cup {None}]

Holds(w, j) == pc[w] # "idle" /\ task[w] = j

(* A row, or an instance of it that may still be saved, refers to the      *)
(* workbasket of its job, as long as that exists.                          *)
Refers(copy, j) ==
    /\ copy.workbasket \in {WorkBasketOf[j], None}
    /\ status[WorkBasketOf[j]] # "DELETED" => copy.workbasket = WorkBasketOf[j]

ReferencesKept ==
    /\ \A j \in Job : row[j] # None => Refers(row[j], j)
    /\ \A w \in Worker : pc[w] # "idle" =>
            row[task[w]] # None /\ Refers(instance[w], task[w])
    /\ \A u \in Superuser : cancelling[u] # None =>
            row[cancelling[u].job] # None /\ Refers(cancelling[u].copy, cancelling[u].job)

(* How far a worker has come says whether the measures are there, and what *)
(* it will save while it works says that it works.                         *)
WorkerKnows ==
    /\ \A j \in sent : j \notin Written
    /\ \A w \in Worker : pc[w] # "idle" =>
        /\ instance[w].processing_state = "CURRENTLY_PROCESSING"
        /\ pc[w] = "created" <=> task[w] \in Written

(* Who has ended, or was cancelled in time, will not be worked on again.   *)
EndedForGood ==
    \A j \in Job :
        /\ row[j] # None /\ row[j].processing_state \in DoneProcessingStates =>
            j \notin sent /\ \A w \in Worker : ~Holds(w, j)
        /\ j \in withdrawn =>
            /\ row[j] # None /\ row[j].processing_state = "CANCELLED"
            /\ j \notin unsaved
            /\ \A w \in Worker : ~Holds(w, j)

(* A workbasket for which a job is submitted, waits or works can only be   *)
(* QUEUED in haste.                                                        *)
QueuedInHaste ==
    /\ \A j \in submitting : WorkBasketOf[j] \notin hasty => status[WorkBasketOf[j]] # "QUEUED"
    /\ \A j \in sent : j \notin withdrawn /\ WorkBasketOf[j] \notin hasty =>
            status[WorkBasketOf[j]] # "QUEUED"
    /\ \A w \in Worker : pc[w] # "idle" /\ WorkBasketOf[task[w]] \notin hasty =>
        /\ status[WorkBasketOf[task[w]]] # "QUEUED"
        /\ pc[w] = "writing" => seen[w] # "QUEUED"

IInv ==
    /\ TypeOK /\ Typing
    /\ ReferencesKept /\ WorkerKnows /\ EndedForGood /\ QueuedInHaste
    /\ OutcomeIsTrue /\ PartitionKept

-----------------------------------------------------------------------------
(* Rows.                                                                   *)

(* What the operators on a job's row return, and that none is None. *)
LEMMA RowType ==
    ASSUME NEW copy \in BulkProcessor
    PROVE  /\ copy # None
           /\ copy.processing_state \in ProcessingState
           /\ copy.workbasket \in WorkBasket \cup {None}
           /\ \A s \in ProcessingState :
                /\ InState(copy, s) \in BulkProcessor
                /\ InState(copy, s).processing_state = s
                /\ InState(copy, s).workbasket = copy.workbasket
BY RowAssumption DEF BulkProcessor, InState

(* The row of a new job, before and after its task_id is saved. *)
LEMMA NewRowType ==
    ASSUME NEW j \in Job
    PROVE  LET new == [NewRow(j) EXCEPT !.task_id = TRUE]
           IN  /\ NewRow(j) \in BulkProcessor /\ NewRow(j) # None
               /\ NewRow(j).processing_state = "AWAITING_PROCESSING"
               /\ NewRow(j).workbasket = WorkBasketOf[j]
               /\ new \in BulkProcessor /\ new # None
               /\ new.processing_state = "AWAITING_PROCESSING"
               /\ new.workbasket = WorkBasketOf[j]
<1> DEFINE new == [NewRow(j) EXCEPT !.task_id = TRUE]
<1>1. /\ NewRow(j) \in BulkProcessor
      /\ NewRow(j).processing_state = "AWAITING_PROCESSING"
      /\ NewRow(j).workbasket = WorkBasketOf[j]
      /\ new \in BulkProcessor
      /\ new.processing_state = "AWAITING_PROCESSING"
      /\ new.workbasket = WorkBasketOf[j]
    BY BulkAssumption DEF BulkProcessor, NewRow, ProcessingState, QueuedStates
<1> HIDE DEF new
<1>2. NewRow(j) # None /\ new # None
    BY <1>1, RowAssumption
<1> QED
    BY <1>1, <1>2 DEF new

(* What the deletion of its workbasket makes of a job. *)
LEMMA RevokedType ==
    ASSUME NEW j \in Job, row[j] \in BulkProcessor
    PROVE  /\ RevokedAndNull(j) \in BulkProcessor
           /\ RevokedAndNull(j).workbasket = None
           /\ RevokedAndNull(j).processing_state =
                IF row[j].processing_state \in QueuedStates THEN "CANCELLED"
                ELSE row[j].processing_state
BY DEF BulkProcessor, RevokedAndNull, ProcessingState

(* The states of a job by name. *)
LEMMA States ==
    /\ ProcessingState = {"AWAITING_PROCESSING", "CURRENTLY_PROCESSING",
                          "SUCCESSFULLY_PROCESSED", "FAILED_PROCESSING", "CANCELLED"}
    /\ QueuedStates = {"AWAITING_PROCESSING", "CURRENTLY_PROCESSING"}
    /\ DoneProcessingStates = {"SUCCESSFULLY_PROCESSED", "FAILED_PROCESSING"}
BY DEF ProcessingState, QueuedStates, DoneProcessingStates

-----------------------------------------------------------------------------
(* The inductive invariant holds at first and is kept by every step.       *)

(* No job, every workbasket EDITING. *)
LEMMA InitIInv == Init => IInv
BY BulkAssumption, RowAssumption
   DEF Init, IInv, TypeOK, Typing, ReferencesKept, WorkerKnows,
   EndedForGood, QueuedInHaste, OutcomeIsTrue, PartitionKept, Holds, Written

(* Every step keeps the types, and the workbasket that a row refers to:    *)
(* CanSave stops a save whose workbasket was deleted, and deletion         *)
(* detaches the jobs.                                                      *)
LEMMA TypeStep ==
    ASSUME TypeOK, Typing, ReferencesKept, [Next]_vars
    PROVE  TypeOK' /\ Typing'
<1> USE BulkAssumption, RowAssumption
<1> USE DEF TypeOK, Typing, tables, broker, worker, request, history, Written
<1>1. ASSUME NEW j \in Job, Submit(j)
      PROVE  TypeOK' /\ Typing'
    <2>1. CASE CanSave(NewRow(j))
        <3>1. /\ row' = [row EXCEPT ![j] = NewRow(j)]
              /\ NewRow(j) \in BulkProcessor
              /\ NewRow(j) # None
              /\ NewRow(j).workbasket = WorkBasketOf[j]
            BY <1>1, <2>1, NewRowType DEF Submit, Saved
        <3>2. status[WorkBasketOf[j]] # "DELETED"
            BY <2>1, <3>1 DEF CanSave
        <3>3. \A w \in Worker : pc[w] # "idle" => task[w] # j
            BY <1>1 DEF Submit, ReferencesKept
        <3> QED
            BY <1>1, <2>1, <3>1, <3>2, <3>3 DEF Submit
    <2>2. CASE ~CanSave(NewRow(j))
        BY <1>1, <2>2 DEF Submit
    <2> QED
        BY <2>1, <2>2
<1>2. ASSUME NEW j \in Job, SaveTaskId(j)
      PROVE  TypeOK' /\ Typing'
    <2>1. /\ row[j] # None
          /\ unsaved' = unsaved \ {j}
          /\ UNCHANGED <<status, packaged, made, broker, worker, submitting, cancelling, deaths,
                         chosen, withdrawn, hasty>>
        BY <1>2 DEF SaveTaskId
    <2>2. CASE CanSave(NewRow(j))
      <3>1. /\ row' = [row EXCEPT ![j] = [NewRow(j) EXCEPT !.task_id = TRUE]]
            /\ status[WorkBasketOf[j]] # "DELETED"
          BY <1>2, <2>2, NewRowType DEF SaveTaskId, Saved, CanSave
      <3> QED
          BY <2>1, <3>1, NewRowType
    <2>3. CASE ~CanSave(NewRow(j))
        BY <1>2, <2>1, <2>3 DEF SaveTaskId
    <2> QED
        BY <2>2, <2>3
<1>3. ASSUME NEW j \in Job, Discard(j)
      PROVE  TypeOK' /\ Typing'
    BY <1>3 DEF Discard
<1>4. ASSUME NEW w \in WorkBasket, Queue(w)
      PROVE  TypeOK' /\ Typing'
    BY <1>4 DEF Queue, Contents
<1>5. ASSUME NEW w \in WorkBasket, Dequeue(w)
      PROVE  TypeOK' /\ Typing'
    BY <1>5 DEF Dequeue, Contents
<1>6. ASSUME NEW w \in WorkBasket, Delete(w)
      PROVE  TypeOK' /\ Typing'
    <2>1. CASE w \in packaged
        BY <1>6, <2>1 DEF Delete
    <2>2. CASE w \notin packaged
        <3>1. \A j \in Job : j \in JobsOf(w) <=> row[j] # None /\ row[j].workbasket = w
            BY DEF JobsOf
        <3>2. /\ row' = [j \in Job |-> IF j \in JobsOf(w) THEN RevokedAndNull(j) ELSE row[j]]
              /\ status' = [status EXCEPT ![w] = "DELETED"]
            BY <1>6, <2>2 DEF Delete
        <3>3. \A j \in JobsOf(w) : row[j] \in BulkProcessor
            BY DEF JobsOf
        <3>4. row' \in [Job -> BulkProcessor \cup {None}]
            BY <3>2, <3>3, RevokedType
        <3>5. \A j \in Job : row'[j] # None /\ row'[j].workbasket # None
            => row'[j].workbasket = WorkBasketOf[j] /\ status'[WorkBasketOf[j]] # "DELETED"
            BY <3>1, <3>2, <3>3, RevokedType
        <3>6. \A j \in Job : row'[j] = None <=> row[j] = None
            BY <3>1, <3>2, <3>3, RevokedType
        <3>7. UNCHANGED <<packaged, made, sent, worker, request, deaths, history>>
            BY <1>6, <2>2 DEF Delete
        <3>8. status' \in [WorkBasket -> {"EDITING", "QUEUED", "ARCHIVED", "DELETED"}]
            BY <3>2
        <3> QED
            BY <3>4, <3>5, <3>6, <3>7, <3>8
    <2> QED BY <2>1, <2>2
<1>7. ASSUME NEW u \in Superuser, SaveCancelled(u)
      PROVE  TypeOK' /\ Typing'
    <2> DEFINE j == cancelling[u].job
               copy == cancelling[u].copy
    <2>1. /\ j \in Job
          /\ copy \in BulkProcessor
          /\ row[j] # None
          /\ copy.workbasket \in {WorkBasketOf[j], None}
        BY <1>7 DEF SaveCancelled, ReferencesKept, Refers
    <2>2. CASE copy.processing_state \in Cancellable /\ CanSave(copy)
        BY <1>7, <2>1, <2>2, RowType, States DEF SaveCancelled, Saved, CanSave
    <2>3. CASE ~(copy.processing_state \in Cancellable /\ CanSave(copy))
        BY <1>7, <2>1, <2>3 DEF SaveCancelled
    <2> QED BY <2>2, <2>3
<1>8. ASSUME NEW u \in Superuser, NEW j \in Job, Terminate(u, j)
      PROVE  TypeOK' /\ Typing'
    BY <1>8 DEF Terminate, TargetOf, Job
<1>9. ASSUME NEW w \in Worker, NEW j \in Job, Take(w, j)
      PROVE  TypeOK' /\ Typing'
    <2>1. row[j] \in BulkProcessor
        BY <1>9 DEF Take
    <2>2. InState(row[j], "CURRENTLY_PROCESSING") \in BulkProcessor
        BY <2>1, RowType, States
    <2>3. \A v \in Worker : pc[v] # "idle" => task[v] # j
        BY <1>9 DEF Take
    <2>4. CASE CanBegin(row[j])
        <3>1. /\ pc[w] = "idle" /\ pc' = [pc EXCEPT ![w] = "begun"]
              /\ task' = [task EXCEPT ![w] = j]
              /\ instance' = [instance EXCEPT ![w] = InState(row[j], "CURRENTLY_PROCESSING")]
              /\ sent' = sent \ {j}
              /\ UNCHANGED <<tables, revoked, seen, request, deaths, history>>
            BY <1>9, <2>4 DEF Take, Goto
        <3>2. TypeOK'
            BY <2>2, <2>3, <3>1
        <3>3. Typing'
            BY <2>2, <3>1
        <3> QED
            BY <3>2, <3>3
    <2>5. CASE ~CanBegin(row[j])
        BY <1>9, <2>5 DEF Take
    <2> QED
        BY <2>4, <2>5
<1>10. ASSUME NEW w \in Worker, SaveBegun(w)
      PROVE  TypeOK' /\ Typing'
    <2>1. /\ task[w] \in Job
          /\ instance[w] \in BulkProcessor
          /\ row[task[w]] # None
          /\ instance[w].workbasket \in {WorkBasketOf[task[w]], None}
        BY <1>10 DEF SaveBegun, ReferencesKept, Refers
    <2>2. CASE CanSave(instance[w])
        BY <1>10, <2>1, <2>2 DEF SaveBegun, Saved, CanSave, Goto
    <2>3. CASE ~CanSave(instance[w])
        BY <1>10, <2>1, <2>3 DEF SaveBegun, End, Goto
    <2> QED
        BY <2>2, <2>3
<1>11. ASSUME NEW w \in Worker, ReadWorkbasket(w)
      PROVE  TypeOK' /\ Typing'
    BY <1>11 DEF ReadWorkbasket, Goto
<1>12. ASSUME NEW w \in Worker, CommitMeasures(w)
      PROVE  TypeOK' /\ Typing'
    <2>1. /\ task[w] \in Job
          /\ row[task[w]] # None
          /\ UNCHANGED <<row, status, packaged, broker, task, instance, seen, request,
                         deaths, history>>
        BY <1>12 DEF CommitMeasures, ReferencesKept
    <2>2. /\ made' = made \/ \E p \in {"DRAFT", "APPROVED"} : made' = [made EXCEPT ![task[w]] = p]
          /\ pc[w] = "writing"
          /\ \E s \in {"failed", "created"} : pc' = [pc EXCEPT ![w] = s]
        BY <1>12 DEF CommitMeasures, Goto
    <2> QED
        BY <2>1, <2>2
<1>13. ASSUME NEW w \in Worker, CreateRaises(w)
      PROVE  TypeOK' /\ Typing'
    BY <1>13 DEF CreateRaises, Goto
<1>14. ASSUME NEW w \in Worker, NEW s \in DoneProcessingStates,
             pc[w] # "idle", SaveOutcome(w, s)
      PROVE  TypeOK' /\ Typing'
    <2>1. /\ task[w] \in Job
          /\ instance[w] \in BulkProcessor
          /\ row[task[w]] # None
          /\ instance[w].workbasket \in {WorkBasketOf[task[w]], None}
        BY <1>14 DEF ReferencesKept, Refers
    <2>2. /\ InState(instance[w], s) \in BulkProcessor
          /\ InState(instance[w], s).workbasket = instance[w].workbasket
          /\ InState(instance[w], s) # None
        BY <2>1, RowType, States
    <2> QED
        BY <1>14, <2>1, <2>2 DEF SaveOutcome, End, Goto, CanSave
<1>15. ASSUME NEW w \in Worker, Kill(w)
      PROVE  TypeOK' /\ Typing'
    BY <1>15 DEF Kill, End, Goto
<1>16. ASSUME NEW w \in Worker, Die(w)
      PROVE  TypeOK' /\ Typing'
    BY <1>16 DEF Die, End, Goto
<1>17. ASSUME UNCHANGED vars
      PROVE  TypeOK' /\ Typing'
    BY <1>17 DEF vars
<1>18. ASSUME NEW j \in Job, StartSubmit(j)
      PROVE  TypeOK' /\ Typing'
    BY <1>18 DEF StartSubmit
<1> QED
    BY <1>1, <1>2, <1>3, <1>4, <1>5, <1>6, <1>7, <1>8, <1>9, <1>10, <1>11,
       <1>12, <1>13, <1>14, <1>15, <1>16, <1>17, <1>18
     DEF Next, Step, ProcessingSucceeded, ProcessingFailed, DoneProcessingStates

(* No request or task saves a row that refers to a foreign workbasket, and a
   workbasket that was deleted does not come back. *)
LEMMA ReferencesStep ==
    ASSUME TypeOK, Typing, ReferencesKept, [Next]_vars
    PROVE  ReferencesKept'
<1> USE BulkAssumption, RowAssumption
<1> USE DEF TypeOK, Typing, tables, broker, worker, request, history
<1>1. ASSUME NEW j \in Job, Submit(j)
      PROVE  ReferencesKept'
    <2>1. CASE CanSave(NewRow(j))
        <3>1. /\ row' = [row EXCEPT ![j] = NewRow(j)]
              /\ NewRow(j).processing_state = "AWAITING_PROCESSING"
              /\ NewRow(j).workbasket = WorkBasketOf[j] /\ NewRow(j) # None
            BY <1>1, <2>1, NewRowType DEF Submit, Saved
        <3>2. \A w \in Worker : pc[w] # "idle" => task[w] # j
            BY <1>1 DEF Submit, ReferencesKept
        <3> QED
            BY <1>1, <2>1, <3>1, <3>2
               DEF Submit, CanSave, ReferencesKept, Refers
    <2>2. CASE ~CanSave(NewRow(j))
        BY <1>1, <2>2 DEF Submit, ReferencesKept, Refers
    <2> QED
        BY <2>1, <2>2
<1>2. ASSUME NEW j \in Job, SaveTaskId(j)
      PROVE  ReferencesKept'
    <2>1. CASE CanSave(NewRow(j))
        <3> DEFINE new == [NewRow(j) EXCEPT !.task_id = TRUE]
        <3>1. /\ row' = [row EXCEPT ![j] = new]
              /\ status[WorkBasketOf[j]] # "DELETED"
            BY <1>2, <2>1, NewRowType DEF SaveTaskId, Saved, CanSave
        <3>2. /\ new.processing_state = "AWAITING_PROCESSING"
              /\ new.workbasket = WorkBasketOf[j]
              /\ new # None
            BY NewRowType
        <3> HIDE DEF new
        <3> QED
            BY <1>2, <2>1, <3>1, <3>2, States
               DEF SaveTaskId, CanSave, ReferencesKept, Refers
    <2>2. CASE ~CanSave(NewRow(j))
        BY <1>2, <2>2 DEF SaveTaskId, CanSave, ReferencesKept, Refers
    <2> QED
        BY <2>1, <2>2
<1>3. ASSUME NEW j \in Job, Discard(j)
      PROVE  ReferencesKept'
    BY <1>3 DEF Discard, ReferencesKept, Refers
<1>4. ASSUME NEW w \in WorkBasket, Queue(w)
      PROVE  ReferencesKept'
    BY <1>4 DEF Queue, Contents, ReferencesKept, Refers
<1>5. ASSUME NEW w \in WorkBasket, Dequeue(w)
      PROVE  ReferencesKept'
    BY <1>5 DEF Dequeue, Contents, ReferencesKept, Refers
<1>6. ASSUME NEW w \in WorkBasket, Delete(w)
      PROVE  ReferencesKept'
    BY <1>6, RevokedType, States
       DEF Delete, JobsOf, Contents, CanSave, ReferencesKept, Refers
<1>7. ASSUME NEW u \in Superuser, SaveCancelled(u)
      PROVE  ReferencesKept'
    <2> DEFINE j == cancelling[u].job
               copy == cancelling[u].copy
    <2>1. /\ j \in Job /\ row[j] # None
          /\ copy \in BulkProcessor /\ Refers(copy, j)
        BY <1>7 DEF SaveCancelled, ReferencesKept
    <2>2. /\ cancelling' = [cancelling EXCEPT ![u] = None]
          /\ row' = row \/ row' = [row EXCEPT ![j] = InState(copy, "CANCELLED")]
          /\ UNCHANGED <<status, pc, task, instance>>
        BY <1>7 DEF SaveCancelled, Saved
    <2>3. /\ InState(copy, "CANCELLED") # None
          /\ InState(copy, "CANCELLED").workbasket = copy.workbasket
        BY <2>1, RowType, States
    <2> HIDE DEF j, copy
    <2> QED
        BY <2>1, <2>2, <2>3 DEF ReferencesKept, Refers
<1>8. ASSUME NEW u \in Superuser, NEW j \in Job, Terminate(u, j)
      PROVE  ReferencesKept'
    BY <1>8 DEF Terminate, TargetOf, Job, ReferencesKept, Refers
<1>9. ASSUME NEW w \in Worker, NEW j \in Job, Take(w, j)
      PROVE  ReferencesKept'
    BY <1>9, RowType, States
       DEF Take, Goto, CanBegin, CanSave, ReferencesKept, Refers
<1>10. ASSUME NEW w \in Worker, SaveBegun(w)
      PROVE  ReferencesKept'
    <2>1. CASE CanSave(instance[w])
        BY <1>10, <2>1
           DEF SaveBegun, Saved, Goto, CanSave, ReferencesKept, Refers
    <2>2. CASE ~CanSave(instance[w])
        BY <1>10, <2>2
           DEF SaveBegun, End, Goto, CanSave, ReferencesKept, Refers
    <2> QED
        BY <2>1, <2>2
<1>11. ASSUME NEW w \in Worker, ReadWorkbasket(w)
      PROVE  ReferencesKept'
    BY <1>11 DEF ReadWorkbasket, Goto, ReferencesKept, Refers
<1>12. ASSUME NEW w \in Worker, CommitMeasures(w)
      PROVE  ReferencesKept'
    BY <1>12 DEF CommitMeasures, Goto, ReferencesKept, Refers
<1>13. ASSUME NEW w \in Worker, CreateRaises(w)
      PROVE  ReferencesKept'
    BY <1>13 DEF CreateRaises, Goto, ReferencesKept, Refers
<1>14. ASSUME NEW w \in Worker, ProcessingSucceeded(w)
      PROVE  ReferencesKept'
    BY <1>14, RowType, States
       DEF ProcessingSucceeded, SaveOutcome, End, Goto, CanSave,
           ReferencesKept, Refers
<1>15. ASSUME NEW w \in Worker, ProcessingFailed(w)
      PROVE  ReferencesKept'
    BY <1>15, RowType, States
       DEF ProcessingFailed, SaveOutcome, End, Goto, CanSave, ReferencesKept,
           Refers
<1>16. ASSUME NEW w \in Worker, Kill(w)
      PROVE  ReferencesKept'
    BY <1>16 DEF Kill, End, Goto, ReferencesKept, Refers
<1>17. ASSUME NEW w \in Worker, Die(w)
      PROVE  ReferencesKept'
    BY <1>17 DEF Die, End, Goto, ReferencesKept, Refers
<1>18. ASSUME UNCHANGED vars
      PROVE  ReferencesKept'
    BY <1>18 DEF vars, ReferencesKept, Refers
<1>19. ASSUME NEW j \in Job, StartSubmit(j)
      PROVE  ReferencesKept'
    BY <1>19 DEF StartSubmit, ReferencesKept, Refers
<1> QED
    BY <1>1, <1>2, <1>3, <1>4, <1>5, <1>6, <1>7, <1>8, <1>9, <1>10,
       <1>11, <1>12, <1>13, <1>14, <1>15, <1>16, <1>17, <1>18, <1>19 DEF Next, Step

(* Measures are written once, by the worker that has the job in hand. *)
LEMMA KnowledgeStep ==
    ASSUME TypeOK, Typing, ReferencesKept, WorkerKnows, [Next]_vars
    PROVE  WorkerKnows'
<1> USE BulkAssumption, RowAssumption
<1> USE DEF TypeOK, Typing, tables, broker, worker, request, history
<1>1. ASSUME NEW j \in Job, Submit(j)
      PROVE  WorkerKnows'
    <2>1. CASE CanSave(NewRow(j))
        BY <1>1, <2>1 DEF Submit, Saved, WorkerKnows, Written, ReferencesKept
    <2>2. CASE ~CanSave(NewRow(j))
        BY <1>1, <2>2 DEF Submit, WorkerKnows, Written
    <2> QED
        BY <2>1, <2>2
<1>2. ASSUME NEW j \in Job, SaveTaskId(j)
      PROVE  WorkerKnows'
    BY <1>2 DEF SaveTaskId, Saved, WorkerKnows, Written
<1>3. ASSUME NEW j \in Job, Discard(j)
      PROVE  WorkerKnows'
    BY <1>3 DEF Discard, WorkerKnows, Written
<1>4. ASSUME NEW w \in WorkBasket, Queue(w)
      PROVE  WorkerKnows'
    BY <1>4 DEF Queue, Contents, WorkerKnows, Written
<1>5. ASSUME NEW w \in WorkBasket, Dequeue(w)
      PROVE  WorkerKnows'
    BY <1>5 DEF Dequeue, Contents, WorkerKnows, Written
<1>6. ASSUME NEW w \in WorkBasket, Delete(w)
      PROVE  WorkerKnows'
    BY <1>6 DEF Delete, JobsOf, Contents, WorkerKnows, Written
<1>7. ASSUME NEW u \in Superuser, SaveCancelled(u)
      PROVE  WorkerKnows'
    BY <1>7 DEF SaveCancelled, Saved, WorkerKnows, Written
<1>8. ASSUME NEW u \in Superuser, NEW j \in Job, Terminate(u, j)
      PROVE  WorkerKnows'
    BY <1>8 DEF Terminate, TargetOf, Job, WorkerKnows, Written
<1>9. ASSUME NEW w \in Worker, NEW j \in Job, Take(w, j)
      PROVE  WorkerKnows'
    BY <1>9, RowType, States DEF Take, Goto, CanBegin, WorkerKnows, Written
<1>10. ASSUME NEW w \in Worker, SaveBegun(w)
      PROVE  WorkerKnows'
    BY <1>10 DEF SaveBegun, Saved, End, Goto, WorkerKnows, Written
<1>11. ASSUME NEW w \in Worker, ReadWorkbasket(w)
      PROVE  WorkerKnows'
    BY <1>11 DEF ReadWorkbasket, Goto, WorkerKnows, Written
<1>12. ASSUME NEW w \in Worker, CommitMeasures(w)
      PROVE  WorkerKnows'
    BY <1>12 DEF CommitMeasures, Goto, WorkerKnows, Written
<1>13. ASSUME NEW w \in Worker, CreateRaises(w)
      PROVE  WorkerKnows'
    BY <1>13 DEF CreateRaises, Goto, WorkerKnows, Written
<1>14. ASSUME NEW w \in Worker, ProcessingSucceeded(w)
      PROVE  WorkerKnows'
    BY <1>14
       DEF ProcessingSucceeded, SaveOutcome, End, Goto, WorkerKnows, Written
<1>15. ASSUME NEW w \in Worker, ProcessingFailed(w)
      PROVE  WorkerKnows'
    BY <1>15 DEF ProcessingFailed, SaveOutcome, End, Goto, WorkerKnows, Written
<1>16. ASSUME NEW w \in Worker, Kill(w)
      PROVE  WorkerKnows'
    BY <1>16 DEF Kill, End, Goto, WorkerKnows, Written
<1>17. ASSUME NEW w \in Worker, Die(w)
      PROVE  WorkerKnows'
    BY <1>17 DEF Die, End, Goto, WorkerKnows, Written
<1>18. ASSUME UNCHANGED vars
      PROVE  WorkerKnows'
    BY <1>18 DEF vars, WorkerKnows, Written
<1>19. ASSUME NEW j \in Job, StartSubmit(j)
      PROVE  WorkerKnows'
    BY <1>19 DEF StartSubmit, WorkerKnows, Written
<1> QED
    BY <1>1, <1>2, <1>3, <1>4, <1>5, <1>6, <1>7, <1>8, <1>9, <1>10,
       <1>11, <1>12, <1>13, <1>14, <1>15, <1>16, <1>17, <1>18, <1>19 DEF Next, Step

(* A late save by a request or a task brings no finished job back to a worker:
   the task is not sent again, and a worker refuses a job that is CANCELLED. *)
LEMMA EndedStep ==
    ASSUME TypeOK, Typing, ReferencesKept, WorkerKnows, EndedForGood, [Next]_vars
    PROVE  EndedForGood'
<1> USE BulkAssumption, RowAssumption
<1> USE DEF TypeOK, Typing, tables, broker, worker, request, history
<1>1. ASSUME NEW j \in Job, Submit(j)
      PROVE  EndedForGood'
    <2>1. CASE CanSave(NewRow(j))
        <3>1. /\ row' = [row EXCEPT ![j] = NewRow(j)]
              /\ NewRow(j).processing_state = "AWAITING_PROCESSING"
              /\ NewRow(j).workbasket = WorkBasketOf[j] /\ NewRow(j) # None
            BY <1>1, <2>1, NewRowType DEF Submit, Saved
        <3>2. \A w \in Worker : pc[w] # "idle" => task[w] # j
            BY <1>1 DEF Submit, ReferencesKept
        <3> QED
            BY <1>1, <2>1, <3>1, <3>2, States
               DEF Submit, CanSave, EndedForGood, Holds, ReferencesKept,
                   WorkerKnows
    <2>2. CASE ~CanSave(NewRow(j))
        BY <1>1, <2>2 DEF Submit, EndedForGood, Holds
    <2> QED
        BY <2>1, <2>2
<1>2. ASSUME NEW j \in Job, SaveTaskId(j)
      PROVE  EndedForGood'
    <2>1. CASE CanSave(NewRow(j))
        <3> DEFINE new == [NewRow(j) EXCEPT !.task_id = TRUE]
        <3>1. /\ row' = [row EXCEPT ![j] = new]
              /\ status[WorkBasketOf[j]] # "DELETED"
            BY <1>2, <2>1, NewRowType DEF SaveTaskId, Saved, CanSave
        <3>2. /\ new.processing_state = "AWAITING_PROCESSING"
              /\ new.workbasket = WorkBasketOf[j]
              /\ new # None
            BY NewRowType
        <3> HIDE DEF new
        <3> QED
            BY <1>2, <2>1, <3>1, <3>2, States
               DEF SaveTaskId, EndedForGood, Holds, ReferencesKept, WorkerKnows
    <2>2. CASE ~CanSave(NewRow(j))
        BY <1>2, <2>2
           DEF SaveTaskId, EndedForGood, Holds, ReferencesKept, WorkerKnows
    <2> QED
        BY <2>1, <2>2
<1>3. ASSUME NEW j \in Job, Discard(j)
      PROVE  EndedForGood'
    BY <1>3 DEF Discard, EndedForGood, Holds
<1>4. ASSUME NEW w \in WorkBasket, Queue(w)
      PROVE  EndedForGood'
    BY <1>4 DEF Queue, Contents, EndedForGood, Holds
<1>5. ASSUME NEW w \in WorkBasket, Dequeue(w)
      PROVE  EndedForGood'
    BY <1>5 DEF Dequeue, Contents, EndedForGood, Holds
<1>6. ASSUME NEW w \in WorkBasket, Delete(w)
      PROVE  EndedForGood'
    BY <1>6, RevokedType, States
       DEF Delete, JobsOf, Contents, EndedForGood, Holds, ReferencesKept,
           WorkerKnows
<1>7. ASSUME NEW u \in Superuser, SaveCancelled(u)
      PROVE  EndedForGood'
    BY <1>7, RowType, States
       DEF SaveCancelled, Saved, EndedForGood, Holds, ReferencesKept,
           WorkerKnows
<1>8. ASSUME NEW u \in Superuser, NEW j \in Job, Terminate(u, j)
      PROVE  EndedForGood'
    BY <1>8 DEF Terminate, TargetOf, Job, EndedForGood, Holds
<1>9. ASSUME NEW w \in Worker, NEW j \in Job, Take(w, j)
      PROVE  EndedForGood'
    BY <1>9, RowType, States
       DEF Take, Goto, CanBegin, EndedForGood, Holds, ReferencesKept,
           WorkerKnows
<1>10. ASSUME NEW w \in Worker, SaveBegun(w)
      PROVE  EndedForGood'
    BY <1>10, States
       DEF SaveBegun, Saved, End, Goto, EndedForGood, Holds, ReferencesKept,
           WorkerKnows
<1>11. ASSUME NEW w \in Worker, ReadWorkbasket(w)
      PROVE  EndedForGood'
    BY <1>11 DEF ReadWorkbasket, Goto, EndedForGood, Holds
<1>12. ASSUME NEW w \in Worker, CommitMeasures(w)
      PROVE  EndedForGood'
    BY <1>12 DEF CommitMeasures, Goto, EndedForGood, Holds
<1>13. ASSUME NEW w \in Worker, CreateRaises(w)
      PROVE  EndedForGood'
    BY <1>13 DEF CreateRaises, Goto, EndedForGood, Holds
<1>14. ASSUME NEW w \in Worker, ProcessingSucceeded(w)
      PROVE  EndedForGood'
    BY <1>14, RowType, States
       DEF ProcessingSucceeded, SaveOutcome, End, Goto, EndedForGood, Holds,
           ReferencesKept, WorkerKnows
<1>15. ASSUME NEW w \in Worker, ProcessingFailed(w)
      PROVE  EndedForGood'
    BY <1>15, RowType, States
       DEF ProcessingFailed, SaveOutcome, End, Goto, EndedForGood, Holds,
           ReferencesKept, WorkerKnows
<1>16. ASSUME NEW w \in Worker, Kill(w)
      PROVE  EndedForGood'
    BY <1>16 DEF Kill, End, Goto, EndedForGood, Holds
<1>17. ASSUME NEW w \in Worker, Die(w)
      PROVE  EndedForGood'
    BY <1>17 DEF Die, End, Goto, EndedForGood, Holds
<1>18. ASSUME UNCHANGED vars
      PROVE  EndedForGood'
    BY <1>18 DEF vars, EndedForGood, Holds
<1>19. ASSUME NEW j \in Job, StartSubmit(j)
      PROVE  EndedForGood'
    BY <1>19 DEF StartSubmit, EndedForGood, Holds
<1> QED
    BY <1>1, <1>2, <1>3, <1>4, <1>5, <1>6, <1>7, <1>8, <1>9, <1>10,
       <1>11, <1>12, <1>13, <1>14, <1>15, <1>16, <1>17, <1>18, <1>19 DEF Next, Step

(* A job that waits or works is one that Queue counts as not ended. *)
LEMMA HasteStep ==
    ASSUME TypeOK, Typing, ReferencesKept, WorkerKnows, EndedForGood, QueuedInHaste, [Next]_vars
    PROVE  QueuedInHaste'
<1> USE BulkAssumption, RowAssumption
<1> USE DEF TypeOK, Typing, tables, broker, worker, request, history
<1>1. ASSUME NEW j \in Job, Submit(j)
      PROVE  QueuedInHaste'
    <2>1. CASE CanSave(NewRow(j))
        BY <1>1, <2>1 DEF Submit, Saved, QueuedInHaste, WorkerKnows, EndedForGood
    <2>2. CASE ~CanSave(NewRow(j))
        BY <1>1, <2>2 DEF Submit, QueuedInHaste
    <2> QED
        BY <2>1, <2>2
<1>2. ASSUME NEW j \in Job, SaveTaskId(j)
      PROVE  QueuedInHaste'
    BY <1>2 DEF SaveTaskId, Saved, QueuedInHaste
<1>3. ASSUME NEW j \in Job, Discard(j)
      PROVE  QueuedInHaste'
    BY <1>3 DEF Discard, QueuedInHaste
<1>4. ASSUME NEW w \in WorkBasket, Queue(w)
      PROVE  QueuedInHaste'
    <2>1. \A j \in sent : j \notin withdrawn /\ WorkBasketOf[j] = w => j \in JobsOf(w) /\ ~Ended(j)
        BY <1>4 DEF Queue, JobsOf, Ended, EndedForGood, ReferencesKept, Refers
    <2>2. \A v \in Worker : pc[v] # "idle" /\ WorkBasketOf[task[v]] = w => task[v] \in JobsOf(w) /\ ~Ended(task[v])
        BY <1>4
           DEF Queue, JobsOf, Ended, EndedForGood, ReferencesKept, Refers,
               Holds
    <2>3. /\ (\E j \in JobsOf(w) : ~Ended(j)) => w \in hasty'
          /\ \A j \in submitting : WorkBasketOf[j] = w => w \in hasty'
        BY <1>4 DEF Queue
    <2>4. /\ hasty \subseteq hasty'
          /\ status' = [status EXCEPT ![w] = "QUEUED"]
          /\ UNCHANGED <<sent, withdrawn, submitting, pc, task, seen>>
        BY <1>4 DEF Queue
    <2> QED
        BY <2>1, <2>2, <2>3, <2>4 DEF QueuedInHaste
<1>5. ASSUME NEW w \in WorkBasket, Dequeue(w)
      PROVE  QueuedInHaste'
    BY <1>5 DEF Dequeue, Contents, QueuedInHaste
<1>6. ASSUME NEW w \in WorkBasket, Delete(w)
      PROVE  QueuedInHaste'
    BY <1>6 DEF Delete, JobsOf, Contents, QueuedInHaste
<1>7. ASSUME NEW u \in Superuser, SaveCancelled(u)
      PROVE  QueuedInHaste'
    BY <1>7 DEF SaveCancelled, Saved, QueuedInHaste
<1>8. ASSUME NEW u \in Superuser, NEW j \in Job, Terminate(u, j)
      PROVE  QueuedInHaste'
    BY <1>8 DEF Terminate, TargetOf, Job, QueuedInHaste
<1>9. ASSUME NEW w \in Worker, NEW j \in Job, Take(w, j)
      PROVE  QueuedInHaste'
    BY <1>9, RowType, States
       DEF Take, Goto, CanBegin, QueuedInHaste, EndedForGood
<1>10. ASSUME NEW w \in Worker, SaveBegun(w)
      PROVE  QueuedInHaste'
    BY <1>10 DEF SaveBegun, Saved, End, Goto, QueuedInHaste
<1>11. ASSUME NEW w \in Worker, ReadWorkbasket(w)
      PROVE  QueuedInHaste'
    BY <1>11 DEF ReadWorkbasket, Goto, QueuedInHaste
<1>12. ASSUME NEW w \in Worker, CommitMeasures(w)
      PROVE  QueuedInHaste'
    BY <1>12 DEF CommitMeasures, Goto, QueuedInHaste
<1>13. ASSUME NEW w \in Worker, CreateRaises(w)
      PROVE  QueuedInHaste'
    BY <1>13 DEF CreateRaises, Goto, QueuedInHaste
<1>14. ASSUME NEW w \in Worker, ProcessingSucceeded(w)
      PROVE  QueuedInHaste'
    BY <1>14 DEF ProcessingSucceeded, SaveOutcome, End, Goto, QueuedInHaste
<1>15. ASSUME NEW w \in Worker, ProcessingFailed(w)
      PROVE  QueuedInHaste'
    BY <1>15 DEF ProcessingFailed, SaveOutcome, End, Goto, QueuedInHaste
<1>16. ASSUME NEW w \in Worker, Kill(w)
      PROVE  QueuedInHaste'
    BY <1>16 DEF Kill, End, Goto, QueuedInHaste
<1>17. ASSUME NEW w \in Worker, Die(w)
      PROVE  QueuedInHaste'
    BY <1>17 DEF Die, End, Goto, QueuedInHaste
<1>18. ASSUME UNCHANGED vars
      PROVE  QueuedInHaste'
    BY <1>18 DEF vars, QueuedInHaste
<1>19. ASSUME NEW j \in Job, StartSubmit(j)
      PROVE  QueuedInHaste'
    BY <1>19 DEF StartSubmit, QueuedInHaste
<1> QED
    BY <1>1, <1>2, <1>3, <1>4, <1>5, <1>6, <1>7, <1>8, <1>9, <1>10,
       <1>11, <1>12, <1>13, <1>14, <1>15, <1>16, <1>17, <1>18, <1>19 DEF Next, Step

(* Each save of an outcome agrees with what the worker did, and each save of
   anything else leaves no outcome behind. *)
LEMMA OutcomeStep ==
    ASSUME TypeOK, Typing, ReferencesKept, WorkerKnows, EndedForGood, OutcomeIsTrue, [Next]_vars
    PROVE  OutcomeIsTrue'
<1> USE BulkAssumption, RowAssumption
<1> USE DEF TypeOK, Typing, tables, broker, worker, request, history
<1>1. ASSUME NEW j \in Job, Submit(j)
      PROVE  OutcomeIsTrue'
    <2>1. CASE CanSave(NewRow(j))
        <3>1. /\ row' = [row EXCEPT ![j] = NewRow(j)]
              /\ NewRow(j).processing_state = "AWAITING_PROCESSING"
              /\ NewRow(j).workbasket = WorkBasketOf[j] /\ NewRow(j) # None
            BY <1>1, <2>1, NewRowType DEF Submit, Saved
        <3>2. \A w \in Worker : pc[w] # "idle" => task[w] # j
            BY <1>1 DEF Submit, ReferencesKept
        <3> QED
            BY <1>1, <2>1, <3>1, <3>2
               DEF Submit, CanSave, EndedForGood, OutcomeIsTrue, Written
    <2>2. CASE ~CanSave(NewRow(j))
        BY <1>1, <2>2 DEF Submit, OutcomeIsTrue, Written
    <2> QED
        BY <2>1, <2>2
<1>2. ASSUME NEW j \in Job, SaveTaskId(j)
      PROVE  OutcomeIsTrue'
    <2>1. CASE CanSave(NewRow(j))
        <3> DEFINE new == [NewRow(j) EXCEPT !.task_id = TRUE]
        <3>1. /\ row' = [row EXCEPT ![j] = new]
              /\ status[WorkBasketOf[j]] # "DELETED"
            BY <1>2, <2>1, NewRowType DEF SaveTaskId, Saved, CanSave
        <3>2. /\ new.processing_state = "AWAITING_PROCESSING"
              /\ new.workbasket = WorkBasketOf[j]
              /\ new # None
            BY NewRowType
        <3> HIDE DEF new
        <3> QED
            BY <1>2, <2>1, <3>1, <3>2, States
               DEF SaveTaskId, EndedForGood, OutcomeIsTrue, Written
    <2>2. CASE ~CanSave(NewRow(j))
        BY <1>2, <2>2 DEF SaveTaskId, EndedForGood, OutcomeIsTrue, Written
    <2> QED
        BY <2>1, <2>2
<1>3. ASSUME NEW j \in Job, Discard(j)
      PROVE  OutcomeIsTrue'
    BY <1>3 DEF Discard, OutcomeIsTrue, Written
<1>4. ASSUME NEW w \in WorkBasket, Queue(w)
      PROVE  OutcomeIsTrue'
    BY <1>4 DEF Queue, Contents, OutcomeIsTrue, Written
<1>5. ASSUME NEW w \in WorkBasket, Dequeue(w)
      PROVE  OutcomeIsTrue'
    BY <1>5 DEF Dequeue, Contents, OutcomeIsTrue, Written
<1>6. ASSUME NEW w \in WorkBasket, Delete(w)
      PROVE  OutcomeIsTrue'
    <2>1. CASE w \in packaged
        BY <1>6, <2>1 DEF Delete, EndedForGood, OutcomeIsTrue, Written
    <2>2. CASE w \notin packaged
        <3>1. /\ row' = [j \in Job |-> IF j \in JobsOf(w) THEN RevokedAndNull(j) ELSE row[j]]
              /\ UNCHANGED <<made, withdrawn>>
            BY <1>6, <2>2 DEF Delete
        <3>2. \A j \in JobsOf(w) : row[j] # None /\ row[j] \in BulkProcessor
            BY DEF JobsOf
        <3> QED
            BY <3>1, <3>2, RevokedType, States
               DEF EndedForGood, OutcomeIsTrue, Written
    <2> QED
        BY <2>1, <2>2
<1>7. ASSUME NEW u \in Superuser, SaveCancelled(u)
      PROVE  OutcomeIsTrue'
    BY <1>7, RowType, States
       DEF SaveCancelled, Saved, OutcomeIsTrue, Written, EndedForGood, Holds,
           WorkerKnows
<1>8. ASSUME NEW u \in Superuser, NEW j \in Job, Terminate(u, j)
      PROVE  OutcomeIsTrue'
    BY <1>8 DEF Terminate, TargetOf, Job, OutcomeIsTrue, Written
<1>9. ASSUME NEW w \in Worker, NEW j \in Job, Take(w, j)
      PROVE  OutcomeIsTrue'
    BY <1>9, RowType, States
       DEF Take, Goto, CanBegin, OutcomeIsTrue, Written, EndedForGood, Holds,
           WorkerKnows
<1>10. ASSUME NEW w \in Worker, SaveBegun(w)
      PROVE  OutcomeIsTrue'
    BY <1>10
       DEF SaveBegun, Saved, End, Goto, OutcomeIsTrue, Written, EndedForGood,
           Holds, WorkerKnows
<1>11. ASSUME NEW w \in Worker, ReadWorkbasket(w)
      PROVE  OutcomeIsTrue'
    BY <1>11 DEF ReadWorkbasket, Goto, OutcomeIsTrue, Written
<1>12. ASSUME NEW w \in Worker, CommitMeasures(w)
      PROVE  OutcomeIsTrue'
    BY <1>12, States
       DEF CommitMeasures, Goto, OutcomeIsTrue, Written, EndedForGood, Holds,
           WorkerKnows
<1>13. ASSUME NEW w \in Worker, CreateRaises(w)
      PROVE  OutcomeIsTrue'
    BY <1>13 DEF CreateRaises, Goto, OutcomeIsTrue, Written
<1>14. ASSUME NEW w \in Worker, ProcessingSucceeded(w)
      PROVE  OutcomeIsTrue'
    BY <1>14, RowType, States
       DEF ProcessingSucceeded, SaveOutcome, End, Goto, OutcomeIsTrue, Written,
           EndedForGood, Holds, WorkerKnows
<1>15. ASSUME NEW w \in Worker, ProcessingFailed(w)
      PROVE  OutcomeIsTrue'
    BY <1>15, RowType, States
       DEF ProcessingFailed, SaveOutcome, End, Goto, OutcomeIsTrue, Written,
           EndedForGood, Holds, WorkerKnows
<1>16. ASSUME NEW w \in Worker, Kill(w)
      PROVE  OutcomeIsTrue'
    BY <1>16 DEF Kill, End, Goto, OutcomeIsTrue, Written
<1>17. ASSUME NEW w \in Worker, Die(w)
      PROVE  OutcomeIsTrue'
    BY <1>17 DEF Die, End, Goto, OutcomeIsTrue, Written
<1>18. ASSUME UNCHANGED vars
      PROVE  OutcomeIsTrue'
    BY <1>18 DEF vars, OutcomeIsTrue, Written
<1>19. ASSUME NEW j \in Job, StartSubmit(j)
      PROVE  OutcomeIsTrue'
    BY <1>19 DEF StartSubmit, OutcomeIsTrue, Written
<1> QED
    BY <1>1, <1>2, <1>3, <1>4, <1>5, <1>6, <1>7, <1>8, <1>9, <1>10,
       <1>11, <1>12, <1>13, <1>14, <1>15, <1>16, <1>17, <1>18, <1>19 DEF Next, Step

(* Measures that a worker writes go to the partition of their workbasket, and
   queueing or withdrawing that moves them all. *)
LEMMA PartitionStep ==
    ASSUME TypeOK, Typing, ReferencesKept, WorkerKnows, QueuedInHaste, PartitionKept, [Next]_vars
    PROVE  PartitionKept'
<1> USE BulkAssumption, RowAssumption
<1> USE DEF TypeOK, Typing, tables, broker, worker, request, history
<1>1. ASSUME NEW j \in Job, Submit(j)
      PROVE  PartitionKept'
    <2>1. CASE CanSave(NewRow(j))
        BY <1>1, <2>1 DEF Submit, Saved, PartitionKept, Written
    <2>2. CASE ~CanSave(NewRow(j))
        BY <1>1, <2>2 DEF Submit, PartitionKept, Written
    <2> QED
        BY <2>1, <2>2
<1>2. ASSUME NEW j \in Job, SaveTaskId(j)
      PROVE  PartitionKept'
    BY <1>2 DEF SaveTaskId, Saved, PartitionKept, Written
<1>3. ASSUME NEW j \in Job, Discard(j)
      PROVE  PartitionKept'
    BY <1>3 DEF Discard, PartitionKept, Written
<1>4. ASSUME NEW w \in WorkBasket, Queue(w)
      PROVE  PartitionKept'
    BY <1>4 DEF Queue, Contents, PartitionKept, Written
<1>5. ASSUME NEW w \in WorkBasket, Dequeue(w)
      PROVE  PartitionKept'
    BY <1>5 DEF Dequeue, Contents, PartitionKept, Written
<1>6. ASSUME NEW w \in WorkBasket, Delete(w)
      PROVE  PartitionKept'
    BY <1>6 DEF Delete, JobsOf, Contents, PartitionKept, Written
<1>7. ASSUME NEW u \in Superuser, SaveCancelled(u)
      PROVE  PartitionKept'
    BY <1>7 DEF SaveCancelled, Saved, PartitionKept, Written
<1>8. ASSUME NEW u \in Superuser, NEW j \in Job, Terminate(u, j)
      PROVE  PartitionKept'
    BY <1>8 DEF Terminate, TargetOf, Job, PartitionKept, Written
<1>9. ASSUME NEW w \in Worker, NEW j \in Job, Take(w, j)
      PROVE  PartitionKept'
    BY <1>9 DEF Take, Goto, CanBegin, PartitionKept, Written
<1>10. ASSUME NEW w \in Worker, SaveBegun(w)
      PROVE  PartitionKept'
    BY <1>10 DEF SaveBegun, Saved, End, Goto, PartitionKept, Written
<1>11. ASSUME NEW w \in Worker, ReadWorkbasket(w)
      PROVE  PartitionKept'
    BY <1>11 DEF ReadWorkbasket, Goto, PartitionKept, Written
<1>12. ASSUME NEW w \in Worker, CommitMeasures(w)
      PROVE  PartitionKept'
    BY <1>12 DEF CommitMeasures, Goto, PartitionKept, Written, QueuedInHaste
<1>13. ASSUME NEW w \in Worker, CreateRaises(w)
      PROVE  PartitionKept'
    BY <1>13 DEF CreateRaises, Goto, PartitionKept, Written
<1>14. ASSUME NEW w \in Worker, ProcessingSucceeded(w)
      PROVE  PartitionKept'
    BY <1>14
       DEF ProcessingSucceeded, SaveOutcome, End, Goto, PartitionKept, Written
<1>15. ASSUME NEW w \in Worker, ProcessingFailed(w)
      PROVE  PartitionKept'
    BY <1>15
       DEF ProcessingFailed, SaveOutcome, End, Goto, PartitionKept, Written
<1>16. ASSUME NEW w \in Worker, Kill(w)
      PROVE  PartitionKept'
    BY <1>16 DEF Kill, End, Goto, PartitionKept, Written
<1>17. ASSUME NEW w \in Worker, Die(w)
      PROVE  PartitionKept'
    BY <1>17 DEF Die, End, Goto, PartitionKept, Written
<1>18. ASSUME UNCHANGED vars
      PROVE  PartitionKept'
    BY <1>18 DEF vars, PartitionKept, Written
<1>19. ASSUME NEW j \in Job, StartSubmit(j)
      PROVE  PartitionKept'
    BY <1>19 DEF StartSubmit, PartitionKept, Written
<1> QED
    BY <1>1, <1>2, <1>3, <1>4, <1>5, <1>6, <1>7, <1>8, <1>9, <1>10,
       <1>11, <1>12, <1>13, <1>14, <1>15, <1>16, <1>17, <1>18, <1>19 DEF Next, Step

-----------------------------------------------------------------------------
(* Theorems.                                                               *)

(* The inductive invariant holds in every reachable state. *)
THEOREM Invariance == Spec => []IInv
<1>1. IInv /\ [Next]_vars => IInv'
    <2> SUFFICES ASSUME IInv, [Next]_vars
                 PROVE  IInv'
        OBVIOUS
    <2>1. /\ TypeOK /\ Typing /\ ReferencesKept /\ WorkerKnows
          /\ EndedForGood /\ QueuedInHaste /\ OutcomeIsTrue /\ PartitionKept
        BY DEF IInv
    <2> QED
        BY <2>1, TypeStep, ReferencesStep, KnowledgeStep, EndedStep, HasteStep,
           OutcomeStep, PartitionStep DEF IInv
<1> QED
    BY InitIInv, <1>1, PTL DEF Spec

(* Rows refer to the workbasket of their job while it exists, a task is    *)
(* never in the broker and in a worker's hands, nor in two workers'.       *)
THEOREM TypeCorrect == Spec => []TypeOK
<1>1. IInv => TypeOK
    BY DEF IInv
<1> QED
    BY <1>1, Invariance, PTL

(* Whatever requests and tasks save late, and whichever workers die: a job *)
(* that reads SUCCESSFULLY_PROCESSED has made its measures, one that reads *)
(* FAILED_PROCESSING has made none, nor has one that was cancelled before  *)
(* a worker took its task.                                                 *)
THEOREM OutcomeAlwaysTrue == Spec => []OutcomeIsTrue
<1>1. IInv => OutcomeIsTrue
    BY DEF IInv
<1> QED
    BY <1>1, Invariance, PTL

(* In a workbasket that was never queued while a job of it was under way   *)
(* or being submitted, save_drafts and move_to_draft find all measures in  *)
(* the partition they expect.                                              *)
THEOREM PartitionAlwaysKept == Spec => []PartitionKept
<1>1. IInv => PartitionKept
    BY DEF IInv
<1> QED
    BY <1>1, Invariance, PTL
=============================================================================
