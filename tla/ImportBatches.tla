--------------------------- MODULE ImportBatches ---------------------------
(***************************************************************************)
(* TARIC imports.  A file is cut into chunks; the Celery task import_chunk *)
(* imports one chunk into a workbasket and then finds the chunks to start  *)
(* next, find_and_run_next_batch_chunks: the next one of its batch or, in  *)
(* a split batch, those of every record code whose dependencies are done,  *)
(* and those of the batches that have waited for this one.  Tasks overlap; *)
(* each reads and saves rows in autocommit mode, without locks.            *)
(***************************************************************************)
EXTENDS Integers, Sequences, FiniteSets

CONSTANTS
    Batch,          \* ImportBatch rows
    Chunk,          \* ImporterXMLChunk rows
    BatchOf,        \* chunk.batch
    Code,           \* chunk.record_code; NULL, a code like any other, if not split
    Line,           \* what setup_chunk_task filters on beside the batch: the code;
                    \*   with the chapter for commodities, and with chapter and
                    \*   number for measures
    Number,         \* chunk.chunk_number
    CodeDependencies,   \* build_dependency_tree()
    Split,          \* batches with split_job
    Owned,          \* batches uploaded in the browser: they own a workbasket
    Dependencies,   \* batch.dependencies
    Session,        \* Celery workers, and users who start a batch
    None,           \* no workbasket ID: a "Data Import" workbasket serves
    MaxFailures,    \* bound: imports that raise
    MaxLost         \* bound: tasks that are lost or die

ChunksOf(b) == {c \in Chunk : BatchOf[c] = b}
Codes == {Code[c] : c \in Chunk}
Workbasket == Owned \cup {None}

ASSUME ImportAssumption ==
    /\ BatchOf \in [Chunk -> Batch]
    /\ \A c, d \in Chunk : Line[c] = Line[d] => BatchOf[c] = BatchOf[d] /\ Code[c] = Code[d]
    /\ Number \in [Chunk -> Nat]
    /\ \A c, d \in Chunk : Line[c] = Line[d] /\ Number[c] = Number[d] => c = d
    /\ CodeDependencies \in [Codes -> SUBSET Codes]
    /\ \A code \in Codes : code \notin CodeDependencies[code]
    /\ Split \subseteq Batch /\ Owned \subseteq Batch
    /\ \A c, d \in Chunk : BatchOf[c] = BatchOf[d] /\ BatchOf[c] \notin Split => Line[c] = Line[d]
    /\ Dependencies \in [Batch -> SUBSET Batch]
    (* The browser's form drops the dependencies: save(commit=False) and   *)
    (* no save_m2m.  A batch that is waited for waits for none: a bound.   *)
    /\ \A b \in Owned : Dependencies[b] = {}
    /\ \A b \in Batch : \A d \in Dependencies[b] : Dependencies[d] = {}
    /\ None \notin Owned
    /\ MaxFailures \in Nat /\ MaxLost \in Nat

VARIABLES
    status,         \* chunk.status
    batch,          \* batch.status
    workbasket,     \* status of the workbasket a batch owns
    contents,       \* chunks whose objects a workbasket holds
    sent,           \* import_chunk tasks in the broker
    unrun,          \* batches whose run_batch is still to come
    pc, task, seen, plan, picked,   \* each session: its place in the code, its task,
                    \*   the batch status of the instance it loaded, the lines it
                    \*   is about to set up and the chunk it found for one
    failures, lost

session == <<pc, task, seen, plan, picked>>
rows == <<status, batch, workbasket, contents>>
vars == <<rows, sent, unrun, session, failures, lost>>

ChunkStatus == {"WAITING", "RUNNING", "DONE", "ERRORED"}
BatchStatus == {"IMPORTING", "SUCCEEDED", "FAILED"}
Task == [chunk : Chunk, workbasket : Workbasket]

TypeOK ==
    /\ status \in [Chunk -> ChunkStatus]
    /\ batch \in [Batch -> BatchStatus]
    /\ workbasket \in [Owned -> {"EDITING", "ARCHIVED"}]
    /\ contents \in [Workbasket -> SUBSET Chunk]
    /\ sent \in Seq(Task)
    /\ unrun \subseteq Batch
    /\ pc \in [Session -> {"idle", "importing", "done", "checking",
                           "clearing", "archiving", "clearing last", "archiving last",
                           "finding", "planning", "starting"}]
    /\ task \in [Session -> Task \cup [chunk : {None}, workbasket : Workbasket] \cup {None}]
    /\ seen \in [Session -> BatchStatus \cup {None}]
    /\ plan \in [Session -> SUBSET {Line[c] : c \in Chunk}]
    /\ picked \in [Session -> Chunk \cup {None}]
    /\ \A s \in Session :
        /\ pc[s] # "idle" => task[s].workbasket \in Workbasket
        /\ pc[s] \notin {"idle", "planning", "starting"}
            => task[s] \in Task /\ seen[s] \in BatchStatus
        /\ pc[s] = "starting" => picked[s] \in Chunk
    /\ failures \in 0..MaxFailures /\ lost \in 0..MaxLost

-----------------------------------------------------------------------------
WithStatus(S, states) == {c \in S : status[c] \in states}
WaitingOnly(b) == WithStatus(ChunksOf(b), {"WAITING"})

Ready(b) == WithStatus(ChunksOf(b), {"WAITING", "RUNNING"})
Unfinished(b) == WithStatus(ChunksOf(b), {"WAITING", "RUNNING", "ERRORED"})
StillRunning(b) == \E d \in Dependencies[b] : Unfinished(d) # {}
Imported == UNION {contents[w] : w \in Workbasket}

AnyCode(b) == {Code[c] : c \in Unfinished(b)}

(* The record codes of a split batch that none left over blocks. *)
Unblocked(b) ==
    LET left == {Code[c] : c \in Unfinished(b)} IN
    {code \in left : CodeDependencies[code] \cap left = {}}

LinesToStart(b) ==
    IF b \in Split
    THEN {Line[c] : c \in {d \in Ready(b) : Code[d] \in Unblocked(b)}}
    ELSE {Line[c] : c \in Ready(b)}

(* find_and_run_next_batch_chunks up to the point where it sets tasks up.  *)
(* A finished batch starts the batches that waited for it.                 *)
NextLinesOfItsOwn(b) == IF StillRunning(b) THEN {} ELSE LinesToStart(b)

NextLines(b) ==
    IF StillRunning(b) THEN {}
    ELSE IF Ready(b) # {} THEN LinesToStart(b)
    ELSE IF Unfinished(b) # {} THEN {}
    ELSE UNION {LinesToStart(d) : d \in
                    {e \in Batch : b \in Dependencies[e] /\ ~StillRunning(e)}}

-----------------------------------------------------------------------------
Init ==
    /\ status = [c \in Chunk |-> "WAITING"]
    /\ batch = [b \in Batch |-> "IMPORTING"]
    /\ workbasket = [b \in Owned |-> "EDITING"]
    /\ contents = [w \in Workbasket |-> {}]
    /\ sent = << >>
    /\ unrun = Batch
    /\ pc = [s \in Session |-> "idle"] /\ task = [s \in Session |-> None]
    /\ seen = [s \in Session |-> None] /\ plan = [s \in Session |-> {}]
    /\ picked = [s \in Session |-> None]
    /\ failures = 0 /\ lost = 0

Goto(s, label) == pc' = [pc EXCEPT ![s] = label]

Finish(s) ==
    /\ Goto(s, "idle")
    /\ task' = [task EXCEPT ![s] = None]
    /\ seen' = [seen EXCEPT ![s] = None]
    /\ plan' = [plan EXCEPT ![s] = {}]
    /\ picked' = [picked EXCEPT ![s] = None]

(* run_batch, at the end of an upload or by a command.  Only the browser   *)
(* passes a workbasket on.                                                 *)
RunBatch(s, b) ==
    /\ b \in unrun
    /\ pc[s] = "idle"
    /\ unrun' = unrun \ {b}
    /\ Goto(s, "planning")
    /\ task' = [task EXCEPT ![s] =
            [chunk |-> None, workbasket |-> IF b \in Owned THEN b ELSE None]]
    /\ plan' = [plan EXCEPT ![s] = NextLines(b)]
    /\ UNCHANGED <<rows, sent, seen, picked, failures, lost>>

-----------------------------------------------------------------------------
(* import_chunk.                                                           *)

BatchOfTask(s) == BatchOf[task[s].chunk]

(* A worker takes a task and loads the chunk and its batch. *)
StartImport(s) ==
    /\ pc[s] = "idle"
    /\ sent # << >>
    /\ sent' = Tail(sent)
    /\ task' = [task EXCEPT ![s] = Head(sent)]
    /\ seen' = [seen EXCEPT ![s] = batch[BatchOf[Head(sent).chunk]]]
    /\ status' = [status EXCEPT ![Head(sent).chunk] = "RUNNING"]
    /\ Goto(s, "importing")
    /\ UNCHANGED <<batch, workbasket, contents, unrun, plan, picked, failures, lost>>

(* process_taric_xml_stream, one transaction.  A TARIC transaction that is *)
(* in the database already is skipped: composite_key is unique.            *)
ImportStream(s) ==
    LET t == task[s] IN
    /\ pc[s] = "importing"
    /\ contents' = IF t.chunk \in Imported THEN contents
                   ELSE [contents EXCEPT ![t.workbasket] = @ \cup {t.chunk}]
    /\ Goto(s, "done")
    /\ UNCHANGED <<status, batch, workbasket, sent, unrun, task, seen, plan, picked,
                   failures, lost>>

ImportRaises(s) ==
    /\ pc[s] = "importing"
    /\ failures < MaxFailures
    /\ failures' = failures + 1
    /\ Goto(s, "clearing")
    /\ UNCHANGED <<rows, sent, unrun, task, seen, plan, picked, lost>>

SaveDone(s) ==
    /\ pc[s] = "done"
    /\ status' = [status EXCEPT ![task[s].chunk] = "DONE"]
    /\ Goto(s, "checking")
    /\ UNCHANGED <<batch, workbasket, contents, sent, unrun, task, seen, plan, picked,
                   failures, lost>>

(* batch.succeeded() asks the status the batch had when it was loaded; it  *)
(* archives a workbasket without objects.  archive() demands that it has   *)
(* no transactions either: that an import leaves one without any object,   *)
(* where succeeded() raises TransitionNotAllowed, is left out.             *)
SucceededDone(b) == batch' = [batch EXCEPT ![b] = "DONE"] /\ UNCHANGED workbasket

Succeeded(b) ==
    /\ batch' = [batch EXCEPT ![b] = "SUCCEEDED"]
    /\ workbasket' = IF b \in Owned /\ contents[b] = {}
                     THEN [workbasket EXCEPT ![b] = "ARCHIVED"] ELSE workbasket

CheckBatch(s) ==
    LET b == BatchOfTask(s) IN
    /\ pc[s] = "checking"
    /\ \/ /\ Ready(b) # {}
          /\ Goto(s, "finding")
          /\ UNCHANGED <<batch, workbasket, task, seen, plan, picked>>
       \/ /\ Ready(b) = {} /\ WithStatus(ChunksOf(b), {"ERRORED"}) # {}
          /\ Goto(s, "clearing last")
          /\ UNCHANGED <<batch, workbasket, task, seen, plan, picked>>
       \/ /\ Ready(b) = {} /\ WithStatus(ChunksOf(b), {"ERRORED"}) = {}
          /\ seen[s] = "IMPORTING"
          /\ Succeeded(b)
          /\ Goto(s, "finding")
          /\ UNCHANGED <<task, seen, plan, picked>>
       \/ /\ Ready(b) = {} /\ WithStatus(ChunksOf(b), {"ERRORED"}) = {}
          /\ seen[s] # "IMPORTING"
          /\ Finish(s)
          /\ UNCHANGED <<batch, workbasket>>
    /\ UNCHANGED <<status, contents, sent, unrun, failures, lost>>

(* batch.failed(), from a batch loaded as IMPORTING, clears its workbasket *)
(* and archives it; archive() demands that it is still empty.  From any    *)
(* other status, or not empty, it raises TransitionNotAllowed: nothing is  *)
(* saved, and the chunk keeps the status it has.                           *)
ClearWorkbasket(s) ==
    LET b == BatchOfTask(s) IN
    /\ pc[s] \in {"clearing", "clearing last"}
    /\ IF seen[s] = "IMPORTING"
       THEN /\ contents' = IF b \in Owned THEN [contents EXCEPT ![b] = {}] ELSE contents
            /\ Goto(s, IF pc[s] = "clearing" THEN "archiving" ELSE "archiving last")
            /\ UNCHANGED <<task, seen, plan, picked>>
       ELSE Finish(s) /\ UNCHANGED contents
    /\ UNCHANGED <<status, batch, workbasket, sent, unrun, failures, lost>>

CanArchive(b) == b \in Owned => workbasket[b] = "ARCHIVED" \/ contents[b] = {}

(* A chunk that raised is ERRORED and its task ends there, with no task    *)
(* for another chunk; a batch found failed at its last chunk goes on.      *)
SaveFailed(s) ==
    LET b == BatchOfTask(s)
        c == task[s].chunk
    IN  /\ pc[s] \in {"archiving", "archiving last"}
        /\ IF CanArchive(b)
           THEN /\ workbasket' = IF b \in Owned
                                 THEN [workbasket EXCEPT ![b] = "ARCHIVED"] ELSE workbasket
                /\ batch' = [batch EXCEPT ![b] = "FAILED"]
                /\ IF pc[s] = "archiving last"
                   THEN /\ Goto(s, "finding")
                        /\ UNCHANGED <<status, task, seen, plan, picked>>
                   ELSE /\ status' = [status EXCEPT ![c] = "ERRORED"]
                        /\ Finish(s)
           ELSE Finish(s) /\ UNCHANGED <<status, batch, workbasket>>
        /\ UNCHANGED <<contents, sent, unrun, failures, lost>>

-----------------------------------------------------------------------------
(* find_and_run_next_batch_chunks and setup_chunk_task.                    *)

FindNext(s) ==
    /\ pc[s] = "finding"
    /\ plan' = [plan EXCEPT ![s] = NextLines(BatchOfTask(s))]
    /\ Goto(s, "planning")
    /\ UNCHANGED <<rows, sent, unrun, task, seen, picked, failures, lost>>

(* setup_chunk_task looks for a chunk of the line that is RUNNING, and     *)
(* else takes the first one that is not finished ...                       *)
PickChunk(s, line) ==
    LET chunks == {c \in Chunk : Line[c] = line}
        ready  == WithStatus(chunks, {"WAITING", "RUNNING"})
    IN  /\ pc[s] = "planning"
        /\ line \in plan[s]
        /\ plan' = [plan EXCEPT ![s] = @ \ {line}]
        /\ IF ready = {} \/ WithStatus(chunks, {"RUNNING"}) # {}
           THEN UNCHANGED <<pc, picked>>
           ELSE \E c \in ready : /\ \A d \in ready : Number[c] =< Number[d]
                                /\ Goto(s, "starting")
                                /\ picked' = [picked EXCEPT ![s] = c]
        /\ UNCHANGED <<rows, sent, unrun, task, seen, failures, lost>>

(* ... and then marks it and sends its task, whatever has happened to it   *)
(* since.  The task gets the workbasket of the task that sends it.         *)
StartChunk(s) ==
    /\ pc[s] = "starting"
    /\ status' = [status EXCEPT ![picked[s]] = "RUNNING"]
    /\ sent' = Append(sent, [chunk |-> picked[s], workbasket |-> task[s].workbasket])
    /\ picked' = [picked EXCEPT ![s] = None]
    /\ Goto(s, "planning")
    /\ UNCHANGED <<batch, workbasket, contents, unrun, task, seen, plan, failures, lost>>

FinishPlan(s) ==
    /\ pc[s] = "planning"
    /\ plan[s] = {}
    /\ Finish(s)
    /\ UNCHANGED <<rows, sent, unrun, failures, lost>>

(* A worker takes the task of an upload before the upload has committed    *)
(* its chunk, and dies of DoesNotExist; or it dies while it imports.       *)
LoseTask ==
    /\ sent # << >>
    /\ lost < MaxLost
    /\ lost' = lost + 1
    /\ sent' = Tail(sent)
    /\ UNCHANGED <<rows, unrun, session, failures>>

Die(s) ==
    /\ pc[s] \in {"importing", "done", "checking", "finding", "starting"}
    /\ lost < MaxLost
    /\ lost' = lost + 1
    /\ Finish(s)
    /\ UNCHANGED <<rows, sent, unrun, failures>>

Step(s) ==
    \/ StartImport(s)
    \/ ImportStream(s) \/ ImportRaises(s) \/ SaveDone(s) \/ CheckBatch(s)
    \/ ClearWorkbasket(s) \/ SaveFailed(s)
    \/ FindNext(s) \/ StartChunk(s) \/ FinishPlan(s)
    \/ \E c \in Chunk : PickChunk(s, Line[c])

Next ==
    \/ \E s \in Session : Step(s) \/ Die(s) \/ \E b \in Batch : RunBatch(s, b)
    \/ LoseTask

Spec == Init /\ [][Next]_vars

(* Workers take tasks and run them, and an uploaded batch is run. *)
FairSpec ==
    /\ Spec
    /\ \A s \in Session : WF_vars(Step(s))
    /\ \A b \in Batch : WF_vars(\E s \in Session : RunBatch(s, b))

-----------------------------------------------------------------------------
(* Properties.                                                             *)

Tasks(c) ==
    Cardinality({i \in 1..Len(sent) : sent[i].chunk = c}) +
    Cardinality({s \in Session : pc[s] \in {"importing", "done"} /\ task[s].chunk = c})

(* failed(): "Clearing workbasket ... contents associated with FAILED      *)
(* import": no object of a failed batch stays behind in its workbasket.    *)
Cleared(b) ==
    batch[b] = "FAILED" /\ (\A c \in ChunksOf(b) : Tasks(c) = 0) => contents[b] = {}

FailedIsCleared == \A b \in Owned : Cleared(b)

(* No import has failed, or none that is mixed with others: where no split *)
(* batch is concerned.                                                     *)
Undisturbed(b) == failures = 0 \/ ({b} \cup Dependencies[b]) \cap Split = {}

(* No import has failed, or none of a chunk that may be started twice: a   *)
(* file that waits for no other is a chain of tasks, of which each starts  *)
(* one.                                                                    *)
Chained(b) == failures = 0 \/ (b \notin Split /\ Dependencies[b] = {})

(* A chunk is imported only after the chunks before it on its line, the    *)
(* chunks with the record codes its own depends on, and the batches its    *)
(* batch waits for: although tasks overlap and may be duplicated.          *)
BeforeOnLine(c) == {d \in Chunk : Line[d] = Line[c] /\ Number[d] < Number[c]}
BeforeByCode(c) == {d \in ChunksOf(BatchOf[c]) : Code[d] \in CodeDependencies[Code[c]]}
BeforeByBatch(c) == {d \in Chunk : BatchOf[d] \in Dependencies[BatchOf[c]]}

ImportedInOrder ==
    [][\A c \in Imported' \ Imported :
        /\ Undisturbed(BatchOf[c]) => BeforeByCode(c) \cup BeforeByBatch(c) \subseteq Imported
        /\ Chained(BatchOf[c]) => BeforeOnLine(c) \subseteq Imported]_vars

(* "We only run one chunk at a time when the job isn't split". *)
OneChunkAtATime ==
    \A s, t \in Session :
        /\ pc[s] = "importing" /\ pc[t] = "importing"
        /\ BatchOfTask(s) = BatchOfTask(t) /\ BatchOfTask(s) \notin Split
        => s = t

(* The status of a batch is true: one that is SUCCEEDED has all its chunks *)
(* in the database, if no import has failed or neither it nor a batch that *)
(* it waits for is split; and one that is FAILED, if it is not split, has  *)
(* left none of its objects in its workbasket once its tasks have ended.   *)
BatchStatusIsTrue ==
    \A b \in Batch :
        /\ batch[b] = "SUCCEEDED" /\ Undisturbed(b) => ChunksOf(b) \subseteq Imported
        /\ b \in Owned \ Split => Cleared(b)

(* import_chunk: "Once complete it is also responsible for finding and     *)
(* setting up the next chunk tasks": when no import raises and no task is  *)
(* lost, every batch succeeds, those that wait for others included.        *)
EveryBatchSucceeds ==
    [](failures = 0 /\ lost = 0) => <>(\A b \in Batch : batch[b] = "SUCCEEDED")

(* ... which the code keeps as long as nobody starts a chunk between the   *)
(* two steps of setup_chunk_task that starts it: whichever tasks finish    *)
(* last, one of them goes on with what is left.                            *)
NotStartedTwice == \A s \in Session : pc[s] = "starting" => status[picked[s]] = "WAITING"

NothingStranded ==
    [](failures = 0 /\ lost = 0 /\ NotStartedTwice)
        => <>(\A b \in Batch : batch[b] = "SUCCEEDED")
=============================================================================
