--------------------------- MODULE PackagingQueue ---------------------------
(***************************************************************************)
(* The packaging queue of the publishing app: PackagedWorkBasket rows in   *)
(* priority order, the WorkBasket behind each, the Envelope generated for  *)
(* the top-most row by a Celery task, and the pause switch.                *)
(*                                                                         *)
(* Granularity: @atomic on the views' form_valid, on Manager.create and on *)
(* the queue operations makes each POST one database transaction, so an    *)
(* action is a whole POST, with everything the decorators add to the model *)
(* method it calls.  A task runs as one step too; QueueRaces takes both    *)
(* apart.  Tasks are delivered late, in any order, possibly twice for a    *)
(* row (two schedulings), possibly never.                                  *)
(***************************************************************************)
EXTENDS QueuePositions, FiniteSets, FiniteSetsExt

CONSTANTS
    WorkBasket,         \* rows of workbaskets.WorkBasket
    Pwb,                \* rows PackagedWorkBasket may use
    None,               \* no workbasket
    SeedEnvelopeId,     \* settings.HMRC_PACKAGING_SEED_ENVELOPE_ID, as an int
    FirstYear, LastYear,\* two-digit years the calendar runs through
    MaxPending,         \* bound: envelope tasks waiting at once, per row
    MaxFaults           \* bound: tasks that die and operator repairs

ASSUME RowAssumption == None \notin WorkBasket /\ IsFiniteSet(Pwb)

(* A seed from a later year would put every new ID beyond this year's      *)
(* range: next_envelope_id raises until that year begins.                  *)
ASSUME YearAssumption ==
    /\ SeedEnvelopeId \in Nat
    /\ FirstYear \in Nat
    /\ LastYear \in Nat
    /\ SeedEnvelopeId \div 10000 <= FirstYear

ASSUME BoundAssumption == MaxPending \in Nat /\ MaxFaults \in Nat

VARIABLES
    status,             \* WorkBasket.status
    workbasketOf,       \* PackagedWorkBasket.workbasket
    position,           \* PackagedWorkBasket.position
    processingState,    \* PackagedWorkBasket.processing_state
    envelopeId,         \* PackagedWorkBasket.envelope.envelope_id, or 0
    envelopeState,      \* PackagedWorkBasket.envelope: its validation_state
                        \*   and deleted flag, or "none" for NULL
    pending,            \* create_xml_envelope_file tasks not yet run, per row
    paused,             \* OperationalStatus.is_queue_paused()
    offered,            \* rows for which some page shows "Start processing"
    year,               \* datetime.now().year % 100
    faults              \* tasks that died, repairs an operator made

queueVars    == <<workbasketOf, position, processingState>>
envelopeVars == <<envelopeId, envelopeState>>
vars == <<status, queueVars, envelopeVars, pending, paused, offered, year, faults>>

Statuses == {"EDITING", "QUEUED", "PUBLISHED", "ERRORED"}
ProcessingStates ==
    {"AWAITING_PROCESSING", "CURRENTLY_PROCESSING", "SUCCESSFULLY_PROCESSED",
     "FAILED_PROCESSING", "ABANDONED"}
NoRow == "no row"       \* the PackagedWorkBasket does not exist yet
EnvelopeStates == {"none", "valid", "invalid", "deleted"}

TypeOK ==
    /\ status \in [WorkBasket -> Statuses]
    /\ workbasketOf \in [Pwb -> WorkBasket \cup {None}]
    /\ position \in [Pwb -> Nat]
    /\ processingState \in [Pwb -> ProcessingStates \cup {NoRow}]
    /\ envelopeId \in [Pwb -> Nat]
    /\ envelopeState \in [Pwb -> EnvelopeStates]
    /\ pending \in [Pwb -> Nat]
    /\ paused \in BOOLEAN
    /\ offered \subseteq Pwb
    /\ year \in Nat
    /\ faults \in Nat

-----------------------------------------------------------------------------
(* Queries of PackagedWorkBasketQuerySet. *)

Awaiting  == {p \in Pwb : processingState[p] = "AWAITING_PROCESSING"}
Processing == {p \in Pwb : processingState[p] = "CURRENTLY_PROCESSING"}
Successful == {p \in Pwb : processingState[p] = "SUCCESSFULLY_PROCESSED"}
AllQueued == Awaiting \cup Processing

(* get_top_awaiting, on a given position column: the empty set is None. *)
TopAwaiting(pos) == {p \in Awaiting : pos[p] = 1}

(* p.envelope is not NULL. *)
HasEnvelope(p) == envelopeState[p] # "none"

-----------------------------------------------------------------------------
(* Envelope.next_envelope_id.  IDs are the integers YYNNNN.                *)

IdsPerYear == 10000
YearOf(id) == id \div IdsPerYear

(* last_envelope_for_year: only accepted envelopes count, so the ID of a   *)
(* rejected one is used again.                                             *)
AcceptedIds(y) ==
    {id \in {envelopeId[p] : p \in {q \in Successful : HasEnvelope(q)}} : YearOf(id) = y}

NextIdAfterRejection(y) ==
    Max({0, SeedEnvelopeId, y * IdsPerYear} \cup
            {envelopeId[p] : p \in {q \in Pwb : position[q] = 0}}) + 1

NextEnvelopeId(y) ==
    IF AcceptedIds(y) = {} /\ YearOf(SeedEnvelopeId) # y
    THEN y * IdsPerYear + 1
    ELSE Max(AcceptedIds(y) \cup {0, SeedEnvelopeId}) + 1

(* "Cannot create more than 9999 Envelopes on a single year." *)
IdAvailable(y) == NextEnvelopeId(y) <= y * IdsPerYear + 9999

-----------------------------------------------------------------------------
(* Envelope scheduling.                                                    *)

(* schedule_create_xml_envelope_file for the rows in tops (at most one):   *)
(* nothing is scheduled for a row whose envelope is marked deleted.        *)
Schedule(tops) ==
    LET scheduled == {p \in tops : envelopeState[p] # "deleted"}
    IN  /\ \A p \in scheduled : pending[p] < MaxPending
        /\ pending' = [p \in Pwb |-> IF p \in scheduled THEN pending[p] + 1
                                                        ELSE pending[p]]

(* What create_envelope_on_new_top adds to an operation that has changed   *)
(* the position column to pos while nothing was being processed and the    *)
(* top row to another one: the old top's envelope is deleted, from S3 and  *)
(* by its flag, and unlinked; an envelope is scheduled for the new top.    *)
(* With no old top the request dies on None.refresh_from_db().             *)
ReplaceTopKeepingEnvelope(pos) ==
    /\ TopAwaiting(position) # {}
    /\ UNCHANGED envelopeVars
    /\ Schedule(TopAwaiting(pos))

ReplaceTop(pos) ==
    LET old == TopAwaiting(position) IN
    /\ old # {}
    /\ envelopeId' = [p \in Pwb |-> IF p \in old THEN 0 ELSE envelopeId[p]]
    /\ envelopeState' = [p \in Pwb |-> IF p \in old THEN "none" ELSE envelopeState[p]]
    /\ Schedule(TopAwaiting(pos))

NoEnvelopeOnNewTop(pos) == UNCHANGED <<envelopeVars, pending>>

CreateEnvelopeOnNewTop(pos) ==
    IF Processing # {} \/ TopAwaiting(pos) = TopAwaiting(position)
    THEN UNCHANGED <<envelopeVars, pending>>
    ELSE ReplaceTop(pos)

-----------------------------------------------------------------------------
Init ==
    /\ status = [w \in WorkBasket |-> "EDITING"]
    /\ workbasketOf = [p \in Pwb |-> None]
    /\ position = [p \in Pwb |-> 0]
    /\ processingState = [p \in Pwb |-> NoRow]
    /\ envelopeId = [p \in Pwb |-> 0]
    /\ envelopeState = [p \in Pwb |-> "none"]
    /\ pending = [p \in Pwb |-> 0]
    /\ paused = TRUE            \* no OperationalStatus row
    /\ offered = {}
    /\ year = FirstYear
    /\ faults = 0

(* PackagedWorkBasketManager.create: join the queue behind its last member. *)
JoinQueue(w, p) ==
    \E last \in {0} \cup {position[q] : q \in Pwb} :
        /\ IsMaxPosition(position, last)
        /\ workbasketOf' = [workbasketOf EXCEPT ![p] = w]
        /\ position' = [position EXCEPT ![p] = last + 1]
        /\ processingState' = [processingState EXCEPT ![p] = "AWAITING_PROCESSING"]
        /\ IF Processing = {} /\ last = 0
           THEN Schedule({p})
           ELSE UNCHANGED pending

(* PackagedWorkbasketCreateView.form_valid: WorkBasket.queue, then create  *)
(* the row.  A duplicate is refused by create, and that exception is       *)
(* caught after the workbasket's own change was saved.                     *)
Create(w, p) ==
    /\ status[w] = "EDITING"
    /\ processingState[p] = NoRow
    /\ status' = [status EXCEPT ![w] = "QUEUED"]
    /\ IF \E q \in AllQueued : workbasketOf[q] = w
       THEN UNCHANGED <<queueVars, pending>>
       ELSE JoinQueue(w, p)
    /\ UNCHANGED <<envelopeVars, paused, offered, year, faults>>

(* A request that only changes the order of the queue. *)
Reorder(pos) ==
    /\ position' = pos
    /\ CreateEnvelopeOnNewTop(pos)
    /\ UNCHANGED <<status, workbasketOf, processingState, paused, offered, year, faults>>

PromotePosition(p)      == processingState[p] # NoRow /\ Reorder(Promoted(position, p))
DemotePosition(p)       == processingState[p] # NoRow /\ Reorder(Demoted(position, p))
PromoteToTopPosition(p) == processingState[p] # NoRow /\ Reorder(PromotedToTop(position, p))

(* abandon: remove_from_queue, then WorkBasket.dequeue, then save_after.   *)
(* The instance that save_after writes was read before the old top's       *)
(* envelope was unlinked, so p keeps its reference to that envelope.       *)
Abandon(p) ==
    LET pos == Removed(position, p) IN
    /\ processingState[p] = "AWAITING_PROCESSING"
    /\ position[p] # 0
    /\ status[workbasketOf[p]] = "QUEUED"
    /\ position' = pos
    /\ processingState' = [processingState EXCEPT ![p] = "ABANDONED"]
    /\ status' = [status EXCEPT ![workbasketOf[p]] = "EDITING"]
    /\ IF Processing # {} \/ TopAwaiting(pos) = TopAwaiting(position)
       THEN UNCHANGED <<envelopeState, pending>>
       ELSE /\ envelopeState' = [envelopeState EXCEPT ![p] =
                                    IF @ = "none" THEN "none" ELSE "deleted"]
            /\ Schedule(TopAwaiting(pos))
    /\ offered' = offered \ {p}
    /\ UNCHANGED <<workbasketOf, envelopeId, paused, year, faults>>

(* GET of EnvelopeQueueView: the first row of the page, in position order, *)
(* carries the "Start processing" button when it may be processed.  The    *)
(* page stays open in somebody's browser.                                  *)
ShowEnvelopeQueue(p) ==
    /\ p \in Awaiting
    /\ \A q \in AllQueued : position[p] <= position[q]
    /\ ~paused
    /\ envelopeState[p] = "valid"
    /\ offered' = offered \cup {p}
    /\ UNCHANGED <<status, queueVars, envelopeVars, pending, paused, year, faults>>

(* EnvelopeQueueView._process_envelope and begin_processing.  pop_top sees *)
(* its own row CURRENTLY_PROCESSING, so no envelope is scheduled here.     *)
BeginWhileProcessing(p) ==
    /\ p \in offered
    /\ ~paused
    /\ processingState[p] = "AWAITING_PROCESSING"
    /\ position[p] = 1
    /\ processingState' = [processingState EXCEPT ![p] = "CURRENTLY_PROCESSING"]
    /\ position' = PoppedTop(position, p)
    /\ offered' = offered \ {p}
    /\ UNCHANGED <<status, workbasketOf, envelopeVars, pending, paused, year, faults>>

BeginProcessing(p) ==
    /\ p \in offered
    /\ ~paused
    /\ processingState[p] = "AWAITING_PROCESSING"
    /\ position[p] = 1
    /\ Processing = {}
    /\ processingState' = [processingState EXCEPT ![p] = "CURRENTLY_PROCESSING"]
    /\ position' = PoppedTop(position, p)
    /\ offered' = offered \ {p}
    /\ UNCHANGED <<status, workbasketOf, envelopeVars, pending, paused, year, faults>>

(* create_envelope_on_completed_processing around both completions. *)
CompleteProcessing(p, state, wbStatus) ==
    /\ processingState[p] = "CURRENTLY_PROCESSING"
    /\ status[workbasketOf[p]] = "QUEUED"
    /\ processingState' = [processingState EXCEPT ![p] = state]
    /\ status' = [status EXCEPT ![workbasketOf[p]] = wbStatus]
    /\ IF Processing = {p} THEN Schedule(TopAwaiting(position)) ELSE UNCHANGED pending
    /\ UNCHANGED <<workbasketOf, position, envelopeVars, offered, year, faults>>

ProcessingSucceeded(p) ==
    /\ CompleteProcessing(p, "SUCCESSFULLY_PROCESSED", "PUBLISHED")
    /\ UNCHANGED paused

(* RejectEnvelopeView pauses the queue before the transition. *)
ProcessingFailedConfirmed(p) ==
    /\ CompleteProcessing(p, "FAILED_PROCESSING", "PUBLISHED")
    /\ paused' = TRUE

ProcessingFailed(p) ==
    /\ CompleteProcessing(p, "FAILED_PROCESSING", "ERRORED")
    /\ paused' = TRUE

(* Opening an errored workbasket for editing calls WorkBasket.restore. *)
Restore(w) ==
    /\ status[w] = "ERRORED"
    /\ status' = [status EXCEPT ![w] = "EDITING"]
    /\ UNCHANGED <<queueVars, envelopeVars, pending, paused, offered, year, faults>>

PauseQueue ==
    /\ ~paused
    /\ paused' = TRUE
    /\ UNCHANGED <<status, queueVars, envelopeVars, pending, offered, year, faults>>

UnpauseQueue ==
    /\ paused
    /\ paused' = FALSE
    /\ UNCHANGED <<status, queueVars, envelopeVars, pending, offered, year, faults>>

-----------------------------------------------------------------------------
(* The worker: create_xml_envelope_file and EnvelopeManager.create.        *)

CanCreateAnywhere(p) == Processing = {} /\ IdAvailable(year)

CanCreateWhileProcessing(p) == position[p] = 1 /\ IdAvailable(year)

CanCreateUnlessPaused(p) ==
    ~paused /\ Processing = {} /\ position[p] = 1 /\ IdAvailable(year)

CanCreateEnvelope(p) ==
    /\ Processing = {}
    /\ position[p] = 1
    /\ IdAvailable(year)

TaskDone(p) == pending' = [pending EXCEPT ![p] = @ - 1]

CreateXmlEnvelopeFile(p, verdict) ==
    /\ pending[p] > 0
    /\ CanCreateEnvelope(p)
    /\ envelopeId' = [envelopeId EXCEPT ![p] = NextEnvelopeId(year)]
    /\ envelopeState' = [envelopeState EXCEPT ![p] = verdict]
    /\ paused' = (paused \/ verdict = "invalid")
    /\ TaskDone(p)
    /\ UNCHANGED <<status, queueVars, offered, year, faults>>

(* EnvelopeCurrentlyProccessing, EnvelopeInvalidQueuePosition or           *)
(* ValueError: the task ends without an effect and is not retried.         *)
RefuseEnvelope(p) ==
    /\ pending[p] > 0
    /\ ~CanCreateEnvelope(p)
    /\ TaskDone(p)
    /\ UNCHANGED <<status, queueVars, envelopeVars, paused, offered, year, faults>>

(* The worker dies, rendering fails or S3 refuses the file. *)
LoseTask(p) ==
    /\ faults < MaxFaults
    /\ pending[p] > 0
    /\ TaskDone(p)
    /\ faults' = faults + 1
    /\ UNCHANGED <<status, queueVars, envelopeVars, paused, offered, year>>

-----------------------------------------------------------------------------
(* Management commands.                                                    *)

(* create_envelope_for_top. *)
CreateEnvelopeForTop ==
    /\ faults < MaxFaults
    /\ TopAwaiting(position) # {}
    /\ Schedule(TopAwaiting(position))
    /\ faults' = faults + 1
    /\ UNCHANGED <<status, queueVars, envelopeVars, paused, offered, year>>

(* packaging_queue --reset-positions: number the awaiting rows afresh, in  *)
(* their present order, and delete the rows of their envelopes.  Nothing   *)
(* is scheduled in their place.                                            *)
Renumbered ==
    [p \in Pwb |-> IF p \in Awaiting
                   THEN 1 + Cardinality({q \in Awaiting : position[q] < position[p]})
                   ELSE position[p]]

ResetPositions ==
    /\ faults < MaxFaults
    /\ position' = Renumbered
    /\ envelopeId' = [p \in Pwb |-> IF p \in Awaiting THEN 0 ELSE envelopeId[p]]
    /\ envelopeState' = [p \in Pwb |-> IF p \in Awaiting THEN "none" ELSE envelopeState[p]]
    /\ faults' = faults + 1
    /\ UNCHANGED <<status, workbasketOf, processingState, pending, paused, offered, year>>

NewYear ==
    /\ year < LastYear
    /\ year' = year + 1
    /\ UNCHANGED <<status, queueVars, envelopeVars, pending, paused, offered, faults>>

-----------------------------------------------------------------------------
Manager ==
    \/ \E p \in Pwb : \/ \E w \in WorkBasket : Create(w, p)
                      \/ PromotePosition(p)
                      \/ DemotePosition(p)
                      \/ PromoteToTopPosition(p)
                      \/ Abandon(p)
    \/ \E w \in WorkBasket : Restore(w)
    \/ PauseQueue
    \/ UnpauseQueue

Consumer ==
    \E p \in Pwb : \/ ShowEnvelopeQueue(p)
                   \/ BeginProcessing(p)
                   \/ ProcessingSucceeded(p)
                   \/ ProcessingFailed(p)

RunTask(p) ==
    \/ \E verdict \in {"valid", "invalid"} : CreateXmlEnvelopeFile(p, verdict)
    \/ RefuseEnvelope(p)

Worker == \E p \in Pwb : RunTask(p) \/ LoseTask(p)

Operator == CreateEnvelopeForTop \/ ResetPositions

Next == Manager \/ Consumer \/ Worker \/ Operator \/ NewYear

Spec == Init /\ [][Next]_vars

(* Celery delivers what it has accepted: a waiting task eventually runs. *)
FairSpec == Spec /\ \A p \in Pwb : WF_vars(RunTask(p))

-----------------------------------------------------------------------------
(* Properties.                                                             *)

(* The awaiting rows, and only they, hold positions 1, 2, ... without a    *)
(* gap or a duplicate, whatever sequence of queue operations was done.     *)
QueueOrder == IsQueueOrder(position, Awaiting)

(* begin_processing: only one row may be CURRENTLY_PROCESSING, because the *)
(* ID of the next envelope depends on the outcome of this one.             *)
AtMostOneProcessing == \A p, q \in Processing : p = q

(* The two state machines agree: a workbasket is QUEUED exactly while one  *)
(* row carries it through the queue and PUBLISHED exactly when one row was *)
(* accepted, and no workbasket is carried by two such rows.                *)
StatusAgreement ==
    /\ \A p \in AllQueued : status[workbasketOf[p]] = "QUEUED"
    /\ \A p \in Successful : status[workbasketOf[p]] = "PUBLISHED"
    /\ \A p, q \in AllQueued \cup Successful : workbasketOf[p] = workbasketOf[q] => p = q
    /\ \A w \in WorkBasket :
        /\ status[w] = "QUEUED" => \E p \in AllQueued : workbasketOf[p] = w
        /\ status[w] = "PUBLISHED" => \E p \in Successful : workbasketOf[p] = w

(* Of the rows that await processing only the top-most has an envelope,    *)
(* and not while another one is processed: its ID could not be known yet.  *)
OnlyTopHasEnvelope ==
    \A p \in Awaiting : HasEnvelope(p) =>
        /\ position[p] = 1
        /\ Processing = {}
        /\ envelopeState[p] \in {"valid", "invalid"}

(* The ID on the envelope that is waiting for HMRC, or in HMRC's hands, is *)
(* still the next one in this year's sequence.                             *)
PendingIdIsNext ==
    \A p \in AllQueued :
        HasEnvelope(p) /\ YearOf(envelopeId[p]) = year
            => envelopeId[p] = NextEnvelopeId(year)

FirstIdOf(y) ==
    IF YearOf(SeedEnvelopeId) = y THEN SeedEnvelopeId + 1 ELSE y * IdsPerYear + 1

(* CDS's contiguous numbering: the accepted IDs of a year start at its     *)
(* first ID, have no gap and no duplicate, over rejections, reorderings    *)
(* and a change of year while an envelope is queued or processed.          *)
AcceptedIdsContiguous ==
    \A p \in Successful : HasEnvelope(p) =>
        LET id == envelopeId[p] IN
        /\ id = FirstIdOf(YearOf(id)) \/ id - 1 \in AcceptedIds(YearOf(id))
        /\ \A q \in Successful : HasEnvelope(q) /\ envelopeId[q] = id => q = p

(* From the moment HMRC takes a row its envelope is never replaced,        *)
(* renumbered or deleted, however late a second task for it runs.          *)
EnvelopeFrozen ==
    [][\A p \in Processing \cup Successful :
        /\ envelopeId'[p] = envelopeId[p]
        /\ envelopeState'[p] = envelopeState[p]]_vars

(* As long as no task died and no operator reset the queue, a top row that *)
(* lacks its envelope while nothing is processed has a task on its way.    *)
TopIsScheduled ==
    faults = 0 /\ Processing = {} =>
        \A p \in TopAwaiting(position) : HasEnvelope(p) \/ pending[p] > 0

(* ... and so it cannot lack it for ever. *)
TopGetsEnvelope ==
    \A p \in Pwb :
        []<>~(p \in TopAwaiting(position) /\ Processing = {} /\ ~HasEnvelope(p))

(* state.py, SUCCESSFULLY_PROCESSED: "envelope ingested into CDS".  An     *)
(* accepted row has a valid envelope that CDS can have ingested.           *)
AcceptedHasEnvelope ==
    \A p \in Successful : envelopeState[p] = "valid"

(* create_envelope_on_new_top: deleting an envelope "nulls reference in    *)
(* packaged workbasket".                                                   *)
DeletedIsUnlinked ==
    \A p \in Pwb : envelopeState[p] # "deleted"
=============================================================================
