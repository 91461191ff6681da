# A verification project for TaMaTo

TaMaTo (Tariff Management Tool) is a Django application with Celery workers in
which tariff managers edit the UK tariff in *workbaskets*. A finished workbasket
is put into a *packaging queue*; HMRC takes workbaskets from its head, one at a
time, loads each one's XML *envelope* into CDS and accepts or rejects it.

This directory holds TLA+ modules that model the parts of the system in which
several actors share state: the packaging queue with its envelopes and the
database transactions it runs in; the tariff's own history, made of the
transactions of all workbaskets; the publishing of accepted envelopes to the
Crown Dependencies; TARIC imports; business rule checks; bulk creation and
editing of measures; and the commodity tree, an algorithm that much of the rest
reads. With them come the TLC configurations that check them, and TLAPS proofs
about the queue (with what it promises), the transactions, the Crown
Dependencies, the imports, the bulk jobs and the commodity tree. Paths below are relative to `src/`.

## Inventory

| Component | State | Operations | Hard behaviour | Correct when | Modelled |
|---|---|---|---|---|---|
| Packaging queue (`publishing/models/packaged_workbasket.py`, `publishing/views.py`) | rows with `position`, `processing_state`, `workbasket`, `envelope` | create, promote, demote, promote to top, abandon, begin processing, succeed, fail; two management commands | requests that overlap, stale pages, stale instances saved whole | positions are 1, 2, ...; one row in processing; it agrees with the workbaskets | yes |
| Envelopes (`publishing/models/envelope.py`, `publishing/tasks.py`) | `envelope_id`, validation state, deleted flag; tasks waiting in Celery | create for the top row, delete, next ID | tasks late, twice, lost; rejected IDs used again; change of year; 9999 per year | only the idle queue's top row has one; accepted IDs have no gap | yes (XML as a verdict) |
| Operational status (`publishing/models/operational_status.py`) | paused or not | pause, unpause; paused by a rejection and by an invalid envelope | read outside the transaction it guards | nothing starts while paused | yes, both switches |
| Workbasket workflow (`workbaskets/models.py`) | `status` | queue, dequeue, cds_confirmed, cds_error, restore, archive | two state machines that must agree | QUEUED exactly while a row carries it; contents approved exactly while QUEUED or PUBLISHED | yes (assignments apart) |
| Transactions and versions (`common/models/transactions.py`, `trackedmodel.py`, `tracked_qs.py`) | partition and order of each transaction, `current_version` | save_drafts, move_to_draft, revert_current_version | order of approval against order of keys | one stable history; the current version is approved and not overtaken | yes (queries as of a transaction apart) |
| Workbasket tasks and views (`workbaskets/views/ui.py`, `workbaskets/tasks.py`, `workbaskets/util.py`) | the order column of drafts | promote, demote, delete changes, end objects, clear | reordering through several writes; tasks that arrive late | a workbasket's order is one | yes (forms and sessions apart) |
| Business rule checks (`checks/`) | checks with freshness metadata | set up or resume, check models, complete; reset, terminate, queue | edits, a moving head and other tasks while checks run; rows deleted and inserted again | a workbasket that is queued passes the rules | yes (rules reduced to two kinds) |
| Importer (`importer/`) | batches, chunks, dependencies | run chunks, fail, succeed, start dependents | overlapping tasks without locks, partial failure, lost tasks | chunks in order; the status of a batch is true; a batch ends | running; cutting and parsing apart |
| Crown Dependencies publishing (`publishing/tasks.py`) | envelope state, task lock, pause | publish, resume | lock expiry, timeouts after acceptance, New Year | every accepted envelope once, in order | yes |
| Bulk measure processing (`measures/models/bulk_processing.py`, `measures/tasks.py`) | processing state, task ID | submit, begin, succeed, fail, cancel | whole-row saves of stale instances; cancel against a running task; a workbasket queued or deleted meanwhile | a final state is true; a job ends | yes (forms and measures' data apart) |
| Commodity tree (`commodities/models/dc.py`) | edges, ancestors, descendants of a snapshot | traverse, query | 0-indents nested by suffix, skipped levels, versions | the tree is what the indents mean | construction and queries |
| Reference documents (`reference_documents/`) | version status, reports | review, publish, align | | | no |
| TARIC parsers, exporter, notifications, SDES client, open data, reports, tariff data apps, settings | | | sequential conversions, I/O, data definitions | | no |

How they interact: the create view moves the workbasket to QUEUED (its
transactions go to the approved partition) and adds a row to the queue. Any
operation that changes the top row of an idle queue deletes the old top's
envelope and schedules a Celery task for the new top. The task generates the
envelope, and pauses the queue if it does not validate. Starting to process
takes the row off the order; accepting or rejecting it completes the workbasket
and schedules an envelope for the next top row. Accepted rows feed
`publish_to_api`, which sends them to the Tariff API in the order of their IDs.
A workbasket may be queued once the rule-check worker has a current, fresh and
successful check for each of its transactions; its contents come from edit
pages, from import tasks, and from bulk tasks that outlive the request that sent
them, and none of these three asks whether it has been queued meanwhile.

## Modules

| Module | Models |
|---|---|
| `QueuePositions` | what each operation does to the `position` column; `IsQueueOrder`, what they preserve |
| `PackagingQueue` | the component, one action per request, task or command |
| `ProcessingQueue` | the abstract specification: a sequence, the workbasket in HMRC's hands, the accepted and the rejected ones |
| `MCPackagingQueue` | symmetry and the refinement mapping to `ProcessingQueue` |
| `QueueRaces` | the same operations taken apart into database sessions that overlap |
| `MCQueueRaces` | its symmetry |
| `TransactionOrder` | transactions of all workbaskets: partition, order, current versions |
| `TariffHistory` | the abstract specification: a list of draft changes in each workbasket and one list of approved ones |
| `MCTransactionOrder` | symmetry and the refinement mapping to `TariffHistory` |
| `CrownDependencies` | `publish_to_api` with its lock, the rows it links, and the Tariff API |
| `ImportBatches` | chunks, batches and the tasks that import them |
| `MCImportBatches` | a split seed file, an uploaded file, and an update that waits for both; a smaller instance, in which an update of two chunks waits for a file of one |
| `TransactionChecks` | rule-check tasks beside users who edit, reorder, queue and withdraw |
| `MCTransactionChecks` | two workbaskets, three transactions, four models; a smaller instance for the counterexample |
| `MCHeadDeleted` | one long behaviour of `TransactionChecks`, with three workers, as a counterexample |
| `BulkProcessing` | the jobs that create and edit measures, their tasks, and their workbaskets |
| `MCBulkProcessing` | a creation and an edit with the same key in one workbasket |
| `CommodityTree` | `CommodityTreeSnapshot._traverse` step by step, and the queries on what it leaves |
| `QueuePositionsProofs` | lemmas: every column operation preserves `IsQueueOrder` |
| `PackagingQueueProofs` | the theorems about `PackagingQueue`, and that it keeps the promises of `ProcessingQueue` |
| `TransactionOrderProofs` | the theorems about `TransactionOrder` |
| `QueueRacesProofs` | the theorems about `QueueRaces` |
| `CrownDependenciesProofs` | the theorems about `CrownDependencies` |
| `ImportBatchesProofs` | the theorems about `ImportBatches` |
| `BulkProcessingProofs` | the theorems about `BulkProcessing` |
| `CommodityTreeProofs` | the theorems about `CommodityTree` |

A definition that nothing uses and that is named for what is wrong with it
(`CloseGapUnfiltered`, `BeginWhileProcessing`, ...) is a plausible bug. Put in
place of the definition after it, it must make the property it is listed with
in `PROJECT.json` fail.

### PackagingQueue

State: `status` is `WorkBasket.status`; `workbasketOf`, `position` and
`processingState` are columns of `PackagedWorkBasket`; `envelopeId` and
`envelopeState` stand for the row its `envelope` key refers to; `pending` counts
the `create_xml_envelope_file` tasks waiting for a row; `paused` is the
operational status; `offered` holds the rows for which some browser still shows
a "Start processing" button; `year` is the calendar's; `faults` counts lost
tasks and repairs.

An action is a whole request, task or command, including what the decorators
add. `@save_after`, `@refresh_after`, `@pop_top_after`,
`@create_envelope_on_new_top` and `@create_envelope_on_completed_processing`
wrap most of the model's methods, and their order matters. `Abandon`, for
example, saves an instance that was refreshed before the old top's envelope was
unlinked. The granularity comes from explicit `@atomic` decorators.
`settings/common.py:411` sets `ATOMIC_REQUESTS` at module level, where Django
(which reads it from the `DATABASES` entry) ignores it, so the modules do not
rely on it.

`BeginProcessing` has no guard about the envelope because the code has none:
only the template hides the button. `ShowEnvelopeQueue` is that page's GET, and
`offered` is how stale it can get.

The data left out: the XML and the size and validity of the envelope (a
verdict), the workbasket's contents and checks (a workbasket that may be queued
is `EDITING`), loading reports, notifications and users.

### QueueRaces

Each session (a web or a Celery worker) serves one request at a time. `row` is
the committed table, `draft` what an open transaction has written and therefore
locked, `instance` the copy the session loaded, and `stale` a copy that it is
about to save in full. The steps are the reads and writes at which another
session can come between: `CheckConditions`, `SaveProcessing`, `PopTop`,
`ShiftRest` are `begin_processing`; `ReadTop`, `WriteOrder`, `CompareTop`,
`UnlinkOldTop`, `ReadNewTop`, `SaveNewTop` are a reordering inside
`create_envelope_on_new_top`; `StartRendering` and `SaveEnvelope` are the task;
`Create` holds the table lock and is one step. The database is PostgreSQL at
READ COMMITTED: a query sees what is committed and what its own transaction
wrote, `select_for_update(nowait=True)` fails on a locked row, a plain UPDATE
waits, and of two transactions that wait for each other one is aborted.

Within `WriteOrder` the locking read of the row, of its neighbours and the
update are one step: none of them waits, and nobody can change a row between
the lock and the update.

### TransactionOrder

State: `status` is `WorkBasket.status`; `transactions` maps the primary keys of
the rows that exist to workbasket, object, partition and order; `lastPk` is the
key sequence; `currentVersion` is `VersionGroup.current_version`; the history
`bereft` holds the objects whose current version a user has deleted.

A transaction holds one version of one object. That is how the edit pages,
`new_version` and the bulk tasks make them, and it lets one key stand for
the transaction and for the version. A transaction whose version was deleted can
stay behind, and has `Null` for its object. `first()` and `last()` of a query are
the sets of its rows that none precedes, or follows: empty when the query is, so
that "no such row" is an action that is not enabled where the code returns early,
and of several rows where drafts of different workbaskets share an order, of which
the database picks one.

`Edit` and `EndObject` create a version of an object that the user can see;
`EndObject` puts it before the rest of the workbasket, as `end_objects` and
`delete_objects` do for everything that hangs on a commodity that ends (one
object per step; the code takes them all in one database transaction). The four
moves are those of the order page; moving a selection repeats them, each in a
database transaction of its own. `Queue`, `Dequeue`, `CdsError`, `CdsConfirmed`,
`Restore`, `Archive` and `Unarchive` are the transitions of `WorkBasket` with
what they do to the contents. That the queue's row is in the right state for them
is `PackagingQueue`'s part; here they come in any order the FSM allows, which
includes every order the queue can produce. `DeleteChanges` is the confirmation of a
deletion, which may come from a page that was opened before the workbasket was queued
or published: the versions are deleted whatever the status, and where one was the
current version of its object, that object is left without; the transactions that
become empty are purged only if the workbasket is EDITING. `Queue` of a workbasket
in which all transactions are empty raises. `ImportFailed` is what a failing
import does to its workbasket. It is in a next-state relation of its own
(`SpecWithImports`), since it breaks what the rest keeps.

`TariffHistory` says what all this is for, without keys, partitions or numbers:
queueing appends a workbasket's changes as one block, withdrawal takes out that
block and nothing else, and gives it back to its user in the same order. A published
workbasket keeps its changes and their places, but a late deletion can take out what
a change holds (`Void`), there as anywhere else. Its
lists, in which nothing occurs twice, are written as orders: a list is the set of
pairs of a member and one that is it or comes after it. So an operation on lists
(`Followed`, `Inserted`, `Without`) is one on sets, and `Listed` reads the list of a
set of rows directly off `Before`.

### CrownDependencies

State: `accepted` are the envelope IDs of the SUCCESSFULLY_PROCESSED rows, `link`
their `crown_dependencies_envelope`, `crown` the states of those envelopes,
`received` what the Tariff API has taken and in which order, `inFlight` the POSTs
whose run no longer waits for them, `operational` the publishing switch and `lock`
the cache entry. A run is one execution of the task; its steps are its HTTP
requests and its database transactions: resume the unfinished envelope by a GET,
POST it again if it is not there, then publish what is left, each only if
`NextExpectedToApi` says so. IDs are given out from `Seed` on
(`HMRC_PACKAGING_SEED_ENVELOPE_ID`), which may be of any year; `Legacy` are the IDs
that the service before this one has published. A refusal, a timeout (before or after the API took
the envelope) and the death of the worker are faults. The lock outlives a dead
holder until it expires, and may expire under a live one.

Celery's own retries are left out because they do nothing: a retry has the task
ID of the run it retries, which a unique column holds already (see below).

### ImportBatches

A session is a Celery worker, or a user who starts a batch with `run_batch`. The
steps of `import_chunk` are its autocommitted reads and writes: mark the chunk
DONE, look whether the batch has unfinished chunks, let it succeed or fail, clear
and archive its workbasket, and then, in
`find_and_run_next_batch_chunks`, find the lines that can go on and start the
first waiting chunk of each, in two steps between which another session may do
the same. `Line` is what `setup_chunk_task` filters on beside the batch. What is
in a chunk is left out: a chunk is imported, or its import raises. So is the
condition of `archive()` that the workbasket has no transactions, on which a batch
that succeeds with nothing but empty ones would raise.

### TransactionChecks

State: `status`, `order`, `models` and `data` of the workbaskets, the `approved`
transactions, and the `checks` rows by primary key. A worker sets its workbasket
up (keeping what is current), creates a `TransactionCheck`, checks one model
after the other, loads the check and saves it. Users edit, add and remove
models, reorder, start and terminate checks, queue and withdraw. `Procfile` gives
the queue `rule-check` one process with `--concurrency 1`; nothing in the code
depends on that or keeps a second one from being started, so the model has two.

Rules are reduced to what makes checks go stale: a model may *need* others,
which must be visible from its transaction, and may have *rivals*, which must
not say the same.

Of the ways in which the code can miss a change, eight are known, and each is
recorded in `gaps` when it is taken: a check whose head was withdrawn stays
current ("dequeued"); a deletion takes the check with it ("removed"), happens
while the check runs ("removed during check"), or is confirmed on an old page when
the workbasket has been queued, which nothing shows to the checks of others that
relied on it ("removed late"); a check that is out of date is
deleted with its head, a transaction of another workbasket ("head deleted"); a
check deleted under a worker's hands is inserted again ("reinserted"); reordering
commits before it deletes the checks ("reordered"); queueing looks at the checks
and approves in two steps ("queued late"). `QueuedPassesRules` says that there is
no ninth: a workbasket that is queued with no gap met passes the rules. That is
checked within the bounds and not proved. "head deleted" lies beyond them, at
three workbaskets, three workers and five checks started: it came out of an attempt
to find an inductive invariant, and `MCHeadDeleted` spells out the behaviour, which
is step by step one of `TransactionChecks`. Each gap is described by a finding in
`PROJECT.json`. `Explored` keeps the state space small: a behaviour ends with the
first gap that it does not name, as nothing is claimed from there on.

Queueing a workbasket without transactions asks nothing and approves nothing
(`QueueEmpty`). One that has transactions needs a model in one of them, since the
code compares the checks with the newest `updated_at`, and raises where there is
none. A deletion and the purge of what it leaves empty are separate steps, as the
code has no database transaction around them; the purge begins by reading the status
(`StartPurge`) and raises unless it is EDITING.

### BulkProcessing

State: `row` is a job's row, `status` and `packaged` its workbasket's, `made` where
its measures are. `sent`, `revoked` and `unsaved` are the tasks in the broker, the
revocations the workers know of, and the requests that have sent a task and not
yet saved its ID; `submitting` are the requests that have found their workbasket
EDITING when they loaded it and have not created the job yet, which they do from
that instance, whatever has become of the workbasket (`StartSubmit`, `Submit`); a
worker has `pc`, `task`, the `instance` it loaded and the
workbasket status it has `seen`; a superuser's request has the instance it loaded.
Every `save()` writes the whole instance, which is why the instances are state.

`bulk_create_measures` and `bulk_edit_measures` are the same code on two models, so
one set of actions serves both, and `Creator` and `Editor` tell them apart where it
matters: `TargetOf` is the row the Terminate link of either page finds. A revoked
task may be dropped, killed at any point, or never reached. Four histories
say what happened: `chosen` (jobs a superuser meant to terminate), `withdrawn`
(cancelled before any worker took the task), `putBack` (put back into a queued
state by a late save) and `hasty` (workbaskets queued before their jobs ended, or
while one was being submitted).

`Delete` asks only that the workbasket is empty, as the form does, and archives it
if it has been in the packaging queue, which only an EDITING one can be. The
statements of that request are one step: no property depends on what could come
between them.

### CommodityTree

A step takes the next good of the sorted list, with any suffix and indent, and
places it; then the `while` loop climbs, one ancestor per step. `zeros` and
`column` are the code's `indents`, `edges`, `ancestors` and `descendants` its
dictionaries. The reference, `Under`, says without a traversal what an indented
list means: h is under g if everything after g up to h is deeper than g. `Regular`
lists start with the chapter and skip no level; goods other than the chapter may be
in them in several versions, which counts as one good. For the other lists only
the end of the loop is claimed.

## Runs

| Run | Checks | Shows |
|---|---|---|
| `queue` | `TypeOK`, `QueueOrder`, `AtMostOneProcessing`, `StatusAgreement`, `OnlyTopHasEnvelope`, `PendingIdIsNext`, `AcceptedIdsContiguous`, `EnvelopeFrozen`, `ImplementsProcessingQueue` | request by request, positions, states, envelopes and CDS's contiguous numbering stay in step, over rejections, reorderings, the end of an ID range and a change of year, and the rows implement the abstract queue |
| `queue_liveness` | `TopIsScheduled`, `TopGetsEnvelope` | an idle queue's top row gets its envelope |
| `races_reorder` | `TypeOK`, `QueueOrder`, `Serializable` | while HMRC processes a row, three overlapping requests leave what some one-at-a-time order would |
| `races_all` | `NoRowLost` | with `begin_processing` and the task among them, two overlapping sessions lose no row, even where the order breaks |
| `races_processing` | `AtMostOneProcessing` violated | see below |
| `transactions` | `TypeOK`, `OrdersDistinct`, `PartitionFollowsStatus`, `CurrentIsApproved`, `CurrentNotOvertaken`, `HistoryIsStable`, `ImplementsTariffHistory` | the history of the tariff is one, and stable, and current versions belong to it, over all orders of editing, deleting (late, too), queueing, withdrawing, rejecting and publishing |
| `crown_dependencies` | `TypeOK`, `PublishedOnceInOrder`, `SuccessMeansReceived`, `OneUnfinished`, `PausedForReason`, `EventuallyPublished` | the Tariff API gets each accepted envelope, in order, and once, through refusals, timeouts and dead workers; where the lock expires under a run at work, what is recorded as published has still been received; the publishing pauses by itself only for the named reasons, a seed ahead among them |
| `import_batches` | `TypeOK`, `BatchStatusIsTrue`, `ImportedInOrder`, `NothingStranded` | overlapping tasks respect the order of chunks, record codes and batches, a SUCCEEDED batch is all there and a failed one all gone (batches that are split, or wait for one that is, excepted once an import has failed), and whichever tasks end last, one goes on with what is left |
| `import_stranded` | `EveryBatchSucceeds` violated | see below |
| `transaction_checks` | `TypeOK`, `QueuedPassesRules` | the checks that queueing asks for are good for what is queued, but for eight named gaps |
| `bulk_processing` | `TypeOK`, `OutcomeIsTrue`, `PartitionKept`, `EveryJobEnds` | success, failure and an early cancellation are true of the measures whatever is saved late; queueing a workbasket after its jobs have ended, and while none is being submitted, keeps its contents in one partition; no job stays queued for ever |
| `commodity_tree` | `TreeOfTheList`, `ClimbNeverReturns` | the traversal leaves the tree that the list means, for every list of five goods, and it ends |

Some properties hold under a condition, which is a part of the property and says
what the code leaves open. `PublishedOnceInOrder` and `OneUnfinished` are about
runs that do not overlap (`expired = 0`), and "once" about POSTs that do not outlive
their run. `PausedForReason` names the reasons: runs have overlapped, an envelope was
left over at New Year, or the seed lies ahead (`SeedAhead`). `EventuallyPublished`
leaves out what the last two hold back for good. `CurrentIsApproved` leaves out an
object whose current version a user has deleted, until it gets another, and
`HistoryIsStable` says that what is published stays and has no content but its own,
not that it keeps that. `QueuedPassesRules` leaves out behaviours with a gap.
`BatchStatusIsTrue` promises that all of a SUCCEEDED batch is there where nothing has
failed or neither the batch nor one it waits for is split, and that nothing of a
FAILED one is left where the batch is not split.
`ImportedInOrder` promises the order of record codes and batches where nothing has
failed or neither the batch nor one it waits for is split (`Undisturbed`), and the order on a line where nothing
has failed or the batch is one whose chunks run one by one (`Chained`: not split,
and waiting for no other). A batch that waits may be started twice at once, and one
of its two tasks may fail while the other goes on. `NothingStranded` leaves out
behaviours in which two tasks start one chunk. `PartitionKept` leaves out
workbaskets queued before their jobs have ended or while one is submitted, and `EveryJobEnds` dead workers and
jobs put back by a late save. For each of these there is a finding or a
counterexample below.

### Where code and documentation disagree

Two runs show a disagreement:

* `races_processing`: two users press the button for the same queue while a
  promotion commits between the check of the conditions and the first save. Two
  rows are `CURRENTLY_PROCESSING`, and the query for *the* one being processed
  raises from then on.
* `import_stranded`: two tasks that end together both find the same chunk waiting
  and start it. The second import of a batch's last chunk finds its batch
  SUCCEEDED already, dies on the transition, and the batch that waits for it may
  never be started, although nothing failed and nothing was lost.

The others have a configuration each, to be run by hand with
`tlc -config <cfg> <module>`:

| Configuration | Module | Violates | Because |
|---|---|---|---|
| `PackagingQueueAcceptedHasEnvelope` | `PackagingQueue` | `AcceptedHasEnvelope` | an old page's button starts a row whose envelope a reordering has deleted since; it can be accepted without one |
| `PackagingQueueDeletedIsUnlinked` | `PackagingQueue` | `DeletedIsUnlinked` | abandoning the top row puts back the key to the envelope deleted in the same request |
| `QueueRacesTop` | `QueueRaces` | `QueueOrder` | a reordering reads the new top without a lock in order to store its task's ID, and saves the whole row over another reordering |
| `TransactionOrderRollback` | `MCTransactionOrder` | `RollbackRestoresPrevious` | a rejection makes the approved version with the highest *key* current, not the one approved last |
| `TransactionOrderFailedImport` | `MCTransactionOrder` | `CurrentIsApproved` | `clear_workbasket` makes any newest version current, drafts included |
| `TransactionOrderLateDeletion` | `MCTransactionOrder` | `ApprovedIsNotModified` | a deletion confirmed on an old page takes the version out of an approved, or published, transaction |
| `ImportBatchesOneChunk` | `MCImportBatches` | `OneChunkAtATime` | the look for a running chunk and the mark on the one that is picked are separate statements, and a batch that waits is started by two tasks |
| `CrownDependenciesYearEnd` | `CrownDependencies` | `NextExpectedAfterPrevious` | an envelope left over at New Year is refused, although the one before it is published |
| `CrownDependenciesSeedAhead` | `CrownDependencies` | `FirstAfterSeedExpected` | while the last published ID is below a seed of this year, no envelope is expected, not even the one that follows the seed |
| `TransactionChecksDequeued` | `MCTransactionChecks` | `DequeuedIsNoticed` | a check whose head has been withdrawn compares as newer than everything approved since |
| `TransactionChecksHeadDeleted` | `MCHeadDeleted` | `StaleIsNoticed` | an empty transaction that was the head is deleted, and with it the check that shows those behind it to be out of date |
| `BulkProcessingCancelled` | `MCBulkProcessing` | `CancelledIsConfirmed` | `cancel_task` saves CANCELLED over a success saved since it loaded the row |
| `BulkProcessingTerminated` | `MCBulkProcessing` | `CancelledOnPurpose` | the Terminate link of an edit cancels the creation with the same key |
| `BulkProcessingQueued` | `MCBulkProcessing` | `NothingEntersQueued` | a job writes into a workbasket that has been queued meanwhile |
| `CommodityTreeVersions` | `CommodityTree` | `ClimbNeverReturns` | a chapter loaded in two versions is its own parent, and the loop never ends |
| `CommodityTreeJump` | `CommodityTree` | `NobodyAboveItself` | a good whose indent skips a level is its own ancestor |
| `CommodityTreeHeirs` | `CommodityTree` | `HeirIsPotentialParent` | the heir of an end-dated heading can be nested where `get_potential_parents` does not look |

In `TransactionOrderRollback` w1, w2 and w3 edit an object in this order; w1 is
queued, then w3, then w2, whose version is now current. CDS rejects w1, the head
of the queue, and w3's version becomes current, although w2's stays in the history
behind it. What does hold is `CurrentNotOvertaken`: nothing that was both made and
approved after the current version is ever passed over.

`create_xml_envelope_file` has the same flaw as `QueueRacesTop` over a longer time:
it saves the row it loaded before it rendered the envelope. In `races_all`, which
includes it, `QueueOrder` is therefore not among the properties, and `NoRowLost` is
what can still be promised.

What was met while modelling and needs no run to be seen (the six other gaps of
`TransactionChecks`, the error page on queueing a workbasket of empty transactions, retries of `publish_to_api` that die on a unique column, the
dependencies that the import form drops, the workbasket that a waiting batch is
imported into, the split batch that fails) is under "findings" in `PROJECT.json`.

### Bounds

* `queue`: three workbaskets, three rows, one task waiting per row, one fault.
  Three rows give a top, a middle and a last one, so that every operation has a
  neighbour on each side, and let a rejected workbasket come back. One fault is a
  lost task or a repair. The seed leaves one ID in the first of two years: the end
  of the range is reached, and so is a year that starts at 1 while an envelope
  of the old year is pending.
* `queue_liveness`: two workbaskets, three rows, two tasks waiting per row, no
  fault; IDs to spare. No symmetry, which TLC cannot combine with liveness.
* `races_reorder`: three sessions on three rows beside the one that is being
  processed, so that a request can overlap with two others that commit in
  between. `races_all`: two sessions, all steps, three rows.
* `transactions`: three workbaskets, three transactions, two objects: enough for a
  workbasket with two rows to stand before, between and behind others, for an
  object with versions in three workbaskets, and for a second object that must
  not be touched. Two workbaskets with a draft each that share the last order, behind
  a queued one that is withdrawn or rejected, are among them. Orders go up to 4, one
  above the number of rows: a workbasket that starts from the last approved order
  counts on from there, and one that is withdrawn goes behind the drafts there are. The
  scheme is `SEED_FIRST`, the default, which puts the first workbasket into one
  partition and the others into the next; the proofs cover the other two.
* `crown_dependencies`: two runs, three years of three IDs, two envelopes after the
  one of the code before this one, two faults (a timeout and a death in one
  behaviour), one POST that arrives late and one lock that expires under its run:
  each of the last two is what a property excludes, and more of them add nothing to
  it. The seed is of the first year and one ahead of the last published ID: in that
  year it holds everything back. Later years start at 1 and are published as usual,
  unless nothing was published in the year before: then the last published ID is two
  years old and is compared with the seed again.
* `import_batches`, `import_stranded`: two sessions; three batches, of a split file
  of three record codes, one of which depends on another, of an uploaded file of
  two chunks, and of an update that waits for both; one import that raises, one
  task that is lost. The shortest way to each disagreement needs two sessions.
  `ImportBatchesWaiting.cfg` checks, by hand, the first two properties on the smaller
  instance with three sessions, in which tasks of one batch that is not split
  overlap.
* `transaction_checks`: two workbaskets, three transactions, four models, two
  sessions, two rule checks started, three changes by users: one change to make a
  rule fail, one to hide it, and one that touches the checks. Behaviours end with the
  first gap.
* `bulk_processing`: a creation and an edit with the same key in one workbasket, one
  worker as `Procfile` has it, one superuser, one death of a worker.
* `commodity_tree`: five goods, indents up to 3, suffixes 10, 20 and 80; two nested
  0-indents with two goods below need five. The second and third may come in two
  versions.
* `MaxPending` bounds the tasks waiting for one row (`Schedule` is not enabled
  beyond it), `MaxFaults` the faults, `LastYear` the years, `MaxPk` the
  transactions ever made, `MaxOrder` the order numbers, `MaxAccepted`, `MaxOverdue`
  and `MaxExpired` the accepted envelopes, late POSTs and expired locks,
  `MaxFailures` and `MaxLost` the imports that raise and the tasks lost,
  `MaxRequests` and `MaxChanges` what users do, `MaxDeaths` the dead workers, and
  `MaxCommodities` and `MaxIndent` the list.

Deadlock checking is off where the system may stop: every row completed and the
faults used up, every workbasket published, every batch imported, every job
ended, every change made, the list read to its end.

### Fairness

* `PackagingQueue`: a task that waits for a row eventually runs (weak fairness of
  `RunTask`), which is Celery delivering what it accepted. Users are assumed to do
  nothing in particular. `queue_liveness` excludes lost tasks, since the code
  neither retries nor reschedules them, and has IDs to spare, since a task
  without an ID ends without effect. The property says that the top row of an
  idle queue is, again and again, *not* without an envelope: a manager can keep
  changing the top for ever, but each top is either replaced or served.
* `CrownDependencies`: Celery beat starts the task again and again, a worker that
  does not die runs its code, and the cache drops the lock of a dead run. Users
  may pause: `EventuallyPublished` asks that the publishing stays unpaused in the
  end.
* `ImportBatches`: workers take tasks and run them, and a batch that has been
  uploaded is run.
* `BulkProcessing`: workers take tasks and run them, and a request that
  terminates a job goes on to its end. Workers need not obey a revocation.
* None in `TransactionChecks`, whose workers may stop anywhere, in
  `TransactionOrder`, in the races and in `CommodityTree`, whose properties are
  about what never happens.

## Proofs

For any set of workbaskets, any finite set of rows, any bounds and any years
not before the seed's (`RowAssumption`, `YearAssumption`, `BoundAssumption`):

| Theorem | Statement |
|---|---|
| `TypeCorrect` | `Spec => []TypeOK` |
| `QueueAlwaysInOrder` | `Spec => []QueueOrder` |
| `NeverTwoProcessing` | `Spec => []AtMostOneProcessing` |
| `OnlyTopEverHasEnvelope` | `Spec => []OnlyTopHasEnvelope` |
| `EnvelopesStayFrozen` | `Spec => EnvelopeFrozen` |
| `StatusesAlwaysAgree` | `Spec => []StatusAgreement` |
| `TopAlwaysScheduled` | `Spec /\ []IdAvailable(year) => []TopIsScheduled` |
| `PendingIdAlwaysNext` | `Spec => []PendingIdIsNext` |
| `AcceptedIdsAlwaysContiguous` | `Spec => []AcceptedIdsContiguous` |
| `QueueImplementsPromise` | `Spec => ImplementsProcessingQueue` |

`TypeOK` is inductive by itself; the one obligation with content is that the
next ID and the renumbered positions are naturals, for which `MaxOfFinite` shows
that the maximum of a finite set of naturals is one of them.

`QueueOrder` is inductive with `TypeOK` and `AtMostOneProcessing`: each action
changes the position column by an operator of `QueuePositions` and the set of
awaiting rows by at most one row. `QueuePositionsProofs` shows, without the
state machine, that each operator takes a column in order for a set Q to one in
order for Q, Q without p, or Q with p. "No gap" is stated as "every position
between 1 and an occupied one is occupied" rather than by the size of the set,
so that no proof has to count. Only `reset_queue_positions` counts: it gives
each row 1 plus the number of awaiting rows in front of it, and `RowsBefore`
shows that in a queue in order this number is the row's position less one.

`OnlyTopHasEnvelope` needs `QueueOrder` (only one row is at position 1, so the
row a task serves is the row `ReplaceTop` cleared) and in turn the rule that an
awaiting row's envelope is never a deleted one, which is why that is a part of
it. `EnvelopeFrozen` follows for each action: what deletes or replaces an
envelope names an awaiting row, or a row at position 1, and by `QueueOrder` a
row in processing or accepted has position 0.

`StatusAgreement` reads the status of a row's workbasket; its invariant `StatusInv`
adds that every row there is has one.
`TopIsScheduled` is proved as long as `IdAvailable(year)`, because
`next_envelope_id` raises when a year's 9999 IDs are used up and the task then ends
for nothing; lost tasks and operators' resets are in the property itself.
`PendingIdIsNext` speaks of this year's IDs only and is not inductive: an envelope
made last year adds to last year's IDs when it is accepted. `IdInv` says of a
pending ID, whatever year it is of, that it is the next one of its own year.

`QueueImplementsPromise` goes by steps: `QueueRead` reads a sequence off a position
column, `Reads` says that it has each row's workbasket at the row's position, and
for each column operation a lemma shows which operation on sequences it reads as.
That the sequence has as many places as the queue has rows is
`PositionsFillRange` of `QueuePositionsProofs`.

About `QueueRaces`, for any sessions and any finite set of rows (`RaceAssumption`):

| Theorem | Statement |
|---|---|
| `TypeCorrect` | `Spec => []TypeOK` |
| `NeverARowLost` | `Spec => []NoRowLost` |
| `OrderSurvivesOverlap` | `Spec => []QueueOrder`, if `OnlyReorderings` |
| `RequestsSerializable` | `Spec => Serializable`, if `OnlyReorderings` |

`NoRowLost` rests on `CopiesWell`: every copy of a row that a session holds, saved
late or not, has a position exactly if it awaits processing, except between
the two writes of `begin_processing`. The argument uses no lock, which is why the
theorem holds where the order does not. `OnlyReorderings` says that a row is
in HMRC's hands and that requests reorder, abandon or create: with an idle queue, or
with `begin_processing` or the task among the requests, whole rows are saved from
old reads and `QueueOrder` is false (`QueueRacesTop`). Under it, `Orderly` is
inductive: what a request has written, once it has its locks, is what its operation
makes of the table *as it is now*. The heart is `ReorderedElsewhere`: whoever commits
in between has touched only other rows and has put none behind the last, so that
the operation, computed again, makes the same moves. `create`, which adds a row at
the end, holds the table lock and overlaps with nothing.

About `TransactionOrder`, for any sets of workbaskets and objects, each of the
three schemes and any bounds (`SchemeAssumption`, `BoundAssumption`, and
`ObjectAssumption`, that `Null` is no object):

| Theorem | Statement |
|---|---|
| `TypeCorrect` | `Spec => []TypeOK` |
| `OrdersStayDistinct` | `Spec => []OrdersDistinct` |
| `PartitionAgreesWithStatus` | `Spec => []PartitionFollowsStatus` |
| `CurrentAlwaysApproved` | `Spec => []CurrentIsApproved` |
| `CurrentNeverOvertaken` | `Spec => []CurrentNotOvertaken` |
| `HistoryStaysStable` | `Spec => HistoryIsStable` |
| `TransactionsImplementHistory` | `Spec => ImplementsTariffHistory` |

None of these is inductive alone. `OrdersDistinct` needs `PartitionFollowsStatus`,
because a reordering that gives numbers to one workbasket's rows says nothing
about approved rows only if no row of an EDITING workbasket is approved.
`CurrentNotOvertaken` needs `CurrentIsApproved` and `OrdersDistinct`: a newly
queued version has the largest place in the history, so it is enough that the
newest of the workbasket's own versions is chosen, while a rejection leaves the
newest of all that remain, which nothing newer can follow. The order that queueing
and withdrawal give the moved rows is proved from `Rank`: in a finite set in which
orders are distinct, `Rank` is injective and keeps the order. The invariant is
their conjunction `IInv`, with `Core` for the parts that do not speak of current
versions; each action's step is a lemma that first shows which rows it changes.

`TransactionsImplementHistory` rests on the same lemmas. An edit is seen in one list
only (`EditingSeen`), where one row is new or has moved and all others keep their
order (`OneChange`), whichever numbers were raised, lowered or swapped for it; by
`InsertedInOrder` such a list is the old one with that row put behind one of its
fronts. Queueing and withdrawal keep the order within the workbasket and every other
row (`OnlyMoves`), so that what they add to the history, or take out, is its block.
Where drafts of other workbaskets share the last order, whichever row the database
picks has that order, and nothing in these arguments depends on the choice. A late
deletion changes no row's place, only what some rows hold (`Voids`), and takes current
versions away only by putting their objects into `bereft`; that is why
`CurrentIsApproved` and `HistoryIsStable` have their exceptions, and no more.

About `CrownDependencies`, for any number of runs, years and faults
(`CrownAssumption`):

| Theorem | Statement |
|---|---|
| `TypeCorrect` | `Spec => []TypeOK` |
| `AlwaysPublishedOnceInOrder` | `Spec => []PublishedOnceInOrder` |
| `SuccessAlwaysMeansReceived` | `Spec => []SuccessMeansReceived` |
| `NeverTwoUnfinished` | `Spec => []OneUnfinished` |
| `AlwaysPausedForReason` | `Spec => []PausedForReason` |

While no lock expires too early, one run is at work (`OneRun`); its list holds the
unpublished rows up to some ID, and a row has its envelope only when the API has
received all before it (`InTurn`). That two rows share no
`CrownDependenciesEnvelope` is kept even where runs overlap (`LinksKept`), and so is
`SuccessMeansReceived`. `Numbering` says
that the IDs of a year are without a gap above the seed: `Package` counts on from the
larger of the last accepted ID and the seed, which may be of any year. Below the seed
there may be gaps, so that the last published ID shows whether all before a row have
been received only where it is not below the seed; `SeedAhead` is the other case, in
which `next_expected_to_api` refuses every row.

About `ImportBatches`, for any batches, chunks, sessions, failures and lost tasks
(`ImportAssumption`):

| Theorem | Statement |
|---|---|
| `TypeCorrect` | `Spec => []TypeOK` |
| `BatchStatusAlwaysTrue` | `Spec => []BatchStatusIsTrue` |
| `AlwaysImportedInOrder` | `Spec => ImportedInOrder` |

A batch that is not split and waits for no other has at most one task at a time, in
the broker, at work, or about to be sent (`OneToken`): the one that ends sends the
next. From this follow the order of its chunks (`InSequence`) and that it is either
`Intact` or `Broken`: an import has raised, one chunk will never be done, and no
task is left to say that the batch succeeded. A batch that waits may be started
twice, has no such token, and keeps what it needs because those it waits for are
complete (`WaitedFor`) and its workbasket is its own (`Provenance`). Only where
nothing fails is the order proved for every batch (`InOrder`). The proof uses that
no record code depends on itself, as in `importer/utils.py:139`.

About `BulkProcessing`, for any jobs, workbaskets, workers and superusers
(`BulkAssumption`, `RowAssumption`):

| Theorem | Statement |
|---|---|
| `TypeCorrect` | `Spec => []TypeOK` |
| `OutcomeAlwaysTrue` | `Spec => []OutcomeIsTrue` |
| `PartitionAlwaysKept` | `Spec => []PartitionKept` |

A job whose task is in the broker has no measures yet, and a worker's place in the
code says whether its job has (`WorkerKnows`); a job that has ended, or was
withdrawn before a worker took it, is neither in the broker nor with a worker again
(`EndedForGood`). `PartitionKept` needs that a workbasket in which a job waits or
works, or for which one is being submitted, is QUEUED only in haste
(`QueuedInHaste`), and that rows and the instances
that may still be saved refer to the workbasket of their job (`ReferencesKept`).

About `CommodityTree`, for lists of any length, indents of any depth, any suffixes
and any goods in several versions, the chapter and goods that skip a level excepted
(`~AnyVersions`: with them both are false, as `CommodityTreeVersions` shows):

| Theorem | Statement |
|---|---|
| `ColumnsAlwaysInOrder` | `Spec => [](TypeOK /\ ClimbInv)` |
| `ClimbAlwaysGoesUp` | `Spec => []ClimbNeverReturns` |
| `TreeIsAlwaysThatOfTheList` | `Spec => []TreeOfTheList` |

The climb goes up because every parent comes before its child (`Upward`), also in
lists that skip levels. For a good that is new this is so because all goods in the
columns have been read before (`ZerosInv`, `ColumnInv`). The second version of a
good finds itself in the columns; in a regular list it is passed over, because
the parent that is chosen has a lower suffix, a lower indent or is the first of
the list (`ParentBefore`). As no good comes twice on the way up and the goods before
a good are finitely many, the loop ends.

For the tree, `RegularColumn` says what the column is in a regular list: at each
indent the last good there, with nothing but deeper goods behind it. From it
`ParentIs` shows for each kind of indent that the parent found is the last of the
goods whose block the child lies in (`ParentsInv`). Blocks nest (`UnderTransitive`,
`UnderBetween`), and a list that is read further leaves the blocks of earlier goods
as they are (`UnderStays`); so at each round of the loop what it has collected lies
above the last good, and what lies above it and is missing comes before the place
reached (`CollectedInv`). When that place has no parent, nothing is missing.

Only model-checked: `TypeOK` and `QueuedPassesRules` of `TransactionChecks`; and the
liveness
properties (`TopGetsEnvelope`, `EventuallyPublished`, `NothingStranded`,
`EveryJobEnds`), which are out of the prover's reach.

## Plan

1. Proofs: `TypeOK` and `QueuedPassesRules` of `TransactionChecks`.
2. Overlapping requests on transactions, as `QueueRaces` has them for the queue: two
   workbaskets queued at once, two transactions added to one.
3. Queries as of a transaction (`approved_up_to_transaction`), beside the stored
   `current_version`.

## Not modelled

The map covers a small share of the implementation's lines, because most of them
handle data one request at a time, with no state that outlives it except the rows
it writes, and have nothing that a state space would show:

* forms, views, templates, filters, serializers and permissions, the larger part of
  every app; the tasks app, reports, notifications, the admin pages (in which a
  superuser can change states by hand) and the home page;
* parsers, chunkers and exporters (`importer/` but for its tasks, `taric_parsers/`,
  `exporter/`), which convert between XML, SQLite and models, and the duty sentence
  parser: pure functions of long inputs, whose meaning is their grammar;
* business rules: each is a query over validity ranges and relations of data that
  TLC would have to enumerate, and is a definition rather than a mechanism. When
  they are evaluated, and against what, is `TransactionChecks`;
* the data definitions of measures, quotas, regulations, footnotes, certificates,
  additional codes, geographical areas and reference documents, open data copies
  and database migrations;
* commodity collections, their changes and side effects, whose conditions are date
  ranges over whole query sets.

Within what is modelled, the pause flag is read before `begin_processing` opens its
transaction: the module evaluates it in one step with the rest of its request, and
`PROJECT.json` lists this among the hazards that no property covers yet. A task is
taken to be sent together with the request that sends it, except in
`BulkProcessing`, where it may run before the request has saved its ID.
