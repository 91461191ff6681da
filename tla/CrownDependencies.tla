------------------------- MODULE CrownDependencies -------------------------
(***************************************************************************)
(* Publishing to the Crown Dependencies: the task publish_to_api posts the *)
(* envelopes that HMRC has accepted to the Tariff API, in the order of     *)
(* their IDs.  Celery beat starts it every two hours, users can start it   *)
(* by hand, and a lock in the cache, which expires after ten minutes       *)
(* whether or not its holder is still working, keeps two runs apart.       *)
(*                                                                         *)
(* An envelope ID "YYNNNN" is the number YY * 10000 + NNNN.  Celery's      *)
(* retries of a failed run are left out: they keep the task ID of the run  *)
(* they retry, which CrownDependenciesPublishingTask.task_id, a unique     *)
(* column, already holds, so they die before they publish anything.        *)
(***************************************************************************)
EXTENDS Integers, Sequences, FiniteSets

CONSTANTS
    Runs,           \* bound: runs of publish_to_api that may overlap
    Dead,           \* stands for a lock holder that died
    None,           \* no run, no list
    Seed,           \* HMRC_PACKAGING_SEED_ENVELOPE_ID
    Legacy,         \* envelopes with published_to_tariffs_api: published by
                    \*   the code before this one
    FirstYear, LastYear,
    MaxPerYear,     \* bound: the largest NNNN of a year
    MaxAccepted,    \* bound: envelopes accepted
    MaxFaults,      \* bound: refusals, timeouts and deaths of a worker
    MaxOverdue,     \* bound: POSTs still on their way when their run gives up
    MaxExpired      \* bound: locks that expire under a run at work

Run == 1..Runs
Id == UNION {(y * 10000 + 1)..(y * 10000 + MaxPerYear) : y \in FirstYear..LastYear}
YearOf(id) == id \div 10000

ASSUME CrownAssumption ==
    /\ Runs \in Nat
    /\ {Dead, None} \cap Run = {} /\ Dead # None
    /\ None \notin Id /\ \A ids \in SUBSET Id : ids # None
    /\ FirstYear \in Nat \ {0} /\ LastYear \in Nat /\ FirstYear =< LastYear
    /\ Seed \in Nat
    /\ MaxPerYear \in 1..9999
    /\ Legacy \subseteq {id \in Id : YearOf(id) = FirstYear}
    /\ \A id \in Legacy : \A n \in (FirstYear * 10000 + 1)..id : n \in Legacy \/ n =< Seed
    /\ MaxAccepted \in Nat /\ MaxFaults \in Nat /\ MaxOverdue \in Nat /\ MaxExpired \in Nat

VARIABLES
    year,           \* today's year, two digits
    packaged,       \* the ID of the envelope that is with HMRC, or None
    accepted,       \* envelope IDs of the SUCCESSFULLY_PROCESSED rows
    link,           \* row.crown_dependencies_envelope: an index of crown, 0 for NULL
    crown,          \* publishing_state of each CrownDependenciesEnvelope
    received,       \* what the Tariff API has taken, in that order
    inFlight,       \* POSTs whose run has given up on them
    operational,    \* the last CrownDependenciesPublishingOperationalStatus
    lock,           \* the cache entry "publish_to_api-lock"
    pc, at, envelope, todo,     \* each run: its place in the code, the row and the
                                \*   CrownDependenciesEnvelope it works on, its list
    faults, overdue, expired

queue == <<year, packaged, accepted>>
api == <<received, inFlight>>
rows == <<link, crown>>
control == <<pc, at, envelope, todo>>
counters == <<faults, overdue, expired>>
vars == <<queue, rows, api, operational, lock, control, counters>>

ApiPublishingState == {"CURRENTLY_PUBLISHING", "SUCCESSFULLY_PUBLISHED", "FAILED_PUBLISHING"}
Received == {received[i] : i \in 1..Len(received)}

TypeOK ==
    /\ year \in FirstYear..LastYear
    /\ packaged \in Id \cup {None}
    /\ accepted \subseteq Id
    /\ crown \in Seq(ApiPublishingState)
    /\ link \in [Id -> 0..Len(crown)]
    /\ received \in Seq(Id) /\ inFlight \subseteq Id
    /\ operational \in [publishing_state : {"none", "PAUSED", "UNPAUSED"},
                        created_by : {"user", "system"}]
    /\ lock \in Run \cup {Dead, None}
    /\ pc \in [Run -> {"idle", "incomplete", "getting", "posting", "succeeded",
                       "failed", "listing", "next"}]
    /\ at \in [Run -> Id \cup {None}]
    /\ envelope \in [Run -> 0..Len(crown)]
    /\ todo \in [Run -> (SUBSET Id) \cup {None}]
    /\ faults \in 0..MaxFaults /\ overdue \in 0..MaxOverdue /\ expired \in 0..MaxExpired

-----------------------------------------------------------------------------
(* get_unpublished_to_api, CrownDependenciesEnvelope.objects.unpublished.  *)
Unpublished == {id \in accepted \ Legacy : link[id] = 0}
InState(states) == {c \in 1..Len(crown) : crown[c] \in states}
CurrentlyIncomplete == InState({"CURRENTLY_PUBLISHING"})
Incomplete == InState({"CURRENTLY_PUBLISHING", "FAILED_PUBLISHING"})
RowsOf(c) == {id \in accepted : link[id] = c}

IsPaused == operational.publishing_state \in {"none", "PAUSED"}
StatusOfNobody(state, user) == [publishing_state |-> state, created_by |-> "none"]

Status(state, user) == [publishing_state |-> state, created_by |-> user]
PausePublishing(user) ==
    operational' = IF IsPaused THEN operational ELSE Status("PAUSED", user)

(* Maximum of no IDs is NULL, which counts as 0. *)
IsLast(S, last) ==
    IF S = {} THEN last = 0 ELSE last \in S /\ \A id \in S : id =< last

FirstToPublish(S) == CHOOSE id \in S : \A other \in S : id =< other

LastPublishedEnvelopeId ==
    CHOOSE last \in Id \cup {0} : IsLast(Legacy \cup {id \in accepted : link[id] # 0}, last)

NextExpectedThisYear(id) ==
    LET previous == LastPublishedEnvelopeId IN
    IF previous = 0 \/ YearOf(previous) = year
    THEN id = year * 10000 + 1
    ELSE previous >= Seed

(* next_expected_to_api never compares id with the last published ID,      *)
(* except at the start of a year.                                          *)
NextExpectedToApi(id) ==
    LET previous == LastPublishedEnvelopeId IN
    IF previous = 0 \/ YearOf(previous) = year - 1
    THEN id = year * 10000 + 1
    ELSE previous >= Seed

-----------------------------------------------------------------------------
Init ==
    /\ year = FirstYear
    /\ packaged = None
    /\ accepted = Legacy
    /\ link = [id \in Id |-> 0] /\ crown = << >>
    /\ received = << >> /\ inFlight = {}
    /\ operational = Status("none", "system")
    /\ lock = None
    /\ pc = [r \in Run |-> "idle"] /\ at = [r \in Run |-> None]
    /\ envelope = [r \in Run |-> 0] /\ todo = [r \in Run |-> None]
    /\ faults = 0 /\ overdue = 0 /\ expired = 0

(* The envelopes last_envelope_for_year looks at, and next_envelope_id,    *)
(* which raises ValueError for a number above 9999.                        *)
AcceptedThisYear == {id \in accepted : YearOf(id) = year}

FollowsLastAccepted(id) ==
    \E last \in {0} \cup AcceptedThisYear :
        /\ IsLast(AcceptedThisYear, last)
        /\ id = IF last = 0 /\ YearOf(Seed) # year THEN year * 10000 + 1
                ELSE IF last >= Seed THEN last + 1 ELSE Seed + 1
        /\ id =< year * 10000 + 9999

(* The packaging queue, in brief.  One envelope at a time is with HMRC; it *)
(* has the ID after the last accepted one of the year it was made in, and  *)
(* after the seed, and may be accepted in the next year.                   *)
Package(id) ==
    /\ packaged = None
    /\ Cardinality(accepted) < MaxAccepted
    /\ id \in Id
    /\ FollowsLastAccepted(id)
    /\ packaged' = id
    /\ UNCHANGED <<year, accepted, rows, api, operational, lock, control, counters>>

Accept ==
    /\ packaged # None
    /\ accepted' = accepted \cup {packaged}
    /\ packaged' = None
    /\ UNCHANGED <<year, rows, api, operational, lock, control, counters>>

NewYear ==
    /\ year < LastYear
    /\ year' = year + 1
    /\ UNCHANGED <<packaged, accepted, rows, api, operational, lock, control, counters>>

(* The toggle on the admin page: pause_publishing or unpause_publishing.   *)
Pause ==
    /\ ~IsPaused
    /\ PausePublishing("user")
    /\ UNCHANGED <<queue, rows, api, lock, control, counters>>

Unpause ==
    /\ IsPaused
    /\ operational' = Status("UNPAUSED", "user")
    /\ UNCHANGED <<queue, rows, api, lock, control, counters>>

-----------------------------------------------------------------------------
(* One run.                                                                *)

Goto(r, label) == pc' = [pc EXCEPT ![r] = label]

(* The task returns or raises; a lock that has expired is no longer its    *)
(* own, and it leaves it alone.                                            *)
Stop(r) ==
    /\ Goto(r, "idle")
    /\ at' = [at EXCEPT ![r] = None]
    /\ envelope' = [envelope EXCEPT ![r] = 0]
    /\ todo' = [todo EXCEPT ![r] = None]
    /\ lock' = IF lock = r THEN None ELSE lock

Fault ==
    /\ faults < MaxFaults
    /\ faults' = faults + 1
    /\ UNCHANGED <<overdue, expired>>

(* cache.add, and the look at the operational status.  A run that finds    *)
(* the lock taken or the publishing paused ends with nothing done; where   *)
(* no status was ever recorded it works.  Runs are alike: the first idle   *)
(* number is taken.                                                        *)
Begin(r) ==
    /\ pc[r] = "idle" /\ \A s \in 1..(r - 1) : pc[s] # "idle"
    /\ lock = None
    /\ operational.publishing_state # "PAUSED"
    /\ Incomplete \cup Unpublished # {}
    /\ lock' = r
    /\ Goto(r, "incomplete")
    /\ UNCHANGED <<queue, rows, api, operational, at, envelope, todo, counters>>

(* The unfinished CrownDependenciesEnvelope of an earlier run comes first. *)
(* If its row has been linked to another one since, it has no row left and *)
(* the task dies on packaged_workbasket.envelope.                          *)
ReadIncomplete(r) ==
    /\ pc[r] = "incomplete"
    /\ \/ /\ Incomplete = {}
          /\ Goto(r, "listing")
          /\ UNCHANGED <<operational, lock, at, envelope, todo>>
       \/ /\ Cardinality(Incomplete) > 1
          /\ PausePublishing("system")
          /\ Stop(r)
       \/ \E c \in Incomplete :
            /\ Incomplete = {c}
            /\ RowsOf(c) = {}
            /\ Stop(r)
            /\ UNCHANGED operational
       \/ \E c \in Incomplete : \E id \in RowsOf(c) :
            /\ Incomplete = {c}
            /\ at' = [at EXCEPT ![r] = id]
            /\ envelope' = [envelope EXCEPT ![r] = c]
            /\ Goto(r, "getting")
            /\ UNCHANGED <<operational, lock, todo>>
    /\ UNCHANGED <<queue, rows, api, counters>>

(* Has it been published after all?  200, or 400 and 404. *)
PostAgain(r) ==
    /\ pc[r] = "getting"
    /\ Goto(r, "posting")
    /\ UNCHANGED <<queue, rows, api, operational, lock, at, envelope, todo, counters>>

BelieveItArrived(r) ==
    /\ pc[r] = "getting"
    /\ Goto(r, "succeeded")
    /\ UNCHANGED <<queue, rows, api, operational, lock, at, envelope, todo, counters>>

GetEnvelope(r) ==
    /\ pc[r] = "getting"
    /\ Goto(r, IF at[r] \in Received THEN "succeeded" ELSE "posting")
    /\ UNCHANGED <<queue, rows, api, operational, lock, at, envelope, todo, counters>>

(* Another answer, or none within 60 seconds. *)
GetFails(r) ==
    /\ pc[r] = "getting"
    /\ Fault
    /\ Stop(r)
    /\ UNCHANGED <<queue, rows, api, operational>>

Take(id) == received' = Append(received, id)

PostEnvelope(r) ==
    /\ pc[r] = "posting"
    /\ Take(at[r])
    /\ Goto(r, "succeeded")
    /\ UNCHANGED <<queue, rows, inFlight, operational, lock, at, envelope, todo, counters>>

PostRefused(r) ==
    /\ pc[r] = "posting"
    /\ Fault
    /\ Goto(r, "failed")
    /\ UNCHANGED <<queue, rows, api, operational, lock, at, envelope, todo>>

(* requests.exceptions.Timeout leaves the CrownDependenciesEnvelope as it  *)
(* is; the request was lost, its answer was, or it is still on its way.    *)
PostTimesOut(r) ==
    /\ pc[r] = "posting"
    /\ faults < MaxFaults
    /\ faults' = faults + 1
    /\ \/ UNCHANGED <<api, overdue>>
       \/ Take(at[r]) /\ UNCHANGED <<inFlight, overdue>>
       \/ /\ overdue < MaxOverdue
          /\ overdue' = overdue + 1
          /\ inFlight' = inFlight \cup {at[r]}
          /\ UNCHANGED received
    /\ Stop(r)
    /\ UNCHANGED <<queue, rows, operational, expired>>

(* After the unfinished one the list is read, for the first time.  After   *)
(* one of the list the next one follows: the list is not read again.       *)
PublishingSucceeded(r) ==
    /\ pc[r] = "succeeded"
    /\ crown' = [crown EXCEPT ![envelope[r]] = "SUCCESSFULLY_PUBLISHED"]
    /\ Goto(r, IF todo[r] = None THEN "listing" ELSE "next")
    /\ at' = [at EXCEPT ![r] = None]
    /\ envelope' = [envelope EXCEPT ![r] = 0]
    /\ UNCHANGED <<queue, link, api, operational, lock, todo, counters>>

PublishingFailed(r) ==
    /\ pc[r] = "failed"
    /\ crown' = [crown EXCEPT ![envelope[r]] = "FAILED_PUBLISHING"]
    /\ Stop(r)
    /\ UNCHANGED <<queue, link, api, operational, counters>>

ReadList(r) ==
    /\ pc[r] = "listing"
    /\ todo' = [todo EXCEPT ![r] = Unpublished]
    /\ Goto(r, "next")
    /\ UNCHANGED <<queue, rows, api, operational, lock, at, envelope, counters>>

(* CrownDependenciesEnvelope.objects.create, unless this is not the one    *)
(* expected, which pauses the publishing.                                  *)
PublishNext(r) ==
    /\ pc[r] = "next"
    /\ \/ /\ todo[r] = {}
          /\ Stop(r)
          /\ UNCHANGED <<rows, operational>>
       \/ /\ todo[r] # {}
          /\ ~NextExpectedToApi(FirstToPublish(todo[r]))
          /\ PausePublishing("system")
          /\ Stop(r)
          /\ UNCHANGED rows
       \/ LET id == FirstToPublish(todo[r])
              c  == Len(crown) + 1
          IN  /\ todo[r] # {}
              /\ NextExpectedToApi(id)
              /\ crown' = Append(crown, "CURRENTLY_PUBLISHING")
              /\ link' = [link EXCEPT ![id] = c]
              /\ at' = [at EXCEPT ![r] = id]
              /\ envelope' = [envelope EXCEPT ![r] = c]
              /\ todo' = [todo EXCEPT ![r] = @ \ {id}]
              /\ Goto(r, "posting")
              /\ UNCHANGED <<operational, lock>>
    /\ UNCHANGED <<queue, api, counters>>

(* The worker dies: nobody deletes the lock. *)
Die(r) ==
    /\ pc[r] # "idle"
    /\ Fault
    /\ Goto(r, "idle")
    /\ at' = [at EXCEPT ![r] = None]
    /\ envelope' = [envelope EXCEPT ![r] = 0]
    /\ todo' = [todo EXCEPT ![r] = None]
    /\ lock' = IF lock = r THEN Dead ELSE lock
    /\ UNCHANGED <<queue, rows, api, operational>>

Step(r) ==
    \/ ReadIncomplete(r) \/ GetEnvelope(r) \/ GetFails(r)
    \/ PostEnvelope(r) \/ PostRefused(r) \/ PostTimesOut(r)
    \/ PublishingSucceeded(r) \/ PublishingFailed(r)
    \/ ReadList(r) \/ PublishNext(r)

-----------------------------------------------------------------------------
(* CROWN_DEPENDENCIES_API_TASK_LOCK: the lock of a dead run and, when ten  *)
(* minutes were not enough, of one at work.                                *)
ExpireDead ==
    /\ lock = Dead
    /\ lock' = None
    /\ UNCHANGED <<queue, rows, api, operational, control, counters>>

ExpireLive ==
    /\ lock \in Run
    /\ expired < MaxExpired
    /\ expired' = expired + 1
    /\ lock' = None
    /\ UNCHANGED <<queue, rows, api, operational, control, faults, overdue>>

Arrive(id) ==
    /\ id \in inFlight
    /\ inFlight' = inFlight \ {id}
    /\ Take(id)
    /\ UNCHANGED <<queue, rows, operational, lock, control, counters>>

Next ==
    \/ \E id \in Id : Package(id) \/ Arrive(id)
    \/ Accept \/ NewYear \/ Pause \/ Unpause
    \/ \E r \in Run : Begin(r) \/ Step(r) \/ Die(r)
    \/ ExpireDead \/ ExpireLive

Spec == Init /\ [][Next]_vars

(* Celery beat keeps starting the task, a worker that does not die runs    *)
(* its code, and the cache drops what has expired.                         *)
Fairness ==
    /\ \A r \in Run : WF_vars(Begin(r)) /\ WF_vars(Step(r))
    /\ WF_vars(ExpireDead)

FairSpec == Spec /\ Fairness

-----------------------------------------------------------------------------
(* Properties.                                                             *)

(* The API gets the envelopes in the order of their IDs, with none left    *)
(* out, through refusals, timeouts, dead workers and POSTs that arrive     *)
(* late, as long as no two runs overlap; and no envelope twice: the GET    *)
(* for the unfinished envelope finds what an earlier run posted without    *)
(* hearing the answer, unless the POST outlives its run.                   *)
PublishedOnceInOrder ==
    /\ expired = 0 =>
        \A i \in 1..Len(received) : \A id \in accepted \ Legacy :
            id < received[i] => \E j \in 1..(i - 1) : received[j] = id
    /\ expired = 0 /\ overdue = 0 =>
        \A i, j \in 1..Len(received) : received[i] = received[j] => i = j

(* SUCCESSFULLY_PUBLISHED on a row's envelope is true, even where runs     *)
(* overlap, a row is linked twice and the second run saves its own stale   *)
(* view of the state.                                                      *)
SuccessMeansReceived ==
    \A id \in accepted : link[id] # 0 /\ crown[link[id]] = "SUCCESSFULLY_PUBLISHED"
        => id \in Received

(* "Multiple CrownDependenciesEnvelope's ... This is unexpected": while    *)
(* runs do not overlap at most one envelope is unfinished, and a row       *)
(* belongs to it, so the next run can take it up.                          *)
OneUnfinished ==
    LET unfinished == {c \in 1..Len(crown) : crown[c] # "SUCCESSFULLY_PUBLISHED"} IN
    expired = 0 => \A c, d \in unfinished : c = d /\ \E id \in accepted : link[id] = c

(* The task pauses the publishing by itself only when runs have            *)
(* overlapped, an envelope of an earlier year was left over at New Year,   *)
(* or the seed lies ahead of the last published ID, or of the first ID of  *)
(* the year where that one is still to come.                               *)
SeedAhead ==
    LET previous == LastPublishedEnvelopeId IN
    Seed > IF previous = 0 \/ YearOf(previous) = year - 1 THEN year * 10000 ELSE previous

PausedForReason ==
    IsPaused /\ operational.created_by = "system" /\ operational.publishing_state # "none"
        => expired > 0 \/ \E id \in Unpublished : YearOf(id) < year \/ SeedAhead

(* next_expected_to_api: "It returns True ... If the                       *)
(* HMRC_PACKAGING_SEED_ENVELOPE_ID is from this year, and is greater than  *)
(* the previously published Envelope.envelope_id": the ID that follows     *)
(* such a seed is the expected one.                                        *)
FirstAfterSeedExpected ==
    \A id \in Unpublished :
        YearOf(Seed) = year /\ Seed > LastPublishedEnvelopeId /\ id = Seed + 1
            => NextExpectedToApi(id)

(* next_expected_to_api: "It returns True ... If the previous              *)
(* PackagedWorkBasket has a CrownDependenciesEnvelope OR If the previous   *)
(* PackagedWorkBasket has published_to_tariffs_api set".                   *)
NextExpectedAfterPrevious ==
    \A id \in Unpublished :
        (id - 1) \in Legacy \cup {other \in accepted : link[other] # 0}
            => NextExpectedToApi(id)

(* Without overlapping runs, once the publishing stays unpaused, and with  *)
(* no envelope held back as one of an earlier year or by a seed ahead, the *)
(* Tariff API again and again has received every accepted envelope, so     *)
(* that each of them reaches it, whatever refusals, timeouts and deaths of *)
(* workers there were.                                                     *)
NothingHeldBack == \A id \in Unpublished : YearOf(id) = year /\ ~SeedAhead

EventuallyPublished ==
    [](expired = 0 /\ NothingHeldBack) /\ <>[](operational.publishing_state # "PAUSED")
        => []<>(accepted \ Legacy \subseteq Received)
=============================================================================
