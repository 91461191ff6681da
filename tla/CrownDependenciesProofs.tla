---------------------- MODULE CrownDependenciesProofs ----------------------
(***************************************************************************)
(* Theorems about CrownDependencies, for any number of runs, envelopes,    *)
(* years, faults, overdue POSTs and expired locks.                         *)
(***************************************************************************)
EXTENDS CrownDependencies, TLAPS, WellFoundedInduction, FiniteSetTheorems

-----------------------------------------------------------------------------
(* The inductive invariant.                                                *)

Working == {"getting", "posting", "succeeded", "failed"}
Unfinished == {c \in 1..Len(crown) : crown[c] # "SUCCESSFULLY_PUBLISHED"}
Linked == {id \in Id : link[id] # 0}

(* IDs are accepted in ascending order, and none of a year is left out but *)
(* those up to the seed.                                                   *)
Numbering ==
    /\ Legacy \subseteq accepted
    /\ \A id \in accepted \cup ({packaged} \ {None}) :
        /\ YearOf(id) =< year
        /\ \A n \in (YearOf(id) * 10000 + 1)..(id - 1) : n \in accepted \/ n =< Seed
    /\ packaged # None => \A id \in accepted : id < packaged

(* What holds of the rows whether or not runs overlap: two rows share no   *)
(* CrownDependenciesEnvelope, nothing is posted that has none, and a run   *)
(* works on an envelope that no other row will ever have.                  *)
LinksKept ==
    /\ Linked \subseteq accepted \ Legacy
    /\ \A id, other \in Linked : link[id] = link[other] => id = other
    /\ Received \cup inFlight \subseteq Linked
    /\ \A r \in Run : pc[r] \in Working =>
        /\ at[r] \in Linked /\ envelope[r] # 0
        /\ \A id \in Linked : link[id] = envelope[r] => id = at[r]
        /\ pc[r] = "succeeded" => at[r] \in Received
    /\ \A r \in Run :
        /\ pc[r] = "idle" => todo[r] = None
        /\ pc[r] = "next" => todo[r] # None
        /\ todo[r] # None => todo[r] \subseteq accepted \ Legacy

(* While no lock expires too early, one run works at a time, on the one    *)
(* unfinished envelope if it is not past that,                             *)
OneRun ==
    expired = 0 =>
        /\ \A r \in Run : pc[r] # "idle" => lock = r
        /\ \A r \in Run : pc[r] \in {"listing", "next"} => Unfinished = {}
        /\ \A r \in Run : pc[r] \in Working =>
            Unfinished = {envelope[r]} /\ link[at[r]] = envelope[r]

(* ... its list holds the unpublished rows up to some ID, and a row gets   *)
(* its envelope only when the API has all before it.                       *)
InTurn ==
    expired = 0 =>
        /\ \A r \in Run : todo[r] # None =>
            /\ todo[r] \subseteq Unpublished
            /\ \A id \in todo[r] : \A other \in Unpublished \ todo[r] : id < other
        /\ \A id \in Linked : \A other \in accepted \ Legacy :
            other < id => other \in Received

(* Nothing is posted that has arrived, unless a POST outlives its run. *)
NotTwice ==
    expired = 0 /\ overdue = 0 =>
        /\ inFlight = {}
        /\ \A r \in Run : pc[r] = "posting" => at[r] \notin Received

(* The run that paused the publishing was the last one. *)
NoRunSincePause ==
    expired = 0 /\ operational = Status("PAUSED", "system") =>
        \A r \in Run : pc[r] = "idle"

IInv ==
    /\ TypeOK /\ Numbering /\ LinksKept /\ OneRun /\ InTurn /\ NotTwice /\ NoRunSincePause
    /\ SuccessMeansReceived /\ OneUnfinished /\ PublishedOnceInOrder /\ PausedForReason

-----------------------------------------------------------------------------
(* Envelope IDs.                                                           *)

(* Every non-empty set of naturals has a least element. *)
LEMMA LeastExists ==
    ASSUME NEW S \in SUBSET Nat, S # {}
    PROVE  \E least \in S : \A x \in S : least =< x
<1>1. PICK least \in S : \A x \in S : ~(<<x, least>> \in OpToRel(<, Nat))
    BY NatLessThanWellFounded, WFMin, Zenon
<1>2. \A x \in S : ~(x < least)
    BY <1>1, Zenon DEF OpToRel
<1>3. \A x \in S : x \in Nat
    OBVIOUS
<1> QED
    BY <1>2, <1>3

(* ... and a greatest one if it is bounded. *)
LEMMA GreatestExists ==
    ASSUME NEW S \in SUBSET Nat, S # {}, NEW bound \in Nat, \A x \in S : x =< bound
    PROVE  \E greatest \in S : \A x \in S : x =< greatest
<1> DEFINE T == {bound - x : x \in S}
<1>1. T \in SUBSET Nat /\ T # {}
    <2>1. \A x \in S : bound - x \in Nat
        OBVIOUS
    <2> QED
        BY <2>1
<1>2. PICK least \in T : \A y \in T : least =< y
    BY <1>1, LeastExists
<1>3. PICK greatest \in S : least = bound - greatest
    BY <1>2
<1>4. \A x \in S : bound - greatest =< bound - x
    BY <1>2, <1>3
<1> QED
    BY <1>4

(* The numbers among the constants. *)
LEMMA Numbers ==
    /\ FirstYear \in Nat \ {0} /\ LastYear \in Nat /\ FirstYear =< LastYear
    /\ MaxPerYear \in 1..9999 /\ Seed \in Nat
    /\ Runs \in Nat /\ MaxAccepted \in Nat /\ MaxFaults \in Nat
    /\ MaxOverdue \in Nat /\ MaxExpired \in Nat
BY CrownAssumption

(* An ID lies in its year. *)
LEMMA IdInYear ==
    ASSUME NEW id \in Id
    PROVE  /\ id \in Nat
           /\ YearOf(id) \in Nat /\ FirstYear =< YearOf(id) /\ YearOf(id) =< LastYear
           /\ YearOf(id) * 10000 + 1 =< id /\ id =< YearOf(id) * 10000 + 9999
<1>1. PICK y \in FirstYear..LastYear : id \in (y * 10000 + 1)..(y * 10000 + MaxPerYear)
    BY DEF Id
<1>2. y \in Nat /\ id \in Nat /\ MaxPerYear \in 1..9999
    BY <1>1, Numbers
<1>3. YearOf(id) = y
    BY <1>1, <1>2 DEF YearOf
<1> QED
    BY <1>1, <1>2, <1>3, Numbers

(* A number that lies in two years lies in one ... *)
LEMMA OneYear ==
    ASSUME NEW id \in Nat, NEW y \in Nat, NEW z \in Nat,
           y * 10000 + 1 =< id, id =< y * 10000 + 9999,
           z * 10000 + 1 =< id, id =< z * 10000 + 10000
    PROVE  y = z
OBVIOUS

(* ... and years follow each other. *)
LEMMA EarlierYear ==
    ASSUME NEW id \in Nat, NEW other \in Nat, NEW y \in Nat, NEW z \in Nat,
           id =< y * 10000 + 9999, y < z, z * 10000 + 1 =< other
    PROVE  id < other
OBVIOUS

(* FirstToPublish yields the smallest ID of the list. *)
LEMMA FirstIsFirst ==
    ASSUME NEW S \in SUBSET Id, S # {}
    PROVE  FirstToPublish(S) \in S /\ \A other \in S : FirstToPublish(S) =< other
<1>1. \E id \in S : \A other \in S : id =< other
    BY IdInYear, LeastExists
<1> QED
    BY <1>1 DEF FirstToPublish

(* LastPublishedEnvelopeId yields the largest published ID, or 0. *)
LEMMA LastIsLast ==
    ASSUME TypeOK, Numbering
    PROVE  LET published == Legacy \cup {id \in accepted : link[id] # 0}
           IN  /\ LastPublishedEnvelopeId \in Id \cup {0}
               /\ IsLast(published, LastPublishedEnvelopeId)
<1> DEFINE published == Legacy \cup {id \in accepted : link[id] # 0}
<1>1. published \subseteq Id
    BY DEF TypeOK, Numbering
<1> HIDE DEF published
<1>2. \E last \in Id \cup {0} : IsLast(published, last)
    <2>1. CASE published = {}
        BY <2>1 DEF IsLast
    <2>2. CASE published # {}
        <3> DEFINE bound == LastYear * 10000 + 9999
        <3>1. bound \in Nat /\ \A id \in published : id \in Nat /\ id =< bound
            BY <1>1, IdInYear, Numbers
        <3>2. published \in SUBSET Nat
            BY <3>1
        <3> HIDE DEF bound
        <3>3. \E last \in published : \A id \in published : id =< last
            BY <2>2, <3>1, <3>2, GreatestExists
        <3> QED
            BY <1>1, <2>2, <3>3 DEF IsLast
    <2> QED
        BY <2>1, <2>2
<1> QED
    BY <1>2 DEF LastPublishedEnvelopeId, published

-----------------------------------------------------------------------------
(* The API and the envelopes.                                              *)

(* What the API takes comes last. *)
LEMMA TakeAppends ==
    ASSUME received \in Seq(Id), NEW id \in Id, Take(id)
    PROVE  /\ received' \in Seq(Id)
           /\ Len(received') = Len(received) + 1
           /\ \A i \in 1..Len(received) : received'[i] = received[i]
           /\ received'[Len(received) + 1] = id
           /\ Received' = Received \cup {id}
<1>1. /\ received' \in Seq(Id)
      /\ Len(received') = Len(received) + 1 /\ Len(received) \in Nat
      /\ \A i \in 1..Len(received) : received'[i] = received[i]
      /\ received'[Len(received) + 1] = id
    BY DEF Take
<1>2. 1..Len(received') = 1..Len(received) \cup {Len(received) + 1}
    BY <1>1
<1> QED
    BY <1>1, <1>2 DEF Received

(* A new CrownDependenciesEnvelope is CURRENTLY_PUBLISHING. *)
LEMMA CreateAppends ==
    ASSUME crown \in Seq(ApiPublishingState),
           crown' = Append(crown, "CURRENTLY_PUBLISHING")
    PROVE  /\ crown' \in Seq(ApiPublishingState)
           /\ Len(crown') = Len(crown) + 1
           /\ \A c \in 1..Len(crown) : crown'[c] = crown[c]
           /\ crown'[Len(crown) + 1] = "CURRENTLY_PUBLISHING"
           /\ Unfinished' = Unfinished \cup {Len(crown) + 1}
<1>1. /\ crown' \in Seq(ApiPublishingState)
      /\ Len(crown') = Len(crown) + 1 /\ Len(crown) \in Nat
      /\ \A c \in 1..Len(crown) : crown'[c] = crown[c]
      /\ crown'[Len(crown) + 1] = "CURRENTLY_PUBLISHING"
    BY DEF ApiPublishingState
<1>2. 1..Len(crown') = 1..Len(crown) \cup {Len(crown) + 1}
    BY <1>1
<1> QED
    BY <1>1, <1>2 DEF Unfinished

(* Saving a state changes that of one envelope. *)
LEMMA SaveChangesOne ==
    ASSUME crown \in Seq(ApiPublishingState), NEW c \in 1..Len(crown),
           NEW state \in ApiPublishingState, crown' = [crown EXCEPT ![c] = state]
    PROVE  /\ crown' \in Seq(ApiPublishingState)
           /\ Len(crown') = Len(crown)
           /\ \A d \in 1..Len(crown) : crown'[d] = IF d = c THEN state ELSE crown[d]
           /\ Unfinished' = IF state = "SUCCESSFULLY_PUBLISHED" THEN Unfinished \ {c}
                            ELSE Unfinished \cup {c}
<1>1. /\ crown' \in Seq(ApiPublishingState)
      /\ Len(crown') = Len(crown)
      /\ \A d \in 1..Len(crown) : crown'[d] = IF d = c THEN state ELSE crown[d]
    OBVIOUS
<1> QED
    BY <1>1 DEF Unfinished

(* What the task looks for as unfinished is what is not published. *)
LEMMA IncompleteIsUnfinished ==
    ASSUME TypeOK
    PROVE  Incomplete = Unfinished
<1>1. \A c \in 1..Len(crown) : crown[c] \in ApiPublishingState
    BY DEF TypeOK
<1> QED
    BY <1>1 DEF Incomplete, InState, Unfinished, ApiPublishingState

(* "Multiple CrownDependenciesEnvelope's" are not found where there is at  *)
(* most one.                                                               *)
LEMMA NeverMultiple ==
    ASSUME TypeOK, OneUnfinished, expired = 0
    PROVE  ~(Cardinality(Incomplete) > 1)
<1>1. Incomplete = Unfinished
    BY IncompleteIsUnfinished
<1>2. CASE Unfinished = {}
    BY <1>1, <1>2, FS_EmptySet
<1>3. ASSUME NEW c \in Unfinished
      PROVE  ~(Cardinality(Incomplete) > 1)
    <2>1. Unfinished = {c}
        BY DEF OneUnfinished, Unfinished
    <2>2. Incomplete = {c} /\ Cardinality({c}) = 1
        BY <1>1, <2>1, FS_Singleton
    <2> QED
        BY <2>2
<1> QED
    BY <1>2, <1>3

-----------------------------------------------------------------------------
(* Parts of steps.                                                         *)

(* A status with a known state and author is well typed. *)
LEMMA StatusType ==
    ASSUME NEW state \in {"none", "PAUSED", "UNPAUSED"},
           NEW user \in {"user", "system"}
    PROVE  /\ Status(state, user) \in [publishing_state : {"none", "PAUSED", "UNPAUSED"},
                                       created_by : {"user", "system"}]
           /\ Status(state, user).publishing_state = state
           /\ Status(state, user).created_by = user
BY DEF Status

(* Pausing the publishing leaves one of the two states behind. *)
LEMMA PauseType ==
    ASSUME TypeOK, NEW user \in {"user", "system"}, PausePublishing(user)
    PROVE  /\ operational' = operational \/ operational' = Status("PAUSED", user)
           /\ operational' \in [publishing_state : {"none", "PAUSED", "UNPAUSED"},
                                 created_by : {"user", "system"}]
<1>1. operational' = operational \/ operational' = Status("PAUSED", user)
    BY DEF PausePublishing
<1> QED
    BY <1>1, StatusType DEF TypeOK

(* Run r gives row id the new envelope c. *)
Created(r, id, c) ==
    /\ id \in accepted \ Legacy /\ id \in Id /\ \A other \in todo[r] : id =< other
    /\ c = Len(crown) + 1 /\ \A other \in Id : link[other] # c
    /\ Linked' = Linked \cup {id}
    /\ \A other \in Id : link'[other] = IF other = id THEN c ELSE link[other]
    /\ Len(crown') = c /\ crown'[c] = "CURRENTLY_PUBLISHING"
    /\ \A d \in 1..Len(crown) : crown'[d] = crown[d]
    /\ Unfinished' = Unfinished \cup {c} /\ c \notin Unfinished
    /\ pc[r] = "next" /\ pc' = [pc EXCEPT ![r] = "posting"]
    /\ at' = [at EXCEPT ![r] = id] /\ envelope' = [envelope EXCEPT ![r] = c]
    /\ todo[r] \in SUBSET Id /\ todo' = [todo EXCEPT ![r] = todo[r] \ {id}]
    /\ Received' = Received
    /\ UNCHANGED <<year, packaged, accepted, received, inFlight, operational, lock,
                   faults, overdue, expired>>

(* A run that publishes the next row of its list gives it a new envelope. *)
LEMMA PublishNextCreates ==
    ASSUME TypeOK, LinksKept, NEW r \in Run, PublishNext(r),
           todo[r] # {}, NextExpectedToApi(FirstToPublish(todo[r]))
    PROVE  \E id \in todo[r] : \E c \in Nat : Created(r, id, c)
<1> DEFINE id == FirstToPublish(todo[r])
           c == Len(crown) + 1
<1>1. todo[r] \in SUBSET Id /\ todo[r] \subseteq accepted \ Legacy
    BY DEF PublishNext, LinksKept, TypeOK
<1>2. id \in todo[r] /\ \A other \in todo[r] : id =< other
    BY <1>1, FirstIsFirst
<1>3. c \in Nat /\ c # 0 /\ \A other \in Id : link[other] # c
    BY DEF TypeOK
<1>4. /\ link' = [link EXCEPT ![id] = c] /\ crown' = Append(crown, "CURRENTLY_PUBLISHING")
      /\ pc[r] = "next" /\ pc' = [pc EXCEPT ![r] = "posting"]
      /\ at' = [at EXCEPT ![r] = id] /\ envelope' = [envelope EXCEPT ![r] = c]
      /\ todo' = [todo EXCEPT ![r] = todo[r] \ {id}]
      /\ UNCHANGED <<year, packaged, accepted, received, inFlight, operational, lock,
                     faults, overdue, expired>>
    BY DEF PublishNext, Goto, queue, api, counters
<1>5. /\ Len(crown') = c /\ crown'[c] = "CURRENTLY_PUBLISHING"
      /\ \A d \in 1..Len(crown) : crown'[d] = crown[d]
      /\ Unfinished' = Unfinished \cup {c}
    BY <1>4, CreateAppends DEF TypeOK
<1>6. Received' = Received
    BY <1>4 DEF Received
<1> HIDE DEF id
<1>7. /\ Linked' = Linked \cup {id}
      /\ \A other \in Id : link'[other] = IF other = id THEN c ELSE link[other]
    BY <1>1, <1>2, <1>3, <1>4 DEF Linked, TypeOK
<1>8. c \notin Unfinished
    BY DEF Unfinished, TypeOK
<1> HIDE DEF c
<1> QED
    BY <1>1, <1>2, <1>3, <1>4, <1>5, <1>6, <1>7, <1>8 DEF c, Created

(* Nothing that the API has is taken from it. *)
LEMMA ReceivedGrows ==
    ASSUME TypeOK, LinksKept, [Next]_vars
    PROVE  Received \subseteq Received'
<1>1. ASSUME UNCHANGED received
      PROVE  Received \subseteq Received'
    BY <1>1 DEF Received
<1>2. ASSUME NEW id \in Linked, Take(id)
      PROVE  Received \subseteq Received'
    BY <1>2, TakeAppends DEF TypeOK, Linked
<1>3. ASSUME NEW id \in Id, Arrive(id)
      PROVE  Received \subseteq Received'
    BY <1>2, <1>3 DEF Arrive, LinksKept
<1>4. ASSUME NEW r \in Run, PostEnvelope(r) \/ PostTimesOut(r)
      PROVE  Received \subseteq Received'
    BY <1>1, <1>2, <1>4 DEF PostEnvelope, PostTimesOut, LinksKept, Working, api
<1> QED
    BY <1>1, <1>3, <1>4
       DEF Next, Step, vars, api, Package, Accept, NewYear, Pause, Unpause,
       Begin, ReadIncomplete, GetEnvelope, GetFails, PostRefused, PublishingSucceeded,
       PublishingFailed, ReadList, PublishNext, Die, ExpireDead, ExpireLive

-----------------------------------------------------------------------------
(* Steps.                                                                  *)

(* TypeOK, group by group.                                                 *)
QueueTypes ==
    /\ year \in FirstYear..LastYear
    /\ packaged \in Id \cup {None} /\ accepted \subseteq Id
TableTypes == crown \in Seq(ApiPublishingState) /\ link \in [Id -> 0..Len(crown)]
ApiTypes == received \in Seq(Id) /\ inFlight \subseteq Id
SwitchTypes ==
    operational \in [publishing_state : {"none", "PAUSED", "UNPAUSED"},
                     created_by : {"user", "system"}]
LockTypes == lock \in Run \cup {Dead, None}
PlaceTypes ==
    pc \in [Run -> {"idle", "incomplete", "getting", "posting", "succeeded",
                    "failed", "listing", "next"}]
HandTypes == at \in [Run -> Id \cup {None}] /\ envelope \in [Run -> 0..Len(crown)]
ListTypes == todo \in [Run -> (SUBSET Id) \cup {None}]
CounterTypes ==
    faults \in 0..MaxFaults /\ overdue \in 0..MaxOverdue /\ expired \in 0..MaxExpired

(* The groups make up TypeOK. *)
LEMMA TypesOfParts ==
    /\ TypeOK <=>
        /\ QueueTypes /\ TableTypes /\ ApiTypes /\ SwitchTypes /\ LockTypes
        /\ PlaceTypes /\ HandTypes /\ ListTypes /\ CounterTypes
    /\ TypeOK' <=>
        /\ QueueTypes' /\ TableTypes' /\ ApiTypes' /\ SwitchTypes' /\ LockTypes'
        /\ PlaceTypes' /\ HandTypes' /\ ListTypes' /\ CounterTypes'
BY DEF TypeOK, QueueTypes, TableTypes, ApiTypes, SwitchTypes, LockTypes,
       PlaceTypes, HandTypes, ListTypes, CounterTypes

(* What a step leaves alone keeps its type. *)
LEMMA PartsKept ==
    ASSUME TypeOK
    PROVE  /\ UNCHANGED queue => QueueTypes'
           /\ UNCHANGED rows => TableTypes'
           /\ UNCHANGED api => ApiTypes'
           /\ UNCHANGED operational => SwitchTypes'
           /\ UNCHANGED lock => LockTypes'
           /\ UNCHANGED pc => PlaceTypes'
           /\ UNCHANGED <<at, envelope, rows>> => HandTypes'
           /\ UNCHANGED todo => ListTypes'
           /\ UNCHANGED counters => CounterTypes'
<1> USE TypesOfParts
<1>1. UNCHANGED queue => QueueTypes'
    BY DEF queue, QueueTypes
<1>2. UNCHANGED rows => TableTypes'
    BY DEF rows, TableTypes
<1>3. UNCHANGED api => ApiTypes'
    BY DEF api, ApiTypes
<1>4. UNCHANGED operational => SwitchTypes'
    BY DEF SwitchTypes
<1>5. UNCHANGED lock => LockTypes'
    BY DEF LockTypes
<1>6. UNCHANGED pc => PlaceTypes'
    BY DEF PlaceTypes
<1>7. UNCHANGED <<at, envelope, rows>> => HandTypes'
    BY DEF rows, HandTypes
<1>8. UNCHANGED todo => ListTypes'
    BY DEF ListTypes
<1>9. UNCHANGED counters => CounterTypes'
    BY DEF counters, CounterTypes
<1> QED
    BY <1>1, <1>2, <1>3, <1>4, <1>5, <1>6, <1>7, <1>8, <1>9

(* A run goes to another place in the code. *)
LEMMA GotoType ==
    ASSUME TypeOK, NEW r \in Run,
           NEW label \in {"idle", "incomplete", "getting", "posting", "succeeded",
                          "failed", "listing", "next"},
           Goto(r, label)
    PROVE  PlaceTypes'
BY TypesOfParts DEF Goto, PlaceTypes

(* A fault is counted. *)
LEMMA FaultType ==
    ASSUME TypeOK, Fault
    PROVE  CounterTypes'
BY TypesOfParts, Numbers DEF Fault, CounterTypes

(* A run that stops forgets what it worked on. *)
LEMMA StopTypes ==
    ASSUME TypeOK, NEW r \in Run, Stop(r), Len(crown') = Len(crown)
    PROVE  LockTypes' /\ PlaceTypes' /\ HandTypes' /\ ListTypes'
<1>1. LockTypes'
    BY TypesOfParts DEF Stop, LockTypes
<1>2. PlaceTypes'
    BY GotoType DEF Stop
<1>3. HandTypes'
    <2>1. HandTypes /\ Len(crown) \in Nat
        BY TypesOfParts DEF TableTypes
    <2> QED
        BY <2>1 DEF Stop, HandTypes
<1>4. ListTypes'
    BY TypesOfParts DEF Stop, ListTypes
<1> QED
    BY <1>1, <1>2, <1>3, <1>4

(* A run at work has a row and an envelope in hand.                        *)
LEMMA InHand ==
    ASSUME TypeOK, LinksKept, NEW r \in Run, pc[r] \in Working
    PROVE  at[r] \in Id /\ envelope[r] \in 1..Len(crown)
<1>1. at[r] \in Id /\ envelope[r] # 0
    BY DEF LinksKept, Linked
<1>2. envelope[r] \in 0..Len(crown) /\ Len(crown) \in Nat
    BY TypesOfParts DEF HandTypes, TableTypes
<1> QED
    BY <1>1, <1>2

(* The queue, the calendar, the users, the API and the cache. *)
LEMMA OutsideTypes ==
    ASSUME TypeOK, LinksKept,
           \/ \E id \in Id : Package(id) \/ Arrive(id)
           \/ Accept \/ NewYear \/ Pause \/ Unpause \/ ExpireDead \/ ExpireLive
    PROVE  TypeOK'
<1>1. ASSUME NEW id \in Id, Package(id)
      PROVE  TypeOK'
    <2>1. QueueTypes'
        BY <1>1, TypesOfParts DEF Package, QueueTypes
    <2>2. UNCHANGED <<rows, api, operational, lock, control, counters>>
        BY <1>1 DEF Package
    <2> QED
        BY <2>1, <2>2, PartsKept, TypesOfParts DEF control
<1>2. ASSUME NEW id \in Id, Arrive(id)
      PROVE  TypeOK'
    <2>1. /\ Take(id) /\ inFlight' = inFlight \ {id}
          /\ UNCHANGED <<queue, rows, operational, lock, control, counters>>
        BY <1>2 DEF Arrive
    <2>2. received \in Seq(Id) /\ inFlight \subseteq Id
        BY TypesOfParts DEF ApiTypes
    <2>3. received' \in Seq(Id)
        BY <2>1, <2>2, TakeAppends
    <2>4. ApiTypes'
        BY <2>1, <2>2, <2>3 DEF ApiTypes
    <2> QED
        BY <2>1, <2>4, PartsKept, TypesOfParts DEF control
<1>3. ASSUME Accept \/ NewYear
      PROVE  TypeOK'
    <2>1. QueueTypes'
        BY <1>3, Numbers, TypesOfParts DEF Accept, NewYear, QueueTypes
    <2>2. UNCHANGED <<rows, api, operational, lock, control, counters>>
        BY <1>3 DEF Accept, NewYear
    <2> QED
        BY <2>1, <2>2, PartsKept, TypesOfParts DEF control
<1>4. ASSUME Pause \/ Unpause
      PROVE  TypeOK'
    <2>1. PausePublishing("user") \/ operational' = Status("UNPAUSED", "user")
        BY <1>4 DEF Pause, Unpause
    <2>2. SwitchTypes'
        BY <2>1, PauseType, StatusType DEF SwitchTypes
    <2>3. UNCHANGED <<queue, rows, api, lock, control, counters>>
        BY <1>4 DEF Pause, Unpause
    <2> QED
        BY <2>2, <2>3, PartsKept, TypesOfParts DEF control
<1>5. ASSUME ExpireDead \/ ExpireLive
      PROVE  TypeOK'
    <2>1. LockTypes'
        BY <1>5 DEF ExpireDead, ExpireLive, LockTypes
    <2>2. CounterTypes'
        BY <1>5, Numbers, TypesOfParts DEF ExpireDead, ExpireLive, CounterTypes, counters
    <2>3. UNCHANGED <<queue, rows, api, operational, control>>
        BY <1>5 DEF ExpireDead, ExpireLive
    <2> QED
        BY <2>1, <2>2, <2>3, PartsKept, TypesOfParts DEF control
<1> QED
    BY <1>1, <1>2, <1>3, <1>4, <1>5

(* A run starts, looks for an unfinished envelope, asks the API for it,    *)
(* and may die anywhere.                                                   *)
LEMMA BeginTypes ==
    ASSUME TypeOK, LinksKept, NEW r \in Run,
           Begin(r) \/ ReadIncomplete(r) \/ GetEnvelope(r) \/ GetFails(r) \/ Die(r)
    PROVE  TypeOK'
<1>1. ASSUME Begin(r)
      PROVE  TypeOK'
    <2>1. lock' = r /\ Goto(r, "incomplete")
          /\ UNCHANGED <<queue, rows, api, operational, at, envelope, todo, counters>>
        BY <1>1 DEF Begin
    <2>2. LockTypes'
        BY <2>1 DEF LockTypes
    <2> QED
        BY <2>1, <2>2, GotoType, PartsKept, TypesOfParts
<1>2. ASSUME ReadIncomplete(r)
      PROVE  TypeOK'
    <2>1. UNCHANGED <<queue, rows, api, counters>>
        BY <1>2 DEF ReadIncomplete
    <2>2. CASE Goto(r, "listing") /\ UNCHANGED <<operational, lock, at, envelope, todo>>
        BY <2>1, <2>2, GotoType, PartsKept, TypesOfParts
    <2>3. CASE Stop(r) /\ (PausePublishing("system") \/ UNCHANGED operational)
        <3>1. SwitchTypes'
            BY <2>3, PauseType, PartsKept DEF SwitchTypes
        <3>2. Len(crown') = Len(crown)
            BY <2>1 DEF rows
        <3> QED
            BY <2>1, <2>3, <3>1, <3>2, StopTypes, PartsKept, TypesOfParts
    <2>4. ASSUME NEW c \in Incomplete, NEW id \in RowsOf(c),
                 at' = [at EXCEPT ![r] = id], envelope' = [envelope EXCEPT ![r] = c],
                 Goto(r, "getting"), UNCHANGED <<operational, lock, todo>>
          PROVE  TypeOK'
        <3>1. id \in Id /\ c \in 0..Len(crown)
            BY TypesOfParts DEF RowsOf, Incomplete, InState, QueueTypes, TableTypes
        <3>2. HandTypes'
            BY <2>1, <2>4, <3>1, TypesOfParts DEF HandTypes, rows
        <3> QED
            BY <2>1, <2>4, <3>2, GotoType, PartsKept, TypesOfParts
    <2> QED
        BY <1>2, <2>2, <2>3, <2>4 DEF ReadIncomplete
<1>3. ASSUME GetEnvelope(r)
      PROVE  TypeOK'
    <2>1. /\ Goto(r, "posting") \/ Goto(r, "succeeded")
          /\ UNCHANGED <<queue, rows, api, operational, lock, at, envelope, todo, counters>>
        BY <1>3 DEF GetEnvelope
    <2> QED
        BY <2>1, GotoType, PartsKept, TypesOfParts
<1>4. ASSUME GetFails(r)
      PROVE  TypeOK'
    <2>1. Fault /\ Stop(r) /\ UNCHANGED <<queue, rows, api, operational>>
        BY <1>4 DEF GetFails
    <2>2. Len(crown') = Len(crown)
        BY <2>1 DEF rows
    <2> QED
        BY <2>1, <2>2, FaultType, StopTypes, PartsKept, TypesOfParts
<1>5. ASSUME Die(r)
      PROVE  TypeOK'
    <2>1. /\ Fault /\ Goto(r, "idle")
          /\ at' = [at EXCEPT ![r] = None] /\ envelope' = [envelope EXCEPT ![r] = 0]
          /\ todo' = [todo EXCEPT ![r] = None]
          /\ lock' = IF lock = r THEN Dead ELSE lock
          /\ UNCHANGED <<queue, rows, api, operational>>
        BY <1>5 DEF Die
    <2>2. LockTypes' /\ ListTypes'
        BY <2>1, TypesOfParts DEF LockTypes, ListTypes
    <2>3. HandTypes'
        <3>1. HandTypes /\ Len(crown) \in Nat
            BY TypesOfParts DEF TableTypes
        <3> QED
            BY <2>1, <3>1 DEF HandTypes, rows
    <2> QED
        BY <2>1, <2>2, <2>3, FaultType, GotoType, PartsKept, TypesOfParts
<1> QED
    BY <1>1, <1>2, <1>3, <1>4, <1>5

(* A run posts an envelope. *)
LEMMA PostTypes ==
    ASSUME TypeOK, LinksKept, NEW r \in Run,
           PostEnvelope(r) \/ PostRefused(r) \/ PostTimesOut(r)
    PROVE  TypeOK'
<1>1. at[r] \in Id
    BY InHand DEF PostEnvelope, PostRefused, PostTimesOut, Working
<1>2. received \in Seq(Id) /\ inFlight \subseteq Id
    BY TypesOfParts DEF ApiTypes
<1>3. Take(at[r]) => received' \in Seq(Id)
    BY <1>1, <1>2, TakeAppends
<1>4. ASSUME PostEnvelope(r)
      PROVE  TypeOK'
    <2>1. /\ Take(at[r]) /\ Goto(r, "succeeded")
          /\ UNCHANGED <<queue, rows, inFlight, operational, lock, at, envelope, todo, counters>>
        BY <1>4 DEF PostEnvelope
    <2>2. ApiTypes'
        BY <1>2, <1>3, <2>1 DEF ApiTypes
    <2> QED
        BY <2>1, <2>2, GotoType, PartsKept, TypesOfParts
<1>5. ASSUME PostRefused(r)
      PROVE  TypeOK'
    <2>1. /\ Fault /\ Goto(r, "failed")
          /\ UNCHANGED <<queue, rows, api, operational, lock, at, envelope, todo>>
        BY <1>5 DEF PostRefused
    <2> QED
        BY <2>1, FaultType, GotoType, PartsKept, TypesOfParts
<1>6. ASSUME PostTimesOut(r)
      PROVE  TypeOK'
    <2>1. Stop(r) /\ UNCHANGED <<queue, rows, operational, expired>>
        BY <1>6 DEF PostTimesOut
    <2>2. ApiTypes'
        <3>1. received' \in Seq(Id)
            BY <1>2, <1>3, <1>6 DEF PostTimesOut, api
        <3>2. inFlight' \subseteq Id
            BY <1>1, <1>2, <1>6 DEF PostTimesOut, api
        <3> QED
            BY <3>1, <3>2 DEF ApiTypes
    <2>3. CounterTypes'
        BY <1>6, Numbers, TypesOfParts DEF PostTimesOut, CounterTypes
    <2>4. Len(crown') = Len(crown)
        BY <2>1 DEF rows
    <2> QED
        BY <2>1, <2>2, <2>3, <2>4, StopTypes, PartsKept, TypesOfParts
<1> QED
    BY <1>4, <1>5, <1>6

(* A run has posted an envelope. *)
LEMMA PublishingTypes ==
    ASSUME TypeOK, LinksKept, NEW r \in Run, PublishingSucceeded(r) \/ PublishingFailed(r)
    PROVE  TypeOK'
<1>1. envelope[r] \in 1..Len(crown)
    BY InHand DEF PublishingSucceeded, PublishingFailed, Working
<1>2. \E state \in ApiPublishingState : crown' = [crown EXCEPT ![envelope[r]] = state]
    BY DEF PublishingSucceeded, PublishingFailed, ApiPublishingState
<1>3. crown \in Seq(ApiPublishingState) /\ Len(crown) \in Nat
    BY TypesOfParts DEF TableTypes
<1>4. crown' \in Seq(ApiPublishingState) /\ Len(crown') = Len(crown)
    BY <1>1, <1>2, <1>3, SaveChangesOne
<1>5. UNCHANGED <<queue, link, api, operational, counters>>
    BY DEF PublishingSucceeded, PublishingFailed
<1>6. TableTypes'
    BY <1>4, <1>5, TypesOfParts DEF TableTypes
<1>7. ASSUME PublishingSucceeded(r)
      PROVE  TypeOK'
    <2>1. /\ Goto(r, "listing") \/ Goto(r, "next")
          /\ at' = [at EXCEPT ![r] = None] /\ envelope' = [envelope EXCEPT ![r] = 0]
          /\ UNCHANGED <<lock, todo>>
        BY <1>7 DEF PublishingSucceeded
    <2>2. HandTypes'
        <3>1. HandTypes
            BY TypesOfParts
        <3> QED
            BY <1>3, <1>4, <2>1, <3>1 DEF HandTypes
    <2> QED
        BY <1>5, <1>6, <2>1, <2>2, GotoType, PartsKept, TypesOfParts
<1>8. ASSUME PublishingFailed(r)
      PROVE  TypeOK'
    <2>1. Stop(r)
        BY <1>8 DEF PublishingFailed
    <2> QED
        BY <1>4, <1>5, <1>6, <2>1, StopTypes, PartsKept, TypesOfParts
<1> QED
    BY <1>7, <1>8

(* A run reads the list, and publishes the next row of it. *)
LEMMA PublishNextTypes ==
    ASSUME TypeOK, LinksKept, NEW r \in Run, ReadList(r) \/ PublishNext(r)
    PROVE  TypeOK'
<1>1. ASSUME ReadList(r)
      PROVE  TypeOK'
    <2>1. /\ todo' = [todo EXCEPT ![r] = Unpublished] /\ Goto(r, "next")
          /\ UNCHANGED <<queue, rows, api, operational, lock, at, envelope, counters>>
        BY <1>1 DEF ReadList
    <2>2. Unpublished \in SUBSET Id
        BY TypesOfParts DEF Unpublished, QueueTypes
    <2>3. ListTypes'
        BY <2>1, <2>2, TypesOfParts DEF ListTypes
    <2> QED
        BY <2>1, <2>3, GotoType, PartsKept, TypesOfParts
<1>2. ASSUME PublishNext(r), Stop(r), UNCHANGED rows
      PROVE  TypeOK'
    <2>1. UNCHANGED <<queue, api, counters>>
        BY <1>2 DEF PublishNext
    <2>2. SwitchTypes'
        <3>1. UNCHANGED operational \/ PausePublishing("system")
            BY <1>2 DEF PublishNext, Stop, Goto
        <3> QED
            BY <3>1, PauseType, PartsKept DEF SwitchTypes
    <2>3. Len(crown') = Len(crown)
        BY <1>2 DEF rows
    <2> QED
        BY <1>2, <2>1, <2>2, <2>3, StopTypes, PartsKept, TypesOfParts
<1>3. ASSUME PublishNext(r), todo[r] # {}, NextExpectedToApi(FirstToPublish(todo[r]))
      PROVE  TypeOK'
    <2> DEFINE id == FirstToPublish(todo[r])
               c == Len(crown) + 1
    <2>1. todo[r] \in SUBSET Id
        <3>1. todo[r] # None
            BY <1>3 DEF PublishNext, LinksKept
        <3> QED
            BY <3>1, TypesOfParts DEF ListTypes
    <2>2. id \in Id
        BY <1>3, <2>1, FirstIsFirst
    <2>3. /\ crown' = Append(crown, "CURRENTLY_PUBLISHING")
          /\ link' = [link EXCEPT ![id] = c] /\ at' = [at EXCEPT ![r] = id]
          /\ envelope' = [envelope EXCEPT ![r] = c]
          /\ todo' = [todo EXCEPT ![r] = todo[r] \ {id}]
          /\ Goto(r, "posting") /\ UNCHANGED <<queue, api, operational, lock, counters>>
        BY <1>3 DEF PublishNext
    <2> HIDE DEF id
    <2>4. crown \in Seq(ApiPublishingState) /\ Len(crown) \in Nat
        BY TypesOfParts DEF TableTypes
    <2>5. crown' \in Seq(ApiPublishingState) /\ Len(crown') = c
        BY <2>3, <2>4, CreateAppends
    <2>6. TableTypes'
        BY <2>2, <2>3, <2>4, <2>5, TypesOfParts DEF TableTypes
    <2>7. HandTypes'
        <3>1. HandTypes
            BY TypesOfParts
        <3> QED
            BY <2>2, <2>3, <2>4, <2>5, <3>1 DEF HandTypes
    <2>8. ListTypes'
        BY <2>1, <2>3, TypesOfParts DEF ListTypes
    <2> QED
        BY <2>3, <2>6, <2>7, <2>8, GotoType, PartsKept, TypesOfParts
<1> QED
    BY <1>1, <1>2, <1>3 DEF PublishNext

(* Every step keeps the types. *)
LEMMA TypeStep ==
    ASSUME TypeOK, LinksKept, [Next]_vars
    PROVE  TypeOK'
<1>1. CASE UNCHANGED vars
    BY <1>1, PartsKept, TypesOfParts DEF vars, control
<1> QED
    BY <1>1, OutsideTypes, BeginTypes, PostTypes, PublishingTypes, PublishNextTypes
       DEF Next, Step

(* A run that stops is idle, with nothing in hand, and frees its own lock;  *)
(* the others go on.                                                       *)
LEMMA StopEffect ==
    ASSUME TypeOK, NEW r \in Run, Stop(r)
    PROVE  /\ pc'[r] = "idle" /\ at'[r] = None /\ envelope'[r] = 0 /\ todo'[r] = None
           /\ \A s \in Run : s # r =>
                /\ pc'[s] = pc[s] /\ at'[s] = at[s]
                /\ envelope'[s] = envelope[s] /\ todo'[s] = todo[s]
           /\ lock' = IF lock = r THEN None ELSE lock
<1>1. /\ pc' = [pc EXCEPT ![r] = "idle"] /\ at' = [at EXCEPT ![r] = None]
      /\ envelope' = [envelope EXCEPT ![r] = 0] /\ todo' = [todo EXCEPT ![r] = None]
      /\ lock' = IF lock = r THEN None ELSE lock
    BY DEF Stop, Goto
<1>2. PlaceTypes /\ HandTypes /\ ListTypes
    BY TypesOfParts
<1> QED
    BY <1>1, <1>2 DEF PlaceTypes, HandTypes, ListTypes

(* A run that goes on to another place leaves the others where they are. *)
LEMMA GotoEffect ==
    ASSUME TypeOK, NEW r \in Run, NEW label, Goto(r, label)
    PROVE  pc'[r] = label /\ \A s \in Run : s # r => pc'[s] = pc[s]
<1>1. PlaceTypes
    BY TypesOfParts
<1> QED
    BY <1>1 DEF Goto, PlaceTypes

(* A run that gives a row its envelope goes on to post it. *)
LEMMA CreatedEffect ==
    ASSUME TypeOK, NEW r \in Run, NEW id \in Id, NEW c \in Nat, Created(r, id, c)
    PROVE  /\ \A s \in Run : s # r =>
                /\ pc'[s] = pc[s] /\ at'[s] = at[s]
                /\ envelope'[s] = envelope[s] /\ todo'[s] = todo[s]
           /\ pc'[r] = "posting" /\ at'[r] = id /\ envelope'[r] = c
           /\ todo'[r] = todo[r] \ {id}
           /\ link'[id] = c /\ c # 0 /\ \A s \in Run : envelope[s] # c
<1>1. PlaceTypes /\ HandTypes /\ ListTypes /\ Len(crown) \in Nat
    BY TypesOfParts DEF TableTypes
<1>2. c = Len(crown) + 1 /\ link'[id] = c
    BY DEF Created
<1>3. /\ pc' = [pc EXCEPT ![r] = "posting"] /\ at' = [at EXCEPT ![r] = id]
      /\ envelope' = [envelope EXCEPT ![r] = c] /\ todo' = [todo EXCEPT ![r] = todo[r] \ {id}]
    BY DEF Created
<1>4. c # 0 /\ \A s \in Run : envelope[s] # c
    BY <1>1, <1>2 DEF HandTypes
<1>5. /\ pc'[r] = "posting" /\ \A s \in Run : s # r => pc'[s] = pc[s]
      /\ todo'[r] = todo[r] \ {id} /\ \A s \in Run : s # r => todo'[s] = todo[s]
    BY <1>1, <1>3 DEF PlaceTypes, ListTypes
<1>6. /\ at'[r] = id /\ \A s \in Run : s # r => at'[s] = at[s]
      /\ envelope'[r] = c /\ \A s \in Run : s # r => envelope'[s] = envelope[s]
    BY <1>1, <1>3 DEF HandTypes
<1> QED
    BY <1>2, <1>4, <1>5, <1>6

(* An ID that follows on the accepted ones of its year and the seed, and   *)
(* comes after those of earlier years, may be with HMRC.                   *)
LEMMA NextIdFits ==
    ASSUME Numbering, NEW id, YearOf(id) = year, year =< year,
           \A other \in accepted : other < id,
           \A n \in (year * 10000 + 1)..(id - 1) : n \in accepted \/ n =< Seed,
           packaged' = id, accepted' = accepted, year' = year
    PROVE  Numbering'
BY DEF Numbering

(* The new ID follows on the last one accepted this year, if there is one, *)
(* or on the seed, if that is of this year or ahead.                       *)
LEMMA PackagedAfterLast ==
    ASSUME NEW id \in Id, Package(id)
    PROVE  /\ id =< year * 10000 + 9999
           /\ \/ AcceptedThisYear = {} /\ id = year * 10000 + 1
              \/ AcceptedThisYear = {} /\ YearOf(Seed) = year /\ id = Seed + 1
              \/ 0 \in AcceptedThisYear
              \/ \E last \in AcceptedThisYear :
                   /\ \A other \in AcceptedThisYear : other =< last
                   /\ \/ id = last + 1
                      \/ id = Seed + 1 /\ ~(last >= Seed)
<1>1. FollowsLastAccepted(id)
    BY DEF Package
<1>2. PICK last \in {0} \cup AcceptedThisYear :
        /\ IsLast(AcceptedThisYear, last)
        /\ id = IF last = 0 /\ YearOf(Seed) # year THEN year * 10000 + 1
                ELSE IF last >= Seed THEN last + 1 ELSE Seed + 1
        /\ id =< year * 10000 + 9999
    BY <1>1 DEF FollowsLastAccepted
<1>3. Seed \in Nat /\ (0 >= Seed => 0 + 1 = Seed + 1)
    BY Numbers
<1>4. CASE AcceptedThisYear = {}
    BY <1>2, <1>3, <1>4 DEF IsLast
<1>5. CASE AcceptedThisYear # {}
    BY <1>2, <1>5 DEF IsLast
<1> QED
    BY <1>4, <1>5

(* Package counts on from the last accepted ID of the year. *)
LEMMA PackageStep ==
    ASSUME TypeOK, Numbering, NEW id \in Id, Package(id)
    PROVE  Numbering'
<1> DEFINE Y == AcceptedThisYear
           first == year * 10000 + 1
<1>0. \A other \in Y : other \in accepted /\ YearOf(other) = year
    BY DEF AcceptedThisYear
<1> HIDE DEF Y
<1>1. /\ \A other \in Y : other \in accepted /\ other \in Id /\ YearOf(other) = year
      /\ 0 \notin Y
    <2>1. accepted \subseteq Id /\ 0 \notin Id
        BY IdInYear, TypesOfParts DEF QueueTypes
    <2> QED
        BY <1>0, <2>1
<1>2. year \in Nat /\ id \in Nat /\ YearOf(id) \in Nat
    BY IdInYear, Numbers DEF TypeOK
<1>3. \A other \in accepted : other \in Nat /\ YearOf(other) \in Nat /\ YearOf(other) =< year
    BY IdInYear DEF TypeOK, Numbering
<1>4. id =< year * 10000 + 9999 /\ Seed \in Nat
    BY PackagedAfterLast, Numbers
<1>5. /\ YearOf(id) = year /\ \A other \in Y : other < id
      /\ \A n \in first..(id - 1) : n \in accepted \/ n =< Seed
    <2>1. first =< id => YearOf(id) = year
        BY <1>2, <1>4, IdInYear, OneYear
    <2>2. CASE Y = {} /\ id = first
        BY <1>2, <2>1, <2>2
    <2>3. CASE Y = {} /\ YearOf(Seed) = year /\ id = Seed + 1
        <3>1. first =< id
            BY <1>2, <1>4, <2>3 DEF YearOf
        <3>2. \A n \in first..(id - 1) : n =< Seed
            BY <1>2, <1>4, <2>3
        <3> QED
            BY <2>1, <2>3, <3>1, <3>2
    <2>4. ASSUME NEW last \in Y, \A other \in Y : other =< last,
                 id = last + 1 \/ (id = Seed + 1 /\ ~(last >= Seed))
          PROVE  /\ YearOf(id) = year /\ \A other \in Y : other < id
                 /\ \A n \in first..(id - 1) : n \in accepted \/ n =< Seed
        <3>1. last \in accepted /\ last \in Id /\ YearOf(last) = year
            BY <1>1
        <3>2. last \in Nat /\ first =< last
            BY <3>1, IdInYear
        <3>3. last < id
            BY <1>4, <2>4, <3>2
        <3>4. YearOf(id) = year
            BY <1>2, <2>1, <3>2, <3>3
        <3>5. \A other \in Y : other < id
            BY <1>1, <1>2, <1>3, <2>4, <3>2, <3>3
        <3>6. \A n \in first..(last - 1) : n \in accepted \/ n =< Seed
            BY <3>1 DEF Numbering
        <3>7. \A n \in first..(id - 1) : n \in first..(last - 1) \/ n = last \/ n =< Seed
            BY <1>2, <1>4, <2>4, <3>2
        <3> QED
            BY <3>1, <3>4, <3>5, <3>6, <3>7
    <2> QED
        BY <1>1, <2>2, <2>3, <2>4, PackagedAfterLast DEF Y
<1>6. \A other \in accepted : other < id
    <2>1. SUFFICES ASSUME NEW other \in accepted, YearOf(other) < year
                   PROVE  other < id
        BY <1>2, <1>3, <1>5 DEF Y, AcceptedThisYear
    <2> QED
        <3>1. other \in Nat /\ YearOf(other) \in Nat /\ other =< YearOf(other) * 10000 + 9999
            BY IdInYear DEF TypeOK
        <3>2. year * 10000 + 1 =< id
            BY <1>5, IdInYear
        <3> QED
            BY <1>2, <2>1, <3>1, <3>2, EarlierYear
<1>7. packaged' = id /\ UNCHANGED <<accepted, year>>
    BY DEF Package
<1> QED
    BY <1>2, <1>5, <1>6, <1>7, NextIdFits

(* Steps keep the numbering, and years follow each other. *)
LEMMA NumberingStep ==
    ASSUME TypeOK, LinksKept, Numbering, [Next]_vars
    PROVE  Numbering'
<1> USE DEF queue, api, rows, control, counters
<1>1. ASSUME UNCHANGED <<year, packaged, accepted>>
      PROVE  Numbering'
    BY <1>1 DEF Numbering
<1>2. ASSUME NEW id \in Id, Package(id)
      PROVE  Numbering'
    BY <1>2, PackageStep
<1>3. ASSUME Accept
      PROVE  Numbering'
    BY <1>3 DEF Accept, Numbering
<1>4. ASSUME NewYear
      PROVE  Numbering'
    <2>1. year' = year + 1 /\ year \in Nat /\ UNCHANGED <<packaged, accepted>>
        BY <1>4, Numbers DEF NewYear, TypeOK
    <2>2. \A id \in accepted \cup ({packaged} \ {None}) : YearOf(id) \in Nat
        BY IdInYear, Numbers DEF TypeOK
    <2> QED
        BY <2>1, <2>2 DEF Numbering
<1> QED
    BY <1>1, <1>2, <1>3, <1>4
       DEF Next, Step, Arrive, Pause, Unpause, Begin, ReadIncomplete, GetEnvelope,
           GetFails, PostEnvelope, PostRefused, PostTimesOut, PublishingSucceeded,
           PublishingFailed, ReadList, PublishNext, Die, ExpireDead, ExpireLive,
           vars, Fault

(* A run that stops keeps LinksKept. *)
LEMMA StopKeepsLinks ==
    ASSUME TypeOK, LinksKept, NEW r \in Run, Stop(r), UNCHANGED <<accepted, link>>,
           Received \subseteq Received', Received' \cup inFlight' \subseteq Linked
    PROVE  LinksKept'
<1>1. UNCHANGED Linked
    BY DEF Linked
<1> QED
    BY <1>1, StopEffect DEF LinksKept, Working

(* ... and OneRun. *)
LEMMA StopKeepsOneRun ==
    ASSUME TypeOK, OneRun, NEW r \in Run, Stop(r), UNCHANGED <<rows, expired>>
    PROVE  OneRun'
<1>1. UNCHANGED <<Unfinished, link>>
    BY DEF rows, Unfinished
<1> QED
    BY <1>1, StopEffect DEF OneRun, Working

(* A row is linked to a new envelope each time, and only a linked row is   *)
(* posted.                                                                 *)
LEMMA LinksStep ==
    ASSUME TypeOK, LinksKept, Numbering, [Next]_vars
    PROVE  LinksKept'
<1> USE DEF queue, api, rows, control, counters
<1>1. ASSUME UNCHANGED <<accepted, link, received, inFlight, control>>
      PROVE  LinksKept'
    BY <1>1 DEF LinksKept, Linked, Working, Received
<1>2. ASSUME NEW id \in Id, Arrive(id)
      PROVE  LinksKept'
    <2>1. id \in Linked
        BY <1>2 DEF Arrive, LinksKept, Working
    <2>2. Received' = Received \cup {id}
        BY <1>2, <2>1, TakeAppends DEF Arrive, TypeOK, Linked
    <2> QED
        BY <1>2, <2>1, <2>2 DEF Arrive, LinksKept, Linked, Working, TypeOK
<1>3. ASSUME Accept
      PROVE  LinksKept'
    BY <1>3 DEF Accept, TypeOK, LinksKept, Linked, Working, Received, Numbering
<1>4. ASSUME NEW r \in Run, Begin(r)
      PROVE  LinksKept'
    BY <1>4 DEF Begin, Goto, TypeOK, LinksKept, Linked, Working, Received
<1>5. ASSUME NEW r \in Run, ReadIncomplete(r)
      PROVE  LinksKept'
    <2>0. UNCHANGED <<accepted, Received, Linked, link, inFlight>>
        BY <1>5 DEF ReadIncomplete, Received, Linked
    <2>1. CASE Stop(r)
        BY <1>5, <2>0, <2>1, StopKeepsLinks DEF LinksKept, ReadIncomplete
    <2>2. CASE Goto(r, "listing") /\ UNCHANGED <<at, envelope, todo>>
        BY <2>0, <2>2, GotoEffect DEF LinksKept, Working
    <2>3. ASSUME NEW c \in Incomplete, NEW id \in RowsOf(c),
                 at' = [at EXCEPT ![r] = id], envelope' = [envelope EXCEPT ![r] = c],
                 Goto(r, "getting"), UNCHANGED todo
          PROVE  LinksKept'
        <3>1. id \in Linked /\ c # 0 /\ link[id] = c
            BY DEF RowsOf, Incomplete, InState, TypeOK, Linked
        <3> QED
            BY <2>0, <2>3, <3>1 DEF Goto, TypeOK, LinksKept, Linked, Working
    <2> QED
        BY <1>5, <2>1, <2>2, <2>3 DEF ReadIncomplete
<1>6. ASSUME NEW r \in Run, GetEnvelope(r)
      PROVE  LinksKept'
    <2>1. UNCHANGED <<accepted, Received, Linked, link, inFlight, at, envelope, todo>>
        BY <1>6 DEF GetEnvelope, Received, Linked
    <2>2. pc' = [pc EXCEPT ![r] = IF at[r] \in Received THEN "succeeded" ELSE "posting"]
        BY <1>6 DEF GetEnvelope, Goto
    <2> QED
        BY <1>6, <2>1, <2>2 DEF GetEnvelope, TypeOK, LinksKept, Linked, Working
<1>7. ASSUME NEW r \in Run, GetFails(r)
      PROVE  LinksKept'
    BY <1>7, StopKeepsLinks DEF GetFails, Received, LinksKept
<1>8. ASSUME NEW r \in Run, PostEnvelope(r)
      PROVE  LinksKept'
    <2>1. at[r] \in Linked
        BY <1>8 DEF PostEnvelope, LinksKept, Working
    <2>2. Received' = Received \cup {at[r]}
        BY <1>8, <2>1, TakeAppends DEF PostEnvelope, TypeOK, Linked
    <2>3. /\ Goto(r, "succeeded")
          /\ UNCHANGED <<accepted, Linked, link, inFlight, at, envelope, todo>>
        BY <1>8 DEF PostEnvelope, Linked
    <2> QED
        BY <1>8, <2>1, <2>2, <2>3, GotoEffect DEF PostEnvelope, LinksKept, Working
<1>9. ASSUME NEW r \in Run, PostRefused(r)
      PROVE  LinksKept'
    BY <1>9
       DEF PostRefused, Fault, Goto, TypeOK, LinksKept, Linked, Working, Received
<1>10. ASSUME NEW r \in Run, PostTimesOut(r)
      PROVE  LinksKept'
    <2>1. at[r] \in Linked
        BY <1>10 DEF PostTimesOut, LinksKept, Working
    <2>2. UNCHANGED received \/ Take(at[r])
        BY <1>10 DEF PostTimesOut, api
    <2>3. Received \subseteq Received' /\ Received' \subseteq Received \cup {at[r]}
        <3>1. CASE UNCHANGED received
            BY <3>1 DEF Received
        <3>2. CASE Take(at[r])
            BY <2>1, <3>2, TakeAppends DEF TypeOK, Linked
        <3> QED
            BY <2>2, <3>1, <3>2
    <2>4. inFlight' \subseteq inFlight \cup {at[r]}
        BY <1>10 DEF PostTimesOut
    <2> QED
        BY <1>10, <2>1, <2>3, <2>4, StopKeepsLinks DEF PostTimesOut, LinksKept
<1>11. ASSUME NEW r \in Run, PublishingSucceeded(r)
      PROVE  LinksKept'
    <2>1. UNCHANGED <<accepted, Received, Linked, link, inFlight, todo>>
        BY <1>11 DEF PublishingSucceeded, Received, Linked
    <2>2. /\ pc' = [pc EXCEPT ![r] = IF todo[r] = None THEN "listing" ELSE "next"]
          /\ at' = [at EXCEPT ![r] = None] /\ envelope' = [envelope EXCEPT ![r] = 0]
        BY <1>11 DEF PublishingSucceeded, Goto
    <2>3. \A s \in Run : s # r => pc'[s] = pc[s] /\ at'[s] = at[s] /\ envelope'[s] = envelope[s]
        BY <2>2 DEF TypeOK
    <2>4. pc'[r] = IF todo[r] = None THEN "listing" ELSE "next"
        BY <2>2 DEF TypeOK
    <2> QED
        BY <2>1, <2>3, <2>4 DEF LinksKept, Working
<1>12. ASSUME NEW r \in Run, PublishingFailed(r)
      PROVE  LinksKept'
    BY <1>12, StopKeepsLinks DEF PublishingFailed, Received, LinksKept
<1>13. ASSUME NEW r \in Run, ReadList(r)
      PROVE  LinksKept'
    <2>1. UNCHANGED <<accepted, Received, Linked, link, inFlight, at, envelope>>
        BY <1>13 DEF ReadList, Received, Linked
    <2>2. Unpublished # None /\ Unpublished \subseteq accepted \ Legacy
        <3>1. Unpublished \in SUBSET Id
            BY DEF Unpublished, TypeOK
        <3> QED
            BY <3>1, CrownAssumption DEF Unpublished
    <2> QED
        BY <1>13, <2>1, <2>2 DEF ReadList, Goto, TypeOK, LinksKept, Linked, Working
<1>14. ASSUME NEW r \in Run, PublishNext(r)
      PROVE  LinksKept'
    <2>1. CASE todo[r] # {} /\ NextExpectedToApi(FirstToPublish(todo[r]))
        <3>1. PICK id \in todo[r], c \in Nat : Created(r, id, c)
            BY <1>14, <2>1, PublishNextCreates
        <3>2. id \in Id /\ id \in accepted \ Legacy /\ pc[r] = "next"
            BY <3>1 DEF Created
        <3>3. /\ Linked' = Linked \cup {id}
              /\ \A other \in Linked : link'[other] = IF other = id THEN c ELSE link[other]
              /\ \A other \in Linked : link[other] # c
              /\ UNCHANGED <<accepted, Received, inFlight>>
            BY <3>1 DEF Created, Linked
        <3>4. /\ Linked' \subseteq (accepted \ Legacy)'
              /\ \A i, other \in Linked' : link'[i] = link'[other] => i = other
              /\ (Received \cup inFlight)' \subseteq Linked'
            BY <3>1, <3>2, <3>3, CreatedEffect DEF LinksKept
        <3>5. ASSUME NEW s \in Run, pc'[s] \in Working
              PROVE  /\ at'[s] \in Linked' /\ envelope'[s] # 0
                     /\ \A i \in Linked' : link'[i] = envelope'[s] => i = at'[s]
                     /\ pc'[s] = "succeeded" => at'[s] \in Received'
            <4>1. CASE s = r
                BY <3>1, <3>2, <3>3, <4>1, CreatedEffect
            <4>2. CASE s # r
                BY <3>1, <3>2, <3>3, <3>5, <4>2, CreatedEffect DEF LinksKept
            <4> QED
                BY <4>1, <4>2
        <3>6. ASSUME NEW s \in Run
              PROVE  /\ pc'[s] = "idle" => todo'[s] = None
                     /\ pc'[s] = "next" => todo'[s] # None
                     /\ todo'[s] # None => todo'[s] \subseteq (accepted \ Legacy)'
            BY <3>1, <3>2, <3>3, CreatedEffect DEF LinksKept
        <3> QED
            BY <3>4, <3>5, <3>6 DEF LinksKept
    <2>2. CASE ~(todo[r] # {} /\ NextExpectedToApi(FirstToPublish(todo[r])))
        <3>1. Stop(r) /\ UNCHANGED <<queue, rows, api, counters>>
            BY <1>14, <2>2 DEF PublishNext
        <3> QED
            BY <3>1, StopKeepsLinks DEF Received, LinksKept
    <2> QED
        BY <2>1, <2>2
<1>15. ASSUME NEW r \in Run, Die(r)
      PROVE  LinksKept'
    BY <1>15 DEF Die, Fault, Goto, TypeOK, LinksKept, Linked, Working, Received
<1> QED
    BY <1>1, <1>2, <1>3, <1>4, <1>5, <1>6, <1>7, <1>8, <1>9, <1>10, <1>11, <1>12,
       <1>13, <1>14, <1>15
       DEF Next, Step, Package, NewYear, Pause, Unpause, ExpireDead, ExpireLive,
           vars

(* A late save marks the envelope that the run has in hand, and that       *)
(* belongs to the row it has posted or to none.                            *)
LEMMA SuccessStep ==
    ASSUME TypeOK, LinksKept, Numbering, SuccessMeansReceived, [Next]_vars
    PROVE  SuccessMeansReceived'
<1> USE DEF queue, api, rows, control, counters
<1>0. Received \subseteq Received'
    BY ReceivedGrows
<1>1. ASSUME UNCHANGED <<accepted, rows>>
      PROVE  SuccessMeansReceived'
    BY <1>1, <1>0 DEF SuccessMeansReceived
<1>2. ASSUME Accept
      PROVE  SuccessMeansReceived'
    <2>1. packaged \in Id /\ packaged \notin Linked
        BY <1>2, IdInYear DEF Accept, TypeOK, LinksKept, Numbering
    <2> QED
        BY <1>2, <1>0, <2>1 DEF Accept, SuccessMeansReceived, Linked
<1>3. ASSUME NEW r \in Run, PublishingSucceeded(r)
      PROVE  SuccessMeansReceived'
    <2>1. envelope[r] \in 1..Len(crown)
        BY <1>3 DEF PublishingSucceeded, LinksKept, Working, TypeOK
    <2>2. /\ Len(crown') = Len(crown) /\ \A d \in 1..Len(crown) : crown'[d] = IF d = envelope[r] THEN "SUCCESSFULLY_PUBLISHED" ELSE crown[d]
          /\ Unfinished' = Unfinished \ {envelope[r]}
        BY <1>3, <2>1, SaveChangesOne
           DEF PublishingSucceeded, TypeOK, ApiPublishingState
    <2> QED
        BY <1>3, <2>1, <2>2, <1>0
           DEF PublishingSucceeded, Stop, Goto, SuccessMeansReceived, LinksKept,
               Working, Linked, TypeOK
<1>4. ASSUME NEW r \in Run, PublishingFailed(r)
      PROVE  SuccessMeansReceived'
    <2>1. envelope[r] \in 1..Len(crown)
        BY <1>4 DEF PublishingFailed, LinksKept, Working, TypeOK
    <2>2. /\ Len(crown') = Len(crown) /\ \A d \in 1..Len(crown) : crown'[d] = IF d = envelope[r] THEN "FAILED_PUBLISHING" ELSE crown[d]
          /\ Unfinished' = Unfinished \cup {envelope[r]}
        BY <1>4, <2>1, SaveChangesOne
           DEF PublishingFailed, TypeOK, ApiPublishingState
    <2> QED
        BY <1>4, <2>1, <2>2, <1>0
           DEF PublishingFailed, Stop, Goto, SuccessMeansReceived, LinksKept,
               Working, Linked, TypeOK
<1>5. ASSUME NEW r \in Run, PublishNext(r)
      PROVE  SuccessMeansReceived'
    <2>1. CASE todo[r] # {} /\ NextExpectedToApi(FirstToPublish(todo[r]))
        <3>1. PICK id \in todo[r], c \in Nat : Created(r, id, c)
            BY <1>5, <2>1, PublishNextCreates
        <3>2. \A other \in accepted : link'[other] # 0 /\ crown'[link'[other]] = "SUCCESSFULLY_PUBLISHED"
                => link[other] # 0 /\ crown[link[other]] = "SUCCESSFULLY_PUBLISHED"
            BY <3>1 DEF Created, TypeOK
        <3> QED
            BY <3>1, <3>2 DEF Created, SuccessMeansReceived
    <2>2. CASE ~(todo[r] # {} /\ NextExpectedToApi(FirstToPublish(todo[r])))
        <3>1. Stop(r) /\ UNCHANGED <<queue, rows, api, counters>>
            BY <1>5, <2>2 DEF PublishNext
        <3> QED
            BY <1>5, <3>1, <1>0 DEF Stop, Goto, SuccessMeansReceived
    <2> QED
        BY <2>1, <2>2
<1> QED
    BY <1>1, <1>2, <1>3, <1>4, <1>5
       DEF Next, Step, Package, Arrive, NewYear, Pause, Unpause, Begin,
           ReadIncomplete, GetEnvelope, GetFails, PostEnvelope, PostRefused,
           PostTimesOut, ReadList, Die, ExpireDead, ExpireLive, vars, Fault

(* A run creates an envelope only after it has found none unfinished.      *)
LEMMA OneUnfinishedStep ==
    ASSUME TypeOK, LinksKept, OneRun, OneUnfinished, [Next]_vars
    PROVE  OneUnfinished'
<1> USE DEF queue, api, rows, control, counters
<1>1. ASSUME UNCHANGED <<accepted, rows, expired>>
      PROVE  OneUnfinished'
    BY <1>1 DEF OneUnfinished
<1>2. ASSUME Accept
      PROVE  OneUnfinished'
    BY <1>2 DEF Accept, OneUnfinished
<1>3. ASSUME NEW r \in Run, PublishingSucceeded(r)
      PROVE  OneUnfinished'
    <2>1. envelope[r] \in 1..Len(crown)
        BY <1>3 DEF PublishingSucceeded, LinksKept, Working, TypeOK
    <2>2. /\ Len(crown') = Len(crown) /\ \A d \in 1..Len(crown) : crown'[d] = IF d = envelope[r] THEN "SUCCESSFULLY_PUBLISHED" ELSE crown[d]
          /\ Unfinished' = Unfinished \ {envelope[r]}
        BY <1>3, <2>1, SaveChangesOne
           DEF PublishingSucceeded, TypeOK, ApiPublishingState
    <2> QED
        BY <1>3, <2>1, <2>2
           DEF PublishingSucceeded, Stop, Goto, OneUnfinished, TypeOK
<1>4. ASSUME NEW r \in Run, PublishingFailed(r)
      PROVE  OneUnfinished'
    <2>1. envelope[r] \in 1..Len(crown)
        BY <1>4 DEF PublishingFailed, LinksKept, Working, TypeOK
    <2>2. /\ Len(crown') = Len(crown) /\ \A d \in 1..Len(crown) : crown'[d] = IF d = envelope[r] THEN "FAILED_PUBLISHING" ELSE crown[d]
          /\ Unfinished' = Unfinished \cup {envelope[r]}
        BY <1>4, <2>1, SaveChangesOne
           DEF PublishingFailed, TypeOK, ApiPublishingState
    <2> QED
        BY <1>4, <2>1, <2>2
           DEF PublishingFailed, Stop, Goto, OneUnfinished, OneRun, Working,
               Unfinished, TypeOK
<1>5. ASSUME NEW r \in Run, PublishNext(r)
      PROVE  OneUnfinished'
    <2>1. CASE todo[r] # {} /\ NextExpectedToApi(FirstToPublish(todo[r]))
        <3>1. PICK id \in todo[r], c \in Nat : Created(r, id, c)
            BY <1>5, <2>1, PublishNextCreates
        <3>2. expired = 0 => Unfinished = {}
            BY <3>1 DEF Created, OneRun
        <3> QED
            BY <3>1, <3>2 DEF Created, OneUnfinished, Unfinished
    <2>2. CASE ~(todo[r] # {} /\ NextExpectedToApi(FirstToPublish(todo[r])))
        <3>1. Stop(r) /\ UNCHANGED <<queue, rows, api, counters>>
            BY <1>5, <2>2 DEF PublishNext
        <3> QED
            BY <1>5, <3>1 DEF Stop, Goto, OneUnfinished, Unfinished
    <2> QED
        BY <2>1, <2>2
<1>6. ASSUME ExpireLive
      PROVE  OneUnfinished'
    BY <1>6 DEF ExpireLive, OneUnfinished, TypeOK
<1> QED
    BY <1>1, <1>2, <1>3, <1>4, <1>5, <1>6
       DEF Next, Step, Package, Arrive, NewYear, Pause, Unpause, Begin,
           ReadIncomplete, GetEnvelope, GetFails, PostEnvelope, PostRefused,
           PostTimesOut, ReadList, Die, ExpireDead, vars, Fault

(* A run starts with the lock, and the lock is not taken away from it.     *)
LEMMA OneRunStep ==
    ASSUME TypeOK, LinksKept, OneRun, OneUnfinished, [Next]_vars
    PROVE  OneRun'
<1> USE DEF queue, api, rows, control, counters
<1>1. ASSUME UNCHANGED <<lock, control, rows, expired>>
      PROVE  OneRun'
    BY <1>1 DEF OneRun, Working, Unfinished
<1>2. ASSUME NEW r \in Run, Begin(r)
      PROVE  OneRun'
    <2>1. /\ lock = None /\ lock' = r /\ Goto(r, "incomplete")
          /\ UNCHANGED <<link, crown, at, envelope, expired>>
        BY <1>2 DEF Begin
    <2>2. UNCHANGED Unfinished /\ \A s \in Run : s # None
        BY <2>1, CrownAssumption DEF Unfinished
    <2> QED
        BY <2>1, <2>2, GotoEffect DEF OneRun, Working
<1>3. ASSUME NEW r \in Run, ReadIncomplete(r)
      PROVE  OneRun'
    <2>1. CASE Stop(r)
        BY <1>3, <2>1, StopKeepsOneRun DEF ReadIncomplete
    <2>2. CASE Incomplete = {} /\ Goto(r, "listing") /\ UNCHANGED <<lock, at, envelope, todo>>
        BY <1>3, <2>2, IncompleteIsUnfinished
           DEF ReadIncomplete, Goto, OneRun, Working, TypeOK, Unfinished
    <2>3. ASSUME NEW c \in Incomplete, NEW id \in RowsOf(c), Incomplete = {c},
                 at' = [at EXCEPT ![r] = id], envelope' = [envelope EXCEPT ![r] = c],
                 Goto(r, "getting"), UNCHANGED <<lock, todo>>
          PROVE  OneRun'
        <3>1. Unfinished = {c} /\ link[id] = c
            BY <2>3, IncompleteIsUnfinished DEF RowsOf
        <3> QED
            BY <1>3, <2>3, <3>1
               DEF ReadIncomplete, Goto, OneRun, Working, TypeOK, Unfinished
    <2> QED
        BY <1>3, <2>1, <2>2, <2>3 DEF ReadIncomplete
<1>4. ASSUME NEW r \in Run, GetEnvelope(r)
      PROVE  OneRun'
    BY <1>4 DEF GetEnvelope, Goto, OneRun, Working, TypeOK, Unfinished
<1>5. ASSUME NEW r \in Run, GetFails(r)
      PROVE  OneRun'
    BY <1>5, StopKeepsOneRun DEF GetFails, Fault
<1>6. ASSUME NEW r \in Run, PostEnvelope(r)
      PROVE  OneRun'
    BY <1>6 DEF PostEnvelope, Goto, OneRun, Working, TypeOK, Unfinished
<1>7. ASSUME NEW r \in Run, PostRefused(r)
      PROVE  OneRun'
    BY <1>7 DEF PostRefused, Fault, Goto, OneRun, Working, TypeOK, Unfinished
<1>8. ASSUME NEW r \in Run, PostTimesOut(r)
      PROVE  OneRun'
    BY <1>8, StopKeepsOneRun DEF PostTimesOut
<1>9. ASSUME NEW r \in Run, PublishingSucceeded(r)
      PROVE  OneRun'
    <2>1. envelope[r] \in 1..Len(crown)
        BY <1>9 DEF PublishingSucceeded, LinksKept, Working, TypeOK
    <2>2. /\ Len(crown') = Len(crown) /\ \A d \in 1..Len(crown) : crown'[d] = IF d = envelope[r] THEN "SUCCESSFULLY_PUBLISHED" ELSE crown[d]
          /\ Unfinished' = Unfinished \ {envelope[r]}
        BY <1>9, <2>1, SaveChangesOne
           DEF PublishingSucceeded, TypeOK, ApiPublishingState
    <2> QED
        <3>1. /\ pc[r] = "succeeded" /\ Goto(r, IF todo[r] = None THEN "listing" ELSE "next")
              /\ at' = [at EXCEPT ![r] = None] /\ envelope' = [envelope EXCEPT ![r] = 0]
              /\ UNCHANGED <<lock, link, expired>>
            BY <1>9 DEF PublishingSucceeded
        <3>2. \A s \in Run : s # r => at'[s] = at[s] /\ envelope'[s] = envelope[s]
            BY <3>1, TypesOfParts DEF HandTypes
        <3> QED
            BY <2>2, <3>1, <3>2, GotoEffect DEF OneRun, Working
<1>10. ASSUME NEW r \in Run, PublishingFailed(r)
      PROVE  OneRun'
    <2>1. envelope[r] \in 1..Len(crown)
        BY <1>10 DEF PublishingFailed, LinksKept, Working, TypeOK
    <2>2. /\ Len(crown') = Len(crown) /\ \A d \in 1..Len(crown) : crown'[d] = IF d = envelope[r] THEN "FAILED_PUBLISHING" ELSE crown[d]
          /\ Unfinished' = Unfinished \cup {envelope[r]}
        BY <1>10, <2>1, SaveChangesOne
           DEF PublishingFailed, TypeOK, ApiPublishingState
    <2> QED
        BY <1>10, <2>1, <2>2, StopEffect
           DEF PublishingFailed, OneRun, LinksKept, Working
<1>11. ASSUME NEW r \in Run, ReadList(r)
      PROVE  OneRun'
    BY <1>11 DEF ReadList, Goto, OneRun, Working, TypeOK, Unfinished
<1>12. ASSUME NEW r \in Run, PublishNext(r)
      PROVE  OneRun'
    <2>1. CASE todo[r] # {} /\ NextExpectedToApi(FirstToPublish(todo[r]))
        <3>1. PICK id \in todo[r], c \in Nat : Created(r, id, c)
            BY <1>12, <2>1, PublishNextCreates
        <3>2. /\ id \in Id /\ pc[r] = "next" /\ Unfinished' = Unfinished \cup {c}
              /\ UNCHANGED <<lock, expired>>
            BY <3>1 DEF Created
        <3> QED
            BY <3>1, <3>2, CreatedEffect DEF OneRun, Working
    <2>2. CASE ~(todo[r] # {} /\ NextExpectedToApi(FirstToPublish(todo[r])))
        <3>1. Stop(r) /\ UNCHANGED <<queue, rows, api, counters>>
            BY <1>12, <2>2 DEF PublishNext
        <3> QED
            BY <3>1, StopKeepsOneRun
    <2> QED
        BY <2>1, <2>2
<1>13. ASSUME NEW r \in Run, Die(r)
      PROVE  OneRun'
    <2>1. /\ Goto(r, "idle") /\ at' = [at EXCEPT ![r] = None]
          /\ envelope' = [envelope EXCEPT ![r] = 0]
          /\ lock' = IF lock = r THEN Dead ELSE lock
          /\ UNCHANGED <<link, crown, expired>>
        BY <1>13 DEF Die, Fault
    <2>2. \A s \in Run : s # r => at'[s] = at[s] /\ envelope'[s] = envelope[s]
        BY <2>1, TypesOfParts DEF HandTypes
    <2>3. UNCHANGED Unfinished
        BY <2>1 DEF Unfinished
    <2> QED
        BY <2>1, <2>2, <2>3, GotoEffect DEF OneRun, Working
<1>14. ASSUME ExpireDead
      PROVE  OneRun'
    <2>1. lock = Dead /\ UNCHANGED <<link, pc, at, envelope, expired, Unfinished>>
        BY <1>14 DEF ExpireDead, Unfinished
    <2>2. Dead \notin Run
        BY CrownAssumption
    <2> QED
        BY <2>1, <2>2 DEF OneRun, Working
<1>15. ASSUME ExpireLive
      PROVE  OneRun'
    BY <1>15 DEF ExpireLive, OneRun, Working, TypeOK, Unfinished
<1> QED
    BY <1>1, <1>2, <1>3, <1>4, <1>5, <1>6, <1>7, <1>8, <1>9, <1>10, <1>11, <1>12,
       <1>13, <1>14, <1>15
       DEF Next, Step, Package, Arrive, Accept, NewYear, Pause, Unpause, vars

(* A run that finds out of turn the first row of its list has found one    *)
(* that was left over from an earlier year, or the seed ahead.             *)
LEMMA ReasonToPause ==
    ASSUME TypeOK, LinksKept, Numbering, InTurn, expired = 0, NEW r \in Run,
           todo[r] # None, todo[r] # {}, ~NextExpectedToApi(FirstToPublish(todo[r]))
    PROVE  \E id \in Unpublished : YearOf(id) < year \/ SeedAhead
<1> DEFINE id == FirstToPublish(todo[r])
           previous == LastPublishedEnvelopeId
           published == Legacy \cup {other \in accepted : link[other] # 0}
           first == year * 10000 + 1
<1>1. /\ todo[r] \in SUBSET Id /\ todo[r] \subseteq Unpublished
      /\ \A other \in Unpublished \ todo[r] : id < other
      /\ id \in todo[r] /\ \A other \in todo[r] : id =< other
    <2>1. todo[r] \in SUBSET Id
        BY DEF TypeOK
    <2> QED
        BY <2>1, FirstIsFirst DEF InTurn
<1>2. id \in accepted /\ id \in Id /\ YearOf(id) =< year /\ year \in Nat
    BY <1>1, Numbers DEF Unpublished, Numbering, TypeOK
<1>3. previous \in Id \cup {0} /\ IsLast(published, previous)
    BY LastIsLast
<1>4. SUFFICES ASSUME YearOf(id) = year, ~SeedAhead
               PROVE  FALSE
    <2>1. YearOf(id) \in Nat
        BY <1>2, IdInYear
    <2>2. YearOf(id) # year => YearOf(id) < year
        BY <1>2, <2>1
    <2> QED
        BY <1>1, <2>2
<1>5. ~(IF previous = 0 \/ YearOf(previous) = year - 1 THEN id = first ELSE previous >= Seed)
    BY DEF NextExpectedToApi
<1> HIDE DEF id, previous
<1>6. CASE previous = 0 \/ YearOf(previous) = year - 1
    <2>1. id # first /\ first =< id /\ id \in Nat /\ first \in Nat
        BY <1>2, <1>4, <1>5, <1>6, IdInYear
    <2>2. first \in accepted
        <3>1. first \in first..(id - 1)
            BY <2>1
        <3>2. Seed \in Nat /\ ~(Seed > year * 10000)
            BY <1>4, <1>6, Numbers DEF SeedAhead, previous
        <3>3. ~(first =< Seed)
            BY <1>2, <3>2
        <3> QED
            BY <1>2, <1>4, <3>1, <3>3 DEF Numbering
    <2>3. first \notin Unpublished
        BY <1>1, <2>1
    <2>4. first \in published
        BY <2>2, <2>3 DEF Unpublished
    <2>5. previous \in published /\ first =< previous
        BY <1>3, <2>4 DEF IsLast
    <2>6. previous \in Id /\ YearOf(previous) = year - 1
        <3>1. previous # 0
            BY <1>2, <2>5
        <3> QED
            BY <1>3, <1>6, <3>1
    <2>7. previous < first
        <3>1. /\ previous \in Nat /\ YearOf(previous) \in Nat
              /\ previous =< YearOf(previous) * 10000 + 9999
            BY <2>6, IdInYear
        <3>2. YearOf(previous) < year
            BY <1>2, <2>6
        <3> HIDE DEF first
        <3> QED
            BY <1>2, <2>1, <3>1, <3>2, EarlierYear DEF first
    <2> QED
        BY <2>1, <2>5, <2>6, <2>7, IdInYear
<1>7. CASE ~(previous = 0 \/ YearOf(previous) = year - 1)
    <2>1. previous \in Nat /\ Seed \in Nat
        BY <1>3, IdInYear, Numbers
    <2>2. ~(Seed > previous)
        BY <1>4, <1>7 DEF SeedAhead, previous
    <2>3. previous >= Seed
        BY <2>1, <2>2
    <2> QED
        BY <1>5, <1>7, <2>3
<1> QED
    BY <1>6, <1>7

(* Who paused the publishing, in one word. *)
LEMMA PausedBySystem ==
    ASSUME TypeOK
    PROVE  IsPaused /\ operational.created_by = "system" /\ operational.publishing_state # "none"
                <=> operational = Status("PAUSED", "system")
BY DEF TypeOK, IsPaused, Status

(* The first row of the list follows on those that have an envelope, and   *)
(* these are published.                                                    *)
LEMMA InTurnStep ==
    ASSUME TypeOK, LinksKept, Numbering, OneRun, InTurn, SuccessMeansReceived,
           [Next]_vars
    PROVE  InTurn'
<1> USE DEF queue, api, rows, control, counters
<1>0. Received \subseteq Received'
    BY ReceivedGrows
<1>1. ASSUME UNCHANGED <<accepted, link, todo, expired>>
      PROVE  InTurn'
    BY <1>1, <1>0 DEF InTurn, Unpublished, Linked
<1>2. ASSUME Accept
      PROVE  InTurn'
    <2>1. packaged \in Id /\ \A id \in accepted : id < packaged
        BY <1>2 DEF Accept, TypeOK, Numbering
    <2>2. \A r \in Run : todo[r] # None => todo[r] \subseteq accepted
        BY DEF LinksKept
    <2>3. Linked' = Linked /\ Linked \subseteq accepted /\ \A id \in Linked : ~(packaged < id)
        <3>1. Linked' = Linked /\ Linked \subseteq accepted
            BY <1>2 DEF Accept, Linked, LinksKept
        <3>2. packaged \in Nat /\ \A id \in accepted : id \in Nat
            BY <2>1, IdInYear DEF TypeOK
        <3> QED
            BY <2>1, <3>1, <3>2
    <2>4. Unpublished \subseteq Unpublished' /\ Unpublished' \subseteq Unpublished \cup {packaged}
        BY <1>2 DEF Accept, Unpublished
    <2> QED
        BY <1>2, <1>0, <2>1, <2>2, <2>3, <2>4 DEF Accept, InTurn
<1>3. ASSUME NEW r \in Run, ReadIncomplete(r)
      PROVE  InTurn'
    BY <1>3, <1>0
       DEF ReadIncomplete, Goto, Stop, InTurn, Unpublished, Linked, TypeOK
<1>4. ASSUME NEW r \in Run, GetFails(r)
      PROVE  InTurn'
    BY <1>4, <1>0
       DEF GetFails, Fault, Stop, Goto, InTurn, Unpublished, Linked, TypeOK
<1>5. ASSUME NEW r \in Run, PostTimesOut(r)
      PROVE  InTurn'
    BY <1>5, <1>0 DEF PostTimesOut, Stop, Goto, InTurn, Unpublished, Linked, TypeOK
<1>6. ASSUME NEW r \in Run, PublishingFailed(r)
      PROVE  InTurn'
    BY <1>6, <1>0
       DEF PublishingFailed, Stop, Goto, InTurn, Unpublished, Linked, TypeOK
<1>7. ASSUME NEW r \in Run, ReadList(r)
      PROVE  InTurn'
    BY <1>7, <1>0 DEF ReadList, Goto, InTurn, Unpublished, Linked, TypeOK
<1>8. ASSUME NEW r \in Run, PublishNext(r)
      PROVE  InTurn'
    <2>1. CASE todo[r] # {} /\ NextExpectedToApi(FirstToPublish(todo[r]))
        <3>1. PICK id \in todo[r], c \in Nat : Created(r, id, c)
            BY <1>8, <2>1, PublishNextCreates
        <3>2. expired = 0 => \A other \in accepted \ Legacy : other < id => other \in Received
            <4>1. SUFFICES ASSUME expired = 0, NEW other \in accepted \ Legacy, other < id
                           PROVE  other \in Received
                OBVIOUS
            <4>2. other \in Id /\ other \in Nat /\ id \in Nat
                BY <3>1, IdInYear DEF Created, TypeOK
            <4>3. other \notin Unpublished
                <5>1. todo[r] # None /\ \A i \in todo[r] : id =< i
                    BY <3>1, <1>8 DEF Created, PublishNext, LinksKept
                <5>2. \A i \in Unpublished \ todo[r] : id < i
                    BY <4>1, <5>1 DEF InTurn
                <5> QED
                    BY <4>1, <4>2, <5>1, <5>2
            <4>4. link[other] \in 1..Len(crown) /\ crown[link[other]] = "SUCCESSFULLY_PUBLISHED"
                <5>1. link[other] # 0 /\ link[other] \in 0..Len(crown) /\ Len(crown) \in Nat
                    BY <4>1, <4>2, <4>3, TypesOfParts DEF Unpublished, TableTypes
                <5>2. Unfinished = {}
                    BY <3>1, <4>1 DEF Created, OneRun
                <5> QED
                    BY <5>1, <5>2 DEF Unfinished
            <4> QED
                BY <4>1, <4>4 DEF SuccessMeansReceived
        <3>3. Unpublished' = Unpublished \ {id}
            BY <3>1 DEF Created, Unpublished, TypeOK
        <3>4. todo \in [Run -> (SUBSET Id) \cup {None}] /\ todo[r] # None
            BY <1>8 DEF TypeOK, LinksKept, PublishNext
        <3>5. expired' = 0 => \A s \in Run : todo'[s] # None =>
                /\ todo'[s] \subseteq Unpublished'
                /\ \A i \in todo'[s] : \A other \in Unpublished' \ todo'[s] : i < other
            <4>1. \A s \in Run : s # r => todo'[s] = todo[s]
                BY <3>1, <3>4 DEF Created
            <4>2. todo'[r] = todo[r] \ {id}
                BY <3>1, <3>4 DEF Created
            <4>3. SUFFICES ASSUME expired = 0
                           PROVE  \A s \in Run : todo'[s] # None =>
                                    /\ todo'[s] \subseteq Unpublished'
                                    /\ \A i \in todo'[s] : \A other \in Unpublished' \ todo'[s] : i < other
                BY <3>1 DEF Created
            <4>4. \A s \in Run : s # r => todo[s] = None
                BY <3>1, <4>3 DEF Created, OneRun, LinksKept
            <4>5. /\ todo[r] \subseteq Unpublished
                  /\ \A i \in todo[r] : \A other \in Unpublished \ todo[r] : i < other
                BY <3>4, <4>3 DEF InTurn
            <4>6. \A i \in todo[r] \ {id} : \A other \in Unpublished' \ (todo[r] \ {id}) : i < other
                BY <3>3, <4>5
            <4> QED
                BY <3>3, <4>1, <4>2, <4>4, <4>5, <4>6
        <3>6. expired' = 0 => \A i \in Linked' : \A other \in (accepted \ Legacy)' :
                other < i => other \in Received'
            BY <3>1, <3>2 DEF Created, InTurn
        <3> QED
            BY <3>1, <3>5, <3>6 DEF Created, InTurn
    <2>2. CASE ~(todo[r] # {} /\ NextExpectedToApi(FirstToPublish(todo[r])))
        <3>1. Stop(r) /\ UNCHANGED <<queue, rows, api, counters>>
            BY <1>8, <2>2 DEF PublishNext
        <3> QED
            BY <1>8, <3>1, <1>0
               DEF Stop, Goto, PublishNext, InTurn, Unpublished, Linked, TypeOK
    <2> QED
        BY <2>1, <2>2
<1>9. ASSUME NEW r \in Run, Die(r)
      PROVE  InTurn'
    BY <1>9, <1>0 DEF Die, Fault, Goto, InTurn, Unpublished, Linked, TypeOK
<1>10. ASSUME ExpireLive
      PROVE  InTurn'
    BY <1>10, <1>0 DEF ExpireLive, InTurn, Unpublished, Linked, TypeOK
<1> QED
    BY <1>1, <1>2, <1>3, <1>4, <1>5, <1>6, <1>7, <1>8, <1>9, <1>10
       DEF Next, Step, Package, Arrive, NewYear, Pause, Unpause, Begin, GetEnvelope,
           PostEnvelope, PostRefused, PublishingSucceeded, ExpireDead, vars, Fault

(* A run asks for the unfinished envelope before it posts it again.        *)
LEMMA NotTwiceStep ==
    ASSUME TypeOK, LinksKept, OneRun, InTurn, NotTwice, [Next]_vars
    PROVE  NotTwice'
<1> USE DEF queue, api, rows, control, counters
<1>1. ASSUME UNCHANGED <<api, pc, at, expired, overdue>>
      PROVE  NotTwice'
    BY <1>1 DEF NotTwice, Received
<1>2. ASSUME NEW id \in Id, Arrive(id)
      PROVE  NotTwice'
    BY <1>2 DEF Arrive, NotTwice, TypeOK, OneRun
<1>3. ASSUME NEW r \in Run, Begin(r)
      PROVE  NotTwice'
    BY <1>3 DEF Begin, Goto, NotTwice, TypeOK, Received
<1>4. ASSUME NEW r \in Run, ReadIncomplete(r)
      PROVE  NotTwice'
    <2>1. /\ \A s \in Run : pc'[s] = "posting" => pc[s] = "posting" /\ at'[s] = at[s]
          /\ UNCHANGED <<Received, inFlight, expired, overdue>>
        BY <1>4 DEF ReadIncomplete, Stop, Goto, Received, TypeOK
    <2> QED
        BY <2>1 DEF NotTwice
<1>5. ASSUME NEW r \in Run, GetEnvelope(r)
      PROVE  NotTwice'
    BY <1>5 DEF GetEnvelope, Goto, NotTwice, TypeOK, Received
<1>6. ASSUME NEW r \in Run, GetFails(r)
      PROVE  NotTwice'
    BY <1>6 DEF GetFails, Fault, Stop, Goto, NotTwice, TypeOK, Received
<1>7. ASSUME NEW r \in Run, PostEnvelope(r)
      PROVE  NotTwice'
    BY <1>7 DEF PostEnvelope, Goto, NotTwice, TypeOK, OneRun
<1>8. ASSUME NEW r \in Run, PostRefused(r)
      PROVE  NotTwice'
    BY <1>8 DEF PostRefused, Fault, Goto, NotTwice, TypeOK, Received
<1>9. ASSUME NEW r \in Run, PostTimesOut(r)
      PROVE  NotTwice'
    BY <1>9 DEF PostTimesOut, Stop, Goto, NotTwice, TypeOK, OneRun
<1>10. ASSUME NEW r \in Run, PublishingSucceeded(r)
      PROVE  NotTwice'
    BY <1>10 DEF PublishingSucceeded, Goto, NotTwice, TypeOK, Received
<1>11. ASSUME NEW r \in Run, PublishingFailed(r)
      PROVE  NotTwice'
    BY <1>11 DEF PublishingFailed, Stop, Goto, NotTwice, TypeOK, Received
<1>12. ASSUME NEW r \in Run, ReadList(r)
      PROVE  NotTwice'
    BY <1>12 DEF ReadList, Goto, NotTwice, TypeOK, Received
<1>13. ASSUME NEW r \in Run, PublishNext(r)
      PROVE  NotTwice'
    <2>1. CASE todo[r] # {} /\ NextExpectedToApi(FirstToPublish(todo[r]))
        <3>1. PICK id \in todo[r], c \in Nat : Created(r, id, c)
            BY <1>13, <2>1, PublishNextCreates
        <3>2. expired = 0 => id \notin Received
            BY <1>13, <3>1
               DEF Created, InTurn, PublishNext, LinksKept, Unpublished, Linked
        <3>3. pc \in [Run -> {"idle", "incomplete", "getting", "posting", "succeeded",
                              "failed", "listing", "next"}] /\ at \in [Run -> Id \cup {None}]
            BY DEF TypeOK
        <3> QED
            BY <3>1, <3>2, <3>3 DEF Created, NotTwice
    <2>2. CASE ~(todo[r] # {} /\ NextExpectedToApi(FirstToPublish(todo[r])))
        <3>1. Stop(r) /\ UNCHANGED <<queue, rows, api, counters>>
            BY <1>13, <2>2 DEF PublishNext
        <3> QED
            BY <1>13, <3>1 DEF Stop, Goto, PublishNext, NotTwice, TypeOK, Received
    <2> QED
        BY <2>1, <2>2
<1>14. ASSUME NEW r \in Run, Die(r)
      PROVE  NotTwice'
    BY <1>14 DEF Die, Fault, Goto, NotTwice, TypeOK, Received
<1>15. ASSUME ExpireLive
      PROVE  NotTwice'
    BY <1>15 DEF ExpireLive, NotTwice, TypeOK, Received
<1> QED
    BY <1>1, <1>2, <1>3, <1>4, <1>5, <1>6, <1>7, <1>8, <1>9, <1>10, <1>11, <1>12,
       <1>13, <1>14, <1>15
       DEF Next, Step, Package, Accept, NewYear, Pause, Unpause, ExpireDead, vars

(* The run that pauses the publishing ends, and none starts until a user   *)
(* unpauses it.                                                            *)
LEMMA PauseStep ==
    ASSUME TypeOK, OneRun, NoRunSincePause, [Next]_vars
    PROVE  NoRunSincePause'
<1> USE DEF queue, api, rows, control, counters
<1>1. ASSUME UNCHANGED <<operational, pc, expired>>
      PROVE  NoRunSincePause'
    BY <1>1 DEF NoRunSincePause
<1>2. ASSUME Pause
      PROVE  NoRunSincePause'
    BY <1>2, StatusType
       DEF Pause, PausePublishing, IsPaused, Status, NoRunSincePause, TypeOK
<1>3. ASSUME Unpause
      PROVE  NoRunSincePause'
    BY <1>3, StatusType DEF Unpause, IsPaused, Status, NoRunSincePause, TypeOK
<1>4. ASSUME NEW r \in Run, Begin(r)
      PROVE  NoRunSincePause'
    BY <1>4, StatusType DEF Begin, Goto, NoRunSincePause, TypeOK
<1>5. ASSUME NEW r \in Run, ReadIncomplete(r)
      PROVE  NoRunSincePause'
    BY <1>5 DEF ReadIncomplete, Goto, Stop, NoRunSincePause, TypeOK, OneRun
<1>6. ASSUME NEW r \in Run, GetEnvelope(r)
      PROVE  NoRunSincePause'
    BY <1>6 DEF GetEnvelope, Goto, NoRunSincePause, TypeOK, OneRun
<1>7. ASSUME NEW r \in Run, GetFails(r)
      PROVE  NoRunSincePause'
    BY <1>7 DEF GetFails, Fault, Stop, Goto, NoRunSincePause, TypeOK
<1>8. ASSUME NEW r \in Run, PostEnvelope(r)
      PROVE  NoRunSincePause'
    BY <1>8 DEF PostEnvelope, Goto, NoRunSincePause, TypeOK
<1>9. ASSUME NEW r \in Run, PostRefused(r)
      PROVE  NoRunSincePause'
    BY <1>9 DEF PostRefused, Fault, Goto, NoRunSincePause, TypeOK
<1>10. ASSUME NEW r \in Run, PostTimesOut(r)
      PROVE  NoRunSincePause'
    BY <1>10 DEF PostTimesOut, Stop, Goto, NoRunSincePause, TypeOK
<1>11. ASSUME NEW r \in Run, PublishingSucceeded(r)
      PROVE  NoRunSincePause'
    BY <1>11 DEF PublishingSucceeded, Goto, NoRunSincePause, TypeOK
<1>12. ASSUME NEW r \in Run, PublishingFailed(r)
      PROVE  NoRunSincePause'
    BY <1>12 DEF PublishingFailed, Stop, Goto, NoRunSincePause, TypeOK
<1>13. ASSUME NEW r \in Run, ReadList(r)
      PROVE  NoRunSincePause'
    BY <1>13 DEF ReadList, Goto, NoRunSincePause, TypeOK
<1>14. ASSUME NEW r \in Run, PublishNext(r)
      PROVE  NoRunSincePause'
    BY <1>14 DEF PublishNext, Goto, Stop, NoRunSincePause, TypeOK, OneRun
<1>15. ASSUME NEW r \in Run, Die(r)
      PROVE  NoRunSincePause'
    BY <1>15 DEF Die, Fault, Goto, NoRunSincePause, TypeOK
<1>16. ASSUME ExpireLive
      PROVE  NoRunSincePause'
    BY <1>16 DEF ExpireLive, NoRunSincePause, TypeOK
<1> QED
    BY <1>1, <1>2, <1>3, <1>4, <1>5, <1>6, <1>7, <1>8, <1>9, <1>10, <1>11, <1>12,
       <1>13, <1>14, <1>15, <1>16
       DEF Next, Step, Package, Arrive, Accept, NewYear, ExpireDead, vars

(* What the API takes next may not come out of turn, nor for the second    *)
(* time.                                                                   *)
LEMMA OrderKept ==
    ASSUME TypeOK, InTurn, PublishedOnceInOrder, NEW id \in Linked,
           Len(received) \in Nat, Len(received') = Len(received) + 1,
           \A i \in 1..Len(received) : received'[i] = received[i],
           received'[Len(received) + 1] = id,
           expired' = expired, overdue' = overdue \/ overdue' # 0, accepted' = accepted,
           expired = 0 /\ overdue' = 0 => id \notin Received
    PROVE  PublishedOnceInOrder'
<1>1. 1..Len(received') = 1..Len(received) \cup {Len(received) + 1}
    OBVIOUS
<1>2. expired = 0 => \A other \in accepted \ Legacy :
            other < id => \E j \in 1..Len(received) : received[j] = other
    BY DEF InTurn, Received
<1>3. ASSUME expired = 0, NEW i \in 1..Len(received'),
             NEW other \in accepted \ Legacy, 
             other < received'[i]
      PROVE  \E j \in 1..(i - 1) : received'[j] = other
    <2>1. CASE i \in 1..Len(received)
        <3>1. PICK j \in 1..(i - 1) : received[j] = other
            BY <1>3, <2>1 DEF PublishedOnceInOrder
        <3> QED
            BY <2>1, <3>1
    <2>2. CASE i = Len(received) + 1
        BY <1>2, <1>3, <2>2
    <2> QED
        BY <1>1, <2>1, <2>2
<1>4. ASSUME expired = 0, overdue' = 0, NEW i \in 1..Len(received'),
             NEW j \in 1..Len(received'), 
             received'[i] = received'[j]
      PROVE  i = j
    <2>1. \A k \in 1..Len(received) : received'[k] # id
        BY <1>4 DEF Received
    <2>2. i \in 1..Len(received) /\ j \in 1..Len(received) => i = j
        BY <1>4 DEF PublishedOnceInOrder
    <2> QED
        BY <1>1, <1>4, <2>1, <2>2
<1> QED
    BY <1>3, <1>4 DEF PublishedOnceInOrder

(* What the API takes follows on what it has.                              *)
LEMMA OrderStep ==
    ASSUME TypeOK, LinksKept, Numbering, InTurn, NotTwice, PublishedOnceInOrder,
           [Next]_vars
    PROVE  PublishedOnceInOrder'
<1> USE DEF queue, api, rows, control, counters
<1>1. ASSUME UNCHANGED <<accepted, received, expired, overdue>>
      PROVE  PublishedOnceInOrder'
    BY <1>1 DEF PublishedOnceInOrder
<1>2. ASSUME NEW id \in Id, Arrive(id)
      PROVE  PublishedOnceInOrder'
    <2>1. id \in Linked
        BY <1>2 DEF Arrive, LinksKept, Working
    <2>2. /\ received' \in Seq(Id) /\ Len(received') = Len(received) + 1 /\ Len(received) \in Nat
          /\ \A i \in 1..Len(received) : received'[i] = received[i]
          /\ received'[Len(received) + 1] = id
        BY <1>2, <2>1, TakeAppends DEF Arrive, TypeOK, Linked
    <2>3. expired' = expired /\ overdue' = overdue /\ accepted' = accepted
        BY <1>2 DEF Arrive
    <2>4. expired = 0 /\ overdue = 0 => id \notin Received
        BY <1>2 DEF Arrive, NotTwice
    <2> QED
        BY <2>1, <2>2, <2>3, <2>4, OrderKept
<1>3. ASSUME Accept
      PROVE  PublishedOnceInOrder'
    <2>1. packaged \in Nat /\ \A id \in accepted : id \in Nat /\ id < packaged
        BY <1>3, IdInYear DEF Accept, TypeOK, Numbering
    <2>2. \A i \in 1..Len(received) : received[i] \in accepted
        BY DEF LinksKept, Received
    <2> QED
        BY <1>3, <2>1, <2>2 DEF Accept, PublishedOnceInOrder
<1>4. ASSUME NEW r \in Run, PostEnvelope(r)
      PROVE  PublishedOnceInOrder'
    <2>1. at[r] \in Linked
        BY <1>4 DEF PostEnvelope, LinksKept, Working
    <2>2. /\ received' \in Seq(Id) /\ Len(received') = Len(received) + 1 /\ Len(received) \in Nat
          /\ \A i \in 1..Len(received) : received'[i] = received[i]
          /\ received'[Len(received) + 1] = at[r]
        <3>1. received \in Seq(Id) /\ Len(received) \in Nat /\ at[r] \in Id /\ Take(at[r])
            BY <1>4, <2>1, TypesOfParts DEF ApiTypes, PostEnvelope, Linked
        <3> QED
            BY <3>1, TakeAppends
    <2>3. expired' = expired /\ overdue' = overdue /\ accepted' = accepted
        BY <1>4 DEF PostEnvelope
    <2>4. expired = 0 /\ overdue = 0 => at[r] \notin Received
        BY <1>4 DEF PostEnvelope, NotTwice
    <2> QED
        BY <2>1, <2>2, <2>3, <2>4, OrderKept
<1>5. ASSUME NEW r \in Run, PostTimesOut(r)
      PROVE  PublishedOnceInOrder'
    <2>1. CASE UNCHANGED <<received, overdue>>
        BY <1>5, <2>1 DEF PostTimesOut, PublishedOnceInOrder
    <2>2. CASE overdue' = overdue + 1 /\ UNCHANGED received
        <3>1. overdue' # 0 /\ UNCHANGED <<expired, accepted>>
            BY <1>5, <2>2 DEF PostTimesOut, TypeOK
        <3> QED
            BY <2>2, <3>1 DEF PublishedOnceInOrder
    <2>3. CASE Take(at[r]) /\ UNCHANGED overdue
        <3>1. at[r] \in Linked
            BY <1>5 DEF PostTimesOut, LinksKept, Working
        <3>2. /\ received' \in Seq(Id) /\ Len(received') = Len(received) + 1 /\ Len(received) \in Nat
              /\ \A i \in 1..Len(received) : received'[i] = received[i]
              /\ received'[Len(received) + 1] = at[r]
            <4>1. received \in Seq(Id) /\ Len(received) \in Nat /\ at[r] \in Id
                BY <3>1, TypesOfParts DEF ApiTypes, Linked
            <4> QED
                BY <2>3, <4>1, TakeAppends
        <3>3. expired' = expired /\ accepted' = accepted
            BY <1>5 DEF PostTimesOut
        <3>4. expired = 0 /\ overdue = 0 => at[r] \notin Received
            BY <1>5 DEF PostTimesOut, NotTwice
        <3> QED
            BY <2>3, <3>1, <3>2, <3>3, <3>4, OrderKept
    <2> QED
        BY <1>5, <2>1, <2>2, <2>3 DEF PostTimesOut
<1>6. ASSUME ExpireLive
      PROVE  PublishedOnceInOrder'
    BY <1>6 DEF ExpireLive, PublishedOnceInOrder, TypeOK
<1> QED
    BY <1>1, <1>2, <1>3, <1>4, <1>5, <1>6
       DEF Next, Step, Package, NewYear, Pause, Unpause, Begin, ReadIncomplete,
           GetEnvelope, GetFails, PostRefused, PublishingSucceeded,
           PublishingFailed, ReadList, PublishNext, Die, ExpireDead, vars, Fault

(* Whether the seed is ahead turns on the year and the published rows. *)
LEMMA SeedStays ==
    ASSUME UNCHANGED <<year, {id \in accepted : link[id] # 0}>>
    PROVE  SeedAhead' = SeedAhead
<1>1. LastPublishedEnvelopeId' = LastPublishedEnvelopeId
    BY DEF LastPublishedEnvelopeId
<1> QED
    BY <1>1 DEF SeedAhead

(* A reason to pause does not go away while the publishing is paused: at   *)
(* New Year the seed may no longer be ahead, but the rows that waited for  *)
(* it are left over.                                                       *)
LEMMA ReasonStep ==
    ASSUME TypeOK, LinksKept, Numbering, OneRun, InTurn, OneUnfinished,
           NoRunSincePause, PausedForReason, [Next]_vars
    PROVE  PausedForReason'
<1> USE DEF queue, api, rows, control, counters
<1>1. ASSUME UNCHANGED <<year, accepted, link, operational, expired>>
      PROVE  PausedForReason'
    BY <1>1, SeedStays DEF PausedForReason, Unpublished, IsPaused
<1>2. ASSUME Accept
      PROVE  PausedForReason'
    <2>1. /\ packaged \in Id /\ link[packaged] = 0 /\ accepted' = accepted \cup {packaged}
          /\ UNCHANGED <<year, link, operational, expired>>
        BY <1>2, IdInYear DEF Accept, TypeOK, Numbering, LinksKept, Linked
    <2>2. SeedAhead' = SeedAhead
        BY <2>1, SeedStays
    <2>3. Unpublished \subseteq Unpublished'
        BY <2>1 DEF Unpublished
    <2> QED
        BY <2>1, <2>2, <2>3 DEF PausedForReason, IsPaused
<1>3. ASSUME NewYear
      PROVE  PausedForReason'
    <2>1. year \in Nat /\ year' = year + 1 /\ Unpublished' = Unpublished
        BY <1>3, Numbers DEF NewYear, TypeOK, Unpublished
    <2>2. \A id \in Unpublished : YearOf(id) \in Nat /\ YearOf(id) =< year
        BY IdInYear DEF Unpublished, TypeOK, Numbering
    <2> QED
        BY <1>3, <2>1, <2>2 DEF NewYear, PausedForReason, IsPaused
<1>4. ASSUME Pause
      PROVE  PausedForReason'
    BY <1>4
       DEF Pause, PausePublishing, IsPaused, Status, PausedForReason, Unpublished,
           TypeOK, NoRunSincePause, IsPaused
<1>5. ASSUME Unpause
      PROVE  PausedForReason'
    BY <1>5
       DEF Unpause, IsPaused, Status, PausedForReason, Unpublished, TypeOK,
           NoRunSincePause, IsPaused
<1>6. ASSUME NEW r \in Run, ReadIncomplete(r)
      PROVE  PausedForReason'
    <2>1. UNCHANGED <<Unpublished, SeedAhead, year, expired>>
        BY <1>6, SeedStays DEF ReadIncomplete, Unpublished
    <2>2. CASE Cardinality(Incomplete) > 1
        <3>1. expired > 0
            BY <2>2, NeverMultiple DEF TypeOK
        <3> QED
            BY <2>1, <3>1 DEF PausedForReason
    <2>3. CASE ~(Cardinality(Incomplete) > 1)
        <3>1. UNCHANGED operational
            BY <1>6, <2>3 DEF ReadIncomplete
        <3> QED
            BY <2>1, <3>1 DEF PausedForReason, IsPaused
    <2> QED
        BY <2>2, <2>3
<1>7. ASSUME NEW r \in Run, PublishNext(r)
      PROVE  PausedForReason'
    <2>1. UNCHANGED <<year, expired>> /\ pc[r] = "next" /\ todo[r] # None
        BY <1>7 DEF PublishNext, LinksKept
    <2>2. CASE todo[r] # {} /\ ~NextExpectedToApi(FirstToPublish(todo[r]))
        <3>1. Unpublished' = Unpublished /\ SeedAhead' = SeedAhead
            BY <1>7, <2>2, SeedStays DEF PublishNext, Unpublished
        <3>2. expired = 0 => \E id \in Unpublished : YearOf(id) < year \/ SeedAhead
            BY <2>1, <2>2, ReasonToPause
        <3>3. expired # 0 => expired > 0
            BY DEF TypeOK
        <3> QED
            BY <2>1, <3>1, <3>2, <3>3 DEF PausedForReason
    <2>3. CASE ~(todo[r] # {} /\ ~NextExpectedToApi(FirstToPublish(todo[r])))
        <3>1. UNCHANGED operational
            BY <1>7, <2>3 DEF PublishNext
        <3>2. expired = 0 => operational # Status("PAUSED", "system")
            BY <2>1 DEF NoRunSincePause
        <3>3. expired # 0 => expired > 0
            BY DEF TypeOK
        <3> QED
            BY <2>1, <3>1, <3>2, <3>3, PausedBySystem DEF PausedForReason, IsPaused
    <2> QED
        BY <2>2, <2>3
<1>8. ASSUME ExpireLive
      PROVE  PausedForReason'
    BY <1>8
       DEF ExpireLive, PausedForReason, Unpublished, TypeOK, NoRunSincePause,
           IsPaused
<1> QED
    BY <1>1, <1>2, <1>3, <1>4, <1>5, <1>6, <1>7, <1>8
       DEF Next, Step, Package, Arrive, Begin, GetEnvelope, GetFails, PostEnvelope,
           PostRefused, PostTimesOut, PublishingSucceeded, PublishingFailed,
           ReadList, Die, ExpireDead, vars, Fault

-----------------------------------------------------------------------------
(* Theorems.                                                               *)

(* No envelope, and an accepted row only for those of the code before.     *)
LEMMA InitIInv == Init => IInv
<1> SUFFICES ASSUME Init
             PROVE  IInv
    OBVIOUS
<1>1. TypeOK
    <2>1. QueueTypes /\ TableTypes /\ ApiTypes
        <3>1. Legacy \subseteq Id /\ FirstYear \in FirstYear..LastYear
            BY Numbers, CrownAssumption
        <3>2. QueueTypes /\ ApiTypes
            BY <3>1 DEF Init, QueueTypes, ApiTypes
        <3> QED
            BY <3>2 DEF Init, TableTypes
    <2>2. SwitchTypes /\ LockTypes /\ CounterTypes
        BY Numbers, StatusType DEF Init, SwitchTypes, LockTypes, CounterTypes
    <2>3. PlaceTypes
        BY DEF Init, PlaceTypes
    <2>4. HandTypes
        BY DEF Init, HandTypes
    <2>5. ListTypes
        BY DEF Init, ListTypes
    <2> QED
        BY <2>1, <2>2, <2>3, <2>4, <2>5, TypesOfParts
<1>2. Numbering
    <2>1. \A id \in Legacy : id \in Nat /\ YearOf(id) = FirstYear
        BY CrownAssumption, IdInYear
    <2>2. \A id \in Legacy : \A n \in (FirstYear * 10000 + 1)..(id - 1) :
            n \in Legacy \/ n =< Seed
        <3>1. \A id \in Legacy : \A n \in (FirstYear * 10000 + 1)..id :
                    n \in Legacy \/ n =< Seed
            BY CrownAssumption
        <3>2. \A id \in Legacy : \A n \in (FirstYear * 10000 + 1)..(id - 1) :
                    n \in (FirstYear * 10000 + 1)..id
            BY <2>1, Numbers
        <3> QED
            BY <3>1, <3>2
    <2>3. year = FirstYear /\ packaged = None /\ accepted = Legacy /\ FirstYear \in Nat
        BY Numbers DEF Init
    <2> QED
        BY <2>1, <2>2, <2>3 DEF Numbering
<1>3. LinksKept
    BY DEF Init, LinksKept, Linked, Received, Working
<1>4. OneRun /\ InTurn /\ NotTwice /\ NoRunSincePause
    BY DEF Init, OneRun, InTurn, NotTwice, NoRunSincePause, Linked, Working, Status
<1>5. SuccessMeansReceived /\ OneUnfinished /\ PublishedOnceInOrder /\ PausedForReason
    <2>1. Len(crown) = 0 /\ Len(received) = 0 /\ 1..0 = {}
        BY DEF Init
    <2>2. SuccessMeansReceived
        BY <1>1 DEF Init, SuccessMeansReceived, TypeOK
    <2>3. OneUnfinished
        BY <2>1 DEF OneUnfinished
    <2>4. PublishedOnceInOrder
        BY <2>1 DEF PublishedOnceInOrder
    <2>5. PausedForReason
        BY StatusType DEF Init, PausedForReason
    <2> QED
        BY <2>2, <2>3, <2>4, <2>5
<1> QED
    BY <1>1, <1>2, <1>3, <1>4, <1>5 DEF IInv

(* The inductive invariant holds in every reachable state. *)
THEOREM Invariance == Spec => []IInv
<1>1. IInv /\ [Next]_vars => IInv'
    <2> SUFFICES ASSUME IInv, [Next]_vars
                 PROVE  IInv'
        OBVIOUS
    <2>1. /\ TypeOK /\ Numbering /\ LinksKept /\ OneRun /\ InTurn /\ NotTwice
          /\ NoRunSincePause /\ SuccessMeansReceived /\ OneUnfinished
          /\ PublishedOnceInOrder /\ PausedForReason
        BY DEF IInv
    <2> QED
        BY <2>1, TypeStep, NumberingStep, LinksStep, OneRunStep, InTurnStep,
           NotTwiceStep,
           PauseStep, SuccessStep, OneUnfinishedStep, OrderStep, ReasonStep DEF IInv
<1> QED
    BY InitIInv, <1>1, PTL DEF Spec

(* Every variable keeps its type; an index into the list of envelopes      *)
(* always refers to one.                                                   *)
THEOREM TypeCorrect == Spec => []TypeOK
<1>1. IInv => TypeOK
    BY DEF IInv
<1> QED
    BY <1>1, Invariance, PTL

(* Through refusals, timeouts, dead workers and late POSTs, the API gets    *)
(* the envelopes in the order of their IDs, none left out and none twice,  *)
(* unless a lock expires under a run or a POST outlives its own.           *)
THEOREM AlwaysPublishedOnceInOrder == Spec => []PublishedOnceInOrder
<1>1. IInv => PublishedOnceInOrder
    BY DEF IInv
<1> QED
    BY <1>1, Invariance, PTL

(* However many runs overlap, a row whose envelope is                      *)
(* SUCCESSFULLY_PUBLISHED has reached the API.                             *)
THEOREM SuccessAlwaysMeansReceived == Spec => []SuccessMeansReceived
<1>1. IInv => SuccessMeansReceived
    BY DEF IInv
<1> QED
    BY <1>1, Invariance, PTL

(* While no lock expires under a run, at most one envelope is unfinished,   *)
(* and a row belongs to it.                                                *)
THEOREM NeverTwoUnfinished == Spec => []OneUnfinished
<1>1. IInv => OneUnfinished
    BY DEF IInv
<1> QED
    BY <1>1, Invariance, PTL

(* The task pauses the publishing by itself only after runs have           *)
(* overlapped, or where an envelope waits that is of an earlier year or    *)
(* that the seed is ahead of.                                              *)
THEOREM AlwaysPausedForReason == Spec => []PausedForReason
<1>1. IInv => PausedForReason
    BY DEF IInv
<1> QED
    BY <1>1, Invariance, PTL
=============================================================================
