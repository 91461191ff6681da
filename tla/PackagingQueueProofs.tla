------------------------ MODULE PackagingQueueProofs ------------------------
(***************************************************************************)
(* Theorems about PackagingQueue, for any number of workbaskets and rows,  *)
(* any seed and any number of years: its invariants, and that it keeps the *)
(* promises of ProcessingQueue.                                            *)
(***************************************************************************)
EXTENDS MCPackagingQueue, QueuePositionsProofs, SequencesExt, SequenceTheorems

-----------------------------------------------------------------------------
(* Types.                                                                  *)

(* A finite, non-empty set of naturals has a largest element, so Max is    *)
(* what its name says.  By minimality: of the subsets without a largest    *)
(* element a smallest one would lose that property with one element less.  *)
LEMMA MaxOfFinite ==
    ASSUME NEW S \in SUBSET Nat, IsFiniteSet(S), S # {}
    PROVE  Max(S) \in S /\ \A x \in S : x <= Max(S)
<1> DEFINE HasMax(T) == \E m \in T : \A x \in T : x <= m
           Bad == {T \in SUBSET S : T # {} /\ ~HasMax(T)}
<1>1. Bad = {}
    <2>1. SUFFICES ASSUME Bad # {} PROVE FALSE
        OBVIOUS
    <2>2. IsWellFoundedOn(StrictSubsetOrdering(S), SUBSET S)
        <3>1. FiniteSubsetsOf(S) = SUBSET S
            BY FS_FiniteSubsetsOfFinite
        <3>2. IsWellFoundedOn(StrictSubsetOrdering(S), FiniteSubsetsOf(S))
            BY FS_StrictSubsetOrderingWellFounded
        <3> QED
            BY <3>1, <3>2
    <2>3. PICK T \in Bad : \A U \in Bad : ~(<<U, T>> \in StrictSubsetOrdering(S))
        <3>1. Bad \subseteq SUBSET S
            OBVIOUS
        <3> HIDE DEF Bad
        <3>2. \E T \in Bad : \A U \in Bad : ~(<<U, T>> \in StrictSubsetOrdering(S))
            BY <2>1, <2>2, <3>1, WFMin
        <3> QED
            BY <3>2
    <2>4. PICK x \in T : TRUE
        OBVIOUS
    <2>5. T \ {x} \notin Bad
        BY <2>3 DEF StrictSubsetOrdering
    <2>6. CASE T \ {x} = {}
        BY <2>4, <2>6
    <2>7. CASE HasMax(T \ {x})
        <3>1. PICK m \in T \ {x} : \A y \in T \ {x} : y <= m
            BY <2>7
        <3>2. x \in Nat /\ m \in Nat
            BY <2>3, <2>4, <3>1
        <3>3. CASE x <= m
            BY <2>3, <3>1, <3>3
        <3>4. CASE m < x
            BY <2>3, <2>4, <3>1, <3>2, <3>4
        <3> QED
            BY <3>2, <3>3, <3>4
    <2> QED
        BY <2>3, <2>5, <2>6, <2>7
<1>2. HasMax(S)
    BY <1>1
<1> QED
    BY <1>2 DEF Max

(* The accepted IDs and the seed have a largest element. *)
LEMMA LargestId ==
    ASSUME TypeOK, NEW y \in Nat
    PROVE  LET ids == AcceptedIds(y) \cup {0, SeedEnvelopeId} IN
           /\ Max(ids) \in ids /\ Max(ids) \in Nat
           /\ \A id \in ids : id \in Nat /\ id <= Max(ids)
<1> DEFINE S == AcceptedIds(y) \cup {0, SeedEnvelopeId}
<1>1. AcceptedIds(y) \subseteq {envelopeId[p] : p \in Pwb}
    BY DEF AcceptedIds, Successful
<1>2. S \subseteq Nat
    BY <1>1, YearAssumption DEF TypeOK
<1>3. IsFiniteSet({envelopeId[p] : p \in Pwb})
    <2> DEFINE f == [p \in Pwb |-> envelopeId[p]]
    <2>1. f \in Surjection(Pwb, {envelopeId[p] : p \in Pwb})
        BY DEF Surjection
    <2> QED
        BY <2>1, RowAssumption, FS_Surjection
<1>4. IsFiniteSet(AcceptedIds(y))
    BY <1>1, <1>3, FS_Subset
<1>5. IsFiniteSet({0, SeedEnvelopeId})
    <2>1. IsFiniteSet({0}) /\ IsFiniteSet({SeedEnvelopeId})
        BY FS_Singleton
    <2>2. {0, SeedEnvelopeId} = {0} \cup {SeedEnvelopeId}
        OBVIOUS
    <2> QED
        BY <2>1, <2>2, FS_Union
<1>6. IsFiniteSet(S)
    BY <1>4, <1>5, FS_Union
<1> QED
    BY <1>2, <1>6, MaxOfFinite

(* Envelope.next_envelope_id yields a number, whatever was accepted. *)
LEMMA NextEnvelopeIdType ==
    ASSUME TypeOK
    PROVE  NextEnvelopeId(year) \in Nat
<1>1. year \in Nat
    BY DEF TypeOK
<1>2. Max(AcceptedIds(year) \cup {0, SeedEnvelopeId}) \in Nat
    BY <1>1, LargestId
<1> QED
    BY <1>1, <1>2 DEF NextEnvelopeId, IdsPerYear

(* The position column stays in Nat under every operation. *)
LEMMA PositionType ==
    ASSUME TypeOK, NEW p \in Pwb
    PROVE  /\ Promoted(position, p) \in [Pwb -> Nat]
           /\ Demoted(position, p) \in [Pwb -> Nat]
           /\ PromotedToTop(position, p) \in [Pwb -> Nat]
           /\ Removed(position, p) \in [Pwb -> Nat]
           /\ PoppedTop(position, p) \in [Pwb -> Nat]
           /\ Renumbered \in [Pwb -> Nat]
<1>1. position \in [Pwb -> Nat]
    BY DEF TypeOK
<1>2. Promoted(position, p) \in [Pwb -> Nat]
    BY <1>1 DEF Promoted, SwappedWith
<1>3. Demoted(position, p) \in [Pwb -> Nat]
    BY <1>1 DEF Demoted, SwappedWith
<1>4. PromotedToTop(position, p) \in [Pwb -> Nat]
    BY <1>1 DEF PromotedToTop
<1>5. Removed(position, p) \in [Pwb -> Nat]
    BY <1>1 DEF Removed, CloseGap
<1>6. PoppedTop(position, p) \in [Pwb -> Nat]
    BY <1>1 DEF PoppedTop, CloseGap
<1>7. ASSUME NEW q \in Pwb
      PROVE  Cardinality({r \in Awaiting : position[r] < position[q]}) \in Nat
    <2>1. {r \in Awaiting : position[r] < position[q]} \in SUBSET Pwb
        BY DEF Awaiting
    <2>2. IsFiniteSet({r \in Awaiting : position[r] < position[q]})
        BY <2>1, RowAssumption, FS_Subset
    <2> QED
        BY <2>2, FS_CardinalityType
<1>8. Renumbered \in [Pwb -> Nat]
    BY <1>1, <1>7 DEF Renumbered
<1> QED
    BY <1>2, <1>3, <1>4, <1>5, <1>6, <1>8

(* ... and so do the numbers of waiting tasks when one is scheduled. *)
LEMMA ScheduleType ==
    ASSUME TypeOK, NEW tops, Schedule(tops)
    PROVE  pending' \in [Pwb -> Nat]
BY DEF TypeOK, Schedule

(* The decorator around the queue operations keeps the types. *)
LEMMA CreateEnvelopeOnNewTopType ==
    ASSUME TypeOK, NEW pos, CreateEnvelopeOnNewTop(pos)
    PROVE  /\ envelopeId' \in [Pwb -> Nat]
           /\ envelopeState' \in [Pwb -> EnvelopeStates]
           /\ pending' \in [Pwb -> Nat]
<1>1. CASE UNCHANGED <<envelopeVars, pending>>
    BY <1>1 DEF TypeOK, envelopeVars
<1>2. CASE ReplaceTop(pos)
    <2>1. pending' \in [Pwb -> Nat]
        BY <1>2, ScheduleType DEF ReplaceTop
    <2> QED
        BY <1>2, <2>1 DEF ReplaceTop, TypeOK, EnvelopeStates
<1> QED
    BY <1>1, <1>2 DEF CreateEnvelopeOnNewTop

(* The empty queue is well typed. *)
LEMMA TypeInit == Init => TypeOK
BY YearAssumption DEF Init, TypeOK, Statuses, EnvelopeStates

(* Every request, task and command keeps the types. *)
LEMMA TypeStep ==
    ASSUME TypeOK, [Next]_vars
    PROVE  TypeOK'
<1> USE DEF queueVars, envelopeVars
<1>1. ASSUME NEW p \in Pwb, NEW w \in WorkBasket, Create(w, p)
      PROVE  TypeOK'
    <2>1. CASE UNCHANGED <<queueVars, pending>>
        BY <1>1, <2>1 DEF Create, TypeOK, Statuses
    <2>2. CASE JoinQueue(w, p)
        <3>1. pending' \in [Pwb -> Nat]
            BY <2>2, ScheduleType DEF JoinQueue, TypeOK
        <3>2. position' \in [Pwb -> Nat]
            BY <2>2 DEF JoinQueue, TypeOK
        <3>3. processingState' \in [Pwb -> ProcessingStates \cup {NoRow}]
            BY <2>2 DEF JoinQueue, TypeOK, ProcessingStates
        <3>4. workbasketOf' \in [Pwb -> WorkBasket \cup {None}]
            BY <2>2 DEF JoinQueue, TypeOK
        <3> QED
            BY <1>1, <3>1, <3>2, <3>3, <3>4 DEF Create, TypeOK, Statuses
    <2> QED
        BY <1>1, <2>1, <2>2 DEF Create
<1>2. ASSUME NEW pos \in [Pwb -> Nat], Reorder(pos)
      PROVE  TypeOK'
    <2>1. /\ envelopeId' \in [Pwb -> Nat]
          /\ envelopeState' \in [Pwb -> EnvelopeStates]
          /\ pending' \in [Pwb -> Nat]
        BY <1>2, CreateEnvelopeOnNewTopType DEF Reorder
    <2> QED
        BY <1>2, <2>1 DEF Reorder, TypeOK
<1>3. ASSUME NEW p \in Pwb, PromotePosition(p) \/ DemotePosition(p) \/ PromoteToTopPosition(p)
      PROVE  TypeOK'
    BY <1>2, <1>3, PositionType DEF PromotePosition, DemotePosition, PromoteToTopPosition
<1>4. ASSUME NEW p \in Pwb, Abandon(p)
      PROVE  TypeOK'
    <2>1. position' \in [Pwb -> Nat]
        BY <1>4, PositionType DEF Abandon
    <2>2. pending' \in [Pwb -> Nat]
        BY <1>4, ScheduleType DEF Abandon, TypeOK
    <2>3. envelopeState' \in [Pwb -> EnvelopeStates]
        BY <1>4 DEF Abandon, TypeOK, EnvelopeStates
    <2>4. /\ processingState' \in [Pwb -> ProcessingStates \cup {NoRow}]
          /\ status' \in [WorkBasket -> Statuses]
        BY <1>4 DEF Abandon, TypeOK, ProcessingStates, Statuses
    <2> QED
        BY <1>4, <2>1, <2>2, <2>3, <2>4 DEF Abandon, TypeOK
<1>5. ASSUME NEW p \in Pwb, BeginProcessing(p)
      PROVE  TypeOK'
    <2>1. position' \in [Pwb -> Nat]
        BY <1>5, PositionType DEF BeginProcessing
    <2> QED
        BY <1>5, <2>1 DEF BeginProcessing, TypeOK, ProcessingStates
<1>6. ASSUME NEW p \in Pwb, ProcessingSucceeded(p) \/ ProcessingFailed(p)
      PROVE  TypeOK'
    <2>1. PICK state \in ProcessingStates, wbStatus \in Statuses :
            CompleteProcessing(p, state, wbStatus)
        BY <1>6 DEF ProcessingSucceeded, ProcessingFailed, ProcessingStates, Statuses
    <2>2. pending' \in [Pwb -> Nat]
        BY <2>1, ScheduleType DEF CompleteProcessing, TypeOK
    <2>3. paused' \in BOOLEAN
        BY <1>6 DEF ProcessingSucceeded, ProcessingFailed, TypeOK
    <2> QED
        BY <2>1, <2>2, <2>3 DEF CompleteProcessing, TypeOK
<1>7. ASSUME NEW p \in Pwb, NEW verdict \in {"valid", "invalid"},
             CreateXmlEnvelopeFile(p, verdict)
      PROVE  TypeOK'
    <2>1. NextEnvelopeId(year) \in Nat
        BY NextEnvelopeIdType
    <2>2. envelopeId' \in [Pwb -> Nat]
        BY <1>7, <2>1 DEF CreateXmlEnvelopeFile, TypeOK
    <2>3. envelopeState' \in [Pwb -> EnvelopeStates]
        BY <1>7 DEF CreateXmlEnvelopeFile, TypeOK, EnvelopeStates
    <2>4. pending' \in [Pwb -> Nat]
        BY <1>7 DEF CreateXmlEnvelopeFile, TypeOK, TaskDone
    <2>5. paused' \in BOOLEAN
        BY <1>7 DEF CreateXmlEnvelopeFile, TypeOK
    <2> QED
        BY <1>7, <2>2, <2>3, <2>4, <2>5 DEF CreateXmlEnvelopeFile, TypeOK
<1>8. ASSUME NEW p \in Pwb, RefuseEnvelope(p) \/ LoseTask(p)
      PROVE  TypeOK'
    <2>1. pending' \in [Pwb -> Nat]
        BY <1>8 DEF RefuseEnvelope, LoseTask, TaskDone, TypeOK
    <2> QED
        BY <1>8, <2>1 DEF RefuseEnvelope, LoseTask, TypeOK
<1>9. CASE CreateEnvelopeForTop
    <2>1. pending' \in [Pwb -> Nat]
        BY <1>9, ScheduleType DEF CreateEnvelopeForTop
    <2> QED
        BY <1>9, <2>1 DEF CreateEnvelopeForTop, TypeOK
<1>10. CASE ResetPositions
    <2>1. position' \in [Pwb -> Nat]
        BY <1>10, PositionType DEF ResetPositions, Renumbered
    <2> QED
        BY <1>10, <2>1 DEF ResetPositions, TypeOK, EnvelopeStates
<1>11. ASSUME NEW w \in WorkBasket, Restore(w)
       PROVE  TypeOK'
    BY <1>11 DEF Restore, TypeOK, Statuses
<1>12. CASE PauseQueue \/ UnpauseQueue \/ NewYear
    <2>1. CASE NewYear
        BY <2>1 DEF NewYear, TypeOK
    <2>2. CASE PauseQueue \/ UnpauseQueue
        <3>1. paused' \in BOOLEAN
            BY <2>2 DEF PauseQueue, UnpauseQueue
        <3>2. UNCHANGED <<status, queueVars, envelopeVars, pending, offered, year, faults>>
            BY <2>2 DEF PauseQueue, UnpauseQueue
        <3> QED
            BY <3>1, <3>2 DEF TypeOK
    <2> QED
        BY <1>12, <2>1, <2>2
<1>13. ASSUME NEW p \in Pwb, ShowEnvelopeQueue(p)
       PROVE  TypeOK'
    BY <1>13 DEF ShowEnvelopeQueue, TypeOK
<1>14. CASE UNCHANGED vars
    BY <1>14 DEF vars, TypeOK
<1> QED
    BY <1>1, <1>3, <1>4, <1>5, <1>6, <1>7, <1>8, <1>9, <1>10, <1>11, <1>12, <1>13, <1>14
    DEF Next, Manager, Consumer, Worker, RunTask, Operator

(* Every reachable state is well typed. *)
THEOREM TypeCorrect == Spec => []TypeOK
BY TypeInit, TypeStep, PTL DEF Spec

-----------------------------------------------------------------------------
(* The order of the queue.  TypeOK /\ QueueOrder is inductive: what the    *)
(* operations do to the position column is QueuePositionsProofs, and the   *)
(* rest is which rows enter or leave Awaiting.                             *)

(* --reset-positions changes no position of a queue that is in order. *)
LEMMA RenumberedIsPosition ==
    ASSUME TypeOK, QueueOrder
    PROVE  Renumbered = position
<1>1. position \in [Pwb -> Nat] /\ Awaiting \in SUBSET Pwb
    BY DEF TypeOK, Awaiting
<1>2. ASSUME NEW p \in Awaiting
      PROVE  1 + Cardinality({q \in Awaiting : position[q] < position[p]}) = position[p]
    <2>1. Cardinality({q \in Awaiting : position[q] < position[p]}) = position[p] - 1
        BY <1>1, RowsBefore DEF QueueOrder
    <2>2. position[p] \in Nat
        BY <1>1
    <2> QED
        BY <2>1, <2>2
<1> QED
    BY <1>1, <1>2 DEF Renumbered

(* Every request, task and command keeps the queue in order. *)
LEMMA QueueOrderStep ==
    ASSUME TypeOK, QueueOrder, [Next]_vars
    PROVE  QueueOrder'
<1> USE DEF queueVars
<1>0. position \in [Pwb -> Nat] /\ Awaiting \in SUBSET Pwb
    BY DEF TypeOK, Awaiting
<1>1. ASSUME UNCHANGED <<position, processingState>>
      PROVE  QueueOrder'
    BY <1>1 DEF QueueOrder, IsQueueOrder, Awaiting
<1>2. ASSUME NEW p \in Pwb, NEW w \in WorkBasket, Create(w, p)
      PROVE  QueueOrder'
    <2>1. CASE UNCHANGED queueVars
        BY <1>1, <2>1
    <2>2. CASE JoinQueue(w, p)
        <3>1. PICK last : /\ IsMaxPosition(position, last)
                          /\ position' = [position EXCEPT ![p] = last + 1]
            BY <2>2 DEF JoinQueue
        <3>2. p \in Pwb \ Awaiting
            BY <1>2 DEF Create, Awaiting, NoRow
        <3>3. Awaiting' = Awaiting \cup {p}
            BY <2>2 DEF JoinQueue, Awaiting, TypeOK
        <3>4. IsQueueOrder(position', Awaiting \cup {p})
            BY <1>0, <3>1, <3>2, JoinedOrder DEF QueueOrder
        <3> QED
            BY <3>3, <3>4 DEF QueueOrder, IsQueueOrder
    <2> QED
        BY <1>2, <2>1, <2>2 DEF Create
<1>3. ASSUME NEW p \in Pwb, PromotePosition(p) \/ DemotePosition(p) \/ PromoteToTopPosition(p)
      PROVE  QueueOrder'
    <2>1. /\ IsQueueOrder(Promoted(position, p), Awaiting)
          /\ IsQueueOrder(Demoted(position, p), Awaiting)
          /\ IsQueueOrder(PromotedToTop(position, p), Awaiting)
        BY <1>0, PromotedOrder, DemotedOrder, PromotedToTopOrder DEF QueueOrder
    <2>2. IsQueueOrder(position', Awaiting) /\ Awaiting' = Awaiting
        BY <1>3, <2>1 DEF PromotePosition, DemotePosition, PromoteToTopPosition, Reorder,
                          Awaiting
    <2> QED
        BY <2>2 DEF QueueOrder, IsQueueOrder
<1>4. ASSUME NEW p \in Pwb, Abandon(p)
      PROVE  QueueOrder'
    <2>1. p \in Awaiting
        BY <1>4 DEF Abandon, Awaiting
    <2>2. IsQueueOrder(Removed(position, p), Awaiting \ {p})
        BY <1>0, <2>1, RemovedOrder DEF QueueOrder
    <2>3. position' = Removed(position, p)
        BY <1>4 DEF Abandon
    <2>4. Awaiting' = Awaiting \ {p}
        BY <1>4 DEF Abandon, Awaiting, TypeOK
    <2> QED
        BY <2>2, <2>3, <2>4 DEF QueueOrder, IsQueueOrder
<1>5. ASSUME NEW p \in Pwb, BeginProcessing(p)
      PROVE  QueueOrder'
    <2>1. IsQueueOrder(PoppedTop(position, p), Awaiting \ {p})
        BY <1>0, <1>5, PoppedTopOrder DEF QueueOrder, BeginProcessing
    <2>2. position' = PoppedTop(position, p)
        BY <1>5 DEF BeginProcessing
    <2>3. Awaiting' = Awaiting \ {p}
        BY <1>5 DEF BeginProcessing, Awaiting, TypeOK
    <2> QED
        BY <2>1, <2>2, <2>3 DEF QueueOrder, IsQueueOrder
<1>6. ASSUME NEW p \in Pwb, ProcessingSucceeded(p) \/ ProcessingFailed(p)
      PROVE  QueueOrder'
    <2>1. position' = position
        BY <1>6 DEF ProcessingSucceeded, ProcessingFailed, CompleteProcessing
    <2>2. Awaiting' = Awaiting
        BY <1>6 DEF ProcessingSucceeded, ProcessingFailed, CompleteProcessing, Awaiting, TypeOK
    <2> QED
        BY <2>1, <2>2 DEF QueueOrder, IsQueueOrder
<1>7. CASE ResetPositions
    BY <1>1, <1>7, RenumberedIsPosition DEF ResetPositions
<1>8. CASE \/ \E w \in WorkBasket : Restore(w)
           \/ PauseQueue \/ UnpauseQueue \/ NewYear \/ CreateEnvelopeForTop
           \/ Worker
           \/ \E p \in Pwb : ShowEnvelopeQueue(p)
           \/ UNCHANGED vars
    <2>1. UNCHANGED <<position, processingState>>
        BY <1>8 DEF Restore, PauseQueue, UnpauseQueue, NewYear, CreateEnvelopeForTop, Worker,
                    RunTask, CreateXmlEnvelopeFile, RefuseEnvelope, LoseTask,
                    ShowEnvelopeQueue, vars
    <2> QED
        BY <1>1, <2>1
<1> QED
    BY <1>2, <1>3, <1>4, <1>5, <1>6, <1>7, <1>8 DEF Next, Manager, Consumer, Operator

(* Whatever sequence of requests arrives, the awaiting rows are numbered   *)
(* 1, 2, ... without a gap or a duplicate, and no other row has a number.  *)
THEOREM QueueAlwaysInOrder == Spec => []QueueOrder
<1>1. Init => QueueOrder
    BY DEF Init, QueueOrder, IsQueueOrder, Awaiting, NoRow
<1> QED
    BY <1>1, QueueOrderStep, TypeCorrect, PTL DEF Spec

-----------------------------------------------------------------------------
(* One row at a time.                                                      *)

(* begin_processing is the only way in, and it looks first. *)
LEMMA AtMostOneProcessingStep ==
    ASSUME TypeOK, AtMostOneProcessing, [Next]_vars
    PROVE  AtMostOneProcessing'
<1> USE DEF queueVars
<1>1. ASSUME Processing' \subseteq Processing
      PROVE  AtMostOneProcessing'
    BY <1>1 DEF AtMostOneProcessing
<1>2. ASSUME NEW p \in Pwb, BeginProcessing(p)
      PROVE  AtMostOneProcessing'
    <2>1. Processing' \subseteq {p}
        BY <1>2 DEF BeginProcessing, Processing, TypeOK
    <2> QED
        BY <2>1 DEF AtMostOneProcessing
<1>3. ASSUME NEW p \in Pwb, NEW state \in ProcessingStates \ {"CURRENTLY_PROCESSING"},
             processingState' = [processingState EXCEPT ![p] = state]
      PROVE  AtMostOneProcessing'
    BY <1>1, <1>3 DEF Processing, TypeOK
<1>4. ASSUME NEW p \in Pwb, \/ \E w \in WorkBasket : Create(w, p)
                           \/ Abandon(p)
                           \/ ProcessingSucceeded(p) \/ ProcessingFailed(p)
      PROVE  AtMostOneProcessing'
    <2>1. \/ processingState' = processingState
          \/ \E state \in ProcessingStates \ {"CURRENTLY_PROCESSING"} :
                processingState' = [processingState EXCEPT ![p] = state]
        BY <1>4 DEF Create, JoinQueue, Abandon, ProcessingSucceeded, ProcessingFailed,
                    CompleteProcessing, ProcessingStates
    <2> QED
        BY <1>1, <1>3, <2>1 DEF Processing
<1>5. ASSUME UNCHANGED processingState
      PROVE  AtMostOneProcessing'
    BY <1>1, <1>5 DEF Processing
<1>6. CASE \/ \E p \in Pwb : \/ PromotePosition(p) \/ DemotePosition(p)
                            \/ PromoteToTopPosition(p) \/ ShowEnvelopeQueue(p)
           \/ \E w \in WorkBasket : Restore(w)
           \/ PauseQueue \/ UnpauseQueue \/ NewYear \/ Operator \/ Worker
           \/ UNCHANGED vars
    <2>1. UNCHANGED processingState
        BY <1>6 DEF PromotePosition, DemotePosition, PromoteToTopPosition, Reorder, Restore,
                    PauseQueue, UnpauseQueue, NewYear, Operator, CreateEnvelopeForTop,
                    ResetPositions, Worker, RunTask, CreateXmlEnvelopeFile, RefuseEnvelope,
                    LoseTask, ShowEnvelopeQueue, vars
    <2> QED
        BY <1>5, <2>1
<1> QED
    BY <1>2, <1>4, <1>6 DEF Next, Manager, Consumer

(* As long as requests run one after the other, HMRC never has two         *)
(* workbaskets in hand.                                                    *)
THEOREM NeverTwoProcessing == Spec => []AtMostOneProcessing
<1>1. Init => AtMostOneProcessing
    BY DEF Init, AtMostOneProcessing, Processing, NoRow
<1> QED
    BY <1>1, AtMostOneProcessingStep, TypeCorrect, PTL DEF Spec

-----------------------------------------------------------------------------
(* Envelopes.                                                              *)

(* OnlyTopHasEnvelope needs QueueOrder (there is one row at position 1) and *)
(* that a row is created without an envelope.                              *)
NewRowHasNoEnvelope == \A p \in Pwb : processingState[p] = NoRow => ~HasEnvelope(p)
EnvelopeInv == OnlyTopHasEnvelope /\ NewRowHasNoEnvelope

(* A row at position 1 is the only one there, and it is awaiting. *)
LEMMA TopIsUnique ==
    ASSUME QueueOrder, TypeOK, NEW p \in Pwb, position[p] = 1
    PROVE  TopAwaiting(position) = {p} /\ p \in Awaiting
BY DEF QueueOrder, IsQueueOrder, TopAwaiting, TypeOK, Awaiting

(* Every request, task and command keeps envelopes where they belong. *)
LEMMA EnvelopeStep ==
    ASSUME TypeOK, QueueOrder, AtMostOneProcessing, EnvelopeInv, [Next]_vars
    PROVE  EnvelopeInv'
<1> USE DEF queueVars, envelopeVars, HasEnvelope
<1>1. ASSUME UNCHANGED <<processingState, position, envelopeState>>
      PROVE  EnvelopeInv'
    BY <1>1 DEF EnvelopeInv, OnlyTopHasEnvelope, NewRowHasNoEnvelope, Awaiting, Processing
<1>2. ASSUME NEW p \in Pwb, NEW w \in WorkBasket, Create(w, p)
      PROVE  EnvelopeInv'
    <2>1. CASE UNCHANGED queueVars
        BY <1>1, <1>2, <2>1 DEF Create
    <2>2. CASE JoinQueue(w, p)
        <3>1. processingState[p] = NoRow /\ UNCHANGED envelopeState
            BY <1>2 DEF Create
        <3>2. processingState' = [processingState EXCEPT ![p] = "AWAITING_PROCESSING"]
            BY <2>2 DEF JoinQueue
        <3>3. \A q \in Pwb \ {p} : position'[q] = position[q]
            BY <2>2 DEF JoinQueue, TypeOK
        <3>4. Awaiting' = Awaiting \cup {p} /\ Processing' = Processing
            BY <3>1, <3>2 DEF Awaiting, Processing, TypeOK, NoRow
        <3>5. ~HasEnvelope(p)
            BY <3>1 DEF EnvelopeInv, NewRowHasNoEnvelope
        <3>6. OnlyTopHasEnvelope'
            BY <3>1, <3>3, <3>4, <3>5 DEF EnvelopeInv, OnlyTopHasEnvelope, Awaiting
        <3>7. NewRowHasNoEnvelope'
            BY <3>1, <3>2 DEF EnvelopeInv, NewRowHasNoEnvelope, TypeOK, NoRow
        <3> QED
            BY <3>6, <3>7 DEF EnvelopeInv
    <2> QED
        BY <1>2, <2>1, <2>2 DEF Create
<1>3. ASSUME NEW pos, Reorder(pos)
      PROVE  EnvelopeInv'
    <2>1. Awaiting' = Awaiting /\ Processing' = Processing /\ position' = pos
        BY <1>3 DEF Reorder, Awaiting, Processing
    <2>2. CASE Processing # {}
        <3>1. UNCHANGED envelopeState
            BY <1>3, <2>2 DEF Reorder, CreateEnvelopeOnNewTop
        <3> QED
            BY <1>3, <2>1, <2>2, <3>1
            DEF EnvelopeInv, OnlyTopHasEnvelope, NewRowHasNoEnvelope, Reorder
    <2>3. CASE Processing = {} /\ TopAwaiting(pos) = TopAwaiting(position)
        <3>1. UNCHANGED envelopeState
            BY <1>3, <2>3 DEF Reorder, CreateEnvelopeOnNewTop
        <3>2. \A q \in Awaiting : position[q] = 1 => pos[q] = 1
            BY <2>3 DEF TopAwaiting
        <3> QED
            BY <1>3, <2>1, <3>1, <3>2
            DEF EnvelopeInv, OnlyTopHasEnvelope, NewRowHasNoEnvelope, Reorder, Awaiting
    <2>4. CASE Processing = {} /\ ReplaceTop(pos)
        <3>1. \A q \in Pwb : envelopeState'[q] =
                IF q \in TopAwaiting(position) THEN "none" ELSE envelopeState[q]
            BY <2>4 DEF ReplaceTop
        <3>2. \A q \in Awaiting : envelopeState'[q] = "none"
            BY <3>1 DEF EnvelopeInv, OnlyTopHasEnvelope, TopAwaiting, Awaiting
        <3> QED
            BY <1>3, <2>1, <3>1, <3>2
            DEF EnvelopeInv, OnlyTopHasEnvelope, NewRowHasNoEnvelope, Reorder
    <2> QED
        BY <1>3, <2>2, <2>3, <2>4 DEF Reorder, CreateEnvelopeOnNewTop
<1>4. ASSUME NEW p \in Pwb, Abandon(p)
      PROVE  EnvelopeInv'
    <2>1. /\ Awaiting' = Awaiting \ {p}
          /\ Processing' = Processing
          /\ p \in Awaiting
          /\ \A q \in Pwb : processingState'[q] = NoRow => processingState[q] = NoRow
        BY <1>4 DEF Abandon, Awaiting, Processing, TypeOK, NoRow
    <2>2. \A q \in Pwb \ {p} : envelopeState'[q] = envelopeState[q]
        BY <1>4 DEF Abandon, TypeOK
    <2>3. \A q \in Awaiting : q # p /\ position[q] = 1 => position'[q] = 1
        BY <1>4 DEF Abandon, Removed, CloseGap, TypeOK, Awaiting, QueueOrder, IsQueueOrder
    <2>4. OnlyTopHasEnvelope'
        BY <2>1, <2>2, <2>3 DEF EnvelopeInv, OnlyTopHasEnvelope, Awaiting
    <2>5. NewRowHasNoEnvelope'
        BY <1>4, <2>1, <2>2 DEF EnvelopeInv, NewRowHasNoEnvelope, Abandon, TypeOK, NoRow
    <2> QED
        BY <2>4, <2>5 DEF EnvelopeInv
<1>5. ASSUME NEW p \in Pwb, BeginProcessing(p)
      PROVE  EnvelopeInv'
    <2>1. /\ UNCHANGED envelopeState
          /\ position[p] = 1
          /\ processingState' = [processingState EXCEPT ![p] = "CURRENTLY_PROCESSING"]
        BY <1>5 DEF BeginProcessing
    <2>2. TopAwaiting(position) = {p}
        BY <2>1, TopIsUnique
    <2>3. Awaiting' = Awaiting \ {p}
        BY <2>1 DEF Awaiting, TypeOK
    <2>4. \A q \in Awaiting \ {p} : ~HasEnvelope(q)
        BY <2>2 DEF TopAwaiting, EnvelopeInv, OnlyTopHasEnvelope
    <2> QED
        BY <2>1, <2>3, <2>4 DEF EnvelopeInv, OnlyTopHasEnvelope, NewRowHasNoEnvelope, TypeOK, NoRow
<1>6. ASSUME NEW p \in Pwb, ProcessingSucceeded(p) \/ ProcessingFailed(p)
      PROVE  EnvelopeInv'
    <2>1. /\ UNCHANGED envelopeState
          /\ p \in Processing
          /\ Awaiting' = Awaiting
          /\ \A q \in Pwb : processingState'[q] = NoRow => processingState[q] = NoRow
        BY <1>6 DEF ProcessingSucceeded, ProcessingFailed, CompleteProcessing, Processing,
                    Awaiting, TypeOK, NoRow
    <2>2. \A q \in Awaiting : ~HasEnvelope(q)
        BY <2>1 DEF EnvelopeInv, OnlyTopHasEnvelope
    <2> QED
        BY <2>1, <2>2 DEF EnvelopeInv, OnlyTopHasEnvelope, NewRowHasNoEnvelope
<1>7. ASSUME NEW p \in Pwb, NEW verdict \in {"valid", "invalid"},
             CreateXmlEnvelopeFile(p, verdict)
      PROVE  EnvelopeInv'
    <2>1. /\ UNCHANGED <<processingState, position>>
          /\ Processing = {} /\ position[p] = 1
          /\ envelopeState' = [envelopeState EXCEPT ![p] = verdict]
        BY <1>7 DEF CreateXmlEnvelopeFile, CanCreateEnvelope
    <2>2. p \in Awaiting
        BY <2>1, TopIsUnique
    <2> QED
        BY <2>1, <2>2 DEF EnvelopeInv, OnlyTopHasEnvelope, NewRowHasNoEnvelope, Awaiting,
                          Processing, TypeOK, NoRow
<1>8. CASE ResetPositions
    <2>1. \A q \in Pwb : envelopeState'[q] = IF q \in Awaiting THEN "none" ELSE envelopeState[q]
        BY <1>8 DEF ResetPositions
    <2>2. UNCHANGED processingState
        BY <1>8 DEF ResetPositions
    <2> QED
        BY <2>1, <2>2 DEF EnvelopeInv, OnlyTopHasEnvelope, NewRowHasNoEnvelope, Awaiting
<1>9. CASE \/ \E w \in WorkBasket : Restore(w)
           \/ PauseQueue \/ UnpauseQueue \/ NewYear \/ CreateEnvelopeForTop
           \/ \E p \in Pwb : ShowEnvelopeQueue(p) \/ RefuseEnvelope(p) \/ LoseTask(p)
           \/ UNCHANGED vars
    <2>1. UNCHANGED <<processingState, position, envelopeState>>
        BY <1>9 DEF Restore, PauseQueue, UnpauseQueue, NewYear, CreateEnvelopeForTop,
                    RefuseEnvelope, LoseTask, ShowEnvelopeQueue, vars
    <2> QED
        BY <1>1, <2>1
<1>10. ASSUME NEW p \in Pwb, PromotePosition(p) \/ DemotePosition(p) \/ PromoteToTopPosition(p)
       PROVE  EnvelopeInv'
    BY <1>3, <1>10 DEF PromotePosition, DemotePosition, PromoteToTopPosition
<1> QED
    BY <1>2, <1>4, <1>5, <1>6, <1>7, <1>8, <1>9, <1>10
    DEF Next, Manager, Consumer, Worker, RunTask, Operator

(* Together the invariants are inductive. *)
LEMMA EnvelopeInvariant == Spec => []EnvelopeInv
<1>1. Init => EnvelopeInv
    BY DEF Init, EnvelopeInv, OnlyTopHasEnvelope, NewRowHasNoEnvelope, HasEnvelope,
           Awaiting, Processing, NoRow
<1> QED
    BY <1>1, EnvelopeStep, TypeCorrect, QueueAlwaysInOrder, NeverTwoProcessing, PTL DEF Spec

(* Of the awaiting rows only the top-most has an envelope, not a deleted   *)
(* one, and not while HMRC has another workbasket in hand.                 *)
THEOREM OnlyTopEverHasEnvelope == Spec => []OnlyTopHasEnvelope
<1>1. EnvelopeInv => OnlyTopHasEnvelope
    BY DEF EnvelopeInv
<1> QED
    BY <1>1, EnvelopeInvariant, PTL

(* A row that HMRC has taken or CDS has accepted keeps its envelope: every *)
(* operation that touches an envelope touches that of an awaiting row.     *)
LEMMA EnvelopeKept ==
    ASSUME TypeOK, QueueOrder, [Next]_vars, NEW p \in Processing \cup Successful
    PROVE  envelopeId'[p] = envelopeId[p] /\ envelopeState'[p] = envelopeState[p]
<1> USE DEF queueVars, envelopeVars
<1>1. p \in Pwb /\ p \notin Awaiting
    BY DEF Processing, Successful, Awaiting
<1>2. ASSUME NEW pos, Reorder(pos)
      PROVE  envelopeId'[p] = envelopeId[p] /\ envelopeState'[p] = envelopeState[p]
    BY <1>1, <1>2 DEF Reorder, CreateEnvelopeOnNewTop, ReplaceTop, TopAwaiting
<1>3. ASSUME NEW q \in Pwb, Abandon(q)
      PROVE  envelopeId'[p] = envelopeId[p] /\ envelopeState'[p] = envelopeState[p]
    <2>1. q \in Awaiting
        BY <1>3 DEF Abandon, Awaiting
    <2> QED
        BY <1>1, <1>3, <2>1 DEF Abandon, TypeOK
<1>4. ASSUME NEW q \in Pwb, NEW verdict \in {"valid", "invalid"},
             CreateXmlEnvelopeFile(q, verdict)
      PROVE  envelopeId'[p] = envelopeId[p] /\ envelopeState'[p] = envelopeState[p]
    <2>1. position[q] = 1
        BY <1>4 DEF CreateXmlEnvelopeFile, CanCreateEnvelope
    <2>2. q \in Awaiting
        BY <2>1, TopIsUnique
    <2> QED
        BY <1>1, <1>4, <2>2 DEF CreateXmlEnvelopeFile, TypeOK
<1>5. CASE ResetPositions
    BY <1>1, <1>5 DEF ResetPositions
<1>6. CASE \/ \E q \in Pwb : \/ \E w \in WorkBasket : Create(w, q)
                            \/ BeginProcessing(q) \/ ShowEnvelopeQueue(q)
                            \/ ProcessingSucceeded(q) \/ ProcessingFailed(q)
                            \/ RefuseEnvelope(q) \/ LoseTask(q)
           \/ \E w \in WorkBasket : Restore(w)
           \/ PauseQueue \/ UnpauseQueue \/ NewYear \/ CreateEnvelopeForTop
           \/ UNCHANGED vars
    <2>1. UNCHANGED <<envelopeId, envelopeState>>
        BY <1>6 DEF Create, BeginProcessing, ShowEnvelopeQueue, ProcessingSucceeded,
                    ProcessingFailed, CompleteProcessing, RefuseEnvelope, LoseTask, Restore,
                    PauseQueue, UnpauseQueue, NewYear, CreateEnvelopeForTop, vars
    <2> QED
        BY <2>1
<1>7. ASSUME NEW q \in Pwb, PromotePosition(q) \/ DemotePosition(q) \/ PromoteToTopPosition(q)
      PROVE  envelopeId'[p] = envelopeId[p] /\ envelopeState'[p] = envelopeState[p]
    BY <1>2, <1>7 DEF PromotePosition, DemotePosition, PromoteToTopPosition
<1> QED
    BY <1>3, <1>4, <1>5, <1>6, <1>7 DEF Next, Manager, Consumer, Worker, RunTask, Operator

(* From the moment HMRC takes a row its envelope is never replaced,        *)
(* renumbered or deleted, however late a second task for it runs.          *)
THEOREM EnvelopesStayFrozen == Spec => EnvelopeFrozen
<1> DEFINE Kept == \A p \in Processing \cup Successful :
                        /\ envelopeId'[p] = envelopeId[p]
                        /\ envelopeState'[p] = envelopeState[p]
<1>1. TypeOK /\ QueueOrder /\ [Next]_vars => [Kept]_vars
    BY EnvelopeKept
<1> QED
    BY <1>1, TypeCorrect, QueueAlwaysInOrder, PTL DEF Spec, EnvelopeFrozen

-----------------------------------------------------------------------------
(* The workbaskets' statuses.                                              *)

(* StatusAgreement reads status[workbasketOf[p]], which says something     *)
(* only of a row that has a workbasket.                                    *)
RowsHaveWorkBasket ==
    \A p \in Pwb : processingState[p] # NoRow => workbasketOf[p] \in WorkBasket
StatusInv == StatusAgreement /\ RowsHaveWorkBasket

(* The row of a queued workbasket is the only one that carries it.         *)
LEMMA OnlyCarrier ==
    ASSUME TypeOK, StatusInv, NEW p \in AllQueued
    PROVE  /\ p \in Pwb
           /\ workbasketOf[p] \in WorkBasket
           /\ status[workbasketOf[p]] = "QUEUED"
           /\ \A q \in (AllQueued \cup Successful) \ {p} :
                workbasketOf[q] # workbasketOf[p]
BY DEF StatusInv, StatusAgreement, RowsHaveWorkBasket, AllQueued, Awaiting, Processing, NoRow

(* Every request, task and command keeps the two state machines in step.   *)
LEMMA StatusStep ==
    ASSUME TypeOK, StatusInv, [Next]_vars
    PROVE  StatusInv'
<1> USE DEF queueVars, envelopeVars
<1>0. /\ status \in [WorkBasket -> Statuses]
      /\ workbasketOf \in [Pwb -> WorkBasket \cup {None}]
      /\ processingState \in [Pwb -> ProcessingStates \cup {NoRow}]
    BY DEF TypeOK
<1>1. ASSUME UNCHANGED <<status, workbasketOf, processingState>>
      PROVE  StatusInv'
    BY <1>1 DEF StatusInv, StatusAgreement, RowsHaveWorkBasket, AllQueued, Awaiting,
                Processing, Successful
<1>2. ASSUME NEW p \in Pwb, NEW w \in WorkBasket, Create(w, p)
      PROVE  StatusInv'
    <2>1. /\ status[w] = "EDITING"
          /\ processingState[p] = NoRow
          /\ status' = [status EXCEPT ![w] = "QUEUED"]
        BY <1>2 DEF Create
    <2>2. \A q \in AllQueued \cup Successful : workbasketOf[q] # w
        BY <2>1 DEF StatusInv, StatusAgreement
    <2>3. /\ workbasketOf' = [workbasketOf EXCEPT ![p] = w]
          /\ processingState' = [processingState EXCEPT ![p] = "AWAITING_PROCESSING"]
        BY <1>2, <2>2 DEF Create, JoinQueue
    <2>4. /\ AllQueued' = AllQueued \cup {p}
          /\ Successful' = Successful
          /\ p \notin AllQueued \cup Successful
        BY <1>0, <2>1, <2>3 DEF AllQueued, Awaiting, Processing, Successful, NoRow
    <2>5. RowsHaveWorkBasket'
        BY <1>0, <2>3 DEF StatusInv, RowsHaveWorkBasket
    <2>6. /\ workbasketOf'[p] = w
          /\ \A q \in Pwb \ {p} : workbasketOf'[q] = workbasketOf[q]
          /\ \A v \in WorkBasket : status'[v] = IF v = w THEN "QUEUED" ELSE status[v]
          /\ AllQueued \subseteq Pwb /\ Successful \subseteq Pwb
        BY <1>0, <2>1, <2>3 DEF AllQueued, Awaiting, Processing, Successful
    <2>7. \A q \in AllQueued \cup Successful : q # p /\ workbasketOf[q] \in WorkBasket \ {w}
        BY <2>2, <2>4 DEF StatusInv, RowsHaveWorkBasket, AllQueued, Awaiting, Processing,
                          Successful, NoRow
    <2>8. /\ \A q \in AllQueued' : status'[workbasketOf'[q]] = "QUEUED"
          /\ \A q \in Successful' : status'[workbasketOf'[q]] = "PUBLISHED"
        BY <2>4, <2>6, <2>7 DEF StatusInv, StatusAgreement
    <2>9. \A q, r \in AllQueued' \cup Successful' :
            workbasketOf'[q] = workbasketOf'[r] => q = r
        BY <2>4, <2>6, <2>7 DEF StatusInv, StatusAgreement
    <2>10. \A v \in WorkBasket :
            /\ status'[v] = "QUEUED" => \E q \in AllQueued' : workbasketOf'[q] = v
            /\ status'[v] = "PUBLISHED" => \E q \in Successful' : workbasketOf'[q] = v
        BY <2>4, <2>6, <2>7 DEF StatusInv, StatusAgreement
    <2> QED
        BY <2>5, <2>8, <2>9, <2>10 DEF StatusInv, StatusAgreement
<1>3. ASSUME NEW p \in AllQueued, NEW state, NEW wbStatus,
             \/ state = "ABANDONED" /\ wbStatus = "EDITING"
             \/ state = "SUCCESSFULLY_PROCESSED" /\ wbStatus = "PUBLISHED"
             \/ state = "FAILED_PROCESSING" /\ wbStatus = "ERRORED",
             processingState' = [processingState EXCEPT ![p] = state],
             status' = [status EXCEPT ![workbasketOf[p]] = wbStatus],
             UNCHANGED workbasketOf
      PROVE  StatusInv'
    <2> DEFINE w == workbasketOf[p]
    <2>1. /\ p \in Pwb /\ w \in WorkBasket /\ status[w] = "QUEUED"
          /\ \A q \in (AllQueued \cup Successful) \ {p} : workbasketOf[q] # w
        BY OnlyCarrier
    <2>2. /\ AllQueued' = AllQueued \ {p}
          /\ Successful' = IF state = "SUCCESSFULLY_PROCESSED" THEN Successful \cup {p}
                                                               ELSE Successful
        BY <1>0, <1>3, <2>1 DEF AllQueued, Awaiting, Processing, Successful
    <2>3. \A v \in WorkBasket : status'[v] = IF v = w THEN wbStatus ELSE status[v]
        BY <1>0, <1>3, <2>1
    <2>4. RowsHaveWorkBasket'
        BY <1>0, <1>3, <2>1 DEF StatusInv, RowsHaveWorkBasket
    <2>5. p \notin Successful
        BY DEF AllQueued, Awaiting, Processing, Successful
    <2>6. \A q \in (AllQueued \cup Successful) \ {p} : workbasketOf[q] \in WorkBasket \ {w}
        BY <2>1 DEF StatusInv, RowsHaveWorkBasket, AllQueued, Awaiting, Processing,
                    Successful, NoRow
    <2>7. /\ \A q \in AllQueued' : status'[workbasketOf'[q]] = "QUEUED"
          /\ \A q \in Successful' : status'[workbasketOf'[q]] = "PUBLISHED"
        BY <1>3, <2>1, <2>2, <2>3, <2>5, <2>6 DEF StatusInv, StatusAgreement
    <2>8. \A q, r \in AllQueued' \cup Successful' :
            workbasketOf'[q] = workbasketOf'[r] => q = r
        BY <1>3, <2>2 DEF StatusInv, StatusAgreement
    <2>9. \A v \in WorkBasket :
            /\ status'[v] = "QUEUED" => \E q \in AllQueued' : workbasketOf'[q] = v
            /\ status'[v] = "PUBLISHED" => \E q \in Successful' : workbasketOf'[q] = v
        BY <1>3, <2>1, <2>2, <2>3, <2>5 DEF StatusInv, StatusAgreement
    <2> QED
        BY <2>4, <2>7, <2>8, <2>9 DEF StatusInv, StatusAgreement
<1>4. ASSUME NEW p \in Pwb, Abandon(p) \/ ProcessingSucceeded(p) \/ ProcessingFailed(p)
      PROVE  StatusInv'
    <2>1. p \in AllQueued
        BY <1>4 DEF Abandon, ProcessingSucceeded, ProcessingFailed, CompleteProcessing,
                    AllQueued, Awaiting, Processing
    <2>2. CASE Abandon(p)
        <3>1. /\ processingState' = [processingState EXCEPT ![p] = "ABANDONED"]
              /\ status' = [status EXCEPT ![workbasketOf[p]] = "EDITING"]
              /\ UNCHANGED workbasketOf
            BY <2>2 DEF Abandon
        <3> QED
            BY <1>3, <2>1, <3>1
    <2>3. CASE ProcessingSucceeded(p)
        <3>1. /\ processingState' = [processingState EXCEPT ![p] = "SUCCESSFULLY_PROCESSED"]
              /\ status' = [status EXCEPT ![workbasketOf[p]] = "PUBLISHED"]
              /\ UNCHANGED workbasketOf
            BY <2>3 DEF ProcessingSucceeded, CompleteProcessing
        <3> QED
            BY <1>3, <2>1, <3>1
    <2>4. CASE ProcessingFailed(p)
        <3>1. /\ processingState' = [processingState EXCEPT ![p] = "FAILED_PROCESSING"]
              /\ status' = [status EXCEPT ![workbasketOf[p]] = "ERRORED"]
              /\ UNCHANGED workbasketOf
            BY <2>4 DEF ProcessingFailed, CompleteProcessing
        <3> QED
            BY <1>3, <2>1, <3>1
    <2> QED
        BY <1>4, <2>2, <2>3, <2>4
<1>5. ASSUME NEW p \in Pwb, BeginProcessing(p)
      PROVE  StatusInv'
    <2>1. /\ processingState[p] = "AWAITING_PROCESSING"
          /\ processingState' = [processingState EXCEPT ![p] = "CURRENTLY_PROCESSING"]
          /\ UNCHANGED <<status, workbasketOf>>
        BY <1>5 DEF BeginProcessing
    <2>2. AllQueued' = AllQueued /\ Successful' = Successful
        BY <1>0, <2>1 DEF AllQueued, Awaiting, Processing, Successful
    <2>3. RowsHaveWorkBasket'
        BY <1>0, <2>1 DEF StatusInv, RowsHaveWorkBasket, NoRow
    <2> QED
        BY <2>1, <2>2, <2>3 DEF StatusInv, StatusAgreement
<1>6. ASSUME NEW w \in WorkBasket, Restore(w)
      PROVE  StatusInv'
    <2>1. /\ status[w] = "ERRORED"
          /\ status' = [status EXCEPT ![w] = "EDITING"]
          /\ UNCHANGED <<workbasketOf, processingState>>
        BY <1>6 DEF Restore
    <2>2. AllQueued' = AllQueued /\ Successful' = Successful
        BY <2>1 DEF AllQueued, Awaiting, Processing, Successful
    <2>3. RowsHaveWorkBasket'
        BY <2>1 DEF StatusInv, RowsHaveWorkBasket
    <2>4. \A v \in WorkBasket : status'[v] = IF v = w THEN "EDITING" ELSE status[v]
        BY <1>0, <2>1
    <2>5. \A q \in AllQueued \cup Successful : workbasketOf[q] \in WorkBasket \ {w}
        BY <2>1 DEF StatusInv, StatusAgreement, RowsHaveWorkBasket, AllQueued, Awaiting,
                    Processing, Successful, NoRow
    <2> QED
        BY <2>1, <2>2, <2>3, <2>4, <2>5 DEF StatusInv, StatusAgreement
<1>7. CASE \/ \E p \in Pwb : \/ PromotePosition(p) \/ DemotePosition(p)
                            \/ PromoteToTopPosition(p) \/ ShowEnvelopeQueue(p)
           \/ PauseQueue \/ UnpauseQueue \/ NewYear \/ Operator \/ Worker
           \/ UNCHANGED vars
    <2>1. UNCHANGED <<status, workbasketOf, processingState>>
        BY <1>7 DEF PromotePosition, DemotePosition, PromoteToTopPosition, Reorder,
                    PauseQueue, UnpauseQueue, NewYear, Operator, CreateEnvelopeForTop,
                    ResetPositions, Worker, RunTask, CreateXmlEnvelopeFile, RefuseEnvelope,
                    LoseTask, ShowEnvelopeQueue, vars
    <2> QED
        BY <1>1, <2>1
<1> QED
    BY <1>2, <1>4, <1>5, <1>6, <1>7 DEF Next, Manager, Consumer

(* A workbasket is QUEUED exactly while one row carries it through the     *)
(* queue, PUBLISHED exactly when one row was accepted, and no two rows     *)
(* carry it.                                                               *)
THEOREM StatusesAlwaysAgree == Spec => []StatusAgreement
<1>1. Init => StatusInv
    BY DEF Init, StatusInv, StatusAgreement, RowsHaveWorkBasket, AllQueued, Awaiting,
           Processing, Successful, NoRow
<1>2. Spec => []StatusInv
    BY <1>1, StatusStep, TypeCorrect, PTL DEF Spec
<1>3. StatusInv => StatusAgreement
    BY DEF StatusInv
<1> QED
    BY <1>2, <1>3, PTL

-----------------------------------------------------------------------------
(* The top row's task.                                                     *)

(* next_envelope_id raises once a year's 9999 IDs are used up, and the     *)
(* task of the top row ends for nothing: the promise is made for as long   *)
(* as the year has an ID left.                                             *)

(* Scheduling for a top row that has no deleted envelope gives it a task,  *)
(* and takes none from anybody.                                            *)
LEMMA Scheduled ==
    ASSUME TypeOK, NEW tops \in SUBSET Pwb, Schedule(tops)
    PROVE  /\ \A p \in Pwb : pending'[p] >= pending[p]
           /\ \A p \in tops : envelopeState[p] # "deleted" => pending'[p] > 0
<1>1. pending \in [Pwb -> Nat]
    BY DEF TypeOK
<1> QED
    BY <1>1 DEF Schedule

(* A step that takes no row out of Processing, moves nobody to the top,    *)
(* and takes no envelope and no task from a row, keeps the promise.        *)
LEMMA ScheduledStays ==
    ASSUME TypeOK, TopIsScheduled,
           Processing \subseteq Processing', faults <= faults',
           TopAwaiting(position)' \subseteq TopAwaiting(position),
           \A p \in Pwb : /\ envelopeState'[p] = envelopeState[p]
                          /\ pending'[p] >= pending[p] /\ pending'[p] \in Nat
    PROVE  TopIsScheduled'
<1>1. pending \in [Pwb -> Nat] /\ faults \in Nat
    BY DEF TypeOK
<1>2. SUFFICES ASSUME faults' = 0, Processing' = {}, NEW p \in TopAwaiting(position)'
               PROVE  HasEnvelope(p)' \/ pending'[p] > 0
    BY DEF TopIsScheduled
<1>3. faults = 0 /\ Processing = {}
    BY <1>1, <1>2
<1>4. p \in TopAwaiting(position) /\ p \in Pwb
    BY <1>2 DEF TopAwaiting, Awaiting
<1>5. envelopeState[p] # "none" \/ pending[p] > 0
    BY <1>3, <1>4 DEF TopIsScheduled, HasEnvelope
<1>6. /\ envelopeState'[p] = envelopeState[p]
      /\ pending'[p] >= pending[p]
      /\ pending[p] \in Nat /\ pending'[p] \in Nat
    BY <1>1, <1>4
<1>7. CASE envelopeState[p] # "none"
    BY <1>6, <1>7 DEF HasEnvelope
<1>8. CASE pending[p] > 0
    BY <1>6, <1>8
<1> QED
    BY <1>5, <1>6, <1>7, <1>8

(* Every request and task keeps the promise while the year has an ID left. *)
LEMMA ScheduledStep ==
    ASSUME TypeOK, QueueOrder, AtMostOneProcessing, EnvelopeInv, IdAvailable(year),
           TopIsScheduled, [Next]_vars
    PROVE  TopIsScheduled'
<1> USE DEF queueVars, envelopeVars
<1>0. /\ position \in [Pwb -> Nat]
      /\ pending \in [Pwb -> Nat]
      /\ processingState \in [Pwb -> ProcessingStates \cup {NoRow}]
      /\ faults \in Nat /\ Awaiting \subseteq Pwb
    BY DEF TypeOK, Awaiting
<1>1. ASSUME UNCHANGED <<processingState, position, envelopeState, pending, faults>>
      PROVE  TopIsScheduled'
    BY <1>1 DEF TopIsScheduled, TopAwaiting, Awaiting, Processing, HasEnvelope
<1>2. ASSUME NEW tops, TopAwaiting(position)' \subseteq tops, tops \subseteq Awaiting,
             Schedule(tops)
      PROVE  TopIsScheduled'
    <2>1. tops \in SUBSET Pwb /\ \A p \in tops : envelopeState[p] # "deleted"
        BY <1>0, <1>2 DEF EnvelopeInv, OnlyTopHasEnvelope, HasEnvelope
    <2>2. \A p \in tops : pending'[p] > 0
        BY <1>2, <2>1, Scheduled
    <2> QED
        BY <1>2, <2>2 DEF TopIsScheduled
<1>3. ASSUME Processing # {}, Processing' = Processing
      PROVE  TopIsScheduled'
    BY <1>3 DEF TopIsScheduled
<1>4. ASSUME NEW p \in Pwb, NEW w \in WorkBasket, Create(w, p)
      PROVE  TopIsScheduled'
    <2>1. processingState[p] = NoRow /\ UNCHANGED <<envelopeState, faults>>
        BY <1>4 DEF Create
    <2>2. CASE UNCHANGED <<queueVars, pending>>
        BY <1>1, <2>1, <2>2
    <2>3. CASE JoinQueue(w, p)
        <3>1. PICK last : /\ IsMaxPosition(position, last)
                          /\ position' = [position EXCEPT ![p] = last + 1]
                          /\ IF Processing = {} /\ last = 0 THEN Schedule({p})
                                                            ELSE UNCHANGED pending
            BY <2>3 DEF JoinQueue
        <3>2. last \in Nat /\ \A q \in Pwb : position[q] <= last
            BY <1>0, <3>1 DEF IsMaxPosition
        <3>3. Awaiting' = Awaiting \cup {p} /\ Processing' = Processing
            <4>1. processingState' = [processingState EXCEPT ![p] = "AWAITING_PROCESSING"]
                BY <2>3 DEF JoinQueue
            <4>2. /\ processingState'[p] = "AWAITING_PROCESSING"
                  /\ \A q \in Pwb : q # p => processingState'[q] = processingState[q]
                BY <1>0, <4>1
            <4> QED
                BY <2>1, <4>2 DEF Awaiting, Processing, NoRow
        <3>4. TopAwaiting(position)' = {q \in Awaiting \cup {p} : position'[q] = 1}
            BY <3>3 DEF TopAwaiting
        <3>5. CASE Processing # {}
            BY <1>3, <3>3, <3>5
        <3>6. CASE Processing = {} /\ last = 0
            <4>1. \A q \in Pwb : position[q] = 0
                BY <1>0, <3>2, <3>6
            <4>2. TopAwaiting(position)' \subseteq {p}
                <5>1. \A q \in Awaiting \ {p} : position'[q] # 1
                    BY <1>0, <3>1, <4>1
                <5> QED
                    BY <3>4, <5>1
            <4>3. envelopeState[p] # "deleted"
                BY <2>1 DEF EnvelopeInv, NewRowHasNoEnvelope, HasEnvelope
            <4>4. pending'[p] > 0
                BY <3>1, <3>6, <4>3, Scheduled
            <4> QED
                BY <4>2, <4>4 DEF TopIsScheduled
        <3>7. CASE Processing = {} /\ last # 0
            <4>1. UNCHANGED pending
                BY <3>1, <3>7
            <4>2. TopAwaiting(position)' \subseteq TopAwaiting(position)
                BY <1>0, <3>1, <3>2, <3>4, <3>7 DEF TopAwaiting
            <4> QED
                BY <1>0, <2>1, <3>3, <4>1, <4>2, ScheduledStays
        <3> QED
            BY <3>5, <3>6, <3>7
    <2> QED
        BY <1>4, <2>2, <2>3 DEF Create
<1>5. ASSUME NEW pos, Reorder(pos)
      PROVE  TopIsScheduled'
    <2>1. /\ Awaiting' = Awaiting /\ Processing' = Processing
          /\ position' = pos /\ UNCHANGED faults
        BY <1>5 DEF Reorder, Awaiting, Processing
    <2>2. TopAwaiting(position)' = TopAwaiting(pos)
        BY <2>1 DEF TopAwaiting
    <2>3. CASE Processing # {}
        BY <1>3, <2>1, <2>3
    <2>4. CASE Processing = {} /\ TopAwaiting(pos) = TopAwaiting(position)
        <3>1. UNCHANGED <<envelopeState, pending>>
            BY <1>5, <2>4 DEF Reorder, CreateEnvelopeOnNewTop
        <3> QED
            BY <1>0, <2>1, <2>2, <2>4, <3>1, ScheduledStays
    <2>5. CASE ReplaceTop(pos)
        <3>1. Schedule(TopAwaiting(pos)) /\ TopAwaiting(pos) \subseteq Awaiting
            BY <2>5 DEF ReplaceTop, TopAwaiting
        <3> QED
            BY <1>2, <2>2, <3>1
    <2> QED
        BY <1>5, <2>3, <2>4, <2>5 DEF Reorder, CreateEnvelopeOnNewTop
<1>6. ASSUME NEW p \in Pwb, Abandon(p)
      PROVE  TopIsScheduled'
    <2> DEFINE pos == Removed(position, p)
    <2>1. /\ processingState[p] = "AWAITING_PROCESSING"
          /\ processingState' = [processingState EXCEPT ![p] = "ABANDONED"]
          /\ position' = pos /\ UNCHANGED faults
        BY <1>6 DEF Abandon
    <2>2. Awaiting' = Awaiting \ {p} /\ Processing' = Processing
        BY <1>0, <2>1 DEF Awaiting, Processing
    <2>3. TopAwaiting(position)' \subseteq TopAwaiting(pos)
        BY <2>1, <2>2 DEF TopAwaiting
    <2>4. CASE Processing # {}
        BY <1>3, <2>2, <2>4
    <2>5. CASE Processing = {} /\ TopAwaiting(pos) = TopAwaiting(position)
        <3>1. UNCHANGED <<envelopeState, pending>>
            BY <1>6, <2>5 DEF Abandon
        <3> QED
            BY <1>0, <2>1, <2>2, <2>3, <2>5, <3>1, ScheduledStays
    <2>6. CASE Processing = {} /\ TopAwaiting(pos) # TopAwaiting(position)
        <3>1. Schedule(TopAwaiting(pos)) /\ TopAwaiting(pos) \subseteq Awaiting
            BY <1>6, <2>6 DEF Abandon, TopAwaiting
        <3> QED
            BY <1>2, <2>3, <3>1
    <2> QED
        BY <2>4, <2>5, <2>6
<1>7. ASSUME NEW p \in Pwb, BeginProcessing(p)
      PROVE  TopIsScheduled'
    <2>1. p \in Processing'
        BY <1>0, <1>7 DEF BeginProcessing, Processing
    <2> QED
        BY <2>1 DEF TopIsScheduled
<1>8. ASSUME NEW p \in Pwb, ProcessingSucceeded(p) \/ ProcessingFailed(p)
      PROVE  TopIsScheduled'
    <2>1. PICK state \in {"SUCCESSFULLY_PROCESSED", "FAILED_PROCESSING"} :
            /\ processingState[p] = "CURRENTLY_PROCESSING"
            /\ processingState' = [processingState EXCEPT ![p] = state]
            /\ UNCHANGED position
            /\ IF Processing = {p} THEN Schedule(TopAwaiting(position)) ELSE UNCHANGED pending
        BY <1>8 DEF ProcessingSucceeded, ProcessingFailed, CompleteProcessing
    <2>2. Processing = {p}
        BY <2>1 DEF AtMostOneProcessing, Processing
    <2>3. Awaiting' = Awaiting
        BY <1>0, <2>1 DEF Awaiting
    <2>4. /\ TopAwaiting(position)' = TopAwaiting(position)
          /\ TopAwaiting(position) \subseteq Awaiting
        BY <2>1, <2>3 DEF TopAwaiting
    <2> QED
        BY <1>2, <2>1, <2>2, <2>4
<1>9. ASSUME NEW p \in Pwb, NEW verdict \in {"valid", "invalid"},
             CreateXmlEnvelopeFile(p, verdict)
      PROVE  TopIsScheduled'
    <2>1. /\ position[p] = 1 /\ UNCHANGED <<processingState, position>>
          /\ envelopeState' = [envelopeState EXCEPT ![p] = verdict]
        BY <1>9 DEF CreateXmlEnvelopeFile, CanCreateEnvelope
    <2>2. TopAwaiting(position)' = {p}
        BY <2>1, TopIsUnique DEF TopAwaiting, Awaiting
    <2>3. HasEnvelope(p)'
        BY <2>1 DEF HasEnvelope, TypeOK
    <2> QED
        BY <2>2, <2>3 DEF TopIsScheduled
<1>10. ASSUME NEW p \in Pwb, RefuseEnvelope(p)
       PROVE  TopIsScheduled'
    <2>1. /\ Processing # {} \/ position[p] # 1
          /\ UNCHANGED <<processingState, position, envelopeState, faults>>
          /\ pending' = [pending EXCEPT ![p] = @ - 1]
        BY <1>10 DEF RefuseEnvelope, CanCreateEnvelope, TaskDone
    <2>2. Processing' = Processing /\ TopAwaiting(position)' = TopAwaiting(position)
        BY <2>1 DEF Processing, TopAwaiting, Awaiting
    <2>3. CASE Processing # {}
        BY <1>3, <2>2, <2>3
    <2>4. CASE position[p] # 1
        <3>1. \A q \in TopAwaiting(position) : q # p /\ pending'[q] = pending[q]
            BY <1>0, <2>1, <2>4 DEF TopAwaiting, Awaiting
        <3> QED
            BY <2>1, <2>2, <3>1 DEF TopIsScheduled, HasEnvelope
    <2> QED
        BY <2>1, <2>3, <2>4
<1>11. CASE Operator \/ \E p \in Pwb : LoseTask(p)
    <2>1. faults' = faults + 1
        BY <1>11 DEF Operator, CreateEnvelopeForTop, ResetPositions, LoseTask
    <2> QED
        BY <1>0, <2>1 DEF TopIsScheduled
<1>12. CASE \/ \E w \in WorkBasket : Restore(w)
            \/ PauseQueue \/ UnpauseQueue \/ NewYear
            \/ \E p \in Pwb : ShowEnvelopeQueue(p)
            \/ UNCHANGED vars
    BY <1>1, <1>12 DEF Restore, PauseQueue, UnpauseQueue, NewYear, ShowEnvelopeQueue, vars
<1>13. ASSUME NEW p \in Pwb, PromotePosition(p) \/ DemotePosition(p) \/ PromoteToTopPosition(p)
       PROVE  TopIsScheduled'
    BY <1>5, <1>13 DEF PromotePosition, DemotePosition, PromoteToTopPosition
<1> QED
    BY <1>4, <1>6, <1>7, <1>8, <1>9, <1>10, <1>11, <1>12, <1>13
    DEF Next, Manager, Consumer, Worker, RunTask

(* As long as the year has an envelope ID left, no task died and no        *)
(* operator reset the queue, the top row of an idle queue has its envelope *)
(* or a task on its way.                                                   *)
THEOREM TopAlwaysScheduled == Spec /\ []IdAvailable(year) => []TopIsScheduled
<1>1. Init => TopIsScheduled
    BY DEF Init, TopIsScheduled, TopAwaiting, Awaiting, NoRow
<1> QED
    BY <1>1, ScheduledStep, TypeCorrect, QueueAlwaysInOrder, NeverTwoProcessing,
       EnvelopeInvariant, PTL DEF Spec

-----------------------------------------------------------------------------
(* Envelope IDs.  PendingIdIsNext speaks of this year's IDs only, and is   *)
(* not enough to know what an envelope adds to the accepted IDs when it    *)
(* was made last year.  Of whatever year it is, a pending ID is the next   *)
(* one of its own year: only the row that carries it can be accepted       *)
(* before it is withdrawn.                                                 *)

WithEnvelope(rows) == {p \in rows : HasEnvelope(p)}

OfKnownYear(p) == FirstYear <= YearOf(envelopeId[p]) /\ YearOf(envelopeId[p]) <= year
IsNextId(p) == envelopeId[p] = NextEnvelopeId(YearOf(envelopeId[p]))

IdInv ==
    /\ FirstYear <= year
    /\ \A p \in WithEnvelope(AllQueued \cup Successful) : OfKnownYear(p)
    /\ \A p \in WithEnvelope(AllQueued) : IsNextId(p)
    /\ AcceptedIdsContiguous

(* From the first year on, next_envelope_id is the year's first ID when    *)
(* nothing was accepted in it, and else the one after an accepted ID and   *)
(* above all of them.                                                      *)
LEMMA NextIdFollows ==
    ASSUME TypeOK, NEW y \in Nat, FirstYear <= y
    PROVE  /\ NextEnvelopeId(y) \in Nat
           /\ NextEnvelopeId(y) >= y * IdsPerYear
           /\ \A id \in AcceptedIds(y) : id \in Nat /\ id < NextEnvelopeId(y)
           /\ \/ NextEnvelopeId(y) = FirstIdOf(y)
              \/ NextEnvelopeId(y) - 1 \in AcceptedIds(y)
<1> DEFINE S == AcceptedIds(y) \cup {0, SeedEnvelopeId}
<1>1. /\ Max(S) \in S /\ Max(S) \in Nat
      /\ \A id \in S : id \in Nat /\ id <= Max(S)
    BY LargestId
<1> HIDE DEF S
<1>2. /\ SeedEnvelopeId \in Nat /\ FirstYear \in Nat
      /\ SeedEnvelopeId \div 10000 <= FirstYear
    BY YearAssumption
<1>3. \A id \in AcceptedIds(y) : id \div 10000 = y /\ id \in S
    BY DEF AcceptedIds, YearOf, IdsPerYear, S
<1>4. SeedEnvelopeId \in S
    BY DEF S
<1>5. \A id \in Nat : id \div 10000 = y => id >= y * 10000
    OBVIOUS
<1>6. \A id \in Nat : id \div 10000 < y => id < y * 10000
    OBVIOUS
<1>7. CASE AcceptedIds(y) = {} /\ YearOf(SeedEnvelopeId) # y
    BY <1>7 DEF NextEnvelopeId, FirstIdOf, IdsPerYear
<1>8. CASE AcceptedIds(y) # {} \/ YearOf(SeedEnvelopeId) = y
    <2>1. NextEnvelopeId(y) = Max(S) + 1
        BY <1>8 DEF NextEnvelopeId, S
    <2>2. \A id \in AcceptedIds(y) : id \in Nat /\ id < NextEnvelopeId(y)
        BY <1>1, <1>3, <2>1
    <2>3. PICK id \in S : id \div 10000 = y
        BY <1>3, <1>4, <1>8 DEF YearOf, IdsPerYear
    <2>4. Max(S) >= y * 10000
        <3>1. id >= y * 10000 /\ id <= Max(S) /\ id \in Nat
            BY <1>1, <1>5, <2>3
        <3> QED
            BY <1>1, <3>1
    <2>5. CASE Max(S) \in AcceptedIds(y)
        BY <1>1, <2>1, <2>2, <2>4, <2>5 DEF IdsPerYear
    <2>6. CASE Max(S) = SeedEnvelopeId /\ YearOf(SeedEnvelopeId) = y
        BY <1>1, <2>1, <2>2, <2>4, <2>6 DEF IdsPerYear, FirstIdOf
    <2>7. CASE Max(S) = SeedEnvelopeId /\ YearOf(SeedEnvelopeId) # y
        <3>1. SeedEnvelopeId \div 10000 < y
            BY <1>2, <2>7 DEF YearOf, IdsPerYear
        <3>2. SeedEnvelopeId < y * 10000
            BY <1>2, <1>6, <3>1
        <3> QED
            BY <1>1, <1>2, <2>4, <2>7, <3>2
    <2>8. CASE Max(S) = 0
        <3>1. SeedEnvelopeId = 0
            BY <1>1, <1>2, <1>4, <2>8
        <3> QED
            BY <2>6, <2>7, <2>8, <3>1
    <2> QED
        BY <1>1, <2>5, <2>6, <2>7, <2>8 DEF S
<1> QED
    BY <1>7, <1>8

(* A step that changes neither which rows are accepted nor their envelopes *)
(* changes no next ID.                                                     *)
LEMMA AcceptedIdsKept ==
    ASSUME TypeOK, QueueOrder, [Next]_vars, Successful' = Successful
    PROVE  \A y : /\ AcceptedIds(y)' = AcceptedIds(y)
                  /\ NextEnvelopeId(y)' = NextEnvelopeId(y)
<1>1. \A p \in Successful : /\ envelopeId'[p] = envelopeId[p]
                            /\ envelopeState'[p] = envelopeState[p]
    BY EnvelopeKept
<1>2. \A y : AcceptedIds(y)' = AcceptedIds(y)
    BY <1>1 DEF AcceptedIds, HasEnvelope
<1> QED
    BY <1>2 DEF NextEnvelopeId

(* As long as no further row is accepted, the rows in the queue keep their *)
(* envelopes or lose them, and the calendar only moves on, IDs stay right. *)
LEMMA IdsStay ==
    ASSUME TypeOK, QueueOrder, IdInv, [Next]_vars,
           Successful' = Successful, year' \in Nat, year <= year',
           \A p \in WithEnvelope(AllQueued)' :
                p \in WithEnvelope(AllQueued) /\ envelopeId'[p] = envelopeId[p]
    PROVE  IdInv'
<1>1. \A p \in Successful : /\ envelopeId'[p] = envelopeId[p]
                            /\ envelopeState'[p] = envelopeState[p]
    BY EnvelopeKept
<1>2. \A y : /\ AcceptedIds(y)' = AcceptedIds(y)
             /\ NextEnvelopeId(y)' = NextEnvelopeId(y)
    BY AcceptedIdsKept
<1>3. \A p \in WithEnvelope(AllQueued \cup Successful)' :
        /\ p \in WithEnvelope(AllQueued \cup Successful)
        /\ envelopeId'[p] = envelopeId[p]
    BY <1>1 DEF WithEnvelope, HasEnvelope
<1>4. /\ FirstYear \in Nat /\ year \in Nat
      /\ \A p \in Pwb : envelopeId[p] \in Nat /\ YearOf(envelopeId[p]) \in Nat
    BY YearAssumption DEF TypeOK, YearOf, IdsPerYear
<1>5. FirstYear <= year'
    BY <1>4 DEF IdInv
<1>6. ASSUME NEW p \in WithEnvelope(AllQueued \cup Successful)'
      PROVE  OfKnownYear(p)'
    <2>1. p \in Pwb
        BY <1>3 DEF WithEnvelope, AllQueued, Awaiting, Processing, Successful
    <2>2. OfKnownYear(p) /\ envelopeId'[p] = envelopeId[p]
        BY <1>3, <1>6 DEF IdInv
    <2> QED
        BY <1>4, <2>1, <2>2 DEF OfKnownYear, YearOf
<1>7. ASSUME NEW p \in WithEnvelope(AllQueued)'
      PROVE  IsNextId(p)'
    <2>1. /\ p \in WithEnvelope(AllQueued) /\ envelopeId'[p] = envelopeId[p]
        BY <1>7
    <2>2. IsNextId(p)
        BY <2>1 DEF IdInv
    <2> QED
        BY <1>2, <2>1, <2>2 DEF IsNextId, YearOf
<1>8. AcceptedIdsContiguous'
    BY <1>1, <1>2 DEF IdInv, AcceptedIdsContiguous, HasEnvelope, FirstIdOf, YearOf
<1> QED
    BY <1>5, <1>6, <1>7, <1>8 DEF IdInv

(* The worker makes the one envelope there is, with this year's next ID.   *)
LEMMA IdsCreate ==
    ASSUME TypeOK, QueueOrder, EnvelopeInv, IdInv, NEW p \in Pwb, NEW verdict \in {"valid", "invalid"},
           CreateXmlEnvelopeFile(p, verdict), [Next]_vars
    PROVE  IdInv'
<1> DEFINE id == NextEnvelopeId(year)
<1>1. /\ Processing = {} /\ position[p] = 1 /\ IdAvailable(year)
      /\ envelopeId' = [envelopeId EXCEPT ![p] = id]
      /\ envelopeState' = [envelopeState EXCEPT ![p] = verdict]
      /\ UNCHANGED <<processingState, position, year>>
    BY DEF CreateXmlEnvelopeFile, CanCreateEnvelope, queueVars
<1>2. p \in Awaiting /\ TopAwaiting(position) = {p}
    BY <1>1, TopIsUnique
<1>3. Successful' = Successful /\ AllQueued' = AllQueued /\ AllQueued = Awaiting
    BY <1>1 DEF Successful, AllQueued, Awaiting, Processing
<1>4. \A q \in Awaiting \ {p} : ~HasEnvelope(q)
    BY <1>2 DEF EnvelopeInv, OnlyTopHasEnvelope, TopAwaiting
<1>5. /\ \A q \in Pwb \ {p} : /\ envelopeId'[q] = envelopeId[q]
                              /\ envelopeState'[q] = envelopeState[q]
      /\ envelopeId'[p] = id
    BY <1>1 DEF TypeOK
<1>6. WithEnvelope(AllQueued)' \subseteq {p}
    BY <1>3, <1>4, <1>5 DEF WithEnvelope, HasEnvelope, Awaiting
<1>7. p \notin Successful /\ Successful \subseteq Pwb
    BY <1>2 DEF Successful, Awaiting
<1>8. \A y : AcceptedIds(y)' = AcceptedIds(y) /\ NextEnvelopeId(y)' = NextEnvelopeId(y)
    BY <1>3, AcceptedIdsKept
<1>9. year \in Nat /\ FirstYear <= year /\ FirstYear \in Nat
    BY YearAssumption DEF TypeOK, IdInv
<1>10. id \in Nat /\ YearOf(id) = year
    <2>1. id \in Nat /\ id >= year * 10000 /\ id <= year * 10000 + 9999
        BY <1>1, <1>9, NextIdFollows DEF IdAvailable, IdsPerYear
    <2> QED
        BY <1>9, <2>1 DEF YearOf, IdsPerYear
<1>11. AcceptedIdsContiguous'
    BY <1>3, <1>5, <1>7, <1>8
    DEF IdInv, AcceptedIdsContiguous, HasEnvelope, FirstIdOf, YearOf
<1>12. ASSUME NEW q \in WithEnvelope(AllQueued \cup Successful)'
       PROVE  OfKnownYear(q)'
    <2>1. CASE q = p
        BY <1>1, <1>5, <1>9, <1>10, <2>1 DEF OfKnownYear, YearOf
    <2>2. CASE q # p
        <3>1. q \in WithEnvelope(AllQueued \cup Successful) /\ envelopeId'[q] = envelopeId[q]
            BY <1>3, <1>5, <1>6, <1>7, <2>2
            DEF WithEnvelope, HasEnvelope, AllQueued, Awaiting, Processing
        <3> QED
            BY <1>1, <3>1 DEF IdInv, OfKnownYear, YearOf
    <2> QED
        BY <2>1, <2>2
<1>13. \A q \in WithEnvelope(AllQueued)' : IsNextId(q)'
    <2>1. IsNextId(p)'
        BY <1>5, <1>8, <1>10 DEF IsNextId, YearOf
    <2> QED
        BY <1>6, <2>1
<1> QED
    BY <1>1, <1>9, <1>11, <1>12, <1>13 DEF IdInv

(* What AcceptedIdsContiguous says of one accepted row. *)
InSequence(p) ==
    /\ \/ envelopeId[p] = FirstIdOf(YearOf(envelopeId[p]))
       \/ envelopeId[p] - 1 \in AcceptedIds(YearOf(envelopeId[p]))
    /\ \A q \in Successful : HasEnvelope(q) /\ envelopeId[q] = envelopeId[p] => q = p

(* Accepting the row in hand puts its ID behind those accepted before.     *)
LEMMA IdsAccept ==
    ASSUME TypeOK, QueueOrder, AtMostOneProcessing, EnvelopeInv, IdInv,
           NEW p \in Pwb, ProcessingSucceeded(p), [Next]_vars
    PROVE  IdInv'
<1> DEFINE id == envelopeId[p]
           y == YearOf(id)
<1>1. /\ p \in Processing
      /\ processingState' = [processingState EXCEPT ![p] = "SUCCESSFULLY_PROCESSED"]
      /\ UNCHANGED <<envelopeId, envelopeState, year>>
    BY DEF ProcessingSucceeded, CompleteProcessing, envelopeVars, Processing
<1>2. /\ Processing' = {} /\ Awaiting' = Awaiting
      /\ Successful' = Successful \cup {p} /\ p \notin Successful
      /\ p \in AllQueued
    BY <1>1 DEF Processing, Awaiting, Successful, AllQueued, AtMostOneProcessing, TypeOK
<1>3. \A q \in Awaiting : ~HasEnvelope(q)
    BY <1>1 DEF EnvelopeInv, OnlyTopHasEnvelope
<1>4. WithEnvelope(AllQueued)' = {}
    BY <1>1, <1>2, <1>3 DEF WithEnvelope, HasEnvelope, AllQueued
<1>5. WithEnvelope(AllQueued \cup Successful)' \subseteq WithEnvelope(AllQueued \cup Successful)
    BY <1>1, <1>2 DEF WithEnvelope, HasEnvelope, AllQueued, Processing
<1>6. \A q \in WithEnvelope(AllQueued \cup Successful)' : OfKnownYear(q)'
    BY <1>1, <1>5 DEF IdInv, OfKnownYear, YearOf
<1>7. FirstYear <= year'
    BY <1>1 DEF IdInv
<1>8. AcceptedIdsContiguous'
    <2>1. CASE ~HasEnvelope(p)
        <3>1. \A z : AcceptedIds(z)' = AcceptedIds(z)
            BY <1>1, <1>2, <2>1 DEF AcceptedIds, HasEnvelope
        <3> QED
            BY <1>1, <1>2, <2>1, <3>1
            DEF IdInv, AcceptedIdsContiguous, HasEnvelope, FirstIdOf, YearOf
    <2>2. CASE HasEnvelope(p)
        <3>1. FirstYear <= y /\ id = NextEnvelopeId(y) /\ y \in Nat
            BY <1>2, <2>2 DEF IdInv, WithEnvelope, OfKnownYear, IsNextId, TypeOK, YearOf,
                             IdsPerYear, AllQueued, Awaiting, Processing
        <3>2. /\ \A other \in AcceptedIds(y) : other \in Nat /\ other < id
              /\ id = FirstIdOf(y) \/ id - 1 \in AcceptedIds(y)
              /\ id \in Nat
            BY <3>1, NextIdFollows
        <3>3. \A z : AcceptedIds(z) \subseteq AcceptedIds(z)'
            BY <1>1, <1>2 DEF AcceptedIds, HasEnvelope
        <3>4. \A q \in Successful : HasEnvelope(q) => envelopeId[q] # id
            BY <3>2 DEF AcceptedIds
        <3>5. ASSUME NEW q \in Successful', HasEnvelope(q)'
              PROVE  InSequence(q)'
            <4>1. HasEnvelope(q) /\ envelopeId'[q] = envelopeId[q]
                BY <1>1, <3>5 DEF HasEnvelope
            <4>2. CASE q = p
                <5>1. id = FirstIdOf(y) \/ id - 1 \in AcceptedIds(y)'
                    BY <1>1, <3>2, <3>3 DEF YearOf
                <5>2. \A r \in Successful' : HasEnvelope(r)' /\ envelopeId'[r] = id => r = p
                    BY <1>1, <1>2, <3>4 DEF HasEnvelope
                <5> QED
                    BY <1>1, <4>2, <5>1, <5>2 DEF InSequence, YearOf, FirstIdOf
            <4>3. CASE q # p
                <5>1. q \in Successful /\ InSequence(q)
                    BY <1>2, <3>5, <4>1, <4>3 DEF IdInv, AcceptedIdsContiguous, InSequence
                <5>2. envelopeId[q] # id
                    BY <3>4, <4>1, <5>1
                <5>3. \A r \in Successful' :
                        HasEnvelope(r)' /\ envelopeId'[r] = envelopeId[q] => r = q
                    BY <1>1, <1>2, <5>1, <5>2 DEF InSequence, HasEnvelope
                <5> QED
                    BY <1>1, <3>3, <5>1, <5>3 DEF InSequence, YearOf, FirstIdOf
            <4> QED
                BY <4>2, <4>3
        <3> QED
            BY <3>5 DEF AcceptedIdsContiguous, InSequence
    <2> QED
        BY <2>1, <2>2
<1> QED
    BY <1>4, <1>6, <1>7, <1>8 DEF IdInv

(* Every request, task and command keeps the numbering. *)
LEMMA IdStep ==
    ASSUME TypeOK, QueueOrder, AtMostOneProcessing, EnvelopeInv, IdInv, [Next]_vars
    PROVE  IdInv'
<1> USE DEF queueVars, envelopeVars
<1>0. /\ processingState \in [Pwb -> ProcessingStates \cup {NoRow}]
      /\ envelopeId \in [Pwb -> Nat]
      /\ envelopeState \in [Pwb -> EnvelopeStates]
      /\ year \in Nat
    BY DEF TypeOK
<1>1. ASSUME Successful' = Successful, AllQueued' \subseteq AllQueued, UNCHANGED year,
             \A p \in AllQueued' : \/ envelopeState'[p] = "none"
                                   \/ /\ envelopeState'[p] = envelopeState[p]
                                      /\ envelopeId'[p] = envelopeId[p]
      PROVE  IdInv'
    <2>1. \A p \in WithEnvelope(AllQueued)' :
            p \in WithEnvelope(AllQueued) /\ envelopeId'[p] = envelopeId[p]
        BY <1>1 DEF WithEnvelope, HasEnvelope
    <2> QED
        BY <1>0, <1>1, <2>1, IdsStay
<1>2. ASSUME UNCHANGED <<processingState, envelopeVars>>, year' \in Nat, year <= year'
      PROVE  IdInv'
    <2>1. Successful' = Successful /\ AllQueued' = AllQueued
        BY <1>2 DEF Successful, AllQueued, Awaiting, Processing
    <2>2. \A p \in WithEnvelope(AllQueued)' :
            p \in WithEnvelope(AllQueued) /\ envelopeId'[p] = envelopeId[p]
        BY <1>2, <2>1 DEF WithEnvelope, HasEnvelope
    <2> QED
        BY <1>2, <2>1, <2>2, IdsStay
<1>3. ASSUME NEW p \in Pwb, NEW w \in WorkBasket, Create(w, p)
      PROVE  IdInv'
    <2>1. processingState[p] = NoRow /\ UNCHANGED <<envelopeVars, year>>
        BY <1>3 DEF Create
    <2>2. CASE UNCHANGED queueVars
        BY <1>0, <1>2, <2>1, <2>2
    <2>3. CASE JoinQueue(w, p)
        <3>1. processingState' = [processingState EXCEPT ![p] = "AWAITING_PROCESSING"]
            BY <2>3 DEF JoinQueue
        <3>2. Successful' = Successful /\ AllQueued' = AllQueued \cup {p}
            BY <1>0, <2>1, <3>1 DEF Successful, AllQueued, Awaiting, Processing, NoRow
        <3>3. envelopeState[p] = "none"
            BY <2>1 DEF EnvelopeInv, NewRowHasNoEnvelope, HasEnvelope
        <3>4. \A q \in WithEnvelope(AllQueued)' :
                q \in WithEnvelope(AllQueued) /\ envelopeId'[q] = envelopeId[q]
            BY <2>1, <3>2, <3>3 DEF WithEnvelope, HasEnvelope
        <3>5. year' \in Nat /\ year <= year'
            BY <1>0, <2>1
        <3> QED
            BY <3>2, <3>4, <3>5, IdsStay
    <2> QED
        BY <1>3, <2>2, <2>3 DEF Create
<1>4. ASSUME NEW pos, Reorder(pos)
      PROVE  IdInv'
    <2>1. Successful' = Successful /\ AllQueued' = AllQueued /\ UNCHANGED year
        BY <1>4 DEF Reorder, Successful, AllQueued, Awaiting, Processing
    <2>2. CASE UNCHANGED envelopeVars
        BY <1>1, <2>1, <2>2
    <2>3. CASE ReplaceTop(pos)
        <3>1. \A p \in Pwb :
                IF p \in TopAwaiting(position)
                THEN envelopeState'[p] = "none"
                ELSE /\ envelopeState'[p] = envelopeState[p]
                     /\ envelopeId'[p] = envelopeId[p]
            BY <2>3 DEF ReplaceTop
        <3>2. AllQueued' \subseteq Pwb
            BY DEF AllQueued, Awaiting, Processing
        <3> QED
            BY <1>1, <2>1, <3>1, <3>2
    <2> QED
        BY <1>4, <2>2, <2>3 DEF Reorder, CreateEnvelopeOnNewTop
<1>5. ASSUME NEW p \in Pwb, Abandon(p)
      PROVE  IdInv'
    <2>1. /\ processingState[p] = "AWAITING_PROCESSING"
          /\ processingState' = [processingState EXCEPT ![p] = "ABANDONED"]
          /\ UNCHANGED <<envelopeId, year>>
          /\ \/ UNCHANGED envelopeState
             \/ \E state : envelopeState' = [envelopeState EXCEPT ![p] = state]
        BY <1>5 DEF Abandon
    <2>2. /\ Successful' = Successful /\ AllQueued' = AllQueued \ {p}
          /\ AllQueued \subseteq Pwb
        BY <1>0, <2>1 DEF Successful, AllQueued, Awaiting, Processing
    <2>3. \A q \in Pwb \ {p} : envelopeState'[q] = envelopeState[q]
        BY <1>0, <2>1
    <2> QED
        BY <1>1, <2>1, <2>2, <2>3
<1>6. ASSUME NEW p \in Pwb, BeginProcessing(p)
      PROVE  IdInv'
    <2>1. /\ processingState[p] = "AWAITING_PROCESSING"
          /\ processingState' = [processingState EXCEPT ![p] = "CURRENTLY_PROCESSING"]
          /\ UNCHANGED <<envelopeVars, year>>
        BY <1>6 DEF BeginProcessing
    <2>2. Successful' = Successful /\ AllQueued' = AllQueued
        BY <1>0, <2>1 DEF Successful, AllQueued, Awaiting, Processing
    <2> QED
        BY <1>1, <2>1, <2>2
<1>7. ASSUME NEW p \in Pwb, ProcessingFailed(p)
      PROVE  IdInv'
    <2>1. /\ processingState[p] = "CURRENTLY_PROCESSING"
          /\ processingState' = [processingState EXCEPT ![p] = "FAILED_PROCESSING"]
          /\ UNCHANGED <<envelopeVars, year>>
        BY <1>7 DEF ProcessingFailed, CompleteProcessing
    <2>2. Successful' = Successful /\ AllQueued' \subseteq AllQueued
        BY <1>0, <2>1 DEF Successful, AllQueued, Awaiting, Processing
    <2> QED
        BY <1>1, <2>1, <2>2
<1>8. CASE ResetPositions
    <2>1. /\ UNCHANGED <<processingState, year>>
          /\ \A p \in Pwb : /\ envelopeState'[p] = IF p \in Awaiting THEN "none"
                                                                     ELSE envelopeState[p]
                            /\ p \notin Awaiting => envelopeId'[p] = envelopeId[p]
        BY <1>8 DEF ResetPositions
    <2>2. /\ Successful' = Successful /\ AllQueued' = AllQueued
          /\ AllQueued \subseteq Pwb
        BY <2>1 DEF Successful, AllQueued, Awaiting, Processing
    <2> QED
        BY <1>1, <2>1, <2>2
<1>9. CASE NewYear
    BY <1>0, <1>2, <1>9 DEF NewYear
<1>10. CASE \/ \E w \in WorkBasket : Restore(w)
            \/ PauseQueue \/ UnpauseQueue \/ CreateEnvelopeForTop
            \/ \E p \in Pwb : ShowEnvelopeQueue(p) \/ RefuseEnvelope(p) \/ LoseTask(p)
            \/ UNCHANGED vars
    <2>1. UNCHANGED <<processingState, envelopeVars, year>>
        BY <1>10 DEF Restore, PauseQueue, UnpauseQueue, CreateEnvelopeForTop,
                     ShowEnvelopeQueue, RefuseEnvelope, LoseTask, vars
    <2> QED
        BY <1>0, <1>2, <2>1
<1>11. ASSUME NEW p \in Pwb, PromotePosition(p) \/ DemotePosition(p) \/ PromoteToTopPosition(p)
       PROVE  IdInv'
    BY <1>4, <1>11 DEF PromotePosition, DemotePosition, PromoteToTopPosition
<1>12. ASSUME NEW p \in Pwb, NEW verdict \in {"valid", "invalid"},
              CreateXmlEnvelopeFile(p, verdict)
       PROVE  IdInv'
    BY <1>12, IdsCreate
<1>13. ASSUME NEW p \in Pwb, ProcessingSucceeded(p)
       PROVE  IdInv'
    BY <1>13, IdsAccept
<1> QED
    BY <1>3, <1>5, <1>6, <1>7, <1>8, <1>9, <1>10, <1>11, <1>12, <1>13
    DEF Next, Manager, Consumer, Worker, RunTask, Operator

(* In every reachable state the numbering is right, whatever was rejected, *)
(* withdrawn or reordered, and over the turn of a year.                    *)
LEMMA IdInvariant == Spec => []IdInv
<1>1. ASSUME Init PROVE IdInv
    <2>1. AllQueued = {} /\ Successful = {}
        BY <1>1 DEF Init, AllQueued, Awaiting, Processing, Successful, NoRow
    <2>2. FirstYear <= year
        BY <1>1, YearAssumption DEF Init
    <2> QED
        BY <2>1, <2>2 DEF IdInv, WithEnvelope, AcceptedIdsContiguous
<1> QED
    BY <1>1, IdStep, TypeCorrect, QueueAlwaysInOrder, NeverTwoProcessing, EnvelopeInvariant,
       PTL DEF Spec

(* The ID on the envelope that is waiting for HMRC, or in HMRC's hands, is *)
(* still the next one in this year's sequence.                             *)
THEOREM PendingIdAlwaysNext == Spec => []PendingIdIsNext
<1>1. IdInv => PendingIdIsNext
    BY DEF IdInv, PendingIdIsNext, WithEnvelope, IsNextId, YearOf
<1> QED
    BY <1>1, IdInvariant, PTL

(* CDS's contiguous numbering: the accepted IDs of a year start at its     *)
(* first ID, have no gap and no duplicate.                                 *)
THEOREM AcceptedIdsAlwaysContiguous == Spec => []AcceptedIdsContiguous
<1>1. IdInv => AcceptedIdsContiguous
    BY DEF IdInv
<1> QED
    BY <1>1, IdInvariant, PTL

-----------------------------------------------------------------------------
(* The refinement: every request, task and command is a promised step, or  *)
(* changes nothing that was promised. Reading a queue off a position       *)
(* column.                                                                 *)

(* pos is a position column of the finitely many Rows, of which those in Q *)
(* stand in the queue.                                                     *)
QueueOn(Rows, pos, Q) ==
    /\ IsFiniteSet(Rows)
    /\ pos \in [Rows -> Nat]
    /\ Q \in SUBSET Rows
    /\ IsQueueOrder(pos, Q)

(* The sequence s has each row's workbasket at the row's position. *)
Reads(s, pos, Q, wb) ==
    /\ s = [n \in 1..Cardinality(Q) |-> s[n]]
    /\ \A p \in Q : s[pos[p]] = wb[p]

(* A queue read off a column has as many places as rows. *)
LEMMA PositionsAreRanks ==
    ASSUME NEW Rows, NEW pos, NEW Q, QueueOn(Rows, pos, Q)
    PROVE  /\ Cardinality(Q) \in Nat
           /\ \A p \in Q : pos[p] \in 1..Cardinality(Q)
           /\ \A n \in 1..Cardinality(Q) : \E p \in Q : pos[p] = n
BY PositionsFillRange DEF QueueOn

(* The queue read off a column has each row's workbasket at its position.  *)
LEMMA ReadAtPosition ==
    ASSUME NEW Rows, NEW pos, NEW Q, QueueOn(Rows, pos, Q), NEW wb
    PROVE  Reads(QueueRead(pos, Q, wb), pos, Q, wb)
<1> DEFINE N == Cardinality(Q)
           at(n) == CHOOSE p \in Q : pos[p] = n
<1>1. N \in Nat /\ \A p \in Q : pos[p] \in 1..N
    BY PositionsAreRanks
<1>2. \A p \in Q : at(pos[p]) = p
    BY DEF IsQueueOrder, QueueOn
<1>3. QueueRead(pos, Q, wb) = [n \in 1..N |-> wb[at(n)]]
    BY DEF QueueRead
<1> HIDE DEF N, at
<1>4. \A p \in Q : [n \in 1..N |-> wb[at(n)]][pos[p]] = wb[p]
    BY <1>1, <1>2
<1> QED
    BY <1>3, <1>4 DEF Reads, N

(* ... and is a sequence of workbaskets, one for each row. *)
LEMMA ReadIsSequence ==
    ASSUME NEW Rows, NEW pos, NEW Q, QueueOn(Rows, pos, Q),
           NEW S, NEW wb \in [Rows -> S]
    PROVE  QueueRead(pos, Q, wb) \in Seq(S) /\ Len(QueueRead(pos, Q, wb)) = Cardinality(Q)
<1> DEFINE N == Cardinality(Q)
           at(n) == CHOOSE p \in Q : pos[p] = n
<1>1. N \in Nat /\ \A n \in 1..N : \E p \in Q : pos[p] = n
    BY PositionsAreRanks
<1>2. \A n \in 1..N : at(n) \in Rows
    BY <1>1 DEF QueueOn
<1>3. QueueRead(pos, Q, wb) = [n \in 1..N |-> wb[at(n)]]
    BY DEF QueueRead
<1> HIDE DEF N, at
<1>4. QueueRead(pos, Q, wb) \in [1..N -> S]
    BY <1>2, <1>3
<1> QED
    BY <1>1, <1>4 DEF N

(* No other sequence does. *)
LEMMA OnlyOneReading ==
    ASSUME NEW Rows, NEW pos, NEW Q, QueueOn(Rows, pos, Q), NEW wb,
           NEW s, Reads(s, pos, Q, wb)
    PROVE  QueueRead(pos, Q, wb) = s
<1> DEFINE r == QueueRead(pos, Q, wb)
<1>1. /\ r = [n \in 1..Cardinality(Q) |-> r[n]]
      /\ s = [n \in 1..Cardinality(Q) |-> s[n]]
      /\ \A p \in Q : r[pos[p]] = s[pos[p]]
    BY ReadAtPosition DEF Reads
<1>2. \A n \in 1..Cardinality(Q) : \E p \in Q : pos[p] = n
    BY PositionsAreRanks
<1> HIDE DEF r
<1>3. \A n \in 1..Cardinality(Q) : r[n] = s[n]
    BY <1>1, <1>2
<1>4. r = s
    BY <1>1, <1>3
<1> QED
    BY <1>4 DEF r

-----------------------------------------------------------------------------
(* The sequence operators of ProcessingQueue, element by element.          *)

(* Without its i-th element, what was behind it moves up. *)
LEMMA RemoveAtElements ==
    ASSUME NEW S, NEW s \in Seq(S), NEW i \in 1..Len(s)
    PROVE  /\ RemoveAt(s, i) \in Seq(S)
           /\ Len(RemoveAt(s, i)) = Len(s) - 1
           /\ \A k \in 1..(Len(s) - 1) :
                RemoveAt(s, i)[k] = IF k < i THEN s[k] ELSE s[k + 1]
<1> DEFINE front == SubSeq(s, 1, i - 1)
           back == SubSeq(s, i + 1, Len(s))
<1>1. Len(s) \in Nat /\ i \in Int /\ 1 <= i /\ i <= Len(s) /\ \A k \in 1..Len(s) : s[k] \in S
    OBVIOUS
<1>2. /\ front \in Seq(S) /\ Len(front) = i - 1
      /\ \A k \in 1..(i - 1) : front[k] = s[k]
    <2>1. \A k \in 1..(i - 1) : s[k] \in S
        BY <1>1
    <2> QED
        BY <1>1, <2>1, SubSeqProperties
<1>3. /\ back \in Seq(S) /\ Len(back) = Len(s) - i
      /\ \A k \in 1..(Len(s) - i) : back[k] = s[i + k]
    <2>1. \A k \in (i + 1)..Len(s) : s[k] \in S
        BY <1>1
    <2> QED
        BY <1>1, <2>1, SubSeqProperties
<1> HIDE DEF front, back
<1>4. /\ front \o back \in Seq(S) /\ Len(front \o back) = Len(front) + Len(back)
      /\ \A k \in 1..(Len(front) + Len(back)) :
            (front \o back)[k] = IF k <= Len(front) THEN front[k] ELSE back[k - Len(front)]
    BY <1>2, <1>3, ConcatProperties
<1>5. Len(front \o back) = Len(s) - 1
    BY <1>1, <1>2, <1>3, <1>4
<1>6. ASSUME NEW k \in 1..(Len(s) - 1)
      PROVE  (front \o back)[k] = IF k < i THEN s[k] ELSE s[k + 1]
    <2>1. /\ k \in Int /\ 1 <= k /\ k <= Len(s) - 1
          /\ k \in 1..(Len(front) + Len(back))
        BY <1>1, <1>2, <1>3
    <2>2. CASE k < i
        <3>1. k \in 1..(i - 1) /\ k <= Len(front)
            BY <1>1, <1>2, <2>1, <2>2
        <3> QED
            BY <1>2, <1>4, <2>1, <2>2, <3>1
    <2>3. CASE i <= k
        <3>1. /\ ~(k <= Len(front)) /\ k - Len(front) \in 1..(Len(s) - i)
              /\ i + (k - Len(front)) = k + 1 /\ ~(k < i)
            BY <1>1, <1>2, <2>1, <2>3
        <3> QED
            BY <1>3, <1>4, <2>1, <3>1
    <2> QED
        BY <1>1, <2>1, <2>2, <2>3
<1> QED
    BY <1>4, <1>5, <1>6 DEF RemoveAt, front, back

(* With e put in at n, what stood there and behind it moves down. *)
LEMMA InsertAtElements ==
    ASSUME NEW S, NEW s \in Seq(S), NEW n \in 1..(Len(s) + 1), NEW e \in S
    PROVE  /\ InsertAt(s, n, e) \in Seq(S)
           /\ Len(InsertAt(s, n, e)) = Len(s) + 1
           /\ \A k \in 1..(Len(s) + 1) :
                InsertAt(s, n, e)[k] = IF k < n THEN s[k] ELSE IF k = n THEN e ELSE s[k - 1]
<1> DEFINE front == SubSeq(s, 1, n - 1)
           back == SubSeq(s, n, Len(s))
<1>1. /\ Len(s) \in Nat /\ n \in Int /\ 1 <= n /\ n <= Len(s) + 1
      /\ \A k \in 1..Len(s) : s[k] \in S
    OBVIOUS
<1>2. /\ front \in Seq(S) /\ Len(front) = n - 1
      /\ \A k \in 1..(n - 1) : front[k] = s[k]
    <2>1. \A k \in 1..(n - 1) : s[k] \in S
        BY <1>1
    <2> QED
        BY <1>1, <2>1, SubSeqProperties
<1>3. /\ back \in Seq(S) /\ Len(back) = Len(s) - n + 1
      /\ \A k \in 1..(Len(s) - n + 1) : back[k] = s[n + k - 1]
    <2>1. \A k \in n..Len(s) : s[k] \in S
        BY <1>1
    <2> QED
        BY <1>1, <2>1, SubSeqProperties
<1> HIDE DEF front, back
<1>4. /\ front \o <<e>> \in Seq(S) /\ Len(front \o <<e>>) = n
      /\ \A k \in 1..n : (front \o <<e>>)[k] = IF k <= n - 1 THEN front[k] ELSE e
    BY <1>1, <1>2, ConcatProperties
<1> DEFINE head == front \o <<e>>
<1> HIDE DEF head
<1>5. /\ head \in Seq(S) /\ Len(head) = n
      /\ \A k \in 1..n : head[k] = IF k <= n - 1 THEN front[k] ELSE e
    BY <1>4 DEF head
<1>6. /\ head \o back \in Seq(S) /\ Len(head \o back) = Len(s) + 1
      /\ \A k \in 1..(Len(s) + 1) :
            (head \o back)[k] = IF k <= n THEN head[k] ELSE back[k - n]
    BY <1>1, <1>3, <1>5, ConcatProperties
<1>7. \A k \in 1..(Len(s) + 1) :
        (head \o back)[k] = IF k < n THEN s[k] ELSE IF k = n THEN e ELSE s[k - 1]
    BY <1>1, <1>2, <1>3, <1>5, <1>6
<1> QED
    BY <1>6, <1>7 DEF InsertAt, head, front, back

MovedTo(s, i, n) == InsertAt(RemoveAt(s, i), n, s[i])

(* The element at i moved to n: those between the two places shift by one. *)
LEMMA MovedElements ==
    ASSUME NEW S, NEW s \in Seq(S), NEW i \in 1..Len(s), NEW n \in 1..Len(s)
    PROVE  /\ MovedTo(s, i, n) \in Seq(S)
           /\ Len(MovedTo(s, i, n)) = Len(s)
           /\ \A k \in 1..Len(s) :
                MovedTo(s, i, n)[k] =
                    IF k = n THEN s[i]
                    ELSE IF i <= k /\ k < n THEN s[k + 1]
                    ELSE IF n < k /\ k <= i THEN s[k - 1]
                    ELSE s[k]
<1> DEFINE r == RemoveAt(s, i)
           moved == InsertAt(r, n, s[i])
<1>1. Len(s) \in Nat /\ s[i] \in S /\ i \in Int /\ n \in Int
    OBVIOUS
<1>2. /\ r \in Seq(S) /\ Len(r) = Len(s) - 1
      /\ \A k \in 1..(Len(s) - 1) : r[k] = IF k < i THEN s[k] ELSE s[k + 1]
    BY RemoveAtElements
<1> HIDE DEF r
<1>3. n \in 1..(Len(r) + 1) /\ Len(r) + 1 = Len(s)
    BY <1>1, <1>2
<1> HIDE DEF moved
<1>4. /\ moved \in Seq(S) /\ Len(moved) = Len(s)
      /\ \A k \in 1..Len(s) :
            moved[k] = IF k < n THEN r[k] ELSE IF k = n THEN s[i] ELSE r[k - 1]
    <2>1. /\ moved \in Seq(S) /\ Len(moved) = Len(r) + 1
          /\ \A k \in 1..(Len(r) + 1) :
                moved[k] = IF k < n THEN r[k] ELSE IF k = n THEN s[i] ELSE r[k - 1]
        <3>1. r \in Seq(S) /\ s[i] \in S
            BY <1>1, <1>2
        <3>2. \A e \in S :
                /\ InsertAt(r, n, e) \in Seq(S) /\ Len(InsertAt(r, n, e)) = Len(r) + 1
                /\ \A k \in 1..(Len(r) + 1) :
                    InsertAt(r, n, e)[k] =
                        IF k < n THEN r[k] ELSE IF k = n THEN e ELSE r[k - 1]
            BY <1>3, <3>1, InsertAtElements
        <3> QED
            BY <3>1, <3>2 DEF moved
    <2> QED
        BY <1>3, <2>1
<1>5. ASSUME NEW k \in 1..Len(s)
      PROVE  moved[k] = IF k = n THEN s[i]
                        ELSE IF i <= k /\ k < n THEN s[k + 1]
                        ELSE IF n < k /\ k <= i THEN s[k - 1]
                        ELSE s[k]
    <2>1. k \in Int /\ 1 <= k /\ k <= Len(s)
        OBVIOUS
    <2>2. CASE k < n
        <3>1. k \in 1..(Len(s) - 1) /\ moved[k] = r[k]
            BY <1>1, <1>4, <2>1, <2>2
        <3> QED
            BY <1>1, <1>2, <2>1, <2>2, <3>1
    <2>3. CASE k = n
        BY <1>1, <1>4, <2>1, <2>3
    <2>4. CASE n < k
        <3>1. k - 1 \in 1..(Len(s) - 1) /\ moved[k] = r[k - 1] /\ (k - 1) + 1 = k
            BY <1>1, <1>4, <2>1, <2>4
        <3>2. r[k - 1] = IF k - 1 < i THEN s[k - 1] ELSE s[k]
            BY <1>2, <3>1
        <3> QED
            BY <1>1, <2>1, <2>4, <3>1, <3>2
    <2> QED
        BY <1>1, <2>1, <2>2, <2>3, <2>4
<1> QED
    BY <1>4, <1>5 DEF moved, r, MovedTo

-----------------------------------------------------------------------------
(* What the queue operations do to the queue that is read.                 *)

(* Manager.create: the new row is the last. *)
Joined(pos, newPos, wb, newWb, p, w) ==
    \E last : /\ IsMaxPosition(pos, last)
             /\ newPos = [pos EXCEPT ![p] = last + 1]
             /\ newWb = [wb EXCEPT ![p] = w]

Appended(r, new, w) == new = Append(r, w)

(* A workbasket that joins at the last position is read at the end. *)
LEMMA JoinedRead ==
    ASSUME NEW Rows, NEW pos, NEW Q, QueueOn(Rows, pos, Q),
           NEW S, NEW wb \in [Rows -> S], NEW p \in Rows \ Q, NEW w,
           NEW newPos, NEW newWb, Joined(pos, newPos, wb, newWb, p, w)
    PROVE  Appended(QueueRead(pos, Q, wb), QueueRead(newPos, Q \cup {p}, newWb), w)
<1> DEFINE r == QueueRead(pos, Q, wb)
           T == S \cup {w}
<1> PICK last : /\ IsMaxPosition(pos, last)
                /\ newPos = [pos EXCEPT ![p] = last + 1]
                /\ newWb = [wb EXCEPT ![p] = w]
    BY DEF Joined
<1>0. /\ IsFiniteSet(Rows) /\ pos \in [Rows -> Nat]
      /\ Q \in SUBSET Rows /\ IsQueueOrder(pos, Q)
    BY DEF QueueOn
<1>1. QueueOn(Rows, newPos, Q \cup {p})
    <2>1. newPos \in [Rows -> Nat] /\ IsQueueOrder(newPos, Q \cup {p})
        BY <1>0, JoinedOrder
    <2> QED
        BY <1>0, <2>1 DEF QueueOn
<1>2. /\ r \in Seq(T) /\ Len(r) = Cardinality(Q)
      /\ \A q \in Q : r[pos[q]] = wb[q]
    <2>1. wb \in [Rows -> T]
        OBVIOUS
    <2> HIDE DEF T
    <2> QED
        BY <2>1, ReadAtPosition, ReadIsSequence DEF Reads
<1>3. /\ Cardinality(Q) \in Nat
      /\ \A q \in Q : pos[q] \in 1..Cardinality(Q)
      /\ \A n \in 1..Cardinality(Q) : \E q \in Q : pos[q] = n
    BY PositionsAreRanks
<1>4. last = Cardinality(Q)
    <2>1. last \in Nat /\ (\A q \in Rows : pos[q] <= last)
            /\ (last = 0 \/ \E q \in Rows : pos[q] = last)
        BY <1>0 DEF IsMaxPosition
    <2>2. CASE last = 0
        <3>1. \A q \in Q : FALSE
            BY <1>0, <1>3, <2>1, <2>2
        <3> QED
            BY <2>2, <3>1, FS_EmptySet
    <2>3. CASE last # 0
        <3>1. PICK q \in Rows : pos[q] = last
            BY <2>1, <2>3
        <3>2. q \in Q
            BY <1>0, <2>3, <3>1 DEF IsQueueOrder
        <3>3. last <= Cardinality(Q) /\ Cardinality(Q) \in 1..Cardinality(Q)
            BY <1>3, <2>1, <2>3, <3>1, <3>2
        <3>4. PICK z \in Q : pos[z] = Cardinality(Q)
            BY <1>3, <3>3
        <3> QED
            BY <1>0, <1>3, <2>1, <3>3, <3>4
    <2> QED
        BY <2>2, <2>3
<1>5. Cardinality(Q \cup {p}) = Cardinality(Q) + 1
    BY <1>0, FS_Subset, FS_AddElement
<1>6. /\ \A q \in Q : newPos[q] = pos[q] /\ newWb[q] = wb[q]
      /\ newPos[p] = Cardinality(Q) + 1 /\ newWb[p] = w
    BY <1>0, <1>4
<1> HIDE DEF r
<1>7. /\ Append(r, w) \in Seq(T) /\ Len(Append(r, w)) = Cardinality(Q \cup {p})
      /\ \A n \in 1..Len(r) : Append(r, w)[n] = r[n]
      /\ Append(r, w)[Len(r) + 1] = w
    BY <1>2, <1>3, <1>5, AppendProperties
<1>8. \A q \in Q \cup {p} : Append(r, w)[newPos[q]] = newWb[q]
    BY <1>2, <1>3, <1>6, <1>7
<1>9. QueueRead(newPos, Q \cup {p}, newWb) = Append(r, w)
    <2> DEFINE members == Q \cup {p}
               s == Append(r, w)
    <2>1. s \in Seq(T) /\ Len(s) = Cardinality(members) /\ \A q \in members : s[newPos[q]] = newWb[q]
        BY <1>7, <1>8
    <2>2. QueueOn(Rows, newPos, members)
        BY <1>1
    <2> HIDE DEF members, s
    <2>3. Reads(s, newPos, members, newWb)
        BY <2>1 DEF Reads
    <2>4. QueueRead(newPos, members, newWb) = s
        BY <2>2, <2>3, OnlyOneReading
    <2> QED
        BY <2>4 DEF members, s
<1> QED
    BY <1>9 DEF r, Appended

(* remove_from_queue: the row's workbasket is taken out, the others close  *)
(* up.                                                                     *)
LEMMA RemovedRead ==
    ASSUME NEW Rows, NEW pos, NEW Q, QueueOn(Rows, pos, Q),
           NEW S, NEW wb \in [Rows -> S], NEW p \in Q
    PROVE  QueueRead(Removed(pos, p), Q \ {p}, wb) = RemoveAt(QueueRead(pos, Q, wb), pos[p])
<1> DEFINE r == QueueRead(pos, Q, wb)
           newPos == Removed(pos, p)
<1>0. /\ IsFiniteSet(Rows) /\ pos \in [Rows -> Nat]
      /\ Q \in SUBSET Rows /\ IsQueueOrder(pos, Q)
    BY DEF QueueOn
<1>1. QueueOn(Rows, newPos, Q \ {p})
    <2>1. newPos \in [Rows -> Nat] /\ IsQueueOrder(newPos, Q \ {p})
        BY <1>0, RemovedOrder
    <2> QED
        BY <1>0, <2>1 DEF QueueOn
<1>2. /\ r \in Seq(S) /\ Len(r) = Cardinality(Q)
      /\ \A q \in Q : r[pos[q]] = wb[q]
    BY ReadAtPosition, ReadIsSequence DEF Reads
<1>3. Cardinality(Q) \in Nat /\ \A q \in Q : pos[q] \in 1..Cardinality(Q)
    BY PositionsAreRanks
<1>4. Cardinality(Q \ {p}) = Cardinality(Q) - 1
    BY <1>0, FS_Subset, FS_RemoveElement
<1>5. \A q \in Q \ {p} : /\ pos[q] # pos[p]
                         /\ newPos[q] = IF pos[q] > pos[p] THEN pos[q] - 1 ELSE pos[q]
    BY <1>0 DEF Removed, CloseGap, IsQueueOrder
<1> HIDE DEF r, newPos
<1>6. /\ RemoveAt(r, pos[p]) \in Seq(S) /\ Len(RemoveAt(r, pos[p])) = Cardinality(Q) - 1
      /\ \A k \in 1..(Cardinality(Q) - 1) :
            RemoveAt(r, pos[p])[k] = IF k < pos[p] THEN r[k] ELSE r[k + 1]
    <2>1. r \in Seq(S) /\ pos[p] \in 1..Len(r)
        BY <1>2, <1>3
    <2> QED
        BY <1>2, <2>1, RemoveAtElements
<1>7. ASSUME NEW q \in Q \ {p}
      PROVE  RemoveAt(r, pos[p])[newPos[q]] = wb[q]
    <2>1. /\ pos[q] \in Nat /\ pos[p] \in Nat /\ pos[q] # pos[p]
          /\ 1 <= pos[q] /\ pos[q] <= Cardinality(Q)
          /\ 1 <= pos[p] /\ pos[p] <= Cardinality(Q)
        BY <1>3, <1>5
    <2>2. CASE pos[q] > pos[p]
        <3>1. /\ newPos[q] = pos[q] - 1 /\ pos[q] - 1 \in 1..(Cardinality(Q) - 1)
              /\ ~(pos[q] - 1 < pos[p]) /\ (pos[q] - 1) + 1 = pos[q]
            BY <1>3, <1>5, <2>1, <2>2
        <3> QED
            BY <1>2, <1>6, <3>1
    <2>3. CASE pos[q] < pos[p]
        <3>1. newPos[q] = pos[q] /\ pos[q] \in 1..(Cardinality(Q) - 1)
            BY <1>3, <1>5, <2>1, <2>3
        <3> QED
            BY <1>2, <1>6, <2>3, <3>1
    <2> QED
        BY <2>1, <2>2, <2>3
<1>8. QueueRead(newPos, Q \ {p}, wb) = RemoveAt(r, pos[p])
    <2> DEFINE members == Q \ {p}
               s == RemoveAt(r, pos[p])
    <2>1. s \in Seq(S) /\ Len(s) = Cardinality(members) /\ \A q \in members : s[newPos[q]] = wb[q]
        BY <1>4, <1>6, <1>7
    <2>2. QueueOn(Rows, newPos, members)
        BY <1>1
    <2> HIDE DEF members, s
    <2>3. Reads(s, newPos, members, wb)
        BY <2>1 DEF Reads
    <2>4. QueueRead(newPos, members, wb) = s
        BY <2>2, <2>3, OnlyOneReading
    <2> QED
        BY <2>4 DEF members, s
<1> QED
    BY <1>8 DEF r, newPos

(* pop_top: the head leaves, and it was the row's workbasket. *)
Popped(r, new, w) == r # <<>> /\ Head(r) = w /\ new = Tail(r)

(* One that leaves from the top is no longer read first. *)
LEMMA PoppedRead ==
    ASSUME NEW Rows, NEW pos, NEW Q, QueueOn(Rows, pos, Q),
           NEW S, NEW wb \in [Rows -> S], NEW p \in Q, pos[p] = 1
    PROVE  Popped(QueueRead(pos, Q, wb), QueueRead(PoppedTop(pos, p), Q \ {p}, wb), wb[p])
<1> DEFINE r == QueueRead(pos, Q, wb)
<1>1. r \in Seq(S) /\ Len(r) = Cardinality(Q) /\ r[1] = wb[p]
    BY ReadAtPosition, ReadIsSequence DEF Reads
<1>2. Cardinality(Q) \in Nat /\ 1 \in 1..Cardinality(Q)
    BY PositionsAreRanks
<1>3. PoppedTop(pos, p) = Removed(pos, p)
    BY DEF PoppedTop, Removed
<1>4. QueueRead(PoppedTop(pos, p), Q \ {p}, wb) = RemoveAt(r, 1)
    BY <1>3, RemovedRead
<1> HIDE DEF r
<1>5. r # <<>> /\ Head(r) = wb[p] /\ Len(r) \in Nat \ {0}
    BY <1>1, <1>2
<1>6. RemoveAt(r, 1) = Tail(r)
    <2>1. /\ Tail(r) \in Seq(S) /\ Len(Tail(r)) = Len(r) - 1
          /\ \A k \in 1..(Len(r) - 1) : Tail(r)[k] = r[k + 1]
        BY <1>1, <1>5, HeadTailProperties
    <2>2. /\ RemoveAt(r, 1) \in Seq(S) /\ Len(RemoveAt(r, 1)) = Len(r) - 1
          /\ \A k \in 1..(Len(r) - 1) :
                RemoveAt(r, 1)[k] = IF k < 1 THEN r[k] ELSE r[k + 1]
        BY <1>1, <1>2, RemoveAtElements
    <2>3. \A k \in 1..(Len(r) - 1) : ~(k < 1)
        BY <1>5
    <2> QED
        BY <2>1, <2>2, <2>3, SeqEqual
<1> QED
    BY <1>4, <1>5, <1>6 DEF r, Popped

(* Row p goes to position n, and the rows between shift by one. *)
Shifted(pos, newPos, Q, p, n) ==
    /\ newPos[p] = n
    /\ \A q \in Q \ {p} :
        newPos[q] = IF pos[p] < pos[q] /\ pos[q] <= n THEN pos[q] - 1
                    ELSE IF n <= pos[q] /\ pos[q] < pos[p] THEN pos[q] + 1
                    ELSE pos[q]

(* Then the row's workbasket moves to the n-th place of the queue. *)
LEMMA MovedRead ==
    ASSUME NEW Rows, NEW pos, NEW Q, QueueOn(Rows, pos, Q),
           NEW S, NEW wb \in [Rows -> S],
           NEW p \in Q, NEW n \in 1..Cardinality(Q),
           NEW newPos, QueueOn(Rows, newPos, Q), Shifted(pos, newPos, Q, p, n)
    PROVE  LET r == QueueRead(pos, Q, wb) IN
           /\ pos[p] \in 1..Len(r) /\ n \in 1..Len(r) /\ r[pos[p]] = wb[p]
           /\ QueueRead(newPos, Q, wb) = MovedTo(r, pos[p], n)
<1> DEFINE r == QueueRead(pos, Q, wb)
           i == pos[p]
           N == Cardinality(Q)
           s == MovedTo(r, i, n)
<1>1. /\ r \in Seq(S) /\ Len(r) = N
      /\ \A q \in Q : r[pos[q]] = wb[q]
    <2>1. r \in Seq(S) /\ Len(r) = N
        BY ReadIsSequence
    <2>2. Reads(r, pos, Q, wb)
        BY ReadAtPosition
    <2> QED
        BY <2>1, <2>2 DEF Reads
<1>2. /\ N \in Nat /\ \A q \in Q : pos[q] \in 1..N
    BY PositionsAreRanks
<1>3. \A q \in Q \ {p} : pos[q] # i
    BY DEF IsQueueOrder, QueueOn
<1> HIDE DEF r
<1>4. i \in 1..Len(r) /\ n \in 1..Len(r)
    BY <1>1, <1>2
<1>5. /\ s \in Seq(S) /\ Len(s) = Len(r)
      /\ \A k \in 1..Len(r) :
            s[k] = IF k = n THEN r[i]
                   ELSE IF i <= k /\ k < n THEN r[k + 1]
                   ELSE IF n < k /\ k <= i THEN r[k - 1]
                   ELSE r[k]
    <2>1. r \in Seq(S)
        BY <1>1
    <2> QED
        BY <1>4, <2>1, MovedElements
<1> HIDE DEF s
<1>6. ASSUME NEW q \in Q
      PROVE  s[newPos[q]] = wb[q]
    <2>1. /\ n \in Nat /\ i \in Nat /\ 1 <= n /\ n <= N /\ 1 <= i /\ i <= N
          /\ pos[q] \in Nat /\ 1 <= pos[q] /\ pos[q] <= N
        BY <1>2
    <2>2. r[pos[q]] = wb[q]
        BY <1>1
    <2>3. CASE q = p
        BY <1>1, <1>4, <1>5, <2>3 DEF Shifted
    <2>4. CASE q # p /\ i < pos[q] /\ pos[q] <= n
        <3>1. /\ newPos[q] = pos[q] - 1 /\ pos[q] - 1 \in 1..Len(r)
              /\ pos[q] - 1 # n /\ i <= pos[q] - 1 /\ pos[q] - 1 < n
              /\ (pos[q] - 1) + 1 = pos[q]
            BY <1>1, <1>2, <2>1, <2>4 DEF Shifted
        <3> QED
            BY <1>5, <2>2, <3>1
    <2>5. CASE q # p /\ n <= pos[q] /\ pos[q] < i
        <3>1. /\ newPos[q] = pos[q] + 1 /\ pos[q] + 1 \in 1..Len(r)
              /\ pos[q] + 1 # n /\ ~(pos[q] + 1 < n)
              /\ n < pos[q] + 1 /\ pos[q] + 1 <= i
              /\ (pos[q] + 1) - 1 = pos[q]
            BY <1>1, <1>2, <2>1, <2>5 DEF Shifted
        <3> QED
            BY <1>5, <2>2, <3>1
    <2>6. CASE q # p /\ ~(i < pos[q] /\ pos[q] <= n) /\ ~(n <= pos[q] /\ pos[q] < i)
        <3>1. /\ newPos[q] = pos[q] /\ pos[q] \in 1..Len(r) /\ pos[q] # i
              /\ pos[q] # n /\ ~(i <= pos[q] /\ pos[q] < n)
              /\ ~(n < pos[q] /\ pos[q] <= i)
            BY <1>1, <1>2, <1>3, <2>1, <2>6 DEF Shifted
        <3> QED
            BY <1>5, <2>2, <3>1
    <2> QED
        BY <2>3, <2>4, <2>5, <2>6
<1>7. QueueRead(newPos, Q, wb) = s
    <2>1. Reads(s, newPos, Q, wb)
        BY <1>1, <1>5, <1>6 DEF Reads
    <2> QED
        BY <2>1, OnlyOneReading
<1> QED
    BY <1>1, <1>4, <1>7 DEF r, s

(* What a request to reorder does to the queue that is read: nothing, or   *)
(* one member changes its place.                                           *)
MovesOne(r, new, w) ==
    \E i, n \in 1..Len(r) : r[i] = w /\ new = MovedTo(r, i, n)

(* A change of order moves at most one workbasket, as it is read. *)
LEMMA ReorderedRead ==
    ASSUME NEW Rows, NEW pos, NEW Q, QueueOn(Rows, pos, Q),
           NEW S, NEW wb \in [Rows -> S], NEW p \in Rows,
           NEW newPos, newPos \in {Promoted(pos, p), Demoted(pos, p), PromotedToTop(pos, p)}
    PROVE  \/ newPos = pos
           \/ p \in Q /\ MovesOne(QueueRead(pos, Q, wb), QueueRead(newPos, Q, wb), wb[p])
<1> DEFINE r == QueueRead(pos, Q, wb)
<1>0. /\ IsFiniteSet(Rows) /\ pos \in [Rows -> Nat]
      /\ Q \in SUBSET Rows /\ IsQueueOrder(pos, Q)
    BY DEF QueueOn
<1>1. QueueOn(Rows, newPos, Q)
    <2>1. newPos \in [Rows -> Nat] /\ IsQueueOrder(newPos, Q)
        BY <1>0, PromotedOrder, DemotedOrder, PromotedToTopOrder
    <2> QED
        BY <1>0, <2>1 DEF QueueOn
<1>2. /\ Cardinality(Q) \in Nat
      /\ \A q \in Q : pos[q] \in 1..Cardinality(Q)
      /\ \A n \in 1..Cardinality(Q) : \E q \in Q : pos[q] = n
    BY PositionsAreRanks
<1>3. ASSUME NEW n \in 1..Cardinality(Q), p \in Q, Shifted(pos, newPos, Q, p, n)
      PROVE  MovesOne(r, QueueRead(newPos, Q, wb), wb[p])
    <2>1. /\ pos[p] \in 1..Len(r) /\ n \in 1..Len(r) /\ r[pos[p]] = wb[p]
          /\ QueueRead(newPos, Q, wb) = MovedTo(r, pos[p], n)
        BY <1>1, <1>3, MovedRead
    <2> QED
        BY <2>1 DEF MovesOne
<1>4. \A q \in Q \ {p} : p \in Q => pos[q] # pos[p]
    BY <1>0 DEF IsQueueOrder
<1> HIDE DEF r
<1>5. CASE newPos = Promoted(pos, p) /\ newPos # pos
    <2>1. pos[p] > 1 /\ newPos = SwappedWith(pos, p, pos[p] - 1)
        BY <1>0, <1>5 DEF Promoted
    <2>2. p \in Q
        BY <1>0, <2>1 DEF IsQueueOrder
    <2>3. pos[p] - 1 \in 1..Cardinality(Q) /\ newPos[p] = pos[p] - 1
        BY <1>0, <1>2, <2>1, <2>2 DEF SwappedWith
    <2>4. ASSUME NEW q \in Q \ {p}
          PROVE  newPos[q] = IF pos[p] < pos[q] /\ pos[q] <= pos[p] - 1 THEN pos[q] - 1
                             ELSE IF pos[p] - 1 <= pos[q] /\ pos[q] < pos[p] THEN pos[q] + 1
                             ELSE pos[q]
        <3>1. pos[q] \in Nat /\ pos[p] \in Nat /\ pos[q] # pos[p]
            BY <1>0, <1>4, <2>2
        <3>2. newPos[q] = IF pos[q] = pos[p] - 1 THEN pos[p] ELSE pos[q]
            BY <1>0, <2>1 DEF SwappedWith
        <3> QED
            BY <2>1, <3>1, <3>2
    <2> QED
        <3>1. Shifted(pos, newPos, Q, p, pos[p] - 1)
            BY <2>3, <2>4 DEF Shifted
        <3> QED
            BY <1>3, <2>2, <2>3, <3>1 DEF r
<1>6. CASE newPos = Demoted(pos, p) /\ newPos # pos
    <2>1. /\ pos[p] # 0 /\ newPos = SwappedWith(pos, p, pos[p] + 1)
          /\ ~IsLast(pos, p)
        BY <1>6 DEF Demoted
    <2>2. p \in Q
        BY <1>0, <2>1 DEF IsQueueOrder
    <2>3. PICK z \in Rows : pos[z] > pos[p]
        BY <1>0, <2>1 DEF IsLast
    <2>4. z \in Q
        BY <1>0, <2>1, <2>3 DEF IsQueueOrder
    <2>5. pos[p] + 1 \in 1..Cardinality(Q) /\ newPos[p] = pos[p] + 1
        BY <1>0, <1>2, <2>1, <2>2, <2>3, <2>4 DEF SwappedWith
    <2>6. ASSUME NEW q \in Q \ {p}
          PROVE  newPos[q] = IF pos[p] < pos[q] /\ pos[q] <= pos[p] + 1 THEN pos[q] - 1
                             ELSE IF pos[p] + 1 <= pos[q] /\ pos[q] < pos[p] THEN pos[q] + 1
                             ELSE pos[q]
        <3>1. pos[q] \in Nat /\ pos[p] \in Nat /\ pos[q] # pos[p]
            BY <1>0, <1>4, <2>2
        <3>2. newPos[q] = IF pos[q] = pos[p] + 1 THEN pos[p] ELSE pos[q]
            BY <1>0, <2>1 DEF SwappedWith
        <3> QED
            BY <3>1, <3>2
    <2> QED
        <3>1. Shifted(pos, newPos, Q, p, pos[p] + 1)
            BY <2>5, <2>6 DEF Shifted
        <3> QED
            BY <1>3, <2>2, <2>5, <3>1 DEF r
<1>7. CASE newPos = PromotedToTop(pos, p) /\ newPos # pos
    <2>1. pos[p] > 1
        BY <1>0, <1>7 DEF PromotedToTop
    <2>2. p \in Q
        BY <1>0, <2>1 DEF IsQueueOrder
    <2>3. 1 \in 1..Cardinality(Q) /\ newPos[p] = 1
        BY <1>0, <1>2, <1>7, <2>1, <2>2 DEF PromotedToTop
    <2>4. ASSUME NEW q \in Q \ {p}
          PROVE  newPos[q] = IF pos[p] < pos[q] /\ pos[q] <= 1 THEN pos[q] - 1
                             ELSE IF 1 <= pos[q] /\ pos[q] < pos[p] THEN pos[q] + 1
                             ELSE pos[q]
        <3>1. pos[q] \in Nat /\ pos[p] \in Nat
            BY <1>0, <2>2
        <3>2. newPos[q] = IF pos[q] >= 1 /\ pos[q] < pos[p] THEN pos[q] + 1 ELSE pos[q]
            BY <1>0, <1>7, <2>1 DEF PromotedToTop
        <3> QED
            BY <2>1, <3>1, <3>2
    <2> QED
        <3>1. Shifted(pos, newPos, Q, p, 1)
            BY <2>3, <2>4 DEF Shifted
        <3> QED
            BY <1>3, <2>2, <2>3, <3>1 DEF r
<1> QED
    BY <1>5, <1>6, <1>7 DEF r, MovesOne

-----------------------------------------------------------------------------
(* The refinement.                                                         *)

(* What the rows say of the promised queue, its published and errored      *)
(* workbaskets.                                                            *)
QueueNow == QueueRead(position, Awaiting, workbasketOf)
Published == {w \in WorkBasket : status[w] = "PUBLISHED"}
Errored == {w \in WorkBasket : status[w] = "ERRORED"}

(* The awaiting rows are a queue on the position column. *)
LEMMA RowsAreQueue ==
    ASSUME TypeOK, QueueOrder
    PROVE  /\ QueueOn(Pwb, position, Awaiting)
           /\ workbasketOf \in [Pwb -> WorkBasket \cup {None}]
BY RowAssumption DEF QueueOn, TypeOK, QueueOrder, Awaiting

(* What the operations do to the queue of the rows. *)
LEMMA RowsRead ==
    ASSUME TypeOK, QueueOrder
    PROVE  /\ \A p \in Pwb \ Awaiting, w \in WorkBasket : \A pos, wb :
                Joined(position, pos, workbasketOf, wb, p, w)
                  => Appended(QueueNow, QueueRead(pos, Awaiting \cup {p}, wb), w)
           /\ \A p \in Awaiting :
                QueueRead(Removed(position, p), Awaiting \ {p}, workbasketOf)
                  = RemoveAt(QueueNow, position[p])
           /\ \A p \in Awaiting : position[p] = 1 =>
                Popped(QueueNow,
                       QueueRead(PoppedTop(position, p), Awaiting \ {p}, workbasketOf),
                       workbasketOf[p])
           /\ \A p \in Pwb :
                \A pos \in {Promoted(position, p), Demoted(position, p),
                            PromotedToTop(position, p)} :
                  \/ pos = position
                  \/ /\ p \in Awaiting
                     /\ MovesOne(QueueNow, QueueRead(pos, Awaiting, workbasketOf),
                                 workbasketOf[p])
<1> DEFINE Members == WorkBasket \cup {None}
<1>1. QueueOn(Pwb, position, Awaiting) /\ workbasketOf \in [Pwb -> Members]
    BY RowsAreQueue
<1> HIDE DEF Members
<1>3. ASSUME NEW p \in Pwb \ Awaiting, NEW w \in WorkBasket, NEW pos, NEW wb,
             Joined(position, pos, workbasketOf, wb, p, w)
      PROVE  Appended(QueueNow, QueueRead(pos, Awaiting \cup {p}, wb), w)
    BY <1>1, <1>3, JoinedRead DEF QueueNow
<1>4. ASSUME NEW p \in Awaiting
      PROVE  QueueRead(Removed(position, p), Awaiting \ {p}, workbasketOf)
                = RemoveAt(QueueNow, position[p])
    BY <1>1, RemovedRead DEF QueueNow
<1>5. ASSUME NEW p \in Awaiting, position[p] = 1
      PROVE  Popped(QueueNow,
                    QueueRead(PoppedTop(position, p), Awaiting \ {p}, workbasketOf),
                    workbasketOf[p])
    BY <1>1, <1>5, PoppedRead DEF QueueNow
<1>6. ASSUME NEW p \in Pwb,
             NEW pos \in {Promoted(position, p), Demoted(position, p),
                          PromotedToTop(position, p)}
      PROVE  \/ pos = position
             \/ /\ p \in Awaiting
                /\ MovesOne(QueueNow, QueueRead(pos, Awaiting, workbasketOf),
                            workbasketOf[p])
    BY <1>1, ReorderedRead DEF QueueNow
<1> QED
    BY <1>3, <1>4, <1>5, <1>6

(* Every place of the queue is held by the workbasket of an awaiting row.  *)
LEMMA QueueMembers ==
    ASSUME TypeOK, QueueOrder
    PROVE  /\ Len(QueueNow) = Cardinality(Awaiting) /\ DOMAIN QueueNow = 1..Len(QueueNow)
           /\ \A n \in 1..Len(QueueNow) : \E p \in Awaiting : QueueNow[n] = workbasketOf[p]
           /\ \A p \in Awaiting : /\ position[p] \in 1..Len(QueueNow)
                                  /\ QueueNow[position[p]] = workbasketOf[p]
<1>1. /\ QueueOn(Pwb, position, Awaiting)
      /\ workbasketOf \in [Pwb -> WorkBasket \cup {None}]
    BY RowsAreQueue
<1>2. /\ QueueNow \in Seq(WorkBasket \cup {None}) /\ Len(QueueNow) = Cardinality(Awaiting)
      /\ Reads(QueueNow, position, Awaiting, workbasketOf)
    BY <1>1, ReadAtPosition, ReadIsSequence DEF QueueNow
<1>3. /\ \A p \in Awaiting : position[p] \in 1..Cardinality(Awaiting)
      /\ \A n \in 1..Cardinality(Awaiting) : \E p \in Awaiting : position[p] = n
    BY <1>1, PositionsAreRanks
<1>4. DOMAIN QueueNow = 1..Len(QueueNow)
    BY <1>2
<1>5. \A p \in Awaiting : QueueNow[position[p]] = workbasketOf[p]
    BY <1>2 DEF Reads
<1>6. ASSUME NEW n \in 1..Len(QueueNow)
      PROVE  \E p \in Awaiting : QueueNow[n] = workbasketOf[p]
    <2>1. PICK p \in Awaiting : position[p] = n
        BY <1>2, <1>3
    <2> QED
        BY <1>5, <2>1
<1> QED
    BY <1>2, <1>3, <1>4, <1>5, <1>6

(* The workbasket in hand is that of the row being processed.              *)
LEMMA CurrentIsProcessing ==
    ASSUME AtMostOneProcessing
    PROVE  /\ Processing = {} => CurrentWorkBasket = None
           /\ \A p \in Processing : CurrentWorkBasket = workbasketOf[p]
<1>1. ASSUME NEW p \in Processing
      PROVE  CurrentWorkBasket = workbasketOf[p]
    <2>1. (CHOOSE q \in Processing : TRUE) \in Processing
        BY <1>1
    <2>2. (CHOOSE q \in Processing : TRUE) = p
        BY <2>1 DEF AtMostOneProcessing
    <2> QED
        BY <1>1, <2>2 DEF CurrentWorkBasket
<1> QED
    BY <1>1 DEF CurrentWorkBasket

(* An empty table is an empty queue. *)
LEMMA RefinementInit == Init => Promise!Init
<1> SUFFICES ASSUME Init PROVE Promise!Init
    OBVIOUS
<1>1. Awaiting = {} /\ Processing = {}
    BY DEF Init, Awaiting, Processing, NoRow
<1>2. Cardinality(Awaiting) = 0
    BY <1>1, FS_EmptySet
<1>3. QueueRead(position, Awaiting, workbasketOf) = <<>>
    BY <1>2 DEF QueueRead
<1>4. CurrentWorkBasket = None
    BY <1>1 DEF CurrentWorkBasket
<1> QED
    BY <1>3, <1>4 DEF Init, Promise!Init

(* Every request, task and command is a promised step, or changes nothing  *)
(* that was promised.                                                      *)
LEMMA RefinementStep ==
    ASSUME TypeOK, QueueOrder, AtMostOneProcessing, AtMostOneProcessing', StatusInv,
           [Next]_vars
    PROVE  [Promise!Next]_(Promise!vars)
<1> USE DEF queueVars, envelopeVars
<1>0. /\ status \in [WorkBasket -> Statuses]
      /\ workbasketOf \in [Pwb -> WorkBasket \cup {None}]
      /\ processingState \in [Pwb -> ProcessingStates \cup {NoRow}]
      /\ position \in [Pwb -> Nat]
      /\ Awaiting \in SUBSET Pwb /\ Processing \in SUBSET Pwb
    BY DEF TypeOK, Awaiting, Processing
<1>1. QueueOn(Pwb, position, Awaiting)
    BY RowsAreQueue
<1>2. \A p \in AllQueued : /\ workbasketOf[p] \in WorkBasket
                           /\ status[workbasketOf[p]] = "QUEUED"
    BY OnlyCarrier
<1>3. /\ Processing = {} => CurrentWorkBasket = None
      /\ \A p \in Processing : CurrentWorkBasket = workbasketOf[p]
      /\ Processing' = {} => CurrentWorkBasket' = None
      /\ \A p \in Processing' : CurrentWorkBasket' = workbasketOf'[p]
    <2>1. AtMostOneProcessing => /\ Processing = {} => CurrentWorkBasket = None
                                 /\ \A p \in Processing : CurrentWorkBasket = workbasketOf[p]
        BY CurrentIsProcessing
    <2>2. (AtMostOneProcessing => /\ Processing = {} => CurrentWorkBasket = None
                                  /\ \A p \in Processing :
                                        CurrentWorkBasket = workbasketOf[p])'
        BY CurrentIsProcessing, PTL
    <2> QED
        BY <2>1, <2>2
<1>4. ASSUME UNCHANGED <<QueueNow, CurrentWorkBasket, Published, Errored>>
      PROVE  [Promise!Next]_(Promise!vars)
    BY <1>4 DEF Promise!vars, QueueNow, Published, Errored
<1>5. ASSUME UNCHANGED <<position, workbasketOf, processingState>>
      PROVE  UNCHANGED <<QueueNow, CurrentWorkBasket>>
    BY <1>5 DEF QueueNow, QueueRead, CurrentWorkBasket, Awaiting, Processing
<1>6. ASSUME NEW p \in Pwb, NEW w \in WorkBasket, Create(w, p)
      PROVE  Promise!Submit(w)
    <2>1. /\ status[w] = "EDITING" /\ processingState[p] = NoRow
          /\ status' = [status EXCEPT ![w] = "QUEUED"]
        BY <1>6 DEF Create
    <2>2. \A q \in AllQueued : workbasketOf[q] # w
        BY <1>2, <2>1
    <2>3. PICK last : /\ IsMaxPosition(position, last)
                      /\ workbasketOf' = [workbasketOf EXCEPT ![p] = w]
                      /\ position' = [position EXCEPT ![p] = last + 1]
                      /\ processingState' = [processingState EXCEPT ![p] = "AWAITING_PROCESSING"]
        BY <1>6, <2>2 DEF Create, JoinQueue
    <2>4. /\ Awaiting' = Awaiting \cup {p} /\ Processing' = Processing
          /\ p \in Pwb \ Awaiting /\ p \notin Processing
        BY <1>0, <2>1, <2>3 DEF Awaiting, Processing, NoRow
    <2>0. p \in Pwb \ Awaiting
        BY <2>4
    <2>5. QueueNow' = Append(QueueNow, w)
        <3>1. Joined(position, position', workbasketOf, workbasketOf', p, w)
            BY <2>3 DEF Joined
        <3>2. Appended(QueueNow, QueueRead(position', Awaiting \cup {p}, workbasketOf'), w)
            BY <2>0, <3>1, RowsRead
        <3> QED
            BY <2>4, <3>2 DEF QueueNow, Appended
    <2>6. CurrentWorkBasket' = CurrentWorkBasket
        <3>1. \A q \in Processing : workbasketOf'[q] = workbasketOf[q]
            BY <1>0, <2>3, <2>4
        <3> QED
            BY <1>3, <2>4, <3>1
    <2>7. Published' = Published /\ Errored' = Errored
        BY <1>0, <2>1 DEF Published, Errored
    <2>8. w \notin ToSet(QueueNow)
        <3>1. \A n \in DOMAIN QueueNow : \E q \in Awaiting : QueueNow[n] = workbasketOf[q]
            BY QueueMembers
        <3> QED
            BY <2>2, <3>1 DEF ToSet, AllQueued
    <2>9. w \notin Published /\ w \notin Errored
        BY <2>1 DEF Published, Errored
    <2>10. w # CurrentWorkBasket
        BY <1>3, <2>2, RowAssumption DEF AllQueued
    <2> QED
        BY <2>5, <2>6, <2>7, <2>8, <2>9, <2>10
        DEF Promise!Submit, Promise!ToSet, ToSet, QueueNow, Published, Errored
<1>7. ASSUME NEW p \in Pwb, NEW pos,
             pos \in {Promoted(position, p), Demoted(position, p), PromotedToTop(position, p)},
             Reorder(pos)
      PROVE  [Promise!Next]_(Promise!vars)
    <2>1. position' = pos /\ UNCHANGED <<status, workbasketOf, processingState>>
        BY <1>7 DEF Reorder
    <2>2. Awaiting' = Awaiting /\ Processing' = Processing
        BY <2>1 DEF Awaiting, Processing
    <2>3. CurrentWorkBasket' = CurrentWorkBasket /\ Published' = Published /\ Errored' = Errored
        BY <2>1, <2>2 DEF CurrentWorkBasket, Published, Errored
    <2>4. CASE pos = position
        BY <1>4, <1>5, <2>1, <2>3, <2>4
    <2>5. CASE /\ p \in Awaiting
               /\ MovesOne(QueueNow, QueueRead(pos, Awaiting, workbasketOf), workbasketOf[p])
        <3>1. QueueNow' = QueueRead(pos, Awaiting, workbasketOf)
            BY <2>1, <2>2 DEF QueueNow
        <3>2. PICK i, n \in 1..Len(QueueNow) :
                /\ QueueNow[i] = workbasketOf[p]
                /\ QueueNow' = MovedTo(QueueNow, i, n)
            BY <2>5, <3>1 DEF MovesOne
        <3>3. Promise!Move(workbasketOf[p])
            BY <2>3, <3>2
            DEF Promise!Move, Promise!InsertAt, Promise!RemoveAt, MovedTo, InsertAt, RemoveAt,
                QueueNow, Published, Errored
        <3>4. workbasketOf[p] \in WorkBasket
            BY <1>2, <2>5 DEF AllQueued
        <3> QED
            BY <3>3, <3>4 DEF Promise!Next
    <2> QED
        BY <1>7, <2>4, <2>5, RowsRead
<1>8. ASSUME NEW p \in Pwb, Abandon(p)
      PROVE  [Promise!Next]_(Promise!vars)
    <2>1. /\ processingState[p] = "AWAITING_PROCESSING"
          /\ position' = Removed(position, p)
          /\ processingState' = [processingState EXCEPT ![p] = "ABANDONED"]
          /\ status' = [status EXCEPT ![workbasketOf[p]] = "EDITING"]
          /\ UNCHANGED workbasketOf
        BY <1>8 DEF Abandon
    <2>2. /\ Awaiting' = Awaiting \ {p} /\ Processing' = Processing
          /\ p \in Awaiting
        BY <1>0, <2>1 DEF Awaiting, Processing
    <2>3. workbasketOf[p] \in WorkBasket /\ status[workbasketOf[p]] = "QUEUED"
        BY <1>2, <2>2 DEF AllQueued
    <2>4. CurrentWorkBasket' = CurrentWorkBasket
        BY <2>1, <2>2 DEF CurrentWorkBasket
    <2>5. Published' = Published /\ Errored' = Errored
        BY <1>0, <2>1, <2>3 DEF Published, Errored
    <2>6. QueueNow' = RemoveAt(QueueNow, position[p])
        <3>1. QueueRead(Removed(position, p), Awaiting \ {p}, workbasketOf)
                = RemoveAt(QueueNow, position[p])
            BY <2>2, RowsRead
        <3> QED
            BY <2>1, <2>2, <3>1 DEF QueueNow
    <2>7. position[p] \in 1..Len(QueueNow) /\ QueueNow[position[p]] = workbasketOf[p]
        BY <2>2, QueueMembers
    <2>8. Promise!Withdraw(workbasketOf[p])
        BY <2>4, <2>5, <2>6, <2>7
        DEF Promise!Withdraw, Promise!RemoveAt, RemoveAt, QueueNow, Published, Errored
    <2> QED
        BY <2>3, <2>8 DEF Promise!Next
<1>9. ASSUME NEW p \in Pwb, BeginProcessing(p)
      PROVE  Promise!Start
    <2>1. /\ processingState[p] = "AWAITING_PROCESSING" /\ position[p] = 1 /\ Processing = {}
          /\ position' = PoppedTop(position, p)
          /\ processingState' = [processingState EXCEPT ![p] = "CURRENTLY_PROCESSING"]
          /\ UNCHANGED <<status, workbasketOf>>
        BY <1>9 DEF BeginProcessing
    <2>2. Awaiting' = Awaiting \ {p} /\ p \in Awaiting /\ p \in Processing'
        BY <1>0, <2>1 DEF Awaiting, Processing
    <2>3. /\ QueueNow # <<>> /\ Head(QueueNow) = workbasketOf[p]
          /\ QueueRead(PoppedTop(position, p), Awaiting \ {p}, workbasketOf) = Tail(QueueNow)
        BY <2>1, <2>2, RowsRead DEF Popped
    <2>4. QueueNow' = Tail(QueueNow)
        BY <2>1, <2>2, <2>3 DEF QueueNow
    <2>5. CurrentWorkBasket = None /\ CurrentWorkBasket' = workbasketOf[p]
        BY <1>3, <2>1, <2>2
    <2>6. Published' = Published /\ Errored' = Errored
        BY <2>1 DEF Published, Errored
    <2> QED
        BY <2>3, <2>4, <2>5, <2>6 DEF Promise!Start, QueueNow, Published, Errored
<1>10. ASSUME NEW p \in Pwb, NEW state \in {"SUCCESSFULLY_PROCESSED", "FAILED_PROCESSING"},
              NEW wbStatus, CompleteProcessing(p, state, wbStatus)
       PROVE  /\ QueueNow' = QueueNow
              /\ CurrentWorkBasket = workbasketOf[p] /\ workbasketOf[p] \in WorkBasket
              /\ CurrentWorkBasket # None /\ CurrentWorkBasket' = None
              /\ status[workbasketOf[p]] = "QUEUED"
              /\ status' = [status EXCEPT ![workbasketOf[p]] = wbStatus]
    <2>1. /\ processingState[p] = "CURRENTLY_PROCESSING"
          /\ processingState' = [processingState EXCEPT ![p] = state]
          /\ status' = [status EXCEPT ![workbasketOf[p]] = wbStatus]
          /\ UNCHANGED <<position, workbasketOf>>
        BY <1>10 DEF CompleteProcessing
    <2>2. Awaiting' = Awaiting /\ Processing' = Processing \ {p} /\ p \in Processing
        BY <1>0, <2>1 DEF Awaiting, Processing
    <2>3. Processing' = {}
        BY <2>2 DEF AtMostOneProcessing
    <2>4. QueueNow' = QueueNow
        BY <2>1, <2>2 DEF QueueNow
    <2>5. workbasketOf[p] \in WorkBasket /\ status[workbasketOf[p]] = "QUEUED"
        BY <1>2, <2>2 DEF AllQueued
    <2> QED
        BY <1>3, <2>1, <2>2, <2>3, <2>4, <2>5, RowAssumption
<1>11. ASSUME NEW p \in Pwb, ProcessingSucceeded(p)
       PROVE  Promise!Accept
    <2>1. CompleteProcessing(p, "SUCCESSFULLY_PROCESSED", "PUBLISHED")
        BY <1>11 DEF ProcessingSucceeded
    <2>2. /\ QueueNow' = QueueNow
          /\ CurrentWorkBasket = workbasketOf[p] /\ workbasketOf[p] \in WorkBasket
          /\ CurrentWorkBasket # None /\ CurrentWorkBasket' = None
          /\ status[workbasketOf[p]] = "QUEUED"
          /\ status' = [status EXCEPT ![workbasketOf[p]] = "PUBLISHED"]
        BY <1>10, <2>1
    <2>3. Published' = Published \cup {CurrentWorkBasket} /\ Errored' = Errored
        BY <1>0, <2>2 DEF Published, Errored
    <2> QED
        BY <2>2, <2>3 DEF Promise!Accept, QueueNow, Published, Errored
<1>12. ASSUME NEW p \in Pwb, ProcessingFailed(p)
       PROVE  Promise!Reject
    <2>1. CompleteProcessing(p, "FAILED_PROCESSING", "ERRORED")
        BY <1>12 DEF ProcessingFailed
    <2>2. /\ QueueNow' = QueueNow
          /\ CurrentWorkBasket = workbasketOf[p] /\ workbasketOf[p] \in WorkBasket
          /\ CurrentWorkBasket # None /\ CurrentWorkBasket' = None
          /\ status[workbasketOf[p]] = "QUEUED"
          /\ status' = [status EXCEPT ![workbasketOf[p]] = "ERRORED"]
        BY <1>10, <2>1
    <2>3. Errored' = Errored \cup {CurrentWorkBasket} /\ Published' = Published
        BY <1>0, <2>2 DEF Published, Errored
    <2> QED
        BY <2>2, <2>3 DEF Promise!Reject, QueueNow, Published, Errored
<1>13. ASSUME NEW w \in WorkBasket, Restore(w)
       PROVE  Promise!Reopen(w)
    <2>1. /\ status[w] = "ERRORED" /\ status' = [status EXCEPT ![w] = "EDITING"]
          /\ UNCHANGED <<position, workbasketOf, processingState>>
        BY <1>13 DEF Restore
    <2>2. UNCHANGED <<QueueNow, CurrentWorkBasket>>
        BY <1>5, <2>1
    <2>3. Errored' = Errored \ {w} /\ w \in Errored /\ Published' = Published
        BY <1>0, <2>1 DEF Published, Errored
    <2> QED
        BY <2>2, <2>3 DEF Promise!Reopen, QueueNow, Published, Errored
<1>14. CASE \/ PauseQueue \/ UnpauseQueue \/ NewYear \/ Operator \/ Worker
            \/ \E p \in Pwb : ShowEnvelopeQueue(p)
            \/ UNCHANGED vars
    <2>1. UNCHANGED <<status, workbasketOf, processingState>>
        BY <1>14 DEF PauseQueue, UnpauseQueue, NewYear, Operator, CreateEnvelopeForTop,
                     ResetPositions, Worker, RunTask, CreateXmlEnvelopeFile, RefuseEnvelope,
                     LoseTask, ShowEnvelopeQueue, vars
    <2>2. UNCHANGED position
        <3>1. CASE ResetPositions
            BY <3>1, RenumberedIsPosition DEF ResetPositions
        <3>2. CASE ~ResetPositions
            BY <1>14, <3>2 DEF PauseQueue, UnpauseQueue, NewYear, Operator,
                     CreateEnvelopeForTop, Worker, RunTask, CreateXmlEnvelopeFile,
                     RefuseEnvelope, LoseTask, ShowEnvelopeQueue, vars
        <3> QED
            BY <3>1, <3>2
    <2>3. UNCHANGED <<Published, Errored>>
        BY <2>1 DEF Published, Errored
    <2> QED
        BY <1>4, <1>5, <2>1, <2>2, <2>3
<1>15. ASSUME NEW p \in Pwb, PromotePosition(p) \/ DemotePosition(p) \/ PromoteToTopPosition(p)
       PROVE  [Promise!Next]_(Promise!vars)
    BY <1>7, <1>15 DEF PromotePosition, DemotePosition, PromoteToTopPosition
<1> QED
    BY <1>6, <1>8, <1>9, <1>11, <1>12, <1>13, <1>14, <1>15
    DEF Next, Manager, Consumer, Promise!Next

(* The rows, positions and states implement the promised queue: no request *)
(* drops, duplicates or reorders a workbasket that it does not name, HMRC  *)
(* always gets the head, and what CDS accepted never comes back.           *)
THEOREM QueueImplementsPromise == Spec => ImplementsProcessingQueue
<1>1. Init => StatusInv
    BY DEF Init, StatusInv, StatusAgreement, RowsHaveWorkBasket, AllQueued, Awaiting,
           Processing, Successful, NoRow
<1>2. Spec => []StatusInv
    BY <1>1, StatusStep, TypeCorrect, PTL DEF Spec
<1> QED
    BY <1>2, RefinementInit, RefinementStep, TypeCorrect, QueueAlwaysInOrder,
       NeverTwoProcessing, PTL DEF Spec, ImplementsProcessingQueue, Promise!Spec
=============================================================================
