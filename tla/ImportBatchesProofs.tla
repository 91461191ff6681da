------------------------ MODULE ImportBatchesProofs ------------------------
(***************************************************************************)
(* What imports keep, for any batches, chunks, sessions, failures and lost *)
(* tasks: the status of a batch is true, and chunks are imported in order. *)
(***************************************************************************)
EXTENDS ImportBatches, SequenceTheorems, TLAPS

-----------------------------------------------------------------------------
(* Where a chunk can be.                                                   *)

Clearing == {"clearing", "archiving", "clearing last", "archiving last"}

(* The task of session s imports chunk c, or has just done so. *)
Working(s, c) == pc[s] \notin {"idle", "planning", "starting"} /\ task[s].chunk = c

(* Session s is about to look for a chunk on c's line. *)
Planned(s, c) == pc[s] \in {"planning", "starting"} /\ Line[c] \in plan[s]

(* Session s has found chunk c, and is about to send its task. *)
Picked(s, c) == pc[s] = "starting" /\ picked[s] = c

Holds(s, c) == Working(s, c) \/ Planned(s, c) \/ Picked(s, c)

(* The i-th task in the broker imports chunk c. *)
Sent(i, c) == i \in 1..Len(sent) /\ sent[i].chunk = c

-----------------------------------------------------------------------------
(* The inductive invariant.                                                *)

(* A task imports into the workbasket of its chunk's batch, of one that    *)
(* batch waited for, or into a "Data Import" workbasket.                   *)
MayHold(w, c) == w = None \/ w = BatchOf[c] \/ w \in Dependencies[BatchOf[c]]

Provenance ==
    \A c \in Chunk :
        /\ \A w \in Workbasket : c \in contents[w] => MayHold(w, c)
        /\ \A i \in 1..Len(sent) : Sent(i, c) => MayHold(sent[i].workbasket, c)
        /\ \A s \in Session : Holds(s, c) => MayHold(task[s].workbasket, c)

(* A batch that is not split and waits for no other. *)
Single(b) == b \notin Split /\ Dependencies[b] = {}
Complete(b) == Unfinished(b) = {}

(* A chunk is taken up when the batches its batch waits for are complete. *)
TakenUp(c) ==
    \/ c \in Imported
    \/ \E s \in Session : Holds(s, c)
    \/ \E i \in 1..Len(sent) : Sent(i, c)

WaitedFor ==
    \A c \in Chunk : TakenUp(c) =>
        \A b \in Dependencies[BatchOf[c]] : Single(b) => Complete(b)

(* At most one task at a time stands for a single batch. *)
OneHolder ==
    \A c, d \in Chunk : BatchOf[c] = BatchOf[d] /\ Single(BatchOf[c]) =>
        /\ \A s, t \in Session : Holds(s, c) /\ Holds(t, d) => s = t
        /\ \A s \in Session : Planned(s, c) => ~Picked(s, d)

OneSent ==
    \A c, d \in Chunk : BatchOf[c] = BatchOf[d] /\ Single(BatchOf[c]) =>
        \A i, j \in 1..Len(sent) : Sent(i, c) /\ Sent(j, d) => i = j

SentOrHeld ==
    \A c, d \in Chunk : BatchOf[c] = BatchOf[d] /\ Single(BatchOf[c]) =>
        \A i \in 1..Len(sent) : Sent(i, c) => \A s \in Session : ~Holds(s, d)

UnrunNotStarted ==
    \A c \in Chunk : Single(BatchOf[c]) /\ BatchOf[c] \in unrun =>
        /\ \A i \in 1..Len(sent) : ~Sent(i, c)
        /\ \A s \in Session : ~Holds(s, c)

OneToken == OneHolder /\ OneSent /\ SentOrHeld /\ UnrunNotStarted

(* What the chunk's status is meanwhile. *)
TokenStatus ==
    \A c \in Chunk : Single(BatchOf[c]) =>
        /\ \A i \in 1..Len(sent) : Sent(i, c) => status[c] = "RUNNING"
        /\ \A s \in Session :
            /\ Working(s, c) /\ pc[s] \notin {"checking", "finding"}
                => status[c] = "RUNNING" /\ pc[s] \notin {"clearing last", "archiving last"}
            /\ Picked(s, c) => status[c] = "WAITING"

(* Its batch's workbasket is cleared after an import that raised: then no  *)
(* task is left, and one chunk never gets done.                            *)
Broken(b) ==
    /\ b \notin unrun
    /\ \A c \in ChunksOf(b) :
        /\ \A i \in 1..Len(sent) : ~Sent(i, c)
        /\ \A s \in Session : Holds(s, c) => Working(s, c) /\ pc[s] \in {"clearing", "archiving"}
    /\ ~Complete(b)
    /\ batch[b] # "SUCCEEDED"

Intact(b) ==
    \A c \in ChunksOf(b) :
        /\ status[c] # "ERRORED"
        /\ status[c] = "DONE" => c \in Imported
        /\ \A s \in Session : Working(s, c) =>
            pc[s] \notin Clearing /\ (pc[s] = "done" => c \in Imported)

BrokenOrIntact == \A b \in Batch : Single(b) => Broken(b) \/ Intact(b)

(* A failed batch is broken, and leaves nothing in its workbasket. *)
ClearedWhenFailed ==
    \A b \in Batch : Single(b) =>
        /\ batch[b] = "FAILED" =>
            /\ Broken(b)
            /\ \A c \in ChunksOf(b), s \in Session : ~Working(s, c)
            /\ b \in Owned => contents[b] = {}
        /\ \A c \in ChunksOf(b), s \in Session :
            Working(s, c) /\ pc[s] = "archiving" /\ b \in Owned => contents[b] = {}

(* The chunks before the one a single batch has come to are finished. *)
InSequence ==
    \A c \in Chunk : Single(BatchOf[c]) =>
        ((\/ \E i \in 1..Len(sent) : Sent(i, c)
          \/ \E s \in Session : \/ Picked(s, c)
                                \/ Working(s, c) /\ pc[s] \in {"importing", "done"})
         => \A d \in BeforeOnLine(c) : status[d] \notin {"WAITING", "RUNNING"})

(* A batch that waits for single batches keeps what it has imported. *)
Waiting(b) == b \notin Split /\ Dependencies[b] # {} /\ Dependencies[b] \cap Split = {}

WaitingIntact ==
    \A c \in Chunk : Waiting(BatchOf[c]) =>
        /\ status[c] = "DONE" => c \in Imported
        /\ \A s \in Session : Working(s, c) /\ pc[s] = "done" => c \in Imported

(* Without a failure nothing is cleared, and every chunk that is taken up  *)
(* has all that comes before it in the database.                           *)
NothingFailed ==
    failures = 0 =>
        /\ \A s \in Session : pc[s] \notin Clearing
        /\ \A c \in Chunk :
            /\ status[c] # "ERRORED"
            /\ status[c] = "DONE" => c \in Imported
            /\ \A s \in Session : Working(s, c) /\ pc[s] = "done" => c \in Imported

InOrder ==
    failures = 0 =>
        \A c \in Chunk :
            /\ (\/ \E i \in 1..Len(sent) : Sent(i, c)
                \/ \E s \in Session : Picked(s, c) \/ Working(s, c))
               => BeforeOnLine(c) \cup BeforeByCode(c) \cup BeforeByBatch(c) \subseteq Imported
            /\ \A s \in Session :
                Planned(s, c) => BeforeByCode(c) \cup BeforeByBatch(c) \subseteq Imported

(* A batch that has succeeded is complete. *)
SucceededIsDone ==
    \A b \in Batch : batch[b] = "SUCCEEDED" =>
        /\ Single(b) => Complete(b)
        /\ Waiting(b) => ChunksOf(b) \subseteq Imported
        /\ failures = 0 => ChunksOf(b) \subseteq Imported

IInv ==
    /\ TypeOK /\ Provenance /\ WaitedFor
    /\ OneToken /\ TokenStatus /\ BrokenOrIntact /\ ClearedWhenFailed /\ InSequence
    /\ WaitingIntact /\ NothingFailed /\ InOrder /\ SucceededIsDone

-----------------------------------------------------------------------------
(* What one step changes.                                                  *)

(* Only session s moves. *)
OnlySession(s) ==
    \A t \in Session : t # s =>
        /\ pc'[t] = pc[t] /\ task'[t] = task[t] /\ seen'[t] = seen[t]
        /\ plan'[t] = plan[t] /\ picked'[t] = picked[t]

SessionTypes ==
    /\ pc \in [Session -> {"idle", "importing", "done", "checking",
                           "clearing", "archiving", "clearing last", "archiving last",
                           "finding", "planning", "starting"}]
    /\ task \in [Session -> Task \cup [chunk : {None}, workbasket : Workbasket] \cup {None}]
    /\ seen \in [Session -> BatchStatus \cup {None}]
    /\ plan \in [Session -> SUBSET {Line[c] : c \in Chunk}]
    /\ picked \in [Session -> Chunk \cup {None}]

(* What a session that does not move holds, it keeps. *)
LEMMA OthersKeep ==
    ASSUME NEW s \in Session, OnlySession(s), NEW t \in Session, t # s, NEW c
    PROVE  /\ Working(t, c)' <=> Working(t, c)
           /\ Planned(t, c)' <=> Planned(t, c)
           /\ Picked(t, c)' <=> Picked(t, c)
           /\ Holds(t, c)' <=> Holds(t, c)
           /\ pc'[t] = pc[t] /\ task'[t] = task[t] /\ seen'[t] = seen[t]
<1>1. /\ pc'[t] = pc[t] /\ task'[t] = task[t] /\ seen'[t] = seen[t]
      /\ plan'[t] = plan[t] /\ picked'[t] = picked[t]
    BY DEF OnlySession
<1> QED
    BY <1>1 DEF Working, Planned, Picked, Holds

(* A session that ends, or dies, holds nothing. *)
LEMMA Finishes ==
    ASSUME SessionTypes, NEW s \in Session, Finish(s)
    PROVE  OnlySession(s) /\ pc'[s] = "idle" /\ \A c : ~Holds(s, c)'
<1>1. OnlySession(s) /\ pc'[s] = "idle"
    BY DEF SessionTypes, Finish, Goto, OnlySession
<1> QED
    BY <1>1 DEF Holds, Working, Planned, Picked

(* A session that goes from one place of its task to the next. *)
LEMMA GoesOn ==
    ASSUME SessionTypes, NEW s \in Session, NEW label, Goto(s, label),
           UNCHANGED <<task, seen, plan, picked>>
    PROVE  OnlySession(s) /\ pc'[s] = label /\ task'[s] = task[s] /\ seen'[s] = seen[s]
BY DEF SessionTypes, Goto, OnlySession

(* The tasks that are left when the first is taken. *)
LEMMA TakenFromBroker ==
    ASSUME sent \in Seq(Task), sent # << >>, sent' = Tail(sent)
    PROVE  /\ Head(sent) = sent[1] /\ Head(sent) \in Task /\ 1 \in 1..Len(sent)
           /\ sent' \in Seq(Task)
           /\ \A i \in 1..Len(sent') : /\ i + 1 \in 1..Len(sent) /\ i + 1 # 1
                                       /\ sent'[i] = sent[i + 1]
           /\ \A i \in 1..Len(sent') : \A c : Sent(i, c)' => Sent(i + 1, c)
<1>1. /\ Tail(sent) \in Seq(Task) /\ Len(Tail(sent)) = Len(sent) - 1
      /\ \A i \in 1..Len(Tail(sent)) : Tail(sent)[i] = sent[i + 1]
      /\ Head(sent) = sent[1] /\ Head(sent) \in Task /\ Len(sent) \in Nat \ {0}
    BY HeadTailProperties, EmptySeq
<1>2. \A i \in 1..Len(sent') : i + 1 \in 1..Len(sent) /\ i + 1 # 1 /\ sent'[i] = sent[i + 1]
    BY <1>1
<1> QED
    BY <1>1, <1>2 DEF Sent

(* The tasks that are there when one is sent. *)
LEMMA PutInBroker ==
    ASSUME sent \in Seq(Task), NEW t \in Task, sent' = Append(sent, t)
    PROVE  /\ sent' \in Seq(Task)
           /\ \A i \in 1..Len(sent') : \/ i \in 1..Len(sent) /\ sent'[i] = sent[i]
                                       \/ i = Len(sent) + 1 /\ sent'[i] = t
           /\ \A i \in 1..Len(sent') : \A c :
                Sent(i, c)' => Sent(i, c) \/ (i = Len(sent) + 1 /\ c = t.chunk)
<1>1. /\ Append(sent, t) \in Seq(Task) /\ Len(Append(sent, t)) = Len(sent) + 1
      /\ \A i \in 1..Len(sent) : Append(sent, t)[i] = sent[i]
      /\ Append(sent, t)[Len(sent) + 1] = t /\ Len(sent) \in Nat
    BY AppendProperties
<1>2. \A i \in 1..Len(sent') : \/ i \in 1..Len(sent) /\ sent'[i] = sent[i]
                               \/ i = Len(sent) + 1 /\ sent'[i] = t
    BY <1>1
<1> QED
    BY <1>1, <1>2 DEF Sent

(* The lines that a session finds to start are of its batch, or of one     *)
(* that waited for it, wait for nothing, and none of their codes does.     *)
LEMMA NextLinesAre ==
    ASSUME NEW b, NEW c \in Chunk, Line[c] \in NextLines(b)
    PROVE  /\ BatchOf[c] = b \/ b \in Dependencies[BatchOf[c]]
           /\ ~StillRunning(BatchOf[c])
           /\ BatchOf[c] \in Split => Code[c] \in Unblocked(BatchOf[c])
<1>1. ASSUME NEW e, ~StillRunning(e), Line[c] \in LinesToStart(e)
      PROVE  /\ BatchOf[c] = e /\ ~StillRunning(BatchOf[c])
             /\ BatchOf[c] \in Split => Code[c] \in Unblocked(BatchOf[c])
    <2>1. PICK d \in Ready(e) : Line[d] = Line[c] /\ (e \in Split => Code[d] \in Unblocked(e))
        BY <1>1 DEF LinesToStart
    <2>2. d \in Chunk /\ BatchOf[d] = e
        BY <2>1 DEF Ready, WithStatus, ChunksOf
    <2>3. BatchOf[c] = e /\ Code[c] = Code[d]
        BY <2>1, <2>2, ImportAssumption
    <2> QED
        BY <1>1, <2>1, <2>3
<1>2. CASE Line[c] \in LinesToStart(b) /\ ~StillRunning(b)
    BY <1>1, <1>2
<1>3. CASE Line[c] \in UNION {LinesToStart(d) : d \in
                    {e \in Batch : b \in Dependencies[e] /\ ~StillRunning(e)}}
    <2>1. PICK e \in Batch : /\ b \in Dependencies[e] /\ ~StillRunning(e)
                             /\ Line[c] \in LinesToStart(e)
        BY <1>3
    <2> QED
        BY <1>1, <2>1
<1> QED
    BY <1>2, <1>3 DEF NextLines

(* The parts of the type invariant that proofs about one step use. *)
LEMMA HasSessionTypes ==
    ASSUME TypeOK
    PROVE  /\ SessionTypes /\ sent \in Seq(Task)
           /\ status \in [Chunk -> ChunkStatus] /\ batch \in [Batch -> BatchStatus]
           /\ contents \in [Workbasket -> SUBSET Chunk]
           /\ \A s \in Session :
                /\ pc[s] # "idle" => task[s].workbasket \in Workbasket
                /\ pc[s] \notin {"idle", "planning", "starting"}
                    => task[s] \in Task /\ task[s].chunk \in Chunk /\ seen[s] \in BatchStatus
                /\ pc[s] = "starting" => picked[s] \in Chunk
BY DEF TypeOK, SessionTypes, Task

(* Each action seen from outside: run_batch plans the lines of its batch. *)
LEMMA DoRunBatch ==
    ASSUME TypeOK, NEW s \in Session, NEW b \in Batch, RunBatch(s, b)
    PROVE  /\ OnlySession(s) /\ UNCHANGED <<status, batch, contents, sent, failures>>
           /\ pc[s] = "idle" /\ pc'[s] = "planning"
           /\ b \in unrun /\ unrun' = unrun \ {b}
           /\ task'[s].workbasket = IF b \in Owned THEN b ELSE None
           /\ \A c \in Chunk : ~Holds(s, c)
           /\ \A c \in Chunk : Holds(s, c)' => Planned(s, c)'
           /\ \A c \in Chunk : Planned(s, c)' => Line[c] \in NextLines(b)
<1>0. SessionTypes
    BY HasSessionTypes
<1>1. /\ UNCHANGED <<status, batch, contents, sent, failures>>
      /\ pc[s] = "idle" /\ pc'[s] = "planning" /\ b \in unrun /\ unrun' = unrun \ {b}
      /\ task'[s].workbasket = IF b \in Owned THEN b ELSE None
      /\ plan'[s] = NextLines(b)
    BY <1>0 DEF RunBatch, rows, Goto, SessionTypes
<1>2. OnlySession(s)
    BY <1>0 DEF RunBatch, Goto, SessionTypes, OnlySession
<1> QED
    BY <1>1, <1>2 DEF Holds, Working, Planned, Picked

(* The first task in the broker is taken, and its chunk runs. *)
LEMMA DoStartImport ==
    ASSUME TypeOK, NEW s \in Session, StartImport(s)
    PROVE  \E c \in Chunk :
           /\ OnlySession(s) /\ UNCHANGED <<batch, contents, unrun, failures>>
           /\ Sent(1, c) /\ 1 \in 1..Len(sent) /\ pc[s] = "idle" /\ pc'[s] = "importing"
           /\ status' = [status EXCEPT ![c] = "RUNNING"]
           /\ task'[s].workbasket = sent[1].workbasket
           /\ seen'[s] = batch[BatchOf[c]]
           /\ \A d \in Chunk : ~Holds(s, d)
           /\ \A d \in Chunk : Holds(s, d)' => d = c /\ Working(s, d)'
           /\ \A i \in 1..Len(sent') : /\ i + 1 \in 1..Len(sent) /\ i + 1 # 1
                                       /\ sent'[i] = sent[i + 1]
           /\ \A i \in 1..Len(sent') : \A d : Sent(i, d)' => Sent(i + 1, d)
<1>0. SessionTypes /\ sent \in Seq(Task) /\ sent # << >> /\ sent' = Tail(sent)
    BY HasSessionTypes DEF StartImport
<1>1. /\ Head(sent) = sent[1] /\ Head(sent) \in Task /\ 1 \in 1..Len(sent)
      /\ \A i \in 1..Len(sent') : /\ i + 1 \in 1..Len(sent) /\ i + 1 # 1
                                  /\ sent'[i] = sent[i + 1]
      /\ \A i \in 1..Len(sent') : \A c : Sent(i, c)' => Sent(i + 1, c)
    BY <1>0, TakenFromBroker
<1>2. PICK t \in Task : t = sent[1] /\ t = Head(sent)
    BY <1>1
<1>3. t.chunk \in Chunk /\ Sent(1, t.chunk)
    BY <1>1, <1>2 DEF Task, Sent
<1>4. /\ UNCHANGED <<batch, contents, unrun, failures>>
      /\ pc[s] = "idle" /\ pc'[s] = "importing" /\ task'[s] = t
      /\ seen'[s] = batch[BatchOf[t.chunk]]
      /\ status' = [status EXCEPT ![t.chunk] = "RUNNING"]
    BY <1>0, <1>2 DEF StartImport, SessionTypes, Goto
<1>5. OnlySession(s)
    BY <1>0 DEF StartImport, Goto, SessionTypes, OnlySession
<1>6. /\ \A d \in Chunk : ~Holds(s, d)
      /\ \A d \in Chunk : Holds(s, d)' => d = t.chunk /\ Working(s, d)'
    BY <1>4 DEF Holds, Working, Planned, Picked
<1> QED
    BY <1>1, <1>2, <1>3, <1>4, <1>5, <1>6

(* The session's chunk, from StartImport to FindNext. *)
LEMMA TaskChunk ==
    ASSUME TypeOK, NEW s \in Session, pc[s] \notin {"idle", "planning", "starting"}
    PROVE  /\ task[s].chunk \in Chunk /\ Working(s, task[s].chunk)
           /\ task[s].workbasket \in Workbasket
           /\ \A d \in Chunk : Holds(s, d) => d = task[s].chunk
           /\ BatchOfTask(s) = BatchOf[task[s].chunk] /\ BatchOf[task[s].chunk] \in Batch
BY HasSessionTypes, ImportAssumption DEF Holds, Working, Planned, Picked, BatchOfTask, Task

(* One transaction puts the chunk into the database, or skips it. *)
LEMMA DoImportStream ==
    ASSUME TypeOK, NEW s \in Session, ImportStream(s)
    PROVE  /\ OnlySession(s) /\ UNCHANGED <<status, batch, sent, unrun, failures>>
           /\ pc[s] = "importing" /\ pc'[s] = "done"
           /\ task'[s] = task[s] /\ seen'[s] = seen[s]
           /\ contents' = IF task[s].chunk \in Imported THEN contents
                   ELSE [contents EXCEPT ![task[s].workbasket] = @ \cup {task[s].chunk}]
           /\ \A d \in Chunk : Holds(s, d)' => d = task[s].chunk /\ Working(s, d)'
<1>1. /\ SessionTypes /\ pc[s] = "importing" /\ Goto(s, "done")
      /\ UNCHANGED <<task, seen, plan, picked>>
      /\ UNCHANGED <<status, batch, sent, unrun, failures>>
      /\ contents' = IF task[s].chunk \in Imported THEN contents
                   ELSE [contents EXCEPT ![task[s].workbasket] = @ \cup {task[s].chunk}]
    BY HasSessionTypes DEF ImportStream
<1>2. OnlySession(s) /\ pc'[s] = "done" /\ task'[s] = task[s] /\ seen'[s] = seen[s]
    BY <1>1, GoesOn
<1> QED
    BY <1>1, <1>2 DEF Holds, Working, Planned, Picked

(* An import that raises leaves everything as it is, and is counted. *)
LEMMA DoImportRaises ==
    ASSUME TypeOK, NEW s \in Session, ImportRaises(s)
    PROVE  /\ OnlySession(s) /\ UNCHANGED <<status, batch, contents, sent, unrun>>
           /\ pc[s] = "importing" /\ pc'[s] = "clearing"
           /\ task'[s] = task[s] /\ seen'[s] = seen[s]
           /\ failures' = failures + 1 /\ failures \in Nat /\ failures' # 0
           /\ \A d \in Chunk : Holds(s, d)' => d = task[s].chunk /\ Working(s, d)'
<1>1. /\ SessionTypes /\ pc[s] = "importing" /\ Goto(s, "clearing")
      /\ UNCHANGED <<task, seen, plan, picked>>
      /\ UNCHANGED <<status, batch, contents, sent, unrun>>
      /\ failures' = failures + 1
    BY HasSessionTypes DEF ImportRaises, rows
<1>2. OnlySession(s) /\ pc'[s] = "clearing" /\ task'[s] = task[s] /\ seen'[s] = seen[s]
    BY <1>1, GoesOn
<1>3. failures \in Nat /\ failures + 1 # 0
    <2>1. failures \in 0..MaxFailures
        BY DEF TypeOK
    <2>2. MaxFailures \in Nat
        BY ImportAssumption
    <2> QED
        BY <2>1, <2>2
<1> QED
    BY <1>1, <1>2, <1>3 DEF Holds, Working, Planned, Picked

(* The chunk is DONE. *)
LEMMA DoSaveDone ==
    ASSUME TypeOK, NEW s \in Session, SaveDone(s)
    PROVE  /\ OnlySession(s) /\ UNCHANGED <<batch, contents, sent, unrun, failures>>
           /\ pc[s] = "done" /\ pc'[s] = "checking"
           /\ task'[s] = task[s] /\ seen'[s] = seen[s]
           /\ status' = [status EXCEPT ![task[s].chunk] = "DONE"]
           /\ \A d \in Chunk : Holds(s, d)' => d = task[s].chunk /\ Working(s, d)'
<1>1. /\ SessionTypes /\ pc[s] = "done" /\ Goto(s, "checking")
      /\ UNCHANGED <<task, seen, plan, picked>>
      /\ UNCHANGED <<batch, contents, sent, unrun, failures>>
      /\ status' = [status EXCEPT ![task[s].chunk] = "DONE"]
    BY HasSessionTypes DEF SaveDone
<1>2. OnlySession(s) /\ pc'[s] = "checking" /\ task'[s] = task[s] /\ seen'[s] = seen[s]
    BY <1>1, GoesOn
<1> QED
    BY <1>1, <1>2 DEF Holds, Working, Planned, Picked

(* The batch goes on, succeeds or turns out to have failed. *)
LEMMA DoCheckBatch ==
    ASSUME TypeOK, NEW s \in Session, CheckBatch(s)
    PROVE  LET b == BatchOf[task[s].chunk] IN
           /\ OnlySession(s) /\ UNCHANGED <<status, contents, sent, unrun, failures>>
           /\ pc[s] = "checking"
           /\ \A d \in Chunk : Holds(s, d)' => /\ d = task[s].chunk /\ Working(s, d)'
                                               /\ task'[s] = task[s] /\ seen'[s] = seen[s]
           /\ \/ pc'[s] = "idle" /\ UNCHANGED batch
              \/ pc'[s] = "finding" /\ UNCHANGED batch
              \/ /\ pc'[s] = "clearing last" /\ UNCHANGED batch
                 /\ \E c \in ChunksOf(b) : status[c] = "ERRORED"
              \/ /\ pc'[s] = "finding" /\ batch' = [batch EXCEPT ![b] = "SUCCEEDED"]
                 /\ \A c \in ChunksOf(b) : status[c] = "DONE"
<1> DEFINE b == BatchOf[task[s].chunk]
<1>0. /\ SessionTypes /\ pc[s] = "checking" /\ UNCHANGED <<status, contents, sent, unrun, failures>>
      /\ BatchOfTask(s) = b
      /\ \A c \in Chunk : status[c] \in ChunkStatus
    BY HasSessionTypes DEF CheckBatch, BatchOfTask
<1>1. ASSUME NEW label, label \in {"finding", "clearing last"}, Goto(s, label),
             UNCHANGED <<task, seen, plan, picked>>
      PROVE  /\ OnlySession(s) /\ pc'[s] = label
             /\ \A d \in Chunk : Holds(s, d)' => /\ d = task[s].chunk /\ Working(s, d)'
                                                 /\ task'[s] = task[s] /\ seen'[s] = seen[s]
    <2>1. OnlySession(s) /\ pc'[s] = label /\ task'[s] = task[s] /\ seen'[s] = seen[s]
        BY <1>0, <1>1, GoesOn
    <2> QED
        BY <1>1, <2>1 DEF Holds, Working, Planned, Picked
<1> HIDE DEF b
<1>2. CASE Ready(b) # {} /\ Goto(s, "finding") /\ UNCHANGED <<batch, task, seen, plan, picked>>
    BY <1>0, <1>1, <1>2 DEF b
<1>3. CASE /\ WithStatus(ChunksOf(b), {"ERRORED"}) # {} /\ Goto(s, "clearing last")
           /\ UNCHANGED <<batch, task, seen, plan, picked>>
    <2>1. \E c \in ChunksOf(b) : status[c] = "ERRORED"
        BY <1>3 DEF WithStatus
    <2> QED
        BY <1>0, <1>1, <1>3, <2>1 DEF b
<1>4. CASE /\ Ready(b) = {} /\ WithStatus(ChunksOf(b), {"ERRORED"}) = {}
           /\ Succeeded(b) /\ Goto(s, "finding") /\ UNCHANGED <<task, seen, plan, picked>>
    <2>1. \A c \in ChunksOf(b) : status[c] = "DONE"
        BY <1>0, <1>4 DEF Ready, WithStatus, ChunksOf, ChunkStatus
    <2> QED
        BY <1>0, <1>1, <1>4, <2>1 DEF Succeeded, b
<1>5. CASE Finish(s) /\ UNCHANGED batch
    <2>1. OnlySession(s) /\ pc'[s] = "idle" /\ \A c : ~Holds(s, c)'
        BY <1>0, <1>5, Finishes
    <2> QED
        BY <1>0, <1>5, <2>1 DEF b
<1> QED
    BY <1>0, <1>2, <1>3, <1>4, <1>5 DEF CheckBatch, b


(* failed() empties the workbasket of the batch, or raises. *)
LEMMA DoClearWorkbasket ==
    ASSUME TypeOK, NEW s \in Session, ClearWorkbasket(s)
    PROVE  LET b == BatchOf[task[s].chunk] IN
           /\ OnlySession(s) /\ UNCHANGED <<status, batch, sent, unrun, failures>>
           /\ pc[s] \in {"clearing", "clearing last"}
           /\ \A d \in Chunk : Holds(s, d)' => /\ d = task[s].chunk /\ Working(s, d)'
                                               /\ task'[s] = task[s] /\ seen'[s] = seen[s]
           /\ \/ pc'[s] = "idle" /\ UNCHANGED contents
              \/ /\ pc'[s] = IF pc[s] = "clearing" THEN "archiving" ELSE "archiving last"
                 /\ contents' = IF b \in Owned THEN [contents EXCEPT ![b] = {}] ELSE contents
<1> DEFINE b == BatchOf[task[s].chunk]
           label == IF pc[s] = "clearing" THEN "archiving" ELSE "archiving last"
<1>0. /\ SessionTypes /\ UNCHANGED <<status, batch, sent, unrun, failures>>
      /\ pc[s] \in {"clearing", "clearing last"} /\ BatchOfTask(s) = b
    BY HasSessionTypes DEF ClearWorkbasket, BatchOfTask
<1>1. CASE /\ contents' = IF b \in Owned THEN [contents EXCEPT ![b] = {}] ELSE contents
           /\ Goto(s, label) /\ UNCHANGED <<task, seen, plan, picked>>
    <2>1. OnlySession(s) /\ pc'[s] = label /\ task'[s] = task[s] /\ seen'[s] = seen[s]
        BY <1>0, <1>1, GoesOn
    <2>2. pc[s] \notin {"idle", "planning", "starting"} /\ label \notin {"idle", "planning", "starting"}
        BY <1>0
    <2> HIDE DEF label
    <2>3. \A d \in Chunk : Holds(s, d)' => d = task[s].chunk /\ Working(s, d)'
        BY <2>1, <2>2 DEF Holds, Working, Planned, Picked
    <2> QED
        BY <1>0, <1>1, <2>1, <2>3 DEF label
<1>2. CASE Finish(s) /\ UNCHANGED contents
    <2>1. OnlySession(s) /\ pc'[s] = "idle" /\ \A c : ~Holds(s, c)'
        BY <1>0, <1>2, Finishes
    <2> QED
        BY <1>0, <1>2, <2>1
<1> QED
    BY <1>0, <1>1, <1>2 DEF ClearWorkbasket

(* ... and then the batch is FAILED and its chunk ERRORED, or nothing is. *)
LEMMA DoSaveFailed ==
    ASSUME TypeOK, NEW s \in Session, SaveFailed(s)
    PROVE  LET b == BatchOf[task[s].chunk] IN
           /\ OnlySession(s) /\ UNCHANGED <<contents, sent, unrun, failures>>
           /\ pc[s] \in {"archiving", "archiving last"}
           /\ \A d \in Chunk : Holds(s, d)' => /\ d = task[s].chunk /\ Working(s, d)'
                                               /\ task'[s] = task[s] /\ seen'[s] = seen[s]
           /\ \/ pc'[s] = "idle" /\ UNCHANGED <<status, batch>>
              \/ /\ pc[s] = "archiving last" /\ pc'[s] = "finding" /\ UNCHANGED status
                 /\ batch' = [batch EXCEPT ![b] = "FAILED"]
              \/ /\ pc[s] = "archiving" /\ pc'[s] = "idle"
                 /\ status' = [status EXCEPT ![task[s].chunk] = "ERRORED"]
                 /\ batch' = [batch EXCEPT ![b] = "FAILED"]
<1> DEFINE b == BatchOf[task[s].chunk]
<1>0. /\ SessionTypes /\ UNCHANGED <<contents, sent, unrun, failures>>
      /\ pc[s] \in {"archiving", "archiving last"} /\ BatchOfTask(s) = b
    BY HasSessionTypes DEF SaveFailed, BatchOfTask
<1>1. ASSUME Finish(s)
      PROVE  OnlySession(s) /\ pc'[s] = "idle" /\ \A c : ~Holds(s, c)'
    BY <1>0, <1>1, Finishes
<1>2. CASE /\ pc[s] = "archiving last" /\ Goto(s, "finding")
           /\ UNCHANGED <<status, task, seen, plan, picked>>
           /\ batch' = [batch EXCEPT ![b] = "FAILED"]
    <2>1. OnlySession(s) /\ pc'[s] = "finding" /\ task'[s] = task[s] /\ seen'[s] = seen[s]
        BY <1>0, <1>2, GoesOn
    <2>2. \A d \in Chunk : Holds(s, d)' => d = task[s].chunk /\ Working(s, d)'
        BY <2>1 DEF Holds, Working, Planned, Picked
    <2> QED
        BY <1>0, <1>2, <2>1, <2>2
<1>3. CASE /\ pc[s] # "archiving last" /\ Finish(s)
           /\ status' = [status EXCEPT ![task[s].chunk] = "ERRORED"]
           /\ batch' = [batch EXCEPT ![b] = "FAILED"]
    BY <1>0, <1>1, <1>3
<1>4. CASE Finish(s) /\ UNCHANGED <<status, batch, workbasket>>
    BY <1>0, <1>1, <1>4
<1> QED
    BY <1>0, <1>2, <1>3, <1>4 DEF SaveFailed

(* The lines that come next are planned. *)
LEMMA DoFindNext ==
    ASSUME TypeOK, NEW s \in Session, FindNext(s)
    PROVE  /\ OnlySession(s) /\ UNCHANGED <<status, batch, contents, sent, unrun, failures>>
           /\ pc[s] = "finding" /\ pc'[s] = "planning" /\ task'[s] = task[s]
           /\ \A c \in Chunk : Holds(s, c)' => Planned(s, c)'
           /\ \A c \in Chunk : Planned(s, c)' => Line[c] \in NextLines(BatchOf[task[s].chunk])
<1>1. SessionTypes
    BY HasSessionTypes
<1>2. /\ UNCHANGED <<status, batch, contents, sent, unrun, failures>>
      /\ pc[s] = "finding" /\ pc'[s] = "planning" /\ task'[s] = task[s]
      /\ plan'[s] = NextLines(BatchOf[task[s].chunk])
    BY <1>1 DEF FindNext, SessionTypes, Goto, rows, BatchOfTask
<1>3. OnlySession(s)
    BY <1>1 DEF FindNext, SessionTypes, Goto, OnlySession
<1> QED
    BY <1>2, <1>3 DEF Holds, Working, Planned, Picked

(* The first chunk of a planned line that is not finished is picked. *)
LEMMA DoPickChunk ==
    ASSUME TypeOK, NEW s \in Session, NEW line, PickChunk(s, line)
    PROVE  /\ OnlySession(s) /\ UNCHANGED <<status, batch, contents, sent, unrun, failures>>
           /\ pc[s] = "planning" /\ task'[s] = task[s]
           /\ \A c \in Chunk : ~Working(s, c) /\ ~Working(s, c)' /\ ~Picked(s, c)
           /\ \A c \in Chunk : Planned(s, c)' => Planned(s, c) /\ Line[c] # line
           /\ \A c \in Chunk : Picked(s, c)' =>
                /\ Planned(s, c) /\ Line[c] = line /\ status[c] = "WAITING"
                /\ \A d \in BeforeOnLine(c) : status[d] \notin {"WAITING", "RUNNING"}
<1> DEFINE chunks == {c \in Chunk : Line[c] = line}
           ready == WithStatus(chunks, {"WAITING", "RUNNING"})
<1>1. SessionTypes
    BY HasSessionTypes
<1>2. /\ UNCHANGED <<status, batch, contents, sent, unrun, task, failures>>
      /\ pc[s] = "planning" /\ task'[s] = task[s] /\ line \in plan[s]
      /\ plan'[s] = plan[s] \ {line} /\ pc'[s] \in {"planning", "starting"}
    BY <1>1 DEF PickChunk, SessionTypes, Goto, rows
<1>3. OnlySession(s)
    BY <1>1 DEF PickChunk, SessionTypes, Goto, OnlySession
<1>4. pc'[s] = "starting" =>
        /\ WithStatus(chunks, {"RUNNING"}) = {}
        /\ picked'[s] \in ready /\ \A d \in ready : Number[picked'[s]] =< Number[d]
    BY <1>1, <1>2 DEF PickChunk, SessionTypes, Goto
<1>5. ASSUME NEW c \in Chunk, Picked(s, c)'
      PROVE  /\ Line[c] = line /\ status[c] = "WAITING"
             /\ \A d \in BeforeOnLine(c) : status[d] \notin {"WAITING", "RUNNING"}
    <2>1. c \in ready /\ (\A d \in ready : Number[c] =< Number[d])
            /\ WithStatus(chunks, {"RUNNING"}) = {}
        BY <1>4, <1>5 DEF Picked
    <2>2. Line[c] = line /\ status[c] = "WAITING"
        BY <2>1 DEF WithStatus
    <2>3. ASSUME NEW d \in BeforeOnLine(c), status[d] \in {"WAITING", "RUNNING"}
          PROVE  FALSE
        <3>1. d \in ready /\ Number[d] < Number[c]
            BY <2>2, <2>3 DEF BeforeOnLine, WithStatus
        <3>2. Number[c] =< Number[d] /\ Number[c] \in Nat /\ Number[d] \in Nat
            BY <2>1, <2>3, <3>1, ImportAssumption DEF BeforeOnLine
        <3> QED
            BY <3>1, <3>2
    <2> QED
        BY <2>2, <2>3
<1>6. \A c \in Chunk : ~Working(s, c) /\ ~Working(s, c)' /\ ~Picked(s, c)
    BY <1>2 DEF Working, Picked
<1>7. \A c \in Chunk : Line[c] = line => Planned(s, c)
    BY <1>2 DEF Planned
<1>8. \A c \in Chunk : Planned(s, c)' => Planned(s, c) /\ Line[c] # line
    BY <1>2 DEF Planned
<1> QED
    BY <1>2, <1>3, <1>5, <1>6, <1>7, <1>8

(* The task of the chunk that was picked is sent. *)
LEMMA DoStartChunk ==
    ASSUME TypeOK, NEW s \in Session, StartChunk(s)
    PROVE  \E c \in Chunk :
           /\ OnlySession(s) /\ UNCHANGED <<batch, contents, unrun, failures>>
           /\ Picked(s, c) /\ pc[s] = "starting" /\ pc'[s] = "planning" /\ task'[s] = task[s]
           /\ status' = [status EXCEPT ![c] = "RUNNING"]
           /\ \A d \in Chunk : Holds(s, d)' => Planned(s, d)' /\ Planned(s, d)
           /\ \A i \in 1..Len(sent') :
                \/ i \in 1..Len(sent) /\ sent'[i] = sent[i]
                \/ i = Len(sent) + 1 /\ sent'[i].workbasket = task[s].workbasket
           /\ \A i \in 1..Len(sent') : \A d :
                Sent(i, d)' => Sent(i, d) \/ (i = Len(sent) + 1 /\ d = c)
           /\ Len(sent) + 1 \notin 1..Len(sent)
<1> DEFINE c == picked[s]
           t == [chunk |-> c, workbasket |-> task[s].workbasket]
<1>1. SessionTypes /\ sent \in Seq(Task) /\ pc[s] = "starting"
    BY HasSessionTypes DEF StartChunk
<1>2. c \in Chunk /\ t \in Task
    BY <1>1, HasSessionTypes DEF Task
<1>3. /\ UNCHANGED <<batch, contents, unrun, failures>>
      /\ pc'[s] = "planning" /\ task'[s] = task[s] /\ plan'[s] = plan[s]
      /\ status' = [status EXCEPT ![c] = "RUNNING"]
      /\ sent' = Append(sent, t)
    BY <1>1 DEF StartChunk, SessionTypes, Goto
<1>4. OnlySession(s)
    BY <1>1 DEF StartChunk, SessionTypes, Goto, OnlySession
<1>5. Picked(s, c) /\ \A d \in Chunk : Holds(s, d)' => Planned(s, d)' /\ Planned(s, d)
    BY <1>1, <1>3 DEF Holds, Working, Planned, Picked
<1>6. Len(sent) \in Nat
    BY <1>1
<1>7. t.workbasket = task[s].workbasket /\ t.chunk = c
    OBVIOUS
<1> HIDE DEF t, c
<1>8. /\ \A i \in 1..Len(sent') : \/ i \in 1..Len(sent) /\ sent'[i] = sent[i]
                                  \/ i = Len(sent) + 1 /\ sent'[i] = t
      /\ \A i \in 1..Len(sent') : \A d :
                Sent(i, d)' => Sent(i, d) \/ (i = Len(sent) + 1 /\ d = t.chunk)
    BY <1>1, <1>2, <1>3, PutInBroker
<1>9. /\ \A i \in 1..Len(sent') :
            \/ i \in 1..Len(sent) /\ sent'[i] = sent[i]
            \/ i = Len(sent) + 1 /\ sent'[i].workbasket = task[s].workbasket
      /\ \A i \in 1..Len(sent') : \A d :
            Sent(i, d)' => Sent(i, d) \/ (i = Len(sent) + 1 /\ d = c)
    BY <1>7, <1>8
<1>10. Len(sent) + 1 \notin 1..Len(sent)
    BY <1>6
<1> QED
    BY <1>1, <1>2, <1>3, <1>4, <1>5, <1>9, <1>10

(* A session that has no line left, or dies, holds nothing. *)
LEMMA DoEnd ==
    ASSUME TypeOK, NEW s \in Session, FinishPlan(s) \/ Die(s)
    PROVE  /\ OnlySession(s) /\ UNCHANGED <<status, batch, contents, sent, unrun, failures>>
           /\ pc'[s] = "idle" /\ \A c : ~Holds(s, c)'
<1>1. SessionTypes /\ Finish(s) /\ UNCHANGED <<status, batch, contents, sent, unrun, failures>>
    BY HasSessionTypes DEF FinishPlan, Die, rows
<1> QED
    BY <1>1, Finishes

(* The first task in the broker is lost. *)
LEMMA DoLoseTask ==
    ASSUME TypeOK, LoseTask
    PROVE  /\ UNCHANGED <<status, batch, contents, unrun, session, failures>>
           /\ \A i \in 1..Len(sent') : /\ i + 1 \in 1..Len(sent) /\ i + 1 # 1
                                       /\ sent'[i] = sent[i + 1]
           /\ \A i \in 1..Len(sent') : \A c : Sent(i, c)' => Sent(i + 1, c)
<1>1. sent \in Seq(Task) /\ sent # << >> /\ sent' = Tail(sent)
    BY HasSessionTypes DEF LoseTask
<1>2. UNCHANGED <<status, batch, contents, unrun, session, failures>>
    BY DEF LoseTask, rows
<1> QED
    BY <1>1, <1>2, TakenFromBroker

(* A session does not touch the local variables of another. *)
LEMMA OnlyOneMoves ==
    ASSUME TypeOK, NEW s \in Session, Step(s) \/ Die(s) \/ \E b \in Batch : RunBatch(s, b)
    PROVE  OnlySession(s)
<1>1. ASSUME \/ ImportStream(s) \/ ImportRaises(s) \/ SaveDone(s) \/ CheckBatch(s)
             \/ ClearWorkbasket(s) \/ SaveFailed(s)
      PROVE  OnlySession(s)
    BY <1>1, DoImportStream, DoImportRaises, DoSaveDone, DoCheckBatch, DoClearWorkbasket,
       DoSaveFailed
<1>2. ASSUME FindNext(s) \/ StartChunk(s) \/ \E c \in Chunk : PickChunk(s, Line[c])
      PROVE  OnlySession(s)
    BY <1>2, DoFindNext, DoPickChunk, DoStartChunk
<1>3. ASSUME StartImport(s) \/ FinishPlan(s) \/ Die(s) \/ \E b \in Batch : RunBatch(s, b)
      PROVE  OnlySession(s)
    BY <1>3, DoRunBatch, DoStartImport, DoEnd
<1> QED
    BY <1>1, <1>2, <1>3 DEF Step

-----------------------------------------------------------------------------
(* Types.                                                                  *)

(* TypeOK, group by group; SessionTypes is one of the groups.              *)
StatusTypes == status \in [Chunk -> ChunkStatus]
BatchTypes == batch \in [Batch -> BatchStatus] /\ workbasket \in [Owned -> {"EDITING", "ARCHIVED"}]
ContentTypes == contents \in [Workbasket -> SUBSET Chunk]
BrokerTypes == sent \in Seq(Task) /\ unrun \subseteq Batch
CountTypes == failures \in 0..MaxFailures /\ lost \in 0..MaxLost
InPlace(s) ==
    /\ pc[s] # "idle" => task[s].workbasket \in Workbasket
    /\ pc[s] \notin {"idle", "planning", "starting"} => task[s] \in Task /\ seen[s] \in BatchStatus
    /\ pc[s] = "starting" => picked[s] \in Chunk
PlaceTypes == \A s \in Session : InPlace(s)

(* The groups make up TypeOK. *)
LEMMA TypesOfParts ==
    /\ TypeOK <=>
        /\ StatusTypes /\ BatchTypes /\ ContentTypes /\ BrokerTypes /\ CountTypes
        /\ SessionTypes /\ PlaceTypes
    /\ TypeOK' <=>
        /\ StatusTypes' /\ BatchTypes' /\ ContentTypes' /\ BrokerTypes' /\ CountTypes'
        /\ SessionTypes' /\ PlaceTypes'
BY DEF TypeOK, StatusTypes, BatchTypes, ContentTypes, BrokerTypes, CountTypes,
       SessionTypes, PlaceTypes, InPlace

(* What a step leaves alone keeps its type. *)
LEMMA PartsKept ==
    ASSUME TypeOK
    PROVE  /\ UNCHANGED status => StatusTypes'
           /\ UNCHANGED <<batch, workbasket>> => BatchTypes'
           /\ UNCHANGED contents => ContentTypes'
           /\ UNCHANGED <<sent, unrun>> => BrokerTypes'
           /\ UNCHANGED <<failures, lost>> => CountTypes'
           /\ UNCHANGED session => SessionTypes' /\ PlaceTypes'
<1> USE TypesOfParts
<1>1. UNCHANGED status => StatusTypes'
    BY DEF StatusTypes
<1>2. UNCHANGED <<batch, workbasket>> => BatchTypes'
    BY DEF BatchTypes
<1>3. UNCHANGED contents => ContentTypes'
    BY DEF ContentTypes
<1>4. UNCHANGED <<sent, unrun>> => BrokerTypes'
    BY DEF BrokerTypes
<1>5. UNCHANGED <<failures, lost>> => CountTypes'
    BY DEF CountTypes
<1>6. UNCHANGED session => SessionTypes'
    BY DEF SessionTypes, session
<1>7. UNCHANGED session => PlaceTypes'
    BY DEF PlaceTypes, InPlace, session
<1> QED
    BY <1>1, <1>2, <1>3, <1>4, <1>5, <1>6, <1>7

(* The sessions that do not move are where they were. *)
LEMMA OthersInPlace ==
    ASSUME TypeOK, NEW s \in Session, OnlySession(s), InPlace(s)'
    PROVE  PlaceTypes'
<1>1. ASSUME NEW t \in Session, t # s
      PROVE  InPlace(t)'
    <2>1. InPlace(t)
        BY TypesOfParts DEF PlaceTypes
    <2>2. /\ pc'[t] = pc[t] /\ task'[t] = task[t] /\ seen'[t] = seen[t]
          /\ picked'[t] = picked[t]
        BY <1>1 DEF OnlySession
    <2> QED
        BY <2>1, <2>2 DEF InPlace
<1> QED
    BY <1>1 DEF PlaceTypes

(* A session that ends is typed ... *)
LEMMA FinishTypes ==
    ASSUME TypeOK, NEW s \in Session, Finish(s)
    PROVE  SessionTypes' /\ PlaceTypes'
<1>0. SessionTypes
    BY TypesOfParts
<1>1. SessionTypes'
    BY <1>0 DEF SessionTypes, Finish, Goto
<1>2. OnlySession(s) /\ pc'[s] = "idle"
    BY <1>0, Finishes
<1>3. InPlace(s)'
    BY <1>2 DEF InPlace
<1> QED
    BY <1>1, <1>2, <1>3, OthersInPlace

(* ... and so is one that goes on with its task. *)
LEMMA GotoTypes ==
    ASSUME TypeOK, NEW s \in Session, pc[s] \notin {"idle", "planning", "starting"},
           NEW label \in {"done", "checking", "clearing", "archiving", "clearing last",
                          "archiving last", "finding"},
           Goto(s, label), UNCHANGED <<task, seen, plan, picked>>
    PROVE  SessionTypes' /\ PlaceTypes'
<1>0. SessionTypes /\ InPlace(s)
    BY TypesOfParts DEF PlaceTypes
<1>1. SessionTypes'
    BY <1>0 DEF SessionTypes, Goto
<1>2. OnlySession(s) /\ pc'[s] = label
    BY <1>0, GoesOn
<1>3. InPlace(s)'
    BY <1>0, <1>2 DEF InPlace
<1> QED
    BY <1>1, <1>2, <1>3, OthersInPlace

(* The lines a batch may start are lines of chunks. *)
LEMMA NextLinesType ==
    ASSUME NEW b
    PROVE  NextLines(b) \subseteq {Line[c] : c \in Chunk}
<1>1. \A e : LinesToStart(e) \subseteq {Line[c] : c \in Chunk}
    BY DEF LinesToStart, Ready, WithStatus, ChunksOf
<1> QED
    BY <1>1 DEF NextLines

(* A session starts a batch, or takes a task. *)
LEMMA StartTypes ==
    ASSUME TypeOK, NEW s \in Session,
           StartImport(s) \/ \E b \in Batch : RunBatch(s, b)
    PROVE  TypeOK'
<1>0. SessionTypes /\ OnlySession(s)
    BY TypesOfParts, OnlyOneMoves DEF Step
<1>1. ASSUME NEW b \in Batch, RunBatch(s, b)
      PROVE  TypeOK'
    <2> DEFINE t == [chunk |-> None, workbasket |-> IF b \in Owned THEN b ELSE None]
               lines == NextLines(b)
    <2>1. /\ UNCHANGED <<status, batch, workbasket, contents, failures, lost, sent, seen, picked>>
          /\ unrun' \subseteq unrun /\ pc' = [pc EXCEPT ![s] = "planning"]
          /\ task' = [task EXCEPT ![s] = t] /\ plan' = [plan EXCEPT ![s] = lines]
        BY <1>1 DEF RunBatch, rows, Goto
    <2>2. t \in [chunk : {None}, workbasket : Workbasket] /\ t.workbasket \in Workbasket
        BY DEF Workbasket
    <2>3. lines \in SUBSET {Line[c] : c \in Chunk}
        BY NextLinesType
    <2> HIDE DEF t, lines
    <2>4. BrokerTypes'
        BY <2>1, TypesOfParts DEF BrokerTypes
    <2>5. SessionTypes'
        BY <1>0, <2>1, <2>2, <2>3 DEF SessionTypes
    <2>6. InPlace(s)'
        BY <1>0, <2>1, <2>2 DEF SessionTypes, InPlace
    <2> QED
        BY <1>0, <2>1, <2>4, <2>5, <2>6, OthersInPlace, PartsKept, TypesOfParts
<1>2. ASSUME StartImport(s)
      PROVE  TypeOK'
    <2>1. sent \in Seq(Task) /\ sent # << >> /\ sent' = Tail(sent)
        BY <1>2, TypesOfParts DEF StartImport, BrokerTypes
    <2>2. Head(sent) \in Task /\ sent' \in Seq(Task)
        BY <2>1, TakenFromBroker
    <2>3. PICK t \in Task : t = Head(sent)
        BY <2>2
    <2>4. /\ UNCHANGED <<batch, workbasket, contents, unrun, plan, picked, failures, lost>>
          /\ status' = [status EXCEPT ![t.chunk] = "RUNNING"]
          /\ task' = [task EXCEPT ![s] = t] /\ pc' = [pc EXCEPT ![s] = "importing"]
          /\ seen' = [seen EXCEPT ![s] = batch[BatchOf[t.chunk]]]
        BY <1>2, <2>3 DEF StartImport, Goto
    <2>5. t.chunk \in Chunk /\ t.workbasket \in Workbasket
        BY DEF Task
    <2>6. batch[BatchOf[t.chunk]] \in BatchStatus
        BY <2>5, ImportAssumption, TypesOfParts DEF BatchTypes
    <2>7. StatusTypes' /\ BrokerTypes'
        BY <2>2, <2>4, <2>5, TypesOfParts DEF StatusTypes, BrokerTypes, ChunkStatus
    <2>8. SessionTypes'
        BY <1>0, <2>4, <2>6 DEF SessionTypes
    <2>9. InPlace(s)'
        BY <1>0, <2>4, <2>5, <2>6 DEF SessionTypes, InPlace
    <2> QED
        BY <1>0, <2>4, <2>7, <2>8, <2>9, OthersInPlace, PartsKept, TypesOfParts
<1> QED
    BY <1>1, <1>2

(* A session imports its chunk and looks at the batch. *)
LEMMA ImportTypes ==
    ASSUME TypeOK, NEW s \in Session,
           ImportStream(s) \/ ImportRaises(s) \/ SaveDone(s) \/ CheckBatch(s)
    PROVE  TypeOK'
<1>0. task[s].chunk \in Chunk /\ task[s].workbasket \in Workbasket /\ BatchOfTask(s) \in Batch
    BY TaskChunk DEF ImportStream, ImportRaises, SaveDone, CheckBatch
<1>1. ASSUME ImportStream(s)
      PROVE  TypeOK'
    <2>1. /\ pc[s] = "importing" /\ Goto(s, "done")
          /\ UNCHANGED <<status, batch, workbasket, sent, unrun, task, seen, plan, picked,
                         failures, lost>>
        BY <1>1 DEF ImportStream
    <2>2. ContentTypes'
        BY <1>0, <1>1, TypesOfParts DEF ImportStream, ContentTypes
    <2> QED
        BY <2>1, <2>2, GotoTypes, PartsKept, TypesOfParts
<1>2. ASSUME ImportRaises(s)
      PROVE  TypeOK'
    <2>1. /\ pc[s] = "importing" /\ Goto(s, "clearing")
          /\ failures < MaxFailures /\ failures' = failures + 1
          /\ UNCHANGED <<status, batch, workbasket, contents, sent, unrun,
                         task, seen, plan, picked, lost>>
        BY <1>2 DEF ImportRaises, rows
    <2>2. CountTypes'
        BY <2>1, ImportAssumption, TypesOfParts DEF CountTypes
    <2> QED
        BY <2>1, <2>2, GotoTypes, PartsKept, TypesOfParts
<1>3. ASSUME SaveDone(s)
      PROVE  TypeOK'
    <2>1. /\ pc[s] = "done" /\ Goto(s, "checking")
          /\ status' = [status EXCEPT ![task[s].chunk] = "DONE"]
          /\ UNCHANGED <<batch, workbasket, contents, sent, unrun, task, seen, plan, picked,
                         failures, lost>>
        BY <1>3 DEF SaveDone
    <2>2. StatusTypes'
        BY <1>0, <2>1, TypesOfParts DEF StatusTypes, ChunkStatus
    <2> QED
        BY <2>1, <2>2, GotoTypes, PartsKept, TypesOfParts
<1>4. ASSUME CheckBatch(s)
      PROVE  TypeOK'
    <2>1. pc[s] = "checking" /\ UNCHANGED <<status, contents, sent, unrun, failures, lost>>
        BY <1>4 DEF CheckBatch
    <2>2. UNCHANGED <<batch, workbasket>> \/ Succeeded(BatchOfTask(s))
        BY <1>4 DEF CheckBatch
    <2>3. BatchTypes'
        BY <1>0, <2>2, TypesOfParts DEF BatchTypes, Succeeded, BatchStatus
    <2>4. \/ Finish(s)
          \/ /\ UNCHANGED <<task, seen, plan, picked>>
             /\ Goto(s, "finding") \/ Goto(s, "clearing last")
        BY <1>4 DEF CheckBatch
    <2> QED
        BY <2>1, <2>3, <2>4, FinishTypes, GotoTypes, PartsKept, TypesOfParts
<1> QED
    BY <1>1, <1>2, <1>3, <1>4

(* A session ends a batch that failed. *)
LEMMA FailureTypes ==
    ASSUME TypeOK, NEW s \in Session, ClearWorkbasket(s) \/ SaveFailed(s)
    PROVE  TypeOK'
<1>0. task[s].chunk \in Chunk /\ BatchOfTask(s) \in Batch
    BY TaskChunk DEF ClearWorkbasket, SaveFailed
<1>1. ASSUME ClearWorkbasket(s)
      PROVE  TypeOK'
    <2>1. /\ pc[s] \in {"clearing", "clearing last"}
          /\ UNCHANGED <<status, batch, workbasket, sent, unrun, failures, lost>>
        BY <1>1 DEF ClearWorkbasket
    <2>2. \/ UNCHANGED contents
          \/ contents' = [contents EXCEPT ![BatchOfTask(s)] = {}]
        BY <1>1 DEF ClearWorkbasket
    <2>3. ContentTypes'
        BY <2>2, TypesOfParts DEF ContentTypes
    <2>4. \/ Finish(s)
          \/ /\ UNCHANGED <<task, seen, plan, picked>>
             /\ Goto(s, "archiving") \/ Goto(s, "archiving last")
        BY <1>1 DEF ClearWorkbasket
    <2> QED
        BY <2>1, <2>3, <2>4, FinishTypes, GotoTypes, PartsKept, TypesOfParts
<1>2. ASSUME SaveFailed(s)
      PROVE  TypeOK'
    <2>1. /\ pc[s] \in {"archiving", "archiving last"}
          /\ UNCHANGED <<contents, sent, unrun, failures, lost>>
        BY <1>2 DEF SaveFailed
    <2>2. /\ UNCHANGED batch \/ batch' = [batch EXCEPT ![BatchOfTask(s)] = "FAILED"]
          /\ \/ UNCHANGED workbasket
             \/ workbasket' = [workbasket EXCEPT ![BatchOfTask(s)] = "ARCHIVED"]
          /\ UNCHANGED status \/ status' = [status EXCEPT ![task[s].chunk] = "ERRORED"]
        BY <1>2 DEF SaveFailed
    <2>3. BatchTypes' /\ StatusTypes'
        <3>1. BatchTypes /\ StatusTypes
            BY TypesOfParts
        <3>2. batch' \in [Batch -> BatchStatus] /\ status' \in [Chunk -> ChunkStatus]
            BY <2>2, <3>1 DEF BatchTypes, StatusTypes, BatchStatus, ChunkStatus
        <3>3. workbasket' \in [Owned -> {"EDITING", "ARCHIVED"}]
            BY <2>2, <3>1 DEF BatchTypes
        <3> QED
            BY <3>2, <3>3 DEF BatchTypes, StatusTypes
    <2>4. Finish(s) \/ (UNCHANGED <<task, seen, plan, picked>> /\ Goto(s, "finding"))
        BY <1>2 DEF SaveFailed
    <2> QED
        BY <2>1, <2>3, <2>4, FinishTypes, GotoTypes, PartsKept, TypesOfParts
<1> QED
    BY <1>1, <1>2

(* A session plans and starts chunks. *)
LEMMA PlanTypes ==
    ASSUME TypeOK, NEW s \in Session,
           FindNext(s) \/ StartChunk(s) \/ \E c \in Chunk : PickChunk(s, Line[c])
    PROVE  TypeOK'
<1>0. SessionTypes /\ OnlySession(s) /\ InPlace(s)
    BY TypesOfParts, OnlyOneMoves DEF Step, PlaceTypes
<1>1. ASSUME FindNext(s)
      PROVE  TypeOK'
    <2> DEFINE lines == NextLines(BatchOfTask(s))
    <2>1. /\ pc[s] = "finding" /\ pc' = [pc EXCEPT ![s] = "planning"]
          /\ plan' = [plan EXCEPT ![s] = lines]
          /\ UNCHANGED <<status, batch, workbasket, contents, sent, unrun,
                         task, seen, picked, failures, lost>>
        BY <1>1 DEF FindNext, rows, Goto
    <2>2. lines \in SUBSET {Line[c] : c \in Chunk}
        BY NextLinesType
    <2> HIDE DEF lines
    <2>3. SessionTypes'
        BY <1>0, <2>1, <2>2 DEF SessionTypes
    <2>4. InPlace(s)'
        BY <1>0, <2>1 DEF SessionTypes, InPlace
    <2> QED
        BY <1>0, <2>1, <2>3, <2>4, OthersInPlace, PartsKept, TypesOfParts
<1>2. ASSUME NEW line, PickChunk(s, line)
      PROVE  TypeOK'
    <2>1. /\ pc[s] = "planning" /\ plan' = [plan EXCEPT ![s] = @ \ {line}]
          /\ UNCHANGED <<status, batch, workbasket, contents, sent, unrun,
                         task, seen, failures, lost>>
        BY <1>2 DEF PickChunk, rows
    <2>2. \/ UNCHANGED <<pc, picked>>
          \/ \E c \in Chunk : /\ pc' = [pc EXCEPT ![s] = "starting"]
                              /\ picked' = [picked EXCEPT ![s] = c]
        BY <1>2 DEF PickChunk, WithStatus, Goto
    <2>3. SessionTypes'
        BY <1>0, <2>1, <2>2 DEF SessionTypes
    <2>4. InPlace(s)'
        BY <1>0, <2>1, <2>2 DEF SessionTypes, InPlace
    <2> QED
        BY <1>0, <2>1, <2>3, <2>4, OthersInPlace, PartsKept, TypesOfParts
<1>3. ASSUME StartChunk(s)
      PROVE  TypeOK'
    <2> DEFINE t == [chunk |-> picked[s], workbasket |-> task[s].workbasket]
    <2>1. /\ pc[s] = "starting" /\ pc' = [pc EXCEPT ![s] = "planning"]
          /\ status' = [status EXCEPT ![picked[s]] = "RUNNING"]
          /\ sent' = Append(sent, t) /\ picked' = [picked EXCEPT ![s] = None]
          /\ UNCHANGED <<batch, workbasket, contents, unrun, task, seen, plan, failures, lost>>
        BY <1>3 DEF StartChunk, Goto
    <2>2. t \in Task
        BY <1>0, <2>1 DEF InPlace, Task
    <2> HIDE DEF t
    <2>3. BrokerTypes'
        BY <2>1, <2>2, PutInBroker, TypesOfParts DEF BrokerTypes
    <2>4. StatusTypes'
        BY <2>1, TypesOfParts DEF StatusTypes, ChunkStatus
    <2>5. SessionTypes'
        BY <1>0, <2>1 DEF SessionTypes
    <2>6. InPlace(s)'
        BY <1>0, <2>1 DEF SessionTypes, InPlace
    <2> QED
        BY <1>0, <2>1, <2>3, <2>4, <2>5, <2>6, OthersInPlace, PartsKept, TypesOfParts
<1> QED
    BY <1>1, <1>2, <1>3

(* A session ends or dies, or a task is lost. *)
LEMMA EndTypes ==
    ASSUME TypeOK, LoseTask \/ \E s \in Session : FinishPlan(s) \/ Die(s)
    PROVE  TypeOK'
<1>0. \/ UNCHANGED <<failures, lost>>
      \/ UNCHANGED failures /\ lost < MaxLost /\ lost' = lost + 1
    BY DEF LoseTask, FinishPlan, Die
<1>1. CountTypes'
    BY <1>0, ImportAssumption, TypesOfParts DEF CountTypes
<1>2. ASSUME NEW s \in Session, FinishPlan(s) \/ Die(s)
      PROVE  TypeOK'
    <2>1. Finish(s) /\ UNCHANGED <<status, batch, workbasket, contents, sent, unrun>>
        BY <1>2 DEF FinishPlan, Die, rows
    <2> QED
        BY <1>1, <2>1, FinishTypes, PartsKept, TypesOfParts
<1>3. ASSUME LoseTask
      PROVE  TypeOK'
    <2>1. /\ sent # << >> /\ sent' = Tail(sent)
          /\ UNCHANGED <<status, batch, workbasket, contents, unrun, session>>
        BY <1>3 DEF LoseTask, rows
    <2>2. BrokerTypes'
        BY <2>1, TakenFromBroker, TypesOfParts DEF BrokerTypes
    <2> QED
        BY <1>1, <2>1, <2>2, PartsKept, TypesOfParts
<1> QED
    BY <1>2, <1>3

(* Every step keeps the types. *)
LEMMA TypeStep ==
    ASSUME TypeOK, [Next]_vars
    PROVE  TypeOK'
<1>1. CASE UNCHANGED vars
    BY <1>1, PartsKept, TypesOfParts DEF vars, rows
<1> QED
    BY <1>1, StartTypes, ImportTypes, FailureTypes, PlanTypes, EndTypes DEF Next, Step

-----------------------------------------------------------------------------
(* What stays: the status of a finished chunk, and what is imported.       *)

(* Who changes the status of a chunk. *)
LEMMA StatusChange ==
    ASSUME TypeOK, [Next]_vars, NEW c \in Chunk
    PROVE  \/ status'[c] = status[c]
           \/ /\ status'[c] = "RUNNING"
              /\ \E s \in Session : StartImport(s) /\ Sent(1, c) /\ 1 \in 1..Len(sent)
           \/ /\ status'[c] = "RUNNING"
              /\ \E s \in Session : StartChunk(s) /\ Picked(s, c)
           \/ /\ status'[c] = "DONE"
              /\ \E s \in Session : SaveDone(s) /\ Working(s, c) /\ pc[s] = "done"
           \/ /\ status'[c] = "ERRORED"
              /\ \E s \in Session : /\ SaveFailed(s) /\ Working(s, c)
                                    /\ pc[s] = "archiving" /\ pc'[s] = "idle"
<1>0. status \in [Chunk -> ChunkStatus]
    BY HasSessionTypes
<1>1. ASSUME NEW s \in Session, StartImport(s)
      PROVE  \/ status'[c] = status[c]
             \/ status'[c] = "RUNNING" /\ Sent(1, c) /\ 1 \in 1..Len(sent)
    BY <1>0, <1>1, DoStartImport
<1>2. ASSUME NEW s \in Session, SaveDone(s)
      PROVE  \/ status'[c] = status[c]
             \/ status'[c] = "DONE" /\ Working(s, c) /\ pc[s] = "done"
    <2>1. status' = [status EXCEPT ![task[s].chunk] = "DONE"] /\ pc[s] = "done"
        BY <1>2, DoSaveDone
    <2>2. Working(s, task[s].chunk)
        BY <2>1, TaskChunk
    <2> QED
        BY <1>0, <2>1, <2>2
<1>3. ASSUME NEW s \in Session, SaveFailed(s)
      PROVE  \/ status'[c] = status[c]
             \/ /\ status'[c] = "ERRORED" /\ Working(s, c)
                /\ pc[s] = "archiving" /\ pc'[s] = "idle"
    <2>1. \/ UNCHANGED status
          \/ /\ status' = [status EXCEPT ![task[s].chunk] = "ERRORED"]
             /\ pc[s] = "archiving" /\ pc'[s] = "idle"
        BY <1>3, DoSaveFailed
    <2>2. pc[s] = "archiving" => Working(s, task[s].chunk)
        BY TaskChunk
    <2> QED
        BY <1>0, <2>1, <2>2
<1>4. ASSUME NEW s \in Session, StartChunk(s)
      PROVE  \/ status'[c] = status[c]
             \/ status'[c] = "RUNNING" /\ Picked(s, c)
    BY <1>0, <1>4, DoStartChunk
<1>5. UNCHANGED status => status'[c] = status[c]
    OBVIOUS
<1>6. ASSUME NEW s \in Session,
             \/ ImportStream(s) \/ ImportRaises(s) \/ CheckBatch(s) \/ ClearWorkbasket(s)
             \/ FindNext(s) \/ FinishPlan(s) \/ Die(s)
             \/ \E b \in Batch : RunBatch(s, b)
             \/ \E d \in Chunk : PickChunk(s, Line[d])
      PROVE  UNCHANGED status
    BY <1>6 DEF ImportStream, ImportRaises, CheckBatch, ClearWorkbasket, FindNext,
                FinishPlan, Die, RunBatch, PickChunk, rows
<1>7. LoseTask \/ UNCHANGED vars => UNCHANGED status
    BY DEF LoseTask, vars, rows
<1> QED
    BY <1>1, <1>2, <1>3, <1>4, <1>5, <1>6, <1>7 DEF Next, Step

(* Where the batch is a single one, only an unfinished chunk changes.      *)
LEMMA StatusStep ==
    ASSUME TypeOK, TokenStatus, [Next]_vars, NEW c \in Chunk, Single(BatchOf[c])
    PROVE  status'[c] = status[c] \/ status[c] \in {"WAITING", "RUNNING"}
BY StatusChange DEF TokenStatus

(* A single batch that is complete stays so. *)
LEMMA CompleteStays ==
    ASSUME TypeOK, TokenStatus, [Next]_vars, NEW b, Single(b), Complete(b)
    PROVE  Complete(b)'
<1>1. \A c \in ChunksOf(b) : status[c] \notin {"WAITING", "RUNNING", "ERRORED"}
    BY DEF Complete, Unfinished, WithStatus
<1>2. \A c \in ChunksOf(b) : status'[c] = status[c]
    BY <1>1, StatusStep DEF ChunksOf
<1> QED
    BY <1>1, <1>2 DEF Complete, Unfinished, WithStatus, ChunksOf

(* What a workbasket comes to hold, a task has just imported into it. *)
LEMMA NewContents ==
    ASSUME TypeOK, [Next]_vars, NEW w \in Workbasket, NEW c, c \in contents'[w], c \notin contents[w]
    PROVE  \E s \in Session : /\ ImportStream(s) /\ pc[s] = "importing" /\ Working(s, c)
                              /\ task[s].workbasket = w
<1>0. contents \in [Workbasket -> SUBSET Chunk]
    BY HasSessionTypes
<1>1. UNCHANGED contents => FALSE
    OBVIOUS
<1>2. ASSUME NEW s \in Session, ImportStream(s)
      PROVE  /\ pc[s] = "importing" /\ Working(s, c) /\ task[s].workbasket = w
    <2>1. /\ pc[s] = "importing"
          /\ contents' = IF task[s].chunk \in Imported THEN contents
                   ELSE [contents EXCEPT ![task[s].workbasket] = @ \cup {task[s].chunk}]
        BY <1>2, DoImportStream
    <2>2. c = task[s].chunk /\ task[s].workbasket = w
        BY <1>0, <2>1
    <2> QED
        BY <2>1, <2>2 DEF Working
<1>3. ASSUME NEW s \in Session, ClearWorkbasket(s)
      PROVE  FALSE
    <2>1. \/ UNCHANGED contents
          \/ contents' = [contents EXCEPT ![BatchOf[task[s].chunk]] = {}]
        BY <1>3, DoClearWorkbasket
    <2> QED
        BY <1>0, <2>1
<1>4. ASSUME NEW s \in Session,
             \/ StartImport(s) \/ ImportRaises(s) \/ SaveDone(s) \/ CheckBatch(s)
             \/ SaveFailed(s) \/ FindNext(s) \/ StartChunk(s) \/ FinishPlan(s) \/ Die(s)
             \/ \E b \in Batch : RunBatch(s, b)
             \/ \E d \in Chunk : PickChunk(s, Line[d])
      PROVE  UNCHANGED contents
    BY <1>4 DEF StartImport, ImportRaises, SaveDone, CheckBatch, SaveFailed, FindNext,
                StartChunk, FinishPlan, Die, RunBatch, PickChunk, rows
<1>5. LoseTask \/ UNCHANGED vars => UNCHANGED contents
    BY DEF LoseTask, vars, rows
<1> QED
    BY <1>1, <1>2, <1>3, <1>4, <1>5 DEF Next, Step

(* A chunk is found in the database only when its import has just run. *)
LEMMA NewImported ==
    ASSUME TypeOK, [Next]_vars, NEW c, c \in Imported', c \notin Imported
    PROVE  \E s \in Session : ImportStream(s) /\ pc[s] = "importing" /\ Working(s, c)
<1>1. PICK w \in Workbasket : c \in contents'[w]
    BY DEF Imported
<1>2. c \notin contents[w]
    BY DEF Imported
<1> QED
    BY <1>1, <1>2, NewContents

(* ... and after it, it is there. *)
LEMMA StreamImports ==
    ASSUME TypeOK, NEW s \in Session, ImportStream(s), NEW c \in Chunk, Working(s, c)
    PROVE  c \in Imported'
<1>1. /\ contents' = IF c \in Imported THEN contents
                     ELSE [contents EXCEPT ![task[s].workbasket] = @ \cup {c}]
      /\ pc[s] = "importing"
    BY DoImportStream DEF Working
<1>2. task[s].workbasket \in Workbasket /\ contents \in [Workbasket -> SUBSET Chunk]
    BY <1>1, HasSessionTypes
<1>3. CASE c \in Imported
    BY <1>1, <1>3 DEF Imported
<1>4. CASE c \notin Imported
    <2>1. c \in contents'[task[s].workbasket]
        BY <1>1, <1>2, <1>4
    <2> QED
        BY <1>2, <2>1 DEF Imported
<1> QED
    BY <1>3, <1>4

(* What is imported stays, but for a workbasket that is cleared. *)
LEMMA ImportedStays ==
    ASSUME TypeOK, [Next]_vars, NEW w \in Workbasket, NEW c, c \in contents[w]
    PROVE  \/ c \in contents'[w]
           \/ \E s \in Session : /\ ClearWorkbasket(s) /\ w \in Owned
                                 /\ w = BatchOf[task[s].chunk]
<1>0. contents \in [Workbasket -> SUBSET Chunk]
    BY HasSessionTypes
<1>1. UNCHANGED contents => c \in contents'[w]
    OBVIOUS
<1>2. ASSUME NEW s \in Session, ImportStream(s)
      PROVE  c \in contents'[w]
    BY <1>0, <1>2, DoImportStream
<1>3. ASSUME NEW s \in Session, ClearWorkbasket(s)
      PROVE  \/ c \in contents'[w]
             \/ ClearWorkbasket(s) /\ w \in Owned /\ w = BatchOf[task[s].chunk]
    BY <1>0, <1>3, DoClearWorkbasket
<1>4. ASSUME NEW s \in Session,
             \/ StartImport(s) \/ ImportRaises(s) \/ SaveDone(s) \/ CheckBatch(s)
             \/ SaveFailed(s) \/ FindNext(s) \/ StartChunk(s) \/ FinishPlan(s) \/ Die(s)
             \/ \E b \in Batch : RunBatch(s, b)
             \/ \E d \in Chunk : PickChunk(s, Line[d])
      PROVE  UNCHANGED contents
    BY <1>4 DEF StartImport, ImportRaises, SaveDone, CheckBatch, SaveFailed, FindNext,
                StartChunk, FinishPlan, Die, RunBatch, PickChunk, rows
<1>5. LoseTask \/ UNCHANGED vars => UNCHANGED contents
    BY DEF LoseTask, vars, rows
<1> QED
    BY <1>1, <1>2, <1>3, <1>4, <1>5 DEF Next, Step

(* ... which is no loss for a batch that is intact, for one that waits for *)
(* single batches, and where nothing has failed.                           *)
LEMMA KeepsImported ==
    ASSUME TypeOK, Provenance, WaitedFor, TokenStatus, NothingFailed, [Next]_vars,
           NEW c \in Chunk, c \in Imported,
           \/ Single(BatchOf[c]) /\ Intact(BatchOf[c])
           \/ Waiting(BatchOf[c])
           \/ failures = 0
    PROVE  c \in Imported'
<1>1. PICK w \in Workbasket : c \in contents[w]
    BY DEF Imported
<1>2. ASSUME NEW s \in Session, ClearWorkbasket(s), w \in Owned, w = BatchOf[task[s].chunk]
      PROVE  FALSE
    <2>1. pc[s] \in {"clearing", "clearing last"}
        BY <1>2, DoClearWorkbasket
    <2>2. task[s].chunk \in Chunk /\ Working(s, task[s].chunk)
        BY <2>1, TaskChunk
    <2>3. PICK d \in Chunk : d = task[s].chunk /\ Working(s, d) /\ BatchOf[d] = w
        BY <1>2, <2>2
    <2>4. Dependencies[w] = {} /\ w # None
        BY <1>2, ImportAssumption
    <2>5. w = BatchOf[c] \/ w \in Dependencies[BatchOf[c]]
        BY <1>1, <2>4 DEF Provenance, MayHold
    <2>6. CASE Single(BatchOf[c]) /\ Intact(BatchOf[c])
        <3>1. w = BatchOf[c]
            BY <2>5, <2>6 DEF Single
        <3> QED
            BY <2>1, <2>3, <2>6, <3>1 DEF Intact, ChunksOf, Clearing
    <2>7. CASE Waiting(BatchOf[c])
        <3>1. w \in Dependencies[BatchOf[c]] /\ Single(w)
            BY <2>4, <2>5, <2>7 DEF Waiting, Single
        <3>2. Complete(w)
            BY <3>1 DEF WaitedFor, TakenUp
        <3>3. status[d] = "RUNNING"
            BY <2>1, <2>3, <3>1 DEF TokenStatus
        <3> QED
            BY <2>3, <3>2, <3>3 DEF Complete, Unfinished, WithStatus, ChunksOf
    <2>8. CASE failures = 0
        BY <2>1, <2>8 DEF NothingFailed, Clearing
    <2> QED
        BY <2>6, <2>7, <2>8
<1>3. c \in contents'[w]
    BY <1>1, <1>2, ImportedStays
<1> QED
    BY <1>3 DEF Imported

-----------------------------------------------------------------------------
(* Provenance, and the batches that are waited for.                        *)

(* A chunk's objects are only where Provenance says. *)
LEMMA ProvenanceStep ==
    ASSUME TypeOK, Provenance, [Next]_vars
    PROVE  Provenance'
<1>0. contents \in [Workbasket -> SUBSET Chunk]
    BY HasSessionTypes
<1>1. ASSUME NEW c \in Chunk, NEW w \in Workbasket, c \in contents'[w]
      PROVE  MayHold(w, c)
    <2>1. CASE UNCHANGED contents
        BY <1>1, <2>1 DEF Provenance
    <2>2. ASSUME NEW s \in Session, ImportStream(s)
          PROVE  MayHold(w, c)
        <3>1. /\ pc[s] = "importing"
              /\ contents' = IF task[s].chunk \in Imported THEN contents
                   ELSE [contents EXCEPT ![task[s].workbasket] = @ \cup {task[s].chunk}]
            BY <2>2, DoImportStream
        <3>2. CASE c \in contents[w]
            BY <3>2 DEF Provenance
        <3>3. CASE c \notin contents[w]
            <4>1. w = task[s].workbasket /\ c = task[s].chunk
                BY <1>0, <1>1, <3>1, <3>3
            <4> QED
                BY <3>1, <4>1 DEF Provenance, Holds, Working
        <3> QED
            BY <3>2, <3>3
    <2>3. ASSUME NEW s \in Session, ClearWorkbasket(s)
          PROVE  MayHold(w, c)
        <3>1. \/ UNCHANGED contents
              \/ contents' = [contents EXCEPT ![BatchOf[task[s].chunk]] = {}]
            BY <2>3, DoClearWorkbasket
        <3>2. c \in contents[w]
            BY <1>0, <1>1, <3>1
        <3> QED
            BY <3>2 DEF Provenance
    <2>4. ASSUME NEW s \in Session,
                 \/ StartImport(s) \/ ImportRaises(s) \/ SaveDone(s) \/ CheckBatch(s)
                 \/ SaveFailed(s) \/ FindNext(s) \/ StartChunk(s) \/ FinishPlan(s) \/ Die(s)
                 \/ \E b \in Batch : RunBatch(s, b)
                 \/ \E d \in Chunk : PickChunk(s, Line[d])
          PROVE  UNCHANGED contents
        BY <2>4 DEF StartImport, ImportRaises, SaveDone, CheckBatch, SaveFailed, FindNext,
                    StartChunk, FinishPlan, Die, RunBatch, PickChunk, rows
    <2>5. LoseTask \/ UNCHANGED vars => UNCHANGED contents
        BY DEF LoseTask, vars, rows
    <2> QED
        BY <2>1, <2>2, <2>3, <2>4, <2>5 DEF Next, Step
<1>2. ASSUME NEW c \in Chunk, NEW i \in 1..Len(sent'), Sent(i, c)'
      PROVE  MayHold(sent'[i].workbasket, c)
    <2>1. CASE sent' = sent
        BY <1>2, <2>1 DEF Provenance, Sent
    <2>2. ASSUME NEW s \in Session, StartChunk(s)
          PROVE  MayHold(sent'[i].workbasket, c)
        <3>1. PICK d \in Chunk :
                /\ Picked(s, d)
                /\ \/ i \in 1..Len(sent) /\ sent'[i] = sent[i]
                   \/ i = Len(sent) + 1 /\ sent'[i].workbasket = task[s].workbasket
                /\ Sent(i, c) \/ (i = Len(sent) + 1 /\ c = d)
                /\ Len(sent) + 1 \notin 1..Len(sent)
            BY <1>2, <2>2, DoStartChunk
        <3>2. CASE i \in 1..Len(sent)
            BY <3>1, <3>2 DEF Provenance
        <3>3. CASE i = Len(sent) + 1
            BY <3>1, <3>3 DEF Provenance, Holds, Sent
        <3> QED
            BY <3>1, <3>2, <3>3
    <2>3. ASSUME i + 1 \in 1..Len(sent), sent'[i] = sent[i + 1], Sent(i + 1, c)
          PROVE  MayHold(sent'[i].workbasket, c)
        BY <2>3 DEF Provenance
    <2>4. ASSUME NEW s \in Session, StartImport(s)
          PROVE  MayHold(sent'[i].workbasket, c)
        BY <1>2, <2>3, <2>4, DoStartImport
    <2>5. CASE LoseTask
        BY <1>2, <2>3, <2>5, DoLoseTask
    <2>6. ASSUME NEW s \in Session,
                 \/ ImportStream(s) \/ ImportRaises(s) \/ SaveDone(s) \/ CheckBatch(s)
                 \/ ClearWorkbasket(s) \/ SaveFailed(s) \/ FindNext(s) \/ FinishPlan(s)
                 \/ Die(s) \/ \E b \in Batch : RunBatch(s, b)
                 \/ \E d \in Chunk : PickChunk(s, Line[d])
          PROVE  sent' = sent
        BY <2>6 DEF ImportStream, ImportRaises, SaveDone, CheckBatch, ClearWorkbasket,
                    SaveFailed, FindNext, FinishPlan, Die, RunBatch, PickChunk
    <2>7. UNCHANGED vars => sent' = sent
        BY DEF vars
    <2> QED
        BY <2>1, <2>2, <2>4, <2>5, <2>6, <2>7 DEF Next, Step
<1>3. ASSUME NEW c \in Chunk, NEW t \in Session, Holds(t, c)'
      PROVE  MayHold(task'[t].workbasket, c)
    <2>1. ASSUME Holds(t, c), task'[t] = task[t]
          PROVE  MayHold(task'[t].workbasket, c)
        BY <2>1 DEF Provenance
    <2>2. ASSUME NEW s \in Session, OnlySession(s), t # s
          PROVE  MayHold(task'[t].workbasket, c)
        BY <1>3, <2>1, <2>2, OthersKeep
    <2>3. ASSUME NEW b \in Batch, RunBatch(t, b)
          PROVE  MayHold(task'[t].workbasket, c)
        <3>1. Line[c] \in NextLines(b) /\ task'[t].workbasket = IF b \in Owned THEN b ELSE None
            BY <1>3, <2>3, DoRunBatch
        <3>2. BatchOf[c] = b \/ b \in Dependencies[BatchOf[c]]
            BY <3>1, NextLinesAre
        <3> QED
            BY <3>1, <3>2 DEF MayHold
    <2>4. CASE StartImport(t)
        <3>1. PICK d \in Chunk : /\ Sent(1, d) /\ 1 \in 1..Len(sent)
                                 /\ task'[t].workbasket = sent[1].workbasket /\ c = d
            BY <1>3, <2>4, DoStartImport
        <3> QED
            BY <3>1 DEF Provenance
    <2>5. ASSUME pc[t] \notin {"idle", "planning", "starting"}, task'[t] = task[t],
                 c = task[t].chunk
          PROVE  MayHold(task'[t].workbasket, c)
        BY <2>1, <2>5 DEF Holds, Working
    <2>6. CASE \/ ImportStream(t) \/ ImportRaises(t) \/ SaveDone(t) \/ CheckBatch(t)
               \/ ClearWorkbasket(t) \/ SaveFailed(t)
        <3>1. pc[t] \notin {"idle", "planning", "starting"}
            BY <2>6 DEF ImportStream, ImportRaises, SaveDone, CheckBatch, ClearWorkbasket,
                        SaveFailed
        <3>2. task'[t] = task[t] /\ c = task[t].chunk
            BY <1>3, <2>6, DoImportStream, DoImportRaises, DoSaveDone, DoCheckBatch,
               DoClearWorkbasket, DoSaveFailed
        <3> QED
            BY <2>5, <3>1, <3>2
    <2>7. CASE FindNext(t)
        <3> DEFINE e == BatchOf[task[t].chunk]
        <3>1. /\ pc[t] = "finding" /\ task'[t] = task[t] /\ Line[c] \in NextLines(e)
            BY <1>3, <2>7, DoFindNext
        <3>2. task[t].chunk \in Chunk /\ Holds(t, task[t].chunk) /\ e \in Batch
            BY <3>1, TaskChunk DEF Holds
        <3>3. MayHold(task[t].workbasket, task[t].chunk)
            BY <3>2 DEF Provenance
        <3>4. BatchOf[c] = e \/ e \in Dependencies[BatchOf[c]]
            BY <3>1, NextLinesAre
        <3>5. BatchOf[c] \in Batch
            BY ImportAssumption
        <3>6. e \in Dependencies[BatchOf[c]] => Dependencies[e] = {}
            BY <3>5, ImportAssumption
        <3> QED
            BY <3>1, <3>3, <3>4, <3>6 DEF MayHold
    <2>8. ASSUME NEW d \in Chunk, PickChunk(t, Line[d])
          PROVE  MayHold(task'[t].workbasket, c)
        <3>1. task'[t] = task[t] /\ Planned(t, c)
            BY <1>3, <2>8, DoPickChunk DEF Holds
        <3> QED
            BY <2>1, <3>1 DEF Holds
    <2>9. CASE StartChunk(t)
        BY <1>3, <2>1, <2>9, DoStartChunk DEF Holds
    <2>10. CASE FinishPlan(t) \/ Die(t)
        BY <1>3, <2>10, DoEnd
    <2>11. CASE LoseTask \/ UNCHANGED vars
        <3>1. UNCHANGED session
            BY <2>11 DEF LoseTask, vars
        <3> QED
            BY <1>3, <2>1, <3>1 DEF session, Holds, Working, Planned, Picked
    <2>12. ASSUME NEW s \in Session, t # s, Step(s) \/ Die(s) \/ \E b \in Batch : RunBatch(s, b)
           PROVE  OnlySession(s)
        BY <2>12, OnlyOneMoves
    <2> QED
        BY <2>2, <2>3, <2>4, <2>6, <2>7, <2>8, <2>9, <2>10, <2>11, <2>12 DEF Next, Step
<1> QED
    BY <1>1, <1>2, <1>3 DEF Provenance, MayHold

(* A chunk that is taken up is of a batch that waits for nothing. *)
LEMMA TakenUpStep ==
    ASSUME TypeOK, [Next]_vars, NEW c \in Chunk, TakenUp(c)'
    PROVE  TakenUp(c) \/ ~StillRunning(BatchOf[c])
<1>1. CASE c \in Imported'
    <2>1. c \in Imported \/ \E s \in Session : Working(s, c)
        BY <1>1, NewImported
    <2> QED
        BY <2>1 DEF TakenUp, Holds
<1>2. ASSUME NEW t \in Session, Holds(t, c)'
      PROVE  TakenUp(c) \/ ~StillRunning(BatchOf[c])
    <2>1. Holds(t, c) => TakenUp(c)
        BY DEF TakenUp
    <2>2. ASSUME NEW s \in Session, OnlySession(s), t # s
          PROVE  TakenUp(c)
        BY <1>2, <2>1, <2>2, OthersKeep
    <2>3. ASSUME NEW b \in Batch, RunBatch(t, b)
          PROVE  ~StillRunning(BatchOf[c])
        <3>1. Line[c] \in NextLines(b)
            BY <1>2, <2>3, DoRunBatch
        <3> QED
            BY <3>1, NextLinesAre
    <2>4. CASE StartImport(t)
        <3>1. Sent(1, c) /\ 1 \in 1..Len(sent)
            BY <1>2, <2>4, DoStartImport
        <3> QED
            BY <3>1 DEF TakenUp
    <2>5. CASE \/ ImportStream(t) \/ ImportRaises(t) \/ SaveDone(t) \/ CheckBatch(t)
               \/ ClearWorkbasket(t) \/ SaveFailed(t)
        <3>1. pc[t] \notin {"idle", "planning", "starting"}
            BY <2>5 DEF ImportStream, ImportRaises, SaveDone, CheckBatch, ClearWorkbasket,
                        SaveFailed
        <3>2. c = task[t].chunk
            BY <1>2, <2>5, DoImportStream, DoImportRaises, DoSaveDone, DoCheckBatch,
               DoClearWorkbasket, DoSaveFailed
        <3> QED
            BY <2>1, <3>1, <3>2 DEF Holds, Working
    <2>6. CASE FindNext(t)
        <3>1. Line[c] \in NextLines(BatchOf[task[t].chunk])
            BY <1>2, <2>6, DoFindNext
        <3> QED
            BY <3>1, NextLinesAre
    <2>7. ASSUME NEW d \in Chunk, PickChunk(t, Line[d])
          PROVE  TakenUp(c)
        BY <1>2, <2>1, <2>7, DoPickChunk DEF Holds
    <2>8. CASE StartChunk(t)
        BY <1>2, <2>1, <2>8, DoStartChunk DEF Holds
    <2>9. CASE FinishPlan(t) \/ Die(t)
        BY <1>2, <2>9, DoEnd
    <2>10. CASE LoseTask \/ UNCHANGED vars
        <3>1. UNCHANGED session
            BY <2>10 DEF LoseTask, vars
        <3> QED
            BY <1>2, <2>1, <3>1 DEF session, Holds, Working, Planned, Picked
    <2> QED
        BY <2>2, <2>3, <2>4, <2>5, <2>6, <2>7, <2>8, <2>9, <2>10, OnlyOneMoves DEF Next, Step
<1>3. ASSUME NEW i \in 1..Len(sent'), Sent(i, c)'
      PROVE  TakenUp(c)
    <2>1. CASE sent' = sent
        BY <1>3, <2>1 DEF TakenUp, Sent
    <2>2. ASSUME NEW s \in Session, StartChunk(s)
          PROVE  TakenUp(c)
        <3>1. \/ Sent(i, c)
              \/ Picked(s, c)
            BY <1>3, <2>2, DoStartChunk
        <3> QED
            BY <3>1 DEF TakenUp, Holds, Sent
    <2>3. ASSUME NEW s \in Session, StartImport(s)
          PROVE  TakenUp(c)
        BY <1>3, <2>3, DoStartImport DEF TakenUp
    <2>4. CASE LoseTask
        BY <1>3, <2>4, DoLoseTask DEF TakenUp
    <2>5. ASSUME NEW s \in Session,
                 \/ ImportStream(s) \/ ImportRaises(s) \/ SaveDone(s) \/ CheckBatch(s)
                 \/ ClearWorkbasket(s) \/ SaveFailed(s) \/ FindNext(s) \/ FinishPlan(s)
                 \/ Die(s) \/ \E b \in Batch : RunBatch(s, b)
                 \/ \E d \in Chunk : PickChunk(s, Line[d])
          PROVE  sent' = sent
        BY <2>5 DEF ImportStream, ImportRaises, SaveDone, CheckBatch, ClearWorkbasket,
                    SaveFailed, FindNext, FinishPlan, Die, RunBatch, PickChunk
    <2>6. UNCHANGED vars => sent' = sent
        BY DEF vars
    <2> QED
        BY <2>1, <2>2, <2>3, <2>4, <2>5, <2>6 DEF Next, Step
<1> QED
    BY <1>1, <1>2, <1>3 DEF TakenUp

(* A batch that is waited for is complete, and stays so. *)
LEMMA WaitedForStep ==
    ASSUME TypeOK, WaitedFor, TokenStatus, [Next]_vars
    PROVE  WaitedFor'
<1> SUFFICES ASSUME NEW c \in Chunk, TakenUp(c)', NEW b \in Dependencies[BatchOf[c]], Single(b)
             PROVE  Complete(b)'
    BY DEF WaitedFor, Single
<1>1. TakenUp(c) \/ ~StillRunning(BatchOf[c])
    BY TakenUpStep
<1>2. Complete(b)
    BY <1>1 DEF WaitedFor, StillRunning, Complete
<1> QED
    BY <1>2, CompleteStays

-----------------------------------------------------------------------------
(* The one task of a single batch.                                         *)

(* What a session of a single batch comes to hold, it held already, but    *)
(* for what it takes from the broker or from an upload.                    *)
LEMMA HeldBefore ==
    ASSUME TypeOK, [Next]_vars, NEW c \in Chunk, Single(BatchOf[c]),
           NEW t \in Session, Holds(t, c)'
    PROVE  \/ \E d \in Chunk : BatchOf[d] = BatchOf[c] /\ Holds(t, d)
           \/ RunBatch(t, BatchOf[c])
           \/ StartImport(t) /\ Sent(1, c) /\ 1 \in 1..Len(sent)
<1> DEFINE Held == \E d \in Chunk : BatchOf[d] = BatchOf[c] /\ Holds(t, d)
<1>1. Holds(t, c) => Held
    OBVIOUS
<1>2. ASSUME NEW s \in Session, OnlySession(s), t # s
      PROVE  Held
    BY <1>1, <1>2, OthersKeep
<1>3. ASSUME NEW b \in Batch, RunBatch(t, b)
      PROVE  RunBatch(t, BatchOf[c])
    <2>1. Line[c] \in NextLines(b)
        BY <1>3, DoRunBatch
    <2>2. BatchOf[c] = b
        BY <2>1, NextLinesAre DEF Single
    <2> QED
        BY <1>3, <2>2
<1>4. CASE StartImport(t)
    BY <1>4, DoStartImport
<1>5. CASE \/ ImportStream(t) \/ ImportRaises(t) \/ SaveDone(t) \/ CheckBatch(t)
           \/ ClearWorkbasket(t) \/ SaveFailed(t)
    <2>1. pc[t] \notin {"idle", "planning", "starting"}
        BY <1>5 DEF ImportStream, ImportRaises, SaveDone, CheckBatch, ClearWorkbasket,
                    SaveFailed
    <2>2. c = task[t].chunk
        BY <1>5, DoImportStream, DoImportRaises, DoSaveDone, DoCheckBatch,
           DoClearWorkbasket, DoSaveFailed
    <2>3. Holds(t, c)
        BY <2>1, <2>2 DEF Holds, Working
    <2> QED
        BY <1>1, <2>3
<1>6. CASE FindNext(t)
    <2>1. Line[c] \in NextLines(BatchOf[task[t].chunk]) /\ pc[t] = "finding"
        BY <1>6, DoFindNext
    <2>2. BatchOf[c] = BatchOf[task[t].chunk]
        BY <2>1, NextLinesAre DEF Single
    <2>3. task[t].chunk \in Chunk /\ Holds(t, task[t].chunk)
        BY <2>1, TaskChunk DEF Holds
    <2> QED
        BY <2>2, <2>3
<1>7. ASSUME NEW d \in Chunk, PickChunk(t, Line[d])
      PROVE  Held
    <2>1. Holds(t, c)
        BY <1>7, DoPickChunk DEF Holds
    <2> QED
        BY <1>1, <2>1
<1>8. CASE StartChunk(t)
    <2>1. Holds(t, c)
        BY <1>8, DoStartChunk DEF Holds
    <2> QED
        BY <1>1, <2>1
<1>9. CASE FinishPlan(t) \/ Die(t)
    BY <1>9, DoEnd
<1>10. CASE LoseTask \/ UNCHANGED vars
    <2>1. UNCHANGED session
        BY <1>10 DEF LoseTask, vars
    <2>2. Holds(t, c)
        BY <2>1 DEF session, Holds, Working, Planned, Picked
    <2> QED
        BY <1>1, <2>2
<1>11. ASSUME NEW s \in Session, s # t, Step(s) \/ Die(s) \/ \E b \in Batch : RunBatch(s, b)
       PROVE  Held
    BY <1>2, <1>11, OnlyOneMoves
<1> QED
    BY <1>3, <1>4, <1>5, <1>6, <1>7, <1>8, <1>9, <1>10, <1>11 DEF Next, Step, Held


(* The broker has lost its first task. *)
TaskIsTaken == LoseTask \/ \E s \in Session : StartImport(s)

(* A task in the broker was there, or a session has sent it for the chunk  *)
(* it had picked; a task that is taken leaves the others.                  *)
LEMMA SentBefore ==
    ASSUME TypeOK, [Next]_vars, NEW i \in 1..Len(sent'), NEW c, Sent(i, c)'
    PROVE  /\ TaskIsTaken => Sent(i + 1, c) /\ i + 1 \in 1..Len(sent) /\ i + 1 # 1
           /\ ~TaskIsTaken =>
                \/ Sent(i, c) /\ i \in 1..Len(sent)
                \/ \E s \in Session : StartChunk(s) /\ Picked(s, c) /\ i = Len(sent) + 1
<1>1. ASSUME NEW s \in Session, StartImport(s)
      PROVE  Sent(i + 1, c) /\ i + 1 \in 1..Len(sent) /\ i + 1 # 1
    BY <1>1, DoStartImport
<1>2. CASE LoseTask
    BY <1>2, DoLoseTask DEF TaskIsTaken
<1>3. ASSUME NEW s \in Session, StartChunk(s)
      PROVE  Sent(i, c) \/ (Picked(s, c) /\ i = Len(sent) + 1)
    BY <1>3, DoStartChunk
<1>4. CASE sent' = sent
    BY <1>1, <1>2, <1>4 DEF Sent, TaskIsTaken
<1>5. Sent(i, c) => i \in 1..Len(sent)
    BY DEF Sent
<1>6. ASSUME NEW s \in Session,
             \/ ImportStream(s) \/ ImportRaises(s) \/ SaveDone(s) \/ CheckBatch(s)
             \/ ClearWorkbasket(s) \/ SaveFailed(s) \/ FindNext(s) \/ FinishPlan(s)
             \/ Die(s) \/ \E b \in Batch : RunBatch(s, b)
             \/ \E d \in Chunk : PickChunk(s, Line[d])
      PROVE  sent' = sent
    BY <1>6 DEF ImportStream, ImportRaises, SaveDone, CheckBatch, ClearWorkbasket,
                SaveFailed, FindNext, FinishPlan, Die, RunBatch, PickChunk
<1>7. UNCHANGED vars => sent' = sent
    BY DEF vars
<1> QED
    BY <1>1, <1>2, <1>3, <1>4, <1>5, <1>6, <1>7 DEF Next, Step, TaskIsTaken

(* A chunk is picked from a line that was planned. *)
LEMMA PickedBefore ==
    ASSUME TypeOK, [Next]_vars, NEW t \in Session, NEW c \in Chunk, Picked(t, c)'
    PROVE  \/ /\ Picked(t, c)
              /\ \A d \in Chunk : Planned(t, d)' => Planned(t, d)
           \/ \E d \in Chunk : PickChunk(t, Line[d])
<1>0. pc'[t] = "starting"
    BY DEF Picked
<1>1. ASSUME NEW s \in Session, OnlySession(s), t # s
      PROVE  Picked(t, c) /\ \A d \in Chunk : Planned(t, d)' => Planned(t, d)
    BY <1>1, OthersKeep
<1>2. CASE LoseTask \/ UNCHANGED vars
    <2>1. UNCHANGED session
        BY <1>2 DEF LoseTask, vars
    <2> QED
        BY <2>1 DEF session, Planned, Picked
<1>3. ASSUME \/ StartImport(t) \/ ImportStream(t) \/ ImportRaises(t) \/ SaveDone(t)
             \/ CheckBatch(t) \/ ClearWorkbasket(t) \/ SaveFailed(t) \/ FindNext(t)
             \/ StartChunk(t) \/ FinishPlan(t) \/ Die(t) \/ \E b \in Batch : RunBatch(t, b)
      PROVE  FALSE
    <2>1. CASE StartImport(t) \/ StartChunk(t)
        BY <1>0, <2>1, DoStartImport, DoStartChunk
    <2>2. CASE ClearWorkbasket(t) \/ SaveFailed(t) \/ CheckBatch(t)
        BY <1>0, <2>2, DoClearWorkbasket, DoSaveFailed, DoCheckBatch
    <2>3. CASE ImportStream(t) \/ ImportRaises(t) \/ SaveDone(t)
        BY <1>0, <2>3, DoImportStream, DoImportRaises, DoSaveDone
    <2>4. CASE FindNext(t) \/ FinishPlan(t) \/ Die(t) \/ \E b \in Batch : RunBatch(t, b)
        BY <1>0, <2>4, DoFindNext, DoEnd, DoRunBatch
    <2> QED
        BY <1>3, <2>1, <2>2, <2>3, <2>4
<1> QED
    BY <1>1, <1>2, <1>3, OnlyOneMoves DEF Next, Step

(* A single batch never has two tasks: each one starts one. *)
LEMMA OneTokenStep ==
    ASSUME TypeOK, OneToken, [Next]_vars
    PROVE  OneToken'
<1> USE DEF OneToken
<1>1. ASSUME NEW c \in Chunk, Single(BatchOf[c]), BatchOf[c] \in unrun'
      PROVE  /\ \A i \in 1..Len(sent') : ~Sent(i, c)'
             /\ \A s \in Session : ~Holds(s, c)'
    <2>1. BatchOf[c] \in unrun /\ \A s \in Session : ~RunBatch(s, BatchOf[c])
        <3>1. unrun' = unrun \/ \E s \in Session, b \in Batch : RunBatch(s, b)
            BY DEF Next, Step, StartImport, ImportStream, ImportRaises, SaveDone, CheckBatch,
                   ClearWorkbasket, SaveFailed, FindNext, PickChunk, StartChunk, FinishPlan,
                   Die, LoseTask, vars
        <3>2. ASSUME NEW s \in Session, NEW b \in Batch, RunBatch(s, b)
              PROVE  unrun' = unrun \ {b}
            BY <3>2 DEF RunBatch
        <3>3. BatchOf[c] \in Batch
            BY ImportAssumption
        <3> QED
            BY <1>1, <3>1, <3>2, <3>3
    <2>2. \A d \in Chunk : BatchOf[d] = BatchOf[c] =>
            /\ \A i \in 1..Len(sent) : ~Sent(i, d)
            /\ \A s \in Session : ~Holds(s, d)
        BY <1>1, <2>1 DEF UnrunNotStarted
    <2>3. ASSUME NEW i \in 1..Len(sent'), Sent(i, c)'
          PROVE  FALSE
        BY <2>2, <2>3, SentBefore DEF Holds
    <2>4. ASSUME NEW s \in Session, Holds(s, c)'
          PROVE  FALSE
        BY <1>1, <2>1, <2>2, <2>4, HeldBefore
    <2> QED
        BY <2>3, <2>4
<1> SUFFICES ASSUME NEW c \in Chunk, NEW d \in Chunk, BatchOf[c] = BatchOf[d],
                    Single(BatchOf[c])
             PROVE  /\ \A s, t \in Session : Holds(s, c)' /\ Holds(t, d)' => s = t
                    /\ \A s \in Session : Planned(s, c)' => ~Picked(s, d)'
                    /\ \A i, j \in 1..Len(sent') : Sent(i, c)' /\ Sent(j, d)' => i = j
                    /\ \A i \in 1..Len(sent') : Sent(i, c)' =>
                            \A s \in Session : ~Holds(s, d)'
    BY <1>1 DEF OneHolder, OneSent, SentOrHeld, UnrunNotStarted, Single
<1> DEFINE b == BatchOf[c]
<1>2. /\ \A x, y \in Chunk : BatchOf[x] = b /\ BatchOf[y] = b =>
            \A s, t \in Session : Holds(s, x) /\ Holds(t, y) => s = t
      /\ \A x, y \in Chunk : BatchOf[x] = b /\ BatchOf[y] = b =>
            \A s \in Session : Planned(s, x) => ~Picked(s, y)
      /\ \A x, y \in Chunk : BatchOf[x] = b /\ BatchOf[y] = b =>
            \A i, j \in 1..Len(sent) : Sent(i, x) /\ Sent(j, y) => i = j
      /\ \A x, y \in Chunk : BatchOf[x] = b /\ BatchOf[y] = b =>
            \A i \in 1..Len(sent) : Sent(i, x) => \A s \in Session : ~Holds(s, y)
      /\ b \in unrun => \A x \in Chunk : BatchOf[x] = b =>
            /\ \A i \in 1..Len(sent) : ~Sent(i, x)
            /\ \A s \in Session : ~Holds(s, x)
    BY DEF OneHolder, OneSent, SentOrHeld, UnrunNotStarted
<1> HIDE DEF b, OneToken
<1>3. b \in Batch /\ BatchOf[c] = b /\ BatchOf[d] = b
    BY ImportAssumption DEF b
<1>4. ASSUME NEW s \in Session, RunBatch(s, b)
      PROVE  b \in unrun /\ OnlySession(s) /\ pc[s] = "idle" /\ pc'[s] = "planning"
    BY <1>3, <1>4, DoRunBatch
<1>5. ASSUME NEW s \in Session, StartImport(s)
      PROVE  OnlySession(s) /\ pc[s] = "idle" /\ pc'[s] = "importing"
    BY <1>5, DoStartImport
<1>6. ASSUME NEW s \in Session, NEW t \in Session, Holds(s, c)', Holds(t, d)'
      PROVE  s = t
    <2>1. \/ \E x \in Chunk : BatchOf[x] = b /\ Holds(s, x)
          \/ RunBatch(s, b)
          \/ StartImport(s) /\ Sent(1, c) /\ 1 \in 1..Len(sent)
        BY <1>3, <1>6, HeldBefore
    <2>2. \/ \E x \in Chunk : BatchOf[x] = b /\ Holds(t, x)
          \/ RunBatch(t, b)
          \/ StartImport(t) /\ Sent(1, d) /\ 1 \in 1..Len(sent)
        BY <1>3, <1>6, HeldBefore
    <2>3. CASE RunBatch(s, b) /\ RunBatch(t, b)
        BY <1>4, <2>3 DEF OnlySession
    <2>4. CASE StartImport(s) /\ StartImport(t)
        BY <1>5, <2>4 DEF OnlySession
    <2> QED
        BY <1>2, <1>3, <1>4, <2>1, <2>2, <2>3, <2>4
<1>7. ASSUME NEW s \in Session, Planned(s, c)', Picked(s, d)'
      PROVE  FALSE
    <2>1. \/ Picked(s, d) /\ Planned(s, c)
          \/ \E x \in Chunk : PickChunk(s, Line[x])
        BY <1>7, PickedBefore
    <2>2. Line[c] = Line[d]
        BY <1>3, ImportAssumption DEF Single
    <2>3. ASSUME NEW x \in Chunk, PickChunk(s, Line[x])
          PROVE  FALSE
        BY <1>7, <2>2, <2>3, DoPickChunk
    <2> QED
        BY <1>2, <1>3, <2>1, <2>3
<1>8. ASSUME NEW i \in 1..Len(sent'), NEW j \in 1..Len(sent'), Sent(i, c)', Sent(j, d)'
      PROVE  i = j
    <2>1. /\ TaskIsTaken => Sent(i + 1, c) /\ i + 1 \in 1..Len(sent) /\ i + 1 # 1
          /\ ~TaskIsTaken =>
                \/ Sent(i, c) /\ i \in 1..Len(sent)
                \/ \E s \in Session : StartChunk(s) /\ Picked(s, c) /\ i = Len(sent) + 1
        BY <1>8, SentBefore
    <2>2. /\ TaskIsTaken => Sent(j + 1, d) /\ j + 1 \in 1..Len(sent) /\ j + 1 # 1
          /\ ~TaskIsTaken =>
                \/ Sent(j, d) /\ j \in 1..Len(sent)
                \/ \E s \in Session : StartChunk(s) /\ Picked(s, d) /\ j = Len(sent) + 1
        BY <1>8, SentBefore
    <2> QED
        BY <1>2, <1>3, <2>1, <2>2 DEF Holds
<1>9. ASSUME NEW i \in 1..Len(sent'), NEW s \in Session, Sent(i, c)', Holds(s, d)'
      PROVE  FALSE
    <2>1. /\ TaskIsTaken => Sent(i + 1, c) /\ i + 1 \in 1..Len(sent) /\ i + 1 # 1
          /\ ~TaskIsTaken =>
                \/ Sent(i, c) /\ i \in 1..Len(sent)
                \/ \E t \in Session : StartChunk(t) /\ Picked(t, c) /\ i = Len(sent) + 1
        BY <1>9, SentBefore
    <2>2. \/ \E x \in Chunk : BatchOf[x] = b /\ Holds(s, x)
          \/ RunBatch(s, b)
          \/ StartImport(s) /\ Sent(1, d) /\ 1 \in 1..Len(sent)
        BY <1>3, <1>9, HeldBefore
    <2>3. ASSUME NEW t \in Session, StartChunk(t), Picked(t, c)
          PROVE  FALSE
        <3>1. OnlySession(t) /\ pc[t] = "starting" /\ pc'[t] = "planning"
            BY <2>3, DoStartChunk
        <3>2. Holds(t, c)
            BY <2>3 DEF Holds
        <3>3. ~RunBatch(s, b) /\ ~(StartImport(s) /\ Sent(1, d) /\ 1 \in 1..Len(sent))
            BY <1>2, <1>3, <1>4, <3>2
        <3>4. s = t
            BY <1>2, <1>3, <2>2, <3>2, <3>3
        <3>5. Planned(t, d)
            BY <1>9, <2>3, <3>4, DoStartChunk
        <3> QED
            BY <1>2, <1>3, <2>3, <3>5
    <2> QED
        BY <1>2, <1>3, <1>4, <2>1, <2>2, <2>3 DEF TaskIsTaken
<1> QED
    BY <1>6, <1>7, <1>8, <1>9


(* The chunk of a single batch's task has the status that goes with it. *)
LEMMA TokenStatusStep ==
    ASSUME TypeOK, OneToken, TokenStatus, BrokenOrIntact, [Next]_vars
    PROVE  TokenStatus'
<1> SUFFICES ASSUME NEW c \in Chunk, Single(BatchOf[c])
             PROVE  /\ \A i \in 1..Len(sent') : Sent(i, c)' => status'[c] = "RUNNING"
                    /\ \A s \in Session :
                        /\ Working(s, c)' /\ pc'[s] \notin {"checking", "finding"}
                            => /\ status'[c] = "RUNNING"
                               /\ pc'[s] \notin {"clearing last", "archiving last"}
                        /\ Picked(s, c)' => status'[c] = "WAITING"
    BY DEF TokenStatus, Single
<1>1. /\ \A s, t \in Session : Holds(s, c) /\ Holds(t, c) => s = t
      /\ \A i, j \in 1..Len(sent) : Sent(i, c) /\ Sent(j, c) => i = j
      /\ \A i \in 1..Len(sent) : Sent(i, c) => \A s \in Session : ~Holds(s, c)
    BY DEF OneToken, OneHolder, OneSent, SentOrHeld
<1>2. /\ \A i \in 1..Len(sent) : Sent(i, c) => status[c] = "RUNNING"
      /\ \A s \in Session :
            /\ Working(s, c) /\ pc[s] \notin {"checking", "finding"}
                => status[c] = "RUNNING" /\ pc[s] \notin {"clearing last", "archiving last"}
            /\ Picked(s, c) => status[c] = "WAITING"
    BY DEF TokenStatus
<1>3. ASSUME NEW i \in 1..Len(sent'), Sent(i, c)'
      PROVE  status'[c] = "RUNNING"
    <2>1. \/ /\ \E j \in 1..Len(sent) : Sent(j, c)
          \/ \E s \in Session : StartChunk(s) /\ Picked(s, c)
        BY <1>3, SentBefore
    <2>2. CASE \E j \in 1..Len(sent) : Sent(j, c)
        BY <1>1, <1>2, <2>2, StatusChange DEF Holds
    <2>3. ASSUME NEW s \in Session, StartChunk(s), Picked(s, c)
          PROVE  status'[c] = "RUNNING"
        <3>1. status' = [status EXCEPT ![c] = "RUNNING"]
            <4>1. PICK d \in Chunk : Picked(s, d) /\ status' = [status EXCEPT ![d] = "RUNNING"]
                BY <2>3, DoStartChunk
            <4> QED
                BY <2>3, <4>1 DEF Picked
        <3> QED
            BY <3>1, HasSessionTypes
    <2> QED
        BY <2>1, <2>2, <2>3
<1>4. ASSUME NEW t \in Session, Working(t, c)', pc'[t] \notin {"checking", "finding"}
      PROVE  status'[c] = "RUNNING" /\ pc'[t] \notin {"clearing last", "archiving last"}
    <2>0. Holds(t, c)' /\ pc'[t] \notin {"idle", "planning", "starting"}
        BY <1>4 DEF Holds, Working
    <2>1. ASSUME Working(t, c), pc[t] \notin {"checking", "finding"}, ~SaveDone(t), ~SaveFailed(t)
          PROVE  status'[c] = "RUNNING"
        BY <1>1, <1>2, <2>1, StatusChange DEF Holds
    <2>2. ASSUME NEW s \in Session, OnlySession(s), t # s,
                 Step(s) \/ Die(s) \/ \E b \in Batch : RunBatch(s, b)
          PROVE  status'[c] = "RUNNING" /\ pc'[t] \notin {"clearing last", "archiving last"}
        <3>1. Working(t, c) /\ pc'[t] = pc[t]
            BY <1>4, <2>2, OthersKeep
        <3>2. ~SaveDone(t) /\ ~SaveFailed(t)
            <4>1. SaveDone(t) => pc'[t] # pc[t]
                BY DoSaveDone
            <4>2. SaveFailed(t) => pc'[t] # pc[t]
                BY DoSaveFailed
            <4> QED
                BY <3>1, <4>1, <4>2
        <3> QED
            BY <1>2, <1>4, <2>1, <3>1, <3>2
    <2>3. CASE StartImport(t)
        <3>1. /\ pc'[t] = "importing"
              /\ \E d \in Chunk : d = c /\ status' = [status EXCEPT ![d] = "RUNNING"]
            BY <2>0, <2>3, DoStartImport
        <3> QED
            BY <3>1, HasSessionTypes
    <2>4. CASE ImportStream(t) \/ ImportRaises(t)
        <3>1. pc[t] = "importing" /\ c = task[t].chunk /\ UNCHANGED status
                /\ pc'[t] \in {"done", "clearing"}
            BY <2>0, <2>4, DoImportStream, DoImportRaises
        <3>2. Working(t, c)
            BY <3>1 DEF Working
        <3> QED
            BY <1>2, <3>1, <3>2
    <2>5. CASE CheckBatch(t)
        <3>1. /\ pc[t] = "checking" /\ c = task[t].chunk /\ pc'[t] # "idle"
              /\ pc'[t] = "clearing last" => \E d \in ChunksOf(BatchOf[c]) : status[d] = "ERRORED"
              /\ pc'[t] \in {"finding", "clearing last"}
            BY <2>0, <2>5, DoCheckBatch
        <3>2. Working(t, c) /\ BatchOf[c] \in Batch /\ c \in ChunksOf(BatchOf[c])
            BY <3>1, ImportAssumption DEF Working, ChunksOf
        <3>3. ~Broken(BatchOf[c])
            BY <3>1, <3>2 DEF Broken, Holds
        <3>4. Intact(BatchOf[c])
            BY <3>2, <3>3 DEF BrokenOrIntact
        <3> QED
            BY <1>4, <3>1, <3>4 DEF Intact
    <2>6. CASE ClearWorkbasket(t)
        <3>1. /\ pc[t] \in {"clearing", "clearing last"} /\ c = task[t].chunk /\ UNCHANGED status
              /\ pc'[t] = IF pc[t] = "clearing" THEN "archiving" ELSE "archiving last"
            BY <2>0, <2>6, DoClearWorkbasket
        <3>2. Working(t, c)
            BY <3>1 DEF Working
        <3> QED
            BY <1>2, <3>1, <3>2
    <2>7. CASE SaveDone(t) \/ SaveFailed(t) \/ FindNext(t) \/ StartChunk(t) \/ FinishPlan(t)
               \/ Die(t)
        BY <1>4, <2>0, <2>7, DoSaveDone, DoSaveFailed, DoFindNext, DoStartChunk, DoEnd
    <2>8. CASE (\E b \in Batch : RunBatch(t, b)) \/ \E d \in Chunk : PickChunk(t, Line[d])
        BY <1>4, <2>0, <2>8, DoRunBatch, DoPickChunk
    <2>9. CASE LoseTask \/ UNCHANGED vars
        <3>1. UNCHANGED session /\ UNCHANGED status
            BY <2>9 DEF LoseTask, vars, rows
        <3> QED
            BY <1>2, <1>4, <3>1 DEF session, Working
    <2> QED
        BY <2>2, <2>3, <2>4, <2>5, <2>6, <2>7, <2>8, <2>9, OnlyOneMoves DEF Next, Step
<1>5. ASSUME NEW t \in Session, Picked(t, c)'
      PROVE  status'[c] = "WAITING"
    <2>1. CASE Picked(t, c)
        <3>1. ~\E s \in Session : Working(s, c)
            BY <1>1, <2>1 DEF Holds, Working, Picked
        <3>2. ASSUME NEW s \in Session, StartChunk(s), Picked(s, c)
              PROVE  FALSE
            <4>1. s = t
                BY <1>1, <2>1, <3>2 DEF Holds
            <4>2. pc'[s] = "planning"
                BY <3>2, DoStartChunk
            <4> QED
                BY <1>5, <4>1, <4>2 DEF Picked
        <3> QED
            BY <1>1, <1>2, <2>1, <3>1, <3>2, StatusChange DEF Holds
    <2>2. ASSUME NEW d \in Chunk, PickChunk(t, Line[d])
          PROVE  status'[c] = "WAITING"
        BY <1>5, <2>2, DoPickChunk
    <2> QED
        BY <1>5, <2>1, <2>2, PickedBefore
<1> QED
    BY <1>3, <1>4, <1>5

-----------------------------------------------------------------------------
(* Where the task of a session has come from, and who changes a batch.     *)

(* The way of a task through import_chunk. *)
LEMMA WorkingBefore ==
    ASSUME TypeOK, [Next]_vars, NEW t \in Session, NEW c \in Chunk, Working(t, c)'
    PROVE  \/ Working(t, c) /\ pc'[t] = pc[t]
           \/ StartImport(t) /\ Sent(1, c) /\ 1 \in 1..Len(sent) /\ pc'[t] = "importing"
           \/ /\ Working(t, c)
              /\ \/ ImportStream(t) /\ pc[t] = "importing" /\ pc'[t] = "done"
                 \/ ImportRaises(t) /\ pc[t] = "importing" /\ pc'[t] = "clearing"
                 \/ SaveDone(t) /\ pc[t] = "done" /\ pc'[t] = "checking"
                 \/ CheckBatch(t) /\ pc[t] = "checking" /\ pc'[t] = "finding"
                 \/ /\ CheckBatch(t) /\ pc[t] = "checking" /\ pc'[t] = "clearing last"
                    /\ \E d \in ChunksOf(BatchOf[c]) : status[d] = "ERRORED"
                 \/ ClearWorkbasket(t) /\ pc[t] = "clearing" /\ pc'[t] = "archiving"
                 \/ ClearWorkbasket(t) /\ pc[t] = "clearing last" /\ pc'[t] = "archiving last"
                 \/ SaveFailed(t) /\ pc[t] = "archiving last" /\ pc'[t] = "finding"
<1>0. Holds(t, c)' /\ pc'[t] \notin {"idle", "planning", "starting"}
    BY DEF Holds, Working
<1>1. ASSUME NEW s \in Session, s # t, Step(s) \/ Die(s) \/ \E b \in Batch : RunBatch(s, b)
      PROVE  Working(t, c) /\ pc'[t] = pc[t]
    BY <1>1, OnlyOneMoves, OthersKeep
<1>2. CASE StartImport(t)
    BY <1>0, <1>2, DoStartImport
<1>3. CASE ImportStream(t)
    BY <1>0, <1>3, DoImportStream DEF Working
<1>4. CASE ImportRaises(t)
    BY <1>0, <1>4, DoImportRaises DEF Working
<1>5. CASE SaveDone(t)
    BY <1>0, <1>5, DoSaveDone DEF Working
<1>6. CASE CheckBatch(t)
    <2>1. c = task[t].chunk /\ pc[t] = "checking"
        BY <1>0, <1>6, DoCheckBatch
    <2>2. \/ pc'[t] = "finding"
          \/ /\ pc'[t] = "clearing last"
             /\ \E d \in ChunksOf(BatchOf[c]) : status[d] = "ERRORED"
        BY <1>0, <1>6, <2>1, DoCheckBatch
    <2> QED
        BY <1>6, <2>1, <2>2 DEF Working
<1>7. CASE ClearWorkbasket(t)
    <2>1. c = task[t].chunk /\ pc[t] \in {"clearing", "clearing last"}
          /\ pc'[t] = IF pc[t] = "clearing" THEN "archiving" ELSE "archiving last"
        BY <1>0, <1>7, DoClearWorkbasket
    <2> QED
        BY <1>7, <2>1 DEF Working
<1>8. CASE SaveFailed(t)
    <2>1. c = task[t].chunk /\ pc[t] = "archiving last" /\ pc'[t] = "finding"
        BY <1>0, <1>8, DoSaveFailed
    <2> QED
        BY <1>8, <2>1 DEF Working
<1>9. CASE FindNext(t) \/ StartChunk(t) \/ FinishPlan(t) \/ Die(t)
    BY <1>0, <1>9, DoFindNext, DoStartChunk, DoEnd
<1>10. CASE (\E b \in Batch : RunBatch(t, b)) \/ \E d \in Chunk : PickChunk(t, Line[d])
    <2>1. ASSUME NEW d \in Chunk, PickChunk(t, Line[d])
          PROVE  FALSE
        BY <2>1, DoPickChunk
    <2>2. ASSUME NEW b \in Batch, RunBatch(t, b)
          PROVE  FALSE
        BY <1>0, <2>2, DoRunBatch
    <2> QED
        BY <1>10, <2>1, <2>2
<1>11. CASE LoseTask \/ UNCHANGED vars
    <2>1. UNCHANGED session
        BY <1>11 DEF LoseTask, vars
    <2> QED
        BY <2>1 DEF session, Working
<1> QED
    BY <1>1, <1>2, <1>3, <1>4, <1>5, <1>6, <1>7, <1>8, <1>9, <1>10, <1>11 DEF Next, Step

(* A line is planned by find_and_run_next_batch_chunks. *)
LEMMA PlannedBefore ==
    ASSUME TypeOK, [Next]_vars, NEW t \in Session, NEW c \in Chunk, Planned(t, c)'
    PROVE  Planned(t, c) \/ \E b : Line[c] \in NextLines(b)
<1>0. Holds(t, c)' /\ pc'[t] \in {"planning", "starting"}
    BY DEF Holds, Planned
<1>1. ASSUME NEW s \in Session, s # t, Step(s) \/ Die(s) \/ \E b \in Batch : RunBatch(s, b)
      PROVE  Planned(t, c)
    BY <1>1, OnlyOneMoves, OthersKeep
<1>2. CASE StartImport(t) \/ ImportStream(t) \/ ImportRaises(t) \/ SaveDone(t)
    BY <1>0, <1>2, DoStartImport, DoImportStream, DoImportRaises, DoSaveDone
<1>3. CASE CheckBatch(t) \/ ClearWorkbasket(t) \/ SaveFailed(t)
    <2>1. pc'[t] \in {"idle", "finding", "archiving", "archiving last", "clearing last"}
        BY <1>3, DoCheckBatch, DoClearWorkbasket, DoSaveFailed
    <2> QED
        BY <1>0, <2>1
<1>4. CASE FindNext(t)
    BY <1>4, DoFindNext
<1>5. CASE StartChunk(t)
    BY <1>0, <1>5, DoStartChunk
<1>6. CASE FinishPlan(t) \/ Die(t)
    BY <1>0, <1>6, DoEnd
<1>7. ASSUME NEW b \in Batch, RunBatch(t, b)
      PROVE  Line[c] \in NextLines(b)
    BY <1>7, DoRunBatch
<1>8. ASSUME NEW d \in Chunk, PickChunk(t, Line[d])
      PROVE  Planned(t, c)
    BY <1>8, DoPickChunk
<1>9. CASE LoseTask \/ UNCHANGED vars
    <2>1. UNCHANGED session
        BY <1>9 DEF LoseTask, vars
    <2> QED
        BY <2>1 DEF session, Planned
<1> QED
    BY <1>1, <1>2, <1>3, <1>4, <1>5, <1>6, <1>7, <1>8, <1>9 DEF Next, Step

(* A batch succeeds at the end of a task that finds its chunks done, and   *)
(* fails by batch.failed().                                                *)
LEMMA BatchChange ==
    ASSUME TypeOK, [Next]_vars, NEW b \in Batch
    PROVE  \/ batch'[b] = batch[b]
           \/ /\ batch'[b] = "SUCCEEDED"
              /\ \A d \in ChunksOf(b) : status[d] = "DONE" /\ status'[d] = "DONE"
              /\ \E s \in Session, c \in ChunksOf(b) : Working(s, c) /\ pc[s] = "checking"
           \/ /\ batch'[b] = "FAILED"
              /\ UNCHANGED contents
              /\ \E s \in Session, c \in ChunksOf(b) :
                    /\ Working(s, c)
                    /\ \/ pc[s] = "archiving last"
                       \/ pc[s] = "archiving" /\ pc'[s] = "idle"
<1>0. batch \in [Batch -> BatchStatus]
    BY HasSessionTypes
<1>1. ASSUME NEW s \in Session, CheckBatch(s), batch'[b] # batch[b]
      PROVE  /\ batch'[b] = "SUCCEEDED"
             /\ \A d \in ChunksOf(b) : status[d] = "DONE" /\ status'[d] = "DONE"
             /\ Working(s, task[s].chunk) /\ task[s].chunk \in ChunksOf(b)
             /\ pc[s] = "checking"
    <2>1. /\ pc[s] = "checking" /\ UNCHANGED status
          /\ batch' = [batch EXCEPT ![BatchOf[task[s].chunk]] = "SUCCEEDED"]
          /\ \A c \in ChunksOf(BatchOf[task[s].chunk]) : status[c] = "DONE"
        BY <1>1, DoCheckBatch
    <2>2. b = BatchOf[task[s].chunk]
        BY <1>0, <1>1, <2>1
    <2>3. task[s].chunk \in Chunk /\ Working(s, task[s].chunk)
        BY <2>1, TaskChunk
    <2> QED
        BY <1>0, <2>1, <2>2, <2>3 DEF ChunksOf
<1>2. ASSUME NEW s \in Session, SaveFailed(s), batch'[b] # batch[b]
      PROVE  /\ batch'[b] = "FAILED" /\ UNCHANGED contents
             /\ Working(s, task[s].chunk) /\ task[s].chunk \in ChunksOf(b)
             /\ \/ pc[s] = "archiving last"
                \/ pc[s] = "archiving" /\ pc'[s] = "idle"
    <2>1. /\ UNCHANGED contents
          /\ \/ pc[s] = "archiving last"
             \/ pc[s] = "archiving" /\ pc'[s] = "idle"
          /\ batch' = [batch EXCEPT ![BatchOf[task[s].chunk]] = "FAILED"]
        BY <1>2, DoSaveFailed
    <2>2. b = BatchOf[task[s].chunk]
        BY <1>0, <1>2, <2>1
    <2>3. task[s].chunk \in Chunk /\ Working(s, task[s].chunk)
        BY <2>1, TaskChunk
    <2> QED
        BY <1>0, <2>1, <2>2, <2>3 DEF ChunksOf
<1>3. ASSUME NEW s \in Session,
             \/ StartImport(s) \/ ImportStream(s) \/ ImportRaises(s) \/ SaveDone(s)
             \/ ClearWorkbasket(s) \/ FindNext(s) \/ StartChunk(s) \/ FinishPlan(s) \/ Die(s)
             \/ \E e \in Batch : RunBatch(s, e)
             \/ \E d \in Chunk : PickChunk(s, Line[d])
      PROVE  UNCHANGED batch
    BY <1>3 DEF StartImport, ImportStream, ImportRaises, SaveDone, ClearWorkbasket, FindNext,
                StartChunk, FinishPlan, Die, RunBatch, PickChunk, rows
<1>4. LoseTask \/ UNCHANGED vars => UNCHANGED batch
    BY DEF LoseTask, vars, rows
<1> QED
    BY <1>1, <1>2, <1>3, <1>4 DEF Next, Step

(* An upload is run once. *)
LEMMA UnrunShrinks ==
    ASSUME [Next]_vars
    PROVE  unrun' \subseteq unrun
BY DEF Next, Step, RunBatch, StartImport, ImportStream, ImportRaises, SaveDone, CheckBatch,
       ClearWorkbasket, SaveFailed, FindNext, PickChunk, StartChunk, FinishPlan, Die,
       LoseTask, vars

(* Failures are only counted up. *)
LEMMA NoFailureBefore ==
    ASSUME TypeOK, [Next]_vars, failures' = 0
    PROVE  failures = 0 /\ \A s \in Session : ~ImportRaises(s)
<1>1. \A s \in Session : ~ImportRaises(s)
    BY DoImportRaises
<1> QED
    BY <1>1 DEF Next, Step, RunBatch, StartImport, ImportStream, SaveDone, CheckBatch,
       ClearWorkbasket, SaveFailed, FindNext, PickChunk, StartChunk, FinishPlan, Die,
       LoseTask, vars

-----------------------------------------------------------------------------
(* A single batch goes through its chunks in order, and is broken or not.  *)

(* When a single batch comes to a chunk, those before it are finished. *)
LEMMA InSequenceStep ==
    ASSUME TypeOK, TokenStatus, InSequence, [Next]_vars
    PROVE  InSequence'
<1> SUFFICES ASSUME NEW c \in Chunk, Single(BatchOf[c]), NEW d \in BeforeOnLine(c),
                    \/ \E i \in 1..Len(sent') : Sent(i, c)'
                    \/ \E s \in Session :
                        \/ Picked(s, c)'
                        \/ Working(s, c)' /\ pc'[s] \in {"importing", "done"}
             PROVE  status'[d] \notin {"WAITING", "RUNNING"}
    BY DEF InSequence, Single, BeforeOnLine
<1>1. d \in Chunk /\ BatchOf[d] = BatchOf[c]
    BY ImportAssumption DEF BeforeOnLine
<1>2. (\/ \E i \in 1..Len(sent) : Sent(i, c)
       \/ \E s \in Session : \/ Picked(s, c)
                             \/ Working(s, c) /\ pc[s] \in {"importing", "done"})
      => status[d] \notin {"WAITING", "RUNNING"}
    BY DEF InSequence
<1>3. ASSUME NEW i \in 1..Len(sent'), Sent(i, c)'
      PROVE  status[d] \notin {"WAITING", "RUNNING"}
    BY <1>2, <1>3, SentBefore
<1>4. ASSUME NEW s \in Session, Picked(s, c)'
      PROVE  status[d] \notin {"WAITING", "RUNNING"}
    <2>1. ASSUME NEW e \in Chunk, PickChunk(s, Line[e])
          PROVE  status[d] \notin {"WAITING", "RUNNING"}
        BY <1>4, <2>1, DoPickChunk
    <2> QED
        BY <1>2, <1>4, <2>1, PickedBefore
<1>5. ASSUME NEW s \in Session, Working(s, c)', pc'[s] \in {"importing", "done"}
      PROVE  status[d] \notin {"WAITING", "RUNNING"}
    <2>1. \/ Sent(1, c) /\ 1 \in 1..Len(sent)
          \/ Working(s, c) /\ pc[s] \in {"importing", "done"}
        BY <1>5, WorkingBefore
    <2> QED
        BY <1>2, <2>1
<1>6. status[d] \notin {"WAITING", "RUNNING"}
    BY <1>3, <1>4, <1>5
<1> QED
    BY <1>1, <1>6, StatusStep

(* A broken batch stays broken: there is no task left that could go on. *)
LEMMA BrokenStays ==
    ASSUME TypeOK, OneToken, [Next]_vars, NEW b \in Batch, Single(b), Broken(b)
    PROVE  Broken(b)'
<1>1. /\ b \notin unrun /\ batch[b] # "SUCCEEDED"
      /\ \A c \in ChunksOf(b) :
        /\ \A i \in 1..Len(sent) : ~Sent(i, c)
        /\ \A s \in Session : Holds(s, c) => Working(s, c) /\ pc[s] \in {"clearing", "archiving"}
    BY DEF Broken
<1>2. \A c : c \in ChunksOf(b) <=> c \in Chunk /\ BatchOf[c] = b
    BY DEF ChunksOf
<1>3. \A c \in ChunksOf(b), s \in Session : ~Picked(s, c)
    BY <1>1 DEF Holds, Picked
<1>4. b \notin unrun'
    BY <1>1, UnrunShrinks
<1>5. ASSUME NEW c \in ChunksOf(b), NEW i \in 1..Len(sent'), Sent(i, c)'
      PROVE  FALSE
    BY <1>1, <1>3, <1>5, SentBefore
<1>6. ASSUME NEW c \in ChunksOf(b), NEW t \in Session, Holds(t, c)'
      PROVE  Working(t, c)' /\ pc'[t] \in {"clearing", "archiving"}
    <2>1. ~RunBatch(t, b)
        BY <1>1 DEF RunBatch
    <2>2. PICK d \in ChunksOf(b) : Holds(t, d)
        BY <1>1, <1>2, <1>6, <2>1, HeldBefore
    <2>3. Working(t, d) /\ pc[t] \in {"clearing", "archiving"} /\ d \in Chunk
        BY <1>1, <1>2, <2>2
    <2>4. CASE Working(t, c)'
        <3>1. c \in Chunk /\ ~StartImport(t)
            BY <1>2, <2>3 DEF StartImport
        <3> QED
            BY <2>3, <2>4, <3>1, WorkingBefore
    <2>5. CASE ~Working(t, c)'
        <3>1. pc'[t] \in {"planning", "starting"}
            BY <1>6, <2>5 DEF Holds, Planned, Picked
        <3>2. c \in Chunk
            BY <1>2
        <3>3. CASE Picked(t, c)'
            <4>1. PICK e \in Chunk : PickChunk(t, Line[e])
                BY <1>3, <3>2, <3>3, PickedBefore
            <4> QED
                BY <2>3, <4>1, DoPickChunk
        <3>4. CASE Planned(t, c)'
            <4>1. ~Planned(t, c)
                BY <2>3 DEF Planned
            <4>2. pc[t] \notin {"idle", "planning", "starting", "finding"}
                BY <2>3
            <4>3. \A s \in Session : s # t => ~OnlySession(s)
                BY <2>3, <3>1 DEF OnlySession
            <4>4. ~UNCHANGED session
                BY <2>3, <3>1 DEF session
            <4>5. \A s \in Session : Step(s) \/ Die(s) \/ (\E e \in Batch : RunBatch(s, e)) => s = t
                BY <4>3, OnlyOneMoves
            <4>6. Step(t) \/ Die(t) \/ \E e \in Batch : RunBatch(t, e)
                BY <4>4, <4>5 DEF Next, LoseTask, vars
            <4>7. ~(\E e \in Batch : RunBatch(t, e))
                BY <4>2 DEF RunBatch
            <4>8. ~StartImport(t) /\ ~ImportStream(t) /\ ~ImportRaises(t) /\ ~SaveDone(t)
                /\ ~CheckBatch(t) /\ ~FindNext(t) /\ ~StartChunk(t) /\ ~FinishPlan(t)
                /\ ~\E e \in Chunk : PickChunk(t, Line[e])
                BY <2>3 DEF StartImport, ImportStream, ImportRaises, SaveDone, CheckBatch,
                            FindNext, StartChunk, FinishPlan, PickChunk
            <4>9. ~Die(t)
                BY <2>3 DEF Die
            <4>10. ClearWorkbasket(t) \/ SaveFailed(t)
                BY <4>6, <4>7, <4>8, <4>9 DEF Step
            <4> QED
                BY <3>1, <4>10, DoClearWorkbasket, DoSaveFailed
        <3> QED
            BY <1>6, <2>5, <3>3, <3>4 DEF Holds
    <2> QED
        BY <2>4, <2>5
<1>7. ~Complete(b)'
    <2>1. PICK c \in ChunksOf(b) : status[c] \in {"WAITING", "RUNNING", "ERRORED"}
        BY DEF Broken, Complete, Unfinished, WithStatus
    <2>2. ~\E s \in Session : Working(s, c) /\ pc[s] = "done"
        BY <1>1 DEF Holds
    <2>3. status'[c] \in {"WAITING", "RUNNING", "ERRORED"}
        BY <1>2, <2>1, <2>2, StatusChange
    <2> QED
        BY <2>1, <2>3 DEF Complete, Unfinished, WithStatus, ChunksOf
<1>8. batch'[b] # "SUCCEEDED"
    <2>1. ~\E s \in Session, c \in ChunksOf(b) : Working(s, c) /\ pc[s] = "checking"
        BY <1>1 DEF Holds
    <2> QED
        BY <1>1, <2>1, BatchChange
<1> QED
    BY <1>4, <1>5, <1>6, <1>7, <1>8 DEF Broken, ChunksOf

(* An import that raises breaks its batch. *)
LEMMA Breaks ==
    ASSUME TypeOK, OneToken, TokenStatus, SucceededIsDone,
           NEW s \in Session, ImportRaises(s), NEW c \in Chunk, Working(s, c), Single(BatchOf[c])
    PROVE  Broken(BatchOf[c])'
<1> DEFINE b == BatchOf[c]
<1>1. /\ OnlySession(s) /\ UNCHANGED <<status, batch, sent, unrun>>
      /\ pc[s] = "importing" /\ pc'[s] = "clearing"
      /\ \A d \in Chunk : Holds(s, d)' => Working(s, d)'
    BY DoImportRaises
<1>2. status[c] = "RUNNING" /\ Holds(s, c) /\ b \in Batch
    BY <1>1, ImportAssumption DEF TokenStatus, Holds
<1>3. b \notin unrun
    BY <1>2 DEF OneToken, UnrunNotStarted
<1>4. ~Complete(b) /\ ~Complete(b)'
    BY <1>1, <1>2 DEF Complete, Unfinished, WithStatus, ChunksOf
<1>5. batch[b] # "SUCCEEDED"
    BY <1>2, <1>4 DEF SucceededIsDone
<1>6. ASSUME NEW d \in ChunksOf(b)
      PROVE  /\ \A i \in 1..Len(sent') : ~Sent(i, d)'
             /\ \A t \in Session : Holds(t, d)' =>
                    Working(t, d)' /\ pc'[t] \in {"clearing", "archiving"}
    <2>1. d \in Chunk /\ BatchOf[d] = b
        BY DEF ChunksOf
    <2>2. \A i \in 1..Len(sent) : ~Sent(i, d)
        BY <1>2, <2>1 DEF OneToken, SentOrHeld
    <2>3. \A i \in 1..Len(sent') : ~Sent(i, d)'
        BY <1>1, <2>2 DEF Sent
    <2>4. ASSUME NEW t \in Session, t # s
          PROVE  ~Holds(t, d)'
        <3>1. ~Holds(t, d)
            BY <1>2, <2>1, <2>4 DEF OneToken, OneHolder
        <3> QED
            BY <1>1, <2>4, <3>1, OthersKeep
    <2> QED
        BY <1>1, <2>1, <2>3, <2>4
<1>7. ChunksOf(b)' = ChunksOf(b)
    BY DEF ChunksOf
<1> HIDE DEF b
<1>8. Broken(b)'
    BY <1>1, <1>3, <1>4, <1>5, <1>6, <1>7 DEF Broken
<1> QED
    BY <1>8 DEF b

(* A batch of which no import raises stays intact. *)
LEMMA IntactStays ==
    ASSUME TypeOK, Provenance, WaitedFor, TokenStatus, NothingFailed, [Next]_vars,
           NEW b \in Batch, Single(b), Intact(b),
           \A s \in Session, c \in ChunksOf(b) : ~(ImportRaises(s) /\ Working(s, c))
    PROVE  Intact(b)'
<1>1. \A c \in ChunksOf(b) :
        /\ status[c] # "ERRORED"
        /\ status[c] = "DONE" => c \in Imported
        /\ \A s \in Session : Working(s, c) =>
            pc[s] \notin Clearing /\ (pc[s] = "done" => c \in Imported)
    BY DEF Intact
<1> SUFFICES ASSUME NEW c \in Chunk, BatchOf[c] = b
             PROVE  /\ status'[c] # "ERRORED"
                    /\ status'[c] = "DONE" => c \in Imported'
                    /\ \A s \in Session : Working(s, c)' =>
                        pc'[s] \notin Clearing /\ (pc'[s] = "done" => c \in Imported')
    BY DEF Intact, ChunksOf
<1>2. c \in ChunksOf(b)
    BY DEF ChunksOf
<1>3. c \in Imported => c \in Imported'
    BY KeepsImported
<1>4. status'[c] # "ERRORED" /\ (status'[c] = "DONE" => c \in Imported')
    BY <1>1, <1>2, <1>3, StatusChange DEF Clearing
<1>5. ASSUME NEW s \in Session, Working(s, c)'
      PROVE  pc'[s] \notin Clearing /\ (pc'[s] = "done" => c \in Imported')
    <2>1. CASE Working(s, c) /\ pc'[s] = pc[s]
        BY <1>1, <1>2, <1>3, <2>1
    <2>2. CASE ImportStream(s) /\ Working(s, c) /\ pc'[s] = "done"
        BY <2>2, StreamImports DEF Clearing
    <2>3. CASE pc'[s] \in {"importing", "checking", "finding"}
        BY <2>3 DEF Clearing
    <2>4. CASE Working(s, c) /\ pc[s] \in {"clearing", "clearing last", "archiving last"}
        BY <1>1, <1>2, <2>4 DEF Clearing
    <2>5. CASE \E d \in ChunksOf(b) : status[d] = "ERRORED"
        BY <1>1, <2>5
    <2>6. CASE ImportRaises(s) /\ Working(s, c)
        BY <1>2, <2>6
    <2> QED
        BY <1>5, <2>1, <2>2, <2>3, <2>4, <2>5, <2>6, WorkingBefore
<1> QED
    BY <1>4, <1>5

(* A single batch is intact until an import of it raises, and then broken. *)
LEMMA BrokenOrIntactStep ==
    ASSUME TypeOK, Provenance, WaitedFor, OneToken, TokenStatus, NothingFailed,
           SucceededIsDone, BrokenOrIntact, [Next]_vars
    PROVE  BrokenOrIntact'
<1> SUFFICES ASSUME NEW b \in Batch, Single(b)
             PROVE  Broken(b)' \/ Intact(b)'
    BY DEF BrokenOrIntact, Single
<1>1. CASE Broken(b)
    BY <1>1, BrokenStays
<1>2. ASSUME NEW s \in Session, NEW c \in ChunksOf(b), ImportRaises(s), Working(s, c)
      PROVE  Broken(b)'
    BY <1>2, Breaks DEF ChunksOf
<1>3. CASE Intact(b)
    BY <1>2, <1>3, IntactStays
<1> QED
    BY <1>1, <1>3 DEF BrokenOrIntact

-----------------------------------------------------------------------------
(* What is cleared, and what is kept.                                      *)

(* Nobody imports into the workbasket of a single batch that is not        *)
(* complete, but the tasks of that batch.                                  *)
LEMMA NothingAdded ==
    ASSUME TypeOK, Provenance, WaitedFor, [Next]_vars, NEW b \in Owned, Single(b), ~Complete(b),
           \A s \in Session, c \in ChunksOf(b) : Working(s, c) => pc[s] # "importing"
    PROVE  contents'[b] \subseteq contents[b]
<1> SUFFICES ASSUME NEW c, c \in contents'[b], c \notin contents[b]
             PROVE  FALSE
    OBVIOUS
<1>1. PICK s \in Session : pc[s] = "importing" /\ Working(s, c) /\ task[s].workbasket = b
    BY NewContents DEF Workbasket
<1>2. c \in Chunk
    BY <1>1, HasSessionTypes DEF Working
<1>3. MayHold(b, c) /\ TakenUp(c)
    BY <1>1, <1>2 DEF Provenance, TakenUp, Holds
<1>4. b # None
    BY ImportAssumption
<1>5. CASE b = BatchOf[c]
    BY <1>1, <1>2, <1>5 DEF ChunksOf
<1>6. CASE b \in Dependencies[BatchOf[c]]
    BY <1>2, <1>3, <1>6 DEF WaitedFor
<1> QED
    BY <1>3, <1>4, <1>5, <1>6 DEF MayHold

(* What failed() has cleared stays empty. *)
LEMMA ClearedWhenFailedStep ==
    ASSUME TypeOK, Provenance, WaitedFor, OneToken, TokenStatus, BrokenOrIntact,
           ClearedWhenFailed, [Next]_vars
    PROVE  ClearedWhenFailed'
<1> SUFFICES ASSUME NEW b \in Batch, Single(b)
             PROVE  /\ batch'[b] = "FAILED" =>
                        /\ Broken(b)'
                        /\ \A c \in ChunksOf(b), s \in Session : ~Working(s, c)'
                        /\ b \in Owned => contents'[b] = {}
                    /\ \A c \in ChunksOf(b), s \in Session :
                        Working(s, c)' /\ pc'[s] = "archiving" /\ b \in Owned
                            => contents'[b] = {}
    BY DEF ClearedWhenFailed, Single, ChunksOf
<1>1. \A c : c \in ChunksOf(b) <=> c \in Chunk /\ BatchOf[c] = b
    BY DEF ChunksOf
<1>2. contents \in [Workbasket -> SUBSET Chunk] /\ Owned \subseteq Workbasket
    BY HasSessionTypes DEF Workbasket
<1>3. \A c, d \in ChunksOf(b) : \A s, t \in Session : Working(s, c) /\ Working(t, d) => s = t
    BY <1>1 DEF OneToken, OneHolder, Holds
<1>4. ASSUME batch[b] = "FAILED"
      PROVE  /\ Broken(b)'
             /\ \A c \in ChunksOf(b), s \in Session : ~Working(s, c)'
             /\ b \in Owned => contents'[b] = {}
    <2>1. /\ Broken(b) /\ ~Complete(b)
          /\ \A c \in ChunksOf(b), s \in Session : ~Working(s, c)
          /\ b \in Owned => contents[b] = {}
          /\ \A c \in ChunksOf(b) : \A i \in 1..Len(sent) : ~Sent(i, c)
        BY <1>4 DEF ClearedWhenFailed, Broken
    <2>2. \A c \in ChunksOf(b), s \in Session : ~Working(s, c)'
        BY <1>1, <2>1, WorkingBefore
    <2>3. b \in Owned => contents'[b] \subseteq contents[b]
        BY <2>1, NothingAdded
    <2> QED
        BY <2>1, <2>2, <2>3, BrokenStays
<1>5. ASSUME batch[b] # "FAILED", batch'[b] = "FAILED"
      PROVE  /\ Broken(b)'
             /\ \A c \in ChunksOf(b), s \in Session : ~Working(s, c)'
             /\ b \in Owned => contents'[b] = {}
    <2>1. PICK s \in Session, c \in ChunksOf(b) :
            /\ UNCHANGED contents /\ Working(s, c)
            /\ pc[s] = "archiving last" \/ (pc[s] = "archiving" /\ pc'[s] = "idle")
        BY <1>5, BatchChange
    <2>2. pc[s] # "archiving last"
        BY <1>1, <2>1 DEF TokenStatus
    <2>3. pc[s] = "archiving" /\ pc'[s] = "idle"
        BY <2>1, <2>2
    <2>4. Broken(b)
        BY <2>1, <2>3 DEF BrokenOrIntact, Intact, Clearing
    <2>5. \A d \in ChunksOf(b) : \A i \in 1..Len(sent) : ~Sent(i, d)
        BY <2>4 DEF Broken
    <2>6. ASSUME NEW d \in ChunksOf(b), NEW t \in Session, Working(t, d)'
          PROVE  FALSE
        <3>1. Working(t, d)
            BY <1>1, <2>5, <2>6, WorkingBefore
        <3>2. t = s
            BY <1>3, <2>1, <3>1
        <3> QED
            BY <2>3, <2>6, <3>2 DEF Working
    <2>7. b \in Owned => contents'[b] = {}
        BY <2>1, <2>3 DEF ClearedWhenFailed
    <2> QED
        BY <2>4, <2>6, <2>7, BrokenStays
<1>6. ASSUME NEW c \in ChunksOf(b), NEW s \in Session,
             Working(s, c)', pc'[s] = "archiving", b \in Owned
      PROVE  contents'[b] = {}
    <2>1. \/ Working(s, c) /\ pc[s] = "archiving"
          \/ ClearWorkbasket(s) /\ Working(s, c) /\ pc[s] = "clearing"
        BY <1>1, <1>6, WorkingBefore
    <2>2. CASE Working(s, c) /\ pc[s] = "archiving"
        <3>1. contents[b] = {}
            BY <1>6, <2>2 DEF ClearedWhenFailed
        <3>2. status[c] = "RUNNING"
            BY <1>1, <2>2 DEF TokenStatus
        <3>3. ~Complete(b)
            BY <3>2 DEF Complete, Unfinished, WithStatus
        <3>4. \A t \in Session, d \in ChunksOf(b) : Working(t, d) => pc[t] # "importing"
            BY <1>3, <2>2
        <3> QED
            BY <1>6, <3>1, <3>3, <3>4, NothingAdded
    <2>3. CASE ClearWorkbasket(s) /\ Working(s, c)
        <3>1. BatchOf[task[s].chunk] = b
            BY <1>1, <2>3 DEF Working
        <3> QED
            BY <1>2, <1>6, <2>3, <3>1, DoClearWorkbasket
    <2> QED
        BY <2>1, <2>2, <2>3
<1> QED
    BY <1>4, <1>5, <1>6

(* A batch that waits for single batches never loses what it has imported. *)
LEMMA WaitingIntactStep ==
    ASSUME TypeOK, Provenance, WaitedFor, TokenStatus, NothingFailed, WaitingIntact, [Next]_vars
    PROVE  WaitingIntact'
<1> SUFFICES ASSUME NEW c \in Chunk, Waiting(BatchOf[c])
             PROVE  /\ status'[c] = "DONE" => c \in Imported'
                    /\ \A s \in Session : Working(s, c)' /\ pc'[s] = "done" => c \in Imported'
    BY DEF WaitingIntact, Waiting
<1>1. c \in Imported => c \in Imported'
    BY KeepsImported
<1>2. /\ status[c] = "DONE" => c \in Imported
      /\ \A s \in Session : Working(s, c) /\ pc[s] = "done" => c \in Imported
    BY DEF WaitingIntact
<1>3. status'[c] = "DONE" => c \in Imported'
    BY <1>1, <1>2, StatusChange
<1>4. ASSUME NEW s \in Session, Working(s, c)', pc'[s] = "done"
      PROVE  c \in Imported'
    <2>1. \/ Working(s, c) /\ pc[s] = "done"
          \/ ImportStream(s) /\ Working(s, c)
        BY <1>4, WorkingBefore
    <2> QED
        BY <1>1, <1>2, <2>1, StreamImports
<1> QED
    BY <1>3, <1>4

(* As long as no import raises, nothing is cleared. *)
LEMMA NothingFailedStep ==
    ASSUME TypeOK, TypeOK', Provenance, WaitedFor, TokenStatus, NothingFailed, [Next]_vars
    PROVE  NothingFailed'
<1> SUFFICES ASSUME failures' = 0
             PROVE  /\ \A s \in Session : pc'[s] \notin Clearing
                    /\ \A c \in Chunk :
                        /\ status'[c] # "ERRORED"
                        /\ status'[c] = "DONE" => c \in Imported'
                        /\ \A s \in Session :
                            Working(s, c)' /\ pc'[s] = "done" => c \in Imported'
    BY DEF NothingFailed, Clearing
<1>1. failures = 0 /\ \A s \in Session : ~ImportRaises(s)
    BY NoFailureBefore
<1>2. /\ \A s \in Session : pc[s] \notin Clearing
      /\ \A c \in Chunk :
            /\ status[c] # "ERRORED"
            /\ status[c] = "DONE" => c \in Imported
            /\ \A s \in Session : Working(s, c) /\ pc[s] = "done" => c \in Imported
    BY <1>1 DEF NothingFailed
<1>3. ASSUME NEW s \in Session, pc'[s] \in Clearing
      PROVE  FALSE
    <2>1. PICK c \in Chunk : Working(s, c)'
        <3>1. pc'[s] \notin {"idle", "planning", "starting"}
            BY <1>3 DEF Clearing
        <3>2. task'[s] \in Task
            BY <3>1 DEF TypeOK
        <3> QED
            BY <3>1, <3>2 DEF Working, Task
    <2>2. \/ Working(s, c) /\ pc'[s] = pc[s]
          \/ \E d \in ChunksOf(BatchOf[c]) : status[d] = "ERRORED"
          \/ pc[s] \in Clearing
        BY <1>1, <1>3, <2>1, WorkingBefore DEF Clearing
    <2> QED
        BY <1>2, <1>3, <2>2 DEF ChunksOf
<1>4. ASSUME NEW c \in Chunk
      PROVE  /\ status'[c] # "ERRORED"
             /\ status'[c] = "DONE" => c \in Imported'
             /\ \A s \in Session : Working(s, c)' /\ pc'[s] = "done" => c \in Imported'
    <2>1. c \in Imported => c \in Imported'
        BY <1>1, KeepsImported
    <2>2. status'[c] # "ERRORED" /\ (status'[c] = "DONE" => c \in Imported')
        BY <1>2, <2>1, StatusChange DEF Clearing
    <2>3. ASSUME NEW s \in Session, Working(s, c)', pc'[s] = "done"
          PROVE  c \in Imported'
        <3>1. \/ Working(s, c) /\ pc[s] = "done"
              \/ ImportStream(s) /\ Working(s, c)
            BY <2>3, WorkingBefore
        <3> QED
            BY <1>2, <2>1, <3>1, StreamImports
    <2> QED
        BY <2>2, <2>3
<1> QED
    BY <1>3, <1>4

-----------------------------------------------------------------------------
(* What comes before a chunk.                                              *)

(* A chunk is one of the four statuses. *)
LEMMA FinishedIsDone ==
    ASSUME TypeOK, NEW c \in Chunk, status[c] \notin {"WAITING", "RUNNING", "ERRORED"}
    PROVE  status[c] = "DONE"
BY HasSessionTypes DEF ChunkStatus

(* The chunks of a batch that is not split have no record code before      *)
(* theirs.                                                                 *)
LEMMA NoCodeBefore ==
    ASSUME NEW c \in Chunk, BatchOf[c] \notin Split
    PROVE  BeforeByCode(c) = {}
<1> SUFFICES ASSUME NEW d \in Chunk, BatchOf[d] = BatchOf[c],
                    Code[d] \in CodeDependencies[Code[c]]
             PROVE  FALSE
    BY DEF BeforeByCode, ChunksOf
<1>1. Code[d] = Code[c] /\ Code[c] \in Codes
    BY ImportAssumption DEF Codes
<1> QED
    BY <1>1, ImportAssumption

(* What a line that is to be started waits for is done. *)
LEMMA DoneBeforeLine ==
    ASSUME TypeOK, NEW b, NEW c \in Chunk, Line[c] \in NextLines(b),
           NEW d \in BeforeByCode(c) \cup BeforeByBatch(c)
    PROVE  status[d] = "DONE" /\ d \in Chunk
<1>1. ~StillRunning(BatchOf[c]) /\ (BatchOf[c] \in Split => Code[c] \in Unblocked(BatchOf[c]))
    BY NextLinesAre
<1>2. d \in Chunk
    BY DEF BeforeByCode, BeforeByBatch, ChunksOf
<1>3. CASE d \in BeforeByBatch(c)
    <2>1. Unfinished(BatchOf[d]) = {}
        BY <1>1, <1>3 DEF StillRunning, BeforeByBatch
    <2>2. status[d] \notin {"WAITING", "RUNNING", "ERRORED"}
        BY <1>2, <2>1 DEF Unfinished, WithStatus, ChunksOf
    <2> QED
        BY <1>2, <2>2, FinishedIsDone
<1>4. CASE d \in BeforeByCode(c)
    <2>1. BatchOf[c] \in Split
        BY <1>4, NoCodeBefore
    <2>2. d \in ChunksOf(BatchOf[c]) /\ Code[d] \in CodeDependencies[Code[c]]
        BY <1>4 DEF BeforeByCode
    <2>3. d \notin Unfinished(BatchOf[c])
        BY <1>1, <2>1, <2>2 DEF Unblocked
    <2>4. status[d] \notin {"WAITING", "RUNNING", "ERRORED"}
        BY <2>2, <2>3 DEF Unfinished, WithStatus
    <2> QED
        BY <1>2, <2>4, FinishedIsDone
<1> QED
    BY <1>3, <1>4

(* As long as no import raises, a chunk is taken up after all that comes   *)
(* before it has been imported.                                            *)
LEMMA InOrderStep ==
    ASSUME TypeOK, Provenance, WaitedFor, TokenStatus, NothingFailed, InOrder, [Next]_vars
    PROVE  InOrder'
<1> DEFINE Before(c) == BeforeOnLine(c) \cup BeforeByCode(c) \cup BeforeByBatch(c)
           Started(c) == BeforeByCode(c) \cup BeforeByBatch(c)
<1>0. \A c : BeforeOnLine(c) \subseteq Chunk /\ Started(c) \subseteq Chunk
    BY DEF BeforeOnLine, BeforeByCode, BeforeByBatch, ChunksOf
<1> SUFFICES ASSUME failures' = 0, NEW c \in Chunk
             PROVE  /\ (\/ \E i \in 1..Len(sent') : Sent(i, c)'
                        \/ \E s \in Session : Picked(s, c)' \/ Working(s, c)')
                       => Before(c) \subseteq Imported'
                    /\ \A s \in Session : Planned(s, c)' => Started(c) \subseteq Imported'
    BY DEF InOrder, BeforeOnLine, BeforeByCode, BeforeByBatch, ChunksOf
<1>1. failures = 0
    BY NoFailureBefore
<1>2. \A d \in Chunk : d \in Imported => d \in Imported'
    BY <1>1, KeepsImported
<1>3. \A d \in Chunk : status[d] # "ERRORED" /\ (status[d] = "DONE" => d \in Imported)
    BY <1>1 DEF NothingFailed
<1>4. /\ (\/ \E i \in 1..Len(sent) : Sent(i, c)
          \/ \E s \in Session : Picked(s, c) \/ Working(s, c))
         => Before(c) \subseteq Imported
      /\ \A s \in Session : Planned(s, c) => Started(c) \subseteq Imported
    BY <1>1 DEF InOrder
<1> HIDE DEF Before, Started
<1>5. ASSUME NEW i \in 1..Len(sent'), Sent(i, c)'
      PROVE  Before(c) \subseteq Imported
    BY <1>4, <1>5, SentBefore
<1>6. ASSUME NEW s \in Session, Picked(s, c)'
      PROVE  Before(c) \subseteq Imported
    <2>1. ASSUME NEW e \in Chunk, PickChunk(s, Line[e])
          PROVE  Before(c) \subseteq Imported
        <3>1. Planned(s, c) /\ \A d \in BeforeOnLine(c) : status[d] \notin {"WAITING", "RUNNING"}
            BY <1>6, <2>1, DoPickChunk
        <3>2. \A d \in BeforeOnLine(c) : d \in Imported
            BY <1>0, <1>3, <3>1, FinishedIsDone
        <3>3. Started(c) \subseteq Imported
            BY <1>4, <3>1
        <3> QED
            BY <3>2, <3>3 DEF Before, Started
    <2> QED
        BY <1>4, <1>6, <2>1, PickedBefore
<1>7. ASSUME NEW s \in Session, Working(s, c)'
      PROVE  Before(c) \subseteq Imported
    <2>1. Working(s, c) \/ (Sent(1, c) /\ 1 \in 1..Len(sent))
        BY <1>7, WorkingBefore
    <2> QED
        BY <1>4, <2>1
<1>8. ASSUME NEW s \in Session, Planned(s, c)'
      PROVE  Started(c) \subseteq Imported
    <2>1. ASSUME NEW b, Line[c] \in NextLines(b)
          PROVE  Started(c) \subseteq Imported
        BY <1>3, <2>1, DoneBeforeLine DEF Started
    <2> QED
        BY <1>4, <1>8, <2>1, PlannedBefore
<1>9. Before(c) \subseteq Chunk /\ Started(c) \subseteq Chunk
    BY <1>0 DEF Before, Started
<1> QED
    BY <1>2, <1>5, <1>6, <1>7, <1>8, <1>9

(* A batch that has succeeded has all its chunks, and keeps them. *)
LEMMA SucceededStep ==
    ASSUME TypeOK, Provenance, WaitedFor, TokenStatus, WaitingIntact, NothingFailed,
           SucceededIsDone, [Next]_vars
    PROVE  SucceededIsDone'
<1> SUFFICES ASSUME NEW b \in Batch, batch'[b] = "SUCCEEDED"
             PROVE  /\ Single(b) => Complete(b)'
                    /\ Waiting(b) => ChunksOf(b) \subseteq Imported'
                    /\ failures' = 0 => ChunksOf(b) \subseteq Imported'
    BY DEF SucceededIsDone, Single, Waiting, ChunksOf
<1>1. \A c : c \in ChunksOf(b) <=> c \in Chunk /\ BatchOf[c] = b
    BY DEF ChunksOf
<1>2. failures' = 0 => failures = 0
    BY NoFailureBefore
<1>3. /\ Waiting(b) /\ ChunksOf(b) \subseteq Imported => ChunksOf(b) \subseteq Imported'
      /\ failures = 0 /\ ChunksOf(b) \subseteq Imported => ChunksOf(b) \subseteq Imported'
    BY <1>1, KeepsImported
<1>4. CASE batch[b] = "SUCCEEDED"
    BY <1>2, <1>3, <1>4, CompleteStays DEF SucceededIsDone
<1>5. CASE batch[b] # "SUCCEEDED"
    <2>1. \A d \in ChunksOf(b) : status[d] = "DONE" /\ status'[d] = "DONE"
        BY <1>5, BatchChange
    <2>2. Complete(b)'
        BY <2>1 DEF Complete, Unfinished, WithStatus, ChunksOf
    <2>3. Waiting(b) => ChunksOf(b) \subseteq Imported
        BY <1>1, <2>1 DEF WaitingIntact
    <2>4. failures = 0 => ChunksOf(b) \subseteq Imported
        BY <1>1, <2>1 DEF NothingFailed
    <2> QED
        BY <1>2, <1>3, <2>2, <2>3, <2>4
<1> QED
    BY <1>4, <1>5

-----------------------------------------------------------------------------
(* The theorems.                                                           *)

(* Every batch is uploaded, and nothing is imported. *)
LEMMA InitEstablishes ==
    ASSUME Init
    PROVE  IInv
<1>1. /\ \A c \in Chunk : status[c] = "WAITING"
      /\ \A b \in Batch : batch[b] = "IMPORTING" /\ b \in unrun
      /\ \A w \in Workbasket : contents[w] = {}
      /\ Len(sent) = 0 /\ \A s \in Session : pc[s] = "idle"
    BY DEF Init
<1>2. /\ \A c, i : ~Sent(i, c)
      /\ \A c : \A s \in Session : /\ ~Holds(s, c) /\ ~Working(s, c)
                                   /\ ~Planned(s, c) /\ ~Picked(s, c)
      /\ Imported = {}
    BY <1>1 DEF Sent, Holds, Working, Planned, Picked, Imported
<1>3. TypeOK
    <2>1. sent \in Seq(Task)
        BY DEF Init
    <2>2. 0 \in 0..MaxFailures /\ 0 \in 0..MaxLost
        BY ImportAssumption
    <2> QED
        BY <2>1, <2>2 DEF Init, TypeOK, ChunkStatus, BatchStatus
<1>4. Provenance /\ WaitedFor /\ OneToken /\ TokenStatus /\ InSequence
    BY <1>1, <1>2 DEF Provenance, WaitedFor, TakenUp, OneToken, OneHolder, OneSent, SentOrHeld,
                      UnrunNotStarted, TokenStatus, InSequence
<1>5. BrokenOrIntact /\ ClearedWhenFailed
    BY <1>1, <1>2 DEF BrokenOrIntact, Intact, ClearedWhenFailed, ChunksOf
<1>6. WaitingIntact /\ NothingFailed /\ InOrder /\ SucceededIsDone
    BY <1>1, <1>2 DEF WaitingIntact, NothingFailed, Clearing, InOrder, SucceededIsDone
<1> QED
    BY <1>3, <1>4, <1>5, <1>6 DEF IInv

(* IInv is kept by every step of a session, by a task that is lost and by  *)
(* a worker that dies.                                                     *)
LEMMA StepKeeps ==
    ASSUME IInv, [Next]_vars
    PROVE  IInv'
<1>1. TypeOK'
    BY TypeStep DEF IInv
<1>2. Provenance' /\ WaitedFor'
    BY ProvenanceStep, WaitedForStep DEF IInv
<1>3. OneToken' /\ TokenStatus'
    BY OneTokenStep, TokenStatusStep DEF IInv
<1>4. BrokenOrIntact' /\ ClearedWhenFailed'
    BY BrokenOrIntactStep, ClearedWhenFailedStep DEF IInv
<1>5. InSequence' /\ WaitingIntact' /\ InOrder'
    BY InSequenceStep, WaitingIntactStep, InOrderStep DEF IInv
<1>6. NothingFailed' /\ SucceededIsDone'
    BY <1>1, NothingFailedStep, SucceededStep DEF IInv
<1> QED
    BY <1>1, <1>2, <1>3, <1>4, <1>5, <1>6 DEF IInv

(* IInv holds however tasks overlap, and are started twice, fail or are    *)
(* lost.                                                                   *)
THEOREM Invariance == Spec => []IInv
<1>1. Init => IInv
    BY InitEstablishes
<1>2. IInv /\ [Next]_vars => IInv'
    BY StepKeeps
<1> QED
    BY <1>1, <1>2, PTL DEF Spec

(* The variables of an import have their types. *)
THEOREM TypeCorrect == Spec => []TypeOK
<1>1. IInv => TypeOK
    BY DEF IInv
<1> QED
    BY <1>1, Invariance, PTL

(* A single batch that has succeeded or is being imported is not broken,   *)
(* and so what it has done is in the database.                             *)
LEMMA DoneOfIntact ==
    ASSUME IInv, NEW b \in Batch, Single(b), ~Broken(b), NEW c \in ChunksOf(b),
           status[c] \notin {"WAITING", "RUNNING"}
    PROVE  c \in Imported
<1>1. c \in Chunk /\ Intact(b)
    BY DEF IInv, BrokenOrIntact, ChunksOf
<1>2. status[c] # "ERRORED" /\ (status[c] = "DONE" => c \in Imported)
    BY <1>1 DEF Intact
<1> QED
    BY <1>1, <1>2, FinishedIsDone DEF IInv

(* A batch that is SUCCEEDED has all its chunks in the database, if no     *)
(* import has failed, or neither it nor a batch that it waits for is split *)
(* (of a split batch one chunk may fail while others go on); and one that  *)
(* is FAILED, if it is not split, has left nothing in its workbasket once  *)
(* its tasks have ended: under these two conditions succeeded() and        *)
(* failed() tell the truth, whatever order tasks run in.                   *)
THEOREM BatchStatusAlwaysTrue == Spec => []BatchStatusIsTrue
<1>1. ASSUME IInv, NEW b \in Batch, batch[b] = "SUCCEEDED", Undisturbed(b)
      PROVE  ChunksOf(b) \subseteq Imported
    <2>1. /\ Single(b) => Complete(b)
          /\ Waiting(b) => ChunksOf(b) \subseteq Imported
          /\ failures = 0 => ChunksOf(b) \subseteq Imported
        BY <1>1 DEF IInv, SucceededIsDone
    <2>2. failures = 0 \/ Single(b) \/ Waiting(b)
        BY <1>1 DEF Undisturbed, Single, Waiting
    <2>3. CASE Single(b)
        <3>1. ~Broken(b)
            BY <1>1 DEF Broken
        <3>2. \A c \in ChunksOf(b) : status[c] \notin {"WAITING", "RUNNING"}
            BY <2>1, <2>3 DEF Complete, Unfinished, WithStatus
        <3> QED
            BY <1>1, <2>3, <3>1, <3>2, DoneOfIntact
    <2> QED
        BY <2>1, <2>2, <2>3
<1>2. ASSUME IInv, NEW b \in Owned \ Split
      PROVE  Cleared(b)
    <2>1. Single(b) /\ b \in Batch
        BY ImportAssumption DEF Single
    <2> QED
        BY <1>2, <2>1 DEF IInv, ClearedWhenFailed, Cleared
<1>3. IInv => BatchStatusIsTrue
    BY <1>1, <1>2 DEF BatchStatusIsTrue
<1> QED
    BY <1>3, Invariance, PTL

(* A chunk is imported after the chunks with the record codes its own      *)
(* depends on and after the batches its batch waits for, and after the     *)
(* chunks before it on its line where each task starts one: although       *)
(* tasks overlap, are duplicated, fail and are lost.                       *)
LEMMA ImportsInOrder ==
    ASSUME IInv, [Next]_vars, NEW c, c \in Imported', c \notin Imported
    PROVE  /\ Undisturbed(BatchOf[c]) => BeforeByCode(c) \cup BeforeByBatch(c) \subseteq Imported
           /\ Chained(BatchOf[c]) => BeforeOnLine(c) \subseteq Imported
<1> DEFINE b == BatchOf[c]
<1>0. TypeOK
    BY DEF IInv
<1>1. PICK s \in Session : Working(s, c) /\ pc[s] = "importing"
    BY <1>0, NewImported
<1>2. c \in Chunk /\ b \in Batch
    BY <1>0, <1>1, HasSessionTypes, ImportAssumption DEF Working
<1>3. CASE failures = 0
    BY <1>1, <1>2, <1>3 DEF IInv, InOrder
<1>4. ASSUME ({b} \cup Dependencies[b]) \cap Split = {}
      PROVE  BeforeByCode(c) \cup BeforeByBatch(c) \subseteq Imported
    <2>1. BeforeByCode(c) = {}
        BY <1>2, <1>4, NoCodeBefore
    <2>2. ASSUME NEW d \in BeforeByBatch(c)
          PROVE  d \in Imported
        <3>1. d \in Chunk /\ BatchOf[d] \in Dependencies[b]
            BY DEF BeforeByBatch
        <3>2. BatchOf[d] \in Batch /\ Single(BatchOf[d])
            BY <1>2, <1>4, <3>1, ImportAssumption DEF Single
        <3>3. Complete(BatchOf[d])
            BY <1>1, <1>2, <3>1, <3>2 DEF IInv, WaitedFor, TakenUp, Holds
        <3>4. ~Broken(BatchOf[d]) /\ d \in ChunksOf(BatchOf[d])
              /\ status[d] \notin {"WAITING", "RUNNING"}
            BY <3>1, <3>3 DEF Broken, Complete, Unfinished, WithStatus, ChunksOf
        <3> QED
            BY <3>2, <3>4, DoneOfIntact
    <2> QED
        BY <2>1, <2>2
<1>5. ASSUME b \notin Split, Dependencies[b] = {}
      PROVE  BeforeOnLine(c) \subseteq Imported
    <2>1. Single(b)
        BY <1>5 DEF Single
    <2>2. ~Broken(b)
        BY <1>1, <1>2 DEF Broken, Holds, ChunksOf
    <2>3. ASSUME NEW d \in BeforeOnLine(c)
          PROVE  d \in Imported
        <3>1. status[d] \notin {"WAITING", "RUNNING"}
            BY <1>1, <1>2, <2>1 DEF IInv, InSequence
        <3>2. d \in ChunksOf(b)
            BY <1>2, ImportAssumption DEF BeforeOnLine, ChunksOf
        <3> QED
            BY <1>2, <2>1, <2>2, <3>1, <3>2, DoneOfIntact
    <2> QED
        BY <2>3
<1> QED
    BY <1>3, <1>4, <1>5 DEF Undisturbed, Chained

(* The same of every step: chunks are imported in order. *)
THEOREM AlwaysImportedInOrder == Spec => ImportedInOrder
<1>1. ASSUME IInv, [Next]_vars
      PROVE  \A c \in Imported' \ Imported :
                /\ Undisturbed(BatchOf[c]) =>
                        BeforeByCode(c) \cup BeforeByBatch(c) \subseteq Imported
                /\ Chained(BatchOf[c]) => BeforeOnLine(c) \subseteq Imported
    BY <1>1, ImportsInOrder
<1> QED
    BY <1>1, Invariance, PTL DEF Spec, ImportedInOrder
=============================================================================
