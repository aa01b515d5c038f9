----------------------------- MODULE ContractProofs -----------------------------
(***************************************************************************)
(* The outbox implements OutboxContract, with the one worker of            *)
(* Dockerfile.celery: how often an event may be sent, when it is settled   *)
(* and when it may be given up.                                            *)
(***************************************************************************)
EXTENDS SoloProofs

(* Every attempt counted in the row of an event has failed.                 *)
AttemptsFailed == \A o \in DOMAIN outbox : outbox[o].retries <= faults

(* An attempt that is about to be counted has failed too; one that is about  *)
(* to be committed has sent a record, or the broker has lost it.            *)
AttemptView(c) ==
  c.task = "process_outbox_events" =>
    /\ c.pc \in {"rescue", "retry"} => outbox[c.cur].retries + 1 <= faults
    /\ c.pc = "commit" => delivered[c.cur] + faults > 0
    /\ c.pc # "seal"

AttemptInv == AttemptsFailed /\ \A w \in Worker : AttemptView(ctx[w])

-----------------------------------------------------------------------------
(* The invariant is inductive.                                              *)

(* No attempt is counted in a row.                                          *)
RetriesKept ==
  /\ DOMAIN outbox \subseteq DOMAIN outbox'
  /\ \A o \in DOMAIN outbox : outbox'[o].retries = outbox[o].retries
  /\ \A o \in DOMAIN outbox' \ DOMAIN outbox : outbox'[o].retries = 0

LEMMA FaultsCounted ==
  ASSUME TypeOK, TypeOK'
  PROVE  /\ faults \in Nat /\ faults' \in Nat
         /\ \A o \in EventId : delivered[o] \in Nat /\ delivered'[o] \in Nat
         /\ DOMAIN outbox \subseteq EventId /\ DOMAIN outbox' \subseteq EventId
         /\ \A o \in DOMAIN outbox : outbox[o].retries \in Nat
         /\ \A o \in DOMAIN outbox' : outbox'[o].retries \in Nat
<1>1. faults \in Nat /\ faults' \in Nat
  BY StoreAssumption DEF TypeOK, WorldOK
<1>2. \A o \in EventId : delivered[o] \in Nat /\ delivered'[o] \in Nat
  BY DEF TypeOK, WorldOK
<1>3. /\ DOMAIN outbox \subseteq EventId
      /\ \A o \in DOMAIN outbox : outbox[o].retries \in Nat
  BY StoreAssumption DEF TypeOK, TablesOK, IsTable, EventRow, Attempts
<1>4. /\ DOMAIN outbox' \subseteq EventId
      /\ \A o \in DOMAIN outbox' : outbox'[o].retries \in Nat
  BY StoreAssumption DEF TypeOK, TablesOK, IsTable, EventRow, Attempts
<1> QED
  BY <1>1, <1>2, <1>3, <1>4

LEMMA AttemptsStay ==
  ASSUME TypeOK, TypeOK', AttemptsFailed, RetriesKept, Fault \/ UNCHANGED faults
  PROVE  AttemptsFailed'
<1> SUFFICES ASSUME NEW o \in DOMAIN outbox' PROVE outbox'[o].retries <= faults'
  BY DEF AttemptsFailed
<1>1. faults \in Nat /\ faults' \in Nat /\ faults <= faults'
  BY FaultsCounted DEF Fault
<1>2. CASE o \in DOMAIN outbox
  <2>1. /\ outbox'[o].retries = outbox[o].retries /\ outbox[o].retries <= faults
        /\ outbox[o].retries \in Nat
    BY <1>2, FaultsCounted DEF RetriesKept, AttemptsFailed
  <2> QED
    BY <1>1, <2>1
<1>3. CASE o \notin DOMAIN outbox
  BY <1>1, <1>3 DEF RetriesKept
<1> QED
  BY <1>2, <1>3

(* The event that an outbox task has in hand.                               *)
LEMMA EventInHand ==
  ASSUME NEW c, ContextOK(c), c.task = "process_outbox_events",
         c.pc \notin {"idle", "pick"}
  PROVE  c.cur \in DOMAIN outbox
BY DEF ContextOK, ItemIds, JobTasks

LEMMA OneAttempt ==
  ASSUME OneWorker, TypeOK, NEW w \in Worker, NEW c, ctx' = [ctx EXCEPT ![w] = c],
         AttemptsFailed', AttemptView(c)'
  PROVE  AttemptInv'
<1>1. ctx'[w] = c /\ \A x \in Worker : x = w
  BY DEF TypeOK, OneWorker
<1> QED
  BY <1>1 DEF AttemptInv

(* After a failure, whatever the worker is at.                              *)
LEMMA FailedAttempt ==
  ASSUME TypeOK, TypeOK', AttemptsFailed, RetriesKept, Fault, NEW c, ContextOK(c)',
         c.task = "process_outbox_events" => c.pc # "seal" /\ c.cur \notin DOMAIN outbox' \ DOMAIN outbox
  PROVE  AttemptView(c)'
<1> SUFFICES ASSUME c.task = "process_outbox_events"
             PROVE  /\ c.pc \in {"rescue", "retry"} => outbox'[c.cur].retries + 1 <= faults'
                    /\ c.pc = "commit" => delivered'[c.cur] + faults' > 0
  BY DEF AttemptView
<1>1. faults' = faults + 1 /\ faults \in Nat
  BY FaultsCounted DEF Fault
<1>2. c.pc \notin {"idle", "pick"} => c.cur \in DOMAIN outbox'
  BY DEF ContextOK, ItemIds, JobTasks
<1>3. ASSUME c.pc \in {"rescue", "retry"} PROVE outbox'[c.cur].retries + 1 <= faults'
  <2>1. c.cur \in DOMAIN outbox
    BY <1>2, <1>3
  <2>2. /\ outbox'[c.cur].retries = outbox[c.cur].retries
        /\ outbox[c.cur].retries <= faults /\ outbox[c.cur].retries \in Nat
    BY <2>1, FaultsCounted DEF RetriesKept, AttemptsFailed
  <2> QED
    BY <1>1, <2>2
<1>4. ASSUME c.pc = "commit" PROVE delivered'[c.cur] + faults' > 0
  <2>1. delivered'[c.cur] \in Nat
    BY <1>2, <1>4, FaultsCounted
  <2> QED
    BY <1>1, <2>1
<1> QED
  BY <1>3, <1>4

(* A worker that goes neither to the bookkeeping nor to the commit.          *)
LEMMA EasyAttempt ==
  ASSUME NEW c, c.task # "process_outbox_events" \/ c.pc \notin {"rescue", "retry", "commit", "seal"}
  PROVE  AttemptView(c)'
BY DEF AttemptView

LEMMA AttemptsUntouched == ASSUME UNCHANGED outbox PROVE RetriesKept
BY DEF RetriesKept

LEMMA MovedContext ==
  ASSUME TypeOK, TypeOK', NEW w \in Worker, NEW c, ctx' = [ctx EXCEPT ![w] = c]
  PROVE  ContextOK(c)'
<1>1. ctx'[w] = c
  BY DEF TypeOK
<1> QED
  BY <1>1 DEF TypeOK

(* A step of the body that fails is fine, and so is one of another task, or  *)
(* one that goes to neither the bookkeeping nor the commit.                 *)
LEMMA AdvanceAttempt ==
  ASSUME OneWorker, TypeOK, TypeOK', AttemptInv, NEW w \in Worker, Advance(w),
         RetriesKept, Fault \/ UNCHANGED faults,
         ctx[w].task = "process_outbox_events" =>
           \/ Fault /\ \A p \in Working : ctx' # Goto(w, p)
           \/ ctx' \in {Goto(w, "release"), Closed(w), Aborted(w)}
  PROVE  AttemptInv'
<1>1. AttemptsFailed'
  BY AttemptsStay DEF AttemptInv
<1>2. PICK c : /\ ctx' = [ctx EXCEPT ![w] = c]
               /\ c.task = ctx[w].task /\ c.cur = ctx[w].cur
               /\ \/ c.pc = "rescue" /\ ctx' = Failed(w)
                  \/ c.pc = "release"
                  \/ c.pc \in Working /\ ctx' = Goto(w, c.pc)
  BY AdvancePc
<1>3. CASE ctx[w].task # "process_outbox_events" \/ c.pc = "release"
  BY <1>1, <1>2, <1>3, EasyAttempt, OneAttempt
<1>4. CASE /\ ctx[w].task = "process_outbox_events" /\ Fault
           /\ \A p \in Working : ctx' # Goto(w, p)
  <2>1. c.pc \in {"rescue", "release"}
    BY <1>2, <1>4
  <2>2. CASE c.pc = "rescue"
    <3>1. ctx[w].pc \notin {"idle", "pick"}
      <4>1. ContextOK(ctx[w]) /\ ContextOK(c)'
        BY <1>2, MovedContext DEF TypeOK
      <4>2. c.cur # Nil
        BY <2>2, <4>1 DEF ContextOK
      <4> QED
        BY <1>2, <4>1, <4>2 DEF ContextOK
    <3>2. c.cur \in DOMAIN outbox
      BY <1>2, <1>4, <3>1, EventInHand DEF TypeOK
    <3>3. AttemptView(c)'
      BY <1>2, <1>4, <2>2, <3>2, FailedAttempt, MovedContext DEF AttemptInv
    <3> QED
      BY <1>1, <1>2, <3>3, OneAttempt
  <2> QED
    BY <1>3, <2>1, <2>2
<1>5. CASE ctx' \in {Goto(w, "release"), Closed(w), Aborted(w)}
  <2>1. ctx'[w].pc = "release"
    <3>1. DOMAIN ctx[w] = DOMAIN Idle /\ w \in DOMAIN ctx
      BY DEF TypeOK, ContextOK
    <3> QED
      BY <1>5, <3>1 DEF Goto, Closed, Aborted, Idle
  <2>2. c.pc = "release"
    BY <1>2, <2>1 DEF TypeOK
  <2> QED
    BY <1>3, <2>2
<1> QED
  BY <1>3, <1>4, <1>5

LEMMA LoopAttempt ==
  ASSUME OneWorker, TypeOK, TypeOK', AttemptInv, NEW w \in Worker,
         Start(w) \/ LoopStep(w) \/ Crash(w)
  PROVE  AttemptInv'
<1>0. ContextOK(ctx[w]) /\ AttemptView(ctx[w])
  BY DEF TypeOK, AttemptInv
<1>1. UNCHANGED outbox /\ UNCHANGED delivered /\ (Fault \/ UNCHANGED faults)
  BY LoopWritesNothing, LoopSettled DEF db
<1>2. RetriesKept /\ AttemptsFailed'
  BY <1>1, AttemptsUntouched, AttemptsStay DEF AttemptInv
<1>3. PICK c : ctx' = [ctx EXCEPT ![w] = c] /\ LoopMove(w, c)
  BY LoopMoves
<1>4. CASE c.pc \notin {"init", "cut", "seal", "commit", "rescue", "retry"}
  BY <1>2, <1>3, <1>4, EasyAttempt, OneAttempt
<1>5. CASE /\ c.task = ctx[w].task /\ c.cur = ctx[w].cur
           /\ ctx[w].pc = "seal" /\ c.pc = "commit"
  <2>1. c.task # "process_outbox_events"
    BY <1>0, <1>5 DEF AttemptView
  <2> QED
    BY <1>2, <1>3, <2>1, EasyAttempt, OneAttempt
<1>6. CASE /\ c.task = ctx[w].task /\ c.cur = ctx[w].cur
           /\ ctx[w].pc = "rescue" /\ c.pc = "retry" /\ UNCHANGED faults
  <2>1. PICK o : o = ctx[w].cur
    OBVIOUS
  <2>2. ctx[w].task = "process_outbox_events" => outbox[o].retries + 1 <= faults
    BY <1>0, <1>6, <2>1 DEF AttemptView
  <2>3. AttemptView(c)'
    BY <1>1, <1>6, <2>1, <2>2 DEF AttemptView
  <2> QED
    BY <1>2, <1>3, <2>3, OneAttempt
<1>7. CASE /\ c.task = ctx[w].task /\ c.cur = ctx[w].cur
           /\ ctx[w].pc \notin {"idle", "pick"} /\ c.pc = "rescue" /\ Fault
  <2>1. c.task = "process_outbox_events" => c.cur \in DOMAIN outbox
    BY <1>0, <1>7, EventInHand
  <2>2. AttemptView(c)'
    BY <1>2, <1>3, <1>7, <2>1, FailedAttempt, MovedContext DEF AttemptInv
  <2> QED
    BY <1>2, <1>3, <2>2, OneAttempt
<1> QED
  BY <1>3, <1>4, <1>5, <1>6, <1>7 DEF LoopMove

-----------------------------------------------------------------------------
(* The steps of the tasks.                                                  *)

(* The steps that write no event.                                           *)
LEMMA EventsUntouched ==
  ASSUME NEW w \in Worker, TaskStep(w), ~AnnounceCompleted(w), ~AnnounceFailed(w),
         ~CommitProcessed(w), ~RetryEvent(w)
  PROVE  UNCHANGED outbox
<1>1. CASE Works(w)
  BY <1>1, WorkWritesNothing DEF db
<1>2. CASE CommitTasks(w) \/ RetryJob(w) \/ CommitUpload(w) \/ RetryTranscode(w)
  BY <1>2 DEF CommitTasks, RetryJob, CommitUpload, RetryTranscode
<1>3. CASE CommitUploaded(w) \/ RetryUpload(w) \/ CommitCompleted(w) \/ ProbeFails(w)
  BY <1>3 DEF CommitUploaded, RetryUpload, CommitCompleted, ProbeFails
<1> QED
  BY <1>1, <1>2, <1>3
     DEF TaskStep, QueuedJobsStep, TranscodeTasksStep, UploadTasksStep, CompletedJobsStep,
         FailedJobsStep, OutboxEventsStep, Works

LEMMA StepRetries ==
  ASSUME TypeOK, NEW w \in Worker, TaskStep(w), ~RetryEvent(w) PROVE RetriesKept
<1>1. CASE CommitProcessed(w)
  BY <1>1, Tables DEF CommitProcessed, RetriesKept, IsTable, EventRow, Assign
<1>2. CASE AnnounceCompleted(w) \/ AnnounceFailed(w)
  <2>1. PICK topic, ids : outbox' = Insert(outbox, ids, NewEvent(topic))
    BY <1>2 DEF AnnounceCompleted, AnnounceFailed, CommitAnnouncement
  <2> QED
    BY <2>1 DEF Insert, NewEvent, RetriesKept
<1> QED
  BY <1>1, <1>2, EventsUntouched, AttemptsUntouched

(* What a step of a task may send, and how it may fail.                     *)
LEMMA TaskStepFaults ==
  ASSUME NEW w \in Worker, TaskStep(w)
  PROVE  /\ Fault \/ UNCHANGED faults
         /\ ~Publish(w) => UNCHANGED delivered
<1>1. CASE QueuedJobsStep(w) \/ TranscodeTasksStep(w) \/ UploadTasksStep(w)
  BY <1>1 DEF QueuedJobsStep, Download, GenerateInit, CutSegments, CommitTasks, RetryJob,
              TranscodeTasksStep, Transcode, CommitUpload, RetryTranscode, UploadTasksStep,
              UploadFiles, CommitUploaded, RetryUpload, AfterCommit, world
<1>2. CASE CompletedJobsStep(w) \/ FailedJobsStep(w)
  BY <1>2 DEF CompletedJobsStep, Check, CommitCompleted, PrepareManifest, ProbeFails,
              AnnounceCompleted, FailedJobsStep, CleanUp, AnnounceFailed,
              CommitAnnouncement, AfterCommit, world
<1>3. CASE OutboxEventsStep(w)
  BY <1>3 DEF OutboxEventsStep, SkipEvent, Publish, PublishFails, CommitProcessed,
              RetryEvent, AfterCommit, world
<1> QED
  BY <1>1, <1>2, <1>3 DEF TaskStep

LEMMA PublishAttempt ==
  ASSUME OneWorker, TypeOK, TypeOK', AttemptInv, NEW w \in Worker, Publish(w)
  PROVE  AttemptInv'
<1>1. PICK c : /\ ctx' = [ctx EXCEPT ![w] = c] /\ c.cur = Cur(w)
               /\ c.task = "process_outbox_events" /\ c.pc = "commit"
  <2> DEFINE d == [ctx[w] EXCEPT !.pc = "commit"]
  <2>1. DOMAIN ctx[w] = DOMAIN Idle /\ w \in DOMAIN ctx
    BY DEF TypeOK, ContextOK
  <2>2. /\ ctx' = [ctx EXCEPT ![w] = d] /\ d.cur = Cur(w)
        /\ d.task = "process_outbox_events" /\ d.pc = "commit"
    BY <2>1 DEF Publish, Goto, At, Cur, Idle
  <2> HIDE DEF d
  <2> QED
    BY <2>2
<1>2. UNCHANGED outbox /\ (Fault \/ UNCHANGED faults)
  BY DEF Publish, db
<1>3. AttemptsFailed'
  <2>1. RetriesKept
    BY <1>2, AttemptsUntouched
  <2> QED
    BY <1>2, <2>1, AttemptsStay DEF AttemptInv
<1>4. c.cur \in EventId
  <2>1. c.cur = ctx[w].cur /\ ctx[w].task = "process_outbox_events" /\ ctx[w].pc = "publish"
    BY <1>1 DEF Cur, Publish, At
  <2>2. ctx[w].cur \in DOMAIN outbox
    BY <2>1, EventInHand DEF TypeOK
  <2> QED
    BY <2>1, <2>2, FaultsCounted
<1>5. delivered'[c.cur] + faults' > 0
  <2>1. /\ delivered[c.cur] \in Nat /\ delivered'[c.cur] \in Nat
        /\ faults \in Nat /\ faults' \in Nat
    BY <1>4, FaultsCounted
  <2>2. CASE Fault
    BY <2>1, <2>2 DEF Fault
  <2>3. CASE delivered' = [delivered EXCEPT ![Cur(w)] = @ + 1]
    <3>1. delivered'[c.cur] = delivered[c.cur] + 1
      BY <1>1, <1>4, <2>3 DEF TypeOK, WorldOK
    <3> QED
      BY <2>1, <3>1
  <2> QED
    BY <2>2, <2>3 DEF Publish
<1>6. AttemptView(c)'
  BY <1>1, <1>5 DEF AttemptView
<1> QED
  BY <1>1, <1>3, <1>6, OneAttempt

(* The last attempt: as many have failed as are allowed.                    *)
LEMMA LastAttempt ==
  ASSUME TypeOK, TypeOK', AttemptInv, NEW w \in Worker, UpToDate(ctx[w]), RetryEvent(w)
  PROVE  /\ UNCHANGED faults /\ outbox[Cur(w)].retries + 1 <= faults
         /\ Mine(w).retries = outbox[Cur(w)].retries /\ Cur(w) \in DOMAIN outbox
         /\ Exhausted(w) => MaxAttempts <= faults
<1>1. ctx[w].task = "process_outbox_events" /\ ctx[w].pc = "retry" /\ UNCHANGED faults
  BY DEF RetryEvent, At
<1>2. Cur(w) \in DOMAIN outbox /\ Cur(w) \in DOMAIN ctx[w].seen
  BY <1>1, EventInHand DEF TypeOK, ContextOK, Cur
<1>3. Mine(w).retries = outbox[Cur(w)].retries
  <2>1. Table("process_outbox_events") = outbox
    BY DEF Table, JobTasks
  <2> QED
    BY <1>1, <1>2, <2>1 DEF UpToDate, SeenIsStored, Mine, Cur
<1>4. outbox[Cur(w)].retries + 1 <= faults
  BY <1>1 DEF AttemptInv, AttemptView, Cur
<1>5. Exhausted(w) => MaxAttempts <= faults
  <2>1. outbox[Cur(w)].retries \in Nat /\ faults \in Nat /\ MaxAttempts \in Nat
    BY <1>2, FaultsCounted, StoreAssumption
  <2> QED
    BY <1>3, <1>4, <2>1 DEF Exhausted
<1> QED
  BY <1>1, <1>2, <1>3, <1>4, <1>5

LEMMA CountedAttempt ==
  ASSUME OneWorker, TypeOK, TypeOK', AttemptInv, NEW w \in Worker, UpToDate(ctx[w]),
         RetryEvent(w)
  PROVE  AttemptInv'
<1>1. PICK o : o = Cur(w) /\ o \in DOMAIN outbox
  BY LastAttempt
<1>2. outbox' = [outbox EXCEPT ![o] = Bumped(@, w)] /\ ctx' = Closed(w)
  BY <1>1 DEF RetryEvent
<1>3. /\ UNCHANGED faults /\ outbox[o].retries + 1 <= faults
      /\ Mine(w).retries = outbox[o].retries
      /\ Exhausted(w) => MaxAttempts <= faults
  BY <1>1, LastAttempt
<1>4. /\ outbox[o].retries \in Nat /\ faults \in Nat /\ MaxAttempts \in Nat
      /\ outbox[o] \in EventRow
  BY <1>1, FaultsCounted, StoreAssumption, Tables DEF IsTable
<1>5. Bumped(outbox[o], w).retries <= faults
  <2>1. PICK row \in EventRow : row = outbox[o]
    BY <1>4
  <2>2. CASE Exhausted(w)
    <3>1. Bumped(row, w).retries \in {MaxAttempts, row.retries}
      BY <2>2 DEF Bumped, Assign, EventRow
    <3> QED
      BY <1>3, <1>4, <2>1, <2>2, <3>1
  <2>3. CASE ~Exhausted(w)
    <3>1. Bumped(row, w).retries = Mine(w).retries + 1
      BY <2>3 DEF Bumped, EventRow
    <3> QED
      BY <1>3, <1>4, <2>1, <3>1
  <2> QED
    BY <2>2, <2>3
<1>6. AttemptsFailed'
  <2>1. /\ DOMAIN outbox' = DOMAIN outbox /\ outbox'[o] = Bumped(outbox[o], w)
        /\ \A x \in DOMAIN outbox \ {o} : outbox'[x] = outbox[x]
    BY <1>1, <1>2, Tables DEF IsTable
  <2> QED
    BY <1>3, <1>5, <2>1 DEF AttemptsFailed, AttemptInv
<1>7. PICK c : ctx' = [ctx EXCEPT ![w] = c] /\ c.pc = "release"
  <2> DEFINE c == [ctx[w] EXCEPT !.pc = "release", !.seen = NoRows]
  <2>1. ctx' = [ctx EXCEPT ![w] = c] /\ c.pc = "release"
    BY <1>2 DEF Closed, TypeOK, ContextOK, Idle
  <2> HIDE DEF c
  <2> QED
    BY <2>1
<1> QED
  BY <1>6, <1>7, EasyAttempt, OneAttempt

LEMMA TaskStepAttempt ==
  ASSUME OneWorker, TypeOK, TypeOK', AttemptInv, NEW w \in Worker, UpToDate(ctx[w]),
         TaskStep(w)
  PROVE  AttemptInv'
<1>1. Advance(w) /\ (Fault \/ UNCHANGED faults)
  BY TaskStepAdvances, TaskStepFaults
<1>2. CASE ctx[w].task # "process_outbox_events"
  <2>1. ~RetryEvent(w)
    BY <1>2 DEF RetryEvent, At
  <2>2. RetriesKept
    BY <2>1, StepRetries
  <2> QED
    BY <1>1, <1>2, <2>2, AdvanceAttempt
<1>3. CASE Publish(w) \/ RetryEvent(w)
  BY <1>3, PublishAttempt, CountedAttempt
<1>4. CASE SkipEvent(w) \/ PublishFails(w) \/ CommitProcessed(w)
  <2>1. ctx[w].task = "process_outbox_events" /\ ctx[w].pc # "retry"
    BY <1>4 DEF SkipEvent, PublishFails, CommitProcessed, At
  <2>2. ~RetryEvent(w)
    BY <2>1 DEF RetryEvent, At
  <2>3. RetriesKept
    BY <2>2, StepRetries
  <2>4. \/ ctx' \in {Goto(w, "release"), Closed(w), Aborted(w)}
        \/ Fault /\ ctx' = Failed(w)
    BY <1>4 DEF SkipEvent, PublishFails, CommitProcessed, AfterCommit
  <2>5. ctx' = Failed(w) => \A p \in Working : ctx' # Goto(w, p)
    <3>1. DOMAIN ctx[w] = DOMAIN Idle /\ w \in DOMAIN ctx
      BY DEF TypeOK, ContextOK
    <3>2. Failed(w)[w].pc = "rescue" /\ \A p \in Working : Goto(w, p)[w].pc = p
      BY <3>1 DEF Failed, Goto, Idle
    <3> QED
      BY <3>2 DEF Working
  <2> QED
    BY <1>1, <2>3, <2>4, <2>5, AdvanceAttempt
<1>5. TaskStep(w) /\ ctx[w].task = "process_outbox_events" => OutboxEventsStep(w)
  BY DEF TaskStep, QueuedJobsStep, Download, GenerateInit, CutSegments, CommitTasks, RetryJob,
         TranscodeTasksStep, Transcode, CommitUpload, RetryTranscode, UploadTasksStep,
         UploadFiles, CommitUploaded, RetryUpload, CompletedJobsStep, Check, CommitCompleted,
         PrepareManifest, ProbeFails, AnnounceCompleted, FailedJobsStep, CleanUp,
         AnnounceFailed, At
<1> QED
  BY <1>2, <1>3, <1>4, <1>5 DEF OutboxEventsStep

LEMMA StillAttempt ==
  ASSUME TypeOK, TypeOK', AttemptInv, RetriesKept, UNCHANGED <<ctx, delivered, faults>>
  PROVE  AttemptInv'
<1>1. AttemptsFailed'
  BY AttemptsStay DEF AttemptInv
<1>2. ASSUME NEW w \in Worker PROVE AttemptView(ctx[w])'
  <2>1. PICK c : c = ctx[w] /\ c = ctx'[w]
    OBVIOUS
  <2>2. AttemptView(c) /\ ContextOK(c)
    BY <2>1 DEF AttemptInv, TypeOK
  <2>3. AttemptView(c)'
    <3>1. c.task = "process_outbox_events" /\ c.pc \in {"rescue", "retry"}
            => c.cur \in DOMAIN outbox
      BY <2>2, EventInHand
    <3> QED
      BY <2>2, <3>1 DEF AttemptView, RetriesKept
  <2> QED
    BY <2>1, <2>3
<1> QED
  BY <1>1, <1>2 DEF AttemptInv

LEMMA WindowRetries == ASSUME TypeOK, RetryWindowOpens PROVE RetriesKept
<1>1. CASE \E o \in DOMAIN outbox : outbox' = [outbox EXCEPT ![o].due = TRUE]
  BY <1>1, Tables DEF RetriesKept, IsTable, EventRow
<1> QED
  BY <1>1, AttemptsUntouched DEF RetryWindowOpens

LEMMA StepAttempt ==
  ASSUME OneWorker
  PROVE  TypeOK /\ TypeOK' /\ SoloInv /\ AttemptInv /\ [Next]_vars => AttemptInv'
<1> SUFFICES ASSUME TypeOK, TypeOK', SoloInv, AttemptInv, [Next]_vars PROVE AttemptInv'
  OBVIOUS
<1>1. ASSUME NEW w \in Worker, Start(w) \/ LoopStep(w) \/ TaskStep(w) \/ Crash(w)
      PROVE  AttemptInv'
  BY <1>1, LoopAttempt, TaskStepAttempt DEF SoloInv, ViewInv
<1>2. CASE \/ \E j \in Job : JobArrives(j)
           \/ Expire \/ RetryWindowOpens \/ UNCHANGED vars
  <2>1. UNCHANGED <<ctx, delivered, faults>>
    BY <1>2 DEF JobArrives, Expire, RetryWindowOpens, vars, world
  <2>2. RetryWindowOpens \/ UNCHANGED outbox
    BY <1>2 DEF JobArrives, Expire, vars, db
  <2>3. RetriesKept
    BY <2>2, WindowRetries, AttemptsUntouched
  <2> QED
    BY <2>1, <2>3, StillAttempt
<1> QED
  BY <1>1, <1>2 DEF Next

LEMMA InitAttempt == Init => AttemptInv
<1> SUFFICES ASSUME Init PROVE AttemptInv
  OBVIOUS
<1>1. DOMAIN outbox = {} /\ \A w \in Worker : ctx[w] = Idle
  BY DEF Init, NoRows
<1>2. Idle.task = Nil /\ Nil # "process_outbox_events"
  BY StoreAssumption DEF Idle, TaskName, Retrying
<1> QED
  BY <1>1, <1>2 DEF AttemptInv, AttemptsFailed, AttemptView

LEMMA AttemptCorrect == ASSUME OneWorker PROVE Spec => []AttemptInv
BY InitAttempt, StepAttempt, SoloCorrect, TypeCorrect, PTL DEF Spec

-----------------------------------------------------------------------------
(* Every step is one that OutboxContract allows.                            *)

EventStatus == [o \in EventId |-> IF o \in DOMAIN outbox THEN outbox[o].status ELSE "ABSENT"]

LEMMA ContractMoves ==
  ASSUME NEW o \in EventId
  PROVE  /\ \A from, to : Contract!Change(o, from, to) <=>
              /\ EventStatus[o] \in from /\ UNCHANGED delivered
              /\ EventStatus' = [EventStatus EXCEPT ![o] = to]
         /\ Contract!Send(o) <=>
              /\ EventStatus[o] = "PENDING" /\ delivered[o] <= faults
              /\ delivered' = [delivered EXCEPT ![o] = @ + 1] /\ UNCHANGED EventStatus
         /\ Contract!Settle(o) <=>
              /\ delivered[o] + faults > 0 /\ Contract!Change(o, {"PENDING"}, "PROCESSED")
         /\ Contract!GiveUp(o) <=>
              /\ faults >= MaxAttempts
              /\ Contract!Change(o, {"PENDING", "PROCESSED"}, "FAILED")
BY DEF EventStatus, Contract!Change, Contract!Send, Contract!Settle, Contract!GiveUp

LEMMA SameEventsStutter == ASSUME SameEvents PROVE UNCHANGED EventStatus
BY DEF SameEvents, EventStatus

LEMMA EventSetSteps ==
  ASSUME NEW o \in EventId, NEW s, EventSet(o, s)
  PROVE  /\ EventStatus[o] = outbox[o].status
         /\ EventStatus' = [EventStatus EXCEPT ![o] = s]
BY DEF EventSet, EventStatus

(* What the contract allows, but for the count of the failures.             *)
ContractStep ==
  \/ UNCHANGED <<EventStatus, delivered>>
  \/ \E o \in EventId :
       \/ Contract!Change(o, {"ABSENT"}, "PENDING")
       \/ Contract!Send(o)
       \/ Contract!Settle(o)
       \/ Contract!GiveUp(o)

(* With one worker, the event that it is about to send has not been sent     *)
(* more often than something has failed.                                    *)
LEMMA PublishContract ==
  ASSUME OneWorker, TypeOK, SendInv, NEW w \in Worker, UpToDate(ctx[w]), Publish(w)
  PROVE  ContractStep
<1>1. At(w, "process_outbox_events", "publish") /\ UNCHANGED outbox
  BY DEF Publish, db
<1>2. /\ Cur(w) \in DOMAIN outbox /\ outbox[Cur(w)].status = "PENDING"
  <2>1. /\ Table("process_outbox_events") = outbox
        /\ ItemIds("process_outbox_events") = DOMAIN outbox
    BY DEF Table, ItemIds, JobTasks
  <2> QED
    BY <1>1, <2>1, RowInHand, InnerPcs DEF TaskName, Retrying, Working, Wanted
<1>3. PICK o : o = Cur(w) /\ o \in EventId
  BY <1>2, Tables DEF IsTable
<1>4. UNCHANGED EventStatus
  BY <1>1 DEF EventStatus
<1>5. EventStatus[o] = "PENDING"
  BY <1>2, <1>3 DEF EventStatus
<1>6. delivered[o] <= faults
  <2>1. Senders(o) = {}
    BY <1>1, <1>2, <1>3 DEF Senders, Spent, Sending, Settled, At, OneWorker
  <2>2. Cardinality(Senders(o)) = 0
    BY <2>1, FS_EmptySet
  <2>3. delivered[o] <= faults + 0
    BY <1>3, <2>2 DEF SendInv
  <2>4. faults \in Nat
    BY StoreAssumption DEF TypeOK, WorldOK
  <2> QED
    BY <2>3, <2>4
<1>7. UNCHANGED delivered \/ delivered' = [delivered EXCEPT ![o] = @ + 1]
  BY <1>3 DEF Publish
<1> QED
  BY <1>3, <1>4, <1>5, <1>6, <1>7, ContractMoves DEF ContractStep

LEMMA TaskStepContract ==
  ASSUME OneWorker, TypeOK, TypeOK', SendInv, AttemptInv, NEW w \in Worker,
         UpToDate(ctx[w]), TaskStep(w)
  PROVE  ContractStep
<1>1. CASE Publish(w)
  BY <1>1, PublishContract
<1>2. CASE ~Publish(w) /\ SameEvents
  BY <1>2, TaskStepFaults, SameEventsStutter DEF ContractStep
<1>3. CASE AnnounceCompleted(w) \/ AnnounceFailed(w)
  <2>1. UNCHANGED delivered
    BY <1>3 DEF AnnounceCompleted, AnnounceFailed, CommitAnnouncement, world
  <2>2. PICK j \in Job, topic \in Topic : WriteAnnouncement(j, topic)
    BY <1>3, AnnouncementWrites
  <2>3. PICK c \in Copy : outbox' = Insert(outbox, {<<j, c>>}, NewEvent(topic))
    BY <2>2 DEF WriteAnnouncement
  <2>4. <<j, c>> \in EventId
    BY DEF EventId
  <2>5. CASE <<j, c>> \in DOMAIN outbox
    <3>1. UNCHANGED EventStatus
      BY <2>3, <2>5 DEF Insert, EventStatus
    <3> QED
      BY <2>1, <3>1 DEF ContractStep
  <2>6. CASE <<j, c>> \notin DOMAIN outbox
    <3>1. /\ EventStatus[<<j, c>>] = "ABSENT"
          /\ EventStatus' = [EventStatus EXCEPT ![<<j, c>>] = "PENDING"]
      BY <2>3, <2>4, <2>6 DEF Insert, EventStatus, NewEvent
    <3>2. Contract!Change(<<j, c>>, {"ABSENT"}, "PENDING")
      BY <2>1, <2>4, <3>1, ContractMoves
    <3> QED
      BY <2>4, <3>2 DEF ContractStep
  <2> QED
    BY <2>5, <2>6
<1>4. CASE CommitProcessed(w)
  <2>1. UNCHANGED delivered /\ At(w, "process_outbox_events", "commit")
    BY <1>4 DEF CommitProcessed, world
  <2>2. PICK o \in EventId : o = Cur(w) /\ WriteProcessed(o)
    BY <1>4, CommitProcessedWrites
  <2>3. delivered[o] + faults > 0
    BY <2>1, <2>2 DEF AttemptInv, AttemptView, At, Cur
  <2>4. EventStatus[o] \in {"PENDING"} /\ EventStatus' = [EventStatus EXCEPT ![o] = "PROCESSED"]
    BY <2>2, EventSetSteps DEF WriteProcessed
  <2>5. Contract!Settle(o)
    BY <2>1, <2>3, <2>4, ContractMoves
  <2> QED
    BY <2>5 DEF ContractStep
<1>5. CASE RetryEvent(w)
  <2>1. UNCHANGED delivered
    BY <1>5 DEF RetryEvent, world
  <2>2. PICK o \in EventId :
          /\ o = Cur(w)
          /\ IF Exhausted(w) THEN WriteEventFailure(o) ELSE NothingWritten
    BY <1>5, RetryEventWrites
  <2>3. CASE ~Exhausted(w)
    BY <2>1, <2>2, <2>3, SameEventsStutter DEF NothingWritten, ContractStep
  <2>4. CASE Exhausted(w)
    <3>1. /\ EventStatus[o] \in {"PENDING", "PROCESSED"}
          /\ EventStatus' = [EventStatus EXCEPT ![o] = "FAILED"]
      BY <2>2, <2>4, EventSetSteps DEF WriteEventFailure
    <3>2. faults >= MaxAttempts
      <4>1. MaxAttempts <= faults
        BY <1>5, <2>4, LastAttempt
      <4>2. MaxAttempts \in Nat /\ faults \in Nat
        BY FaultsCounted, StoreAssumption
      <4> QED
        BY <4>1, <4>2
    <3>3. Contract!GiveUp(o)
      BY <2>1, <3>1, <3>2, ContractMoves
    <3> QED
      BY <3>3 DEF ContractStep
  <2> QED
    BY <2>3, <2>4
<1> QED
  BY <1>1, <1>2, <1>3, <1>4, <1>5, EventsUntouched, SameRows

(* OutboxKept: with one worker, crashes and failures of the broker and the    *)
(* database included, process_outbox_events sends a second record of an      *)
(* event only after a failure, settles an event only if it has sent it or    *)
(* the broker has lost it, and gives it up only when as many attempts as     *)
(* allowed have failed; what is given up stays given up.                    *)
THEOREM OutboxImplemented ==
  ASSUME OneWorker PROVE Spec => OutboxKept
<1>1. Init => Contract!ContractInit
  <2> SUFFICES ASSUME Init PROVE Contract!ContractInit
    OBVIOUS
  <2>1. DOMAIN outbox = {}
    BY DEF Init, NoRows
  <2> QED
    BY <2>1 DEF Init, Contract!ContractInit
<1>2. TypeOK /\ TypeOK' /\ SoloInv /\ SendInv /\ AttemptInv /\ [Next]_vars
        => [Contract!ContractNext]_(Contract!contractVars)
  <2> SUFFICES ASSUME TypeOK, TypeOK', SoloInv, SendInv, AttemptInv, [Next]_vars
               PROVE  Contract!ContractNext \/ UNCHANGED Contract!contractVars
    OBVIOUS
  <2>1. ASSUME ContractStep, Fault \/ UNCHANGED faults PROVE Contract!ContractNext
    <3>1. faults' \in {faults, faults + 1}
      BY <2>1 DEF Fault
    <3>2. CASE UNCHANGED <<EventStatus, delivered>>
      BY <3>1, <3>2 DEF EventStatus, Contract!ContractNext
    <3>3. CASE \E o \in EventId :
                 \/ Contract!Change(o, {"ABSENT"}, "PENDING")
                 \/ Contract!Send(o) \/ Contract!Settle(o) \/ Contract!GiveUp(o)
      BY <3>1, <3>3 DEF Contract!ContractNext
    <3> QED
      BY <2>1, <3>2, <3>3 DEF ContractStep
  <2>2. ASSUME NEW w \in Worker, TaskStep(w) PROVE Contract!ContractNext
    BY <2>1, <2>2, TaskStepContract, TaskStepFaults DEF SoloInv, ViewInv
  <2>3. ASSUME UNCHANGED delivered, SameEvents, Fault \/ UNCHANGED faults
        PROVE  Contract!ContractNext
    BY <2>1, <2>3, SameEventsStutter DEF ContractStep
  <2>4. ASSUME NEW w \in Worker, Start(w) \/ LoopStep(w) \/ Crash(w)
        PROVE  Contract!ContractNext
    BY <2>3, <2>4, LoopWritesNothing, LoopSettled, SameRows DEF db
  <2>5. CASE (\E j \in Job : JobArrives(j)) \/ Expire \/ RetryWindowOpens \/ UNCHANGED vars
    <3>1. UNCHANGED <<delivered, faults>>
      BY <2>5 DEF JobArrives, Expire, RetryWindowOpens, vars, world
    <3>2. RetryWindowOpens \/ UNCHANGED outbox
      BY <2>5 DEF JobArrives, Expire, vars, db
    <3>3. SameEvents
      BY <3>2, WindowWrites, SameRows DEF NothingWritten
    <3> QED
      BY <2>3, <3>1, <3>3
  <2> QED
    BY <2>2, <2>4, <2>5 DEF Next
<1>3. IsFiniteSet(Worker)
  <2>1. CASE Worker = {}
    BY <2>1, FS_EmptySet
  <2>2. ASSUME NEW w \in Worker PROVE IsFiniteSet(Worker)
    <3>1. Worker = {w}
      BY DEF OneWorker
    <3> QED
      BY <3>1, FS_Singleton
  <2> QED
    BY <2>1, <2>2
<1> QED
  BY <1>1, <1>2, <1>3, SoloCorrect, SendCorrect, AttemptCorrect, TypeCorrect, PTL
     DEF Spec, OutboxKept, Contract!ContractSpec

=============================================================================
