------------------------------ MODULE OutboxProofs ------------------------------
(***************************************************************************)
(* The transactional outbox, for any number of workers: a published job    *)
(* always has an event that has not been given up, and no event is sent    *)
(* more often than there are failures and workers.                         *)
(***************************************************************************)
EXTENDS LockProofs, FiniteSetTheorems

(* A worker is about to count a failed attempt of an event, and its session *)
(* has loaded the job of the event while its published flag was down.       *)
Careless(w, o) ==
  At(w, "process_outbox_events", "retry") /\ Cur(w) = o /\ ~ctx[w].loaded.published

(* PublishedHasLiveEvent is not inductive: giving up an event takes the flag *)
(* down only if it was up when the session loaded it. So the live event is  *)
(* one that no careless worker holds.                                       *)
SafeEvent(o) == outbox[o].status # "FAILED" /\ \A w \in Worker : ~Careless(w, o)

OutboxInv ==
  \A j \in DOMAIN job : job[j].published => \E o \in EventsOf(j) : SafeEvent(o)

LEMMA OutboxInvLive == OutboxInv => PublishedHasLiveEvent
BY DEF OutboxInv, SafeEvent, PublishedHasLiveEvent

-----------------------------------------------------------------------------
(* Most steps raise no flag, give up no event, and begin no bookkeeping.    *)

FlagsKept == \A j \in DOMAIN job' : job'[j].published => j \in DOMAIN job /\ job[j].published

EventsKept ==
  \A o \in DOMAIN outbox :
    o \in DOMAIN outbox' /\ (outbox'[o].status = "FAILED" => outbox[o].status = "FAILED")

NoneCareless == \A w \in Worker, o \in DOMAIN outbox : Careless(w, o)' => Careless(w, o)

LEMMA Calm == ASSUME OutboxInv, FlagsKept, EventsKept, NoneCareless PROVE OutboxInv'
<1> SUFFICES ASSUME NEW j \in DOMAIN job', job'[j].published
             PROVE  \E o \in EventsOf(j)' : SafeEvent(o)'
  BY DEF OutboxInv
<1>1. PICK o \in EventsOf(j) : SafeEvent(o)
  BY DEF FlagsKept, OutboxInv
<1>2. o \in DOMAIN outbox /\ JobOfEvent(o) = j
  BY <1>1 DEF EventsOf
<1>3. o \in EventsOf(j)'
  BY <1>2 DEF EventsKept, EventsOf, JobOfEvent
<1>4. outbox'[o].status # "FAILED" /\ \A w \in Worker : ~Careless(w, o)'
  BY <1>1, <1>2 DEF EventsKept, NoneCareless, SafeEvent
<1> QED
  BY <1>3, <1>4 DEF SafeEvent

(* A step that leaves both tables alone.                                    *)
LEMMA TablesStill ==
  ASSUME TypeOK, UNCHANGED <<job, outbox>> PROVE FlagsKept /\ EventsKept
BY DEF FlagsKept, EventsKept

(* A worker that does not go to its bookkeeping is not careless afterwards. *)
LEMMA MoveCareful ==
  ASSUME TypeOK, NEW w \in Worker, NEW c, ctx' = [ctx EXCEPT ![w] = c], c.pc # "retry"
  PROVE  NoneCareless
<1>1. /\ \A x \in Worker \ {w} : ctx'[x] = ctx[x]
      /\ ctx'[w] = c
  BY DEF TypeOK
<1> QED
  BY <1>1 DEF NoneCareless, Careless, At, Cur

LEMMA AdvanceCareful ==
  ASSUME TypeOK, NEW w \in Worker, Advance(w) PROVE NoneCareless
<1> DEFINE r == ctx[w]
<1>0. DOMAIN r = DOMAIN Idle
  BY DEF TypeOK, ContextOK
<1>1. ASSUME NEW p \in Working \cup {"release"}, ctx' = Goto(w, p) PROVE NoneCareless
  <2> DEFINE c == [r EXCEPT !.pc = p]
  <2>1. ctx' = [ctx EXCEPT ![w] = c] /\ c.pc = p
    BY <1>0, <1>1 DEF Goto, Idle
  <2> HIDE DEF c
  <2> QED
    BY <2>1, MoveCareful DEF Working
<1>2. CASE ctx' = Failed(w)
  <2> DEFINE c == [r EXCEPT !.pc = "rescue", !.seen = NoRows]
  <2>1. ctx' = [ctx EXCEPT ![w] = c] /\ c.pc = "rescue"
    BY <1>0, <1>2 DEF Failed, Idle
  <2> HIDE DEF c
  <2> QED
    BY <2>1, MoveCareful
<1>3. CASE ctx' = Closed(w)
  <2> DEFINE c == [r EXCEPT !.pc = "release", !.seen = NoRows]
  <2>1. ctx' = [ctx EXCEPT ![w] = c] /\ c.pc = "release"
    BY <1>0, <1>3 DEF Closed, Idle
  <2> HIDE DEF c
  <2> QED
    BY <2>1, MoveCareful
<1>4. CASE ctx' = Aborted(w)
  <2> DEFINE c == [r EXCEPT !.pc = "release", !.todo = {}, !.seen = NoRows]
  <2>1. ctx' = [ctx EXCEPT ![w] = c] /\ c.pc = "release"
    BY <1>0, <1>4 DEF Aborted, Idle
  <2> HIDE DEF c
  <2> QED
    BY <2>1, MoveCareful
<1> QED
  BY <1>1, <1>2, <1>3, <1>4 DEF Advance

(* Writes to a job's row that leave its flag alone.                         *)
LEMMA FlagUntouched ==
  ASSUME TypeOK, DOMAIN job' = DOMAIN job,
         \A j \in DOMAIN job : job'[j].published = job[j].published
  PROVE  FlagsKept
BY DEF FlagsKept

LEMMA StatusOnly ==
  ASSUME TypeOK, NEW j, NEW loaded, NEW s,
         job' = [job EXCEPT ![j].status = Assign(@, loaded, s)]
  PROVE  FlagsKept
BY Tables DEF FlagsKept, IsTable, JobRow

-----------------------------------------------------------------------------
(* The tasks that do not touch the outbox.                                  *)

LEMMA EarlyTasksCalm ==
  ASSUME TypeOK, NEW w \in Worker,
         QueuedJobsStep(w) \/ TranscodeTasksStep(w) \/ UploadTasksStep(w)
  PROVE  FlagsKept /\ EventsKept
<1>1. UNCHANGED outbox
  <2>1. CASE QueuedJobsStep(w)
    BY <2>1 DEF QueuedJobsStep, Download, GenerateInit, CutSegments, CommitTasks, RetryJob, db
  <2>2. CASE TranscodeTasksStep(w)
    BY <2>2 DEF TranscodeTasksStep, Transcode, CommitUpload, RetryTranscode, db
  <2>3. CASE UploadTasksStep(w)
    BY <2>3 DEF UploadTasksStep, UploadFiles, CommitUploaded, RetryUpload, db
  <2> QED
    BY <2>1, <2>2, <2>3
<1>2. EventsKept
  BY <1>1 DEF EventsKept
<1>3. FlagsKept
  <2>1. CASE UNCHANGED job
    BY <2>1 DEF FlagsKept
  <2>2. CASE CommitTasks(w)
    BY <2>2, StatusOnly DEF CommitTasks
  <2>3. CASE RetryJob(w)
    <3>1. job' = [job EXCEPT ![Cur(w)] = Bumped(@, w)]
      BY <2>3 DEF RetryJob
    <3>2. \A row \in JobRow : Bumped(row, w).published = row.published
      BY DEF Bumped, JobRow
    <3> QED
      BY <3>1, <3>2, Tables DEF FlagsKept, IsTable
  <2>4. CASE RetryTranscode(w)
    BY <2>1, <2>4, StatusOnly DEF RetryTranscode
  <2>5. CASE RetryUpload(w)
    BY <2>1, <2>5, StatusOnly DEF RetryUpload
  <2> QED
    BY <2>1, <2>2, <2>3, <2>4, <2>5
       DEF QueuedJobsStep, Download, GenerateInit, CutSegments, TranscodeTasksStep,
           Transcode, CommitUpload, UploadTasksStep, UploadFiles, CommitUploaded, db
<1> QED
  BY <1>2, <1>3

LEMMA LateTasksCalm ==
  ASSUME TypeOK, NEW w \in Worker,
         \/ Check(w) \/ CommitCompleted(w) \/ PrepareManifest(w) \/ ProbeFails(w)
         \/ CleanUp(w) \/ SkipEvent(w) \/ Publish(w) \/ PublishFails(w)
         \/ CommitProcessed(w)
  PROVE  FlagsKept /\ EventsKept
<1>1. CASE CommitCompleted(w)
  BY <1>1, StatusOnly DEF CommitCompleted, EventsKept
<1>2. CASE ProbeFails(w)
  BY <1>2, StatusOnly DEF ProbeFails, EventsKept
<1>3. CASE CommitProcessed(w)
  <2>1. UNCHANGED job
    BY <1>3 DEF CommitProcessed
  <2>2. EventsKept
    BY <1>3, Tables DEF CommitProcessed, EventsKept, IsTable, EventRow, Assign
  <2> QED
    BY <2>1, <2>2 DEF FlagsKept
<1>4. CASE \/ Check(w) \/ PrepareManifest(w) \/ CleanUp(w) \/ SkipEvent(w)
           \/ Publish(w) \/ PublishFails(w)
  <2>1. UNCHANGED <<job, outbox>>
    BY <1>4 DEF Check, PrepareManifest, CleanUp, SkipEvent, Publish, PublishFails, db
  <2> QED
    BY <2>1, TablesStill
<1> QED
  BY <1>1, <1>2, <1>3, <1>4
-----------------------------------------------------------------------------
(* The loop, arrivals and time.                                             *)

LEMMA LoopCalm ==
  ASSUME TypeOK, HandInv, NEW w \in Worker,
         Start(w) \/ (LoopStep(w) /\ ~Rescue(w)) \/ Crash(w)
  PROVE  FlagsKept /\ EventsKept /\ NoneCareless
<1>1. UNCHANGED <<job, outbox>>
  <2>1. CASE Start(w)
    BY <2>1 DEF Start, StartQueuedJobs, StartTranscodeTasks, StartUploadTasks, StartCheck,
                StartCompletedJobs, StartFailedJobs, StartOutboxEvents, Begin, db
  <2>2. CASE LoopStep(w) /\ ~Rescue(w)
    BY <2>2 DEF LoopStep, Pick, Finish, LockItem, LockCommit, Release, ReleaseFails, Raise,
                RaiseInRescue, db
  <2>3. CASE Crash(w)
    BY <2>3 DEF Crash, db
  <2> QED
    BY <2>1, <2>2, <2>3
<1>2. ASSUME Empties(w) PROVE NoneCareless
  BY <1>2, MoveCareful DEF Empties
<1>3. ASSUME Raise(w) \/ RaiseInRescue(w) PROVE NoneCareless
  BY <1>3, AdvanceCareful DEF Raise, RaiseInRescue, Advance
<1>4. ASSUME LockItem(w) \/ LockCommit(w) PROVE NoneCareless
  <2>1. PICK state, next, loaded : next \in Working /\ Acquire(w, state, next, loaded)
    BY <1>4, LockingSteps
  <2>2. CASE ctx' = Goto(w, "release")
    <3> DEFINE c == [ctx[w] EXCEPT !.pc = "release"]
    <3>1. ctx' = [ctx EXCEPT ![w] = c] /\ c.pc = "release"
      BY <2>2 DEF Goto, TypeOK, ContextOK, Idle
    <3> HIDE DEF c
    <3> QED
      BY <3>1, MoveCareful
  <2>3. CASE ctx' = [ctx EXCEPT ![w].pc = next, ![w].loaded = loaded,
                                ![w].held = @ \cup {state}]
    <3> DEFINE c == [ctx[w] EXCEPT !.pc = next, !.loaded = loaded, !.held = @ \cup {state}]
    <3>1. ctx' = [ctx EXCEPT ![w] = c] /\ c.pc = next
      BY <2>3 DEF TypeOK, ContextOK, Idle
    <3> HIDE DEF c
    <3> QED
      BY <2>1, <3>1, MoveCareful DEF Working
  <2> QED
    BY <2>1, <2>2, <2>3 DEF Acquire
<1>5. Empties(w) \/ Raise(w) \/ RaiseInRescue(w) \/ LockItem(w) \/ LockCommit(w)
  BY LoopEmpties, ReleaseEmpties, IdleEmpties DEF LoopStep
<1> QED
  BY <1>1, <1>2, <1>3, <1>4, <1>5, TablesStill

(* Nobody moves.                                                            *)
LEMMA StillCareful == UNCHANGED ctx => NoneCareless
BY DEF NoneCareless, Careless, At, Cur

LEMMA ArrivesCalm ==
  ASSUME TypeOK, NEW j \in Job, JobArrives(j)
  PROVE  FlagsKept /\ EventsKept /\ NoneCareless
<1>1. FlagsKept
  BY DEF JobArrives, FlagsKept, Insert, NewJob
<1> QED
  BY <1>1, StillCareful DEF JobArrives, EventsKept

LEMMA WindowCalm ==
  ASSUME TypeOK, RetryWindowOpens PROVE FlagsKept /\ EventsKept /\ NoneCareless
<1>1. FlagsKept
  <2>1. CASE UNCHANGED job
    BY <2>1 DEF FlagsKept
  <2>2. CASE \E j \in DOMAIN job : job' = [job EXCEPT ![j].due = TRUE]
    BY <2>2, Tables DEF FlagsKept, IsTable, JobRow
  <2> QED
    BY <2>1, <2>2 DEF RetryWindowOpens
<1>2. EventsKept
  <2>1. CASE UNCHANGED outbox
    BY <2>1 DEF EventsKept
  <2>2. CASE \E o \in DOMAIN outbox : outbox' = [outbox EXCEPT ![o].due = TRUE]
    BY <2>2, Tables DEF EventsKept, IsTable, EventRow
  <2> QED
    BY <2>1, <2>2 DEF RetryWindowOpens
<1> QED
  BY <1>1, <1>2, StillCareful DEF RetryWindowOpens

-----------------------------------------------------------------------------
(* The steps that matter.                                                   *)

(* The bookkeeping loads the flag of the event's job: while it is up, the    *)
(* worker is careful.                                                       *)
LEMMA RescueOutbox ==
  ASSUME TypeOK, OutboxInv, NEW w \in Worker, Rescue(w) PROVE OutboxInv'
<1>1. UNCHANGED <<job, outbox>>
  BY DEF Rescue, db
<1>2. CASE ctx[w].task \notin Retrying
  BY <1>1, <1>2, AdvanceCareful, TablesStill, Calm DEF Rescue, Advance
<1>3. CASE ctx[w].task \in Retrying
  <2> DEFINE row == [x \in {Cur(w)} |-> Table(ctx[w].task)[x]]
             c == [ctx[w] EXCEPT !.pc = "retry", !.loaded = Parents(w), !.seen = row]
  <2>1. ctx' = [ctx EXCEPT ![w] = c]
    BY <1>3 DEF Rescue
  <2>2. c.task = ctx[w].task /\ c.cur = Cur(w) /\ c.loaded = Parents(w)
    BY DEF TypeOK, ContextOK, Idle, Cur
  <2>3. (\A x \in Worker \ {w} : ctx'[x] = ctx[x]) /\ ctx'[w] = c
    BY <2>1 DEF TypeOK
  <2> HIDE DEF c
  <2> SUFFICES ASSUME NEW j \in DOMAIN job, job[j].published
               PROVE  \E o \in EventsOf(j)' : SafeEvent(o)'
    BY <1>1 DEF OutboxInv
  <2>4. PICK o \in EventsOf(j) : SafeEvent(o)
    BY DEF OutboxInv
  <2>5. JobOfEvent(o) = j /\ o \in EventsOf(j)'
    BY <1>1 DEF EventsOf, JobOfEvent
  <2>6. \A x \in Worker \ {w} : ~Careless(x, o)'
    BY <2>3, <2>4 DEF SafeEvent, Careless, At, Cur
  <2>7. ~Careless(w, o)'
    <3> SUFFICES ASSUME Careless(w, o)' PROVE FALSE
      OBVIOUS
    <3>1. ctx[w].task = "process_outbox_events" /\ Cur(w) = o /\ ~c.loaded.published
      BY <2>2, <2>3 DEF Careless, At, Cur
    <3>2. Parents(w).published = job[JobOfEvent(o)].published
      BY <3>1 DEF Parents, NotLoaded
    <3> QED
      BY <2>2, <2>5, <3>1, <3>2
  <2>8. outbox'[o].status # "FAILED"
    BY <1>1, <2>4 DEF SafeEvent
  <2> QED
    BY <2>5, <2>6, <2>7, <2>8 DEF SafeEvent
<1> QED
  BY <1>2, <1>3

(* The new event is nobody's yet, so nobody is careless about it.           *)
LEMMA AnnounceOutbox ==
  ASSUME TypeOK, OutboxInv, NEW w \in Worker, AnnounceCompleted(w) \/ AnnounceFailed(w)
  PROVE  OutboxInv'
<1>0. PICK j : j = Cur(w)
  OBVIOUS
<1>1. PICK topic : CommitAnnouncement(w, topic)
  BY DEF AnnounceCompleted, AnnounceFailed
<1>2. ctx[w].pc = "commit" /\ ctx[w].task # "process_outbox_events"
  BY DEF AnnounceCompleted, AnnounceFailed, At
<1>3. PICK c \in Fresh({o[2] : o \in EventsOf(j)}) :
        outbox' = Insert(outbox, {<<j, c>>}, NewEvent(topic))
  BY <1>0, <1>1 DEF CommitAnnouncement
<1> DEFINE new == <<j, c>>
<1>4. new \notin DOMAIN outbox
  BY <1>3 DEF Fresh, EventsOf, JobOfEvent
<1>5. /\ DOMAIN outbox' = DOMAIN outbox \cup {new}
      /\ \A o \in DOMAIN outbox : outbox'[o] = outbox[o]
      /\ outbox'[new].status = "PENDING"
  BY <1>3, <1>4 DEF Insert, NewEvent
<1>6. Advance(w)
  BY <1>1, <1>2, AfterCommitAdvances DEF CommitAnnouncement, Working
<1>7. NoneCareless
  BY <1>6, AdvanceCareful
<1>8. \A x \in Worker : ~Careless(x, new)'
  <2>1. Quiet(w)
    BY <1>1, <1>6, AdvanceQuiet DEF CommitAnnouncement
  <2>2. \A x \in Worker : ctx'[x].task = ctx[x].task /\ ctx'[x].cur = ctx[x].cur
    BY <2>1 DEF Quiet, TypeOK
  <2>3. \A x \in Worker : ctx[x].task = "process_outbox_events" =>
          Cur(x) = Nil \/ Cur(x) \in DOMAIN outbox
    BY DEF TypeOK, ContextOK, ItemIds, JobTasks, Cur
  <2>4. new # Nil
    <3>1. j \in Job
      <4>1. Cur(w) \in DOMAIN job
        BY AtWork, InnerPcs
           DEF AnnounceCompleted, AnnounceFailed, ItemIds, TaskName, JobTasks
      <4> QED
        BY <1>0, <4>1, Tables DEF IsTable
    <3>2. new \in EventId
      BY <1>3, <3>1 DEF EventId, Fresh
    <3> QED
      BY <3>2, StoreAssumption
  <2> QED
    BY <1>4, <2>2, <2>3, <2>4 DEF Careless, At, Cur
<1>9. new \in EventsOf(j)' /\ SafeEvent(new)'
  <2>1. new[1] = j
    OBVIOUS
  <2> HIDE DEF new
  <2> QED
    BY <1>5, <1>8, <2>1 DEF EventsOf, JobOfEvent, SafeEvent
<1>10. DOMAIN job' = DOMAIN job /\ \A i \in DOMAIN job \ {j} : job'[i] = job[i]
  BY <1>0, <1>1, Tables DEF CommitAnnouncement, IsTable
<1> HIDE DEF new
<1> SUFFICES ASSUME NEW i \in DOMAIN job', job'[i].published
             PROVE  \E o \in EventsOf(i)' : SafeEvent(o)'
  BY DEF OutboxInv
<1>11. CASE i = j
  BY <1>9, <1>11
<1>12. CASE i # j
  <2>1. PICK o \in EventsOf(i) : SafeEvent(o)
    BY <1>10, <1>12 DEF OutboxInv
  <2>2. o \in DOMAIN outbox /\ o \in EventsOf(i)'
    BY <1>5, <2>1 DEF EventsOf, JobOfEvent
  <2>3. outbox'[o].status # "FAILED" /\ \A x \in Worker : ~Careless(x, o)'
    BY <1>5, <1>7, <2>1, <2>2 DEF SafeEvent, NoneCareless
  <2> QED
    BY <2>2, <2>3 DEF SafeEvent
<1> QED
  BY <1>11, <1>12

(* An event that is given up takes the flag of its job down, or was not the *)
(* one that the flag stands for.                                            *)
LEMMA RetryOutbox ==
  ASSUME TypeOK, OutboxInv, NEW w \in Worker, RetryEvent(w) PROVE OutboxInv'
<1> DEFINE e == Cur(w)
           k == JobOfEvent(e)
<1>1. At(w, "process_outbox_events", "retry") /\ ctx' = Closed(w)
  BY DEF RetryEvent
<1>2. NoneCareless
  BY <1>1, AdvanceCareful DEF Advance
<1>3. Cur(w) \in DOMAIN outbox
  BY <1>1, AtWork, InnerPcs DEF ItemIds, TaskName, JobTasks, Retrying
<1>4. outbox' = [outbox EXCEPT ![e] = Bumped(@, w)]
  BY DEF RetryEvent
<1>5. CASE ~Exhausted(w)
  <2>1. UNCHANGED job
    BY <1>5 DEF RetryEvent
  <2>2. \A row \in EventRow : Bumped(row, w).status = row.status
    BY <1>5 DEF Bumped, EventRow
  <2>3. EventsKept
    BY <1>4, <2>2, Tables DEF EventsKept, IsTable
  <2> QED
    BY <1>2, <2>1, <2>3, Calm DEF FlagsKept
<1>6. CASE Exhausted(w)
  <2>1. job' = [job EXCEPT ![k] = Withdrawn(@, w)]
    BY <1>6 DEF RetryEvent
  <2>2. \A row \in JobRow :
          Withdrawn(row, w).published = Assign(row.published, ctx[w].loaded.published, FALSE)
    BY DEF Withdrawn, JobRow
  <2> HIDE DEF k, e
  <2> SUFFICES ASSUME NEW j \in DOMAIN job', job'[j].published
               PROVE  \E o \in EventsOf(j)' : SafeEvent(o)'
    BY DEF OutboxInv
  <2>3. /\ j \in DOMAIN job /\ job[j].published
        /\ j = k => ~ctx[w].loaded.published
    <3>1. j \in DOMAIN job /\ job[j] \in JobRow
      BY <2>1, Tables DEF IsTable
    <3>2. job[j].published \in BOOLEAN
      BY <3>1 DEF JobRow
    <3>3. CASE j = k
      <4>1. job'[j].published = Assign(job[j].published, ctx[w].loaded.published, FALSE)
        BY <2>1, <2>2, <3>1, <3>3
      <4>2. ctx[w].loaded.published \in BOOLEAN
        BY DEF TypeOK, ContextOK, LoadedRow
      <4> QED
        BY <3>1, <4>1, <4>2 DEF Assign
    <3>4. CASE j # k
      BY <2>1, <3>1, <3>4
    <3> QED
      BY <3>3, <3>4
  <2>4. PICK o \in EventsOf(j) : SafeEvent(o)
    BY <2>3 DEF OutboxInv
  <2>5. o \in DOMAIN outbox /\ JobOfEvent(o) = j
    BY <2>4 DEF EventsOf
  <2>6. o # e
    BY <1>1, <2>3, <2>4, <2>5 DEF SafeEvent, Careless, k, e
  <2>7. o \in EventsOf(j)' /\ outbox'[o] = outbox[o]
    BY <1>4, <2>5, <2>6, Tables DEF IsTable, EventsOf, JobOfEvent
  <2>8. outbox'[o].status # "FAILED" /\ \A x \in Worker : ~Careless(x, o)'
    BY <1>2, <2>4, <2>5, <2>7 DEF SafeEvent, NoneCareless
  <2> QED
    BY <2>7, <2>8 DEF SafeEvent
<1> QED
  BY <1>5, <1>6

-----------------------------------------------------------------------------
(* The theorem on the outbox.                                               *)

LEMMA TaskStepOutbox ==
  ASSUME TypeOK, OutboxInv, NEW w \in Worker, TaskStep(w) PROVE OutboxInv'
<1>1. NoneCareless
  BY TaskStepAdvances, AdvanceCareful
<1>2. CASE RetryEvent(w)
  BY <1>2, RetryOutbox
<1>3. CASE AnnounceCompleted(w) \/ AnnounceFailed(w)
  BY <1>3, AnnounceOutbox
<1>4. CASE QueuedJobsStep(w) \/ TranscodeTasksStep(w) \/ UploadTasksStep(w)
  BY <1>1, <1>4, EarlyTasksCalm, Calm
<1>5. CASE \/ Check(w) \/ CommitCompleted(w) \/ PrepareManifest(w) \/ ProbeFails(w)
           \/ CleanUp(w) \/ SkipEvent(w) \/ Publish(w) \/ PublishFails(w)
           \/ CommitProcessed(w)
  BY <1>1, <1>5, LateTasksCalm, Calm
<1> QED
  BY <1>2, <1>3, <1>4, <1>5 DEF TaskStep, CompletedJobsStep, FailedJobsStep, OutboxEventsStep

LEMMA StepOutbox == TypeOK /\ HandInv /\ OutboxInv /\ [Next]_vars => OutboxInv'
<1> SUFFICES ASSUME TypeOK, HandInv, OutboxInv, [Next]_vars PROVE OutboxInv'
  OBVIOUS
<1>1. CASE \E j \in Job : JobArrives(j)
  BY <1>1, ArrivesCalm, Calm
<1>2. ASSUME NEW w \in Worker, Start(w) \/ LoopStep(w) \/ Crash(w) PROVE OutboxInv'
  BY <1>2, LoopCalm, RescueOutbox, Calm
<1>3. ASSUME NEW w \in Worker, TaskStep(w) PROVE OutboxInv'
  BY <1>3, TaskStepOutbox
<1>4. CASE RetryWindowOpens
  BY <1>4, WindowCalm, Calm
<1>5. CASE Expire \/ UNCHANGED vars
  <2>1. UNCHANGED <<job, outbox, ctx>>
    BY <1>5 DEF Expire, vars, db
  <2> QED
    BY <2>1, TablesStill, StillCareful, Calm
<1> QED
  BY <1>1, <1>2, <1>3, <1>4, <1>5 DEF Next

LEMMA InitOutbox == Init => OutboxInv
BY DEF Init, OutboxInv, NoRows

(* PublishedStaysLive: whatever workers do to the rows of a job and of its    *)
(* events behind each other's back, with reads as stale as SQLAlchemy makes *)
(* them, a published job has an event that has not been given up.           *)
THEOREM PublishedStaysLive == Spec => []PublishedHasLiveEvent
BY InitOutbox, StepOutbox, OutboxInvLive, TypeCorrect, HandCorrect, PTL DEF Spec

-----------------------------------------------------------------------------
(* How often an event is sent.                                              *)

(* The session of a worker shows the event PENDING, so that the check under  *)
(* the lock lets it through.                                                *)
MaySend(w, o) ==
  /\ ctx[w].task = "process_outbox_events"
  /\ o \in DOMAIN ctx[w].seen
  /\ ctx[w].seen[o].status = "PENDING"

(* The worker has sent the event and not yet committed that.                *)
Sending(w, o) == At(w, "process_outbox_events", "commit") /\ Cur(w) = o /\ MaySend(w, o)

Settled(o) == o \in DOMAIN outbox /\ outbox[o].status # "PENDING"

(* The workers that have had their turn: without another failure they will   *)
(* not send the event again.                                                *)
Spent(w, o) == Sending(w, o) \/ (Settled(o) /\ ~MaySend(w, o))
Senders(o) == {w \in Worker : Spent(w, o)}

(* Nothing in RepublishedAtMostOnceEach says which workers have sent what:   *)
(* this does, and so it is inductive.                                       *)
SendInv == \A o \in EventId : delivered[o] <= faults + Cardinality(Senders(o))

LEMMA SendersFinite ==
  ASSUME IsFiniteSet(Worker), NEW S \in SUBSET Worker
  PROVE  /\ IsFiniteSet(S)
         /\ Cardinality(S) \in Nat
         /\ Cardinality(S) <= Cardinality(Worker)
BY FS_Subset, FS_CardinalityType

(* One worker more, or at most one less.                                    *)
LEMMA SendersCounted ==
  ASSUME IsFiniteSet(Worker), NEW S \in SUBSET Worker, NEW T \in SUBSET Worker,
         NEW w \in Worker
  PROVE  /\ S \subseteq T => Cardinality(S) <= Cardinality(T)
         /\ S \ {w} \subseteq T => Cardinality(S) <= Cardinality(T) + 1
         /\ w \notin S /\ S \cup {w} \subseteq T => Cardinality(S) + 1 <= Cardinality(T)
<1>1. IsFiniteSet(S) /\ IsFiniteSet(T)
  BY SendersFinite
<1>2. Cardinality(S) \in Nat /\ Cardinality(T) \in Nat
  BY SendersFinite
<1>3. S \subseteq T => Cardinality(S) <= Cardinality(T)
  BY <1>1, FS_Subset
<1>4. ASSUME S \ {w} \subseteq T PROVE Cardinality(S) <= Cardinality(T) + 1
  <2>1. Cardinality(S \ {w}) <= Cardinality(T)
    BY <1>1, <1>4, FS_Subset
  <2>2. Cardinality(S \ {w}) = IF w \in S THEN Cardinality(S) - 1 ELSE Cardinality(S)
    BY <1>1, FS_RemoveElement
  <2> QED
    BY <1>2, <2>1, <2>2
<1>5. ASSUME w \notin S, S \cup {w} \subseteq T PROVE Cardinality(S) + 1 <= Cardinality(T)
  <2>1. Cardinality(S \cup {w}) = Cardinality(S) + 1
    BY <1>1, <1>5, FS_AddElement
  <2>2. Cardinality(S \cup {w}) <= Cardinality(T)
    BY <1>1, <1>5, FS_Subset
  <2> QED
    BY <2>1, <2>2
<1> QED
  BY <1>3, <1>4, <1>5

LEMMA SendInvBounds ==
  ASSUME IsFiniteSet(Worker), TypeOK, SendInv PROVE RepublishedAtMostOnceEach
<1> SUFFICES ASSUME NEW o \in EventId
             PROVE  delivered[o] <= faults + Cardinality(Worker)
  BY DEF RepublishedAtMostOnceEach
<1>1. delivered[o] <= faults + Cardinality(Senders(o))
  BY DEF SendInv
<1>2. Senders(o) \in SUBSET Worker
  BY DEF Senders
<1>3. /\ Cardinality(Senders(o)) <= Cardinality(Worker)
      /\ Cardinality(Senders(o)) \in Nat
  BY <1>2, SendersFinite
<1>4. Cardinality(Worker) \in Nat
  BY FS_CardinalityType
<1>5. delivered[o] \in Nat /\ faults \in Nat
  BY StoreAssumption DEF TypeOK, WorldOK
<1> QED
  BY <1>1, <1>3, <1>4, <1>5

(* An event that is settled stays so.                                       *)
StaysSettled == \A o : Settled(o) => Settled(o)'

(* A session comes to see an event PENDING only where it is.                 *)
Reads(w) == \A o : MaySend(w, o)' /\ Settled(o) => MaySend(w, o)

(* The others are not concerned.                                            *)
LEMMA OthersSpent ==
  ASSUME StaysSettled, NEW o, NEW x, ctx'[x] = ctx[x], Spent(x, o)
  PROVE  Spent(x, o)'
BY DEF StaysSettled, Spent, Sending, MaySend, At, Cur

(* A step that sends nothing and takes nobody's turn back.                  *)
LEMMA NothingSent ==
  ASSUME IsFiniteSet(Worker), TypeOK, TypeOK', SendInv, UNCHANGED delivered,
         Fault \/ UNCHANGED faults,
         \A o \in EventId : \A x \in Worker : Spent(x, o) => Spent(x, o)'
  PROVE  SendInv'
<1> SUFFICES ASSUME NEW o \in EventId
             PROVE  delivered'[o] <= faults' + Cardinality(Senders(o)')
  BY DEF SendInv
<1>1. Senders(o) \in SUBSET Worker /\ Senders(o)' \in SUBSET Worker
  BY DEF Senders
<1>2. Senders(o) \subseteq Senders(o)'
  BY DEF Senders
<1>3. Cardinality(Senders(o)) <= Cardinality(Senders(o)')
  <2>1. PICK w : w = CHOOSE x \in Worker : TRUE
    OBVIOUS
  <2>2. CASE Worker = {}
    BY <1>1, <2>2, FS_EmptySet
  <2>3. CASE Worker # {}
    BY <1>1, <1>2, <2>3, SendersCounted
  <2> QED
    BY <2>2, <2>3
<1>4. /\ Cardinality(Senders(o)) \in Nat /\ Cardinality(Senders(o)') \in Nat
      /\ faults \in Nat /\ faults' \in Nat /\ faults <= faults'
  <2>1. faults \in Nat /\ faults' \in Nat
    BY StoreAssumption DEF TypeOK, WorldOK
  <2> QED
    BY <1>1, <2>1, SendersFinite DEF Fault
<1>5. delivered'[o] = delivered[o] /\ delivered[o] \in Nat
  BY DEF TypeOK, WorldOK
<1>6. delivered[o] <= faults + Cardinality(Senders(o))
  BY DEF SendInv
<1> QED
  BY <1>3, <1>4, <1>5, <1>6

(* A failure gives one worker its turn back.                                *)
LEMMA TurnGivenBack ==
  ASSUME IsFiniteSet(Worker), TypeOK, TypeOK', SendInv, UNCHANGED delivered, Fault,
         StaysSettled, NEW w \in Worker, NEW c, ctx' = [ctx EXCEPT ![w] = c]
  PROVE  SendInv'
<1> SUFFICES ASSUME NEW o \in EventId
             PROVE  delivered'[o] <= faults' + Cardinality(Senders(o)')
  BY DEF SendInv
<1>1. Senders(o) \in SUBSET Worker /\ Senders(o)' \in SUBSET Worker
  BY DEF Senders
<1>2. Senders(o) \ {w} \subseteq Senders(o)'
  <2>1. \A x \in Worker \ {w} : ctx'[x] = ctx[x]
    BY DEF TypeOK
  <2> QED
    BY <2>1, OthersSpent DEF Senders
<1>3. Cardinality(Senders(o)) <= Cardinality(Senders(o)') + 1
  BY <1>1, <1>2, SendersCounted
<1>4. /\ Cardinality(Senders(o)) \in Nat /\ Cardinality(Senders(o)') \in Nat
      /\ faults \in Nat /\ faults' = faults + 1
  <2>1. faults \in Nat /\ faults' = faults + 1
    BY StoreAssumption DEF TypeOK, WorldOK, Fault
  <2> QED
    BY <1>1, <2>1, SendersFinite
<1>5. delivered'[o] = delivered[o] /\ delivered[o] \in Nat
  BY DEF TypeOK, WorldOK
<1>6. delivered[o] <= faults + Cardinality(Senders(o))
  BY DEF SendInv
<1> QED
  BY <1>3, <1>4, <1>5, <1>6

(* A step without a failure by a worker that is not about to commit.        *)
LEMMA TurnKept ==
  ASSUME IsFiniteSet(Worker), TypeOK, TypeOK', SendInv, UNCHANGED <<delivered, faults>>,
         StaysSettled, NEW w \in Worker, NEW c, ctx' = [ctx EXCEPT ![w] = c],
         Reads(w), ~At(w, "process_outbox_events", "commit")
  PROVE  SendInv'
<1>1. ASSUME NEW o \in EventId, NEW x \in Worker, Spent(x, o) PROVE Spent(x, o)'
  <2>1. CASE x = w
    BY <1>1, <2>1 DEF Spent, Sending, Reads, StaysSettled
  <2>2. CASE x # w
    <3>1. ctx'[x] = ctx[x]
      BY <2>2 DEF TypeOK
    <3> QED
      BY <1>1, <3>1, OthersSpent
  <2> QED
    BY <2>1, <2>2
<1> QED
  BY <1>1, NothingSent

(* What a session shows after a step, it showed before or has just read.    *)
LEMMA SeenFrom ==
  ASSUME TypeOK, NEW w \in Worker, NEW c, ctx' = [ctx EXCEPT ![w] = c],
         c.task = "process_outbox_events" =>
           \A o \in DOMAIN c.seen :
             \/ /\ ctx[w].task = c.task
                /\ o \in DOMAIN ctx[w].seen
                /\ c.seen[o] = ctx[w].seen[o]
             \/ c.seen[o] = outbox[o]
  PROVE  Reads(w)
<1>1. ctx'[w] = c
  BY DEF TypeOK
<1> QED
  BY <1>1 DEF Reads, MaySend, Settled

LEMMA AdvanceReads == ASSUME TypeOK, NEW w \in Worker, Advance(w) PROVE Reads(w)
<1> DEFINE r == ctx[w]
<1>0. DOMAIN r = DOMAIN Idle
  BY DEF TypeOK, ContextOK
<1>1. ASSUME NEW p, ctx' = Goto(w, p) PROVE Reads(w)
  <2> DEFINE c == [r EXCEPT !.pc = p]
  <2>1. ctx' = [ctx EXCEPT ![w] = c] /\ c.task = r.task /\ c.seen = r.seen
    BY <1>0, <1>1 DEF Goto, Idle
  <2> HIDE DEF c
  <2> QED
    BY <2>1, SeenFrom
<1>2. CASE ctx' = Failed(w)
  <2> DEFINE c == [r EXCEPT !.pc = "rescue", !.seen = NoRows]
  <2>1. ctx' = [ctx EXCEPT ![w] = c] /\ DOMAIN c.seen = {}
    BY <1>0, <1>2 DEF Failed, Idle, NoRows
  <2> HIDE DEF c
  <2> QED
    BY <2>1, SeenFrom
<1>3. CASE ctx' = Closed(w)
  <2> DEFINE c == [r EXCEPT !.pc = "release", !.seen = NoRows]
  <2>1. ctx' = [ctx EXCEPT ![w] = c] /\ DOMAIN c.seen = {}
    BY <1>0, <1>3 DEF Closed, Idle, NoRows
  <2> HIDE DEF c
  <2> QED
    BY <2>1, SeenFrom
<1>4. CASE ctx' = Aborted(w)
  <2> DEFINE c == [r EXCEPT !.pc = "release", !.todo = {}, !.seen = NoRows]
  <2>1. ctx' = [ctx EXCEPT ![w] = c] /\ DOMAIN c.seen = {}
    BY <1>0, <1>4 DEF Aborted, Idle, NoRows
  <2> HIDE DEF c
  <2> QED
    BY <2>1, SeenFrom
<1> QED
  BY <1>1, <1>2, <1>3, <1>4 DEF Advance

(* A task that starts reads the rows of its batch, as they are.             *)
LEMMA StartReads == ASSUME TypeOK, NEW w \in Worker, Start(w) PROVE Reads(w)
<1>1. PICK task, eligible : Begin(w, task, eligible)
  BY DEF Start, StartQueuedJobs, StartTranscodeTasks, StartUploadTasks, StartCheck,
         StartCompletedJobs, StartFailedJobs, StartOutboxEvents
<1>2. PICK batch :
        ctx' = [ctx EXCEPT ![w] =
                 [Idle EXCEPT !.task = task, !.pc = "pick", !.todo = batch,
                              !.seen = [x \in batch |-> Table(task)[x]]]]
  BY <1>1 DEF Begin
<1> DEFINE c == [Idle EXCEPT !.task = task, !.pc = "pick", !.todo = batch,
                             !.seen = [x \in batch |-> Table(task)[x]]]
<1>3. c.task = task /\ c.seen = [x \in batch |-> Table(task)[x]]
  BY DEF Idle
<1>4. Table("process_outbox_events") = outbox
  BY DEF Table, JobTasks
<1>5. ctx' = [ctx EXCEPT ![w] = c]
  BY <1>2
<1> HIDE DEF c
<1> QED
  BY <1>3, <1>4, <1>5, SeenFrom

LEMMA PickReads == ASSUME TypeOK, NEW w \in Worker, Pick(w) PROVE Reads(w)
<1> DEFINE r == ctx[w]
<1>1. PICK x \in r.todo :
        ctx' = [ctx EXCEPT ![w].pc = "lock", ![w].cur = x, ![w].todo = @ \ {x},
                  ![w].seen = Insert(@, {x}, Table(ctx[w].task)[x])]
  BY DEF Pick
<1> DEFINE c == [r EXCEPT !.pc = "lock", !.cur = x, !.todo = @ \ {x},
                          !.seen = Insert(@, {x}, Table(r.task)[x])]
<1>2. ctx' = [ctx EXCEPT ![w] = c]
  BY <1>1
<1>3. c.task = r.task /\ c.seen = Insert(r.seen, {x}, Table(r.task)[x])
  BY DEF TypeOK, ContextOK, Idle
<1>4. Table("process_outbox_events") = outbox
  BY DEF Table, JobTasks
<1> HIDE DEF c
<1> QED
  BY <1>2, <1>3, <1>4, SeenFrom DEF Insert

LEMMA RescueReads == ASSUME TypeOK, NEW w \in Worker, Rescue(w) PROVE Reads(w)
<1>1. CASE ctx[w].task \in Retrying
  <2> DEFINE row == [x \in {Cur(w)} |-> Table(ctx[w].task)[x]]
             c == [ctx[w] EXCEPT !.pc = "retry", !.loaded = Parents(w), !.seen = row]
  <2>1. ctx' = [ctx EXCEPT ![w] = c]
    BY <1>1 DEF Rescue
  <2>2. c.task = ctx[w].task /\ c.seen = [x \in {Cur(w)} |-> Table(ctx[w].task)[x]]
    BY DEF TypeOK, ContextOK, Idle
  <2>3. Table("process_outbox_events") = outbox
    BY DEF Table, JobTasks
  <2> HIDE DEF c
  <2> QED
    BY <2>1, <2>2, <2>3, SeenFrom
<1>2. CASE ctx[w].task \notin Retrying
  BY <1>2, AdvanceReads DEF Rescue, Advance
<1> QED
  BY <1>1, <1>2

LEMMA LockingReads ==
  ASSUME TypeOK, NEW w \in Worker, LockItem(w) \/ LockCommit(w) PROVE Reads(w)
<1>1. PICK state, next, loaded : Acquire(w, state, next, loaded)
  BY LockingSteps
<1>2. CASE ctx' = Goto(w, "release")
  <2> DEFINE c == [ctx[w] EXCEPT !.pc = "release"]
  <2>1. ctx' = [ctx EXCEPT ![w] = c] /\ c.task = ctx[w].task /\ c.seen = ctx[w].seen
    BY <1>2 DEF Goto, TypeOK, ContextOK, Idle
  <2> HIDE DEF c
  <2> QED
    BY <2>1, SeenFrom
<1>3. CASE ctx' = [ctx EXCEPT ![w].pc = next, ![w].loaded = loaded, ![w].held = @ \cup {state}]
  <2> DEFINE c == [ctx[w] EXCEPT !.pc = next, !.loaded = loaded, !.held = @ \cup {state}]
  <2>1. ctx' = [ctx EXCEPT ![w] = c] /\ c.task = ctx[w].task /\ c.seen = ctx[w].seen
    BY <1>3 DEF TypeOK, ContextOK, Idle
  <2> HIDE DEF c
  <2> QED
    BY <2>1, SeenFrom
<1> QED
  BY <1>1, <1>2, <1>3 DEF Acquire

LEMMA ReleasingReads ==
  ASSUME TypeOK, NEW w \in Worker, Release(w) \/ ReleaseFails(w) PROVE Reads(w)
<1>1. PICK todo : ctx' = Emptied(w, todo)
  BY DEF Release, ReleaseFails
<1> DEFINE c == [ctx[w] EXCEPT !.pc = "pick", !.cur = Nil, !.todo = todo,
                               !.loaded = NotLoaded, !.held = {}]
<1>2. ctx' = [ctx EXCEPT ![w] = c] /\ c.task = ctx[w].task /\ c.seen = ctx[w].seen
  BY <1>1 DEF Emptied, TypeOK, ContextOK, Idle
<1> HIDE DEF c
<1> QED
  BY <1>2, SeenFrom

LEMMA IdleReads ==
  ASSUME TypeOK, NEW w \in Worker, Finish(w) \/ Crash(w) PROVE Reads(w)
<1>1. ctx' = [ctx EXCEPT ![w] = Idle] /\ DOMAIN Idle.seen = {}
  BY DEF Finish, Crash, Idle, NoRows
<1> QED
  BY <1>1, SeenFrom

LEMMA LoopReads ==
  ASSUME TypeOK, NEW w \in Worker, Start(w) \/ LoopStep(w) \/ Crash(w) PROVE Reads(w)
<1>1. ASSUME Raise(w) \/ RaiseInRescue(w) PROVE Reads(w)
  BY <1>1, AdvanceReads DEF Raise, RaiseInRescue, Advance
<1> QED
  BY <1>1, StartReads, PickReads, RescueReads, LockingReads, ReleasingReads, IdleReads
     DEF LoopStep

(* Every step of a worker replaces its context.                             *)
OwnContext(w) == \E c : ctx' = [ctx EXCEPT ![w] = c]

LEMMA AdvanceOwn == ASSUME TypeOK, NEW w \in Worker, Advance(w) PROVE OwnContext(w)
<1>1. ASSUME NEW p, ctx' = Goto(w, p) PROVE OwnContext(w)
  <2>1. ctx' = [ctx EXCEPT ![w] = [ctx[w] EXCEPT !.pc = p]]
    BY <1>1 DEF Goto
  <2> QED
    BY <2>1 DEF OwnContext
<1>2. CASE ctx' = Failed(w)
  <2>1. ctx' = [ctx EXCEPT ![w] = [ctx[w] EXCEPT !.pc = "rescue", !.seen = NoRows]]
    BY <1>2 DEF Failed
  <2> QED
    BY <2>1 DEF OwnContext
<1>3. CASE ctx' = Closed(w)
  <2>1. ctx' = [ctx EXCEPT ![w] = [ctx[w] EXCEPT !.pc = "release", !.seen = NoRows]]
    BY <1>3 DEF Closed
  <2> QED
    BY <2>1 DEF OwnContext
<1>4. CASE ctx' = Aborted(w)
  <2>1. ctx' = [ctx EXCEPT ![w] =
                  [ctx[w] EXCEPT !.pc = "release", !.todo = {}, !.seen = NoRows]]
    BY <1>4 DEF Aborted
  <2> QED
    BY <2>1 DEF OwnContext
<1> QED
  BY <1>1, <1>2, <1>3, <1>4 DEF Advance

LEMMA LoopOwn ==
  ASSUME TypeOK, HandInv, NEW w \in Worker, Start(w) \/ LoopStep(w) \/ Crash(w)
  PROVE  OwnContext(w)
<1>1. ASSUME Empties(w) \/ Quiet(w) PROVE OwnContext(w)
  BY <1>1 DEF Empties, Quiet, OwnContext
<1>2. ASSUME LockItem(w) \/ LockCommit(w) PROVE OwnContext(w)
  <2>1. PICK state, next, loaded : Acquire(w, state, next, loaded)
    BY <1>2, LockingSteps
  <2> QED
    BY <1>1, <2>1, AcquireCases DEF Acquired, OwnContext
<1> QED
  BY <1>1, <1>2, LoopEmpties, ReleaseEmpties, IdleEmpties, RaiseQuiet, RescueQuiet DEF LoopStep

-----------------------------------------------------------------------------
(* Settled events.                                                          *)

LEMMA SettledStays == ASSUME UNCHANGED outbox PROVE StaysSettled
BY DEF StaysSettled, Settled

LEMMA RowsSettled ==
  ASSUME \A o \in DOMAIN outbox :
           /\ o \in DOMAIN outbox'
           /\ outbox'[o].status = "PENDING" => outbox[o].status = "PENDING"
  PROVE  StaysSettled
BY DEF StaysSettled, Settled

LEMMA TaskStepSettled ==
  ASSUME TypeOK, NEW w \in Worker, TaskStep(w) PROVE StaysSettled
<1>1. CASE CommitProcessed(w)
  BY <1>1, Tables, RowsSettled DEF CommitProcessed, IsTable, EventRow, Assign
<1>2. CASE RetryEvent(w)
  <2>1. outbox' = [outbox EXCEPT ![Cur(w)] = Bumped(@, w)]
    BY <1>2 DEF RetryEvent
  <2>2. \A row \in EventRow : Bumped(row, w).status \in {row.status, "FAILED"}
    BY DEF Bumped, Assign, EventRow
  <2> QED
    BY <2>1, <2>2, Tables, RowsSettled DEF IsTable
<1>3. CASE AnnounceCompleted(w) \/ AnnounceFailed(w)
  <2>1. PICK ids, row : outbox' = Insert(outbox, ids, row)
    BY <1>3 DEF AnnounceCompleted, AnnounceFailed, CommitAnnouncement
  <2> QED
    BY <2>1, RowsSettled DEF Insert
<1>4. CASE QueuedJobsStep(w) \/ TranscodeTasksStep(w) \/ UploadTasksStep(w)
  <2>1. UNCHANGED outbox
    BY <1>4 DEF QueuedJobsStep, Download, GenerateInit, CutSegments, CommitTasks, RetryJob,
                TranscodeTasksStep, Transcode, CommitUpload, RetryTranscode,
                UploadTasksStep, UploadFiles, CommitUploaded, RetryUpload, db
  <2> QED
    BY <2>1, SettledStays
<1>5. CASE \/ Check(w) \/ CommitCompleted(w) \/ PrepareManifest(w) \/ ProbeFails(w)
           \/ CleanUp(w) \/ SkipEvent(w) \/ Publish(w) \/ PublishFails(w)
  <2>1. UNCHANGED outbox
    BY <1>5 DEF Check, CommitCompleted, PrepareManifest, ProbeFails, CleanUp, SkipEvent,
                Publish, PublishFails, db
  <2> QED
    BY <2>1, SettledStays
<1> QED
  BY <1>1, <1>2, <1>3, <1>4, <1>5
     DEF TaskStep, CompletedJobsStep, FailedJobsStep, OutboxEventsStep

LEMMA LoopSettled ==
  ASSUME NEW w \in Worker, Start(w) \/ LoopStep(w) \/ Crash(w)
  PROVE  StaysSettled /\ UNCHANGED delivered /\ (Fault \/ UNCHANGED faults)
<1>1. CASE Start(w)
  BY <1>1, SettledStays
     DEF Start, StartQueuedJobs, StartTranscodeTasks, StartUploadTasks, StartCheck,
         StartCompletedJobs, StartFailedJobs, StartOutboxEvents, Begin, db, world
<1>2. CASE LoopStep(w)
  BY <1>2, SettledStays
     DEF LoopStep, Pick, Finish, LockItem, LockCommit, Release, ReleaseFails, Raise,
         Rescue, RaiseInRescue, db, world
<1>3. CASE Crash(w)
  BY <1>3, SettledStays DEF Crash, db
<1> QED
  BY <1>1, <1>2, <1>3

-----------------------------------------------------------------------------
(* The steps of the outbox task that send an event and settle it.           *)

(* Having sent it the worker has had its turn: until then it had not.       *)
LEMMA PublishSends ==
  ASSUME IsFiniteSet(Worker), TypeOK, TypeOK', SendInv, StaysSettled,
         NEW w \in Worker, Publish(w)
  PROVE  SendInv'
<1> DEFINE c == [ctx[w] EXCEPT !.pc = "commit"]
<1>1. ctx' = [ctx EXCEPT ![w] = c]
  BY DEF Publish, Goto
<1>2. /\ c.task = "process_outbox_events" /\ c.pc = "commit"
      /\ c.cur = Cur(w) /\ c.seen = ctx[w].seen
  BY DEF Publish, At, TypeOK, ContextOK, Idle, Cur
<1>3. At(w, "process_outbox_events", "publish") /\ Mine(w).status = "PENDING"
  BY DEF Publish
<1> HIDE DEF c
<1>4. (\A x \in Worker \ {w} : ctx'[x] = ctx[x]) /\ ctx'[w] = c
  BY <1>1 DEF TypeOK
<1>5. CASE Fault /\ UNCHANGED delivered
  BY <1>1, <1>5, TurnGivenBack
<1>6. CASE delivered' = [delivered EXCEPT ![Cur(w)] = @ + 1] /\ UNCHANGED faults
  <2> SUFFICES ASSUME NEW o \in EventId
               PROVE  delivered'[o] <= faults' + Cardinality(Senders(o)')
    BY DEF SendInv
  <2>1. Senders(o) \in SUBSET Worker /\ Senders(o)' \in SUBSET Worker
    BY DEF Senders
  <2>2. Senders(o) \subseteq Senders(o)'
    <3>1. \A x \in Worker \ {w} : Spent(x, o) => Spent(x, o)'
      BY <1>4, OthersSpent
    <3>2. Spent(w, o) => Spent(w, o)'
      BY <1>2, <1>3, <1>4 DEF Spent, Sending, MaySend, StaysSettled, At, Cur
    <3> QED
      BY <3>1, <3>2 DEF Senders
  <2>3. /\ Cardinality(Senders(o)) \in Nat /\ Cardinality(Senders(o)') \in Nat
        /\ faults \in Nat /\ delivered[o] \in Nat
        /\ delivered[o] <= faults + Cardinality(Senders(o))
    BY <2>1, SendersFinite, StoreAssumption DEF TypeOK, WorldOK, SendInv
  <2>4. CASE o = Cur(w)
    <3>0. Cur(w) \in DOMAIN ctx[w].seen
      BY <1>3, AtWork, InnerPcs DEF TaskName, Retrying
    <3>1. w \notin Senders(o)
      BY <1>3, <2>4, <3>0 DEF Senders, Spent, Sending, MaySend, Mine, Cur, At
    <3>2. w \in Senders(o)'
      <4>1. c.cur = o /\ o \in DOMAIN c.seen /\ c.seen[o].status = "PENDING"
        BY <1>2, <1>3, <2>4, <3>0 DEF Mine, Cur
      <4> QED
        BY <1>2, <1>4, <4>1 DEF Senders, Spent, Sending, MaySend, At, Cur
    <3>3. Cardinality(Senders(o)) + 1 <= Cardinality(Senders(o)')
      BY <2>1, <2>2, <3>1, <3>2, SendersCounted
    <3>4. delivered'[o] = delivered[o] + 1
      BY <1>6, <2>4 DEF TypeOK, WorldOK
    <3> QED
      BY <1>6, <2>3, <3>3, <3>4
  <2>5. CASE o # Cur(w)
    <3>1. Cardinality(Senders(o)) <= Cardinality(Senders(o)')
      BY <2>1, <2>2, SendersCounted
    <3>2. delivered'[o] = delivered[o]
      BY <1>6, <2>5 DEF TypeOK, WorldOK
    <3> QED
      BY <1>6, <2>3, <3>1, <3>2
  <2> QED
    BY <2>4, <2>5
<1> QED
  BY <1>5, <1>6 DEF Publish

(* The commit settles the event, and the session forgets that it was PENDING. *)
LEMMA CommitSettles ==
  ASSUME IsFiniteSet(Worker), TypeOK, TypeOK', SendInv, StaysSettled,
         NEW w \in Worker, CommitProcessed(w)
  PROVE  SendInv'
<1>1. Advance(w)
  BY AfterCommitAdvances DEF CommitProcessed, At, Working
<1>2. PICK c : ctx' = [ctx EXCEPT ![w] = c]
  BY <1>1, AdvanceOwn DEF OwnContext
<1>3. UNCHANGED delivered
  BY DEF CommitProcessed, world
<1>4. CASE Fault
  BY <1>2, <1>3, <1>4, TurnGivenBack
<1>5. CASE ctx' = Closed(w) /\ UNCHANGED faults
  <2>1. /\ \A x \in Worker \ {w} : ctx'[x] = ctx[x]
        /\ ctx'[w].task = ctx[w].task /\ ctx'[w].seen = NoRows
    BY <1>5 DEF Closed, TypeOK, ContextOK, Idle
  <2>2. Cur(w) \in DOMAIN outbox /\ Mine(w) \in EventRow
    BY AtWork, InnerPcs DEF CommitProcessed, ItemIds, ItemRow, TaskName, JobTasks, Retrying
  <2>3. ASSUME Mine(w).status = "PENDING" PROVE Settled(Cur(w))'
    <3>1. outbox' = [outbox EXCEPT ![Cur(w)].status = Assign(@, "PENDING", "PROCESSED")]
      BY <2>3 DEF CommitProcessed
    <3>2. outbox' = [outbox EXCEPT ![Cur(w)].status = "PROCESSED"]
      BY <3>1 DEF Assign
    <3>3. PICK o : o = Cur(w)
      OBVIOUS
    <3>4. o \in DOMAIN outbox' /\ outbox'[o].status = "PROCESSED"
      BY <2>2, <3>2, <3>3, Tables DEF IsTable, EventRow
    <3>5. Cur(w)' = o
      BY <1>5, <3>3 DEF Closed, TypeOK, ContextOK, Idle, Cur
    <3> QED
      BY <3>4, <3>5 DEF Settled
  <2>4. ASSUME NEW o \in EventId, NEW x \in Worker, Spent(x, o) PROVE Spent(x, o)'
    <3>1. CASE x # w
      BY <2>1, <2>4, <3>1, OthersSpent
    <3>2. CASE x = w
      <4>1. ~MaySend(w, o)'
        BY <2>1 DEF MaySend, NoRows
      <4>2. CASE Settled(o)
        BY <3>2, <4>1, <4>2 DEF StaysSettled, Spent
      <4>3. CASE Sending(w, o)
        <5>1. Cur(w) = o /\ Cur(w)' = o /\ Mine(w).status = "PENDING"
          BY <1>5, <4>3 DEF Sending, MaySend, Mine, Cur, Closed, TypeOK, ContextOK, Idle
        <5>2. Settled(o)'
          BY <2>3, <5>1 DEF Settled
        <5> QED
          BY <3>2, <4>1, <5>2 DEF Spent
      <4> QED
        BY <2>4, <3>2, <4>2, <4>3 DEF Spent
    <3> QED
      BY <3>1, <3>2
  <2> QED
    BY <1>3, <1>5, <2>4, NothingSent
<1> QED
  BY <1>4, <1>5 DEF CommitProcessed, AfterCommit

LEMMA TaskStepSends ==
  ASSUME IsFiniteSet(Worker), TypeOK, TypeOK', SendInv, NEW w \in Worker, TaskStep(w)
  PROVE  SendInv'
<1>1. StaysSettled /\ Advance(w)
  BY TaskStepSettled, TaskStepAdvances
<1>2. Reads(w) /\ OwnContext(w)
  BY <1>1, AdvanceReads, AdvanceOwn
<1>3. PICK c : ctx' = [ctx EXCEPT ![w] = c]
  BY <1>2 DEF OwnContext
<1>4. CASE Publish(w)
  BY <1>1, <1>4, PublishSends
<1>5. CASE CommitProcessed(w)
  BY <1>1, <1>5, CommitSettles
<1>6. CASE UNCHANGED delivered /\ Fault
  BY <1>1, <1>3, <1>6, TurnGivenBack
<1>7. CASE /\ UNCHANGED <<delivered, faults>>
           /\ ~At(w, "process_outbox_events", "commit")
  BY <1>1, <1>2, <1>3, <1>7, TurnKept
<1>8. CASE QueuedJobsStep(w) \/ TranscodeTasksStep(w) \/ UploadTasksStep(w)
  <2>1. UNCHANGED delivered /\ (Fault \/ UNCHANGED faults)
    BY <1>8 DEF QueuedJobsStep, Download, GenerateInit, CutSegments, CommitTasks, RetryJob,
                TranscodeTasksStep, Transcode, CommitUpload, RetryTranscode, UploadTasksStep,
                UploadFiles, CommitUploaded, RetryUpload, AfterCommit, world
  <2>2. ~At(w, "process_outbox_events", "commit")
    BY <1>8 DEF QueuedJobsStep, Download, GenerateInit, CutSegments, CommitTasks, RetryJob,
                TranscodeTasksStep, Transcode, CommitUpload, RetryTranscode, UploadTasksStep,
                UploadFiles, CommitUploaded, RetryUpload, At
  <2> QED
    BY <1>6, <1>7, <2>1, <2>2
<1>9. CASE \/ CompletedJobsStep(w) \/ FailedJobsStep(w)
           \/ SkipEvent(w) \/ PublishFails(w) \/ RetryEvent(w)
  <2>1. UNCHANGED delivered /\ (Fault \/ UNCHANGED faults)
    BY <1>9 DEF CompletedJobsStep, Check, CommitCompleted, PrepareManifest, ProbeFails,
                AnnounceCompleted, FailedJobsStep, CleanUp, AnnounceFailed,
                CommitAnnouncement, SkipEvent, PublishFails, RetryEvent, AfterCommit, world
  <2>2. ~At(w, "process_outbox_events", "commit")
    BY <1>9 DEF CompletedJobsStep, Check, CommitCompleted, PrepareManifest, ProbeFails,
                AnnounceCompleted, FailedJobsStep, CleanUp, AnnounceFailed,
                SkipEvent, PublishFails, RetryEvent, At
  <2> QED
    BY <1>6, <1>7, <2>1, <2>2
<1> QED
  BY <1>4, <1>5, <1>8, <1>9 DEF TaskStep, OutboxEventsStep

(* The steps of the loop send nothing; one that leaves a commit half done is *)
(* a failure.                                                               *)
LEMMA LoopSends ==
  ASSUME IsFiniteSet(Worker), TypeOK, TypeOK', HandInv, SendInv,
         NEW w \in Worker, Start(w) \/ LoopStep(w) \/ Crash(w)
  PROVE  SendInv'
<1>1. /\ StaysSettled /\ UNCHANGED delivered /\ (Fault \/ UNCHANGED faults)
      /\ Reads(w) /\ OwnContext(w)
  BY LoopSettled, LoopReads, LoopOwn
<1>2. PICK c : ctx' = [ctx EXCEPT ![w] = c]
  BY <1>1 DEF OwnContext
<1>3. Fault \/ ~At(w, "process_outbox_events", "commit")
  <2>1. CASE Start(w)
    <3>1. ctx[w].task = Nil
      BY <2>1 DEF Start, StartQueuedJobs, StartTranscodeTasks, StartUploadTasks, StartCheck,
                  StartCompletedJobs, StartFailedJobs, StartOutboxEvents, Begin
    <3> QED
      BY <3>1, StoreAssumption DEF At, TaskName, Retrying
  <2>2. CASE LoopStep(w)
    BY <2>2 DEF LoopStep, Pick, Finish, LockItem, LockCommit, Release, ReleaseFails,
                Raise, Rescue, RaiseInRescue, At
  <2>3. CASE Crash(w)
    BY <2>3 DEF Crash
  <2> QED
    BY <2>1, <2>2, <2>3
<1>4. CASE Fault
  BY <1>1, <1>2, <1>4, TurnGivenBack
<1>5. CASE UNCHANGED faults /\ ~At(w, "process_outbox_events", "commit")
  BY <1>1, <1>2, <1>5, TurnKept
<1> QED
  BY <1>1, <1>3, <1>4, <1>5

LEMMA StepSends ==
  ASSUME IsFiniteSet(Worker)
  PROVE  TypeOK /\ TypeOK' /\ HandInv /\ SendInv /\ [Next]_vars => SendInv'
<1> SUFFICES ASSUME TypeOK, TypeOK', HandInv, SendInv, [Next]_vars PROVE SendInv'
  OBVIOUS
<1>1. ASSUME NEW w \in Worker, Start(w) \/ LoopStep(w) \/ TaskStep(w) \/ Crash(w)
      PROVE  SendInv'
  BY <1>1, LoopSends, TaskStepSends
<1>2. CASE (\E j \in Job : JobArrives(j)) \/ Expire \/ RetryWindowOpens \/ UNCHANGED vars
  <2>1. UNCHANGED <<ctx, delivered, faults>>
    BY <1>2 DEF JobArrives, Expire, RetryWindowOpens, vars, world
  <2>2. StaysSettled
    <3>1. ASSUME NEW o \in DOMAIN outbox, outbox' = [outbox EXCEPT ![o].due = TRUE]
          PROVE  StaysSettled
      BY <3>1, Tables, RowsSettled DEF IsTable, EventRow
    <3> QED
      BY <1>2, <3>1, SettledStays DEF JobArrives, Expire, RetryWindowOpens, vars, db
  <2>3. ASSUME NEW o \in EventId, NEW x \in Worker, Spent(x, o) PROVE Spent(x, o)'
    BY <2>1, <2>2, <2>3, OthersSpent
  <2> QED
    BY <2>1, <2>3, NothingSent
<1> QED
  BY <1>1, <1>2 DEF Next

LEMMA InitSends == ASSUME IsFiniteSet(Worker) PROVE Init => SendInv
<1> SUFFICES ASSUME Init, NEW o \in EventId
             PROVE  delivered[o] <= faults + Cardinality(Senders(o))
  BY DEF SendInv
<1>1. delivered[o] = 0 /\ faults = 0
  BY DEF Init
<1>2. Senders(o) \in SUBSET Worker
  BY DEF Senders
<1>3. Cardinality(Senders(o)) \in Nat
  BY <1>2, SendersFinite
<1> QED
  BY <1>1, <1>3

LEMMA SendCorrect == ASSUME IsFiniteSet(Worker) PROVE Spec => []SendInv
<1>1. Init => SendInv
  BY InitSends
<1>2. TypeOK /\ TypeOK' /\ HandInv /\ SendInv /\ [Next]_vars => SendInv'
  BY StepSends
<1> QED
  BY <1>1, <1>2, TypeCorrect, HandCorrect, PTL DEF Spec

(* SentOnceEach: however many workers publish from stale batches, and        *)
(* whatever crashes or fails between a publication and its commit, an event *)
(* is sent at most once by every worker and once more for every failure.    *)
THEOREM SentOnceEach ==
  ASSUME IsFiniteSet(Worker) PROVE Spec => []RepublishedAtMostOnceEach
<1>1. TypeOK /\ SendInv => RepublishedAtMostOnceEach
  BY SendInvBounds
<1> QED
  BY <1>1, SendCorrect, TypeCorrect, PTL

=============================================================================
