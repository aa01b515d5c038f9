----------------------------- MODULE MediaFilesProofs -----------------------------
(***************************************************************************)
(* The files, with the one worker of Dockerfile.celery: what the rows of    *)
(* the tables promise of the objects in the bucket and of the temp         *)
(* directories, for any number of jobs, renditions, segments and failures. *)
(***************************************************************************)
EXTENDS SoloProofs

(* The cleaning up after a failed job of the video may have taken objects.  *)
VideoFailed(v) == \E k \in DOMAIN job : VideoOf[k] = v /\ job[k].status = "FAILED"

InitsOf(j) == InitObjects(VideoOf[j])
ObjectsOf(t) == SegmentObjects(VideoOf[JobOfTask(t)], SegmentOf(t))

(* No task without the init segments of its video, no COMPLETED upload       *)
(* without its objects.                                                     *)
InitsStored == \A t \in DOMAIN transcode : InitsOf(JobOfTask(t)) \subseteq bucket
SegmentsStored ==
  \A u \in DOMAIN upload :
    upload[u].status = "COMPLETED" =>
      VideoFailed(VideoOf[JobOfTask(TaskOf(u))]) \/ ObjectsOf(TaskOf(u)) \subseteq bucket

(* What a worker at pc, with item x of the task, has done to the bucket.    *)
MediaAt(task, x, pc) ==
  /\ task = "process_queued_jobs" /\ pc \in {"cut", "seal", "commit"}
       => InitsOf(x) \subseteq bucket
  /\ task = "process_upload_tasks" /\ pc \in {"seal", "commit"}
       => ObjectsOf(TaskOf(x)) \subseteq bucket
  /\ task = "process_failed_jobs" /\ pc \in {"seal", "commit"}
       => UploadedObjects(x) \cap bucket = {}

RowsStored == InitsStored /\ SegmentsStored
MediaInv ==
  /\ RowsStored
  /\ \A w \in Worker : MediaAt(ctx[w].task, ctx[w].cur, ctx[w].pc)

-----------------------------------------------------------------------------
(* The rows stay backed by objects.                                         *)

FailedStay ==
  \A j \in DOMAIN job : job[j].status = "FAILED" => j \in DOMAIN job' /\ job'[j].status = "FAILED"

LEMMA WritesKeepFailed == ASSUME Write PROVE FailedStay
<1>1. CASE SameJobs
  BY <1>1 DEF SameJobs, FailedStay
<1>2. CASE \E j \in Job : WriteArrival(j)
  BY <1>2 DEF WriteArrival, FailedStay
<1>3. ASSUME NEW j, NEW s, NEW p, JobSet(j, s, p), s = "FAILED" \/ job[j].status # "FAILED"
      PROVE  FailedStay
  BY <1>3 DEF JobSet, FailedStay
<1>4. ASSUME NEW j, NEW topic, WriteAnnouncement(j, topic) PROVE FailedStay
  BY <1>4 DEF WriteAnnouncement, JobSet, FailedStay
<1>5. ASSUME NEW j \in Job, WriteTasks(j) \/ WriteCompleted(j) \/ WriteFailure(j)
      PROVE  FailedStay
  BY <1>3, <1>5 DEF WriteTasks, WriteCompleted, WriteFailure
<1>6. ASSUME NEW t \in TaskId, WriteUpload(t) \/ WriteTaskFailure(t) PROVE FailedStay
  BY <1>1, <1>3, <1>6 DEF WriteUpload, WriteTaskFailure
<1>7. ASSUME NEW u \in UploadId, WriteUploaded(u) \/ WriteUploadFailure(u) PROVE FailedStay
  BY <1>1, <1>3, <1>7 DEF WriteUploaded, WriteUploadFailure
<1>8. ASSUME NEW o \in EventId, WriteProcessed(o) \/ WriteEventFailure(o) PROVE FailedStay
  BY <1>1, <1>3, <1>8 DEF WriteProcessed, WriteEventFailure
<1> QED
  BY <1>1, <1>2, <1>4, <1>5, <1>6, <1>7, <1>8 DEF Write, NothingWritten

(* A new task has its init segments, a newly COMPLETED upload its objects.  *)
LEMMA RowsStayStored ==
  ASSUME RowsStored, FailedStay, bucket \subseteq bucket',
         \A t \in DOMAIN transcode' :
           t \in DOMAIN transcode \/ InitsOf(JobOfTask(t)) \subseteq bucket',
         \A u \in DOMAIN upload' :
           upload'[u].status = "COMPLETED" =>
             \/ u \in DOMAIN upload /\ upload[u].status = "COMPLETED"
             \/ ObjectsOf(TaskOf(u)) \subseteq bucket'
  PROVE  RowsStored'
<1>1. \A v : VideoFailed(v) => VideoFailed(v)'
  BY DEF VideoFailed, FailedStay
<1>2. InitsStored'
  BY DEF RowsStored, InitsStored, InitsOf, JobOfTask
<1>3. SegmentsStored'
  <2> SUFFICES ASSUME NEW u \in DOMAIN upload', upload'[u].status = "COMPLETED"
               PROVE  \/ VideoFailed(VideoOf[JobOfTask(TaskOf(u))])'
                      \/ ObjectsOf(TaskOf(u)) \subseteq bucket'
    BY DEF SegmentsStored, ObjectsOf, TaskOf, JobOfTask, SegmentOf, SegmentObjects
  <2>1. CASE u \in DOMAIN upload /\ upload[u].status = "COMPLETED"
    BY <1>1, <2>1 DEF RowsStored, SegmentsStored
  <2> QED
    BY <2>1
<1> QED
  BY <1>2, <1>3 DEF RowsStored

LEMMA SameRowsStored ==
  ASSUME RowsStored, FailedStay, SameTasks, SameUploads, bucket \subseteq bucket'
  PROVE  RowsStored'
BY RowsStayStored DEF SameTasks, SameUploads

(* Only the commit of process_queued_jobs adds tasks, and only the commit of *)
(* process_upload_tasks completes an upload task.                           *)
LEMMA RowsAdded ==
  ASSUME TypeOK, NEW w \in Worker, TaskStep(w), ~CommitTasks(w), ~CommitUploaded(w)
  PROVE  /\ DOMAIN transcode' = DOMAIN transcode
         /\ \A u \in DOMAIN upload' :
              upload'[u].status = "COMPLETED" => u \in DOMAIN upload /\ upload[u].status = "COMPLETED"
<1>1. CASE UNCHANGED <<transcode, upload>>
  BY <1>1
<1>2. CASE CommitUpload(w)
  BY <1>2 DEF CommitUpload, Insert, NewUpload
<1>3. CASE RetryTranscode(w)
  BY <1>3 DEF RetryTranscode
<1>4. CASE RetryUpload(w)
  <2>1. \A row \in UploadRow : Bumped(row, w).status = "COMPLETED" => row.status = "COMPLETED"
    BY DEF Bumped, UploadRow, Assign
  <2>2. upload' = [upload EXCEPT ![Cur(w)] = Bumped(@, w)]
    BY <1>4 DEF RetryUpload
  <2>3. DOMAIN transcode' = DOMAIN transcode
    BY <1>4 DEF RetryUpload
  <2> QED
    BY <2>1, <2>2, <2>3, Tables DEF IsTable
<1>5. CASE \/ Works(w) \/ RetryJob(w) \/ CommitCompleted(w) \/ ProbeFails(w)
           \/ AnnounceCompleted(w) \/ AnnounceFailed(w) \/ CommitProcessed(w) \/ RetryEvent(w)
  BY <1>1, <1>5, WorkWritesNothing
     DEF RetryJob, CommitCompleted, ProbeFails, AnnounceCompleted, AnnounceFailed,
         CommitAnnouncement, CommitProcessed, RetryEvent, db
<1> QED
  BY <1>2, <1>3, <1>4, <1>5
     DEF TaskStep, QueuedJobsStep, TranscodeTasksStep, UploadTasksStep, CompletedJobsStep,
         FailedJobsStep, OutboxEventsStep, Works

LEMMA SameUploaded ==
  ASSUME SameTasks, SameUploads PROVE \A j : UploadedObjects(j)' = UploadedObjects(j)
<1>1. \A j : TasksOf(j)' = TasksOf(j)
  BY SameTasksOf
<1>2. \A t : UploadsOf(t)' = UploadsOf(t)
  BY SameUploadsOf
<1>3. \A t : \A u \in UploadsOf(t) : upload'[u].status = upload[u].status
  BY DEF UploadsOf, SameUploads
<1> QED
  BY <1>1, <1>2, <1>3 DEF UploadedObjects

-----------------------------------------------------------------------------
(* What a worker has done to the bucket stays done while it has the item.   *)

LEMMA OneMedia ==
  ASSUME OneWorker, TypeOK, NEW w \in Worker, NEW c, ctx' = [ctx EXCEPT ![w] = c],
         RowsStored', MediaAt(c.task, c.cur, c.pc)'
  PROVE  MediaInv'
<1>1. ctx'[w] = c /\ \A x \in Worker : x = w
  BY DEF TypeOK, OneWorker
<1> QED
  BY <1>1 DEF MediaInv

LEMMA EasyMedia ==
  ASSUME NEW task, NEW x, NEW pc,
         task \notin {"process_queued_jobs", "process_upload_tasks", "process_failed_jobs"}
           \/ pc \notin {"cut", "seal", "commit"}
  PROVE  MediaAt(task, x, pc)'
BY DEF MediaAt

LEMMA AdvanceMedia ==
  ASSUME OneWorker, TypeOK, RowsStored', NEW w \in Worker, Advance(w),
         NEW task, NEW x, task = ctx[w].task, x = ctx[w].cur,
         \A p \in {"cut", "seal", "commit"} : ctx' = Goto(w, p) => MediaAt(task, x, p)'
  PROVE  MediaInv'
<1>1. PICK c : /\ ctx' = [ctx EXCEPT ![w] = c]
               /\ c.task = ctx[w].task /\ c.cur = ctx[w].cur
               /\ \/ c.pc = "rescue" \/ c.pc = "release"
                  \/ c.pc \in Working /\ ctx' = Goto(w, c.pc)
  BY AdvancePc
<1>2. MediaAt(c.task, c.cur, c.pc)'
  <2>1. CASE c.pc \notin {"cut", "seal", "commit"}
    BY <2>1, EasyMedia
  <2>2. CASE c.pc \in {"cut", "seal", "commit"}
    BY <1>1, <2>2
  <2> QED
    BY <2>1, <2>2
<1> QED
  BY <1>1, <1>2, OneMedia

(* The steps of the loop do nothing to the files.                           *)
LEMMA LoopFiles ==
  ASSUME NEW w \in Worker, Start(w) \/ LoopStep(w) \/ Crash(w)
  PROVE  UNCHANGED <<bucket, disk>>
<1>1. CASE Start(w)
  BY <1>1 DEF Start, StartQueuedJobs, StartTranscodeTasks, StartUploadTasks, StartCheck,
              StartCompletedJobs, StartFailedJobs, StartOutboxEvents, Begin, world
<1>2. CASE LoopStep(w)
  BY <1>2 DEF LoopStep, Pick, Finish, LockItem, LockCommit, Release, ReleaseFails, Raise,
              Rescue, RaiseInRescue, world
<1>3. CASE Crash(w)
  BY <1>3 DEF Crash
<1> QED
  BY <1>1, <1>2, <1>3

LEMMA LoopMedia ==
  ASSUME OneWorker, TypeOK, MediaInv, NEW w \in Worker, Start(w) \/ LoopStep(w) \/ Crash(w)
  PROVE  MediaInv'
<1>1. UNCHANGED bucket /\ SameJobs /\ SameTasks /\ SameUploads
  BY LoopFiles, LoopWritesNothing, SameRows DEF db
<1>2. RowsStored'
  BY <1>1, SameRowsStored DEF MediaInv, FailedStay, SameJobs
<1>3. PICK c : ctx' = [ctx EXCEPT ![w] = c] /\ LoopMove(w, c)
  BY LoopMoves
<1>4. MediaAt(c.task, c.cur, c.pc)'
  <2>1. CASE c.pc \notin {"cut", "seal", "commit"}
    BY <2>1, EasyMedia
  <2>2. CASE c.pc \in {"cut", "seal", "commit"}
    <3>1. c.task = ctx[w].task /\ c.cur = ctx[w].cur /\ ctx[w].pc = "seal" /\ c.pc = "commit"
      BY <1>3, <2>2 DEF LoopMove
    <3>2. MediaAt(c.task, c.cur, c.pc)
      BY <3>1 DEF MediaInv, MediaAt
    <3>3. UploadedObjects(c.cur)' = UploadedObjects(c.cur)
      BY <1>1, SameUploaded
    <3> QED
      BY <1>1, <3>2, <3>3 DEF MediaAt, InitsOf, ObjectsOf
  <2> QED
    BY <2>1, <2>2
<1> QED
  BY <1>2, <1>3, <1>4, OneMedia

LEMMA GoesNowhere ==
  ASSUME TypeOK, NEW w \in Worker, ctx' \in {Failed(w), Closed(w), Aborted(w)}
  PROVE  \A p \in Working : ctx' # Goto(w, p)
<1> SUFFICES ASSUME NEW p \in Working, ctx' = Goto(w, p) PROVE FALSE
  OBVIOUS
<1>1. DOMAIN ctx[w] = DOMAIN Idle /\ w \in DOMAIN ctx
  BY DEF TypeOK, ContextOK
<1>2. ctx'[w].pc = p
  BY <1>1 DEF Goto, Idle
<1>3. ctx'[w].pc \in {"rescue", "release"}
  BY <1>1 DEF Failed, Closed, Aborted, Idle
<1> QED
  BY <1>2, <1>3 DEF Working

LEMMA AfterCommitStays ==
  ASSUME TypeOK, NEW w \in Worker, AfterCommit(w)
  PROVE  \A p \in Working : ctx' # Goto(w, p)
BY GoesNowhere DEF AfterCommit

(* The steps that write rows come after the work on the files: the commits   *)
(* and the bookkeeping.                                                     *)
Writes(w) ==
  \/ CommitTasks(w) \/ RetryJob(w) \/ CommitUpload(w) \/ RetryTranscode(w)
  \/ CommitUploaded(w) \/ RetryUpload(w) \/ CommitCompleted(w) \/ ProbeFails(w)
  \/ AnnounceCompleted(w) \/ AnnounceFailed(w) \/ CommitProcessed(w) \/ RetryEvent(w)

LEMMA WorksOrWrites == ASSUME NEW w \in Worker, TaskStep(w) PROVE Works(w) \/ Writes(w)
BY DEF TaskStep, QueuedJobsStep, TranscodeTasksStep, UploadTasksStep, CompletedJobsStep,
       FailedJobsStep, OutboxEventsStep, Works, Writes

LEMMA WritesMove ==
  ASSUME TypeOK, NEW w \in Worker, Writes(w)
  PROVE  UNCHANGED bucket /\ \A p \in Working : ctx' # Goto(w, p)
<1>1. UNCHANGED bucket
  BY DEF Writes, CommitTasks, RetryJob, CommitUpload, RetryTranscode, CommitUploaded,
         RetryUpload, CommitCompleted, ProbeFails, AnnounceCompleted, AnnounceFailed,
         CommitAnnouncement, CommitProcessed, RetryEvent, world
<1>2. ctx' = Closed(w) \/ AfterCommit(w)
  BY DEF Writes, CommitTasks, RetryJob, CommitUpload, RetryTranscode, CommitUploaded,
         RetryUpload, CommitCompleted, ProbeFails, AnnounceCompleted, AnnounceFailed,
         CommitAnnouncement, CommitProcessed, RetryEvent
<1> QED
  BY <1>1, <1>2, GoesNowhere, AfterCommitStays

LEMMA WritesMedia ==
  ASSUME OneWorker, TypeOK, MediaInv, NEW w \in Worker, UpToDate(ctx[w]), TaskStep(w), Writes(w)
  PROVE  MediaInv'
<1>1. UNCHANGED bucket /\ \A p \in Working : ctx' # Goto(w, p)
  BY WritesMove
<1>2. FailedStay
  BY TaskStepWrites, WritesKeepFailed
<1>3. RowsStored'
  <2>1. CASE CommitTasks(w)
    <3>1. InitsOf(Cur(w)) \subseteq bucket
      BY <2>1 DEF CommitTasks, At, Cur, MediaInv, MediaAt
    <3>2. PICK c : transcode' = Insert(transcode, {<<Cur(w), c, s>> : s \in Segment}, NewTask)
      BY <2>1 DEF CommitTasks
    <3>3. \A t \in DOMAIN transcode' : t \in DOMAIN transcode \/ JobOfTask(t) = Cur(w)
      BY <3>2 DEF Insert, JobOfTask
    <3>4. UNCHANGED upload
      BY <2>1 DEF CommitTasks
    <3> QED
      BY <1>1, <1>2, <3>1, <3>3, <3>4, RowsStayStored DEF MediaInv
  <2>2. CASE CommitUploaded(w)
    <3>1. ObjectsOf(TaskOf(Cur(w))) \subseteq bucket
      BY <2>2 DEF CommitUploaded, At, Cur, MediaInv, MediaAt
    <3>2. DOMAIN transcode' = DOMAIN transcode
      BY <2>2 DEF CommitUploaded
    <3>3. \A u \in DOMAIN upload' : u \in DOMAIN upload /\ (u # Cur(w) => upload'[u] = upload[u])
      BY <2>2 DEF CommitUploaded
    <3> QED
      BY <1>1, <1>2, <3>1, <3>2, <3>3, RowsStayStored DEF MediaInv
  <2>3. CASE ~CommitTasks(w) /\ ~CommitUploaded(w)
    BY <1>1, <1>2, <2>3, RowsAdded, RowsStayStored DEF MediaInv
  <2> QED
    BY <2>1, <2>2, <2>3
<1>4. Advance(w)
  BY TaskStepAdvances
<1>5. {"cut", "seal", "commit"} \subseteq Working
  BY DEF Working
<1> QED
  BY <1>1, <1>3, <1>4, <1>5, AdvanceMedia

(* Work that takes nothing from the bucket.                                 *)
LEMMA UploadingMedia ==
  ASSUME OneWorker, TypeOK, MediaInv, NEW w \in Worker, Works(w), TaskStep(w), ~CleanUp(w)
  PROVE  MediaInv'
<1>1. bucket \subseteq bucket'
  BY DEF Works, Download, GenerateInit, CutSegments, Transcode, UploadFiles, Check,
         PrepareManifest, SkipEvent, Publish, PublishFails, world
<1>2. UNCHANGED db
  BY WorkWritesNothing
<1>3. RowsStored'
  BY <1>1, <1>2, SameRows, SameRowsStored DEF MediaInv, FailedStay, SameJobs, db
<1>4. PICK task, x : task = ctx[w].task /\ x = ctx[w].cur
  OBVIOUS
<1>5. "cut" \in Working /\ "seal" \in Working /\ "init" \in Working /\ "commit" \in Working
  BY DEF Working
<1> SUFFICES ASSUME NEW p \in {"cut", "seal", "commit"}, ctx' = Goto(w, p)
             PROVE  MediaAt(task, x, p)'
  BY <1>3, <1>4, TaskStepAdvances, AdvanceMedia
<1>6. ctx' # Failed(w)
  BY <1>5, GoesNowhere
<1>7. CASE Download(w)
  BY <1>6, <1>7, GotoDiffers DEF Download
<1>8. CASE GenerateInit(w)
  <2>1. InitsOf(x) \subseteq bucket' /\ task = "process_queued_jobs" /\ p = "cut"
    BY <1>4, <1>6, <1>8, GotoDiffers DEF GenerateInit, At, VideoInHand, Cur, InitsOf
  <2> QED
    BY <2>1 DEF MediaAt, InitsOf
<1>9. CASE CutSegments(w)
  <2>1. task = "process_queued_jobs" /\ InitsOf(x) \subseteq bucket
    BY <1>4, <1>9 DEF CutSegments, At, MediaInv, MediaAt
  <2> QED
    BY <1>1, <2>1 DEF MediaAt, InitsOf
<1>10. CASE UploadFiles(w)
  <2>1. task = "process_upload_tasks" /\ ObjectsOf(TaskOf(x)) \subseteq bucket'
    BY <1>4, <1>6, <1>10 DEF UploadFiles, At, Cur, ObjectsOf
  <2> QED
    BY <2>1 DEF MediaAt, ObjectsOf
<1>11. CASE \/ Transcode(w) \/ Check(w) \/ PrepareManifest(w)
            \/ SkipEvent(w) \/ Publish(w) \/ PublishFails(w)
  <2>1. task \in {"process_transcode_tasks", "check_completed_jobs",
                  "process_completed_jobs", "process_outbox_events"}
    BY <1>4, <1>11
       DEF Transcode, Check, PrepareManifest, SkipEvent, Publish, PublishFails, At
  <2> QED
    BY <2>1, EasyMedia
<1> QED
  BY <1>7, <1>8, <1>9, <1>10, <1>11 DEF Works

(* Init segments are never taken, and the segments only of a failed job.    *)
LEMMA CleanUpMedia ==
  ASSUME OneWorker, TypeOK, MediaInv, NEW w \in Worker, UpToDate(ctx[w]), TaskStep(w), CleanUp(w)
  PROVE  MediaInv'
<1>1. PICK task, j : task = ctx[w].task /\ j = ctx[w].cur
  OBVIOUS
<1>2. j \in DOMAIN job /\ job[j].status = "FAILED" /\ task = "process_failed_jobs"
  <2>1. At(w, "process_failed_jobs", "work") /\ "work" \in Working
    BY DEF CleanUp, Working
  <2> QED
    BY <1>1, <2>1, JobInHand DEF JobTasks, Wanted, At, Cur
<1>3. UNCHANGED db
  BY WorkWritesNothing DEF Works
<1>4. /\ bucket' \subseteq bucket /\ bucket \ bucket' \subseteq UploadedObjects(j)
      /\ \/ ctx' \in {Failed(w), Goto(w, "release")}
         \/ UploadedObjects(j) \cap bucket' = {}
  BY <1>1 DEF CleanUp, Cur
<1>5. UploadedObjects(j) \subseteq {VideoOf[j]} \X Rendition \X Segment
  BY DEF UploadedObjects
<1>6. UNCHANGED <<job, transcode, upload>> /\ InitsStored /\ SegmentsStored
  BY <1>3 DEF db, MediaInv, RowsStored
<1>7. InitsStored'
  <2>1. 0 \notin Segment
    BY DEF Segment
  <2>2. \A k : InitsOf(k) \cap UploadedObjects(j) = {}
    BY <1>5, <2>1 DEF InitsOf, InitObjects
  <2>3. \A k : InitsOf(k) \subseteq bucket => InitsOf(k) \subseteq bucket'
    BY <1>4, <2>2
  <2> QED
    BY <1>6, <2>3 DEF InitsStored, InitsOf, JobOfTask
<1>8. SegmentsStored'
  <2> SUFFICES ASSUME NEW u \in DOMAIN upload, upload[u].status = "COMPLETED"
               PROVE  \/ VideoFailed(VideoOf[JobOfTask(TaskOf(u))])
                      \/ ObjectsOf(TaskOf(u)) \subseteq bucket'
    BY <1>6 DEF SegmentsStored, VideoFailed, ObjectsOf
  <2>1. PICK v : v = VideoOf[JobOfTask(TaskOf(u))]
    OBVIOUS
  <2>2. CASE v = VideoOf[j]
    BY <1>2, <2>1, <2>2 DEF VideoFailed
  <2>3. CASE v # VideoOf[j]
    <3>1. ObjectsOf(TaskOf(u)) \cap UploadedObjects(j) = {}
      BY <1>5, <2>1, <2>3 DEF ObjectsOf, SegmentObjects
    <3>2. VideoFailed(v) \/ ObjectsOf(TaskOf(u)) \subseteq bucket
      BY <1>6, <2>1 DEF SegmentsStored
    <3> QED
      BY <1>4, <2>1, <3>1, <3>2
  <2> QED
    BY <2>2, <2>3
<1>9. {"cut", "seal", "commit"} \subseteq Working
  BY DEF Working
<1>10. UploadedObjects(j)' = UploadedObjects(j)
  BY <1>6, SameRows, SameUploaded
<1>11. ASSUME NEW p \in {"cut", "seal", "commit"}, ctx' = Goto(w, p) PROVE MediaAt(task, j, p)'
  <2>1. ctx' \notin {Failed(w), Goto(w, "release")}
    BY <1>9, <1>11, GoesNowhere, GotoDiffers
  <2> QED
    BY <1>2, <1>4, <1>10, <2>1 DEF MediaAt
<1> QED
  BY <1>1, <1>7, <1>8, <1>11, TaskStepAdvances, AdvanceMedia DEF RowsStored

(* Nobody moves: an arrival, a retry window, a lock that expires.           *)
LEMMA StillMedia ==
  ASSUME MediaInv, UNCHANGED <<ctx, bucket>>, FailedStay, SameTasks, SameUploads
  PROVE  MediaInv'
<1>1. RowsStored'
  BY SameRowsStored DEF MediaInv
<1>2. \A j : UploadedObjects(j)' = UploadedObjects(j)
  BY SameUploaded
<1> SUFFICES ASSUME NEW w \in Worker PROVE MediaAt(ctx[w].task, ctx[w].cur, ctx[w].pc)'
  BY <1>1 DEF MediaInv
<1>3. PICK c : c = ctx[w] /\ c = ctx'[w]
  OBVIOUS
<1>4. MediaAt(c.task, c.cur, c.pc)
  BY <1>3 DEF MediaInv
<1>5. MediaAt(c.task, c.cur, c.pc)'
  BY <1>2, <1>4 DEF MediaAt, InitsOf, ObjectsOf
<1> QED
  BY <1>3, <1>5

LEMMA StepMedia ==
  ASSUME OneWorker PROVE TypeOK /\ SoloInv /\ MediaInv /\ [Next]_vars => MediaInv'
<1> SUFFICES ASSUME TypeOK, SoloInv, MediaInv, [Next]_vars PROVE MediaInv'
  OBVIOUS
<1>1. ASSUME NEW w \in Worker, Start(w) \/ LoopStep(w) \/ Crash(w) PROVE MediaInv'
  BY <1>1, LoopMedia
<1>2. ASSUME NEW w \in Worker, TaskStep(w) PROVE MediaInv'
  <2>1. UpToDate(ctx[w])
    BY DEF SoloInv, ViewInv
  <2> QED
    BY <1>2, <2>1, WorksOrWrites, WritesMedia, UploadingMedia, CleanUpMedia
<1>3. FailedStay
  BY StepWrites, WritesKeepFailed DEF SoloInv
<1>4. CASE \E j \in Job : JobArrives(j)
  BY <1>3, <1>4, SameRows, StillMedia DEF JobArrives, world
<1>5. CASE RetryWindowOpens
  BY <1>3, <1>5, WindowWrites, StillMedia DEF RetryWindowOpens, NothingWritten, world
<1>6. CASE Expire \/ UNCHANGED vars
  BY <1>3, <1>6, SameRows, StillMedia DEF Expire, vars, db, world
<1> QED
  BY <1>1, <1>2, <1>4, <1>5, <1>6 DEF Next

LEMMA InitMedia == Init => MediaInv
<1> SUFFICES ASSUME Init PROVE MediaInv
  OBVIOUS
<1>1. DOMAIN transcode = {} /\ DOMAIN upload = {}
  BY DEF Init, NoRows
<1>2. \A w \in Worker : ctx[w].pc = "idle"
  BY DEF Init, Idle
<1> QED
  BY <1>1, <1>2 DEF MediaInv, RowsStored, InitsStored, SegmentsStored, MediaAt

LEMMA MediaCorrect == ASSUME OneWorker PROVE Spec => [](TypeOK /\ SoloInv /\ MediaInv)
<1>1. TypeOK /\ SoloInv /\ MediaInv /\ [Next]_vars => MediaInv'
  BY StepMedia
<1> QED
  BY <1>1, InitMedia, SoloCorrect, TypeCorrect, PTL DEF Spec

-----------------------------------------------------------------------------
(* A COMPLETED job is playable.                                             *)

LEMMA CompletedStored ==
  ASSUME TypeOK, JobsInv, TasksInv, RowsStored,
         NEW j \in DOMAIN job, job[j].status = "COMPLETED", ~VideoFailed(VideoOf[j])
  PROVE  Playable(VideoOf[j])
<1> SUFFICES ASSUME NEW r \in Rendition, NEW s \in 0..NumSegments
             PROVE  <<VideoOf[j], r, s>> \in bucket
  BY DEF Playable
<1>1. TasksOf(j) # {} /\ \A t \in TasksOf(j) : transcode[t].status = "COMPLETED"
  BY DEF JobsInv
<1>2. PICK c \in Copy : TasksOf(j) = {<<j, c, i>> : i \in Segment}
  BY <1>1 DEF JobsInv
<1>3. CASE s = 0
  <2>1. PICK t \in TasksOf(j) : t \in DOMAIN transcode /\ JobOfTask(t) = j
    BY <1>1 DEF TasksOf
  <2>2. InitsOf(j) \subseteq bucket
    BY <2>1 DEF RowsStored, InitsStored
  <2> QED
    BY <1>3, <2>2 DEF InitsOf, InitObjects
<1>4. CASE s # 0
  <2>1. s \in Segment
    BY <1>4, StoreAssumption DEF Segment
  <2>2. PICK t : t = <<j, c, s>>
    OBVIOUS
  <2>3. t \in TasksOf(j) /\ JobOfTask(t) = j /\ SegmentOf(t) = s
    BY <1>2, <2>1, <2>2 DEF JobOfTask, SegmentOf
  <2>4. PICK u \in UploadsOf(t) : upload[u].status = "COMPLETED"
    BY <1>1, <2>3 DEF TasksInv, TasksOf
  <2>5. u \in DOMAIN upload /\ TaskOf(u) = t
    BY <2>4 DEF UploadsOf
  <2>6. ObjectsOf(t) \subseteq bucket
    BY <2>3, <2>4, <2>5 DEF RowsStored, SegmentsStored
  <2> QED
    BY <2>3, <2>6 DEF ObjectsOf, SegmentObjects
<1> QED
  BY <1>3, <1>4

(* SharedVideoPlayable: with one worker, what process_queued_jobs and         *)
(* process_upload_tasks have sent for a COMPLETED job is all there, though   *)
(* jobs may share a video: cleaning up after an announced one, retries and   *)
(* failures halfway take nothing; only process_failed_jobs does, after a     *)
(* FAILED job of the video.                                                 *)
THEOREM SharedStaysPlayable ==
  ASSUME OneWorker PROVE Spec => []SharedVideoPlayable
<1>1. ASSUME TypeOK, SoloInv, MediaInv PROVE SharedVideoPlayable
  <2> SUFFICES ASSUME NEW j \in Job, HasStatus(j, "COMPLETED"),
                      \A k \in Job : VideoOf[k] = VideoOf[j] => ~HasStatus(k, "FAILED")
               PROVE  Playable(VideoOf[j])
    BY DEF SharedVideoPlayable
  <2>1. j \in DOMAIN job /\ job[j].status = "COMPLETED" /\ DOMAIN job \subseteq Job
    BY <1>1, JobFlags DEF HasStatus
  <2>2. ~VideoFailed(VideoOf[j])
    BY <2>1 DEF VideoFailed, HasStatus
  <2>3. JobsInv /\ TasksInv /\ RowsStored
    BY <1>1 DEF SoloInv, RowsInv, MediaInv
  <2> QED
    BY <1>1, <2>1, <2>2, <2>3, CompletedStored
<1> QED
  BY <1>1, MediaCorrect, PTL

(* One job per video: no two video.queued events name the same video.       *)
OwnVideos == \A j, k \in Job : VideoOf[j] = VideoOf[k] => j = k

LEMMA OwnStored ==
  ASSUME OwnVideos, TypeOK, SoloInv, MediaInv,
         NEW j \in DOMAIN job, job[j].status = "COMPLETED"
  PROVE  Playable(VideoOf[j])
<1>1. ~VideoFailed(VideoOf[j])
  BY JobFlags DEF VideoFailed, OwnVideos
<1> QED
  BY <1>1, CompletedStored DEF SoloInv, RowsInv, MediaInv

(* CompletedIsPlayable: with one worker and a video of its own, a job that    *)
(* check_completed_jobs makes COMPLETED has all its objects in the bucket,   *)
(* and keeps them for as long as it is COMPLETED.                           *)
THEOREM CompletedStaysPlayable ==
  ASSUME OneWorker, OwnVideos PROVE Spec => []CompletedIsPlayable
<1>1. TypeOK /\ SoloInv /\ MediaInv => CompletedIsPlayable
  BY OwnStored DEF CompletedIsPlayable, HasStatus
<1> QED
  BY <1>1, MediaCorrect, PTL

(* AnnouncedIsPlayable: nor does anything take the objects of a job whose     *)
(* job.completed event process_outbox_events has marked PROCESSED: what the  *)
(* event has told stays true.                                               *)
THEOREM AnnouncedStaysPlayable ==
  ASSUME OneWorker, OwnVideos PROVE Spec => []AnnouncedIsPlayable
<1>1. ASSUME TypeOK, SoloInv, MediaInv PROVE AnnouncedIsPlayable
  <2> SUFFICES ASSUME NEW o \in DOMAIN outbox, outbox[o].topic = "job.completed",
                      outbox[o].status = "PROCESSED"
               PROVE  Playable(VideoOf[JobOfEvent(o)])
    BY DEF AnnouncedIsPlayable
  <2>1. job[JobOfEvent(o)].status = "COMPLETED"
    BY <1>1 DEF SoloInv, RowsInv, EventsInv
  <2>2. JobOfEvent(o) \in DOMAIN job
    BY <1>1 DEF TypeOK, TablesOK
  <2> QED
    BY <1>1, <2>1, <2>2, OwnStored
<1> QED
  BY <1>1, MediaCorrect, PTL

-----------------------------------------------------------------------------
(* A FAILED job is announced once its objects are gone.                     *)

(* The published flag of a job goes up in the two announcements only.       *)
LEMMA OthersKeepFlags ==
  ASSUME TypeOK, NEW w \in Worker, UpToDate(ctx[w]), TaskStep(w),
         ~AnnounceCompleted(w), ~AnnounceFailed(w)
  PROVE  FlagsKept
<1>1. CASE RetryEvent(w)
  <2>1. PICK o \in EventId : WriteEventFailure(o) \/ NothingWritten
    BY <1>1, RetryEventWrites
  <2> QED
    BY <2>1 DEF WriteEventFailure, NothingWritten, JobSet, SameJobs, FlagsKept
<1>2. CASE QueuedJobsStep(w) \/ TranscodeTasksStep(w) \/ UploadTasksStep(w)
  BY <1>2, EarlyTasksCalm
<1> QED
  BY <1>1, <1>2, LateTasksCalm
     DEF TaskStep, CompletedJobsStep, FailedJobsStep, OutboxEventsStep

LEMMA FlagRaised ==
  ASSUME TypeOK, ViewInv, [Next]_vars,
         NEW j \in DOMAIN job, ~job[j].published, job'[j].published, j \in DOMAIN job'
  PROVE  \E w \in Worker : j = Cur(w) /\ (AnnounceCompleted(w) \/ AnnounceFailed(w))
<1>1. ~FlagsKept
  BY DEF FlagsKept
<1>2. ASSUME NEW w \in Worker, Start(w) \/ LoopStep(w) \/ Crash(w) PROVE FALSE
  BY <1>1, <1>2, LoopWritesNothing, TablesStill DEF db
<1>3. CASE (\E k \in Job : JobArrives(k)) \/ RetryWindowOpens
  BY <1>1, <1>3, ArrivesCalm, WindowCalm
<1>4. CASE Expire \/ UNCHANGED vars
  BY <1>1, <1>4, TablesStill DEF Expire, vars, db
<1>5. ASSUME NEW w \in Worker, TaskStep(w)
      PROVE  (AnnounceCompleted(w) \/ AnnounceFailed(w)) /\ j = Cur(w)
  <2>1. UpToDate(ctx[w])
    BY DEF ViewInv
  <2>2. AnnounceCompleted(w) \/ AnnounceFailed(w)
    BY <1>1, <1>5, <2>1, OthersKeepFlags
  <2>3. PICK k \in Job, topic \in Topic : k = Cur(w) /\ WriteAnnouncement(k, topic)
    BY <2>1, <2>2, AnnouncementWrites
  <2>4. j = k
    BY <2>3 DEF WriteAnnouncement, JobSet
  <2> QED
    BY <2>2, <2>3, <2>4
<1> QED
  BY <1>2, <1>3, <1>4, <1>5 DEF Next

LEMMA StepEmptied ==
  ASSUME TypeOK, SoloInv, MediaInv, [Next]_vars,
         NEW j \in DOMAIN job, job[j].status = "FAILED", ~job[j].published, job'[j].published,
         NEW t \in TasksOf(j), NEW u \in UploadsOf(t), upload[u].status = "COMPLETED"
  PROVE  SegmentObjects(VideoOf[j], SegmentOf(t)) \cap bucket = {}
<1>1. j \in DOMAIN job'
  BY StepWrites, WritesKeepFailed DEF SoloInv, FailedStay
<1>2. PICK w \in Worker : j = Cur(w) /\ (AnnounceCompleted(w) \/ AnnounceFailed(w))
  BY <1>1, FlagRaised DEF SoloInv
<1>3. AnnounceFailed(w)
  <2>1. SUFFICES ASSUME AnnounceCompleted(w) PROVE FALSE
    BY <1>2
  <2>2. At(w, "process_completed_jobs", "commit") /\ "commit" \in Working
    BY <2>1 DEF AnnounceCompleted, Working
  <2>3. Wanted("process_completed_jobs", job[j])
    BY <1>2, <2>2, JobInHand DEF JobTasks, SoloInv, ViewInv
  <2> QED
    BY <2>3 DEF Wanted
<1>4. UploadedObjects(j) \cap bucket = {}
  BY <1>2, <1>3 DEF AnnounceFailed, At, Cur, MediaInv, MediaAt
<1>5. SegmentObjects(VideoOf[j], SegmentOf(t)) \subseteq UploadedObjects(j)
  <2>1. SegmentOf(t) \in Segment
    <3>1. t \in TaskId
      BY Tables DEF IsTable, TasksOf
    <3> QED
      BY <3>1 DEF TaskId, SegmentOf
  <2> QED
    BY <2>1 DEF SegmentObjects, UploadedObjects
<1> QED
  BY <1>4, <1>5

(* FailedIsEmptied: with one worker, process_failed_jobs announces a job only *)
(* when every object of its COMPLETED uploads is gone, also if an earlier    *)
(* run deleted some and failed, and if other jobs share the video.          *)
THEOREM FailedIsEmptiedFirst ==
  ASSUME OneWorker PROVE Spec => FailedIsEmptied
<1>1. TypeOK /\ SoloInv /\ MediaInv /\ [Next]_vars
        => [\A j \in DOMAIN job :
              job[j].status = "FAILED" /\ ~job[j].published /\ job'[j].published
                => \A t \in TasksOf(j) :
                     (\E u \in UploadsOf(t) : upload[u].status = "COMPLETED")
                       => SegmentObjects(VideoOf[j], SegmentOf(t)) \cap bucket = {}]_vars
  BY StepEmptied
<1> QED
  BY <1>1, MediaCorrect, PTL DEF Spec, FailedIsEmptied

-----------------------------------------------------------------------------
(* A published job has left nothing in the temp directories.                *)

CleanFiles(files) == ~files.video /\ ~files.init /\ files.segments = {}
Clean(v) == \A h \in Host : CleanFiles(disk[h][v])

PublishedClean == \A j \in DOMAIN job : job[j].published => Clean(VideoOf[j])

(* Nobody has written to the host of no worker.                             *)
OtherHostsClean ==
  \A h \in Host : (\A w \in Worker : HostOf[w] # h) => \A v \in Video : CleanFiles(disk[h][v])

CleanAt(task, x, pc) ==
  task \in {"process_completed_jobs", "process_failed_jobs"} /\ pc \in {"seal", "commit"}
    => Clean(VideoOf[x])

DisksClean == PublishedClean /\ OtherHostsClean
CleanInv ==
  /\ DisksClean
  /\ \A w \in Worker : CleanAt(ctx[w].task, ctx[w].cur, ctx[w].pc)

LEMMA OneClean ==
  ASSUME OneWorker, TypeOK, NEW w \in Worker, NEW c, ctx' = [ctx EXCEPT ![w] = c],
         DisksClean', CleanAt(c.task, c.cur, c.pc)'
  PROVE  CleanInv'
<1>1. ctx'[w] = c /\ \A x \in Worker : x = w
  BY DEF TypeOK, OneWorker
<1> QED
  BY <1>1 DEF CleanInv

LEMMA AdvanceClean ==
  ASSUME OneWorker, TypeOK, DisksClean', NEW w \in Worker, Advance(w),
         NEW task, NEW x, task = ctx[w].task, x = ctx[w].cur,
         \A p \in {"seal", "commit"} : ctx' = Goto(w, p) => CleanAt(task, x, p)'
  PROVE  CleanInv'
<1>1. PICK c : /\ ctx' = [ctx EXCEPT ![w] = c]
               /\ c.task = ctx[w].task /\ c.cur = ctx[w].cur
               /\ \/ c.pc = "rescue" \/ c.pc = "release"
                  \/ c.pc \in Working /\ ctx' = Goto(w, c.pc)
  BY AdvancePc
<1>2. CleanAt(c.task, c.cur, c.pc)'
  <2>1. CASE c.pc \notin {"seal", "commit"}
    BY <2>1 DEF CleanAt
  <2>2. CASE c.pc \in {"seal", "commit"}
    BY <1>1, <2>2
  <2> QED
    BY <2>1, <2>2
<1> QED
  BY <1>1, <1>2, OneClean

LEMMA DisksStayClean ==
  ASSUME DisksClean, UNCHANGED disk, FlagsKept PROVE DisksClean' /\ \A v : Clean(v) => Clean(v)'
<1>1. \A v : Clean(v) => Clean(v)'
  BY DEF Clean
<1>2. PublishedClean'
  BY <1>1 DEF DisksClean, PublishedClean, FlagsKept
<1>3. OtherHostsClean'
  BY DEF DisksClean, OtherHostsClean
<1> QED
  BY <1>1, <1>2, <1>3 DEF DisksClean

LEMMA LoopClean ==
  ASSUME OneWorker, TypeOK, CleanInv, NEW w \in Worker, Start(w) \/ LoopStep(w) \/ Crash(w)
  PROVE  CleanInv'
<1>1. UNCHANGED disk /\ UNCHANGED <<job, outbox>>
  BY LoopFiles, LoopWritesNothing DEF db
<1>2. DisksClean' /\ \A v : Clean(v) => Clean(v)'
  BY <1>1, TablesStill, DisksStayClean DEF CleanInv
<1>3. PICK c : ctx' = [ctx EXCEPT ![w] = c] /\ LoopMove(w, c)
  BY LoopMoves
<1>4. CleanAt(c.task, c.cur, c.pc)'
  <2>1. CASE c.pc \notin {"seal", "commit"}
    BY <2>1 DEF CleanAt
  <2>2. CASE c.pc \in {"seal", "commit"}
    <3>1. c.task = ctx[w].task /\ c.cur = ctx[w].cur /\ ctx[w].pc = "seal" /\ c.pc = "commit"
      BY <1>3, <2>2 DEF LoopMove
    <3>2. CleanAt(c.task, c.cur, c.pc)
      BY <3>1 DEF CleanInv, CleanAt
    <3> QED
      BY <1>2, <3>2 DEF CleanAt
  <2> QED
    BY <2>1, <2>2
<1> QED
  BY <1>2, <1>3, <1>4, OneClean

(* What a change of one video's files on the worker's host leaves clean.    *)
LEMMA StoredFiles ==
  ASSUME TypeOK, NEW w \in Worker, NEW v \in Video, NEW files, disk' = Store(w, v, files)
  PROVE  \A h \in Host, x \in Video :
           disk'[h][x] = IF h = HostOf[w] /\ x = v THEN files ELSE disk[h][x]
BY StoreAssumption DEF TypeOK, WorldOK, Store

LEMMA StoreClean ==
  ASSUME OneWorker, OwnVideos, TypeOK, DisksClean, FlagsKept, NEW w \in Worker,
         NEW j \in DOMAIN job, NEW files, disk' = Store(w, VideoOf[j], files),
         ~job[j].published \/ CleanFiles(files)
  PROVE  DisksClean' /\ (CleanFiles(files) => Clean(VideoOf[j])')
<1>1. DOMAIN job \subseteq Job /\ VideoOf[j] \in Video
  BY JobFlags, VideoOfJob
<1>2. \A h \in Host, x \in Video :
        disk'[h][x] = IF h = HostOf[w] /\ x = VideoOf[j] THEN files ELSE disk[h][x]
  BY <1>1, StoredFiles
<1>3. PublishedClean'
  <2> SUFFICES ASSUME NEW k \in DOMAIN job, job[k].published, NEW h \in Host
               PROVE  CleanFiles(disk'[h][VideoOf[k]])
    BY DEF PublishedClean, Clean, FlagsKept
  <2>1. CleanFiles(disk[h][VideoOf[k]])
    BY DEF DisksClean, PublishedClean, Clean
  <2>2. VideoOf[k] \in Video
    BY VideoOfJob
  <2>3. CASE k = j
    BY <1>2, <2>1, <2>2, <2>3
  <2>4. CASE k # j
    <3>1. VideoOf[k] # VideoOf[j]
      BY <1>1, <2>4 DEF OwnVideos
    <3> QED
      BY <1>2, <2>1, <2>2, <3>1
  <2> QED
    BY <2>3, <2>4
<1>4. OtherHostsClean'
  BY <1>2 DEF DisksClean, OtherHostsClean
<1>5. ASSUME CleanFiles(files), NEW h \in Host PROVE CleanFiles(disk'[h][VideoOf[j]])
  <2>1. CASE h = HostOf[w]
    BY <1>1, <1>2, <1>5, <2>1
  <2>2. CASE h # HostOf[w]
    BY <1>1, <1>2, <2>2 DEF DisksClean, OtherHostsClean, OneWorker
  <2> QED
    BY <2>1, <2>2
<1> QED
  BY <1>3, <1>4, <1>5 DEF DisksClean, Clean

LEMMA StoredGoes ==
  ASSUME OneWorker, TypeOK, NEW w \in Worker, TaskStep(w), DisksClean',
         NEW task, NEW x, task = ctx[w].task, x = ctx[w].cur,
         \/ task \notin {"process_completed_jobs", "process_failed_jobs"}
         \/ \A p \in Working : ctx' # Goto(w, p)
  PROVE  CleanInv'
<1>1. \A p \in {"seal", "commit"} : ctx' = Goto(w, p) => CleanAt(task, x, p)'
  BY DEF CleanAt, Working
<1> QED
  BY <1>1, TaskStepAdvances, AdvanceClean

(* process_queued_jobs fills the directories of jobs that are still QUEUED.  *)
LEMMA QueuedClean ==
  ASSUME OneWorker, OwnVideos, TypeOK, RowsInv, CleanInv, NEW w \in Worker,
         UpToDate(ctx[w]), TaskStep(w), Download(w) \/ GenerateInit(w) \/ CutSegments(w)
  PROVE  CleanInv'
<1>1. PICK task, j : task = ctx[w].task /\ j = ctx[w].cur
  OBVIOUS
<1>2. /\ j \in DOMAIN job /\ ~job[j].published
      /\ task = "process_queued_jobs"
  <2>1. PICK pc \in Working : At(w, "process_queued_jobs", pc)
    BY DEF Download, GenerateInit, CutSegments, Working
  <2>2. j \in DOMAIN job /\ job[j].status = "QUEUED"
    BY <1>1, <2>1, JobInHand DEF JobTasks, Wanted, Cur
  <2>3. job[j].published => job[j].status \in {"COMPLETED", "FAILED"}
    BY <2>2 DEF RowsInv, JobsInv
  <2> QED
    BY <1>1, <2>1, <2>2, <2>3 DEF At
<1>3. UNCHANGED db
  BY WorkWritesNothing DEF Works
<1>4. FlagsKept
  BY <1>3, TablesStill DEF db
<1>5. UNCHANGED disk \/ \E files : disk' = Store(w, VideoOf[j], files)
  BY <1>1 DEF Download, GenerateInit, CutSegments, VideoInHand, Cur
<1>6. DisksClean'
  <2>1. CASE UNCHANGED disk
    BY <1>4, <2>1, DisksStayClean DEF CleanInv
  <2>2. ASSUME NEW files, disk' = Store(w, VideoOf[j], files) PROVE DisksClean'
    BY <1>2, <1>4, <2>2, StoreClean DEF CleanInv
  <2> QED
    BY <1>5, <2>1, <2>2
<1> QED
  BY <1>1, <1>2, <1>6, StoredGoes

(* process_transcode_tasks writes beside the directories of settings.       *)
LEMMA TranscodeClean ==
  ASSUME OneWorker, TypeOK, CleanInv, NEW w \in Worker, TaskStep(w), Transcode(w)
  PROVE  CleanInv'
<1>1. PICK task, t : task = ctx[w].task /\ t = ctx[w].cur
  OBVIOUS
<1>2. task = "process_transcode_tasks"
  BY <1>1 DEF Transcode, At
<1>3. UNCHANGED db
  BY WorkWritesNothing DEF Works
<1>4. FlagsKept
  BY <1>3, TablesStill DEF db
<1>5. PICK v : v = VideoOf[JobOfTask(t)]
  OBVIOUS
<1>6. UNCHANGED disk
        \/ \E s : disk' = Store(w, v, [DiskOf(w, v) EXCEPT !.cmaf = @ \cup {s}])
  BY <1>1, <1>5 DEF Transcode, Cur
<1>7. DisksClean'
  <2>1. CASE UNCHANGED disk
    BY <1>4, <2>1, DisksStayClean DEF CleanInv
  <2>2. ASSUME NEW s, disk' = Store(w, v, [DiskOf(w, v) EXCEPT !.cmaf = @ \cup {s}])
        PROVE  DisksClean'
    <3>1. v \in Video
      <4>1. InBody(w) /\ Cur(w) = t
        BY <1>1 DEF Transcode, At, InBody, Cur
      <4>2. t \in DOMAIN transcode
        BY <1>1, <1>2, <4>1, ItemInHand DEF ItemIds, JobTasks
      <4> QED
        BY <1>5, <4>2, VideoOfJob DEF TypeOK, TablesOK
    <3>2. DiskOf(w, v) \in Files
      BY <3>1, StoreAssumption DEF TypeOK, WorldOK, DiskOf
    <3>3. PICK files : /\ disk' = Store(w, v, files)
                       /\ files = [DiskOf(w, v) EXCEPT !.cmaf = @ \cup {s}]
      BY <2>2
    <3>4. CleanFiles(DiskOf(w, v)) => CleanFiles(files)
      BY <3>2, <3>3 DEF CleanFiles, Files
    <3>5. \A h \in Host, x \in Video :
            disk'[h][x] = IF h = HostOf[w] /\ x = v THEN files ELSE disk[h][x]
      <4>1. disk' = Store(w, v, files)
        BY <3>3
      <4> QED
        BY <3>1, <4>1, StoredFiles
    <3>6. \A h \in Host, x \in Video : CleanFiles(disk[h][x]) => CleanFiles(disk'[h][x])
      BY <3>4, <3>5 DEF DiskOf
    <3>7. PublishedClean'
      <4> SUFFICES ASSUME NEW k \in DOMAIN job, job[k].published, NEW h \in Host
                   PROVE  CleanFiles(disk'[h][VideoOf[k]])
        BY <1>4 DEF PublishedClean, Clean, FlagsKept
      <4>1. CleanFiles(disk[h][VideoOf[k]])
        BY DEF CleanInv, DisksClean, PublishedClean, Clean
      <4> QED
        BY <3>6, <4>1, VideoOfJob
    <3>8. OtherHostsClean'
      BY <3>6 DEF CleanInv, DisksClean, OtherHostsClean
    <3> QED
      BY <3>7, <3>8 DEF DisksClean
  <2> QED
    BY <1>6, <2>1, <2>2
<1> QED
  BY <1>1, <1>2, <1>7, StoredGoes

(* process_completed_jobs and process_failed_jobs work on a job that is not  *)
(* published, and go on to their commit with its directories empty.         *)
LEMMA CleaningClean ==
  ASSUME OneWorker, OwnVideos, TypeOK, CleanInv, NEW w \in Worker,
         UpToDate(ctx[w]), TaskStep(w), PrepareManifest(w) \/ CleanUp(w)
  PROVE  CleanInv'
<1>1. PICK task, j : task = ctx[w].task /\ j = ctx[w].cur
  OBVIOUS
<1>2. j \in DOMAIN job /\ ~job[j].published
  <2>1. PICK name \in {"process_completed_jobs", "process_failed_jobs"} : At(w, name, "work")
    BY DEF PrepareManifest, CleanUp
  <2>2. Wanted(name, job[j]) /\ j \in DOMAIN job
    BY <1>1, <2>1, JobInHand DEF JobTasks, Working, Cur
  <2> QED
    BY <2>2 DEF Wanted
<1>3. UNCHANGED db
  BY WorkWritesNothing DEF Works
<1>4. FlagsKept
  BY <1>3, TablesStill DEF db
<1>5. /\ UNCHANGED disk \/ \E files : disk' = Store(w, VideoOf[j], files)
      /\ \/ ctx' \in {Failed(w), Goto(w, "release")}
         \/ disk' = Store(w, VideoOf[j], Cleaned(DiskOf(w, VideoOf[j])))
  BY <1>1 DEF PrepareManifest, CleanUp, Cur
<1>6. DisksClean'
  <2>1. CASE UNCHANGED disk
    BY <1>4, <2>1, DisksStayClean DEF CleanInv
  <2>2. ASSUME NEW files, disk' = Store(w, VideoOf[j], files) PROVE DisksClean'
    BY <1>2, <1>4, <2>2, StoreClean DEF CleanInv
  <2> QED
    BY <1>5, <2>1, <2>2
<1>7. ASSUME NEW p \in {"seal", "commit"}, ctx' = Goto(w, p) PROVE CleanAt(task, j, p)'
  <2>1. p \in Working /\ p # "release"
    BY DEF Working
  <2>2. ctx' \notin {Failed(w), Goto(w, "release")}
    BY <1>7, <2>1, GoesNowhere, GotoDiffers
  <2>3. PICK files : files = Cleaned(DiskOf(w, VideoOf[j])) /\ disk' = Store(w, VideoOf[j], files)
    BY <1>5, <2>2
  <2>4. CleanFiles(files)
    BY <2>3 DEF CleanFiles, Cleaned, NoFiles
  <2>5. Clean(VideoOf[j])'
    BY <1>2, <1>4, <2>3, <2>4, StoreClean DEF CleanInv
  <2> QED
    BY <2>5 DEF CleanAt
<1> QED
  BY <1>1, <1>6, <1>7, TaskStepAdvances, AdvanceClean

(* The other work, and the bookkeeping, leave the directories alone.        *)
LEMMA OtherWorkClean ==
  ASSUME OneWorker, TypeOK, CleanInv, NEW w \in Worker, TaskStep(w),
         UploadFiles(w) \/ Check(w) \/ SkipEvent(w) \/ Publish(w) \/ PublishFails(w)
  PROVE  CleanInv'
<1>1. PICK task, x : task = ctx[w].task /\ x = ctx[w].cur
  OBVIOUS
<1>2. UNCHANGED disk /\ task \notin {"process_completed_jobs", "process_failed_jobs"}
  BY <1>1 DEF UploadFiles, Check, SkipEvent, Publish, PublishFails, At, world
<1>3. UNCHANGED db
  BY WorkWritesNothing DEF Works
<1>4. DisksClean'
  BY <1>2, <1>3, TablesStill, DisksStayClean DEF CleanInv, db
<1> QED
  BY <1>1, <1>2, <1>4, StoredGoes

(* A failed probe has downloaded the video of a job that is not published.   *)
LEMMA ProbeClean ==
  ASSUME OneWorker, OwnVideos, TypeOK, CleanInv, NEW w \in Worker, UpToDate(ctx[w]),
         TaskStep(w), ProbeFails(w)
  PROVE  CleanInv'
<1>1. PICK task, j : task = ctx[w].task /\ j = ctx[w].cur
  OBVIOUS
<1>2. j \in DOMAIN job /\ ~job[j].published
  <2>1. At(w, "process_completed_jobs", "work")
    BY DEF ProbeFails
  <2>2. Wanted("process_completed_jobs", job[j]) /\ j \in DOMAIN job
    BY <1>1, <2>1, JobInHand DEF JobTasks, Working, Cur
  <2> QED
    BY <2>2 DEF Wanted
<1>3. PICK files : disk' = Store(w, VideoOf[j], files)
  BY <1>1 DEF ProbeFails, Cur
<1>4. FlagsKept
  BY LateTasksCalm
<1>5. DisksClean'
  BY <1>2, <1>3, <1>4, StoreClean DEF CleanInv
<1>6. \A p \in Working : ctx' # Goto(w, p)
  BY WritesMove DEF Writes
<1> QED
  BY <1>1, <1>5, <1>6, StoredGoes

(* The published flag of a job goes up with its directories empty.          *)
LEMMA AnnouncementClean ==
  ASSUME OneWorker, TypeOK, CleanInv, NEW w \in Worker, UpToDate(ctx[w]),
         TaskStep(w), AnnounceCompleted(w) \/ AnnounceFailed(w)
  PROVE  CleanInv'
<1>1. PICK task, j : task = ctx[w].task /\ j = ctx[w].cur
  OBVIOUS
<1>2. UNCHANGED disk
  BY DEF AnnounceCompleted, AnnounceFailed, CommitAnnouncement, world
<1>3. Clean(VideoOf[j])
  BY <1>1 DEF AnnounceCompleted, AnnounceFailed, At, CleanInv, CleanAt
<1>4. PICK k \in Job, topic \in Topic : k = j /\ WriteAnnouncement(k, topic)
  BY <1>1, AnnouncementWrites DEF Cur
<1>5. \A i \in DOMAIN job' : i \in DOMAIN job /\ (i # j => job'[i].published = job[i].published)
  BY <1>4 DEF WriteAnnouncement, JobSet
<1>6. PublishedClean'
  <2>1. \A v : Clean(v) => Clean(v)'
    BY <1>2 DEF Clean
  <2> QED
    BY <1>3, <1>5, <2>1 DEF CleanInv, DisksClean, PublishedClean
<1>7. DisksClean'
  BY <1>2, <1>6 DEF CleanInv, DisksClean, OtherHostsClean
<1>8. \A p \in Working : ctx' # Goto(w, p)
  BY WritesMove DEF Writes
<1> QED
  BY <1>1, <1>7, <1>8, StoredGoes

LEMMA WritesClean ==
  ASSUME OneWorker, OwnVideos, TypeOK, CleanInv, NEW w \in Worker, UpToDate(ctx[w]),
         TaskStep(w), Writes(w)
  PROVE  CleanInv'
<1>1. CASE ProbeFails(w)
  BY <1>1, ProbeClean
<1>2. CASE AnnounceCompleted(w) \/ AnnounceFailed(w)
  BY <1>2, AnnouncementClean
<1>3. CASE ~ProbeFails(w) /\ ~AnnounceCompleted(w) /\ ~AnnounceFailed(w)
  <2>1. UNCHANGED disk
    BY <1>3 DEF Writes, CommitTasks, RetryJob, CommitUpload, RetryTranscode, CommitUploaded,
                RetryUpload, CommitCompleted, CommitProcessed, RetryEvent, world
  <2>2. DisksClean'
    BY <1>3, <2>1, OthersKeepFlags, DisksStayClean DEF CleanInv
  <2>3. PICK task, x : task = ctx[w].task /\ x = ctx[w].cur
    OBVIOUS
  <2> QED
    BY <2>2, <2>3, WritesMove, StoredGoes
<1> QED
  BY <1>1, <1>2, <1>3

LEMMA StillClean ==
  ASSUME CleanInv, UNCHANGED <<ctx, disk>>, FlagsKept PROVE CleanInv'
<1>1. DisksClean' /\ \A v : Clean(v) => Clean(v)'
  BY DisksStayClean DEF CleanInv
<1> SUFFICES ASSUME NEW w \in Worker PROVE CleanAt(ctx[w].task, ctx[w].cur, ctx[w].pc)'
  BY <1>1 DEF CleanInv
<1>2. PICK c : c = ctx[w] /\ c = ctx'[w]
  OBVIOUS
<1>3. CleanAt(c.task, c.cur, c.pc)
  BY <1>2 DEF CleanInv
<1>4. CleanAt(c.task, c.cur, c.pc)'
  BY <1>1, <1>3 DEF CleanAt
<1> QED
  BY <1>2, <1>4

LEMMA StepClean ==
  ASSUME OneWorker, OwnVideos PROVE TypeOK /\ SoloInv /\ CleanInv /\ [Next]_vars => CleanInv'
<1> SUFFICES ASSUME TypeOK, SoloInv, CleanInv, [Next]_vars PROVE CleanInv'
  OBVIOUS
<1>1. ASSUME NEW w \in Worker, Start(w) \/ LoopStep(w) \/ Crash(w) PROVE CleanInv'
  BY <1>1, LoopClean
<1>2. ASSUME NEW w \in Worker, TaskStep(w) PROVE CleanInv'
  <2>1. UpToDate(ctx[w]) /\ RowsInv
    BY DEF SoloInv, ViewInv
  <2>2. CASE Writes(w)
    BY <1>2, <2>1, <2>2, WritesClean
  <2>3. CASE Works(w)
    BY <1>2, <2>1, <2>3, QueuedClean, TranscodeClean, CleaningClean, OtherWorkClean DEF Works
  <2> QED
    BY <1>2, <2>2, <2>3, WorksOrWrites
<1>3. CASE \E j \in Job : JobArrives(j)
  BY <1>3, ArrivesCalm, StillClean DEF JobArrives, world
<1>4. CASE RetryWindowOpens
  BY <1>4, WindowCalm, StillClean DEF RetryWindowOpens, world
<1>5. CASE Expire \/ UNCHANGED vars
  BY <1>5, TablesStill, StillClean DEF Expire, vars, db, world
<1> QED
  BY <1>1, <1>2, <1>3, <1>4, <1>5 DEF Next

LEMMA InitClean == Init => CleanInv
<1> SUFFICES ASSUME Init PROVE CleanInv
  OBVIOUS
<1>1. \A h \in Host, v \in Video : CleanFiles(disk[h][v])
  BY DEF Init, NoFiles, CleanFiles
<1>2. DOMAIN job = {} /\ \A w \in Worker : ctx[w].pc = "idle"
  BY DEF Init, NoRows, Idle
<1> QED
  BY <1>1, <1>2 DEF CleanInv, DisksClean, PublishedClean, OtherHostsClean, CleanAt

(* AnnouncedIsCleaned: with one worker and a video of its own, a published    *)
(* job has nothing left in the temp directories of settings on any host:    *)
(* cleanup_temp_files empties them before the announcement, and none of the *)
(* tasks that are yet to run for the job fills them again.                  *)
THEOREM AnnouncedStaysCleaned ==
  ASSUME OneWorker, OwnVideos PROVE Spec => []AnnouncedIsCleaned
<1>1. ASSUME TypeOK, CleanInv PROVE AnnouncedIsCleaned
  BY <1>1 DEF CleanInv, DisksClean, PublishedClean, Clean, CleanFiles, AnnouncedIsCleaned
<1>2. TypeOK /\ SoloInv /\ CleanInv /\ [Next]_vars => CleanInv'
  BY StepClean
<1> QED
  BY <1>1, <1>2, InitClean, SoloCorrect, TypeCorrect, PTL DEF Spec

=============================================================================
