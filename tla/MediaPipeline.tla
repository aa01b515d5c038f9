----------------------------- MODULE MediaPipeline -----------------------------
(***************************************************************************)
(* The whole pipeline: every Celery task on every worker, the jobs that    *)
(* the Kafka consumer inserts, retry windows, lock expiry and crashes.     *)
(***************************************************************************)
EXTENDS QueuedJobs, TranscodeTasks, UploadTasks, FailedJobs, OutboxEvents

Init ==
  /\ job = NoRows
  /\ transcode = NoRows
  /\ upload = NoRows
  /\ outbox = NoRows
  /\ locks = {}
  /\ disk = [h \in Host |-> [v \in Video |-> NoFiles]]
  /\ bucket = {}
  /\ delivered = [o \in EventId |-> 0]
  /\ client = {}
  /\ ctx = [w \in Worker |-> Idle]
  /\ faults = 0

(* The consumer commits the job of a video.queued event; a second insert of  *)
(* the same id is an IntegrityError and changes nothing.                    *)
JobArrives(j) ==
  /\ j \notin DOMAIN job
  /\ job' = Insert(job, {j}, NewJob)
  /\ UNCHANGED <<transcode, upload, outbox, locks, world, ctx, faults>>

(* What the tasks have in common.                                           *)
LoopStep(w) ==
  \/ Pick(w)
  \/ Finish(w)
  \/ LockItem(w)
  \/ LockCommit(w)
  \/ Release(w)
  \/ ReleaseFails(w)
  \/ Raise(w)
  \/ Rescue(w)
  \/ RaiseInRescue(w)

TaskStep(w) ==
  \/ QueuedJobsStep(w)
  \/ TranscodeTasksStep(w)
  \/ UploadTasksStep(w)
  \/ CompletedJobsStep(w)
  \/ FailedJobsStep(w)
  \/ OutboxEventsStep(w)

Start(w) ==
  \/ StartQueuedJobs(w)
  \/ StartTranscodeTasks(w)
  \/ StartUploadTasks(w)
  \/ StartCheck(w)
  \/ StartCompletedJobs(w)
  \/ StartFailedJobs(w)
  \/ StartOutboxEvents(w)

Next ==
  \/ \E j \in Job : JobArrives(j)
  \/ \E w \in Worker : Start(w) \/ LoopStep(w) \/ TaskStep(w) \/ Crash(w)
  \/ Expire
  \/ RetryWindowOpens

Spec == Init /\ [][Next]_vars

(* Beat schedules every task again and again and the worker takes them in    *)
(* the order of the queue, so a task that has work again and again is run;  *)
(* a running task goes on; time passes.                                     *)
Progress(w) == (LoopStep(w) \/ TaskStep(w)) /\ UNCHANGED faults

Fairness ==
  /\ \A w \in Worker :
       /\ WF_vars(Progress(w))
       /\ SF_vars(StartQueuedJobs(w))
       /\ SF_vars(StartTranscodeTasks(w))
       /\ SF_vars(StartUploadTasks(w))
       /\ SF_vars(StartCheck(w))
       /\ SF_vars(StartCompletedJobs(w))
       /\ SF_vars(StartFailedJobs(w))
       /\ SF_vars(StartOutboxEvents(w))
  /\ WF_vars(Expire)
  /\ WF_vars(RetryWindowOpens)

FairSpec == Spec /\ Fairness

-----------------------------------------------------------------------------
(* Types.                                                                   *)

IsTable(table, ids, row) ==
  /\ DOMAIN table \subseteq ids
  /\ table = [x \in DOMAIN table |-> table[x]]
  /\ \A x \in DOMAIN table : table[x] \in row

ItemIds(task) ==
  CASE task \in JobTasks -> DOMAIN job
    [] task = "process_transcode_tasks" -> DOMAIN transcode
    [] task = "process_upload_tasks" -> DOMAIN upload
    [] task = "process_outbox_events" -> DOMAIN outbox
    [] OTHER -> {}

(* The row type of the table that a task works on.                          *)
ItemRow(task) ==
  CASE task \in JobTasks -> JobRow
    [] task = "process_transcode_tasks" -> TaskRow
    [] task = "process_upload_tasks" -> UploadRow
    [] OTHER -> EventRow

Pc == {"idle", "pick", "lock", "work", "init", "cut", "seal", "publish",
       "commit", "rescue", "retry", "release"}

LoadedRow == [task: TranscodeTaskStatus \cup {Nil}, job: JobStatus \cup {Nil},
              published: BOOLEAN]

(* A worker holds an item exactly while it is inside the loop's body, and    *)
(* has the row of that item except while an exception has expired it.       *)
ContextOK(c) ==
  /\ DOMAIN c = DOMAIN Idle
  /\ c.task \in TaskName \cup {Nil}
  /\ c.pc \in Pc
  /\ c.todo \subseteq ItemIds(c.task)
  /\ IsTable(c.seen, ItemIds(c.task), ItemRow(c.task))
  /\ c.loaded \in LoadedRow
  /\ c.held \subseteq {"PROCESSING", "COMMITTING"}
  /\ c.task = Nil <=> c.pc = "idle"
  /\ c.pc \in {"idle", "pick"} <=> c.cur = Nil
  /\ c.cur # Nil => c.cur \in ItemIds(c.task)
  /\ c.pc \notin {"idle", "pick", "rescue", "release"} => c.cur \in DOMAIN c.seen

(* The rows, and the foreign keys of the tables.                            *)
TablesOK ==
  /\ IsTable(job, Job, JobRow)
  /\ IsTable(transcode, TaskId, TaskRow)
  /\ IsTable(upload, UploadId, UploadRow)
  /\ IsTable(outbox, EventId, EventRow)
  /\ \A t \in DOMAIN transcode : JobOfTask(t) \in DOMAIN job
  /\ \A u \in DOMAIN upload : TaskOf(u) \in DOMAIN transcode
  /\ \A o \in DOMAIN outbox : JobOfEvent(o) \in DOMAIN job

WorldOK ==
  /\ locks \subseteq LockRow
  /\ disk \in [Host -> [Video -> Files]]
  /\ bucket \subseteq Object
  /\ delivered \in [EventId -> Nat]
  /\ client \subseteq Worker
  /\ faults \in 0..MaxFaults

(* TypeOK: every table, lock, directory and worker context keeps its type.  *)
(* In particular a foreign key always finds its row, a worker in the body   *)
(* of a loop has an item of its own task in hand, and every read of a       *)
(* loaded row finds one.                                                    *)
TypeOK ==
  /\ TablesOK
  /\ WorldOK
  /\ DOMAIN ctx = Worker
  /\ \A w \in Worker : ContextOK(ctx[w])
=============================================================================
