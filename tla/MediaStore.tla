------------------------------ MODULE MediaStore ------------------------------
(***************************************************************************)
(* The state that the Celery tasks of the media processing service share:  *)
(* the PostgreSQL tables, the Redis locks, the temp directories of every   *)
(* host, the MinIO bucket of segments and the Kafka topics; and what every *)
(* task does with it in the same way: query a batch, take an item, acquire *)
(* and release its locks, roll back and count a retry.  One module per     *)
(* task EXTENDS this one; MediaPipeline composes them.                     *)
(***************************************************************************)
EXTENDS Naturals, FiniteSets

CONSTANTS
  Job,          \* jobs; "job:{event_id}", so one per video.queued event
  Video,        \* video ids
  VideoOf,      \* the video of a job (two events may name one video)
  NumSegments,  \* chunks that the segmenter cuts a video into
  Rendition,    \* 360p .. 1080p and audio: the files of one segment
  Worker,       \* Celery worker processes, each running one task (solo pool)
  Host,         \* machines or containers, each with its own temp directories
  HostOf,       \* the host of a worker
  Nil           \* no item, no task, or the owner of an orphaned lock

CONSTANTS
  MaxAttempts,  \* failed attempts after which an item is FAILED (5)
  BatchLimit,   \* the LIMIT of a task's query (10, 50 or 100)
  MaxCopies,    \* bound: rows inserted for one parent
  MaxFaults,    \* bound: failures of the environment, crashes included
  SlowWork      \* may work outlast LOCK_TTL while its worker is alive?

Segment == 1..NumSegments
Copy == 1..MaxCopies

(* Primary keys. The code draws uuids; here a key also carries the foreign  *)
(* key of its row, and the copy number is what makes it fresh.              *)
TaskId == Job \X Copy \X Segment
UploadId == TaskId \X Copy
EventId == Job \X Copy

(* The Celery tasks: those that take their items from the table jobs, and    *)
(* those that count the failed attempts of an item.                         *)
JobTasks == {"process_queued_jobs", "check_completed_jobs",
             "process_completed_jobs", "process_failed_jobs"}
Retrying == {"process_queued_jobs", "process_transcode_tasks",
             "process_upload_tasks", "process_outbox_events"}
TaskName == JobTasks \cup Retrying

(* Object 0 of a rendition is its init.mp4, the others are its segments.    *)
Object == Video \X Rendition \X (0..NumSegments)

ASSUME StoreAssumption ==
  /\ VideoOf \in [Job -> Video]
  /\ HostOf \in [Worker -> Host]
  /\ NumSegments \in Nat \ {0}
  /\ MaxAttempts \in Nat \ {0}
  /\ BatchLimit \in Nat \ {0}
  /\ MaxCopies \in Nat \ {0}
  /\ MaxFaults \in Nat
  /\ SlowWork \in BOOLEAN
  /\ Nil \notin Worker \cup TaskName
  /\ Nil \notin Job \cup TaskId \cup UploadId \cup EventId
  /\ Job \cap (TaskId \cup UploadId \cup EventId) = {}

VARIABLES
  job,        \* table jobs: a function from the ids of its rows to the rows
  transcode,  \* table transcode_tasks
  upload,     \* table upload_tasks
  outbox,     \* table outbox
  locks,      \* Redis: the locks that are held
  disk,       \* temp directories of every host, by video
  bucket,     \* MinIO vidsegments: the objects present
  delivered,  \* Kafka: how many records of an event its topic has taken
  client,     \* workers whose Kafka producer has been initialised
  ctx,        \* what every worker is doing
  faults      \* failures of the environment so far

db == <<job, transcode, upload, outbox>>
world == <<disk, bucket, delivered, client>>
vars == <<db, locks, world, ctx, faults>>

-----------------------------------------------------------------------------
(* Rows. due stands for "retry_after is NULL or in the past".               *)

JobStatus == {"QUEUED", "PROCESSING", "COMPLETED", "FAILED"}
TranscodeTaskStatus == {"QUEUED", "PROCESSING", "COMPLETED", "FAILED"}
UploadStatus == {"PENDING", "COMPLETED", "FAILED"}
OutboxStatus == {"PENDING", "PROCESSED", "FAILED"}
Topic == {"job.completed", "job.failed"}
Attempts == 0..MaxAttempts

JobRow ==
  [status: JobStatus, retries: Attempts, due: BOOLEAN, published: BOOLEAN]
TaskRow == [status: TranscodeTaskStatus, retries: Attempts, due: BOOLEAN]
UploadRow == [status: UploadStatus, retries: Attempts, due: BOOLEAN]
EventRow ==
  [topic: Topic, status: OutboxStatus, retries: Attempts, due: BOOLEAN]

NewJob == [status |-> "QUEUED", retries |-> 0, due |-> TRUE, published |-> FALSE]
NewTask == [status |-> "QUEUED", retries |-> 0, due |-> TRUE]
NewUpload == [status |-> "PENDING", retries |-> 0, due |-> TRUE]
NewEvent(topic) ==
  [topic |-> topic, status |-> "PENDING", retries |-> 0, due |-> TRUE]

NoRows == [x \in {} |-> NewTask]

Insert(table, ids, row) ==
  [x \in DOMAIN table \cup ids |-> IF x \in DOMAIN table THEN table[x] ELSE row]

(* The copy number that an insert gives its rows: the least one unused.     *)
Fresh(used) == {c \in Copy \ used : \A d \in Copy \ used : c <= d}

JobOfTask(t) == t[1]
SegmentOf(t) == t[3]
TaskOf(u) == u[1]
JobOfEvent(o) == o[1]

TasksOf(j) == {t \in DOMAIN transcode : JobOfTask(t) = j}
UploadsOf(t) == {u \in DOMAIN upload : TaskOf(u) = t}
EventsOf(j) == {o \in DOMAIN outbox : JobOfEvent(o) = j}

(* One video's files in the directories of one host. Only the first three   *)
(* live under the directories that settings name: run_transcoder is given   *)
(* <cwd>/vid_transcoded, which is where cmaf is.                            *)
Files == [video: BOOLEAN, init: BOOLEAN,
          segments: SUBSET Segment, cmaf: SUBSET Segment]
NoFiles == [video |-> FALSE, init |-> FALSE, segments |-> {}, cmaf |-> {}]

-----------------------------------------------------------------------------
(* A worker's context: the task it runs, the items of the batch still to do, *)
(* the item in hand, the rows its session has loaded and not expired (seen), *)
(* the columns of parent rows it has loaded, and the locks it believes held. *)

NotLoaded == [task |-> Nil, job |-> Nil, published |-> FALSE]

Idle == [task |-> Nil, pc |-> "idle", todo |-> {}, cur |-> Nil,
         seen |-> NoRows, loaded |-> NotLoaded, held |-> {}]

At(w, task, pc) == ctx[w].task = task /\ ctx[w].pc = pc
Cur(w) == ctx[w].cur
Mine(w) == ctx[w].seen[ctx[w].cur]
Goto(w, pc) == [ctx EXCEPT ![w].pc = pc]

(* The files of a video on the worker's host, and after a change of them.   *)
DiskOf(w, v) == disk[HostOf[w]][v]
Store(w, v, files) == [disk EXCEPT ![HostOf[w]][v] = files]

(* The table that a task takes its items from.                              *)
Table(task) ==
  CASE task \in JobTasks -> job
    [] task = "process_transcode_tasks" -> transcode
    [] task = "process_upload_tasks" -> upload
    [] OTHER -> outbox

(* An attribute assignment as SQLAlchemy flushes it: the UPDATE carries the *)
(* column only if the new value differs from the value that was loaded.     *)
Assign(column, loaded, new) == IF new = loaded THEN column ELSE new

(* The environment fails: an exception, a lost message, a crash.            *)
Fault == faults < MaxFaults /\ faults' = faults + 1

-----------------------------------------------------------------------------
(* The loop that every task runs over its batch.                            *)

(* The task's query returns rows: any BatchLimit of the eligible ones, as   *)
(* no query has an ORDER BY.                                                *)
Begin(w, task, eligible) ==
  /\ ctx[w].task = Nil
  /\ \E batch \in SUBSET eligible :
       /\ batch # {}
       /\ batch = eligible \/ Cardinality(batch) = BatchLimit
       /\ Cardinality(batch) <= BatchLimit
       /\ ctx' = [ctx EXCEPT ![w] =
                   [Idle EXCEPT !.task = task, !.pc = "pick", !.todo = batch,
                                !.seen = [x \in batch |-> Table(task)[x]]]]
  /\ UNCHANGED <<db, locks, world, faults>>

(* The next item of the for loop: reading its id for the lock's name loads  *)
(* the row again if a commit or a rollback has expired it.                  *)
Pick(w) ==
  /\ ctx[w].pc = "pick"
  /\ \E x \in ctx[w].todo :
       ctx' = [ctx EXCEPT ![w].pc = "lock", ![w].cur = x, ![w].todo = @ \ {x},
                 ![w].seen = Insert(@, {x}, Table(ctx[w].task)[x])]
  /\ UNCHANGED <<db, locks, world, faults>>

(* The batch is done: the task returns and closes its session.              *)
Finish(w) ==
  /\ ctx[w].pc = "pick"
  /\ ctx[w].todo = {}
  /\ ctx' = [ctx EXCEPT ![w] = Idle]
  /\ UNCHANGED <<db, locks, world, faults>>

LockRow == [state: {"PROCESSING", "COMMITTING"},
            id: Job \cup TaskId \cup UploadId \cup EventId,
            owner: Worker \cup {Nil}]

Taken(state, x) == \E l \in locks : l.state = state /\ l.id = x

(* Mutant: an item whose lock is taken is left without its finally clause.   *)
AcquireOrNext(w, state, next, loaded) ==
  \/ /\ ~Taken(state, Cur(w))
     /\ locks' = locks \cup {[state |-> state, id |-> Cur(w), owner |-> w]}
     /\ ctx' = [ctx EXCEPT ![w].pc = next, ![w].loaded = loaded,
                           ![w].held = @ \cup {state}]
  \/ Taken(state, Cur(w)) /\ ctx' = Goto(w, "pick") /\ UNCHANGED locks

(* acquire_lock: the lock if it becomes free within LOCK_BLOCKING_TIMEOUT,  *)
(* else None, on which every task goes on to its next item.                 *)
Acquire(w, state, next, loaded) ==
  \/ /\ ~Taken(state, Cur(w))
     /\ locks' = locks \cup {[state |-> state, id |-> Cur(w), owner |-> w]}
     /\ ctx' = [ctx EXCEPT ![w].pc = next, ![w].loaded = loaded,
                           ![w].held = @ \cup {state}]
  \/ /\ Taken(state, Cur(w))
     /\ ctx' = Goto(w, "release")
     /\ UNCHANGED locks

(* The first lock of an item: PROCESSING, except that the outbox task takes *)
(* only COMMITTING.                                                         *)
LockItem(w) ==
  /\ ctx[w].pc = "lock"
  /\ IF ctx[w].task = "process_outbox_events"
       THEN Acquire(w, "COMMITTING", "publish", NotLoaded)
       ELSE Acquire(w, "PROCESSING", "work", NotLoaded)
  /\ UNCHANGED <<db, world, faults>>

(* The COMMITTING lock, once the work of the item is done.                  *)
LockCommit(w) ==
  /\ ctx[w].pc = "seal"
  /\ Acquire(w, "COMMITTING", "commit",
       IF ctx[w].task = "process_upload_tasks"
         THEN [NotLoaded EXCEPT !.task = transcode[TaskOf(Cur(w))].status]
         ELSE NotLoaded)
  /\ UNCHANGED <<db, world, faults>>

(* What a worker is after the finally clause: between two items.            *)
Emptied(w, todo) ==
  [ctx EXCEPT ![w].pc = "pick", ![w].cur = Nil, ![w].todo = todo,
              ![w].loaded = NotLoaded, ![w].held = {}]

(* Mutant: the keys of the item are deleted, whether acquired or not.        *)
ReleaseByName(w) ==
  /\ ctx[w].pc = "release"
  /\ locks' = {l \in locks : l.id # Cur(w)}
  /\ ctx' = Emptied(w, ctx[w].todo)
  /\ UNCHANGED <<db, world, faults>>

(* Mutant: the locks held are deleted without a look at their token.         *)
ReleaseUntokened(w) ==
  /\ ctx[w].pc = "release"
  /\ locks' = {l \in locks : ~(l.id = Cur(w) /\ l.state \in ctx[w].held)}
  /\ ctx' = Emptied(w, ctx[w].todo)
  /\ UNCHANGED <<db, world, faults>>

(* Mutant: only the COMMITTING lock is released.                             *)
ReleaseCommitting(w) ==
  /\ ctx[w].pc = "release"
  /\ locks' = {l \in locks : l.owner # w \/ l.state # "COMMITTING"}
  /\ ctx' = Emptied(w, ctx[w].todo)
  /\ UNCHANGED <<db, world, faults>>

(* The finally clause: release_lock deletes a lock only while its token is  *)
(* still this worker's, and only warns otherwise.                           *)
Release(w) ==
  /\ ctx[w].pc = "release"
  /\ locks' = {l \in locks : ~(/\ l.owner = w
                               /\ l.id = Cur(w)
                               /\ l.state \in ctx[w].held)}
  /\ ctx' = Emptied(w, ctx[w].todo)
  /\ UNCHANGED <<db, world, faults>>

(* release_lock raises, as Redis is gone: the locks it did not reach stay   *)
(* until their TTL, and the exception leaves the loop.                      *)
ReleaseFails(w) ==
  /\ ctx[w].pc = "release"
  /\ \E kept \in {ctx[w].held, ctx[w].held \ {"COMMITTING"}} :
       /\ kept # {}
       /\ locks' = {IF l.owner = w THEN [l EXCEPT !.owner = Nil] ELSE l :
                     l \in {k \in locks : k.owner = w => k.state \in kept}}
  /\ Fault
  /\ ctx' = Emptied(w, {})
  /\ UNCHANGED <<db, world>>

-----------------------------------------------------------------------------
(* Exceptions.                                                              *)

(* The except clause: roll back, which expires every loaded row, and go on  *)
(* to the log line and, where the task has any, to the retry bookkeeping.   *)
Failed(w) == [ctx EXCEPT ![w].pc = "rescue", ![w].seen = NoRows]

(* The item is over, its rows expired by a commit or a rollback.            *)
Closed(w) == [ctx EXCEPT ![w].pc = "release", ![w].seen = NoRows]

(* The exception leaves the loop: the rest of the batch is dropped.         *)
Aborted(w) == [ctx EXCEPT ![w].pc = "release", ![w].todo = {}, ![w].seen = NoRows]

(* session.commit() has returned and the rows are expired; reading the id   *)
(* for the log line may still fail, after the commit took effect.           *)
AfterCommit(w) ==
  \/ ctx' = Closed(w) /\ UNCHANGED faults
  \/ Fault /\ ctx' = Failed(w)

(* Redis fails to answer, or the commit raises and nothing is written. The  *)
(* outbox task acquires its lock outside the try statement.                 *)
Raise(w) ==
  /\ Fault
  /\ \/ /\ ctx[w].pc = "lock"
        /\ ctx' = IF ctx[w].task = "process_outbox_events" THEN Aborted(w)
                                                           ELSE Failed(w)
     \/ ctx[w].pc \in {"seal", "commit"} /\ ctx' = Failed(w)
  /\ UNCHANGED <<db, locks, world>>

(* What the bookkeeping loads beside the item: the rows it may cascade to.  *)
Parents(w) ==
  CASE ctx[w].task = "process_transcode_tasks" ->
         [NotLoaded EXCEPT !.job = job[JobOfTask(Cur(w))].status]
    [] ctx[w].task = "process_upload_tasks" ->
         [NotLoaded EXCEPT !.task = transcode[TaskOf(Cur(w))].status,
                           !.job = job[JobOfTask(TaskOf(Cur(w)))].status]
    [] ctx[w].task = "process_outbox_events" ->
         [NotLoaded EXCEPT !.job = job[JobOfEvent(Cur(w))].status,
                           !.published = job[JobOfEvent(Cur(w))].published]
    [] OTHER -> NotLoaded

(* session.get of the item that failed: its current row, read again. A task  *)
(* without retries only logs.                                               *)
Rescue(w) ==
  /\ ctx[w].pc = "rescue"
  /\ ctx' = IF ctx[w].task \in Retrying
              THEN [ctx EXCEPT ![w].pc = "retry", ![w].loaded = Parents(w),
                      ![w].seen = [x \in {Cur(w)} |-> Table(ctx[w].task)[x]]]
              ELSE Closed(w)
  /\ UNCHANGED <<db, locks, world, faults>>

(* Mutant: the count is compared before the failed attempt is added.         *)
ExhaustedEarly(w) == Mine(w).retries + 2 >= MaxAttempts

(* The attempt that has just failed was the last one.                       *)
Exhausted(w) == Mine(w).retries + 1 >= MaxAttempts

(* The row after the bookkeeping: FAILED, or one more attempt two minutes   *)
(* from now. It never looks at the status of the row.                       *)
Bumped(row, w) ==
  IF Exhausted(w)
    THEN [row EXCEPT !.status = Assign(@, Mine(w).status, "FAILED"),
                     !.retries = Assign(@, Mine(w).retries, MaxAttempts),
                     !.due = TRUE]
    ELSE [row EXCEPT !.retries = Mine(w).retries + 1, !.due = FALSE]

(* The handler itself raises. The bookkeeping's except clause swallows that, *)
(* except in the outbox task, which raises it again; what the outer clause   *)
(* raises escapes from the loop.                                            *)
RaiseInRescue(w) ==
  /\ ctx[w].pc \in {"rescue", "retry"}
  /\ Fault
  /\ \/ ctx' = Aborted(w)
     \/ /\ ctx[w].task \in Retrying \ {"process_outbox_events"}
        /\ ctx' = Closed(w)
  /\ UNCHANGED <<db, locks, world>>

-----------------------------------------------------------------------------
(* Time and crashes.                                                        *)

(* The worker dies. Its transaction is rolled back, its locks stay in Redis *)
(* with a token nobody owns, and its Kafka producer is gone.                *)
Crash(w) ==
  /\ ctx[w].task # Nil
  /\ Fault
  /\ ctx' = [ctx EXCEPT ![w] = Idle]
  /\ locks' = {[l EXCEPT !.owner = IF @ = w THEN Nil ELSE @] : l \in locks}
  /\ client' = client \ {w}
  /\ UNCHANGED <<db, disk, bucket, delivered>>

(* Mutant: a lock without a timeout.                                         *)
NeverExpire == FALSE /\ UNCHANGED vars

(* LOCK_TTL runs out: always for an orphan, and for a live worker only if   *)
(* its work may take that long.                                             *)
Expire ==
  /\ \E l \in locks : /\ l.owner = Nil \/ SlowWork
                      /\ locks' = locks \ {l}
  /\ UNCHANGED <<db, world, ctx, faults>>

(* Mutant: the query of the events asks for retry_after IS NULL only.        *)
OnlyTaskWindowsOpen ==
  /\ \/ /\ \E j \in DOMAIN job : ~job[j].due /\ job' = [job EXCEPT ![j].due = TRUE]
        /\ UNCHANGED <<transcode, upload>>
     \/ /\ \E t \in DOMAIN transcode :
             /\ ~transcode[t].due
             /\ transcode' = [transcode EXCEPT ![t].due = TRUE]
        /\ UNCHANGED <<job, upload>>
     \/ /\ \E u \in DOMAIN upload :
             ~upload[u].due /\ upload' = [upload EXCEPT ![u].due = TRUE]
        /\ UNCHANGED <<job, transcode>>
  /\ UNCHANGED <<outbox, locks, world, ctx, faults>>

(* retry_after passes.                                                      *)
RetryWindowOpens ==
  /\ \/ /\ \E j \in DOMAIN job : ~job[j].due /\ job' = [job EXCEPT ![j].due = TRUE]
        /\ UNCHANGED <<transcode, upload, outbox>>
     \/ /\ \E t \in DOMAIN transcode :
             /\ ~transcode[t].due
             /\ transcode' = [transcode EXCEPT ![t].due = TRUE]
        /\ UNCHANGED <<job, upload, outbox>>
     \/ /\ \E u \in DOMAIN upload :
             ~upload[u].due /\ upload' = [upload EXCEPT ![u].due = TRUE]
        /\ UNCHANGED <<job, transcode, outbox>>
     \/ /\ \E o \in DOMAIN outbox :
             ~outbox[o].due /\ outbox' = [outbox EXCEPT ![o].due = TRUE]
        /\ UNCHANGED <<job, transcode, upload>>
  /\ UNCHANGED <<locks, world, ctx, faults>>
=============================================================================
