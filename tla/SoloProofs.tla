------------------------------- MODULE SoloProofs -------------------------------
(***************************************************************************)
(* The pipeline with the one solo-pool worker of Dockerfile.celery, for    *)
(* any number of jobs, segments, attempts and failures: what its session   *)
(* has loaded is what is stored, so each commit is one of a few writes,    *)
(* and these keep the rows of the four tables in step.                     *)
(***************************************************************************)
EXTENDS OutboxProofs

OneWorker == \A w, x \in Worker : w = x

-----------------------------------------------------------------------------
(* What a worker's context says of the tables.                              *)

(* The rows that the query of a task asks for.                              *)
Wanted(task, row) ==
  CASE task \in {"process_queued_jobs", "process_transcode_tasks"} -> row.status = "QUEUED"
    [] task = "check_completed_jobs" -> row.status = "PROCESSING"
    [] task = "process_completed_jobs" -> row.status = "COMPLETED" /\ ~row.published
    [] task = "process_failed_jobs" -> row.status = "FAILED" /\ ~row.published
    [] OTHER -> row.status = "PENDING"

(* The row after the commit of a task that counts failed attempts: what      *)
(* follows the commit may fail, and the bookkeeping finds it like this.     *)
Passed(task, row) ==
  CASE task \in {"process_queued_jobs", "process_transcode_tasks"} -> row.status = "PROCESSING"
    [] task = "process_upload_tasks" -> row.status = "COMPLETED"
    [] OTHER -> row.status = "PROCESSED"

(* The session's rows are the stored ones, but for retry_after.             *)
SeenIsStored(c) ==
  \A x \in DOMAIN c.seen :
    /\ c.seen[x].status = Table(c.task)[x].status
    /\ c.seen[x].retries = Table(c.task)[x].retries
    /\ c.task \in JobTasks => c.seen[x].published = Table(c.task)[x].published

BatchIsWanted(c) ==
  \A x \in c.todo : x # c.cur /\ Wanted(c.task, Table(c.task)[x])

HandIsWanted(c) ==
  /\ c.pc \in Working \cup {"lock"} => Wanted(c.task, Table(c.task)[c.cur])
  /\ c.pc \in {"rescue", "retry"} /\ c.task \in Retrying
       => Wanted(c.task, Table(c.task)[c.cur]) \/ Passed(c.task, Table(c.task)[c.cur])

ParentsAreStored(c) ==
  /\ c.task = "process_transcode_tasks" /\ c.pc = "retry"
       => c.loaded.job = job[JobOfTask(c.cur)].status
  /\ c.task = "process_upload_tasks" /\ c.pc = "retry"
       => c.loaded.job = job[JobOfTask(TaskOf(c.cur))].status
  /\ c.task = "process_upload_tasks" /\ c.pc \in {"commit", "retry"}
       => c.loaded.task = transcode[TaskOf(c.cur)].status
  /\ c.task = "process_outbox_events" /\ c.pc = "retry"
       => /\ c.loaded.job = job[JobOfEvent(c.cur)].status
          /\ c.loaded.published = job[JobOfEvent(c.cur)].published

(* An upload task is in hand only until its job is COMPLETED, and the job    *)
(* that is about to be COMPLETED has all its tasks COMPLETED.               *)
JobIsOpen(c) ==
  /\ c.task = "process_upload_tasks" /\ c.cur # Nil
       => job[JobOfTask(TaskOf(c.cur))].status # "COMPLETED"
  /\ c.task = "check_completed_jobs" /\ c.pc \in {"seal", "commit"}
       => AllTasksCompleted(c.cur)

UpToDate(c) ==
  /\ SeenIsStored(c)
  /\ BatchIsWanted(c)
  /\ HandIsWanted(c)
  /\ ParentsAreStored(c)
  /\ JobIsOpen(c)

ViewInv == \A w \in Worker : UpToDate(ctx[w])

-----------------------------------------------------------------------------
(* How the rows of the tables belong together.                              *)

(* A job has no transcode tasks until they are cut, then one batch of them;  *)
(* it is COMPLETED only with all of them, and announced only when decided.  *)
JobsInv ==
  \A j \in DOMAIN job :
    /\ job[j].status = "QUEUED" => TasksOf(j) = {}
    /\ TasksOf(j) # {} => \E c \in Copy : TasksOf(j) = {<<j, c, s>> : s \in Segment}
    /\ job[j].status \in {"PROCESSING", "COMPLETED"} => TasksOf(j) # {}
    /\ job[j].status = "COMPLETED" => \A t \in TasksOf(j) : transcode[t].status = "COMPLETED"
    /\ job[j].published => job[j].status \in {"COMPLETED", "FAILED"}

(* A transcode task has no upload task while it is QUEUED, then at most one, *)
(* and is COMPLETED with it.                                                *)
TasksInv ==
  \A t \in DOMAIN transcode :
    /\ transcode[t].status = "QUEUED" => UploadsOf(t) = {}
    /\ \A u, x \in UploadsOf(t) : u = x
    /\ transcode[t].status = "COMPLETED" => \E u \in UploadsOf(t) : upload[u].status = "COMPLETED"

(* A live event is the only one of its job, and says what the job's row says. *)
EventsInv ==
  \A o \in DOMAIN outbox :
    outbox[o].status # "FAILED" =>
      /\ job[JobOfEvent(o)].published
      /\ outbox[o].topic = IF job[JobOfEvent(o)].status = "COMPLETED"
                             THEN "job.completed" ELSE "job.failed"
      /\ \A p \in EventsOf(JobOfEvent(o)) : outbox[p].status # "FAILED" => p = o

RowsInv == JobsInv /\ TasksInv /\ EventsInv

-----------------------------------------------------------------------------
(* The writes. Retry counts and retry_after are of no concern to them.      *)

SameJobs ==
  /\ DOMAIN job' = DOMAIN job
  /\ \A j \in DOMAIN job :
       job'[j].status = job[j].status /\ job'[j].published = job[j].published
SameTasks ==
  /\ DOMAIN transcode' = DOMAIN transcode
  /\ \A t \in DOMAIN transcode : transcode'[t].status = transcode[t].status
SameUploads ==
  /\ DOMAIN upload' = DOMAIN upload
  /\ \A u \in DOMAIN upload : upload'[u].status = upload[u].status
SameEvents ==
  /\ DOMAIN outbox' = DOMAIN outbox
  /\ \A o \in DOMAIN outbox :
       outbox'[o].status = outbox[o].status /\ outbox'[o].topic = outbox[o].topic

(* One row of a table gets a status, and the other rows stay.               *)
JobSet(j, status, published) ==
  /\ j \in DOMAIN job /\ DOMAIN job' = DOMAIN job
  /\ job'[j].status = status /\ job'[j].published = published
  /\ \A k \in DOMAIN job \ {j} :
       job'[k].status = job[k].status /\ job'[k].published = job[k].published
TaskSet(t, status) ==
  /\ t \in DOMAIN transcode /\ DOMAIN transcode' = DOMAIN transcode
  /\ transcode'[t].status = status
  /\ \A x \in DOMAIN transcode \ {t} : transcode'[x].status = transcode[x].status
UploadSet(u, status) ==
  /\ u \in DOMAIN upload /\ DOMAIN upload' = DOMAIN upload
  /\ upload'[u].status = status
  /\ \A x \in DOMAIN upload \ {u} : upload'[x].status = upload[x].status
EventSet(o, status) ==
  /\ o \in DOMAIN outbox /\ DOMAIN outbox' = DOMAIN outbox
  /\ outbox'[o].status = status /\ outbox'[o].topic = outbox[o].topic
  /\ \A x \in DOMAIN outbox \ {o} :
       outbox'[x].status = outbox[x].status /\ outbox'[x].topic = outbox[x].topic

NothingWritten == SameJobs /\ SameTasks /\ SameUploads /\ SameEvents

WriteArrival(j) ==
  /\ j \notin DOMAIN job /\ DOMAIN job' = DOMAIN job \cup {j}
  /\ job'[j].status = "QUEUED" /\ ~job'[j].published
  /\ \A k \in DOMAIN job :
       job'[k].status = job[k].status /\ job'[k].published = job[k].published
  /\ SameTasks /\ SameUploads /\ SameEvents

WriteTasks(j) ==
  /\ JobSet(j, "PROCESSING", job[j].published) /\ job[j].status = "QUEUED"
  /\ \E c \in Copy : transcode' = Insert(transcode, {<<j, c, s>> : s \in Segment}, NewTask)
  /\ SameUploads /\ SameEvents

WriteUpload(t) ==
  /\ TaskSet(t, "PROCESSING") /\ transcode[t].status = "QUEUED"
  /\ \E c \in Copy : upload' = Insert(upload, {<<t, c>>}, NewUpload)
  /\ SameJobs /\ SameEvents

WriteUploaded(u) ==
  /\ UploadSet(u, "COMPLETED") /\ upload[u].status = "PENDING"
  /\ TaskSet(TaskOf(u), "COMPLETED")
  /\ job[JobOfTask(TaskOf(u))].status # "COMPLETED"
  /\ SameJobs /\ SameEvents

WriteCompleted(j) ==
  /\ JobSet(j, "COMPLETED", job[j].published) /\ job[j].status = "PROCESSING"
  /\ AllTasksCompleted(j)
  /\ SameTasks /\ SameUploads /\ SameEvents

(* A job that fails alone: its cutting, or the probe of its video.          *)
WriteFailure(j) ==
  /\ JobSet(j, "FAILED", job[j].published)
  /\ \/ job[j].status \in {"QUEUED", "PROCESSING"}
     \/ job[j].status = "COMPLETED" /\ ~job[j].published
  /\ SameTasks /\ SameUploads /\ SameEvents

WriteTaskFailure(t) ==
  /\ TaskSet(t, "FAILED") /\ transcode[t].status \in {"QUEUED", "PROCESSING"}
  /\ JobSet(JobOfTask(t), "FAILED", job[JobOfTask(t)].published)
  /\ SameUploads /\ SameEvents

WriteUploadFailure(u) ==
  /\ UploadSet(u, "FAILED") /\ upload[u].status \in {"PENDING", "COMPLETED"}
  /\ TaskSet(TaskOf(u), "FAILED")
  /\ job[JobOfTask(TaskOf(u))].status # "COMPLETED"
  /\ JobSet(JobOfTask(TaskOf(u)), "FAILED", job[JobOfTask(TaskOf(u))].published)
  /\ SameEvents

WriteAnnouncement(j, topic) ==
  /\ JobSet(j, job[j].status, TRUE) /\ ~job[j].published
  /\ \/ job[j].status = "COMPLETED" /\ topic = "job.completed"
     \/ job[j].status = "FAILED" /\ topic = "job.failed"
  /\ \E c \in Copy : outbox' = Insert(outbox, {<<j, c>>}, NewEvent(topic))
  /\ SameTasks /\ SameUploads

WriteProcessed(o) ==
  /\ EventSet(o, "PROCESSED") /\ outbox[o].status = "PENDING"
  /\ SameJobs /\ SameTasks /\ SameUploads

WriteEventFailure(o) ==
  /\ EventSet(o, "FAILED") /\ outbox[o].status \in {"PENDING", "PROCESSED"}
  /\ JobSet(JobOfEvent(o), "FAILED", FALSE)
  /\ SameTasks /\ SameUploads

Write ==
  \/ NothingWritten
  \/ \E j \in Job : \/ WriteArrival(j) \/ WriteTasks(j) \/ WriteCompleted(j)
                    \/ WriteFailure(j)
                    \/ \E topic \in Topic : WriteAnnouncement(j, topic)
  \/ \E t \in TaskId : WriteUpload(t) \/ WriteTaskFailure(t)
  \/ \E u \in UploadId : WriteUploaded(u) \/ WriteUploadFailure(u)
  \/ \E o \in EventId : WriteProcessed(o) \/ WriteEventFailure(o)

-----------------------------------------------------------------------------
(* The writes keep the rows in step. First, what a write does not touch.    *)

LEMMA SameTasksOf == ASSUME SameTasks PROVE \A j : TasksOf(j)' = TasksOf(j)
BY DEF SameTasks, TasksOf

LEMMA SameUploadsOf == ASSUME SameUploads PROVE \A t : UploadsOf(t)' = UploadsOf(t)
BY DEF SameUploads, UploadsOf

LEMMA SameEventsOf == ASSUME SameEvents PROVE \A j : EventsOf(j)' = EventsOf(j)
BY DEF SameEvents, EventsOf

LEMMA TaskSetTasksOf ==
  ASSUME NEW t, NEW s, TaskSet(t, s) PROVE \A j : TasksOf(j)' = TasksOf(j)
BY DEF TaskSet, TasksOf

LEMMA UploadSetUploadsOf ==
  ASSUME NEW u, NEW s, UploadSet(u, s) PROVE \A t : UploadsOf(t)' = UploadsOf(t)
BY DEF UploadSet, UploadsOf

LEMMA JobsInvSame == ASSUME JobsInv, SameJobs, SameTasks PROVE JobsInv'
<1>1. \A j : TasksOf(j)' = TasksOf(j)
  BY SameTasksOf
<1>2. ASSUME NEW j \in DOMAIN job, NEW t \in TasksOf(j)
      PROVE  transcode'[t].status = transcode[t].status
  BY DEF SameTasks, TasksOf
<1> QED
  BY <1>1, <1>2 DEF JobsInv, SameJobs

LEMMA TasksInvSame == ASSUME TasksInv, SameTasks, SameUploads PROVE TasksInv'
<1>1. \A t : UploadsOf(t)' = UploadsOf(t)
  BY SameUploadsOf
<1>2. ASSUME NEW t \in DOMAIN transcode, NEW u \in UploadsOf(t)
      PROVE  upload'[u].status = upload[u].status
  BY DEF SameUploads, UploadsOf
<1> QED
  BY <1>1, <1>2 DEF TasksInv, SameTasks

(* The jobs of the live events keep what the events say of them.            *)
LEMMA EventsInvSame ==
  ASSUME TypeOK, EventsInv, SameEvents,
         \A j \in DOMAIN job :
           job[j].published =>
             /\ job'[j].published
             /\ job'[j].status = "COMPLETED" <=> job[j].status = "COMPLETED"
  PROVE  EventsInv'
<1>1. \A j : EventsOf(j)' = EventsOf(j)
  BY SameEventsOf
<1>2. \A o \in DOMAIN outbox : JobOfEvent(o) \in DOMAIN job
  BY DEF TypeOK, TablesOK
<1>3. ASSUME NEW o \in DOMAIN outbox, NEW p \in EventsOf(JobOfEvent(o))
      PROVE  outbox'[p].status = outbox[p].status
  BY DEF SameEvents, EventsOf
<1> QED
  BY <1>1, <1>2, <1>3 DEF EventsInv, SameEvents

LEMMA NothingRows == ASSUME TypeOK, RowsInv, NothingWritten PROVE RowsInv'
<1>1. \A j \in DOMAIN job :
        job'[j].status = job[j].status /\ job'[j].published = job[j].published
  BY DEF NothingWritten, SameJobs
<1> QED
  BY <1>1, JobsInvSame, TasksInvSame, EventsInvSame DEF RowsInv, NothingWritten

LEMMA ArrivalRows == ASSUME TypeOK, RowsInv, NEW j \in Job, WriteArrival(j) PROVE RowsInv'
<1>1. TasksInv' /\ EventsInv'
  <2>1. \A k \in DOMAIN job :
          job'[k].status = job[k].status /\ job'[k].published = job[k].published
    BY DEF WriteArrival
  <2> QED
    BY <2>1, TasksInvSame, EventsInvSame DEF RowsInv, WriteArrival
<1>2. JobsInv'
  <2>1. TasksOf(j) = {}
    BY DEF TypeOK, TablesOK, TasksOf, WriteArrival
  <2>2. \A k : TasksOf(k)' = TasksOf(k)
    BY SameTasksOf DEF WriteArrival
  <2>3. ASSUME NEW k \in DOMAIN job, NEW t \in TasksOf(k)
        PROVE  transcode'[t].status = transcode[t].status
    BY DEF WriteArrival, SameTasks, TasksOf
  <2> QED
    BY <2>1, <2>2, <2>3 DEF JobsInv, RowsInv, WriteArrival
<1> QED
  BY <1>1, <1>2 DEF RowsInv

(* The batch of the tasks of a job that had none.                           *)
LEMMA TasksRows == ASSUME TypeOK, RowsInv, NEW j \in Job, WriteTasks(j) PROVE RowsInv'
<1>0. JobsInv /\ TasksInv /\ EventsInv
  BY DEF RowsInv
<1>1. PICK c \in Copy : transcode' = Insert(transcode, {<<j, c, s>> : s \in Segment}, NewTask)
  BY DEF WriteTasks
<1> DEFINE new == {<<j, c, s>> : s \in Segment}
<1>2. job[j].status = "QUEUED" /\ JobSet(j, "PROCESSING", job[j].published)
  BY DEF WriteTasks
<1>3. TasksOf(j) = {} /\ ~job[j].published
  BY <1>0, <1>2 DEF JobsInv, JobSet
<1>4. \A t \in new : t \notin DOMAIN transcode /\ JobOfTask(t) = j
  BY <1>3 DEF TasksOf, JobOfTask
<1>5. /\ DOMAIN transcode' = DOMAIN transcode \cup new
      /\ \A t \in DOMAIN transcode : transcode'[t] = transcode[t]
      /\ \A t \in new : transcode'[t] = NewTask
  BY <1>1, <1>4 DEF Insert
<1>6. TasksOf(j)' = new /\ \A k : k # j => TasksOf(k)' = TasksOf(k)
  BY <1>3, <1>4, <1>5 DEF TasksOf
<1>7. new # {}
  <2>1. 1 \in Segment
    BY StoreAssumption DEF Segment
  <2>2. <<j, c, 1>> \in new
    BY <2>1
  <2> QED
    BY <2>2
<1> HIDE DEF new
<1>8. JobsInv'
  <2> SUFFICES ASSUME NEW k \in DOMAIN job'
               PROVE  /\ job'[k].status = "QUEUED" => TasksOf(k)' = {}
                      /\ TasksOf(k)' # {} => \E d \in Copy : TasksOf(k)' = {<<k, d, s>> : s \in Segment}
                      /\ job'[k].status \in {"PROCESSING", "COMPLETED"} => TasksOf(k)' # {}
                      /\ job'[k].status = "COMPLETED"
                           => \A t \in TasksOf(k)' : transcode'[t].status = "COMPLETED"
                      /\ job'[k].published => job'[k].status \in {"COMPLETED", "FAILED"}
    BY DEF JobsInv
  <2>1. CASE k = j
    BY <1>2, <1>3, <1>6, <1>7, <2>1 DEF JobSet, new
  <2>2. CASE k # j
    <3>1. /\ k \in DOMAIN job /\ job'[k].status = job[k].status
          /\ job'[k].published = job[k].published
      BY <1>2, <2>2 DEF JobSet
    <3>2. \A t \in TasksOf(k) : transcode'[t] = transcode[t]
      BY <1>5 DEF TasksOf
    <3> QED
      BY <1>0, <1>6, <2>2, <3>1, <3>2 DEF JobsInv
  <2> QED
    BY <2>1, <2>2
<1>9. TasksInv'
  <2>1. \A t : UploadsOf(t)' = UploadsOf(t)
    BY SameUploadsOf DEF WriteTasks
  <2>2. \A t \in new : UploadsOf(t) = {}
    BY <1>4 DEF UploadsOf, TypeOK, TablesOK
  <2>3. \A t : \A u \in UploadsOf(t) : upload'[u].status = upload[u].status
    BY DEF WriteTasks, SameUploads, UploadsOf
  <2>4. \A t \in new : transcode'[t].status = "QUEUED"
    BY <1>5 DEF NewTask
  <2> QED
    BY <1>0, <1>5, <2>1, <2>2, <2>3, <2>4 DEF TasksInv
<1>10. EventsInv'
  <2>1. \A k \in DOMAIN job :
          job[k].published =>
            job'[k].published /\ job'[k].status = job[k].status
    BY <1>2, <1>3 DEF JobSet
  <2> QED
    BY <1>0, <2>1, EventsInvSame DEF WriteTasks
<1> QED
  BY <1>8, <1>9, <1>10 DEF RowsInv

(* The one upload task of a transcode task that had none.                   *)
LEMMA UploadRows == ASSUME TypeOK, RowsInv, NEW t \in TaskId, WriteUpload(t) PROVE RowsInv'
<1>0. JobsInv /\ TasksInv /\ EventsInv
  BY DEF RowsInv
<1>1. PICK c \in Copy : upload' = Insert(upload, {<<t, c>>}, NewUpload)
  BY DEF WriteUpload
<1>2. transcode[t].status = "QUEUED" /\ TaskSet(t, "PROCESSING")
  BY DEF WriteUpload
<1>3. UploadsOf(t) = {} /\ JobOfTask(t) \in DOMAIN job
  BY <1>0, <1>2 DEF TasksInv, TaskSet, TypeOK, TablesOK
<1>4. <<t, c>> \notin DOMAIN upload /\ TaskOf(<<t, c>>) = t
  BY <1>3 DEF UploadsOf, TaskOf
<1>5. /\ DOMAIN upload' = DOMAIN upload \cup {<<t, c>>}
      /\ \A u \in DOMAIN upload : upload'[u] = upload[u]
  BY <1>1, <1>4 DEF Insert
<1>6. UploadsOf(t)' = {<<t, c>>} /\ \A x : x # t => UploadsOf(x)' = UploadsOf(x)
  BY <1>3, <1>4, <1>5 DEF UploadsOf
<1>7. TasksInv'
  <2>1. \A x : \A u \in UploadsOf(x) : upload'[u] = upload[u]
    BY <1>5 DEF UploadsOf
  <2> QED
    BY <1>0, <1>2, <1>6, <2>1 DEF TasksInv, TaskSet
<1>8. JobsInv'
  <2>1. \A j : TasksOf(j)' = TasksOf(j)
    BY <1>2, TaskSetTasksOf
  <2>2. \A j : job[j].status = "COMPLETED" /\ j \in DOMAIN job => t \notin TasksOf(j)
    BY <1>0, <1>2 DEF JobsInv
  <2>3. \A j : \A x \in TasksOf(j) : x # t => transcode'[x].status = transcode[x].status
    BY <1>2 DEF TaskSet, TasksOf
  <2> QED
    BY <1>0, <2>1, <2>2, <2>3 DEF JobsInv, WriteUpload, SameJobs
<1>9. EventsInv'
  BY <1>0, EventsInvSame DEF WriteUpload, SameJobs
<1> QED
  BY <1>7, <1>8, <1>9 DEF RowsInv

(* An upload task and its transcode task are COMPLETED together.            *)
LEMMA UploadedRows ==
  ASSUME TypeOK, RowsInv, NEW u \in UploadId, WriteUploaded(u) PROVE RowsInv'
<1>0. JobsInv /\ TasksInv /\ EventsInv
  BY DEF RowsInv
<1> DEFINE t == TaskOf(u)
<1>1. /\ UploadSet(u, "COMPLETED") /\ TaskSet(t, "COMPLETED") /\ SameJobs /\ SameEvents
      /\ job[JobOfTask(t)].status # "COMPLETED"
  BY DEF WriteUploaded
<1>2. u \in UploadsOf(t)
  BY <1>1 DEF UploadSet, UploadsOf
<1> HIDE DEF t
<1>3. \A x : UploadsOf(x)' = UploadsOf(x)
  BY <1>1, UploadSetUploadsOf
<1>4. \A j : TasksOf(j)' = TasksOf(j)
  BY <1>1, TaskSetTasksOf
<1>5. TasksInv'
  <2>1. \A x : \A y \in UploadsOf(x) : y # u => upload'[y].status = upload[y].status
    BY <1>1 DEF UploadSet, UploadsOf
  <2>2. \A x : x # t => u \notin UploadsOf(x)
    BY <1>2 DEF UploadsOf
  <2>3. upload'[u].status = "COMPLETED" /\ transcode'[t].status = "COMPLETED"
    BY <1>1 DEF UploadSet, TaskSet
  <2>4. /\ DOMAIN transcode' = DOMAIN transcode
        /\ \A x \in DOMAIN transcode : x # t => transcode'[x].status = transcode[x].status
    BY <1>1 DEF TaskSet
  <2> SUFFICES ASSUME NEW x \in DOMAIN transcode
               PROVE  /\ transcode'[x].status = "QUEUED" => UploadsOf(x)' = {}
                      /\ \A y, z \in UploadsOf(x)' : y = z
                      /\ transcode'[x].status = "COMPLETED"
                           => \E y \in UploadsOf(x)' : upload'[y].status = "COMPLETED"
    BY <2>4 DEF TasksInv
  <2>5. CASE x = t
    BY <1>0, <1>2, <1>3, <2>3, <2>5 DEF TasksInv
  <2>6. CASE x # t
    BY <1>0, <1>3, <2>1, <2>2, <2>4, <2>6 DEF TasksInv
  <2> QED
    BY <2>5, <2>6
<1>6. JobsInv'
  <2>1. \A j : \A x \in TasksOf(j) :
          transcode'[x].status = "COMPLETED" \/ transcode'[x].status = transcode[x].status
    BY <1>1 DEF TaskSet, TasksOf
  <2> QED
    BY <1>0, <1>1, <1>4, <2>1 DEF JobsInv, SameJobs
<1>7. EventsInv'
  BY <1>0, <1>1, EventsInvSame DEF SameJobs
<1> QED
  BY <1>5, <1>6, <1>7 DEF RowsInv

LEMMA CompletedRows ==
  ASSUME TypeOK, RowsInv, NEW j \in Job, WriteCompleted(j) PROVE RowsInv'
<1>0. JobsInv /\ TasksInv /\ EventsInv
  BY DEF RowsInv
<1>1. /\ JobSet(j, "COMPLETED", job[j].published) /\ job[j].status = "PROCESSING"
      /\ AllTasksCompleted(j) /\ SameTasks /\ SameUploads /\ SameEvents
  BY DEF WriteCompleted
<1>2. ~job[j].published
  BY <1>0, <1>1 DEF JobsInv, JobSet
<1>3. JobsInv'
  <2>1. \A k : TasksOf(k)' = TasksOf(k)
    BY <1>1, SameTasksOf
  <2>2. \A k : \A t \in TasksOf(k) : transcode'[t].status = transcode[t].status
    BY <1>1 DEF SameTasks, TasksOf
  <2> QED
    BY <1>0, <1>1, <1>2, <2>1, <2>2 DEF JobsInv, JobSet, AllTasksCompleted
<1>4. EventsInv'
  BY <1>0, <1>1, <1>2, EventsInvSame DEF JobSet
<1> QED
  BY <1>0, <1>1, <1>3, <1>4, TasksInvSame DEF RowsInv

(* A job that fails takes none of its tasks and events with it.             *)
LEMMA JobFails ==
  ASSUME JobsInv, NEW j, NEW p, JobSet(j, "FAILED", p),
         \A k : TasksOf(k)' = TasksOf(k),
         \A k : k # j => \A t \in TasksOf(k) : transcode'[t].status = transcode[t].status
  PROVE  JobsInv'
<1> SUFFICES ASSUME NEW k \in DOMAIN job'
             PROVE  /\ job'[k].status = "QUEUED" => TasksOf(k)' = {}
                    /\ TasksOf(k)' # {} => \E d \in Copy : TasksOf(k)' = {<<k, d, s>> : s \in Segment}
                    /\ job'[k].status \in {"PROCESSING", "COMPLETED"} => TasksOf(k)' # {}
                    /\ job'[k].status = "COMPLETED"
                         => \A t \in TasksOf(k)' : transcode'[t].status = "COMPLETED"
                    /\ job'[k].published => job'[k].status \in {"COMPLETED", "FAILED"}
  BY DEF JobsInv
<1>1. k \in DOMAIN job
  BY DEF JobSet
<1>2. CASE k = j
  BY <1>1, <1>2 DEF JobsInv, JobSet
<1>3. CASE k # j
  BY <1>1, <1>3 DEF JobsInv, JobSet
<1> QED
  BY <1>2, <1>3

LEMMA JobFailsQuietly ==
  ASSUME TypeOK, EventsInv, SameEvents, NEW j, JobSet(j, "FAILED", job[j].published),
         job[j].published => job[j].status = "FAILED"
  PROVE  EventsInv'
BY EventsInvSame DEF JobSet

LEMMA FailureRows == ASSUME TypeOK, RowsInv, NEW j \in Job, WriteFailure(j) PROVE RowsInv'
<1>0. JobsInv /\ TasksInv /\ EventsInv
  BY DEF RowsInv
<1>1. JobSet(j, "FAILED", job[j].published) /\ SameTasks /\ SameUploads /\ SameEvents
  BY DEF WriteFailure
<1>2. ~job[j].published
  BY <1>0, <1>1 DEF WriteFailure, JobsInv, JobSet
<1>3. JobsInv'
  <2>1. \A k : TasksOf(k)' = TasksOf(k)
    BY <1>1, SameTasksOf
  <2>2. \A k : \A t \in TasksOf(k) : transcode'[t].status = transcode[t].status
    BY <1>1 DEF SameTasks, TasksOf
  <2> QED
    BY <1>0, <1>1, <2>1, <2>2, JobFails
<1> QED
  BY <1>0, <1>1, <1>2, <1>3, JobFailsQuietly, TasksInvSame DEF RowsInv

LEMMA TaskFailureRows ==
  ASSUME TypeOK, RowsInv, NEW t \in TaskId, WriteTaskFailure(t) PROVE RowsInv'
<1>0. JobsInv /\ TasksInv /\ EventsInv
  BY DEF RowsInv
<1> DEFINE j == JobOfTask(t)
<1>1. /\ TaskSet(t, "FAILED") /\ JobSet(j, "FAILED", job[j].published)
      /\ SameUploads /\ SameEvents /\ transcode[t].status # "COMPLETED"
  BY DEF WriteTaskFailure
<1>2. t \in TasksOf(j)
  BY <1>1 DEF TaskSet, TasksOf
<1>3. \A k : k # j => t \notin TasksOf(k)
  BY DEF TasksOf
<1> HIDE DEF j
<1>4. job[j].published => job[j].status = "FAILED"
  BY <1>0, <1>1, <1>2 DEF JobsInv, JobSet
<1>5. JobsInv'
  <2>1. \A k : TasksOf(k)' = TasksOf(k)
    BY <1>1, TaskSetTasksOf
  <2>2. \A k : k # j => \A x \in TasksOf(k) : transcode'[x].status = transcode[x].status
    BY <1>1, <1>3 DEF TaskSet, TasksOf
  <2> QED
    BY <1>0, <1>1, <2>1, <2>2, JobFails
<1>6. TasksInv'
  <2>1. \A x : UploadsOf(x)' = UploadsOf(x)
    BY <1>1, SameUploadsOf
  <2>2. \A x : \A y \in UploadsOf(x) : upload'[y].status = upload[y].status
    BY <1>1 DEF SameUploads, UploadsOf
  <2> QED
    BY <1>0, <1>1, <2>1, <2>2 DEF TasksInv, TaskSet
<1> QED
  BY <1>0, <1>1, <1>4, <1>5, <1>6, JobFailsQuietly DEF RowsInv

LEMMA UploadFailureRows ==
  ASSUME TypeOK, RowsInv, NEW u \in UploadId, WriteUploadFailure(u) PROVE RowsInv'
<1>0. JobsInv /\ TasksInv /\ EventsInv
  BY DEF RowsInv
<1> DEFINE t == TaskOf(u)
           j == JobOfTask(t)
<1>1. /\ UploadSet(u, "FAILED") /\ TaskSet(t, "FAILED")
      /\ JobSet(j, "FAILED", job[j].published) /\ SameEvents
      /\ job[j].status # "COMPLETED"
  BY DEF WriteUploadFailure
<1>2. \A x : x # t => u \notin UploadsOf(x)
  BY DEF UploadsOf
<1>3. \A k : k # j => t \notin TasksOf(k)
  BY DEF TasksOf
<1> HIDE DEF t, j
<1>4. job[j].published => job[j].status = "FAILED"
  BY <1>0, <1>1 DEF JobsInv, JobSet
<1>5. JobsInv'
  <2>1. \A k : TasksOf(k)' = TasksOf(k)
    BY <1>1, TaskSetTasksOf
  <2>2. \A k : k # j => \A x \in TasksOf(k) : transcode'[x].status = transcode[x].status
    BY <1>1, <1>3 DEF TaskSet, TasksOf
  <2> QED
    BY <1>0, <1>1, <2>1, <2>2, JobFails
<1>6. TasksInv'
  <2>1. \A x : UploadsOf(x)' = UploadsOf(x)
    BY <1>1, UploadSetUploadsOf
  <2>2. \A x : x # t => \A y \in UploadsOf(x) : upload'[y].status = upload[y].status
    BY <1>1, <1>2 DEF UploadSet, UploadsOf
  <2> QED
    BY <1>0, <1>1, <2>1, <2>2 DEF TasksInv, TaskSet
<1> QED
  BY <1>0, <1>1, <1>4, <1>5, <1>6, JobFailsQuietly DEF RowsInv

(* The event of a job that is announced is its only live one.               *)
LEMMA AnnouncementRows ==
  ASSUME TypeOK, RowsInv, NEW j \in Job, NEW topic, WriteAnnouncement(j, topic)
  PROVE  RowsInv'
<1>0. JobsInv /\ TasksInv /\ EventsInv
  BY DEF RowsInv
<1>1. /\ JobSet(j, job[j].status, TRUE) /\ ~job[j].published
      /\ \/ job[j].status = "COMPLETED" /\ topic = "job.completed"
         \/ job[j].status = "FAILED" /\ topic = "job.failed"
      /\ SameTasks /\ SameUploads
  BY DEF WriteAnnouncement
<1>2. PICK c \in Copy : outbox' = Insert(outbox, {<<j, c>>}, NewEvent(topic))
  BY DEF WriteAnnouncement
<1>3. JobsInv'
  <2>1. \A k : TasksOf(k)' = TasksOf(k)
    BY <1>1, SameTasksOf
  <2>2. \A k : \A t \in TasksOf(k) : transcode'[t].status = transcode[t].status
    BY <1>1 DEF SameTasks, TasksOf
  <2> QED
    BY <1>0, <1>1, <2>1, <2>2 DEF JobsInv, JobSet
<1>4. EventsInv'
  <2>1. \A o \in EventsOf(j) : outbox[o].status = "FAILED"
    BY <1>0, <1>1 DEF EventsInv, EventsOf
  <2>2. /\ DOMAIN outbox' = DOMAIN outbox \cup {<<j, c>>}
        /\ \A o \in DOMAIN outbox : outbox'[o] = outbox[o]
        /\ <<j, c>> \notin DOMAIN outbox => outbox'[<<j, c>>] = NewEvent(topic)
    BY <1>2 DEF Insert
  <2>3. JobOfEvent(<<j, c>>) = j
    BY DEF JobOfEvent
  <2> SUFFICES ASSUME NEW o \in DOMAIN outbox', outbox'[o].status # "FAILED"
               PROVE  /\ job'[JobOfEvent(o)].published
                      /\ outbox'[o].topic = IF job'[JobOfEvent(o)].status = "COMPLETED"
                                              THEN "job.completed" ELSE "job.failed"
                      /\ \A p \in EventsOf(JobOfEvent(o))' : outbox'[p].status # "FAILED" => p = o
    BY DEF EventsInv, JobOfEvent
  <2>4. CASE JobOfEvent(o) = j
    <3>1. o = <<j, c>> /\ o \notin DOMAIN outbox
      BY <2>1, <2>2, <2>4 DEF EventsOf
    <3>2. \A p \in EventsOf(j)' : outbox'[p].status # "FAILED" => p = o
      BY <2>1, <2>2, <3>1 DEF EventsOf
    <3>3. outbox'[o].topic = topic
      BY <2>2, <3>1 DEF NewEvent
    <3> QED
      BY <1>1, <2>4, <3>2, <3>3 DEF JobSet
  <2>5. CASE JobOfEvent(o) # j
    <3>1. o \in DOMAIN outbox /\ outbox'[o] = outbox[o]
      BY <2>2, <2>3, <2>5
    <3>2. JobOfEvent(o) \in DOMAIN job
      BY <3>1 DEF TypeOK, TablesOK
    <3>3. EventsOf(JobOfEvent(o))' = EventsOf(JobOfEvent(o))
      BY <2>2, <2>3, <2>5 DEF EventsOf, JobOfEvent
    <3>4. \A p \in EventsOf(JobOfEvent(o)) : outbox'[p] = outbox[p]
      BY <2>2 DEF EventsOf
    <3> QED
      BY <1>0, <1>1, <2>5, <3>1, <3>2, <3>3, <3>4 DEF EventsInv, JobSet
  <2> QED
    BY <2>4, <2>5
<1> QED
  BY <1>0, <1>1, <1>3, <1>4, TasksInvSame DEF RowsInv

LEMMA ProcessedRows ==
  ASSUME TypeOK, RowsInv, NEW o \in EventId, WriteProcessed(o) PROVE RowsInv'
<1>0. JobsInv /\ TasksInv /\ EventsInv
  BY DEF RowsInv
<1>1. /\ EventSet(o, "PROCESSED") /\ outbox[o].status = "PENDING"
      /\ SameJobs /\ SameTasks /\ SameUploads
  BY DEF WriteProcessed
<1>2. \A j : EventsOf(j)' = EventsOf(j)
  BY <1>1 DEF EventSet, EventsOf
<1>3. \A p \in DOMAIN outbox :
        /\ outbox'[p].status # "FAILED" <=> outbox[p].status # "FAILED"
        /\ outbox'[p].topic = outbox[p].topic
  BY <1>1 DEF EventSet
<1>4. \A j : EventsOf(j) \subseteq DOMAIN outbox
  BY DEF EventsOf
<1>5. \A p \in DOMAIN outbox : JobOfEvent(p) \in DOMAIN job
  BY DEF TypeOK, TablesOK
<1>6. EventsInv'
  BY <1>0, <1>1, <1>2, <1>3, <1>4, <1>5 DEF EventsInv, EventSet, SameJobs
<1> QED
  BY <1>0, <1>1, <1>6, JobsInvSame, TasksInvSame DEF RowsInv

(* An event is given up, and its job is unpublished: no live event is left.  *)
LEMMA EventFailureRows ==
  ASSUME TypeOK, RowsInv, NEW o \in EventId, WriteEventFailure(o) PROVE RowsInv'
<1>0. JobsInv /\ TasksInv /\ EventsInv
  BY DEF RowsInv
<1> DEFINE j == JobOfEvent(o)
<1>1. /\ EventSet(o, "FAILED") /\ outbox[o].status \in {"PENDING", "PROCESSED"}
      /\ JobSet(j, "FAILED", FALSE) /\ SameTasks /\ SameUploads
  BY DEF WriteEventFailure
<1>2. \A p \in EventsOf(j) : outbox[p].status # "FAILED" => p = o
  BY <1>0, <1>1 DEF EventsInv, EventSet
<1> HIDE DEF j
<1>3. \A k : EventsOf(k)' = EventsOf(k)
  BY <1>1 DEF EventSet, EventsOf
<1>4. \A p \in EventsOf(j) : outbox'[p].status = "FAILED"
  BY <1>1, <1>2 DEF EventSet, EventsOf
<1>5. EventsInv'
  <2> SUFFICES ASSUME NEW q \in DOMAIN outbox', outbox'[q].status # "FAILED"
               PROVE  /\ job'[JobOfEvent(q)].published
                      /\ outbox'[q].topic = IF job'[JobOfEvent(q)].status = "COMPLETED"
                                              THEN "job.completed" ELSE "job.failed"
                      /\ \A p \in EventsOf(JobOfEvent(q))' : outbox'[p].status # "FAILED" => p = q
    BY DEF EventsInv, JobOfEvent
  <2>1. q \in DOMAIN outbox /\ JobOfEvent(q) # j /\ q # o
    BY <1>1, <1>4 DEF EventSet, EventsOf
  <2>2. JobOfEvent(q) \in DOMAIN job
    BY <2>1 DEF TypeOK, TablesOK
  <2>3. \A p \in EventsOf(JobOfEvent(q)) : p \in DOMAIN outbox /\ (p # o => outbox'[p].status = outbox[p].status)
    BY <1>1 DEF EventSet, EventsOf
  <2>4. o \notin EventsOf(JobOfEvent(q))
    BY <2>1 DEF EventsOf, j
  <2> QED
    BY <1>0, <1>1, <1>3, <2>1, <2>2, <2>3, <2>4 DEF EventsInv, JobSet, EventSet
<1>6. JobsInv'
  <2>1. \A k : TasksOf(k)' = TasksOf(k)
    BY <1>1, SameTasksOf
  <2>2. \A k : \A t \in TasksOf(k) : transcode'[t].status = transcode[t].status
    BY <1>1 DEF SameTasks, TasksOf
  <2> QED
    BY <1>0, <1>1, <2>1, <2>2, JobFails
<1> QED
  BY <1>0, <1>1, <1>5, <1>6, TasksInvSame DEF RowsInv

LEMMA WriteRows == ASSUME TypeOK, RowsInv, Write PROVE RowsInv'
BY NothingRows, ArrivalRows, TasksRows, UploadRows, UploadedRows, CompletedRows, FailureRows,
   TaskFailureRows, UploadFailureRows, AnnouncementRows, ProcessedRows, EventFailureRows
   DEF Write

-----------------------------------------------------------------------------
(* Every step is one of the writes.                                         *)

(* A column is written with the new value, as its loaded value is stored.   *)
LEMMA AssignStored == \A column, new : Assign(column, column, new) = new
BY DEF Assign

(* What a worker with an item in hand knows of its row.                     *)
LEMMA RowInHand ==
  ASSUME TypeOK, NEW w \in Worker, UpToDate(ctx[w]), NEW task \in TaskName, NEW pc \in Inner,
         At(w, task, pc)
  PROVE  /\ Cur(w) \in ItemIds(task) /\ DOMAIN Table(task) = ItemIds(task)
         /\ Mine(w) \in ItemRow(task)
         /\ Mine(w).status = Table(task)[Cur(w)].status
         /\ task \in JobTasks => Mine(w).published = Table(task)[Cur(w)].published
         /\ pc \in Working \cup {"lock"} => Wanted(task, Table(task)[Cur(w)])
         /\ pc = "retry" /\ task \in Retrying
              => Wanted(task, Table(task)[Cur(w)]) \/ Passed(task, Table(task)[Cur(w)])
<1>1. Cur(w) \in ItemIds(task) /\ Cur(w) \in DOMAIN ctx[w].seen /\ Mine(w) \in ItemRow(task)
  BY AtWork
<1>2. DOMAIN Table(task) = ItemIds(task)
  BY TaskTable
<1> QED
  BY <1>1, <1>2 DEF At, Mine, Cur, UpToDate, SeenIsStored, HandIsWanted

LEMMA SameRows ==
  /\ UNCHANGED job => SameJobs
  /\ UNCHANGED transcode => SameTasks
  /\ UNCHANGED upload => SameUploads
  /\ UNCHANGED outbox => SameEvents
BY DEF SameJobs, SameTasks, SameUploads, SameEvents

LEMMA StatusSet ==
  ASSUME TypeOK
  PROVE  /\ \A j \in DOMAIN job, s \in JobStatus :
              job' = [job EXCEPT ![j].status = s] => JobSet(j, s, job[j].published)
         /\ \A t \in DOMAIN transcode, s \in TranscodeTaskStatus :
              transcode' = [transcode EXCEPT ![t].status = s] => TaskSet(t, s)
         /\ \A u \in DOMAIN upload, s \in UploadStatus :
              upload' = [upload EXCEPT ![u].status = s] => UploadSet(u, s)
         /\ \A o \in DOMAIN outbox, s \in OutboxStatus :
              outbox' = [outbox EXCEPT ![o].status = s] => EventSet(o, s)
<1>1. ASSUME NEW j \in DOMAIN job, NEW s \in JobStatus, job' = [job EXCEPT ![j].status = s]
      PROVE  JobSet(j, s, job[j].published)
  BY <1>1, Tables DEF JobSet, IsTable, JobRow
<1>2. ASSUME NEW t \in DOMAIN transcode, NEW s \in TranscodeTaskStatus,
             transcode' = [transcode EXCEPT ![t].status = s]
      PROVE  TaskSet(t, s)
  BY <1>2, Tables DEF TaskSet, IsTable, TaskRow
<1>3. ASSUME NEW u \in DOMAIN upload, NEW s \in UploadStatus,
             upload' = [upload EXCEPT ![u].status = s]
      PROVE  UploadSet(u, s)
  BY <1>3, Tables DEF UploadSet, IsTable, UploadRow
<1>4. ASSUME NEW o \in DOMAIN outbox, NEW s \in OutboxStatus,
             outbox' = [outbox EXCEPT ![o].status = s]
      PROVE  EventSet(o, s)
  BY <1>4, Tables DEF EventSet, IsTable, EventRow
<1> QED
  BY <1>1, <1>2, <1>3, <1>4

(* An assignment of a status whose loaded value is the stored one.          *)
LEMMA StoredSet ==
  ASSUME TypeOK
  PROVE  /\ \A j \in DOMAIN job, s \in JobStatus : \A l :
              l = job[j].status /\ job' = [job EXCEPT ![j].status = Assign(@, l, s)]
                => JobSet(j, s, job[j].published)
         /\ \A t \in DOMAIN transcode, s \in TranscodeTaskStatus : \A l :
              l = transcode[t].status /\ transcode' = [transcode EXCEPT ![t].status = Assign(@, l, s)]
                => TaskSet(t, s)
         /\ \A u \in DOMAIN upload, s \in UploadStatus : \A l :
              l = upload[u].status /\ upload' = [upload EXCEPT ![u].status = Assign(@, l, s)]
                => UploadSet(u, s)
         /\ \A o \in DOMAIN outbox, s \in OutboxStatus : \A l :
              l = outbox[o].status /\ outbox' = [outbox EXCEPT ![o].status = Assign(@, l, s)]
                => EventSet(o, s)
BY AssignStored, StatusSet

(* The bookkeeping of a row whose loaded status is the stored one.          *)
LEMMA BumpedRow ==
  ASSUME NEW w, NEW Row \in {JobRow, TaskRow, UploadRow, EventRow}, NEW row \in Row,
         Mine(w).status = row.status
  PROVE  /\ Bumped(row, w).status = IF Exhausted(w) THEN "FAILED" ELSE row.status
         /\ Row = JobRow => Bumped(row, w).published = row.published
         /\ Row = EventRow => Bumped(row, w).topic = row.topic
<1>1. CASE Row = JobRow
  BY <1>1, AssignStored DEF Bumped, JobRow
<1>2. CASE Row = TaskRow
  BY <1>2, AssignStored DEF Bumped, TaskRow, JobRow, EventRow
<1>3. CASE Row = UploadRow
  BY <1>3, AssignStored DEF Bumped, UploadRow, JobRow, EventRow
<1>4. CASE Row = EventRow
  BY <1>4, AssignStored DEF Bumped, EventRow, JobRow
<1> QED
  BY <1>1, <1>2, <1>3, <1>4

LEMMA JobBumped ==
  ASSUME TypeOK, NEW w, NEW j \in DOMAIN job, Mine(w).status = job[j].status,
         job' = [job EXCEPT ![j] = Bumped(@, w)]
  PROVE  /\ Exhausted(w) => JobSet(j, "FAILED", job[j].published)
         /\ ~Exhausted(w) => SameJobs
<1>1. job[j] \in JobRow /\ IsTable(job, Job, JobRow)
  BY Tables DEF IsTable
<1>2. /\ Bumped(job[j], w).status = IF Exhausted(w) THEN "FAILED" ELSE job[j].status
      /\ Bumped(job[j], w).published = job[j].published
  BY <1>1, BumpedRow
<1>3. /\ DOMAIN job' = DOMAIN job /\ job'[j] = Bumped(job[j], w)
      /\ \A k \in DOMAIN job \ {j} : job'[k] = job[k]
  BY <1>1 DEF IsTable
<1> QED
  BY <1>2, <1>3 DEF JobSet, SameJobs

LEMMA TaskBumped ==
  ASSUME TypeOK, NEW w, NEW t \in DOMAIN transcode, Mine(w).status = transcode[t].status,
         transcode' = [transcode EXCEPT ![t] = Bumped(@, w)]
  PROVE  /\ Exhausted(w) => TaskSet(t, "FAILED")
         /\ ~Exhausted(w) => SameTasks
<1>1. transcode[t] \in TaskRow /\ IsTable(transcode, TaskId, TaskRow)
  BY Tables DEF IsTable
<1>2. Bumped(transcode[t], w).status = IF Exhausted(w) THEN "FAILED" ELSE transcode[t].status
  BY <1>1, BumpedRow
<1>3. /\ DOMAIN transcode' = DOMAIN transcode /\ transcode'[t] = Bumped(transcode[t], w)
      /\ \A x \in DOMAIN transcode \ {t} : transcode'[x] = transcode[x]
  BY <1>1 DEF IsTable
<1> QED
  BY <1>2, <1>3 DEF TaskSet, SameTasks

LEMMA UploadBumped ==
  ASSUME TypeOK, NEW w, NEW u \in DOMAIN upload, Mine(w).status = upload[u].status,
         upload' = [upload EXCEPT ![u] = Bumped(@, w)]
  PROVE  /\ Exhausted(w) => UploadSet(u, "FAILED")
         /\ ~Exhausted(w) => SameUploads
<1>1. upload[u] \in UploadRow /\ IsTable(upload, UploadId, UploadRow)
  BY Tables DEF IsTable
<1>2. Bumped(upload[u], w).status = IF Exhausted(w) THEN "FAILED" ELSE upload[u].status
  BY <1>1, BumpedRow
<1>3. /\ DOMAIN upload' = DOMAIN upload /\ upload'[u] = Bumped(upload[u], w)
      /\ \A x \in DOMAIN upload \ {u} : upload'[x] = upload[x]
  BY <1>1 DEF IsTable
<1> QED
  BY <1>2, <1>3 DEF UploadSet, SameUploads

LEMMA EventBumped ==
  ASSUME TypeOK, NEW w, NEW o \in DOMAIN outbox, Mine(w).status = outbox[o].status,
         outbox' = [outbox EXCEPT ![o] = Bumped(@, w)]
  PROVE  /\ Exhausted(w) => EventSet(o, "FAILED")
         /\ ~Exhausted(w) => SameEvents
<1>1. outbox[o] \in EventRow /\ IsTable(outbox, EventId, EventRow)
  BY Tables DEF IsTable
<1>2. /\ Bumped(outbox[o], w).status = IF Exhausted(w) THEN "FAILED" ELSE outbox[o].status
      /\ Bumped(outbox[o], w).topic = outbox[o].topic
  BY <1>1, BumpedRow
<1>3. /\ DOMAIN outbox' = DOMAIN outbox /\ outbox'[o] = Bumped(outbox[o], w)
      /\ \A x \in DOMAIN outbox \ {o} : outbox'[x] = outbox[x]
  BY <1>1 DEF IsTable
<1> QED
  BY <1>2, <1>3 DEF EventSet, SameEvents

-----------------------------------------------------------------------------
(* The tasks, one commit after the other.                                   *)

LEMMA CommitTasksWrites ==
  ASSUME TypeOK, NEW w \in Worker, UpToDate(ctx[w]), CommitTasks(w)
  PROVE  \E j \in Job : j = Cur(w) /\ WriteTasks(j)
<1>1. At(w, "process_queued_jobs", "commit")
  BY DEF CommitTasks
<1>2. Table("process_queued_jobs") = job /\ ItemIds("process_queued_jobs") = DOMAIN job
  BY DEF Table, ItemIds, JobTasks
<1>3. /\ Cur(w) \in DOMAIN job /\ Mine(w).status = job[Cur(w)].status
      /\ job[Cur(w)].status = "QUEUED"
  BY <1>1, <1>2, RowInHand, InnerPcs DEF TaskName, JobTasks, Working, Wanted
<1>4. PICK j : j = Cur(w)
  OBVIOUS
<1>5. JobSet(j, "PROCESSING", job[j].published)
  BY <1>3, <1>4, StoredSet DEF CommitTasks, JobStatus
<1>6. \E c \in Copy : transcode' = Insert(transcode, {<<j, c, s>> : s \in Segment}, NewTask)
  BY <1>4 DEF CommitTasks, Fresh
<1>7. SameUploads /\ SameEvents
  BY SameRows DEF CommitTasks
<1>8. j \in Job
  BY <1>3, <1>4, Tables DEF IsTable
<1> QED
  BY <1>3, <1>4, <1>5, <1>6, <1>7, <1>8 DEF WriteTasks

LEMMA RetryJobWrites ==
  ASSUME TypeOK, NEW w \in Worker, UpToDate(ctx[w]), RetryJob(w)
  PROVE  Write
<1>1. At(w, "process_queued_jobs", "retry")
  BY DEF RetryJob
<1>2. Table("process_queued_jobs") = job /\ ItemIds("process_queued_jobs") = DOMAIN job
  BY DEF Table, ItemIds, JobTasks
<1>3. /\ Cur(w) \in DOMAIN job /\ Mine(w).status = job[Cur(w)].status
      /\ job[Cur(w)].status \in {"QUEUED", "PROCESSING"}
  BY <1>1, <1>2, RowInHand, InnerPcs DEF TaskName, Retrying, Wanted, Passed
<1>4. PICK j : j = Cur(w)
  OBVIOUS
<1>5. /\ Exhausted(w) => JobSet(j, "FAILED", job[j].published)
      /\ ~Exhausted(w) => SameJobs
  BY <1>3, <1>4, JobBumped DEF RetryJob
<1>6. SameTasks /\ SameUploads /\ SameEvents
  BY SameRows DEF RetryJob
<1>7. j \in Job
  BY <1>3, <1>4, Tables DEF IsTable
<1> QED
  BY <1>3, <1>4, <1>5, <1>6, <1>7 DEF WriteFailure, NothingWritten, Write

LEMMA CommitUploadWrites ==
  ASSUME TypeOK, NEW w \in Worker, UpToDate(ctx[w]), CommitUpload(w)
  PROVE  \E t \in TaskId : t = Cur(w) /\ WriteUpload(t)
<1>1. At(w, "process_transcode_tasks", "commit")
  BY DEF CommitUpload
<1>2. /\ Table("process_transcode_tasks") = transcode
      /\ ItemIds("process_transcode_tasks") = DOMAIN transcode
  BY DEF Table, ItemIds, JobTasks
<1>3. /\ Cur(w) \in DOMAIN transcode /\ Mine(w).status = transcode[Cur(w)].status
      /\ transcode[Cur(w)].status = "QUEUED"
  BY <1>1, <1>2, RowInHand, InnerPcs DEF TaskName, Retrying, Working, Wanted
<1>4. PICK t : t = Cur(w)
  OBVIOUS
<1>5. TaskSet(t, "PROCESSING")
  BY <1>3, <1>4, StoredSet DEF CommitUpload, TranscodeTaskStatus
<1>6. \E c \in Copy : upload' = Insert(upload, {<<t, c>>}, NewUpload)
  BY <1>4 DEF CommitUpload, Fresh
<1>7. SameJobs /\ SameEvents
  BY SameRows DEF CommitUpload
<1>8. t \in TaskId
  BY <1>3, <1>4, Tables DEF IsTable
<1> QED
  BY <1>3, <1>4, <1>5, <1>6, <1>7, <1>8 DEF WriteUpload

LEMMA RetryTranscodeWrites ==
  ASSUME TypeOK, NEW w \in Worker, UpToDate(ctx[w]), RetryTranscode(w)
  PROVE  Write
<1>1. At(w, "process_transcode_tasks", "retry")
  BY DEF RetryTranscode
<1>2. /\ Table("process_transcode_tasks") = transcode
      /\ ItemIds("process_transcode_tasks") = DOMAIN transcode
  BY DEF Table, ItemIds, JobTasks
<1>3. /\ Cur(w) \in DOMAIN transcode /\ Mine(w).status = transcode[Cur(w)].status
      /\ transcode[Cur(w)].status \in {"QUEUED", "PROCESSING"}
  BY <1>1, <1>2, RowInHand, InnerPcs DEF TaskName, Retrying, Wanted, Passed
<1>4. PICK t : t = Cur(w)
  OBVIOUS
<1>5. /\ t \in TaskId /\ JobOfTask(t) \in DOMAIN job
      /\ ctx[w].loaded.job = job[JobOfTask(t)].status
  BY <1>1, <1>3, <1>4, Tables DEF IsTable, TypeOK, TablesOK, UpToDate, ParentsAreStored, At, Cur
<1>6. PICK j : j = JobOfTask(t)
  OBVIOUS
<1>7. /\ Exhausted(w) => TaskSet(t, "FAILED")
      /\ ~Exhausted(w) => SameTasks
  BY <1>3, <1>4, TaskBumped DEF RetryTranscode
<1>8. /\ Exhausted(w) => JobSet(j, "FAILED", job[j].published)
      /\ ~Exhausted(w) => SameJobs
  BY <1>4, <1>5, <1>6, StoredSet, SameRows DEF RetryTranscode, JobStatus
<1>9. SameUploads /\ SameEvents
  BY SameRows DEF RetryTranscode
<1> QED
  BY <1>3, <1>4, <1>5, <1>6, <1>7, <1>8, <1>9 DEF WriteTaskFailure, NothingWritten, Write

LEMMA CommitUploadedWrites ==
  ASSUME TypeOK, NEW w \in Worker, UpToDate(ctx[w]), CommitUploaded(w)
  PROVE  \E u \in UploadId : u = Cur(w) /\ WriteUploaded(u)
<1>1. At(w, "process_upload_tasks", "commit")
  BY DEF CommitUploaded
<1>2. /\ Table("process_upload_tasks") = upload
      /\ ItemIds("process_upload_tasks") = DOMAIN upload
  BY DEF Table, ItemIds, JobTasks
<1>3. /\ Cur(w) \in DOMAIN upload /\ Mine(w).status = upload[Cur(w)].status
      /\ upload[Cur(w)].status = "PENDING"
  BY <1>1, <1>2, RowInHand, InnerPcs DEF TaskName, Retrying, Working, Wanted
<1>4. PICK u : u = Cur(w)
  OBVIOUS
<1>5. /\ u \in UploadId /\ TaskOf(u) \in DOMAIN transcode
      /\ Cur(w) # Nil
  BY <1>3, <1>4, Tables, StoreAssumption DEF IsTable, TypeOK, TablesOK
<1>6. /\ ctx[w].loaded.task = transcode[TaskOf(u)].status
      /\ job[JobOfTask(TaskOf(u))].status # "COMPLETED"
  BY <1>1, <1>4, <1>5 DEF UpToDate, ParentsAreStored, JobIsOpen, At, Cur
<1>7. PICK t : t = TaskOf(u)
  OBVIOUS
<1>8. UploadSet(u, "COMPLETED")
  BY <1>3, <1>4, StoredSet DEF CommitUploaded, UploadStatus
<1>9. TaskSet(t, "COMPLETED")
  BY <1>4, <1>5, <1>6, <1>7, StoredSet DEF CommitUploaded, TranscodeTaskStatus
<1>10. SameJobs /\ SameEvents
  BY SameRows DEF CommitUploaded
<1> QED
  BY <1>3, <1>4, <1>5, <1>6, <1>7, <1>8, <1>9, <1>10 DEF WriteUploaded

LEMMA RetryUploadWrites ==
  ASSUME TypeOK, NEW w \in Worker, UpToDate(ctx[w]), RetryUpload(w)
  PROVE  Write
<1>1. At(w, "process_upload_tasks", "retry")
  BY DEF RetryUpload
<1>2. /\ Table("process_upload_tasks") = upload
      /\ ItemIds("process_upload_tasks") = DOMAIN upload
  BY DEF Table, ItemIds, JobTasks
<1>3. /\ Cur(w) \in DOMAIN upload /\ Mine(w).status = upload[Cur(w)].status
      /\ upload[Cur(w)].status \in {"PENDING", "COMPLETED"}
  BY <1>1, <1>2, RowInHand, InnerPcs DEF TaskName, Retrying, Wanted, Passed
<1>4. PICK u : u = Cur(w)
  OBVIOUS
<1>5. /\ u \in UploadId /\ TaskOf(u) \in DOMAIN transcode
      /\ Cur(w) # Nil
  BY <1>3, <1>4, Tables, StoreAssumption DEF IsTable, TypeOK, TablesOK
<1>6. PICK t, j : t = TaskOf(u) /\ j = JobOfTask(t)
  OBVIOUS
<1>7. /\ ctx[w].loaded.task = transcode[t].status /\ ctx[w].loaded.job = job[j].status
      /\ job[j].status # "COMPLETED"
  BY <1>1, <1>4, <1>5, <1>6 DEF UpToDate, ParentsAreStored, JobIsOpen, At, Cur
<1>8. j \in DOMAIN job
  BY <1>5, <1>6 DEF TypeOK, TablesOK
<1>9. /\ Exhausted(w) => UploadSet(u, "FAILED")
      /\ ~Exhausted(w) => SameUploads
  BY <1>3, <1>4, UploadBumped DEF RetryUpload
<1>10. ASSUME Exhausted(w)
       PROVE  TaskSet(t, "FAILED") /\ JobSet(j, "FAILED", job[j].published)
  <2>1. /\ transcode' = [transcode EXCEPT ![t].status = Assign(@, ctx[w].loaded.task, "FAILED")]
        /\ job' = [job EXCEPT ![j].status = Assign(@, ctx[w].loaded.job, "FAILED")]
    BY <1>4, <1>6, <1>10 DEF RetryUpload
  <2> QED
    BY <1>5, <1>6, <1>7, <1>8, <2>1, StoredSet DEF TranscodeTaskStatus, JobStatus
<1>11. ~Exhausted(w) => SameTasks /\ SameJobs
  BY SameRows DEF RetryUpload
<1>12. SameEvents
  BY SameRows DEF RetryUpload
<1>13. Exhausted(w) => WriteUploadFailure(u)
  BY <1>3, <1>4, <1>6, <1>7, <1>9, <1>10, <1>12 DEF WriteUploadFailure
<1> QED
  BY <1>5, <1>9, <1>11, <1>12, <1>13 DEF NothingWritten, Write

(* The tasks that take their items from the table jobs.                     *)
LEMMA JobInHand ==
  ASSUME TypeOK, NEW w \in Worker, UpToDate(ctx[w]), NEW task \in JobTasks, NEW pc \in Working,
         At(w, task, pc)
  PROVE  /\ Cur(w) \in DOMAIN job /\ Cur(w) \in Job
         /\ Mine(w).status = job[Cur(w)].status
         /\ Mine(w).published = job[Cur(w)].published
         /\ Wanted(task, job[Cur(w)])
<1>1. Table(task) = job /\ ItemIds(task) = DOMAIN job /\ task \in TaskName
  <2>1. Table(task) = job
    BY DEF Table, JobTasks
  <2>2. ItemIds(task) = DOMAIN job
    BY DEF ItemIds, JobTasks
  <2> QED
    BY <2>1, <2>2 DEF TaskName
<1>2. pc \in Inner
  BY DEF Working, Inner, Pc
<1>3. /\ Cur(w) \in DOMAIN job
      /\ Mine(w).status = job[Cur(w)].status
      /\ Mine(w).published = job[Cur(w)].published
      /\ Wanted(task, job[Cur(w)])
  BY <1>1, <1>2, RowInHand
<1> QED
  BY <1>3, Tables DEF IsTable

LEMMA CommitCompletedWrites ==
  ASSUME TypeOK, NEW w \in Worker, UpToDate(ctx[w]), CommitCompleted(w)
  PROVE  \E j \in Job : j = Cur(w) /\ WriteCompleted(j)
<1>1. At(w, "check_completed_jobs", "commit")
  BY DEF CommitCompleted
<1>2. /\ Cur(w) \in DOMAIN job /\ Cur(w) \in Job /\ Mine(w).status = job[Cur(w)].status
      /\ job[Cur(w)].status = "PROCESSING"
  BY <1>1, JobInHand DEF JobTasks, Working, Wanted
<1>3. AllTasksCompleted(Cur(w))
  BY <1>1 DEF UpToDate, JobIsOpen, At, Cur
<1>4. PICK j : j = Cur(w)
  OBVIOUS
<1>5. JobSet(j, "COMPLETED", job[j].published)
  BY <1>2, <1>4, StoredSet DEF CommitCompleted, JobStatus
<1>6. SameTasks /\ SameUploads /\ SameEvents
  BY SameRows DEF CommitCompleted
<1> QED
  BY <1>2, <1>3, <1>4, <1>5, <1>6 DEF WriteCompleted

LEMMA ProbeFailsWrites ==
  ASSUME TypeOK, NEW w \in Worker, UpToDate(ctx[w]), ProbeFails(w)
  PROVE  \E j \in Job : j = Cur(w) /\ WriteFailure(j)
<1>1. At(w, "process_completed_jobs", "work")
  BY DEF ProbeFails
<1>2. /\ Cur(w) \in DOMAIN job /\ Cur(w) \in Job /\ Mine(w).status = job[Cur(w)].status
      /\ job[Cur(w)].status = "COMPLETED" /\ ~job[Cur(w)].published
  BY <1>1, JobInHand DEF JobTasks, Working, Wanted
<1>4. PICK j : j = Cur(w)
  OBVIOUS
<1>5. JobSet(j, "FAILED", job[j].published)
  BY <1>2, <1>4, StoredSet DEF ProbeFails, JobStatus
<1>6. SameTasks /\ SameUploads /\ SameEvents
  BY SameRows DEF ProbeFails
<1> QED
  BY <1>2, <1>4, <1>5, <1>6 DEF WriteFailure

LEMMA AnnouncementWrites ==
  ASSUME TypeOK, NEW w \in Worker, UpToDate(ctx[w]), AnnounceCompleted(w) \/ AnnounceFailed(w)
  PROVE  \E j \in Job, topic \in Topic : j = Cur(w) /\ WriteAnnouncement(j, topic)
<1>1. PICK task \in JobTasks, topic \in Topic :
        /\ At(w, task, "commit") /\ CommitAnnouncement(w, topic)
        /\ \/ task = "process_completed_jobs" /\ topic = "job.completed"
           \/ task = "process_failed_jobs" /\ topic = "job.failed"
  BY DEF AnnounceCompleted, AnnounceFailed, JobTasks, Topic
<1>2. /\ Cur(w) \in DOMAIN job /\ Cur(w) \in Job
      /\ Mine(w).published = job[Cur(w)].published /\ Wanted(task, job[Cur(w)])
  BY <1>1, JobInHand DEF Working
<1>3. /\ ~job[Cur(w)].published
      /\ \/ job[Cur(w)].status = "COMPLETED" /\ topic = "job.completed"
         \/ job[Cur(w)].status = "FAILED" /\ topic = "job.failed"
  BY <1>1, <1>2 DEF Wanted
<1>4. PICK j : j = Cur(w)
  OBVIOUS
<1>5. JobSet(j, job[j].status, TRUE)
  <2>1. job' = [job EXCEPT ![j].published = Assign(@, Mine(w).published, TRUE)]
    BY <1>1, <1>4 DEF CommitAnnouncement
  <2>2. job' = [job EXCEPT ![j].published = TRUE]
    BY <1>2, <1>4, <2>1, AssignStored
  <2> QED
    BY <1>2, <1>4, <2>2, Tables DEF JobSet, IsTable, JobRow
<1>6. \E c \in Copy : outbox' = Insert(outbox, {<<j, c>>}, NewEvent(topic))
  BY <1>1, <1>4 DEF CommitAnnouncement, Fresh
<1>7. SameTasks /\ SameUploads
  BY <1>1, SameRows DEF CommitAnnouncement
<1>8. WriteAnnouncement(j, topic)
  BY <1>3, <1>4, <1>5, <1>6, <1>7 DEF WriteAnnouncement
<1> QED
  BY <1>1, <1>2, <1>4, <1>8

LEMMA CommitProcessedWrites ==
  ASSUME TypeOK, NEW w \in Worker, UpToDate(ctx[w]), CommitProcessed(w)
  PROVE  \E o \in EventId : o = Cur(w) /\ WriteProcessed(o)
<1>1. At(w, "process_outbox_events", "commit")
  BY DEF CommitProcessed
<1>2. /\ Table("process_outbox_events") = outbox
      /\ ItemIds("process_outbox_events") = DOMAIN outbox
  BY DEF Table, ItemIds, JobTasks
<1>3. /\ Cur(w) \in DOMAIN outbox /\ Mine(w).status = outbox[Cur(w)].status
      /\ outbox[Cur(w)].status = "PENDING"
  BY <1>1, <1>2, RowInHand, InnerPcs DEF TaskName, Retrying, Working, Wanted
<1>4. PICK o : o = Cur(w)
  OBVIOUS
<1>5. EventSet(o, "PROCESSED")
  BY <1>3, <1>4, StoredSet DEF CommitProcessed, OutboxStatus
<1>6. SameJobs /\ SameTasks /\ SameUploads
  BY SameRows DEF CommitProcessed
<1>7. o \in EventId
  BY <1>3, <1>4, Tables DEF IsTable
<1> QED
  BY <1>3, <1>4, <1>5, <1>6, <1>7 DEF WriteProcessed

(* The published flag goes down with the event that is given up.            *)
LEMMA RetryEventWrites ==
  ASSUME TypeOK, NEW w \in Worker, UpToDate(ctx[w]), RetryEvent(w)
  PROVE  \E o \in EventId :
           /\ o = Cur(w)
           /\ IF Exhausted(w) THEN WriteEventFailure(o) ELSE NothingWritten
<1>1. At(w, "process_outbox_events", "retry")
  BY DEF RetryEvent
<1>2. /\ Table("process_outbox_events") = outbox
      /\ ItemIds("process_outbox_events") = DOMAIN outbox
  BY DEF Table, ItemIds, JobTasks
<1>3. /\ Cur(w) \in DOMAIN outbox /\ Mine(w).status = outbox[Cur(w)].status
      /\ outbox[Cur(w)].status \in {"PENDING", "PROCESSED"}
  BY <1>1, <1>2, RowInHand, InnerPcs DEF TaskName, Retrying, Wanted, Passed
<1>4. PICK o : o = Cur(w)
  OBVIOUS
<1>5. /\ o \in EventId /\ JobOfEvent(o) \in DOMAIN job
      /\ ctx[w].loaded.job = job[JobOfEvent(o)].status
      /\ ctx[w].loaded.published = job[JobOfEvent(o)].published
  BY <1>1, <1>3, <1>4, Tables DEF IsTable, TypeOK, TablesOK, UpToDate, ParentsAreStored, At, Cur
<1>6. PICK j : j = JobOfEvent(o)
  OBVIOUS
<1>7. /\ Exhausted(w) => EventSet(o, "FAILED")
      /\ ~Exhausted(w) => SameEvents
  BY <1>3, <1>4, EventBumped DEF RetryEvent
<1>8. ASSUME Exhausted(w) PROVE JobSet(j, "FAILED", FALSE)
  <2>1. job' = [job EXCEPT ![j] = Withdrawn(@, w)]
    BY <1>4, <1>6, <1>8 DEF RetryEvent
  <2>2. job[j] \in JobRow /\ IsTable(job, Job, JobRow) /\ j \in DOMAIN job
    BY <1>5, <1>6, Tables DEF IsTable
  <2>3. Withdrawn(job[j], w).status = "FAILED" /\ Withdrawn(job[j], w).published = FALSE
    <3>1. PICK row \in JobRow : row = job[j]
      BY <2>2
    <3>2. ctx[w].loaded.job = row.status /\ ctx[w].loaded.published = row.published
      BY <1>5, <1>6, <3>1
    <3>3. Withdrawn(row, w) = [row EXCEPT !.status = Assign(row.status, row.status, "FAILED"),
                                         !.published = Assign(row.published, row.published, FALSE)]
      BY <3>2 DEF Withdrawn
    <3>4. Withdrawn(row, w) = [row EXCEPT !.status = "FAILED", !.published = FALSE]
      BY <3>3, AssignStored
    <3> QED
      BY <3>1, <3>4 DEF JobRow
  <2>4. /\ DOMAIN job' = DOMAIN job /\ job'[j] = Withdrawn(job[j], w)
        /\ \A k \in DOMAIN job \ {j} : job'[k] = job[k]
    BY <2>1, <2>2 DEF IsTable
  <2> QED
    BY <2>2, <2>3, <2>4 DEF JobSet
<1>9. ~Exhausted(w) => SameJobs
  BY SameRows DEF RetryEvent
<1>10. SameTasks /\ SameUploads
  BY SameRows DEF RetryEvent
<1>11. Exhausted(w) => WriteEventFailure(o)
  BY <1>3, <1>4, <1>6, <1>7, <1>8, <1>10 DEF WriteEventFailure
<1> QED
  BY <1>4, <1>5, <1>7, <1>9, <1>10, <1>11 DEF NothingWritten

(* The other steps of the tasks write nothing.                              *)
Works(w) ==
  \/ Download(w) \/ GenerateInit(w) \/ CutSegments(w)
  \/ Transcode(w) \/ UploadFiles(w)
  \/ Check(w) \/ PrepareManifest(w) \/ CleanUp(w)
  \/ SkipEvent(w) \/ Publish(w) \/ PublishFails(w)

LEMMA WorkWritesNothing == ASSUME NEW w \in Worker, Works(w) PROVE UNCHANGED db
<1>1. CASE Download(w) \/ GenerateInit(w) \/ CutSegments(w) \/ Transcode(w) \/ UploadFiles(w)
  BY <1>1 DEF Download, GenerateInit, CutSegments, Transcode, UploadFiles, db
<1>2. CASE Check(w) \/ PrepareManifest(w) \/ CleanUp(w)
  BY <1>2 DEF Check, PrepareManifest, CleanUp, db
<1>3. CASE SkipEvent(w) \/ Publish(w) \/ PublishFails(w)
  BY <1>3 DEF SkipEvent, Publish, PublishFails, db
<1> QED
  BY <1>1, <1>2, <1>3 DEF Works

LEMMA UnchangedWrites == ASSUME UNCHANGED db PROVE NothingWritten
BY SameRows DEF NothingWritten, db

LEMMA LoopWritesNothing ==
  ASSUME NEW w \in Worker, Start(w) \/ LoopStep(w) \/ Crash(w) PROVE UNCHANGED db
<1>1. CASE Start(w)
  BY <1>1 DEF Start, StartQueuedJobs, StartTranscodeTasks, StartUploadTasks, StartCheck,
              StartCompletedJobs, StartFailedJobs, StartOutboxEvents, Begin
<1>2. CASE LoopStep(w)
  BY <1>2 DEF LoopStep, Pick, Finish, LockItem, LockCommit, Release, ReleaseFails, Raise,
              Rescue, RaiseInRescue
<1>3. CASE Crash(w)
  BY <1>3 DEF Crash
<1> QED
  BY <1>1, <1>2, <1>3

LEMMA TaskStepWrites ==
  ASSUME TypeOK, NEW w \in Worker, UpToDate(ctx[w]), TaskStep(w) PROVE Write
<1>1. CASE Works(w)
  BY <1>1, WorkWritesNothing, UnchangedWrites DEF Write
<1>2. CASE CommitTasks(w) \/ RetryJob(w)
  BY <1>2, CommitTasksWrites, RetryJobWrites DEF Write
<1>3. CASE CommitUpload(w) \/ RetryTranscode(w)
  BY <1>3, CommitUploadWrites, RetryTranscodeWrites DEF Write
<1>4. CASE CommitUploaded(w) \/ RetryUpload(w)
  BY <1>4, CommitUploadedWrites, RetryUploadWrites DEF Write
<1>5. CASE CommitCompleted(w) \/ ProbeFails(w)
  BY <1>5, CommitCompletedWrites, ProbeFailsWrites DEF Write
<1>6. CASE AnnounceCompleted(w) \/ AnnounceFailed(w)
  BY <1>6, AnnouncementWrites DEF Write
<1>7. CASE CommitProcessed(w) \/ RetryEvent(w)
  BY <1>7, CommitProcessedWrites, RetryEventWrites DEF Write
<1> QED
  BY <1>1, <1>2, <1>3, <1>4, <1>5, <1>6, <1>7
     DEF TaskStep, QueuedJobsStep, TranscodeTasksStep, UploadTasksStep, CompletedJobsStep,
         FailedJobsStep, OutboxEventsStep, Works

LEMMA ArrivalWrites == ASSUME TypeOK, NEW j \in Job, JobArrives(j) PROVE WriteArrival(j)
<1>1. SameTasks /\ SameUploads /\ SameEvents
  BY SameRows DEF JobArrives
<1> QED
  BY <1>1 DEF JobArrives, WriteArrival, Insert, NewJob

LEMMA WindowWrites == ASSUME TypeOK, RetryWindowOpens PROVE NothingWritten
<1>1. CASE /\ \E j \in DOMAIN job : job' = [job EXCEPT ![j].due = TRUE]
           /\ UNCHANGED <<transcode, upload, outbox>>
  BY <1>1, SameRows, Tables DEF NothingWritten, SameJobs, IsTable, JobRow
<1>2. CASE /\ \E t \in DOMAIN transcode : transcode' = [transcode EXCEPT ![t].due = TRUE]
           /\ UNCHANGED <<job, upload, outbox>>
  BY <1>2, SameRows, Tables DEF NothingWritten, SameTasks, IsTable, TaskRow
<1>3. CASE /\ \E u \in DOMAIN upload : upload' = [upload EXCEPT ![u].due = TRUE]
           /\ UNCHANGED <<job, transcode, outbox>>
  BY <1>3, SameRows, Tables DEF NothingWritten, SameUploads, IsTable, UploadRow
<1>4. CASE /\ \E o \in DOMAIN outbox : outbox' = [outbox EXCEPT ![o].due = TRUE]
           /\ UNCHANGED <<job, transcode, upload>>
  BY <1>4, SameRows, Tables DEF NothingWritten, SameEvents, IsTable, EventRow
<1> QED
  BY <1>1, <1>2, <1>3, <1>4 DEF RetryWindowOpens

LEMMA StepWrites == ASSUME TypeOK, ViewInv, [Next]_vars PROVE Write
<1>1. ASSUME NEW w \in Worker, Start(w) \/ LoopStep(w) \/ Crash(w) PROVE Write
  BY <1>1, LoopWritesNothing, UnchangedWrites DEF Write
<1>2. ASSUME NEW w \in Worker, TaskStep(w) PROVE Write
  BY <1>2, TaskStepWrites DEF ViewInv
<1>3. CASE (\E j \in Job : JobArrives(j)) \/ RetryWindowOpens
  BY <1>3, ArrivalWrites, WindowWrites DEF Write
<1>4. CASE Expire \/ UNCHANGED vars
  BY <1>4, UnchangedWrites DEF Expire, vars, Write
<1> QED
  BY <1>1, <1>2, <1>3, <1>4 DEF Next

-----------------------------------------------------------------------------
(* The worker's view of the tables stays true: steps that write nothing.    *)

LEMMA OneView ==
  ASSUME OneWorker, TypeOK, NEW w \in Worker, NEW c, ctx' = [ctx EXCEPT ![w] = c],
         UpToDate(c)'
  PROVE  ViewInv'
<1>1. ctx'[w] = c /\ \A x \in Worker : x = w
  BY DEF TypeOK, OneWorker
<1> QED
  BY <1>1 DEF ViewInv

LEMMA ViewSame == ASSUME UNCHANGED db, NEW c, UpToDate(c) PROVE UpToDate(c)'
<1>1. UNCHANGED <<job, transcode, upload, outbox>>
  BY DEF db
<1>2. \A task : Table(task)' = Table(task)
  BY <1>1 DEF Table
<1>3. \A j : TasksOf(j)' = TasksOf(j)
  BY <1>1 DEF TasksOf
<1>4. AllTasksCompleted(c.cur)' = AllTasksCompleted(c.cur)
  BY <1>1, <1>3 DEF AllTasksCompleted
<1> QED
  BY <1>1, <1>2, <1>4
     DEF UpToDate, SeenIsStored, BatchIsWanted, HandIsWanted, ParentsAreStored, JobIsOpen

LEMMA MoveView ==
  ASSUME OneWorker, TypeOK, UNCHANGED db, NEW w \in Worker, UpToDate(ctx[w]), NEW c,
         ctx' = [ctx EXCEPT ![w] = c],
         c.task = ctx[w].task, c.cur = ctx[w].cur, c.todo \subseteq ctx[w].todo,
         \A x \in DOMAIN c.seen : x \in DOMAIN ctx[w].seen /\ c.seen[x] = ctx[w].seen[x],
         c.pc \in Working \cup {"lock", "rescue"} => ctx[w].pc \in Working \cup {"lock"},
         c.pc # "retry",
         c.task = "process_upload_tasks" /\ c.pc = "commit"
           => c.loaded.task = transcode[TaskOf(c.cur)].status,
         c.task = "check_completed_jobs" /\ c.pc \in {"seal", "commit"}
           => AllTasksCompleted(c.cur)
  PROVE  ViewInv'
<1>1. SeenIsStored(c) /\ BatchIsWanted(c)
  BY DEF UpToDate, SeenIsStored, BatchIsWanted
<1>2. HandIsWanted(c)
  BY DEF UpToDate, HandIsWanted
<1>3. ParentsAreStored(c) /\ JobIsOpen(c)
  BY DEF UpToDate, ParentsAreStored, JobIsOpen
<1>4. UpToDate(c)
  BY <1>1, <1>2, <1>3 DEF UpToDate
<1> QED
  BY <1>4, OneView, ViewSame

(* The work of an item, and the exceptions it raises.                       *)
LEMMA AdvanceView ==
  ASSUME OneWorker, TypeOK, UNCHANGED db, NEW w \in Worker, UpToDate(ctx[w]), Advance(w),
         ctx' = Failed(w) => ctx[w].pc \in Working \cup {"lock"},
         ctx' = Goto(w, "commit")
           => ctx[w].task \notin {"process_upload_tasks", "check_completed_jobs"},
         ctx' = Goto(w, "seal") /\ ctx[w].task = "check_completed_jobs"
           => AllTasksCompleted(Cur(w))
  PROVE  ViewInv'
<1> DEFINE r == ctx[w]
<1>0. DOMAIN r = DOMAIN Idle
  BY DEF TypeOK, ContextOK
<1>1. ASSUME NEW p \in Working \cup {"release"}, ctx' = Goto(w, p), r.pc \in Working
      PROVE  ViewInv'
  <2> DEFINE c == [r EXCEPT !.pc = p]
  <2>1. ctx' = [ctx EXCEPT ![w] = c]
    BY <1>1 DEF Goto
  <2>2. /\ c.task = r.task /\ c.cur = r.cur /\ c.todo = r.todo /\ c.seen = r.seen
        /\ c.pc = p
    BY <1>0 DEF Idle
  <2> HIDE DEF c
  <2>3. c.task = "process_upload_tasks" => c.pc # "commit"
    BY <1>1, <2>2
  <2>4. c.task = "check_completed_jobs" /\ c.pc \in {"seal", "commit"}
          => AllTasksCompleted(c.cur)
    BY <1>1, <2>2 DEF Cur
  <2>5. c.pc # "retry" /\ r.pc \in Working \cup {"lock"}
    BY <1>1, <2>2 DEF Working
  <2> QED
    BY <2>1, <2>2, <2>3, <2>4, <2>5, MoveView
<1>2. CASE ctx' = Failed(w)
  <2> DEFINE c == [r EXCEPT !.pc = "rescue", !.seen = NoRows]
  <2>1. ctx' = [ctx EXCEPT ![w] = c]
    BY <1>2 DEF Failed
  <2>2. /\ c.task = r.task /\ c.cur = r.cur /\ c.todo = r.todo /\ DOMAIN c.seen = {}
        /\ c.pc = "rescue"
    BY <1>0 DEF Idle, NoRows
  <2> HIDE DEF c
  <2> QED
    BY <1>2, <2>1, <2>2, MoveView
<1>3. CASE ctx' = Closed(w)
  <2> DEFINE c == [r EXCEPT !.pc = "release", !.seen = NoRows]
  <2>1. ctx' = [ctx EXCEPT ![w] = c]
    BY <1>3 DEF Closed
  <2>2. /\ c.task = r.task /\ c.cur = r.cur /\ c.todo = r.todo /\ DOMAIN c.seen = {}
        /\ c.pc = "release"
    BY <1>0 DEF Idle, NoRows
  <2> HIDE DEF c
  <2> QED
    BY <2>1, <2>2, MoveView DEF Working
<1>4. CASE ctx' = Aborted(w)
  <2> DEFINE c == [r EXCEPT !.pc = "release", !.todo = {}, !.seen = NoRows]
  <2>1. ctx' = [ctx EXCEPT ![w] = c]
    BY <1>4 DEF Aborted
  <2>2. /\ c.task = r.task /\ c.cur = r.cur /\ c.todo = {} /\ DOMAIN c.seen = {}
        /\ c.pc = "release"
    BY <1>0 DEF Idle, NoRows
  <2> HIDE DEF c
  <2> QED
    BY <2>1, <2>2, MoveView DEF Working
<1> QED
  BY <1>1, <1>2, <1>3, <1>4 DEF Advance

LEMMA GotoDiffers ==
  ASSUME TypeOK, NEW w \in Worker, NEW p, NEW q, p # q PROVE Goto(w, p) # Goto(w, q)
<1>1. DOMAIN ctx[w] = DOMAIN Idle /\ DOMAIN ctx = Worker
  BY DEF TypeOK, ContextOK
<1> DEFINE c == [ctx[w] EXCEPT !.pc = p]
           d == [ctx[w] EXCEPT !.pc = q]
<1>2. c.pc = p /\ d.pc = q
  BY <1>1 DEF Idle
<1>3. Goto(w, p) = [ctx EXCEPT ![w] = c] /\ Goto(w, q) = [ctx EXCEPT ![w] = d]
  BY DEF Goto
<1> HIDE DEF c, d
<1>4. Goto(w, p)[w] = c /\ Goto(w, q)[w] = d
  BY <1>1, <1>3
<1> QED
  BY <1>2, <1>4

LEMMA WorkView ==
  ASSUME OneWorker, TypeOK, NEW w \in Worker, UpToDate(ctx[w]), Works(w), TaskStep(w)
  PROVE  ViewInv'
<1>1. Advance(w) /\ UNCHANGED db
  BY TaskStepAdvances, WorkWritesNothing
<1>2. ctx[w].pc \in Working
  BY DEF Works, Download, GenerateInit, CutSegments, Transcode, UploadFiles, Check,
         PrepareManifest, CleanUp, SkipEvent, Publish, PublishFails, At, Working
<1>3. CASE Check(w)
  <2>1. PICK p : ctx' = Goto(w, p) /\ p = IF AllTasksCompleted(Cur(w)) THEN "seal" ELSE "release"
    BY <1>3 DEF Check
  <2>2. ctx' # Goto(w, "commit")
    BY <2>1, GotoDiffers
  <2>3. ctx' = Goto(w, "seal") => AllTasksCompleted(Cur(w))
    BY <2>1, GotoDiffers
  <2> QED
    BY <1>1, <1>2, <2>2, <2>3, AdvanceView
<1>4. CASE ctx[w].task \notin {"check_completed_jobs", "process_upload_tasks"}
  BY <1>1, <1>2, <1>4, AdvanceView
<1>5. CASE UploadFiles(w)
  <2>1. ctx[w].task = "process_upload_tasks"
    BY <1>5 DEF UploadFiles, At
  <2>2. ctx'[w].pc \in {"seal", "rescue"}
    BY <1>5 DEF UploadFiles, Goto, Failed, TypeOK, ContextOK, Idle
  <2>3. ctx' # Goto(w, "commit")
    BY <2>2 DEF Goto, TypeOK, ContextOK, Idle
  <2> QED
    BY <1>1, <1>2, <2>1, <2>3, AdvanceView
<1> QED
  BY <1>3, <1>4, <1>5
     DEF Works, Download, GenerateInit, CutSegments, Transcode, PrepareManifest, CleanUp,
         SkipEvent, Publish, PublishFails, At

LEMMA IdleUpToDate == UpToDate(Idle)
<1>1. /\ Idle.task = Nil /\ Idle.pc = "idle" /\ Idle.todo = {} /\ DOMAIN Idle.seen = {}
  BY DEF Idle, NoRows
<1>2. Nil \notin TaskName
  BY StoreAssumption
<1> QED
  BY <1>1, <1>2
     DEF UpToDate, SeenIsStored, BatchIsWanted, HandIsWanted, ParentsAreStored, JobIsOpen,
         TaskName, Retrying, JobTasks, Working

LEMMA StartView ==
  ASSUME OneWorker, TypeOK, NEW w \in Worker, Start(w) PROVE ViewInv'
<1>1. PICK task, eligible :
        /\ task \in TaskName
        /\ Begin(w, task, eligible) /\ eligible \subseteq DOMAIN Table(task)
        /\ \A x \in eligible : Wanted(task, Table(task)[x])
  <2>1. CASE StartQueuedJobs(w) \/ StartCheck(w) \/ StartCompletedJobs(w) \/ StartFailedJobs(w)
    BY <2>1 DEF StartQueuedJobs, StartCheck, StartCompletedJobs, StartFailedJobs, Table, Wanted,
                TaskName, JobTasks
  <2>2. CASE StartTranscodeTasks(w) \/ StartUploadTasks(w) \/ StartOutboxEvents(w)
    BY <2>2 DEF StartTranscodeTasks, StartUploadTasks, StartOutboxEvents, Table, Wanted,
                TaskName, Retrying, JobTasks
  <2> QED
    BY <2>1, <2>2 DEF Start
<1>2. PICK batch \in SUBSET eligible :
        ctx' = [ctx EXCEPT ![w] =
                 [Idle EXCEPT !.task = task, !.pc = "pick", !.todo = batch,
                              !.seen = [x \in batch |-> Table(task)[x]]]]
  BY <1>1 DEF Begin
<1> DEFINE c == [Idle EXCEPT !.task = task, !.pc = "pick", !.todo = batch,
                             !.seen = [x \in batch |-> Table(task)[x]]]
<1>3. /\ c.task = task /\ c.pc = "pick" /\ c.todo = batch /\ c.cur = Nil
      /\ c.seen = [x \in batch |-> Table(task)[x]]
  BY DEF Idle
<1>4. ctx' = [ctx EXCEPT ![w] = c]
  BY <1>2
<1> HIDE DEF c
<1>5. Nil \notin DOMAIN Table(task)
  BY <1>1, TaskTable
<1>6. UpToDate(c)
  <2>1. BatchIsWanted(c)
    BY <1>1, <1>2, <1>3, <1>5 DEF BatchIsWanted
  <2>2. SeenIsStored(c)
    BY <1>3 DEF SeenIsStored
  <2>3. HandIsWanted(c) /\ ParentsAreStored(c) /\ JobIsOpen(c)
    BY <1>3 DEF HandIsWanted, ParentsAreStored, JobIsOpen, Working
  <2> QED
    BY <2>1, <2>2, <2>3 DEF UpToDate
<1>7. UNCHANGED db
  BY <1>1 DEF Begin
<1> QED
  BY <1>4, <1>6, <1>7, OneView, ViewSame

(* A PENDING upload task is of a job that is not COMPLETED.                 *)
LEMMA PendingIsOpen ==
  ASSUME TypeOK, RowsInv, NEW u \in DOMAIN upload, upload[u].status = "PENDING"
  PROVE  job[JobOfTask(TaskOf(u))].status # "COMPLETED"
<1> DEFINE t == TaskOf(u)
           j == JobOfTask(t)
<1>1. t \in DOMAIN transcode /\ j \in DOMAIN job
  BY DEF TypeOK, TablesOK
<1>2. u \in UploadsOf(t) /\ t \in TasksOf(j)
  BY <1>1 DEF UploadsOf, TasksOf
<1> HIDE DEF t, j
<1>3. ASSUME job[j].status = "COMPLETED" PROVE FALSE
  <2>1. transcode[t].status = "COMPLETED"
    BY <1>1, <1>2, <1>3 DEF RowsInv, JobsInv
  <2>2. PICK x \in UploadsOf(t) : upload[x].status = "COMPLETED"
    BY <1>1, <2>1 DEF RowsInv, TasksInv
  <2>3. x = u
    BY <1>1, <1>2 DEF RowsInv, TasksInv
  <2> QED
    BY <2>2, <2>3
<1> QED
  BY <1>3 DEF t, j

LEMMA PickView ==
  ASSUME OneWorker, TypeOK, RowsInv, NEW w \in Worker, UpToDate(ctx[w]), Pick(w)
  PROVE  ViewInv'
<1> DEFINE r == ctx[w]
<1>1. PICK x \in r.todo :
        ctx' = [ctx EXCEPT ![w].pc = "lock", ![w].cur = x, ![w].todo = @ \ {x},
                  ![w].seen = Insert(@, {x}, Table(ctx[w].task)[x])]
  BY DEF Pick
<1> DEFINE c == [r EXCEPT !.pc = "lock", !.cur = x, !.todo = @ \ {x},
                          !.seen = Insert(@, {x}, Table(r.task)[x])]
<1>2. ctx' = [ctx EXCEPT ![w] = c]
  BY <1>1
<1>3. /\ c.task = r.task /\ c.pc = "lock" /\ c.cur = x /\ c.todo = r.todo \ {x}
      /\ c.seen = Insert(r.seen, {x}, Table(r.task)[x])
  BY DEF TypeOK, ContextOK, Idle
<1> HIDE DEF c
<1>4. /\ DOMAIN c.seen = DOMAIN r.seen \cup {x}
      /\ \A y \in DOMAIN c.seen : c.seen[y] = IF y \in DOMAIN r.seen THEN r.seen[y]
                                                                    ELSE Table(r.task)[x]
  BY <1>3 DEF Insert
<1>5. SeenIsStored(c)
  BY <1>3, <1>4 DEF UpToDate, SeenIsStored
<1>6. Wanted(r.task, Table(r.task)[x])
  BY DEF UpToDate, BatchIsWanted
<1>7. BatchIsWanted(c) /\ HandIsWanted(c) /\ ParentsAreStored(c)
  BY <1>3, <1>6 DEF UpToDate, BatchIsWanted, HandIsWanted, ParentsAreStored
<1>8. JobIsOpen(c)
  <2>1. ASSUME r.task = "process_upload_tasks" PROVE job[JobOfTask(TaskOf(x))].status # "COMPLETED"
    <3>1. x \in DOMAIN upload
      BY <2>1 DEF TypeOK, ContextOK, ItemIds, JobTasks
    <3>2. upload[x].status = "PENDING"
      BY <1>6, <2>1 DEF Wanted, Table, JobTasks
    <3> QED
      BY <3>1, <3>2, PendingIsOpen
  <2> QED
    BY <1>3, <2>1 DEF JobIsOpen
<1>9. UpToDate(c)
  BY <1>5, <1>7, <1>8 DEF UpToDate
<1> QED
  BY <1>2, <1>9, OneView, ViewSame DEF Pick

LEMMA IdleView ==
  ASSUME OneWorker, TypeOK, NEW w \in Worker, Finish(w) \/ Crash(w) PROVE ViewInv'
<1>1. ctx' = [ctx EXCEPT ![w] = Idle] /\ UNCHANGED db
  BY DEF Finish, Crash
<1> QED
  BY <1>1, IdleUpToDate, OneView, ViewSame

LEMMA AcquireView ==
  ASSUME OneWorker, TypeOK, UNCHANGED db, NEW w \in Worker, UpToDate(ctx[w]),
         NEW state, NEW next \in Working, NEW loaded, Acquire(w, state, next, loaded),
         ctx[w].pc \in {"lock", "seal"}, next = "commit" <=> ctx[w].pc = "seal",
         next # "seal",
         next = "commit" /\ ctx[w].task = "process_upload_tasks"
           => loaded.task = transcode[TaskOf(Cur(w))].status
  PROVE  ViewInv'
<1> DEFINE r == ctx[w]
<1>0. DOMAIN r = DOMAIN Idle
  BY DEF TypeOK, ContextOK
<1>1. CASE ctx' = Goto(w, "release")
  <2> DEFINE c == [r EXCEPT !.pc = "release"]
  <2>1. ctx' = [ctx EXCEPT ![w] = c]
    BY <1>1 DEF Goto
  <2>2. /\ c.task = r.task /\ c.cur = r.cur /\ c.todo = r.todo /\ c.seen = r.seen
        /\ c.pc = "release"
    BY <1>0 DEF Idle
  <2> HIDE DEF c
  <2> QED
    BY <2>1, <2>2, MoveView DEF Working
<1>2. CASE ctx' = [ctx EXCEPT ![w].pc = next, ![w].loaded = loaded, ![w].held = @ \cup {state}]
  <2> DEFINE c == [r EXCEPT !.pc = next, !.loaded = loaded, !.held = @ \cup {state}]
  <2>1. ctx' = [ctx EXCEPT ![w] = c]
    BY <1>2
  <2>2. /\ c.task = r.task /\ c.cur = r.cur /\ c.todo = r.todo /\ c.seen = r.seen
        /\ c.pc = next /\ c.loaded = loaded
    BY <1>0 DEF Idle
  <2> HIDE DEF c
  <2>3. r.pc \in Working \cup {"lock"} /\ c.pc # "retry"
    BY <2>2 DEF Working
  <2>4. c.task = "check_completed_jobs" /\ c.pc \in {"seal", "commit"}
          => AllTasksCompleted(c.cur)
    BY <2>2 DEF UpToDate, JobIsOpen
  <2>5. c.task = "process_upload_tasks" /\ c.pc = "commit"
          => c.loaded.task = transcode[TaskOf(c.cur)].status
    BY <2>2 DEF Cur
  <2> QED
    BY <2>1, <2>2, <2>3, <2>4, <2>5, MoveView
<1> QED
  BY <1>1, <1>2 DEF Acquire

LEMMA LockingView ==
  ASSUME OneWorker, TypeOK, NEW w \in Worker, UpToDate(ctx[w]), LockItem(w) \/ LockCommit(w)
  PROVE  ViewInv'
<1>1. CASE LockItem(w)
  <2>1. UNCHANGED db /\ ctx[w].pc = "lock"
    BY <1>1 DEF LockItem
  <2>2. PICK state \in {"PROCESSING", "COMMITTING"}, next \in {"publish", "work"} :
             Acquire(w, state, next, NotLoaded)
    BY <1>1 DEF LockItem
  <2> QED
    BY <2>1, <2>2, AcquireView DEF Working
<1>2. CASE LockCommit(w)
  <2>1. UNCHANGED db /\ ctx[w].pc = "seal"
    BY <1>2 DEF LockCommit
  <2>2. PICK loaded : /\ Acquire(w, "COMMITTING", "commit", loaded)
                      /\ ctx[w].task = "process_upload_tasks"
                           => loaded = [NotLoaded EXCEPT !.task = transcode[TaskOf(Cur(w))].status]
    BY <1>2 DEF LockCommit
  <2>3. ctx[w].task = "process_upload_tasks" => loaded.task = transcode[TaskOf(Cur(w))].status
    BY <2>2 DEF NotLoaded
  <2> QED
    BY <2>1, <2>2, <2>3, AcquireView DEF Working
<1> QED
  BY <1>1, <1>2

LEMMA ReleasingView ==
  ASSUME OneWorker, TypeOK, NEW w \in Worker, UpToDate(ctx[w]), Release(w) \/ ReleaseFails(w)
  PROVE  ViewInv'
<1> DEFINE r == ctx[w]
<1>1. PICK todo \in {{}, r.todo} : ctx' = Emptied(w, todo)
  BY DEF Release, ReleaseFails
<1> DEFINE c == [r EXCEPT !.pc = "pick", !.cur = Nil, !.todo = todo,
                          !.loaded = NotLoaded, !.held = {}]
<1>2. ctx' = [ctx EXCEPT ![w] = c]
  BY <1>1 DEF Emptied
<1>3. /\ c.task = r.task /\ c.pc = "pick" /\ c.cur = Nil /\ c.todo = todo /\ c.seen = r.seen
  BY DEF TypeOK, ContextOK, Idle
<1>4. Nil \notin r.todo
  <2>1. r.task \in TaskName
    BY DEF Release, ReleaseFails, TypeOK, ContextOK
  <2> QED
    BY <2>1, TaskTable DEF TypeOK, ContextOK
<1> HIDE DEF c
<1>5. SeenIsStored(c) /\ BatchIsWanted(c)
  BY <1>1, <1>3, <1>4 DEF UpToDate, SeenIsStored, BatchIsWanted
<1>6. HandIsWanted(c) /\ ParentsAreStored(c) /\ JobIsOpen(c)
  BY <1>3 DEF HandIsWanted, ParentsAreStored, JobIsOpen, Working
<1>7. UpToDate(c) /\ UNCHANGED db
  BY <1>5, <1>6 DEF UpToDate, Release, ReleaseFails
<1> QED
  BY <1>2, <1>7, OneView, ViewSame

LEMMA RaiseView ==
  ASSUME OneWorker, TypeOK, NEW w \in Worker, UpToDate(ctx[w]), Raise(w) \/ RaiseInRescue(w)
  PROVE  ViewInv'
<1>1. Advance(w) /\ UNCHANGED db
  BY DEF Raise, RaiseInRescue, Advance
<1>2. ctx' \in {Failed(w), Closed(w), Aborted(w)}
  BY DEF Raise, RaiseInRescue
<1>3. ctx'[w].pc \in {"rescue", "release"}
  BY <1>2 DEF Failed, Closed, Aborted, TypeOK, ContextOK, Idle
<1>4. ctx' # Goto(w, "commit") /\ ctx' # Goto(w, "seal")
  BY <1>3 DEF Goto, TypeOK, ContextOK, Idle
<1>5. ctx' = Failed(w) => ctx[w].pc \in Working \cup {"lock"}
  <2>1. CASE Raise(w)
    BY <2>1 DEF Raise, Working
  <2>2. CASE RaiseInRescue(w)
    <3>1. ctx'[w].pc = "release"
      BY <2>2 DEF RaiseInRescue, Closed, Aborted, TypeOK, ContextOK, Idle
    <3>2. Failed(w)[w].pc = "rescue"
      BY DEF Failed, TypeOK, ContextOK, Idle
    <3> QED
      BY <3>1, <3>2
  <2> QED
    BY <2>1, <2>2
<1> QED
  BY <1>1, <1>4, <1>5, AdvanceView

(* session.get of the failed item reads its row, and its parents', again.   *)
LEMMA RescueView ==
  ASSUME OneWorker, TypeOK, NEW w \in Worker, UpToDate(ctx[w]), Rescue(w) PROVE ViewInv'
<1> DEFINE r == ctx[w]
<1>0. DOMAIN r = DOMAIN Idle /\ UNCHANGED db
  BY DEF TypeOK, ContextOK, Rescue
<1>1. CASE r.task \in Retrying
  <2> DEFINE row == [x \in {Cur(w)} |-> Table(r.task)[x]]
             c == [r EXCEPT !.pc = "retry", !.loaded = Parents(w), !.seen = row]
  <2>1. ctx' = [ctx EXCEPT ![w] = c]
    BY <1>1 DEF Rescue
  <2>2. /\ c.task = r.task /\ c.cur = r.cur /\ c.todo = r.todo /\ c.seen = row
        /\ c.pc = "retry" /\ c.loaded = Parents(w)
    BY <1>0 DEF Idle
  <2> HIDE DEF c
  <2>3. SeenIsStored(c) /\ BatchIsWanted(c)
    BY <2>2 DEF UpToDate, SeenIsStored, BatchIsWanted, Cur
  <2>4. HandIsWanted(c)
    <3>1. r.pc = "rescue"
      BY DEF Rescue
    <3> QED
      BY <1>1, <2>2, <3>1 DEF UpToDate, HandIsWanted, Working
  <2>5. ParentsAreStored(c)
    BY <2>2 DEF ParentsAreStored, Parents, NotLoaded, Cur
  <2>6. JobIsOpen(c)
    BY <2>2 DEF UpToDate, JobIsOpen
  <2>7. UpToDate(c)
    BY <2>3, <2>4, <2>5, <2>6 DEF UpToDate
  <2> QED
    BY <1>0, <2>1, <2>7, OneView, ViewSame
<1>2. CASE ctx' = Closed(w)
  <2>1. Advance(w)
    BY <1>2 DEF Advance
  <2>2. ctx'[w].pc = "release"
    BY <1>2 DEF Closed, TypeOK, ContextOK, Idle
  <2>3. \A p : ctx' = Goto(w, p) => p = "release"
    BY <2>2 DEF Goto, TypeOK, ContextOK, Idle
  <2>4. ctx' # Failed(w)
    BY <2>2 DEF Failed, TypeOK, ContextOK, Idle
  <2> QED
    BY <1>0, <2>1, <2>3, <2>4, AdvanceView
<1> QED
  BY <1>1, <1>2 DEF Rescue

LEMMA LoopView ==
  ASSUME OneWorker, TypeOK, RowsInv, NEW w \in Worker, UpToDate(ctx[w]),
         Start(w) \/ LoopStep(w) \/ Crash(w)
  PROVE  ViewInv'
BY StartView, PickView, IdleView, LockingView, ReleasingView, RaiseView, RescueView DEF LoopStep

-----------------------------------------------------------------------------
(* The worker's view stays true: steps that write.                          *)

(* A commit writes the row in hand, and the session forgets all it has read. *)
LEMMA CommitView ==
  ASSUME OneWorker, TypeOK, NEW w \in Worker, UpToDate(ctx[w]),
         NEW task \in TaskName, ctx[w].task = task,
         \A x \in ctx[w].todo : x # Cur(w) =>
           /\ (Table(task)')[x].status = Table(task)[x].status
           /\ task \in JobTasks => (Table(task)')[x].published = Table(task)[x].published,
         \/ ctx' = Closed(w)
         \/ /\ ctx' = Failed(w)
            /\ task \in Retrying => Passed(task, (Table(task)')[Cur(w)]),
         task = "process_upload_tasks" => job'[JobOfTask(TaskOf(Cur(w)))].status # "COMPLETED"
  PROVE  ViewInv'
<1> DEFINE r == ctx[w]
<1>0. DOMAIN r = DOMAIN Idle
  BY DEF TypeOK, ContextOK
<1>1. PICK c : /\ ctx' = [ctx EXCEPT ![w] = c]
               /\ c.task = task /\ c.cur = r.cur /\ c.todo = r.todo /\ DOMAIN c.seen = {}
               /\ \/ c.pc = "release"
                  \/ /\ c.pc = "rescue"
                     /\ task \in Retrying => Passed(task, (Table(task)')[r.cur])
  <2>1. CASE ctx' = Closed(w)
    <3> DEFINE c == [r EXCEPT !.pc = "release", !.seen = NoRows]
    <3>1. ctx' = [ctx EXCEPT ![w] = c]
      BY <2>1 DEF Closed
    <3>2. /\ c.task = task /\ c.cur = r.cur /\ c.todo = r.todo /\ DOMAIN c.seen = {}
          /\ c.pc = "release"
      BY <1>0 DEF Idle, NoRows
    <3> HIDE DEF c
    <3> QED
      BY <3>1, <3>2
  <2>2. CASE ctx' = Failed(w) /\ (task \in Retrying => Passed(task, (Table(task)')[Cur(w)]))
    <3> DEFINE c == [r EXCEPT !.pc = "rescue", !.seen = NoRows]
    <3>1. ctx' = [ctx EXCEPT ![w] = c]
      BY <2>2 DEF Failed
    <3>2. /\ c.task = task /\ c.cur = r.cur /\ c.todo = r.todo /\ DOMAIN c.seen = {}
          /\ c.pc = "rescue"
      BY <1>0 DEF Idle, NoRows
    <3> HIDE DEF c
    <3> QED
      BY <2>2, <3>1, <3>2 DEF Cur
  <2> QED
    BY <2>1, <2>2
<1>2. SeenIsStored(c)'
  BY <1>1 DEF SeenIsStored
<1>3. BatchIsWanted(c)'
  <2>1. \A x \in r.todo : x # r.cur /\ Wanted(task, Table(task)[x])
    BY DEF UpToDate, BatchIsWanted
  <2>2. \A x \in r.todo : Wanted(task, (Table(task)')[x])
    BY <2>1 DEF Wanted, Cur, JobTasks
  <2> QED
    BY <1>1, <2>1, <2>2 DEF BatchIsWanted
<1>4. HandIsWanted(c)'
  BY <1>1 DEF HandIsWanted, Working
<1>5. ParentsAreStored(c)' /\ JobIsOpen(c)'
  BY <1>1 DEF ParentsAreStored, JobIsOpen, Cur
<1>6. UpToDate(c)'
  BY <1>2, <1>3, <1>4, <1>5 DEF UpToDate
<1> QED
  BY <1>1, <1>6, OneView

LEMMA TableOf ==
  /\ \A task \in JobTasks : Table(task) = job /\ Table(task)' = job'
  /\ LET task == "process_transcode_tasks"
     IN  Table(task) = transcode /\ Table(task)' = transcode'
  /\ LET task == "process_upload_tasks" IN Table(task) = upload /\ Table(task)' = upload'
  /\ LET task == "process_outbox_events" IN Table(task) = outbox /\ Table(task)' = outbox'
BY DEF Table, JobTasks

LEMMA BatchRows ==
  ASSUME TypeOK, NEW w \in Worker
  PROVE  /\ ctx[w].task \in JobTasks => ctx[w].todo \subseteq DOMAIN job
         /\ ctx[w].task = "process_transcode_tasks" => ctx[w].todo \subseteq DOMAIN transcode
         /\ ctx[w].task = "process_upload_tasks" => ctx[w].todo \subseteq DOMAIN upload
         /\ ctx[w].task = "process_outbox_events" => ctx[w].todo \subseteq DOMAIN outbox
BY DEF TypeOK, ContextOK, ItemIds, JobTasks

LEMMA QueuedJobsView ==
  ASSUME OneWorker, TypeOK, NEW w \in Worker, UpToDate(ctx[w]), CommitTasks(w) \/ RetryJob(w)
  PROVE  ViewInv'
<1>1. ctx[w].task = "process_queued_jobs" /\ "process_queued_jobs" \in JobTasks \cap TaskName
  BY DEF CommitTasks, RetryJob, At, TaskName, JobTasks
<1>2. Table("process_queued_jobs") = job /\ Table("process_queued_jobs")' = job'
  BY <1>1, TableOf
<1>3. ctx[w].todo \subseteq DOMAIN job
  BY <1>1, BatchRows
<1>4. CASE CommitTasks(w)
  <2>1. PICK j \in Job : j = Cur(w) /\ WriteTasks(j)
    BY <1>4, CommitTasksWrites
  <2>2. JobSet(j, "PROCESSING", job[j].published)
    BY <2>1 DEF WriteTasks
  <2>3. \A x \in ctx[w].todo : x # Cur(w) =>
          job'[x].status = job[x].status /\ job'[x].published = job[x].published
    BY <1>3, <2>1, <2>2 DEF JobSet
  <2>4. Passed("process_queued_jobs", job'[Cur(w)])
    BY <2>1, <2>2 DEF JobSet, Passed
  <2>5. ctx' = Closed(w) \/ ctx' = Failed(w)
    BY <1>4 DEF CommitTasks, AfterCommit
  <2> QED
    BY <1>1, <1>2, <2>3, <2>4, <2>5, CommitView
<1>5. CASE RetryJob(w)
  <2>1. \A x \in ctx[w].todo : x # Cur(w) => job'[x] = job[x]
    BY <1>3, <1>5, Tables DEF RetryJob, IsTable
  <2>2. ctx' = Closed(w)
    BY <1>5 DEF RetryJob
  <2> QED
    BY <1>1, <1>2, <2>1, <2>2, CommitView
<1> QED
  BY <1>4, <1>5

LEMMA TranscodeTasksView ==
  ASSUME OneWorker, TypeOK, NEW w \in Worker, UpToDate(ctx[w]),
         CommitUpload(w) \/ RetryTranscode(w)
  PROVE  ViewInv'
<1> DEFINE task == "process_transcode_tasks"
<1>1. ctx[w].task = task /\ task \in TaskName
  BY DEF CommitUpload, RetryTranscode, At, TaskName, Retrying
<1>2. Table(task) = transcode /\ Table(task)' = transcode'
  BY TableOf
<1>3. ctx[w].todo \subseteq DOMAIN transcode /\ task \notin JobTasks
  BY <1>1, BatchRows DEF JobTasks
<1>4. CASE CommitUpload(w)
  <2>1. PICK t \in TaskId : t = Cur(w) /\ WriteUpload(t)
    BY <1>4, CommitUploadWrites
  <2>2. TaskSet(t, "PROCESSING")
    BY <2>1 DEF WriteUpload
  <2>3. \A x \in ctx[w].todo : x # Cur(w) => transcode'[x].status = transcode[x].status
    BY <1>3, <2>1, <2>2 DEF TaskSet
  <2>4. Passed(task, transcode'[Cur(w)])
    BY <2>1, <2>2 DEF TaskSet, Passed
  <2>5. ctx' = Closed(w) \/ ctx' = Failed(w)
    BY <1>4 DEF CommitUpload, AfterCommit
  <2> HIDE DEF task
  <2>6. task # "process_upload_tasks"
    BY DEF task
  <2> QED
    BY <1>1, <1>2, <1>3, <2>3, <2>4, <2>5, <2>6, CommitView
<1>5. CASE RetryTranscode(w)
  <2>1. \A x \in ctx[w].todo : x # Cur(w) => transcode'[x] = transcode[x]
    BY <1>3, <1>5, Tables DEF RetryTranscode, IsTable
  <2>2. ctx' = Closed(w)
    BY <1>5 DEF RetryTranscode
  <2> HIDE DEF task
  <2>3. task # "process_upload_tasks"
    BY DEF task
  <2> QED
    BY <1>1, <1>2, <1>3, <2>1, <2>2, <2>3, CommitView
<1> QED
  BY <1>4, <1>5

LEMMA UploadTasksView ==
  ASSUME OneWorker, TypeOK, NEW w \in Worker, UpToDate(ctx[w]),
         CommitUploaded(w) \/ RetryUpload(w)
  PROVE  ViewInv'
<1> DEFINE task == "process_upload_tasks"
<1>1. ctx[w].task = task /\ task \in TaskName
  BY DEF CommitUploaded, RetryUpload, At, TaskName, Retrying
<1>2. Table(task) = upload /\ Table(task)' = upload'
  BY TableOf
<1>3. ctx[w].todo \subseteq DOMAIN upload /\ task \notin JobTasks
  BY <1>1, BatchRows DEF JobTasks
<1>4. CASE CommitUploaded(w)
  <2>1. PICK u \in UploadId : u = Cur(w) /\ WriteUploaded(u)
    BY <1>4, CommitUploadedWrites
  <2>2. UploadSet(u, "COMPLETED")
    BY <2>1 DEF WriteUploaded
  <2>3. \A x \in ctx[w].todo : x # Cur(w) => upload'[x].status = upload[x].status
    BY <1>3, <2>1, <2>2 DEF UploadSet
  <2>4. Passed(task, upload'[Cur(w)])
    BY <2>1, <2>2 DEF UploadSet, Passed
  <2>5. ctx' = Closed(w) \/ ctx' = Failed(w)
    BY <1>4 DEF CommitUploaded, AfterCommit
  <2>6. job'[JobOfTask(TaskOf(Cur(w)))].status # "COMPLETED"
    BY <1>4, <2>1 DEF WriteUploaded, CommitUploaded
  <2> HIDE DEF task
  <2> QED
    BY <1>1, <1>2, <1>3, <2>3, <2>4, <2>5, <2>6, CommitView
<1>5. CASE RetryUpload(w)
  <2>1. \A x \in ctx[w].todo : x # Cur(w) => upload'[x] = upload[x]
    BY <1>3, <1>5, Tables DEF RetryUpload, IsTable
  <2>2. ctx' = Closed(w)
    BY <1>5 DEF RetryUpload
  <2>3. job'[JobOfTask(TaskOf(Cur(w)))].status # "COMPLETED"
    <3>1. PICK u, j : u = Cur(w) /\ j = JobOfTask(TaskOf(u))
      OBVIOUS
    <3>2. Cur(w) \in ItemIds(task) /\ Cur(w) # Nil
      BY <1>5, AtWork, InnerPcs, TaskTable DEF RetryUpload, TaskName, Retrying
    <3>3. u \in DOMAIN upload
      BY <3>1, <3>2 DEF ItemIds, JobTasks
    <3>4. j \in DOMAIN job
      BY <3>1, <3>3 DEF TypeOK, TablesOK
    <3>5. job[j].status # "COMPLETED"
      BY <1>1, <3>1, <3>2 DEF UpToDate, JobIsOpen, Cur
    <3>6. \/ job' = [job EXCEPT ![j].status = Assign(@, ctx[w].loaded.job, "FAILED")]
          \/ job' = job
      BY <1>5, <3>1 DEF RetryUpload
    <3>7. job'[j].status # "COMPLETED"
      BY <3>4, <3>5, <3>6, Tables DEF IsTable, JobRow, Assign
    <3> QED
      BY <3>1, <3>7
  <2> HIDE DEF task
  <2> QED
    BY <1>1, <1>2, <1>3, <2>1, <2>2, <2>3, CommitView
<1> QED
  BY <1>4, <1>5

LEMMA CompletedJobsView ==
  ASSUME OneWorker, TypeOK, NEW w \in Worker, UpToDate(ctx[w]),
         CommitCompleted(w) \/ ProbeFails(w) \/ AnnounceCompleted(w) \/ AnnounceFailed(w)
  PROVE  ViewInv'
<1>1. PICK task \in JobTasks \ Retrying : ctx[w].task = task
  BY DEF CommitCompleted, ProbeFails, AnnounceCompleted, AnnounceFailed, At, JobTasks, Retrying
<1>2. /\ Table(task) = job /\ Table(task)' = job' /\ task \in TaskName
      /\ task # "process_upload_tasks"
  BY TableOf DEF TaskName, Retrying
<1>3. ctx[w].todo \subseteq DOMAIN job
  BY <1>1, BatchRows
<1>4. PICK s, p : JobSet(Cur(w), s, p)
  <2>1. CASE CommitCompleted(w)
    BY <2>1, CommitCompletedWrites DEF WriteCompleted
  <2>2. CASE ProbeFails(w)
    BY <2>2, ProbeFailsWrites DEF WriteFailure
  <2>3. CASE AnnounceCompleted(w) \/ AnnounceFailed(w)
    BY <2>3, AnnouncementWrites DEF WriteAnnouncement
  <2> QED
    BY <2>1, <2>2, <2>3
<1>5. \A x \in ctx[w].todo : x # Cur(w) =>
        job'[x].status = job[x].status /\ job'[x].published = job[x].published
  BY <1>3, <1>4 DEF JobSet
<1>6. ctx' = Closed(w) \/ ctx' = Failed(w)
  BY DEF CommitCompleted, ProbeFails, AnnounceCompleted, AnnounceFailed, CommitAnnouncement,
         AfterCommit
<1> QED
  BY <1>1, <1>2, <1>5, <1>6, CommitView

LEMMA OutboxEventsView ==
  ASSUME OneWorker, TypeOK, NEW w \in Worker, UpToDate(ctx[w]),
         CommitProcessed(w) \/ RetryEvent(w)
  PROVE  ViewInv'
<1> DEFINE task == "process_outbox_events"
<1>1. ctx[w].task = task /\ task \in TaskName
  BY DEF CommitProcessed, RetryEvent, At, TaskName, Retrying
<1>2. Table(task) = outbox /\ Table(task)' = outbox'
  BY TableOf
<1>3. ctx[w].todo \subseteq DOMAIN outbox /\ task \notin JobTasks
  BY <1>1, BatchRows DEF JobTasks
<1>4. CASE CommitProcessed(w)
  <2>1. PICK o \in EventId : o = Cur(w) /\ WriteProcessed(o)
    BY <1>4, CommitProcessedWrites
  <2>2. EventSet(o, "PROCESSED")
    BY <2>1 DEF WriteProcessed
  <2>3. \A x \in ctx[w].todo : x # Cur(w) => outbox'[x].status = outbox[x].status
    BY <1>3, <2>1, <2>2 DEF EventSet
  <2>4. Passed(task, outbox'[Cur(w)])
    BY <2>1, <2>2 DEF EventSet, Passed
  <2>5. ctx' = Closed(w) \/ ctx' = Failed(w)
    BY <1>4 DEF CommitProcessed, AfterCommit
  <2> HIDE DEF task
  <2>6. task # "process_upload_tasks"
    BY DEF task
  <2> QED
    BY <1>1, <1>2, <1>3, <2>3, <2>4, <2>5, <2>6, CommitView
<1>5. CASE RetryEvent(w)
  <2>1. \A x \in ctx[w].todo : x # Cur(w) => outbox'[x] = outbox[x]
    BY <1>3, <1>5, Tables DEF RetryEvent, IsTable
  <2>2. ctx' = Closed(w)
    BY <1>5 DEF RetryEvent
  <2> HIDE DEF task
  <2>3. task # "process_upload_tasks"
    BY DEF task
  <2> QED
    BY <1>1, <1>2, <1>3, <2>1, <2>2, <2>3, CommitView
<1> QED
  BY <1>4, <1>5

LEMMA TaskStepView ==
  ASSUME OneWorker, TypeOK, NEW w \in Worker, UpToDate(ctx[w]), TaskStep(w) PROVE ViewInv'
<1>1. CASE Works(w)
  BY <1>1, WorkView
<1> QED
  BY <1>1, QueuedJobsView, TranscodeTasksView, UploadTasksView, CompletedJobsView,
     OutboxEventsView
     DEF TaskStep, QueuedJobsStep, TranscodeTasksStep, UploadTasksStep, CompletedJobsStep,
         FailedJobsStep, OutboxEventsStep, Works

(* Rows that arrive, and retry_after that passes, change nothing in view.   *)
RowsStay ==
  \A task \in TaskName : \A x \in DOMAIN Table(task) :
    /\ (Table(task)')[x].status = Table(task)[x].status
    /\ (Table(task)')[x].retries = Table(task)[x].retries
    /\ task \in JobTasks => (Table(task)')[x].published = Table(task)[x].published

LEMMA StillView ==
  ASSUME TypeOK, ViewInv, UNCHANGED ctx, RowsStay, SameTasks, SameEvents,
         \A j \in DOMAIN job :
           job'[j].status = job[j].status /\ job'[j].published = job[j].published
  PROVE  ViewInv'
<1> SUFFICES ASSUME NEW w \in Worker PROVE UpToDate(ctx[w])'
  BY DEF ViewInv
<1>1. PICK c : c = ctx[w] /\ c = ctx'[w]
  OBVIOUS
<1>2. UpToDate(c) /\ ContextOK(c)
  BY <1>1 DEF ViewInv, TypeOK
<1>3. CASE c.task = Nil
  <2>1. c.cur = Nil /\ c.pc = "idle" /\ c.todo = {} /\ DOMAIN c.seen = {}
    BY <1>2, <1>3, StoreAssumption
       DEF ContextOK, IsTable, ItemIds, TaskName, Retrying, JobTasks
  <2>2. UpToDate(c)'
    BY <1>3, <2>1, StoreAssumption
       DEF UpToDate, SeenIsStored, BatchIsWanted, HandIsWanted, ParentsAreStored, JobIsOpen,
           Working, TaskName, Retrying
  <2> QED
    BY <1>1, <2>2
<1>4. CASE c.task \in TaskName
  <2>1. DOMAIN Table(c.task) = ItemIds(c.task)
    BY <1>4, TaskTable
  <2>2. /\ DOMAIN c.seen \subseteq ItemIds(c.task) /\ c.todo \subseteq ItemIds(c.task)
        /\ c.cur # Nil => c.cur \in ItemIds(c.task)
        /\ c.pc \notin {"idle", "pick"} => c.cur # Nil
    BY <1>2 DEF ContextOK, IsTable
  <2>3. SeenIsStored(c)'
    BY <1>2, <1>4, <2>1, <2>2 DEF UpToDate, SeenIsStored, RowsStay
  <2>4. ASSUME NEW x \in ItemIds(c.task)
        PROVE  /\ Wanted(c.task, Table(c.task)[x]) => Wanted(c.task, (Table(c.task)')[x])
               /\ Passed(c.task, Table(c.task)[x]) => Passed(c.task, (Table(c.task)')[x])
    BY <1>4, <2>1, <2>4 DEF RowsStay, Wanted, Passed, JobTasks
  <2>5. BatchIsWanted(c)' /\ HandIsWanted(c)'
    <3>1. BatchIsWanted(c)'
      BY <1>2, <2>2, <2>4 DEF UpToDate, BatchIsWanted
    <3>2. HandIsWanted(c)'
      <4>1. c.pc \in Working \cup {"lock", "rescue", "retry"} => c.cur \in ItemIds(c.task)
        BY <2>2 DEF Working
      <4> QED
        BY <1>2, <2>4, <4>1 DEF UpToDate, HandIsWanted
    <3> QED
      BY <3>1, <3>2
  <2>6. ParentsAreStored(c)'
    <3>1. ASSUME c.task = "process_transcode_tasks", c.pc = "retry"
          PROVE  JobOfTask(c.cur) \in DOMAIN job
      BY <2>2, <3>1 DEF ItemIds, JobTasks, TypeOK, TablesOK
    <3>2. ASSUME c.task = "process_upload_tasks", c.pc \in {"commit", "retry"}
          PROVE  TaskOf(c.cur) \in DOMAIN transcode /\ JobOfTask(TaskOf(c.cur)) \in DOMAIN job
      BY <2>2, <3>2 DEF ItemIds, JobTasks, TypeOK, TablesOK
    <3>3. ASSUME c.task = "process_outbox_events", c.pc = "retry"
          PROVE  JobOfEvent(c.cur) \in DOMAIN job
      BY <2>2, <3>3 DEF ItemIds, JobTasks, TypeOK, TablesOK
    <3> QED
      BY <1>2, <3>1, <3>2, <3>3 DEF UpToDate, ParentsAreStored, SameTasks
  <2>7. JobIsOpen(c)'
    <3>1. ASSUME c.task = "process_upload_tasks", c.cur # Nil
          PROVE  JobOfTask(TaskOf(c.cur)) \in DOMAIN job
      BY <2>2, <3>1 DEF ItemIds, JobTasks, TypeOK, TablesOK
    <3>2. AllTasksCompleted(c.cur) => AllTasksCompleted(c.cur)'
      <4>1. TasksOf(c.cur)' = TasksOf(c.cur)
        BY SameTasksOf
      <4>2. \A t \in TasksOf(c.cur) : transcode'[t].status = transcode[t].status
        BY DEF SameTasks, TasksOf
      <4> QED
        BY <4>1, <4>2 DEF AllTasksCompleted
    <3> QED
      BY <1>2, <3>1, <3>2 DEF UpToDate, JobIsOpen
  <2>8. UpToDate(c)'
    BY <2>3, <2>5, <2>6, <2>7 DEF UpToDate
  <2> QED
    BY <1>1, <2>8
<1> QED
  BY <1>2, <1>3, <1>4 DEF ContextOK

LEMMA ArrivalView == ASSUME TypeOK, ViewInv, NEW j \in Job, JobArrives(j) PROVE ViewInv'
<1>1. WriteArrival(j)
  BY ArrivalWrites
<1>2. \A k \in DOMAIN job : job'[k] = job[k]
  BY DEF JobArrives, Insert
<1>3. RowsStay
  <2>1. \A task \in TaskName \ JobTasks : Table(task)' = Table(task)
    BY DEF Table, JobArrives, TaskName, Retrying
  <2>2. \A task \in JobTasks : Table(task) = job /\ Table(task)' = job'
    BY TableOf
  <2> QED
    BY <1>2, <2>1, <2>2 DEF RowsStay
<1> QED
  BY <1>1, <1>2, <1>3, StillView DEF WriteArrival, JobArrives

LEMMA WindowView == ASSUME TypeOK, ViewInv, RetryWindowOpens PROVE ViewInv'
<1>1. NothingWritten
  BY WindowWrites
<1>2. /\ \A j \in DOMAIN job : job'[j].retries = job[j].retries
      /\ \A t \in DOMAIN transcode : transcode'[t].retries = transcode[t].retries
      /\ \A u \in DOMAIN upload : upload'[u].retries = upload[u].retries
      /\ \A o \in DOMAIN outbox : outbox'[o].retries = outbox[o].retries
  <2>1. CASE /\ \E j \in DOMAIN job : job' = [job EXCEPT ![j].due = TRUE]
             /\ UNCHANGED <<transcode, upload, outbox>>
    BY <2>1, Tables DEF IsTable, JobRow
  <2>2. CASE /\ \E t \in DOMAIN transcode : transcode' = [transcode EXCEPT ![t].due = TRUE]
             /\ UNCHANGED <<job, upload, outbox>>
    BY <2>2, Tables DEF IsTable, TaskRow
  <2>3. CASE /\ \E u \in DOMAIN upload : upload' = [upload EXCEPT ![u].due = TRUE]
             /\ UNCHANGED <<job, transcode, outbox>>
    BY <2>3, Tables DEF IsTable, UploadRow
  <2>4. CASE /\ \E o \in DOMAIN outbox : outbox' = [outbox EXCEPT ![o].due = TRUE]
             /\ UNCHANGED <<job, transcode, upload>>
    BY <2>4, Tables DEF IsTable, EventRow
  <2> QED
    BY <2>1, <2>2, <2>3, <2>4 DEF RetryWindowOpens
<1>3. RowsStay
  <2>1. \A task \in TaskName : \/ task \in JobTasks
                               \/ task = "process_transcode_tasks"
                               \/ task = "process_upload_tasks"
                               \/ task = "process_outbox_events"
    BY DEF TaskName, Retrying, JobTasks
  <2>2. \A task \in JobTasks : \A x \in DOMAIN Table(task) :
          /\ (Table(task)')[x].status = Table(task)[x].status
          /\ (Table(task)')[x].retries = Table(task)[x].retries
          /\ (Table(task)')[x].published = Table(task)[x].published
    BY <1>1, <1>2, TableOf DEF NothingWritten, SameJobs
  <2>3. \A task \in {"process_transcode_tasks", "process_upload_tasks", "process_outbox_events"} :
          task \notin JobTasks /\ \A x \in DOMAIN Table(task) :
            /\ (Table(task)')[x].status = Table(task)[x].status
            /\ (Table(task)')[x].retries = Table(task)[x].retries
    BY <1>1, <1>2, TableOf DEF NothingWritten, SameTasks, SameUploads, SameEvents, JobTasks
  <2> QED
    BY <2>1, <2>2, <2>3 DEF RowsStay
<1> QED
  BY <1>1, <1>3, StillView DEF NothingWritten, SameJobs, RetryWindowOpens

SoloInv == ViewInv /\ RowsInv

LEMMA StepSolo ==
  ASSUME OneWorker PROVE TypeOK /\ SoloInv /\ [Next]_vars => SoloInv'
<1> SUFFICES ASSUME TypeOK, SoloInv, [Next]_vars PROVE SoloInv'
  OBVIOUS
<1>1. ViewInv /\ RowsInv
  BY DEF SoloInv
<1>2. RowsInv'
  <2>1. Write
    BY <1>1, StepWrites
  <2> QED
    BY <1>1, <2>1, WriteRows
<1> SUFFICES ViewInv'
  BY <1>2 DEF SoloInv
<1>3. ASSUME NEW w \in Worker, Start(w) \/ LoopStep(w) \/ TaskStep(w) \/ Crash(w) PROVE ViewInv'
  BY <1>1, <1>3, LoopView, TaskStepView DEF ViewInv
<1>4. CASE (\E j \in Job : JobArrives(j)) \/ RetryWindowOpens
  <2>1. CASE RetryWindowOpens
    BY <1>1, <2>1, WindowView
  <2>2. ASSUME NEW j \in Job, JobArrives(j) PROVE ViewInv'
    BY <1>1, <2>2, ArrivalView
  <2> QED
    BY <1>4, <2>1, <2>2
<1>5. CASE Expire \/ UNCHANGED vars
  <2> SUFFICES ASSUME NEW w \in Worker PROVE UpToDate(ctx[w])'
    BY DEF ViewInv
  <2>1. UNCHANGED ctx /\ UNCHANGED db
    BY <1>5 DEF Expire, vars, db
  <2>2. PICK c : c = ctx[w] /\ c = ctx'[w]
    BY <2>1
  <2>3. UpToDate(c)
    BY <1>1, <2>2 DEF ViewInv
  <2>4. UpToDate(c)'
    BY <2>1, <2>3, ViewSame
  <2> QED
    BY <2>2, <2>4
<1> QED
  BY <1>3, <1>4, <1>5 DEF Next

LEMMA InitSolo == Init => SoloInv
<1> SUFFICES ASSUME Init PROVE SoloInv
  OBVIOUS
<1>1. ViewInv
  BY IdleUpToDate DEF Init, ViewInv
<1>2. RowsInv
  BY DEF Init, RowsInv, JobsInv, TasksInv, EventsInv, NoRows
<1> QED
  BY <1>1, <1>2 DEF SoloInv

LEMMA SoloCorrect == ASSUME OneWorker PROVE Spec => []SoloInv
<1>1. Init => SoloInv
  BY InitSolo
<1>2. TypeOK /\ SoloInv /\ [Next]_vars => SoloInv'
  BY StepSolo
<1> QED
  BY <1>1, <1>2, TypeCorrect, PTL DEF Spec

-----------------------------------------------------------------------------
(* What the rows in step say.                                               *)

LEMMA AtMostOne ==
  ASSUME NEW S, \A x, y \in S : x = y PROVE Cardinality(S) <= 1
<1>1. CASE S = {}
  BY <1>1, FS_EmptySet
<1>2. CASE S # {}
  <2>1. PICK x : x \in S
    BY <1>2
  <2>2. S = {x}
    BY <2>1
  <2> QED
    BY <2>2, FS_Singleton
<1> QED
  BY <1>1, <1>2

LEMMA BatchSize ==
  ASSUME NEW j, NEW c PROVE Cardinality({<<j, c, s>> : s \in Segment}) = NumSegments
<1> DEFINE T == {<<j, c, s>> : s \in Segment}
           f == [s \in 1..NumSegments |-> <<j, c, s>>]
<1>1. f \in [1..NumSegments -> T]
  BY DEF Segment
<1>2. \A s, r \in 1..NumSegments : f[s] = f[r] => s = r
  OBVIOUS
<1>3. \A t \in T : \E s \in 1..NumSegments : f[s] = t
  BY DEF Segment
<1> HIDE DEF f, T
<1>4. f \in Bijection(1..NumSegments, T)
  BY <1>1, <1>2, <1>3 DEF Bijection, Injection, Surjection, IsInjective
<1>5. ExistsBijection(1..NumSegments, T) /\ NumSegments \in Nat
  BY <1>4, StoreAssumption DEF ExistsBijection
<1>6. Cardinality(T) = NumSegments
  BY <1>5, FS_CountingElements
<1> QED
  BY <1>6 DEF T

(* NoDuplicateRows: with one worker, no retry, no crash after a commit and    *)
(* no orphaned lock ever makes process_queued_jobs cut a job twice,          *)
(* process_transcode_tasks insert a second upload task, or a job have two    *)
(* live events, however many jobs, segments and failures there are.         *)
THEOREM RowsStaySingle ==
  ASSUME OneWorker PROVE Spec => []NoDuplicateRows
<1>1. ASSUME TypeOK, SoloInv PROVE NoDuplicateRows
  <2>1. JobsInv /\ TasksInv /\ EventsInv
    BY <1>1 DEF SoloInv, RowsInv
  <2>2. ASSUME NEW j \in DOMAIN job PROVE Cardinality(TasksOf(j)) \in {0, NumSegments}
    <3>1. CASE TasksOf(j) = {}
      BY <3>1, FS_EmptySet
    <3>2. CASE TasksOf(j) # {}
      <4>1. PICK c \in Copy : TasksOf(j) = {<<j, c, s>> : s \in Segment}
        BY <2>1, <3>2 DEF JobsInv
      <4> QED
        BY <4>1, BatchSize
    <3> QED
      BY <3>1, <3>2
  <2>3. ASSUME NEW j \in DOMAIN job
        PROVE  Cardinality({o \in EventsOf(j) : outbox[o].status # "FAILED"}) <= 1
    <3>1. \A o, p \in {o \in EventsOf(j) : outbox[o].status # "FAILED"} : o = p
      BY <2>1 DEF EventsInv, EventsOf
    <3> QED
      BY <3>1, AtMostOne
  <2>4. ASSUME NEW t \in DOMAIN transcode PROVE Cardinality(UploadsOf(t)) <= 1
    <3>1. \A u, x \in UploadsOf(t) : u = x
      BY <2>1 DEF TasksInv
    <3> QED
      BY <3>1, AtMostOne
  <2> QED
    BY <2>2, <2>3, <2>4 DEF NoDuplicateRows
<1> QED
  BY <1>1, SoloCorrect, TypeCorrect, PTL

(* OutcomeAnnounced: with one worker, the task that announces a COMPLETED job *)
(* uses job.completed, of a FAILED one job.failed, and no later step of any  *)
(* task changes the row without the event or the event without the row.     *)
THEOREM OutcomeTold ==
  ASSUME OneWorker PROVE Spec => []OutcomeAnnounced
<1>1. ASSUME TypeOK, SoloInv, PublishedHasLiveEvent PROVE OutcomeAnnounced
  <2> SUFFICES ASSUME NEW j \in DOMAIN job, job[j].published
               PROVE  \E o \in EventsOf(j) :
                        /\ outbox[o].status # "FAILED"
                        /\ \/ job[j].status = "COMPLETED" /\ outbox[o].topic = "job.completed"
                           \/ job[j].status = "FAILED" /\ outbox[o].topic = "job.failed"
    BY DEF OutcomeAnnounced
  <2>1. PICK o \in EventsOf(j) : outbox[o].status # "FAILED"
    BY <1>1 DEF PublishedHasLiveEvent
  <2>2. o \in DOMAIN outbox /\ JobOfEvent(o) = j
    BY <2>1 DEF EventsOf
  <2>3. outbox[o].topic = IF job[j].status = "COMPLETED" THEN "job.completed" ELSE "job.failed"
    BY <1>1, <2>1, <2>2 DEF SoloInv, RowsInv, EventsInv
  <2>4. job[j].status \in {"COMPLETED", "FAILED"}
    BY <1>1 DEF SoloInv, RowsInv, JobsInv
  <2> QED
    BY <2>1, <2>3, <2>4
<1> QED
  BY <1>1, SoloCorrect, PublishedStaysLive, TypeCorrect, PTL

(* CompletedTaskHasUpload: with one worker, a COMPLETED transcode task has a  *)
(* COMPLETED upload task: the commit of process_upload_tasks writes both     *)
(* rows, and the bookkeeping of a failure after it takes both back.          *)
THEOREM UploadsBackTasks ==
  ASSUME OneWorker PROVE Spec => []CompletedTaskHasUpload
<1>1. SoloInv => CompletedTaskHasUpload
  BY DEF SoloInv, RowsInv, TasksInv, CompletedTaskHasUpload
<1> QED
  BY <1>1, SoloCorrect, PTL

-----------------------------------------------------------------------------
(* The rows of the jobs implement JobLifecycle.                             *)

StatusOf == [j \in Job |-> IF j \in DOMAIN job THEN job[j].status ELSE "ABSENT"]
Told == [j \in Job |-> Announced(j)]

(* The steps of JobLifecycle, in terms of these.                            *)
LEMMA LifecycleMoves ==
  ASSUME NEW j \in Job
  PROVE  /\ \A from, to : Lifecycle!Move(j, from, to) <=>
              StatusOf[j] = from /\ StatusOf' = [StatusOf EXCEPT ![j] = to] /\ Told' = Told
         /\ Lifecycle!Fail(j) <=>
              /\ StatusOf[j] \in {"QUEUED", "PROCESSING", "COMPLETED"} \/ Told[j]
              /\ StatusOf' = [StatusOf EXCEPT ![j] = "FAILED"]
              /\ Told' = [Told EXCEPT ![j] = FALSE]
         /\ Lifecycle!Announce(j) <=>
              /\ StatusOf[j] \in {"COMPLETED", "FAILED"} /\ ~Told[j]
              /\ Told' = [Told EXCEPT ![j] = TRUE] /\ StatusOf' = StatusOf
BY DEF StatusOf, Told, Lifecycle!Move, Lifecycle!Fail, Lifecycle!Announce

LEMMA JobFlags ==
  ASSUME TypeOK
  PROVE  /\ DOMAIN job \subseteq Job
         /\ \A j \in DOMAIN job : job[j].published \in BOOLEAN
BY DEF TypeOK, TablesOK, IsTable, JobRow

LEMMA JobSetSteps ==
  ASSUME TypeOK, TypeOK', NEW j \in Job, NEW s, NEW p \in BOOLEAN, JobSet(j, s, p)
  PROVE  /\ StatusOf[j] = job[j].status /\ Told[j] = job[j].published
         /\ StatusOf' = [StatusOf EXCEPT ![j] = s]
         /\ Told' = [Told EXCEPT ![j] = p]
<1>1. j \in DOMAIN job /\ job[j].published \in BOOLEAN
  BY JobFlags DEF JobSet
<1>2. StatusOf[j] = job[j].status /\ Told[j] = job[j].published
  BY <1>1 DEF StatusOf, Told, Announced
<1>3. StatusOf' = [StatusOf EXCEPT ![j] = s]
  BY DEF StatusOf, JobSet
<1>4. \A k \in Job : Announced(k)' = IF k = j THEN p ELSE Announced(k)
  BY <1>1, JobFlags DEF Announced, JobSet
<1>5. Told' = [Told EXCEPT ![j] = p]
  BY <1>4 DEF Told
<1> QED
  BY <1>2, <1>3, <1>5

LEMMA SameJobsStutter ==
  ASSUME TypeOK, TypeOK', SameJobs PROVE StatusOf' = StatusOf /\ Told' = Told
<1>1. StatusOf' = StatusOf
  BY DEF StatusOf, SameJobs
<1>2. \A k \in Job : Announced(k)' = Announced(k)
  BY JobFlags DEF Announced, SameJobs
<1> QED
  BY <1>1, <1>2 DEF Told

(* A job that fails, or that has failed already.                            *)
LEMMA FailSteps ==
  ASSUME TypeOK, TypeOK', JobsInv, NEW j \in Job, JobSet(j, "FAILED", job[j].published),
         job[j].status = "COMPLETED" => ~job[j].published
  PROVE  Lifecycle!Fail(j) \/ (StatusOf' = StatusOf /\ Told' = Told)
<1>0. j \in DOMAIN job /\ job[j].published \in BOOLEAN /\ job[j].status \in JobStatus
  BY DEF JobSet, TypeOK, TablesOK, IsTable, JobRow
<1>1. /\ StatusOf[j] = job[j].status /\ Told[j] = job[j].published
      /\ StatusOf' = [StatusOf EXCEPT ![j] = "FAILED"]
      /\ Told' = [Told EXCEPT ![j] = job[j].published]
  BY <1>0, JobSetSteps
<1>2. CASE job[j].status = "FAILED"
  <2>1. StatusOf' = StatusOf /\ Told' = Told
    BY <1>1, <1>2 DEF StatusOf, Told
  <2> QED
    BY <2>1
<1>3. CASE job[j].status # "FAILED"
  <2>1. ~job[j].published /\ job[j].status \in {"QUEUED", "PROCESSING", "COMPLETED"}
    BY <1>0, <1>3 DEF JobsInv, JobStatus
  <2>2. Told' = [Told EXCEPT ![j] = FALSE]
    BY <1>0, <1>1, <2>1
  <2> QED
    BY <1>1, <2>1, <2>2, LifecycleMoves
<1> QED
  BY <1>2, <1>3

LEMMA WriteMoves ==
  ASSUME TypeOK, TypeOK', RowsInv, Write
  PROVE  (\E j \in Job : \/ Lifecycle!Move(j, "ABSENT", "QUEUED")
                         \/ Lifecycle!Move(j, "QUEUED", "PROCESSING")
                         \/ Lifecycle!Move(j, "PROCESSING", "COMPLETED")
                         \/ Lifecycle!Fail(j)
                         \/ Lifecycle!Announce(j))
         \/ (StatusOf' = StatusOf /\ Told' = Told)
<1>0. JobsInv /\ TasksInv /\ EventsInv
  BY DEF RowsInv
<1>1. CASE SameJobs
  BY <1>1, SameJobsStutter
<1>2. ASSUME NEW j \in Job, WriteArrival(j) PROVE Lifecycle!Move(j, "ABSENT", "QUEUED")
  <2>1. StatusOf[j] = "ABSENT" /\ StatusOf' = [StatusOf EXCEPT ![j] = "QUEUED"]
    BY <1>2 DEF StatusOf, WriteArrival
  <2>2. \A k \in Job : Announced(k)' = Announced(k)
    BY <1>2, JobFlags DEF Announced, WriteArrival
  <2>3. Told' = Told
    BY <2>2 DEF Told
  <2> QED
    BY <2>1, <2>3, LifecycleMoves
<1>3. ASSUME NEW j \in Job, NEW from, NEW to,
             JobSet(j, to, job[j].published), job[j].status = from
      PROVE  Lifecycle!Move(j, from, to)
  <2>1. /\ StatusOf[j] = from
        /\ StatusOf' = [StatusOf EXCEPT ![j] = to]
        /\ Told' = [Told EXCEPT ![j] = Told[j]]
    BY <1>3, JobSetSteps, JobFlags DEF JobSet
  <2>2. Told' = Told
    BY <2>1 DEF Told
  <2> QED
    BY <2>1, <2>2, LifecycleMoves
<1>4. ASSUME NEW j \in Job, WriteTasks(j) PROVE Lifecycle!Move(j, "QUEUED", "PROCESSING")
  BY <1>3, <1>4 DEF WriteTasks
<1>5. ASSUME NEW j \in Job, WriteCompleted(j)
      PROVE  Lifecycle!Move(j, "PROCESSING", "COMPLETED")
  BY <1>3, <1>5 DEF WriteCompleted
<1>6. ASSUME NEW j \in Job, WriteFailure(j)
      PROVE  Lifecycle!Fail(j) \/ (StatusOf' = StatusOf /\ Told' = Told)
  BY <1>0, <1>6, FailSteps DEF WriteFailure
<1>7. ASSUME NEW t \in TaskId, WriteTaskFailure(t)
      PROVE  Lifecycle!Fail(JobOfTask(t)) \/ (StatusOf' = StatusOf /\ Told' = Told)
  <2>1. t \in TasksOf(JobOfTask(t)) /\ JobOfTask(t) \in Job
    BY <1>7 DEF WriteTaskFailure, TaskSet, TasksOf, JobOfTask, TaskId
  <2>2. JobOfTask(t) \in DOMAIN job /\ job[JobOfTask(t)].status # "COMPLETED"
    BY <1>0, <1>7, <2>1 DEF WriteTaskFailure, JobSet, JobsInv
  <2> QED
    BY <1>0, <1>7, <2>1, <2>2, FailSteps DEF WriteTaskFailure
<1>8. ASSUME NEW u \in UploadId, WriteUploadFailure(u)
      PROVE  \/ Lifecycle!Fail(JobOfTask(TaskOf(u)))
             \/ (StatusOf' = StatusOf /\ Told' = Told)
  <2>1. JobOfTask(TaskOf(u)) \in Job
    BY DEF UploadId, TaskOf, JobOfTask, TaskId
  <2> QED
    BY <1>0, <1>8, <2>1, FailSteps DEF WriteUploadFailure
<1>9. ASSUME NEW j \in Job, NEW topic, WriteAnnouncement(j, topic)
      PROVE  Lifecycle!Announce(j)
  <2>1. JobSet(j, job[j].status, TRUE) /\ ~job[j].published
        /\ job[j].status \in {"COMPLETED", "FAILED"}
    BY <1>9 DEF WriteAnnouncement
  <2>2. /\ StatusOf[j] = job[j].status /\ Told[j] = job[j].published
        /\ StatusOf' = [StatusOf EXCEPT ![j] = job[j].status]
        /\ Told' = [Told EXCEPT ![j] = TRUE]
    BY <2>1, JobSetSteps
  <2>3. StatusOf' = StatusOf
    BY <2>2 DEF StatusOf
  <2> QED
    BY <2>1, <2>2, <2>3, LifecycleMoves
<1>10. ASSUME NEW o \in EventId, WriteEventFailure(o) PROVE Lifecycle!Fail(JobOfEvent(o))
  <2>1. JobOfEvent(o) \in Job /\ JobSet(JobOfEvent(o), "FAILED", FALSE)
    BY <1>10 DEF WriteEventFailure, EventId, JobOfEvent
  <2>2. job[JobOfEvent(o)].published
    BY <1>0, <1>10 DEF WriteEventFailure, EventSet, EventsInv
  <2>3. /\ Told[JobOfEvent(o)] = job[JobOfEvent(o)].published
        /\ StatusOf' = [StatusOf EXCEPT ![JobOfEvent(o)] = "FAILED"]
        /\ Told' = [Told EXCEPT ![JobOfEvent(o)] = FALSE]
    BY <2>1, JobSetSteps
  <2> QED
    BY <2>1, <2>2, <2>3, LifecycleMoves
<1>11. CASE \/ NothingWritten
            \/ \E t \in TaskId : WriteUpload(t)
            \/ \E u \in UploadId : WriteUploaded(u)
            \/ \E o \in EventId : WriteProcessed(o)
  <2>1. SameJobs
    BY <1>11 DEF NothingWritten, WriteUpload, WriteUploaded, WriteProcessed
  <2> QED
    BY <1>1, <2>1
<1>12. /\ \A t \in TaskId : JobOfTask(t) \in Job
       /\ \A u \in UploadId : JobOfTask(TaskOf(u)) \in Job
       /\ \A o \in EventId : JobOfEvent(o) \in Job
  BY DEF TaskId, UploadId, EventId, JobOfTask, TaskOf, JobOfEvent
<1> QED
  BY <1>2, <1>4, <1>5, <1>6, <1>7, <1>8, <1>9, <1>10, <1>11, <1>12 DEF Write

(* LifecycleKept: with one worker, whatever fails and is tried again, the     *)
(* seven tasks together take a job through its statuses as JobLifecycle      *)
(* allows: none takes it back, none revives a FAILED one, and what is        *)
(* announced is withdrawn only by failing the job.                          *)
THEOREM LifecycleImplemented ==
  ASSUME OneWorker PROVE Spec => LifecycleKept
<1>1. Init => Lifecycle!LifecycleInit
  <2> SUFFICES ASSUME Init PROVE Lifecycle!LifecycleInit
    OBVIOUS
  <2>1. DOMAIN job = {}
    BY DEF Init, NoRows
  <2> QED
    BY <2>1 DEF Lifecycle!LifecycleInit, Announced
<1>2. TypeOK /\ TypeOK' /\ SoloInv /\ [Next]_vars
        => [Lifecycle!LifecycleNext]_(Lifecycle!lifecycleVars)
  <2> SUFFICES ASSUME TypeOK, TypeOK', SoloInv, [Next]_vars
               PROVE  Lifecycle!LifecycleNext \/ UNCHANGED Lifecycle!lifecycleVars
    OBVIOUS
  <2>1. Write /\ RowsInv
    BY StepWrites DEF SoloInv
  <2>2. CASE StatusOf' = StatusOf /\ Told' = Told
    BY <2>2 DEF StatusOf, Told, Lifecycle!lifecycleVars
  <2>3. CASE \E j \in Job : \/ Lifecycle!Move(j, "ABSENT", "QUEUED")
                            \/ Lifecycle!Move(j, "QUEUED", "PROCESSING")
                            \/ Lifecycle!Move(j, "PROCESSING", "COMPLETED")
                            \/ Lifecycle!Fail(j)
                            \/ Lifecycle!Announce(j)
    BY <2>3 DEF Lifecycle!LifecycleNext
  <2> QED
    BY <2>1, <2>2, <2>3, WriteMoves
<1> QED
  BY <1>1, <1>2, SoloCorrect, TypeCorrect, PTL
     DEF Spec, LifecycleKept, Lifecycle!LifecycleSpec

=============================================================================
