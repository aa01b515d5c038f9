-------------------------- MODULE PipelineProperties --------------------------
(***************************************************************************)
(* The properties of the pipeline: first those that hold for any number of *)
(* workers, then those that hold for the one solo-pool worker that         *)
(* Dockerfile.celery starts.                                               *)
(***************************************************************************)
EXTENDS MediaPipeline

HasStatus(j, s) == j \in DOMAIN job /\ job[j].status = s
Announced(j) == j \in DOMAIN job /\ job[j].published

-----------------------------------------------------------------------------
(* Any number of workers.                                                   *)

(* PublishedHasLiveEvent: a job whose published flag is up has an event in   *)
(* the outbox that has not been given up. The flag and the event are two    *)
(* rows, written by one task and taken back by another (the flag goes down  *)
(* in the bookkeeping of process_outbox_events); were they to part, no task *)
(* would ever announce the job, as every query filters on published.        *)
PublishedHasLiveEvent ==
  \A j \in DOMAIN job :
    job[j].published => \E o \in EventsOf(j) : outbox[o].status # "FAILED"

(* While a worker is at these, the lock of the item protects its work.      *)
Working == {"work", "init", "cut", "seal", "publish", "commit"}

(* MutualExclusion: no two workers are at work on the same item: the first   *)
(* lock of the loop keeps the other out from before the work until after    *)
(* the commit, across crashes and failing releases, as long as no lock      *)
(* outlives its TTL while its worker is alive.                              *)
MutualExclusion ==
  \A w, x \in Worker :
    w # x /\ ctx[w].pc \in Working /\ ctx[x].pc \in Working => Cur(w) # Cur(x)

(* NoLeakedLock: a lock that carries a live worker's token is of the item    *)
(* that worker has in hand, so what is not that is an orphan and expires:   *)
(* no path out of the loop's body leaves a lock behind with a live owner.   *)
NoLeakedLock ==
  \A l \in locks : l.owner # Nil => Cur(l.owner) = l.id /\ l.state \in ctx[l.owner].held

(* LocksOfOthersStay: a live worker's lock is deleted by that worker or by    *)
(* its TTL, never by another worker: one that comes back after its own lock *)
(* has expired and been taken over must not release the new owner's.        *)
LocksOfOthersStay ==
  [][\A l \in locks :
       l.owner # Nil /\ l \notin locks' /\ ctx' # ctx
         => ctx'[l.owner] # ctx[l.owner]]_vars

(* RepublishedAtMostOnceEach: beyond one record per failure, an event is     *)
(* sent at most once by every worker. The check under the lock reads a row  *)
(* loaded before it, so each worker whose batch is stale does send it again *)
(* but no worker does so twice.                                             *)
RepublishedAtMostOnceEach ==
  \A o \in EventId : delivered[o] <= faults + Cardinality(Worker)

-----------------------------------------------------------------------------
(* One worker.                                                              *)

(* Every file of a video that a player needs.                               *)
Playable(v) == {v} \X Rendition \X (0..NumSegments) \subseteq bucket

(* CompletedIsPlayable: a COMPLETED job has its init segments and all its    *)
(* segments in the bucket, whatever failed and was retried on the way.      *)
CompletedIsPlayable ==
  \A j \in Job : HasStatus(j, "COMPLETED") => Playable(VideoOf[j])

(* AnnouncedIsPlayable: so has a job whose job.completed event is marked     *)
(* PROCESSED: what process_outbox_events has told the consumers stays true. *)
AnnouncedIsPlayable ==
  \A o \in DOMAIN outbox :
    outbox[o].topic = "job.completed" /\ outbox[o].status = "PROCESSED"
      => Playable(VideoOf[JobOfEvent(o)])

(* CompletedTaskHasUpload: a COMPLETED transcode task has a COMPLETED upload *)
(* task. One commit writes both rows and the bookkeeping of a failed        *)
(* attempt takes both back. Of two workers one may do that bookkeeping with *)
(* the task loaded as FAILED while the other completes both rows: it then   *)
(* has no status of the task to write, but fails the upload.                *)
CompletedTaskHasUpload ==
  \A t \in DOMAIN transcode :
    transcode[t].status = "COMPLETED" => \E u \in UploadsOf(t) : upload[u].status = "COMPLETED"

(* NoDuplicateRows: a retry, or a crash between a commit and what follows    *)
(* it, never makes a second batch of transcode tasks for a job, a second    *)
(* upload task for a transcode task, or a second live event for a job.      *)
NoDuplicateRows ==
  /\ \A j \in DOMAIN job :
       /\ Cardinality(TasksOf(j)) \in {0, NumSegments}
       /\ Cardinality({o \in EventsOf(j) : outbox[o].status # "FAILED"}) <= 1
  /\ \A t \in DOMAIN transcode : Cardinality(UploadsOf(t)) <= 1

(* OutcomeAnnounced: what a published job announces is its outcome: the live *)
(* event of a COMPLETED job is job.completed, of a FAILED job job.failed.   *)
OutcomeAnnounced ==
  \A j \in DOMAIN job :
    job[j].published =>
      \E o \in EventsOf(j) :
        /\ outbox[o].status # "FAILED"
        /\ \/ job[j].status = "COMPLETED" /\ outbox[o].topic = "job.completed"
           \/ job[j].status = "FAILED" /\ outbox[o].topic = "job.failed"

(* AnnouncedIsCleaned: the temp directories that settings name hold nothing  *)
(* of a job any more once it is published.                                  *)
AnnouncedIsCleaned ==
  \A j \in DOMAIN job :
    job[j].published =>
      \A h \in Host : LET files == disk[h][VideoOf[j]]
                      IN  ~files.video /\ ~files.init /\ files.segments = {}

(* FailedIsEmptied: when a FAILED job is announced, nothing that its          *)
(* COMPLETED upload tasks have sent is in the bucket: what one run of the   *)
(* task deletes, also after a run that failed halfway, is what the job has  *)
(* by the time it commits.                                                  *)
FailedIsEmptied ==
  [][\A j \in DOMAIN job :
       job[j].status = "FAILED" /\ ~job[j].published /\ job'[j].published
         => \A t \in TasksOf(j) :
              (\E u \in UploadsOf(t) : upload[u].status = "COMPLETED")
                => SegmentObjects(VideoOf[j], SegmentOf(t)) \cap bucket = {}]_vars

(* LifecycleKept: the rows of the jobs change as JobLifecycle allows: no     *)
(* task takes a job back to an earlier status, and FAILED is final.         *)
Lifecycle == INSTANCE JobLifecycle WITH
  status <- [j \in Job |-> IF j \in DOMAIN job THEN job[j].status ELSE "ABSENT"],
  published <- [j \in Job |-> Announced(j)]

LifecycleKept == Lifecycle!LifecycleSpec

(* OutboxKept: the rows of the outbox and the records in the topics change   *)
(* as OutboxContract allows: no record of an event that is not PENDING, no  *)
(* second record without a failure, and an event is FAILED only after all   *)
(* its attempts have failed, and stays FAILED.                              *)
Contract == INSTANCE OutboxContract WITH
  status <- [o \in EventId |-> IF o \in DOMAIN outbox THEN outbox[o].status ELSE "ABSENT"],
  records <- delivered,
  failures <- faults

OutboxKept == Contract!ContractSpec

(* SharedVideoPlayable: a COMPLETED job stays playable unless a job of the    *)
(* same video FAILED: such jobs share their objects and temp directories,   *)
(* and cleaning up after one that is announced takes files of the other,    *)
(* but only a failed job takes objects from the bucket.                     *)
SharedVideoPlayable ==
  \A j \in Job :
    /\ HasStatus(j, "COMPLETED")
    /\ \A k \in Job : VideoOf[k] = VideoOf[j] => ~HasStatus(k, "FAILED")
    => Playable(VideoOf[j])

(* JobIsDecided: a QUEUED job becomes COMPLETED or FAILED.                   *)
JobIsDecided ==
  \A j \in Job : HasStatus(j, "QUEUED") ~> HasStatus(j, "COMPLETED") \/ HasStatus(j, "FAILED")

(* CompletedIsAnnounced: a COMPLETED job is announced with an event that is  *)
(* marked PROCESSED, or fails: in spite of crashes, orphaned locks and      *)
(* lost brokers it does not stay COMPLETED and unannounced.                 *)
CompletedIsAnnounced ==
  \A j \in Job :
    HasStatus(j, "COMPLETED") ~>
      \/ HasStatus(j, "FAILED")
      \/ \E o \in EventsOf(j) : outbox[o].status = "PROCESSED"

(* EventIsSettled: a PENDING event becomes PROCESSED or FAILED, whatever     *)
(* publications, commits and workers fail: no retry window, orphaned lock   *)
(* or dead producer leaves it PENDING for ever.                             *)
EventIsSettled ==
  \A o \in EventId :
    o \in DOMAIN outbox /\ outbox[o].status = "PENDING"
      ~> o \in DOMAIN outbox /\ outbox[o].status \in {"PROCESSED", "FAILED"}

(* A COMPLETED upload of a job: what process_failed_jobs has to delete.      *)
HasUploads(j) ==
  \E u \in DOMAIN upload : JobOfTask(TaskOf(u)) = j /\ upload[u].status = "COMPLETED"

(* A job that process_failed_jobs selects and skips each time: its query has *)
(* no ORDER BY, so this job may take a place of the LIMIT from others.      *)
Blocks(j) == HasStatus(j, "FAILED") /\ ~Announced(j) /\ ~HasUploads(j)

(* CleanableIsAnnounced: a FAILED job with uploads is cleaned up and          *)
(* announced, unless a FAILED job without uploads is there to starve it.    *)
CleanableIsAnnounced ==
  \A j \in Job :
    HasStatus(j, "FAILED") /\ HasUploads(j)
      ~> Announced(j) \/ \E k \in Job : Blocks(k)

(* LocksComeFree: no item stays locked for ever.                            *)
LocksComeFree ==
  \A x \in Job \cup TaskId \cup UploadId \cup EventId :
    \A state \in {"PROCESSING", "COMMITTING"} : []<>~Taken(state, x)
=============================================================================
