------------------------------ MODULE QueuedJobs ------------------------------
(***************************************************************************)
(* process_queued_jobs: downloads the video of a QUEUED job, uploads its   *)
(* thumbnail and init segments, cuts it into segments, and commits one     *)
(* QUEUED transcode task per segment with the job's status PROCESSING.     *)
(***************************************************************************)
EXTENDS MediaStore

StartQueuedJobs(w) ==
  Begin(w, "process_queued_jobs",
        {j \in DOMAIN job : job[j].status = "QUEUED" /\ job[j].due})

(* The video of the job in hand, and its files on this worker's host.       *)
VideoInHand(w) == VideoOf[Cur(w)]
FilesInHand(w) == DiskOf(w, VideoInHand(w))

(* Downloads the video unless it is cached, and uploads a thumbnail.        *)
Download(w) ==
  LET downloaded == Store(w, VideoInHand(w), [FilesInHand(w) EXCEPT !.video = TRUE])
  IN  /\ At(w, "process_queued_jobs", "work")
      /\ \/ disk' = downloaded /\ ctx' = Goto(w, "init") /\ UNCHANGED faults
         \/ Fault /\ disk' \in {disk, downloaded} /\ ctx' = Failed(w)
      /\ UNCHANGED <<db, locks, bucket, delivered, client>>

(* The init segments of a video in the bucket.                              *)
InitObjects(v) == {v} \X Rendition \X {0}

(* Generates and uploads init.mp4 of every rendition. ffmpeg is run without  *)
(* -y and with no terminal: an init.mp4 that is already there, left by an   *)
(* earlier attempt, makes it fail.                                          *)
GenerateInit(w) ==
  LET v == VideoInHand(w)
      generated == Store(w, v, [FilesInHand(w) EXCEPT !.init = TRUE])
  IN  /\ At(w, "process_queued_jobs", "init")
      /\ \/ /\ FilesInHand(w).init \/ ~FilesInHand(w).video
            /\ ctx' = Failed(w)
            /\ UNCHANGED <<disk, bucket, faults>>
         \/ /\ ~FilesInHand(w).init /\ FilesInHand(w).video
            /\ disk' = generated
            /\ \/ /\ bucket' = bucket \cup InitObjects(v)
                  /\ ctx' = Goto(w, "cut")
                  /\ UNCHANGED faults
               \/ /\ Fault
                  /\ \E sent \in SUBSET InitObjects(v) : bucket' = bucket \cup sent
                  /\ ctx' = Failed(w)
         \/ /\ ~FilesInHand(w).init
            /\ Fault
            /\ ctx' = Failed(w)
            /\ UNCHANGED <<disk, bucket>>
      /\ UNCHANGED <<db, locks, delivered, client>>

(* Cuts the video; ffmpeg's segment muxer overwrites what is there.         *)
CutSegments(w) ==
  LET cut(s) == Store(w, VideoInHand(w), [FilesInHand(w) EXCEPT !.segments = @ \cup s])
  IN  /\ At(w, "process_queued_jobs", "cut")
      /\ \/ /\ ~FilesInHand(w).video
            /\ ctx' = Failed(w)
            /\ UNCHANGED <<disk, faults>>
         \/ /\ FilesInHand(w).video
            /\ disk' = cut(Segment)
            /\ ctx' = Goto(w, "seal")
            /\ UNCHANGED faults
         \/ /\ FilesInHand(w).video
            /\ Fault
            /\ \E s \in SUBSET Segment : disk' = cut(s)
            /\ ctx' = Failed(w)
      /\ UNCHANGED <<db, locks, bucket, delivered, client>>

(* The commit: PROCESSING, and one transcode task per segment.              *)
CommitTasks(w) ==
  LET j == Cur(w)
  IN  /\ At(w, "process_queued_jobs", "commit")
      /\ job' = [job EXCEPT ![j].status = Assign(@, Mine(w).status, "PROCESSING")]
      /\ \E c \in Fresh({t[2] : t \in TasksOf(j)}) :
           transcode' = Insert(transcode, {<<j, c, s>> : s \in Segment}, NewTask)
      /\ AfterCommit(w)
      /\ UNCHANGED <<upload, outbox, locks, world>>

(* The attempt failed: one retry more, or FAILED. Without an Outbox row, so  *)
(* that process_failed_jobs announces the job.                              *)
RetryJob(w) ==
  /\ At(w, "process_queued_jobs", "retry")
  /\ job' = [job EXCEPT ![Cur(w)] = Bumped(@, w)]
  /\ ctx' = Closed(w)
  /\ UNCHANGED <<transcode, upload, outbox, locks, world, faults>>

QueuedJobsStep(w) ==
  \/ Download(w)
  \/ GenerateInit(w)
  \/ CutSegments(w)
  \/ CommitTasks(w)
  \/ RetryJob(w)
=============================================================================
