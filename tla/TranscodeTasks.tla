---------------------------- MODULE TranscodeTasks ----------------------------
(***************************************************************************)
(* process_transcode_tasks: transcodes the segment of a QUEUED task into   *)
(* every rendition and commits an upload task for the files.               *)
(***************************************************************************)
EXTENDS MediaStore

StartTranscodeTasks(w) ==
  Begin(w, "process_transcode_tasks",
        {t \in DOMAIN transcode : transcode[t].status = "QUEUED" /\ transcode[t].due})

(* run_transcoder reads the segment where its input_file says, on the host   *)
(* of this worker, and writes the renditions under <cwd>/vid_transcoded.     *)
Transcode(w) ==
  LET v == VideoOf[JobOfTask(Cur(w))]
      s == SegmentOf(Cur(w))
      saved == Store(w, v, [DiskOf(w, v) EXCEPT !.cmaf = @ \cup {s}])
  IN  /\ At(w, "process_transcode_tasks", "work")
      /\ \/ /\ s \notin DiskOf(w, v).segments
            /\ ctx' = Failed(w)
            /\ UNCHANGED <<disk, faults>>
         \/ /\ s \in DiskOf(w, v).segments
            /\ disk' = saved
            /\ ctx' = Goto(w, "seal")
            /\ UNCHANGED faults
         \/ /\ s \in DiskOf(w, v).segments
            /\ Fault
            /\ disk' \in {disk, saved}
            /\ ctx' = Failed(w)
      /\ UNCHANGED <<db, locks, bucket, delivered, client>>

(* Mutant: the upload task is added but the task stays QUEUED.               *)
CommitUploadOnly(w) ==
  /\ At(w, "process_transcode_tasks", "commit")
  /\ \E c \in Fresh({u[2] : u \in UploadsOf(Cur(w))}) :
       upload' = Insert(upload, {<<Cur(w), c>>}, NewUpload)
  /\ AfterCommit(w)
  /\ UNCHANGED <<job, transcode, outbox, locks, world>>

(* The commit: the task is PROCESSING and has one more upload task.         *)
CommitUpload(w) ==
  LET t == Cur(w)
  IN  /\ At(w, "process_transcode_tasks", "commit")
      /\ transcode' =
           [transcode EXCEPT ![t].status = Assign(@, Mine(w).status, "PROCESSING")]
      /\ \E c \in Fresh({u[2] : u \in UploadsOf(t)}) :
           upload' = Insert(upload, {<<t, c>>}, NewUpload)
      /\ AfterCommit(w)
      /\ UNCHANGED <<job, outbox, locks, world>>

(* Mutant: a task that fails for good does not fail its job.                 *)
RetryTranscodeOnly(w) ==
  /\ At(w, "process_transcode_tasks", "retry")
  /\ transcode' = [transcode EXCEPT ![Cur(w)] = Bumped(@, w)]
  /\ ctx' = Closed(w)
  /\ UNCHANGED <<job, upload, outbox, locks, world, faults>>

(* The attempt failed: one retry more, or the task and its job are FAILED.  *)
RetryTranscode(w) ==
  LET t == Cur(w)
  IN  /\ At(w, "process_transcode_tasks", "retry")
      /\ transcode' = [transcode EXCEPT ![t] = Bumped(@, w)]
      /\ job' = IF Exhausted(w)
                  THEN [job EXCEPT ![JobOfTask(t)].status =
                          Assign(@, ctx[w].loaded.job, "FAILED")]
                  ELSE job
      /\ ctx' = Closed(w)
      /\ UNCHANGED <<upload, outbox, locks, world, faults>>

TranscodeTasksStep(w) == Transcode(w) \/ CommitUpload(w) \/ RetryTranscode(w)
=============================================================================
