------------------------------ MODULE UploadTasks ------------------------------
(***************************************************************************)
(* process_upload_tasks: uploads the files of a PENDING upload task to the *)
(* bucket and commits it, and its transcode task, COMPLETED.               *)
(***************************************************************************)
EXTENDS MediaStore

StartUploadTasks(w) ==
  Begin(w, "process_upload_tasks",
        {u \in DOMAIN upload : upload[u].status = "PENDING" /\ upload[u].due})

(* The objects of one segment of a video, one per rendition.                *)
SegmentObjects(v, s) == {v} \X Rendition \X {s}

(* Mutant: the results of the uploads are not looked at.                     *)
UploadFilesUnchecked(w) ==
  LET t == TaskOf(Cur(w))
      v == VideoOf[JobOfTask(t)]
  IN  /\ At(w, "process_upload_tasks", "work")
      /\ ctx' = Goto(w, "seal")
      /\ \/ bucket' = bucket \cup SegmentObjects(v, SegmentOf(t)) /\ UNCHANGED faults
         \/ Fault /\ UNCHANGED bucket
      /\ UNCHANGED <<db, locks, disk, delivered, client>>

(* All files go up at once in a thread pool; the first error is raised only  *)
(* when the others have finished, so any subset may have arrived.           *)
UploadFiles(w) ==
  LET t == TaskOf(Cur(w))
      v == VideoOf[JobOfTask(t)]
      objects == SegmentObjects(v, SegmentOf(t))
      there == SegmentOf(t) \in DiskOf(w, v).cmaf
  IN  /\ At(w, "process_upload_tasks", "work")
      /\ \/ /\ ~there
            /\ ctx' = Failed(w)
            /\ UNCHANGED <<bucket, faults>>
         \/ /\ there
            /\ bucket' = bucket \cup objects
            /\ ctx' = Goto(w, "seal")
            /\ UNCHANGED faults
         \/ /\ there
            /\ Fault
            /\ \E sent \in SUBSET objects : bucket' = bucket \cup sent
            /\ ctx' = Failed(w)
      /\ UNCHANGED <<db, locks, disk, delivered, client>>

(* The commit: both rows COMPLETED.                                         *)
CommitUploaded(w) ==
  LET u == Cur(w)
  IN  /\ At(w, "process_upload_tasks", "commit")
      /\ upload' = [upload EXCEPT ![u].status = Assign(@, Mine(w).status, "COMPLETED")]
      /\ transcode' = [transcode EXCEPT ![TaskOf(u)].status =
                         Assign(@, ctx[w].loaded.task, "COMPLETED")]
      /\ AfterCommit(w)
      /\ UNCHANGED <<job, outbox, locks, world>>

(* Mutant: an upload task that fails for good fails nothing else.            *)
RetryUploadOnly(w) ==
  /\ At(w, "process_upload_tasks", "retry")
  /\ upload' = [upload EXCEPT ![Cur(w)] = Bumped(@, w)]
  /\ ctx' = Closed(w)
  /\ UNCHANGED <<job, transcode, outbox, locks, world, faults>>

(* The attempt failed: one retry more, or the upload, its transcode task and *)
(* their job are FAILED.                                                    *)
RetryUpload(w) ==
  LET u == Cur(w)
      t == TaskOf(u)
  IN  /\ At(w, "process_upload_tasks", "retry")
      /\ upload' = [upload EXCEPT ![u] = Bumped(@, w)]
      /\ IF Exhausted(w)
           THEN /\ transcode' = [transcode EXCEPT ![t].status =
                                   Assign(@, ctx[w].loaded.task, "FAILED")]
                /\ job' = [job EXCEPT ![JobOfTask(t)].status =
                             Assign(@, ctx[w].loaded.job, "FAILED")]
           ELSE UNCHANGED <<transcode, job>>
      /\ ctx' = Closed(w)
      /\ UNCHANGED <<outbox, locks, world, faults>>

UploadTasksStep(w) == UploadFiles(w) \/ CommitUploaded(w) \/ RetryUpload(w)
=============================================================================
