------------------------------ MODULE FailedJobs ------------------------------
(***************************************************************************)
(* process_failed_jobs: deletes what a FAILED job has uploaded, cleans up  *)
(* its temp files and announces it through the outbox.                     *)
(***************************************************************************)
EXTENDS CompletedJobs

(* Mutants: the query forgets the status; it asks for published ones.        *)
StartUnpublished(w) == Begin(w, "process_failed_jobs", {j \in DOMAIN job : ~job[j].published})
StartPublished(w) ==
  Begin(w, "process_failed_jobs",
        {j \in DOMAIN job : job[j].status = "FAILED" /\ job[j].published})

StartFailedJobs(w) ==
  Begin(w, "process_failed_jobs",
        {j \in DOMAIN job : job[j].status = "FAILED" /\ ~job[j].published})

(* Mutant: the list is set anew, not extended, for every upload task.        *)
LastUploadedObjects(j) ==
  LET done == {t \in TasksOf(j) : \E u \in UploadsOf(t) : upload[u].status = "COMPLETED"}
  IN  {o \in {VideoOf[j]} \X Rendition \X Segment :
         \E t \in done : SegmentOf(t) = o[3] /\ \A x \in done : SegmentOf(x) <= o[3]}

(* The objects that the COMPLETED upload tasks of a job list.               *)
UploadedObjects(j) ==
  {o \in {VideoOf[j]} \X Rendition \X Segment :
     \E t \in TasksOf(j) : /\ SegmentOf(t) = o[3]
                           /\ \E u \in UploadsOf(t) : upload[u].status = "COMPLETED"}

(* Deletes the objects, then the temp files. A job that has no task, or no   *)
(* object to delete, is skipped: it is not announced either.                *)
CleanUp(w) ==
  LET v == VideoOf[Cur(w)]
      objects == UploadedObjects(Cur(w))
      files == DiskOf(w, v)
  IN  /\ At(w, "process_failed_jobs", "work")
      /\ \/ /\ objects = {}
            /\ ctx' = Goto(w, "release")
            /\ UNCHANGED <<bucket, disk, faults>>
         \/ /\ objects # {}
            /\ bucket' = bucket \ objects
            /\ disk' = Store(w, v, Cleaned(files))
            /\ ctx' = Goto(w, "seal")
            /\ UNCHANGED faults
         \/ /\ objects # {}
            /\ Fault
            /\ \/ \E gone \in SUBSET objects : bucket' = bucket \ gone /\ UNCHANGED disk
               \/ /\ bucket' = bucket \ objects
                  /\ \E left \in CleaningSteps(files) : disk' = Store(w, v, left)
            /\ ctx' = Failed(w)
      /\ UNCHANGED <<db, locks, delivered, client>>

(* Mutant: the topic of the other task.                                      *)
AnnounceAsCompleted(w) ==
  At(w, "process_failed_jobs", "commit") /\ CommitAnnouncement(w, "job.completed")

AnnounceFailed(w) ==
  At(w, "process_failed_jobs", "commit") /\ CommitAnnouncement(w, "job.failed")

FailedJobsStep(w) == CleanUp(w) \/ AnnounceFailed(w)
=============================================================================
