----------------------------- MODULE CompletedJobs -----------------------------
(***************************************************************************)
(* check_completed_jobs, which makes a job COMPLETED once all its          *)
(* transcode tasks are, and process_completed_jobs, which cleans up after  *)
(* a COMPLETED job and announces it through the outbox.                    *)
(***************************************************************************)
EXTENDS MediaStore

(* Mutant: the query does not filter on the status.                          *)
StartCheckAny(w) == Begin(w, "check_completed_jobs", DOMAIN job)

StartCheck(w) ==
  Begin(w, "check_completed_jobs", {j \in DOMAIN job : job[j].status = "PROCESSING"})

(* Mutant: any() for all().                                                  *)
AnyTaskCompleted(j) == \E t \in TasksOf(j) : transcode[t].status = "COMPLETED"

AllTasksCompleted(j) ==
  /\ TasksOf(j) # {}
  /\ \A t \in TasksOf(j) : transcode[t].status = "COMPLETED"

Check(w) ==
  /\ At(w, "check_completed_jobs", "work")
  /\ ctx' = Goto(w, IF AllTasksCompleted(Cur(w)) THEN "seal" ELSE "release")
  /\ UNCHANGED <<db, locks, world, faults>>

CommitCompleted(w) ==
  /\ At(w, "check_completed_jobs", "commit")
  /\ job' = [job EXCEPT ![Cur(w)].status = Assign(@, Mine(w).status, "COMPLETED")]
  /\ AfterCommit(w)
  /\ UNCHANGED <<transcode, upload, outbox, locks, world>>

-----------------------------------------------------------------------------

StartCompletedJobs(w) ==
  Begin(w, "process_completed_jobs",
        {j \in DOMAIN job : job[j].status = "COMPLETED" /\ ~job[j].published})

(* Mutant: the directory of the segments is forgotten.                       *)
CleanedButSegments(files) ==
  [NoFiles EXCEPT !.cmaf = files.cmaf, !.segments = files.segments]

(* cleanup_temp_files removes what is under the directories that settings    *)
(* name, one directory after the other.                                     *)
Cleaned(files) == [NoFiles EXCEPT !.cmaf = files.cmaf]
CleaningSteps(files) ==
  {files, [files EXCEPT !.video = FALSE],
   [files EXCEPT !.video = FALSE, !.segments = {}], Cleaned(files)}

(* The video, downloaded again if it is gone, is probed for the manifest;   *)
(* then the temp files go.                                                  *)
PrepareManifest(w) ==
  LET v == VideoOf[Cur(w)]
      files == DiskOf(w, v)
      downloaded == [files EXCEPT !.video = TRUE]
  IN  /\ At(w, "process_completed_jobs", "work")
      /\ \/ /\ TasksOf(Cur(w)) = {}
            /\ ctx' = Goto(w, "release")
            /\ UNCHANGED <<disk, faults>>
         \/ /\ TasksOf(Cur(w)) # {}
            /\ disk' = Store(w, v, Cleaned(files))
            /\ ctx' = Goto(w, "seal")
            /\ UNCHANGED faults
         \/ /\ TasksOf(Cur(w)) # {}
            /\ Fault
            /\ \E left \in {files} \cup CleaningSteps(downloaded) : disk' = Store(w, v, left)
            /\ ctx' = Failed(w)
      /\ UNCHANGED <<db, locks, bucket, delivered, client>>

(* ffprobe fails: the job is FAILED, committed without a COMMITTING lock.   *)
ProbeFails(w) ==
  LET v == VideoOf[Cur(w)]
  IN  /\ At(w, "process_completed_jobs", "work")
      /\ TasksOf(Cur(w)) # {}
      /\ Fault
      /\ disk' = Store(w, v, [DiskOf(w, v) EXCEPT !.video = TRUE])
      /\ job' = [job EXCEPT ![Cur(w)].status = Assign(@, Mine(w).status, "FAILED")]
      /\ ctx' = Closed(w)
      /\ UNCHANGED <<transcode, upload, outbox, locks, bucket, delivered, client>>

(* The commit that process_completed_jobs and process_failed_jobs share: the *)
(* event and the published flag.                                            *)
CommitAnnouncement(w, topic) ==
  LET j == Cur(w)
  IN  /\ \E c \in Fresh({o[2] : o \in EventsOf(j)}) :
           outbox' = Insert(outbox, {<<j, c>>}, NewEvent(topic))
      /\ job' = [job EXCEPT ![j].published = Assign(@, Mine(w).published, TRUE)]
      /\ AfterCommit(w)
      /\ UNCHANGED <<transcode, upload, locks, world>>

AnnounceCompleted(w) ==
  At(w, "process_completed_jobs", "commit") /\ CommitAnnouncement(w, "job.completed")

CompletedJobsStep(w) ==
  \/ Check(w)
  \/ CommitCompleted(w)
  \/ PrepareManifest(w)
  \/ ProbeFails(w)
  \/ AnnounceCompleted(w)
=============================================================================
