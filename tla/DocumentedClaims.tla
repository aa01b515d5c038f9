--------------------------- MODULE DocumentedClaims ---------------------------
(***************************************************************************)
(* What the README, the docstrings and the comments say of the pipeline    *)
(* and the code does not do: TLC finds a counterexample to each of these.  *)
(***************************************************************************)
EXTENDS PipelineProperties

(* FailedIsAnnounced: README.md:164 has job.failed "Published when a job     *)
(* fails processing". process_failed_jobs skips a FAILED job that has no    *)
(* transcode task or no completed upload, so most failures are never told.  *)
FailedIsAnnounced ==
  \A j \in Job :
    HasStatus(j, "FAILED") ~> \E o \in EventsOf(j) : outbox[o].topic = "job.failed"

(* FailsOnlyAfterFaults: process_queued_jobs.py:47-50 gives a failed job     *)
(* another attempt two minutes later, so it should take MaxAttempts         *)
(* failures to fail it before it has a task. One is enough once init.mp4 is *)
(* on the disk: ffmpeg refuses to overwrite it in every later attempt.      *)
FailsOnlyAfterFaults ==
  \A j \in Job :
    HasStatus(j, "FAILED") /\ TasksOf(j) = {} => faults >= MaxAttempts

(* AnnouncedIsDecided: README.md:172 has a job's status go "QUEUED ->         *)
(* PROCESSING -> COMPLETED / FAILED", and :163-164 announce it when it      *)
(* "completes" or "fails processing". A worker takes an item's lock after   *)
(* its query and does not look at the status again, so one whose batch is   *)
(* stale takes back to PROCESSING what another has finished and announced.  *)
AnnouncedIsDecided ==
  \A j \in DOMAIN job : job[j].published => job[j].status \in {"COMPLETED", "FAILED"}
=============================================================================
