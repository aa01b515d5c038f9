----------------------------- MODULE OutboxEvents -----------------------------
(***************************************************************************)
(* process_outbox_events: publishes the PENDING events to Kafka.           *)
(***************************************************************************)
EXTENDS MediaStore

StartOutboxEvents(w) ==
  Begin(w, "process_outbox_events",
        {o \in DOMAIN outbox : outbox[o].status = "PENDING" /\ outbox[o].due})

(* The check under the lock: session.get answers with the row that the       *)
(* session has loaded, not with the one in the table.                       *)
SkipEvent(w) ==
  /\ At(w, "process_outbox_events", "publish")
  /\ Mine(w).status # "PENDING"
  /\ ctx' = Goto(w, "release")
  /\ UNCHANGED <<db, locks, world, faults>>

(* kafka_producer.publish returns. send() only enqueues the record, and       *)
(* flush() waits for its fate without raising it: it may have been lost.    *)
Publish(w) ==
  /\ At(w, "process_outbox_events", "publish")
  /\ Mine(w).status = "PENDING"
  /\ ctx' = Goto(w, "commit")
  /\ client' = client \cup {w}
  /\ \/ delivered' = [delivered EXCEPT ![Cur(w)] = @ + 1] /\ UNCHANGED faults
     \/ Fault /\ UNCHANGED delivered
  /\ UNCHANGED <<db, locks, disk, bucket>>

(* No broker answers while the producer is being created: the task is given  *)
(* up. Any other error counts as a failed attempt of the event.             *)
PublishFails(w) ==
  /\ At(w, "process_outbox_events", "publish")
  /\ Mine(w).status = "PENDING"
  /\ Fault
  /\ \/ w \notin client /\ ctx' = Aborted(w) /\ UNCHANGED client
     \/ client' = client \cup {w} /\ ctx' = Failed(w)
  /\ UNCHANGED <<db, locks, disk, bucket, delivered>>

(* Mutant: the status is set on another instance than the session's.         *)
CommitUnmarked(w) ==
  /\ At(w, "process_outbox_events", "commit")
  /\ AfterCommit(w)
  /\ UNCHANGED <<db, locks, world>>

CommitProcessed(w) ==
  /\ At(w, "process_outbox_events", "commit")
  /\ outbox' = [outbox EXCEPT ![Cur(w)].status = Assign(@, Mine(w).status, "PROCESSED")]
  /\ AfterCommit(w)
  /\ UNCHANGED <<job, transcode, upload, locks, world>>

(* Mutants: the published flag stays up; the job is left alone.              *)
FailedStillPublished(row, w) ==
  [row EXCEPT !.status = Assign(@, ctx[w].loaded.job, "FAILED")]
NotWithdrawn(row, w) == row

(* The row of a job whose event is given up.                                *)
Withdrawn(row, w) ==
  [row EXCEPT !.status = Assign(@, ctx[w].loaded.job, "FAILED"),
              !.published = Assign(@, ctx[w].loaded.published, FALSE)]

(* The attempt failed: one retry more, or the event is FAILED and its job    *)
(* too, unpublished, for process_failed_jobs to announce.                   *)
RetryEvent(w) ==
  LET o == Cur(w)
  IN  /\ At(w, "process_outbox_events", "retry")
      /\ outbox' = [outbox EXCEPT ![o] = Bumped(@, w)]
      /\ job' = IF Exhausted(w)
                  THEN [job EXCEPT ![JobOfEvent(o)] = Withdrawn(@, w)]
                  ELSE job
      /\ ctx' = Closed(w)
      /\ UNCHANGED <<transcode, upload, locks, world, faults>>

OutboxEventsStep(w) ==
  \/ SkipEvent(w)
  \/ Publish(w)
  \/ PublishFails(w)
  \/ CommitProcessed(w)
  \/ RetryEvent(w)
=============================================================================
