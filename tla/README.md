# A TLA+ model of the media processing service

The service takes `video.queued` events from Kafka and turns each into a job
that Celery tasks carry through download, segmentation, transcoding, upload,
a completion check and an announcement (`job.completed` or `job.failed`).
This directory models that pipeline and its consumer in TLA+, model-checks it
with TLC on small instances, and proves its safety properties and refinements
with TLAPS for every number of jobs, segments, attempts and failures.
Paths such as `app/consumer.py` are relative to `src/`.

## 1. Inventory

| Part | State | Operations | Properties that make it correct |
|---|---|---|---|
| Kafka consumer (`app/consumer.py`, run by every FastAPI process, `app/main.py`) | position and committed offset of every partition, the message in hand, its two locks | start, fetch, lock, lock, insert job, commit offset, skip, release, stop; rebalance, shutdown, crash | an offset never overtakes its job; one insert at a time per event; every event is taken |
| Locks (`app/lock.py`) | Redis keys `STATE:id` with a token and a TTL of 120 s | acquire (5 s), release only with one's own token | mutual exclusion; nothing leaks; nobody deletes another's lock; every lock comes free |
| Tables (`app/models/*.py`, `app/db_config/`) | `jobs`, `transcode_tasks`, `upload_tasks`, `outbox` | inserts and updates of sessions, with an identity map and rows read earlier | foreign keys; no duplicates; the job's life cycle |
| `process_queued_jobs` | local files, init objects, new transcode tasks | download, init segments, cut, commit, retry | a video is cut once; a failed attempt can be repeated |
| `process_transcode_tasks` | renditions on disk, new upload tasks | transcode, commit, retry with cascade to the job | one upload task per transcode task |
| the transcoder (`app/media_service/transcoder.py`) | two ffmpeg processes per rendition, the pipes between them and to the worker, the renditions so far | extract audio, start, close, communicate, wait, save | no rendition is cut short; nobody waits for ever |
| `process_upload_tasks` | objects in the bucket | concurrent upload, commit of two rows, retry with two cascades | a COMPLETED row has all its objects |
| `check_completed_jobs` | job status | look at all transcode tasks, commit | COMPLETED only after the last task |
| `process_completed_jobs` | local files, outbox, `published` | probe, clean up, announce | announced once, after the cleanup |
| `process_failed_jobs` | bucket, local files, outbox, `published` | delete objects, clean up, announce | a FAILED job is announced, and the segments that its COMPLETED uploads had sent by then are gone |
| `process_outbox_events`, `app/producer.py` | outbox, Kafka topics, the producer of the worker | publish, commit, retry with withdrawal of the announcement | a published job has a live event of the right topic; no record without need; every event is settled |
| Celery beat and worker (`app/celery_app.py`, `Dockerfile.celery`) | the queue | start a task on a worker, lose a worker | every task runs again and again |
| MinIO client, the rest of the media service, utilities, configuration | none of their own | files and objects that the tasks above move | modelled inside the tasks |
| HTTP service (`app/routes/`) | none | health and readiness | reads only; not modelled |

How they interact: the consumer and the tasks share nothing but the tables,
Redis, the disks, the bucket and Kafka; there are no calls between tasks. Every
task runs the same loop: query a batch (no `ORDER BY`, a `LIMIT`), and for each
item take the PROCESSING lock, work, take the COMMITTING lock, commit several
rows at once, release in `finally`; on an exception roll back, read the row
again, count an attempt and perhaps cascade FAILED to the parents.

What is hard about it: rows are read before the lock is taken and sessions
answer later reads from memory; a lock may expire under its owner; a worker may
die, and Redis, PostgreSQL, MinIO, Kafka or ffmpeg may fail, between any two
steps, also after a commit has taken effect; the same failure handlers write
parent rows that others write at the same time; events are retried while they
may have been delivered. `PROJECT.json` lists the hazards line by line, each
with the properties that watch it or the reason why none does.

## 2. Modules

Each module EXTENDS the ones it is built from.

| Module | Models |
|---|---|
| `MediaStore` | the shared state and the loop that all tasks share: `Begin`, `Pick`, `LockItem`, `LockCommit`, `Release`, `ReleaseFails`, `Raise`, `Rescue`, `RaiseInRescue`, `Finish`, `Crash`, `Expire`, `RetryWindowOpens` |
| `QueuedJobs`, `TranscodeTasks`, `UploadTasks`, `CompletedJobs` (both `check_completed_jobs` and `process_completed_jobs`), `FailedJobs`, `OutboxEvents` | the work, the commit and the bookkeeping of each task |
| `MediaPipeline` | their composition, the arrival of jobs, `Spec`, fairness, `TypeOK` |
| `JobLifecycle` | an abstract specification: what one job's row promises |
| `OutboxContract` | an abstract specification: what the outbox promises about its events and the records of them |
| `PipelineProperties` | the properties, and the refinement mappings to `JobLifecycle` and `OutboxContract` |
| `DocumentedClaims` | what the documentation says and the code does not do |
| `Consumer` | the Kafka consumer, its locks, offsets and rebalances |
| `Transcoder` | `run_transcoder`: the worker, a reader and an encoder process, and their pipes |
| `MCPipeline`, `MCConsumer` | constants for TLC (those of `Transcoder` are numbers, given in its cfg) |
| `MediaPipelineProofs`, `LockProofs`, `OutboxProofs` | theorems about the pipeline with any number of workers: types, locks, the outbox |
| `SoloProofs`, `ContractProofs`, `MediaFilesProofs` | theorems about the pipeline with one worker: the rows and the life cycle, the outbox contract, the files and objects |
| `ConsumerProofs`, `TranscoderProofs` | theorems about the consumer and the transcoder |

How the model corresponds to the code:

* A worker's context `ctx[w]` is the running task's local state: `todo` the rest
  of the batch, `cur` the item, `held` the lock variables that are not None,
  `seen` the session's identity map. A commit or a rollback expires the map
  (`seen` empties), and the next read loads the row again. This is why
  `SkipEvent` looks at the row loaded before the lock: `session.get` answers
  from the map.
* `Assign(column, loaded, new)` is SQLAlchemy's unit of work: an UPDATE carries
  a column only if its new value differs from the loaded one. A stale session
  can therefore leave a column alone that it means to set.
* `retry_after` is the flag `due`. Primary keys are tuples that contain the
  foreign key and a copy number, drawn fresh at every insert, as uuids are.
* A file or object is present or absent. Object 0 of a rendition is its
  `init.mp4`. The segments that are cleaned up are those under the configured
  directories; renditions are written elsewhere and never removed (`cmaf`).
* `Fault` marks what fails through no act of the program (an exception, a lost
  record, a crash); `faults` counts them. An action with several outcomes has
  one disjunct for each, and where a call may fail halfway the effect is any
  partial effect that the code can leave: any subset of the uploads of a thread
  pool, any prefix of the cleanup.
* `delivered` counts the records of an event in its topic. `publish()` gives
  every record a new `event_id`, so consumers cannot drop a duplicate and the
  count is the only trace of it.
* `Transcoder` is what happens inside the one step `Transcode` of
  `TranscodeTasks`: it returns with every rendition whole, or it raises. That
  the step ends at all is `RunEnds`; the exception there (the reader's stderr
  fills up) is a task that hangs until its worker is killed, which the pipeline
  has as `Crash`. A unit of `Transcoder` is some amount of data, the same for
  frames, pipes and messages.
* Mutants (named "Mutant" in their comment) are variants of an action with a
  plausible mistake. They are not part of any specification; each property is
  violated when its mutant takes the place of the original.

## 3. What the runs check

"Pass" runs (module `MCPipeline` where no other is named):

| Run | Instance | Shows |
|---|---|---|
| `solo` | 1 worker, 1 job, 2 segments, 2 attempts, 3 faults; about 517,000 states | `CompletedIsPlayable`, `AnnouncedIsPlayable`, `NoDuplicateRows`, `OutcomeAnnounced`, `AnnouncedIsCleaned`, `CompletedTaskHasUpload`, `FailedIsEmptied`, and that the job's row refines `JobLifecycle` (`LifecycleKept`) and the outbox `OutboxContract` (`OutboxKept`) |
| `solo_live` | the same worker under fairness, 1 segment, 2 attempts, 2 faults; about 10,000 states | `JobIsDecided`, `CompletedIsAnnounced`, `EventIsSettled`, `LocksComeFree` |
| `duo` | 2 workers on one host, 1 segment, LIMIT 1, 1 fault, no lock expires under a live worker; about 1.8 million states | `PublishedHasLiveEvent`, `MutualExclusion`, `RepublishedAtMostOnceEach` |
| `duo_slow` | 2 workers whose locks may expire at any time; about 771,000 states | `TypeOK`, `NoLeakedLock`, `LocksOfOthersStay` |
| `twins` | 1 worker under fairness, 2 jobs of one video, LIMIT 1, 2 attempts, 1 fault; about 46,000 states | `SharedVideoPlayable`, `CleanableIsAnnounced` |
| `consume` (module `MCConsumer`) | 2 processes, 2 partitions with one event sent twice, a garbled, an invalid and an empty message, 1 fault; about 180,000 states | `ConsumerTypeOK`, `OffsetFollowsJob`, `InsertIsExclusive`, `EventsAreTaken` |
| `transcode` (module `Transcoder`) | 2 renditions, 2 frames of 3 units, frames of 2 units in the rendition, pipes of 2 units; about 14,000 states | `TranscoderTypeOK`, `NothingTruncated`, `SomebodyMoves`, `EveryStepCosts`, `RunEnds` |

The solo properties hold for the one solo-pool worker that `Dockerfile.celery`
starts; with two workers some fail (`status_goes_back`). `CompletedTaskHasUpload`
is one of these. With two workers and two faults TLC finds: the bookkeeping of
process_transcode_tasks has failed a task whose upload task is already
committed; one worker uploads; another fails to take the lock of the upload task
and, in its bookkeeping, loads the task as FAILED; the first completes both rows;
the second fails the upload, and of the task it has nothing to write, as it
never saw it COMPLETED.

Three of these properties say how far the code goes and no further:

* `RepublishedAtMostOnceEach`: the status check under the outbox lock reads a
  row loaded before the lock, so with two workers an event can be sent twice
  though nothing failed; but once by each, and once more per failure.
* `SharedVideoPlayable`: of two jobs of one video, a FAILED one takes the
  objects of the COMPLETED one from the bucket.
* `CleanableIsAnnounced`: a FAILED job that was never uploaded is selected and
  skipped by each run of `process_failed_jobs`, and where such jobs fill the
  LIMIT the others starve. In `twins` one is enough for a LIMIT of 1.

"Violation" runs, each a disagreement of the code with its own documentation
that `PROJECT.json` quotes under "findings":

| Run | What TLC finds |
|---|---|
| `silent_failure` | a job that fails before any upload completed is never announced |
| `init_left_behind` | one failure after `init.mp4` was written fails the job for good |
| `status_goes_back` | two workers and no failure: a job that was completed and announced is PROCESSING again |
| `skipped_event` (module `MCConsumer`) | an event that was skipped is passed over by a later offset |
| `mixed_frames` (module `Transcoder`) | a rendition with more frames than its segment, as the two ffmpeg processes disagree on the size of a frame |

What else the model shows of the code, without a run of its own:

* An event may be PROCESSED although Kafka never took its record (`Settle` of
  `OutboxContract`): `publish()` drops the future of `send()`.
* Segments of a FAILED job that its later uploads send after the cleanup stay in
  the bucket, and so do those of an upload that failed halfway and the job's
  init objects, which `process_failed_jobs` does not delete.
* The consumer's loop ends for good when the offset's commit raises in an
  `except` clause or `release_lock` in a `finally` clause, or when
  `consumer.start()` finds no broker; the service goes on without it.

Bounds, and why they are enough to see the interesting cases:

* `MaxAttempts` (5 in the code) is 1 or 2, 3 in `init_left_behind`: one is a
  failure without a retry, two is a retry followed by success or by the last
  failure.
* `MaxFaults` bounds failures and crashes: up to 3, so that a retry, its failure
  and a crash in the bookkeeping fit into one behaviour. In `duo_slow` it is 0,
  as expiry alone puts two workers on one item.
* `MaxCopies` = 2 bounds the rows inserted for one parent: enough for a
  duplicate. In the one-worker runs `NoDuplicateRows` shows that the bound
  stops nothing but a third event of a job.
* `BatchLimit` = 2: several items in a batch, whose order is arbitrary; 1 in
  `twins`, where two jobs compete for it, and in `duo`, to keep it small.
* `NumSegments` = 2 where the order of the segments matters, else 1. A single
  rendition: the files of a segment differ in nothing that the code looks at.
* `Transcoder`: a pipe holds less than a frame and less than the segment, so
  that every process meets every pipe full and empty; the frames of a rendition
  are of another size than the source's. Two renditions, as the second starts
  with what the first left behind. In `mixed_frames` a frame of the source is
  two of the rendition.
* Workers are interchangeable in `duo` (SYMMETRY; only invariants are checked
  there).
* Deadlock is not checked: when every job is announced nothing is left to do.

## 4. Fairness

`FairSpec` of `MediaPipeline` has weak fairness of a worker's own steps without
a fault (`Progress`), of `Expire` and of `RetryWindowOpens` (time passes), and
strong fairness of the start of each task: beat puts every task on the queue
every 10 or 15 seconds and the worker takes them in order, so a task whose
query returns rows again and again runs again and again, though other tasks may
keep the worker busy whenever one looks. Failures are never fair: they may, but
need not, happen. Nothing is assumed of jobs arriving. `FairSpec` of `Consumer`
has weak fairness of a process's own steps and of `Rebalance`; a process that
has stopped or is down need not come back, which is why `EventsAreTaken` has
the exception that at last nobody consumes.
`FairSpec` of `Transcoder` has weak fairness of the worker and of each ffmpeg
process: three processes of the operating system that go on when no pipe holds
them up. That a process dies is never fair.

## 5. What is proved

The theorems about the pipeline are for any finite or infinite sets of jobs,
videos and hosts and any values of the bounds, under `StoreAssumption` (types of
the constants; `Nil` is no item; a job id is no tuple of the other keys); those
about the consumer are for any partitions, logs, processes and bounds under
`ConsumerAssumption` (the three unusable messages are no events; `Nil` is no
process and no place); those about the transcoder are for any number of
renditions and frames and any sizes under `TranscoderAssumption` (nothing but
the types).

Every invariant and every action property that a passing run checks is also
proved, and both refinements.

Any number of workers:

| Theorem | Says | Argument |
|---|---|---|
| `MediaPipelineProofs!TypeCorrect` | `Spec => []TypeOK` | `TypeOK` is inductive because it includes the foreign keys and what each program counter says of the item in hand. `OneMoves`: only the moving worker's context has to be looked at, as tables only grow; `BodyMoveType`: every step inside the loop's body changes the context in one of five ways; then one lemma per action |
| `LockProofs!NothingLeaks` | `Spec => []NoLeakedLock` | `HandInv` adds that a worker between items, or before its first lock, holds nothing: without it picking the next item could turn a lock into a leaked one |
| `LockProofs!OthersLocksSafe` | `Spec => LocksOfOthersStay` | only a release, a failing release and a crash take locks away while a worker moves, and by `HandInv` these are that worker's own |
| `LockProofs!OneAtATime` | if `SlowWork = FALSE`, `Spec => []MutualExclusion` | `LockInv` adds to `HandInv` that a lock has one owner, that what a worker believes held is held, and that a worker at work has the first lock of its task; the outbox task uses another first lock but its items are no item of the others (`DisjointIds`) |
| `OutboxProofs!PublishedStaysLive` | `Spec => []PublishedHasLiveEvent` | the property alone is not inductive: a worker that gives an event up takes the flag down only if it was up when its session loaded the job. `OutboxInv` asks for a live event that no such careless worker holds; `Calm` disposes of every step that raises no flag, gives up no event and starts no bookkeeping, which leaves `Rescue`, the announcements and `RetryEvent` |
| `OutboxProofs!SentOnceEach` | for finitely many workers, `Spec => []RepublishedAtMostOnceEach` | `SendInv` counts: an event has no more records than there were failures and workers that have had their turn (`Spent`). A worker has its turn while its record is not yet committed, and for good once the event is settled and its session holds no PENDING row of it; a record that leads to neither is the victim of a failure, and failures are counted |

One worker (`OneWorker`: no two different ones), which is what `Dockerfile.celery`
starts, a single process with the solo pool:

| Theorem | Says | Argument |
|---|---|---|
| `SoloProofs!RowsStaySingle` | `Spec => []NoDuplicateRows` | from `SoloInv` (below): tasks come in one whole batch, an upload task only to a task that has none, an event only to a job that has no live one |
| `SoloProofs!OutcomeTold` | `Spec => []OutcomeAnnounced` | `EventsInv` of `SoloInv` gives the live event's topic, `PublishedStaysLive` that there is one |
| `SoloProofs!UploadsBackTasks` | `Spec => []CompletedTaskHasUpload` | `TasksInv` of `SoloInv` |
| `SoloProofs!LifecycleImplemented` | `Spec => LifecycleKept` | under `SoloInv` every step is one of eleven writes to the tables (`Write`), and each write, mapped to one job, is a step of `JobLifecycle` or a stutter |
| `ContractProofs!OutboxImplemented` | `Spec => OutboxKept` | `AttemptInv`: attempts counted in an event's row have failed, and the one in hand that is about to be counted has failed as well, so an event given up after `MaxAttempts` has had as many failures; with `SendInv` for the records and `SoloInv` for what a session has read |
| `MediaFilesProofs!SharedStaysPlayable` | `Spec => []SharedVideoPlayable` | `MediaInv`: unless a job of the video is FAILED, every transcode task has its init objects, every COMPLETED upload its segments, and so has the item in hand once they are written. FAILED is final, so only a step that fails a job, or the deletion by `process_failed_jobs`, could break it |
| `MediaFilesProofs!CompletedStaysPlayable`, `AnnouncedStaysPlayable` | with `OwnVideos`, `Spec => []CompletedIsPlayable`, `Spec => []AnnouncedIsPlayable` | the same with no other job to fail; an event that is PROCESSED is live, so its job is still COMPLETED |
| `MediaFilesProofs!FailedIsEmptiedFirst` | `Spec => FailedIsEmptied` | from the deletion on until the announcement nothing is uploaded (`MediaAt`) |
| `MediaFilesProofs!AnnouncedStaysCleaned` | with `OwnVideos`, `Spec => []AnnouncedIsCleaned` | `CleanInv`: the directories of a published job are empty, those of every other host are empty anyway, and what is in hand before an announcement has been cleaned. The job of a step that writes files is not published (`SoloInv`) |

`SoloInv` is the inductive invariant of one worker. It has two halves that need
each other. `ViewInv`: what the session has loaded is what is stored, although
locks may expire, commits fail after they took effect, and the bookkeeping runs
on the row that it finds; the batch still satisfies the query it came from.
`RowsInv`: how the rows of the tables belong together (a job without tasks until
they are cut, then with one batch; a task without upload while QUEUED, then with
one, COMPLETED together; one live event that says what the job's row says).
`ViewInv` is what limits the commits to the eleven forms of `Write`, `RowsInv`
is kept by each of these, and both together give `ViewInv` for the next read.
With two workers `ViewInv` is false (`status_goes_back`).

`OwnVideos` says that no two jobs are of one video. The code does not see to it
(each `video.queued` event becomes a job of its own), but it names files and
objects by the video alone, so these three theorems need it: with two jobs of a
video the FAILED one takes the objects of the other (`SharedVideoPlayable` says
what is left, and `twins` checks it), and a second job fills the directories
that the first has cleaned.

The consumer and the transcoder:

| Theorem | Says | Argument |
|---|---|---|
| `ConsumerProofs!ConsumerTypeCorrect` | `Spec => []ConsumerTypeOK` | `EventInHand` is added: what is locked and inserted is an event. Every action lets a process go on (`Continues`) or stop (`Stops`) |
| `ConsumerProofs!OffsetsFollow` | `Spec => []OffsetFollowsJob` | offsets are cumulative, so `OffsetInv` adds what is before them: the message in hand is done from the commit on, every place before it is done also when a rebalance has moved the partition meanwhile, and so is every place fetched from an assigned partition but the one in hand. A rebalance starts again from the committed offsets, which the property itself covers |
| `ConsumerProofs!InsertsExclude` | if `SlowWork = FALSE`, `Spec => []InsertIsExclusive` | a lock has one owner, and a process inserts under the COMMITTING lock of its event; releases, crashes and a release that fails halfway take only the process's own locks |
| `TranscoderProofs!PipesHold` | `Spec => []TranscoderTypeOK` | `PipeInv` adds that what the reader wrote is what the encoder took and what is in the pipe (`Flow`), so that no counter passes the segment, and that a file is left to write until the return (`FilesLeft`) |
| `TranscoderProofs!KeptIsWhole` | `Spec => []NothingTruncated` | `EndedWell` of `PipeInv`: a reader that ended well has decoded everything, an encoder that ended well has emptied the pipe of an ended reader; with `Flow`, a pair of which both ended well has encoded everything |
| `TranscoderProofs!NobodyWaitsForEver` | `Spec => []SomebodyMoves` | `MoveInv` says at each point of the worker which processes there are and who holds the read end of the reader's pipe. While the worker reads, the encoder takes from the reader; once it waits for the reader nobody holds the read end, and a reader that is not clogged goes on or fails |
| `TranscoderProofs!EveryRunIsFinite` | `Spec => EveryStepCosts` | `Cost` bounds the steps that are left: a unit still to be decoded is worth 7, one in the pipe 4, so that each pays for its next move, for the output it may become and for the message (2) that the move may cause; a rendition is worth all its units |

`OneAtATime` is the exact guarantee of the locks: with `SlowWork` TRUE it does
not hold, and even with it, mutual exclusion does not keep a worker from acting
on a row that it read before its lock (`status_goes_back`).

Only model-checked is the liveness (TLAPS does not reason about fairness and
ENABLED here): `JobIsDecided`, `CompletedIsAnnounced`, `EventIsSettled`,
`LocksComeFree`, `CleanableIsAnnounced`, `EventsAreTaken` and `RunEnds`. Of
`RunEnds` both halves are proved: no run is endless, and wherever the call is
neither over nor clogged the worker or a process can take a step. The operators
`WorkerMoves`, `ReaderMoves` and `EncoderMoves` spell out when that is; TLC finds
them equal to ENABLED of the three steps. What remains is the fairness that makes
the step happen. No module that is proved about declares a RECURSIVE operator.

## 6. Not modelled

* Thumbnails: that making or uploading one may fail is part of `Download`; the
  object, a new one for each attempt, is not tracked, nor is its deletion.
* Logging, URLs, the text of object keys, and ffmpeg's options, except that init
  generation does not overwrite and that only one of the two processes of a
  rendition is told its size.
* The health and readiness routes: they keep and change no state. Settings,
  engine and pool options, and the creation of the tables.
* Several hosts. `HostOf` and `disk` allow them, but `Dockerfile.celery` starts
  one worker and a segment's path means nothing on another host.
* A video of which no segment is cut, a segment file that is read while it is
  only partly written, and a Redis call that takes effect although its answer
  is lost.
* A directory that `rmtree` has removed only in part: the cleanup fails between
  entries. That it matches entries by the start of their name: a video id that
  is a prefix of another's would share its local files as two jobs of one video
  do.
* Celery's own redelivery and retries: they start a task again, which the model
  allows at any time. That the worker's command names no `-Q media_processing`
  is taken to be settled by the deployment.

## 7. Plan

Done: the pipeline's tasks, the consumer, the transcoder, both abstract
specifications, the runs, and the theorems above, which cover every invariant,
action property and refinement of the passing runs. Next, in this order:

1. An abstract specification of the consumer (an event becomes one job; offsets
   only grow over decided events), with `Consumer` shown to implement it.
2. `Transcoder` as an implementation of the step `Transcode`: a call returns
   with every rendition whole, raises, or hangs.
3. Which parts of `SoloInv` hold for any number of workers, and a proof of them:
   the foreign keys and the outbox do, `ViewInv` does not.
4. A run with two hosts, where a segment's path means nothing on the other one.
