------------------------------- MODULE LockProofs -------------------------------
(***************************************************************************)
(* The locks of the pipeline, for any number of workers and items: what a  *)
(* live worker owns is what it has in hand, nobody else deletes it, and,   *)
(* if no work outlasts LOCK_TTL, no two workers are at work on one item.   *)
(***************************************************************************)
EXTENDS MediaPipelineProofs

(* Between two items, and before its first lock, a worker holds nothing.    *)
HandsEmpty == \A w \in Worker : ctx[w].pc \in {"idle", "pick", "lock"} => ctx[w].held = {}

HandInv == NoLeakedLock /\ HandsEmpty

-----------------------------------------------------------------------------
(* Most steps of the loop's body leave the locks, and what is in hand, alone. *)

(* How the work, the commit or the bookkeeping of an item goes on.          *)
Advance(w) ==
  \/ /\ \E p \in Working \cup {"release"} : ctx' = Goto(w, p)
     /\ ctx[w].pc \in Working
  \/ ctx' = Failed(w)
  \/ ctx' = Closed(w)
  \/ ctx' = Aborted(w)

LEMMA AfterCommitAdvances ==
  ASSUME NEW w, ctx[w].pc \in Working, AfterCommit(w) PROVE Advance(w)
BY DEF AfterCommit, Advance, Working

LEMMA QueuedJobsAdvance ==
  ASSUME NEW w \in Worker, QueuedJobsStep(w) PROVE Advance(w) /\ UNCHANGED locks
<1>1. CASE Download(w)
  BY <1>1 DEF Download, At, Advance, Working
<1>2. CASE GenerateInit(w)
  BY <1>2 DEF GenerateInit, At, Advance, Working
<1>3. CASE CutSegments(w)
  BY <1>3 DEF CutSegments, At, Advance, Working
<1>4. CASE CommitTasks(w)
  BY <1>4, AfterCommitAdvances DEF CommitTasks, At, Working
<1>5. CASE RetryJob(w)
  BY <1>5 DEF RetryJob, At, Advance
<1> QED
  BY <1>1, <1>2, <1>3, <1>4, <1>5 DEF QueuedJobsStep

LEMMA TranscodeTasksAdvance ==
  ASSUME NEW w \in Worker, TranscodeTasksStep(w) PROVE Advance(w) /\ UNCHANGED locks
<1>1. CASE Transcode(w)
  BY <1>1 DEF Transcode, At, Advance, Working
<1>2. CASE CommitUpload(w)
  BY <1>2, AfterCommitAdvances DEF CommitUpload, At, Working
<1>3. CASE RetryTranscode(w)
  BY <1>3 DEF RetryTranscode, At, Advance
<1> QED
  BY <1>1, <1>2, <1>3 DEF TranscodeTasksStep

LEMMA UploadTasksAdvance ==
  ASSUME NEW w \in Worker, UploadTasksStep(w) PROVE Advance(w) /\ UNCHANGED locks
<1>1. CASE UploadFiles(w)
  BY <1>1 DEF UploadFiles, At, Advance, Working
<1>2. CASE CommitUploaded(w)
  BY <1>2, AfterCommitAdvances DEF CommitUploaded, At, Working
<1>3. CASE RetryUpload(w)
  BY <1>3 DEF RetryUpload, At, Advance
<1> QED
  BY <1>1, <1>2, <1>3 DEF UploadTasksStep

LEMMA CompletedJobsAdvance ==
  ASSUME NEW w \in Worker, CompletedJobsStep(w) PROVE Advance(w) /\ UNCHANGED locks
<1>1. CASE Check(w)
  BY <1>1 DEF Check, At, Advance, Working
<1>2. CASE CommitCompleted(w)
  BY <1>2, AfterCommitAdvances DEF CommitCompleted, At, Working
<1>3. CASE PrepareManifest(w)
  BY <1>3 DEF PrepareManifest, At, Advance, Working
<1>4. CASE ProbeFails(w)
  BY <1>4 DEF ProbeFails, At, Advance
<1>5. CASE AnnounceCompleted(w)
  BY <1>5, AfterCommitAdvances DEF AnnounceCompleted, CommitAnnouncement, At, Working
<1> QED
  BY <1>1, <1>2, <1>3, <1>4, <1>5 DEF CompletedJobsStep

LEMMA FailedJobsAdvance ==
  ASSUME NEW w \in Worker, FailedJobsStep(w) PROVE Advance(w) /\ UNCHANGED locks
<1>1. CASE CleanUp(w)
  BY <1>1 DEF CleanUp, At, Advance, Working
<1>2. CASE AnnounceFailed(w)
  BY <1>2, AfterCommitAdvances DEF AnnounceFailed, CommitAnnouncement, At, Working
<1> QED
  BY <1>1, <1>2 DEF FailedJobsStep

LEMMA OutboxEventsAdvance ==
  ASSUME NEW w \in Worker, OutboxEventsStep(w) PROVE Advance(w) /\ UNCHANGED locks
<1>1. CASE SkipEvent(w)
  BY <1>1 DEF SkipEvent, At, Advance, Working
<1>2. CASE Publish(w)
  BY <1>2 DEF Publish, At, Advance, Working
<1>3. CASE PublishFails(w)
  BY <1>3 DEF PublishFails, At, Advance
<1>4. CASE CommitProcessed(w)
  BY <1>4, AfterCommitAdvances DEF CommitProcessed, At, Working
<1>5. CASE RetryEvent(w)
  BY <1>5 DEF RetryEvent, At, Advance
<1> QED
  BY <1>1, <1>2, <1>3, <1>4, <1>5 DEF OutboxEventsStep

LEMMA TaskStepAdvances ==
  ASSUME NEW w \in Worker, TaskStep(w) PROVE Advance(w) /\ UNCHANGED locks
BY QueuedJobsAdvance, TranscodeTasksAdvance, UploadTasksAdvance, CompletedJobsAdvance,
   FailedJobsAdvance, OutboxEventsAdvance DEF TaskStep

(* A worker that stays inside the body keeps its item and its locks.        *)
Quiet(w) ==
  /\ UNCHANGED locks
  /\ \E c : /\ ctx' = [ctx EXCEPT ![w] = c]
            /\ c.task = ctx[w].task /\ c.cur = ctx[w].cur /\ c.held = ctx[w].held
            /\ c.pc \notin {"idle", "pick", "lock"}
            /\ c.pc \in Working => ctx[w].pc \in Working

LEMMA AdvanceQuiet ==
  ASSUME TypeOK, NEW w \in Worker, Advance(w), UNCHANGED locks PROVE Quiet(w)
<1> DEFINE r == ctx[w]
<1>0. DOMAIN r = DOMAIN Idle
  BY DEF TypeOK, ContextOK
<1>1. ASSUME NEW p \in Working \cup {"release"}, ctx' = Goto(w, p), r.pc \in Working
      PROVE  Quiet(w)
  <2> DEFINE c == [r EXCEPT !.pc = p]
  <2>1. ctx' = [ctx EXCEPT ![w] = c]
    BY <1>1 DEF Goto
  <2>2. c.task = r.task /\ c.cur = r.cur /\ c.held = r.held /\ c.pc = p
    BY <1>0 DEF Idle
  <2> QED
    BY <1>1, <2>1, <2>2 DEF Quiet, Working
<1>2. CASE ctx' = Failed(w)
  <2> DEFINE c == [r EXCEPT !.pc = "rescue", !.seen = NoRows]
  <2>1. ctx' = [ctx EXCEPT ![w] = c]
    BY <1>2 DEF Failed
  <2>2. c.task = r.task /\ c.cur = r.cur /\ c.held = r.held /\ c.pc = "rescue"
    BY <1>0 DEF Idle
  <2> QED
    BY <2>1, <2>2 DEF Quiet, Working
<1>3. CASE ctx' = Closed(w)
  <2> DEFINE c == [r EXCEPT !.pc = "release", !.seen = NoRows]
  <2>1. ctx' = [ctx EXCEPT ![w] = c]
    BY <1>3 DEF Closed
  <2>2. c.task = r.task /\ c.cur = r.cur /\ c.held = r.held /\ c.pc = "release"
    BY <1>0 DEF Idle
  <2> QED
    BY <2>1, <2>2 DEF Quiet, Working
<1>4. CASE ctx' = Aborted(w)
  <2> DEFINE c == [r EXCEPT !.pc = "release", !.todo = {}, !.seen = NoRows]
  <2>1. ctx' = [ctx EXCEPT ![w] = c]
    BY <1>4 DEF Aborted
  <2>2. c.task = r.task /\ c.cur = r.cur /\ c.held = r.held /\ c.pc = "release"
    BY <1>0 DEF Idle
  <2> QED
    BY <2>1, <2>2 DEF Quiet, Working
<1> QED
  BY <1>1, <1>2, <1>3, <1>4 DEF Advance
LEMMA RaiseQuiet ==
  ASSUME TypeOK, NEW w \in Worker, Raise(w) \/ RaiseInRescue(w) PROVE Quiet(w)
<1>1. Advance(w) /\ UNCHANGED locks
  BY DEF Raise, RaiseInRescue, Advance
<1> QED
  BY <1>1, AdvanceQuiet

LEMMA RescueQuiet == ASSUME TypeOK, NEW w \in Worker, Rescue(w) PROVE Quiet(w)
<1>1. CASE ctx[w].task \in Retrying
  <2> DEFINE row == [x \in {Cur(w)} |-> Table(ctx[w].task)[x]]
             c == [ctx[w] EXCEPT !.pc = "retry", !.loaded = Parents(w), !.seen = row]
  <2>1. ctx' = [ctx EXCEPT ![w] = c]
    BY <1>1 DEF Rescue
  <2>2. /\ c.task = ctx[w].task /\ c.cur = ctx[w].cur
        /\ c.held = ctx[w].held /\ c.pc = "retry"
    BY DEF TypeOK, ContextOK, Idle
  <2> QED
    BY <2>1, <2>2 DEF Quiet, Rescue, Working
<1>2. CASE ctx[w].task \notin Retrying
  BY <1>2, AdvanceQuiet DEF Rescue, Advance
<1> QED
  BY <1>1, <1>2

-----------------------------------------------------------------------------
(* What a worker owns, it has in hand.                                      *)

LEMMA QuietHand ==
  ASSUME TypeOK, HandInv, NEW w \in Worker, Quiet(w) PROVE HandInv'
<1>1. PICK c : /\ ctx' = [ctx EXCEPT ![w] = c]
               /\ c.cur = ctx[w].cur /\ c.held = ctx[w].held
               /\ c.pc \notin {"idle", "pick", "lock"}
  BY DEF Quiet
<1>2. /\ \A x \in Worker : ctx'[x].cur = ctx[x].cur /\ ctx'[x].held = ctx[x].held
      /\ \A x \in Worker \ {w} : ctx'[x] = ctx[x]
      /\ ctx'[w].pc \notin {"idle", "pick", "lock"}
  BY <1>1 DEF TypeOK
<1>3. NoLeakedLock'
  BY <1>2 DEF Quiet, HandInv, NoLeakedLock, Cur, TypeOK, WorldOK, LockRow
<1>4. HandsEmpty'
  BY <1>2 DEF HandInv, HandsEmpty
<1> QED
  BY <1>3, <1>4 DEF HandInv

(* A worker leaves the body of the loop, or is not in it: its hand is empty. *)
Empties(w) ==
  \E c : /\ ctx' = [ctx EXCEPT ![w] = c]
        /\ c.held = {} /\ c.pc \in {"idle", "pick", "lock"}

LEMMA StartEmpties == ASSUME TypeOK, NEW w \in Worker, Start(w) PROVE Empties(w)
<1>1. PICK task, eligible : Begin(w, task, eligible)
  BY DEF Start, StartQueuedJobs, StartTranscodeTasks, StartUploadTasks, StartCheck,
         StartCompletedJobs, StartFailedJobs, StartOutboxEvents
<1>2. PICK batch :
        ctx' = [ctx EXCEPT ![w] =
                 [Idle EXCEPT !.task = task, !.pc = "pick", !.todo = batch,
                              !.seen = [x \in batch |-> Table(task)[x]]]]
  BY <1>1 DEF Begin
<1> DEFINE c == [Idle EXCEPT !.task = task, !.pc = "pick", !.todo = batch,
                             !.seen = [x \in batch |-> Table(task)[x]]]
<1>3. c.held = {} /\ c.pc = "pick"
  BY DEF Idle
<1> HIDE DEF c
<1> QED
  BY <1>2, <1>3 DEF Empties, c

LEMMA PickEmpties ==
  ASSUME TypeOK, NEW w \in Worker, ctx[w].held = {}, Pick(w) PROVE Empties(w)
<1> DEFINE r == ctx[w]
<1>1. PICK x \in r.todo :
        ctx' = [ctx EXCEPT ![w].pc = "lock", ![w].cur = x, ![w].todo = @ \ {x},
                  ![w].seen = Insert(@, {x}, Table(ctx[w].task)[x])]
  BY DEF Pick
<1> DEFINE c == [r EXCEPT !.pc = "lock", !.cur = x, !.todo = @ \ {x},
                          !.seen = Insert(@, {x}, Table(r.task)[x])]
<1>2. ctx' = [ctx EXCEPT ![w] = c]
  BY <1>1
<1>3. c.held = {} /\ c.pc = "lock"
  BY DEF TypeOK, ContextOK, Idle
<1> HIDE DEF c
<1> QED
  BY <1>2, <1>3 DEF Empties

LEMMA IdleEmpties ==
  ASSUME NEW w \in Worker, Finish(w) \/ Crash(w) PROVE Empties(w)
<1>1. ctx' = [ctx EXCEPT ![w] = Idle]
  BY DEF Finish, Crash
<1>2. Idle.held = {} /\ Idle.pc = "idle"
  BY DEF Idle
<1> QED
  BY <1>1, <1>2 DEF Empties

LEMMA ReleaseEmpties ==
  ASSUME TypeOK, NEW w \in Worker, Release(w) \/ ReleaseFails(w) PROVE Empties(w)
<1>1. PICK todo : ctx' = Emptied(w, todo)
  BY DEF Release, ReleaseFails
<1> DEFINE c == [ctx[w] EXCEPT !.pc = "pick", !.cur = Nil, !.todo = todo,
                               !.loaded = NotLoaded, !.held = {}]
<1>2. ctx' = [ctx EXCEPT ![w] = c]
  BY <1>1 DEF Emptied
<1>3. c.held = {} /\ c.pc = "pick"
  BY DEF TypeOK, ContextOK, Idle
<1> HIDE DEF c
<1> QED
  BY <1>2, <1>3 DEF Empties

(* Taking a batch, picking and finishing: nothing was held before either.   *)
LEMMA LoopEmpties ==
  ASSUME TypeOK, HandInv, NEW w \in Worker, Start(w) \/ Pick(w) \/ Finish(w)
  PROVE  /\ Empties(w)
         /\ UNCHANGED locks
         /\ \A l \in locks : l.owner # w
<1>1. ctx[w].held = {} /\ UNCHANGED locks
  <2>1. CASE Start(w)
    BY <2>1 DEF Start, StartQueuedJobs, StartTranscodeTasks, StartUploadTasks, StartCheck,
                StartCompletedJobs, StartFailedJobs, StartOutboxEvents, Begin,
                TypeOK, ContextOK, HandInv, HandsEmpty
  <2>2. CASE Pick(w) \/ Finish(w)
    BY <2>2 DEF Pick, Finish, HandInv, HandsEmpty
  <2> QED
    BY <2>1, <2>2
<1>2. \A l \in locks : l.owner # w
  BY <1>1, StoreAssumption DEF HandInv, NoLeakedLock
<1> QED
  BY <1>1, <1>2, StartEmpties, PickEmpties, IdleEmpties

(* The worker empties its hand; no lock of its own is left, and those of the *)
(* others are the same as before.                                           *)
LEMMA HandEmptied ==
  ASSUME TypeOK, HandInv, NEW w \in Worker, Empties(w),
         \A l \in locks' : l.owner # Nil => l \in locks /\ l.owner # w
  PROVE  HandInv'
<1>1. PICK c : ctx' = [ctx EXCEPT ![w] = c] /\ c.held = {}
  BY DEF Empties
<1>2. /\ \A x \in Worker \ {w} : ctx'[x] = ctx[x]
      /\ ctx'[w] = c
  BY <1>1 DEF TypeOK
<1> QED
  BY <1>1, <1>2 DEF HandInv, NoLeakedLock, HandsEmpty, Cur, TypeOK, WorldOK, LockRow

(* How an acquired lock changes a worker.                                   *)
Acquired(w, state, next, loaded) ==
  /\ locks' = locks \cup {[state |-> state, id |-> Cur(w), owner |-> w]}
  /\ \E c : /\ ctx' = [ctx EXCEPT ![w] = c]
            /\ c.task = ctx[w].task /\ c.cur = ctx[w].cur /\ c.pc = next
            /\ c.held = ctx[w].held \cup {state}

LEMMA AcquireCases ==
  ASSUME TypeOK, NEW w \in Worker, NEW state, NEW next, NEW loaded,
         Acquire(w, state, next, loaded)
  PROVE  \/ ~Taken(state, Cur(w)) /\ Acquired(w, state, next, loaded)
         \/ Quiet(w)
<1> DEFINE r == ctx[w]
<1>0. DOMAIN r = DOMAIN Idle
  BY DEF TypeOK, ContextOK
<1>1. CASE ctx' = [ctx EXCEPT ![w].pc = next, ![w].loaded = loaded,
                              ![w].held = @ \cup {state}]
           /\ ~Taken(state, Cur(w))
           /\ locks' = locks \cup {[state |-> state, id |-> Cur(w), owner |-> w]}
  <2> DEFINE c == [r EXCEPT !.pc = next, !.loaded = loaded, !.held = @ \cup {state}]
  <2>1. ctx' = [ctx EXCEPT ![w] = c]
    BY <1>1
  <2>2. /\ c.task = r.task /\ c.cur = r.cur /\ c.pc = next
        /\ c.held = r.held \cup {state}
    BY <1>0 DEF Idle
  <2> HIDE DEF c
  <2> QED
    BY <1>1, <2>1, <2>2 DEF Acquired
<1>2. CASE ctx' = Goto(w, "release") /\ UNCHANGED locks
  <2> DEFINE c == [r EXCEPT !.pc = "release"]
  <2>1. ctx' = [ctx EXCEPT ![w] = c]
    BY <1>2 DEF Goto
  <2>2. c.task = r.task /\ c.cur = r.cur /\ c.held = r.held /\ c.pc = "release"
    BY <1>0 DEF Idle
  <2> HIDE DEF c
  <2> QED
    BY <1>2, <2>1, <2>2 DEF Quiet, Working
<1> QED
  BY <1>1, <1>2 DEF Acquire

(* The lock that a step tries to take.                                      *)
LEMMA LockingSteps ==
  ASSUME TypeOK, NEW w \in Worker, LockItem(w) \/ LockCommit(w)
  PROVE  \E state, next, loaded :
           /\ state \in {"PROCESSING", "COMMITTING"} /\ next \in Working
           /\ Acquire(w, state, next, loaded)
BY DEF LockItem, LockCommit, Working

LEMMA LockingHand ==
  ASSUME TypeOK, HandInv, NEW w \in Worker, LockItem(w) \/ LockCommit(w)
  PROVE  HandInv'
<1>1. PICK state, next, loaded :
        /\ state \in {"PROCESSING", "COMMITTING"} /\ next \in Working
        /\ Acquire(w, state, next, loaded)
  BY LockingSteps
<1>2. CASE Acquired(w, state, next, loaded)
  <2>1. PICK c : /\ ctx' = [ctx EXCEPT ![w] = c]
                 /\ c.cur = ctx[w].cur /\ c.pc = next
                 /\ c.held = ctx[w].held \cup {state}
    BY <1>2 DEF Acquired
  <2>2. /\ \A x \in Worker \ {w} : ctx'[x] = ctx[x]
        /\ ctx'[w] = c
    BY <2>1 DEF TypeOK
  <2>3. NoLeakedLock'
    BY <1>1, <1>2, <2>1, <2>2
       DEF Acquired, HandInv, NoLeakedLock, Cur, TypeOK, WorldOK, LockRow
  <2>4. HandsEmpty'
    BY <1>1, <2>1, <2>2 DEF HandInv, HandsEmpty, Working
  <2> QED
    BY <2>3, <2>4 DEF HandInv
<1>3. CASE Quiet(w)
  BY <1>3, QuietHand
<1> QED
  BY <1>1, <1>2, <1>3, AcquireCases

(* What is left of the locks when a worker releases, or fails to.           *)
LEMMA ReleasedLocks ==
  ASSUME TypeOK, HandInv, NEW w \in Worker,
         Release(w) \/ ReleaseFails(w) \/ Crash(w)
  PROVE  /\ \A l \in locks' : l.owner # Nil => l \in locks /\ l.owner # w
         /\ \A l \in locks : l.owner # w => l \in locks'
<1>1. CASE Release(w)
  BY <1>1, StoreAssumption DEF Release, HandInv, NoLeakedLock
<1>2. CASE ReleaseFails(w)
  <2>1. PICK kept :
          locks' = {IF l.owner = w THEN [l EXCEPT !.owner = Nil] ELSE l :
                     l \in {k \in locks : k.owner = w => k.state \in kept}}
    BY <1>2 DEF ReleaseFails
  <2>2. \A l \in locks : l.owner = w => [l EXCEPT !.owner = Nil].owner = Nil
    BY DEF TypeOK, WorldOK, LockRow
  <2>3. \A l \in locks' : l.owner # Nil => l \in locks /\ l.owner # w
    <3> SUFFICES ASSUME NEW l \in locks', l.owner # Nil PROVE l \in locks /\ l.owner # w
      OBVIOUS
    <3>1. PICK k \in locks : l = IF k.owner = w THEN [k EXCEPT !.owner = Nil] ELSE k
      BY <2>1
    <3> QED
      BY <2>2, <3>1
  <2>4. \A l \in locks : l.owner # w => l \in locks'
    BY <2>1
  <2> QED
    BY <2>3, <2>4
<1>3. CASE Crash(w)
  BY <1>3, StoreAssumption DEF Crash, TypeOK, WorldOK, LockRow
<1> QED
  BY <1>1, <1>2, <1>3

LEMMA ReleasingHand ==
  ASSUME TypeOK, HandInv, NEW w \in Worker,
         Release(w) \/ ReleaseFails(w) \/ Crash(w)
  PROVE  HandInv'
BY ReleasedLocks, ReleaseEmpties, IdleEmpties, HandEmptied

LEMMA StillHand ==
  ASSUME TypeOK, HandInv, UNCHANGED ctx, locks' \subseteq locks PROVE HandInv'
BY DEF HandInv, NoLeakedLock, HandsEmpty, Cur

LEMMA StepHand == TypeOK /\ HandInv /\ [Next]_vars => HandInv'
<1> SUFFICES ASSUME TypeOK, HandInv, [Next]_vars PROVE HandInv'
  OBVIOUS
<1>1. CASE \E j \in Job : JobArrives(j)
  BY <1>1, StillHand DEF JobArrives
<1>2. ASSUME NEW w \in Worker, Start(w) PROVE HandInv'
  BY <1>2, LoopEmpties, HandEmptied
<1>3. ASSUME NEW w \in Worker, LoopStep(w) PROVE HandInv'
  BY <1>3, LoopEmpties, HandEmptied, LockingHand, ReleasingHand, RaiseQuiet, RescueQuiet,
     QuietHand DEF LoopStep
<1>4. ASSUME NEW w \in Worker, TaskStep(w) PROVE HandInv'
  BY <1>4, TaskStepAdvances, AdvanceQuiet, QuietHand
<1>5. ASSUME NEW w \in Worker, Crash(w) PROVE HandInv'
  BY <1>5, ReleasingHand
<1>6. CASE Expire
  BY <1>6, StillHand DEF Expire
<1>7. CASE RetryWindowOpens
  BY <1>7, StillHand DEF RetryWindowOpens
<1>8. CASE UNCHANGED vars
  BY <1>8, StillHand DEF vars
<1> QED
  BY <1>1, <1>2, <1>3, <1>4, <1>5, <1>6, <1>7, <1>8 DEF Next

LEMMA InitHand == Init => HandInv
BY DEF Init, HandInv, NoLeakedLock, HandsEmpty, Idle

LEMMA HandCorrect == Spec => []HandInv
BY InitHand, StepHand, TypeCorrect, PTL DEF Spec

(* NothingLeaks: a lock with a live owner is always of the item, and among    *)
(* the locks, that the owner has in hand: every path out of the loop's body *)
(* (a taken lock, an exception, a failing handler, a failing release, a     *)
(* crash) gives the locks back or leaves them to their TTL.                 *)
THEOREM NothingLeaks == Spec => []NoLeakedLock
<1>1. HandInv => NoLeakedLock
  BY DEF HandInv
<1> QED
  BY <1>1, HandCorrect, PTL

-----------------------------------------------------------------------------
(* Nobody deletes another worker's lock.                                    *)

(* OthersLocksSafe: a lock with a live owner is only deleted by a step of    *)
(* that owner, or by its TTL.                                               *)
THEOREM OthersLocksSafe == Spec => LocksOfOthersStay
<1>1. ASSUME TypeOK, HandInv, Next, NEW l \in locks, l.owner # Nil, l \notin locks',
             ctx' # ctx
      PROVE  ctx'[l.owner] # ctx[l.owner]
  <2>1. ASSUME NEW w \in Worker, Release(w) \/ ReleaseFails(w) \/ Crash(w)
        PROVE  ctx'[l.owner] # ctx[l.owner]
    <3>1. l.owner = w
      BY <1>1, <2>1, ReleasedLocks
    <3>2. CASE Crash(w)
      BY <1>1, <3>1, <3>2, StoreAssumption DEF Crash, Idle, TypeOK
    <3>3. CASE Release(w) \/ ReleaseFails(w)
      <4>1. PICK todo : ctx' = Emptied(w, todo)
        BY <3>3 DEF Release, ReleaseFails
      <4> DEFINE c == [ctx[w] EXCEPT !.pc = "pick", !.cur = Nil, !.todo = todo,
                                     !.loaded = NotLoaded, !.held = {}]
      <4>2. ctx'[w] = c
        BY <1>1, <4>1 DEF Emptied, TypeOK
      <4>3. c.pc = "pick" /\ ctx[w].pc = "release"
        BY <1>1, <3>3 DEF Release, ReleaseFails, TypeOK, ContextOK, Idle
      <4> QED
        BY <3>1, <4>2, <4>3
    <3> QED
      BY <2>1, <3>2, <3>3
  <2>2. ASSUME NEW w \in Worker, LockItem(w) \/ LockCommit(w) PROVE FALSE
    <3>1. PICK state, next, loaded : Acquire(w, state, next, loaded)
      BY <1>1, <2>2, LockingSteps
    <3> QED
      BY <1>1, <3>1 DEF Acquire
  <2>3. ASSUME NEW w \in Worker, Start(w) PROVE FALSE
    BY <1>1, <2>3
       DEF Start, StartQueuedJobs, StartTranscodeTasks, StartUploadTasks, StartCheck,
           StartCompletedJobs, StartFailedJobs, StartOutboxEvents, Begin
  <2>4. ASSUME NEW w \in Worker,
               Pick(w) \/ Finish(w) \/ Raise(w) \/ Rescue(w) \/ RaiseInRescue(w)
        PROVE  FALSE
    BY <1>1, <2>4 DEF Pick, Finish, Raise, Rescue, RaiseInRescue
  <2>5. ASSUME NEW w \in Worker, TaskStep(w) PROVE FALSE
    BY <1>1, <2>5, TaskStepAdvances
  <2>6. CASE (\E j \in Job : JobArrives(j)) \/ Expire \/ RetryWindowOpens
    BY <1>1, <2>6 DEF JobArrives, Expire, RetryWindowOpens
  <2> QED
    BY <1>1, <2>1, <2>2, <2>3, <2>4, <2>5, <2>6 DEF Next, LoopStep
<1>2. TypeOK /\ HandInv /\ [Next]_vars =>
        [\A l \in locks :
           l.owner # Nil /\ l \notin locks' /\ ctx' # ctx
             => ctx'[l.owner] # ctx[l.owner]]_vars
  BY <1>1
<1> QED
  BY <1>2, TypeCorrect, HandCorrect, PTL DEF Spec, LocksOfOthersStay

-----------------------------------------------------------------------------
(* Mutual exclusion, as long as no lock expires under its owner.            *)

FirstLock(task) == IF task = "process_outbox_events" THEN "COMMITTING" ELSE "PROCESSING"

OneOwner == \A l, k \in locks : l.state = k.state /\ l.id = k.id => l = k

(* What a worker believes held is held.                                     *)
HeldIsLocked ==
  \A w \in Worker : \A s \in ctx[w].held :
    \E l \in locks : l.state = s /\ l.id = Cur(w) /\ l.owner = w

WorkIsLocked ==
  \A w \in Worker : ctx[w].pc \in Working => FirstLock(ctx[w].task) \in ctx[w].held

LockInv == HandInv /\ OneOwner /\ HeldIsLocked /\ WorkIsLocked

LEMMA DisjointIds ==
  /\ Job \cap EventId = {}
  /\ TaskId \cap EventId = {}
  /\ UploadId \cap EventId = {}
<1>1. Job \cap EventId = {} /\ Job \cap TaskId = {}
  BY StoreAssumption
<1>2. TaskId \cap EventId = {}
  BY DEF TaskId, EventId
<1>3. UploadId \cap EventId = {}
  BY <1>1 DEF UploadId, EventId
<1> QED
  BY <1>1, <1>2, <1>3

LEMMA LockInvExcludes == TypeOK /\ LockInv => MutualExclusion
<1> SUFFICES ASSUME TypeOK, LockInv, NEW w \in Worker, NEW x \in Worker, w # x,
                    ctx[w].pc \in Working, ctx[x].pc \in Working, Cur(w) = Cur(x)
             PROVE  FALSE
  BY DEF MutualExclusion
<1>1. PICK l \in locks :
        l.state = FirstLock(ctx[w].task) /\ l.id = Cur(w) /\ l.owner = w
  BY DEF LockInv, HeldIsLocked, WorkIsLocked
<1>2. PICK k \in locks :
        k.state = FirstLock(ctx[x].task) /\ k.id = Cur(x) /\ k.owner = x
  BY DEF LockInv, HeldIsLocked, WorkIsLocked
<1>3. FirstLock(ctx[w].task) # FirstLock(ctx[x].task)
  BY <1>1, <1>2 DEF LockInv, OneOwner
<1>4. InBody(w) /\ InBody(x)
  BY DEF InBody, Working
<1>5. Cur(w) \in ItemIds(ctx[w].task) /\ Cur(x) \in ItemIds(ctx[x].task)
  BY <1>4, ItemInHand
<1>6. /\ DOMAIN job \subseteq Job /\ DOMAIN transcode \subseteq TaskId
      /\ DOMAIN upload \subseteq UploadId /\ DOMAIN outbox \subseteq EventId
  BY Tables DEF IsTable
<1>7. \A task \in TaskName :
        /\ task = "process_outbox_events" => ItemIds(task) = DOMAIN outbox
        /\ task # "process_outbox_events" =>
             ItemIds(task) \in {DOMAIN job, DOMAIN transcode, DOMAIN upload}
  BY DEF ItemIds, TaskName, JobTasks, Retrying
<1>8. ctx[w].task \in TaskName /\ ctx[x].task \in TaskName
  BY <1>4, ItemInHand
<1> QED
  BY <1>3, <1>5, <1>6, <1>7, <1>8, DisjointIds DEF FirstLock

LEMMA QuietLock == ASSUME TypeOK, LockInv, NEW w \in Worker, Quiet(w) PROVE LockInv'
<1>1. PICK c : /\ ctx' = [ctx EXCEPT ![w] = c]
               /\ c.task = ctx[w].task /\ c.cur = ctx[w].cur /\ c.held = ctx[w].held
               /\ c.pc \in Working => ctx[w].pc \in Working
  BY DEF Quiet
<1>2. \A x \in Worker : /\ ctx'[x].task = ctx[x].task
                        /\ ctx'[x].cur = ctx[x].cur
                        /\ ctx'[x].held = ctx[x].held
                        /\ ctx'[x].pc \in Working => ctx[x].pc \in Working
  BY <1>1 DEF TypeOK
<1>3. HandInv'
  BY QuietHand DEF LockInv
<1>4. OneOwner' /\ HeldIsLocked'
  BY <1>2 DEF Quiet, LockInv, OneOwner, HeldIsLocked, Cur
<1>5. WorkIsLocked'
  BY <1>2 DEF LockInv, WorkIsLocked
<1> QED
  BY <1>3, <1>4, <1>5 DEF LockInv

(* A worker that empties its hand disturbs no other, if its step leaves the  *)
(* locks of the others.                                                     *)
LEMMA EmptiedLock ==
  ASSUME TypeOK, LockInv, NEW w \in Worker, Empties(w), HandInv', OneOwner',
         \A l \in locks : l.owner # w => l \in locks'
  PROVE  LockInv'
<1>1. PICK c : ctx' = [ctx EXCEPT ![w] = c] /\ c.held = {} /\ c.pc \notin Working
  BY DEF Empties, Working
<1>2. /\ \A x \in Worker \ {w} : ctx'[x] = ctx[x]
      /\ ctx'[w] = c
  BY <1>1 DEF TypeOK
<1>3. HeldIsLocked'
  BY <1>1, <1>2 DEF LockInv, HeldIsLocked, Cur
<1>4. WorkIsLocked'
  BY <1>1, <1>2 DEF LockInv, WorkIsLocked
<1> QED
  BY <1>3, <1>4 DEF LockInv

LEMMA ReleasingLock ==
  ASSUME TypeOK, LockInv, NEW w \in Worker,
         Release(w) \/ ReleaseFails(w) \/ Crash(w)
  PROVE  LockInv'
<1>1. HandInv'
  BY ReleasingHand DEF LockInv
<1>2. OneOwner'
  <2> DEFINE orphan(l) == [l EXCEPT !.owner = Nil]
             left(l) == IF l.owner = w THEN orphan(l) ELSE l
  <2>1. \A l \in locks : left(l).state = l.state /\ left(l).id = l.id
    BY DEF TypeOK, WorldOK, LockRow
  <2>2. locks' \subseteq locks \/ \A k \in locks' : \E l \in locks : k = left(l)
    <3>1. CASE Release(w)
      BY <3>1 DEF Release
    <3>2. CASE ReleaseFails(w)
      BY <3>2 DEF ReleaseFails
    <3>3. CASE Crash(w)
      <4>1. locks' = {[l EXCEPT !.owner = IF @ = w THEN Nil ELSE @] : l \in locks}
        BY <3>3 DEF Crash
      <4>2. \A l \in locks : [l EXCEPT !.owner = IF @ = w THEN Nil ELSE @] = left(l)
        BY DEF TypeOK, WorldOK, LockRow
      <4> QED
        BY <4>1, <4>2
    <3> QED
      BY <3>1, <3>2, <3>3
  <2> HIDE DEF left
  <2> QED
    BY <2>1, <2>2 DEF LockInv, OneOwner
<1> QED
  BY <1>1, <1>2, ReleasedLocks, ReleaseEmpties, IdleEmpties, EmptiedLock DEF LockInv

LEMMA LoopLock ==
  ASSUME TypeOK, LockInv, NEW w \in Worker, Start(w) \/ Pick(w) \/ Finish(w)
  PROVE  LockInv'
<1>1. Empties(w) /\ UNCHANGED locks /\ \A l \in locks : l.owner # w
  BY LoopEmpties DEF LockInv
<1>2. HandInv' /\ OneOwner'
  BY <1>1, HandEmptied DEF LockInv, OneOwner
<1> QED
  BY <1>1, <1>2, EmptiedLock

(* Before its work a worker takes the first lock, after it the second.      *)
LEMMA LockingLock ==
  ASSUME TypeOK, LockInv, NEW w \in Worker, LockItem(w) \/ LockCommit(w)
  PROVE  LockInv'
<1>1. PICK state, next, loaded :
        /\ state \in {"PROCESSING", "COMMITTING"} /\ next \in Working
        /\ Acquire(w, state, next, loaded)
        /\ state = FirstLock(ctx[w].task) \/ ctx[w].pc = "seal"
  BY DEF LockItem, LockCommit, Working, FirstLock
<1>2. CASE ~Taken(state, Cur(w)) /\ Acquired(w, state, next, loaded)
  <2>1. PICK c : /\ ctx' = [ctx EXCEPT ![w] = c]
                 /\ c.task = ctx[w].task /\ c.cur = ctx[w].cur /\ c.pc = next
                 /\ c.held = ctx[w].held \cup {state}
    BY <1>2 DEF Acquired
  <2>2. /\ \A x \in Worker \ {w} : ctx'[x] = ctx[x]
        /\ ctx'[w] = c
    BY <2>1 DEF TypeOK
  <2> DEFINE new == [state |-> state, id |-> Cur(w), owner |-> w]
  <2>3. locks' = locks \cup {new} /\ new.state = state /\ new.id = Cur(w) /\ new.owner = w
    BY <1>2 DEF Acquired
  <2>4. HandInv'
    BY LockingHand DEF LockInv
  <2>5. OneOwner'
    BY <1>2, <2>3 DEF LockInv, OneOwner, Taken
  <2> HIDE DEF new
  <2>6. HeldIsLocked'
    BY <2>1, <2>2, <2>3 DEF LockInv, HeldIsLocked, Cur
  <2>7. WorkIsLocked'
    <3>1. ctx[w].pc = "seal" => FirstLock(ctx[w].task) \in ctx[w].held
      BY DEF LockInv, WorkIsLocked, Working
    <3> QED
      BY <1>1, <2>1, <2>2, <3>1 DEF LockInv, WorkIsLocked
  <2> QED
    BY <2>4, <2>5, <2>6, <2>7 DEF LockInv
<1>3. CASE Quiet(w)
  BY <1>3, QuietLock
<1> QED
  BY <1>1, <1>2, <1>3, AcquireCases

(* A step that moves nobody and takes away orphaned locks only.             *)
LEMMA StillLock ==
  ASSUME TypeOK, LockInv, UNCHANGED ctx, locks' \subseteq locks,
         \A l \in locks : l.owner # Nil => l \in locks'
  PROVE  LockInv'
<1>1. HandInv'
  BY StillHand DEF LockInv
<1>2. OneOwner' /\ WorkIsLocked'
  BY DEF LockInv, OneOwner, WorkIsLocked
<1>3. HeldIsLocked'
  BY StoreAssumption DEF LockInv, HeldIsLocked, Cur
<1> QED
  BY <1>1, <1>2, <1>3 DEF LockInv

LEMMA StepLock ==
  ASSUME SlowWork = FALSE PROVE TypeOK /\ LockInv /\ [Next]_vars => LockInv'
<1> SUFFICES ASSUME TypeOK, LockInv, [Next]_vars PROVE LockInv'
  OBVIOUS
<1>1. CASE \E j \in Job : JobArrives(j)
  BY <1>1, StillLock DEF JobArrives
<1>2. ASSUME NEW w \in Worker, Start(w) PROVE LockInv'
  BY <1>2, LoopLock
<1>3. ASSUME NEW w \in Worker, LoopStep(w) PROVE LockInv'
  BY <1>3, LoopLock, LockingLock, ReleasingLock, RaiseQuiet, RescueQuiet, QuietLock
     DEF LoopStep
<1>4. ASSUME NEW w \in Worker, TaskStep(w) PROVE LockInv'
  BY <1>4, TaskStepAdvances, AdvanceQuiet, QuietLock
<1>5. ASSUME NEW w \in Worker, Crash(w) PROVE LockInv'
  BY <1>5, ReleasingLock
<1>6. CASE Expire
  BY <1>6, StillLock DEF Expire
<1>7. CASE RetryWindowOpens
  BY <1>7, StillLock DEF RetryWindowOpens
<1>8. CASE UNCHANGED vars
  BY <1>8, StillLock DEF vars
<1> QED
  BY <1>1, <1>2, <1>3, <1>4, <1>5, <1>6, <1>7, <1>8 DEF Next

LEMMA InitLock == Init => LockInv
BY InitHand DEF Init, LockInv, OneOwner, HeldIsLocked, WorkIsLocked, Idle, Working

(* OneAtATime: if no work outlasts LOCK_TTL, no two workers are ever at work  *)
(* on the same item, whatever crashes and fails.                            *)
THEOREM OneAtATime == ASSUME SlowWork = FALSE PROVE Spec => []MutualExclusion
<1>1. TypeOK /\ LockInv /\ [Next]_vars => LockInv'
  BY StepLock
<1>2. TypeOK /\ LockInv => MutualExclusion
  BY LockInvExcludes
<1> QED
  BY <1>1, <1>2, InitLock, TypeCorrect, PTL DEF Spec

-----------------------------------------------------------------------------
(* Where a step leaves the worker.                                          *)

LEMMA AdvancePc ==
  ASSUME TypeOK, NEW w \in Worker, Advance(w)
  PROVE  \E c : /\ ctx' = [ctx EXCEPT ![w] = c]
                /\ c.task = ctx[w].task /\ c.cur = ctx[w].cur
                /\ \/ c.pc = "rescue" /\ ctx' = Failed(w)
                   \/ c.pc = "release"
                   \/ c.pc \in Working /\ ctx' = Goto(w, c.pc)
<1> DEFINE r == ctx[w]
<1>0. DOMAIN r = DOMAIN Idle
  BY DEF TypeOK, ContextOK
<1>1. ASSUME NEW p \in Working \cup {"release"}, ctx' = Goto(w, p)
      PROVE  \E c : /\ ctx' = [ctx EXCEPT ![w] = c]
                    /\ c.task = r.task /\ c.cur = r.cur
                    /\ c.pc = "release" \/ (c.pc \in Working /\ ctx' = Goto(w, c.pc))
  <2> DEFINE c == [r EXCEPT !.pc = p]
  <2>1. ctx' = [ctx EXCEPT ![w] = c] /\ c.task = r.task /\ c.cur = r.cur /\ c.pc = p
    BY <1>0, <1>1 DEF Goto, Idle
  <2> HIDE DEF c
  <2> QED
    BY <1>1, <2>1
<1>2. CASE ctx' = Failed(w)
  <2> DEFINE c == [r EXCEPT !.pc = "rescue", !.seen = NoRows]
  <2>1. ctx' = [ctx EXCEPT ![w] = c] /\ c.task = r.task /\ c.cur = r.cur /\ c.pc = "rescue"
    BY <1>0, <1>2 DEF Failed, Idle
  <2> HIDE DEF c
  <2> QED
    BY <1>2, <2>1
<1>3. CASE ctx' = Closed(w)
  <2> DEFINE c == [r EXCEPT !.pc = "release", !.seen = NoRows]
  <2>1. ctx' = [ctx EXCEPT ![w] = c] /\ c.task = r.task /\ c.cur = r.cur /\ c.pc = "release"
    BY <1>0, <1>3 DEF Closed, Idle
  <2> HIDE DEF c
  <2> QED
    BY <2>1
<1>4. CASE ctx' = Aborted(w)
  <2> DEFINE c == [r EXCEPT !.pc = "release", !.todo = {}, !.seen = NoRows]
  <2>1. ctx' = [ctx EXCEPT ![w] = c] /\ c.task = r.task /\ c.cur = r.cur /\ c.pc = "release"
    BY <1>0, <1>4 DEF Aborted, Idle
  <2> HIDE DEF c
  <2> QED
    BY <2>1
<1> QED
  BY <1>1, <1>2, <1>3, <1>4 DEF Advance

(* The steps that the tasks have in common lead to the commit from "seal"    *)
(* only, to the bookkeeping only after a failure, and into none of the       *)
(* steps that follow some work.                                             *)
LoopMove(w, c) ==
  \/ c.pc \notin {"init", "cut", "seal", "commit", "rescue", "retry"}
  \/ /\ c.task = ctx[w].task /\ c.cur = ctx[w].cur
     /\ \/ ctx[w].pc = "seal" /\ c.pc = "commit"
        \/ ctx[w].pc = "rescue" /\ c.pc = "retry" /\ UNCHANGED faults
        \/ ctx[w].pc \notin {"idle", "pick"} /\ c.pc = "rescue" /\ Fault

LEMMA AcquireMoves ==
  ASSUME TypeOK, NEW w \in Worker, LockItem(w) \/ LockCommit(w)
  PROVE  \E c : ctx' = [ctx EXCEPT ![w] = c] /\ LoopMove(w, c)
<1> DEFINE r == ctx[w]
<1>0. DOMAIN r = DOMAIN Idle
  BY DEF TypeOK, ContextOK
<1>1. PICK state, next, loaded :
        /\ Acquire(w, state, next, loaded)
        /\ next \in {"publish", "work"} \/ (next = "commit" /\ r.pc = "seal")
  <2>1. CASE LockItem(w)
    BY <2>1 DEF LockItem
  <2>2. CASE LockCommit(w)
    <3>1. PICK loaded : Acquire(w, "COMMITTING", "commit", loaded)
      BY <2>2 DEF LockCommit
    <3> QED
      BY <2>2, <3>1 DEF LockCommit
  <2> QED
    BY <2>1, <2>2
<1>2. CASE ctx' = Goto(w, "release")
  <2> DEFINE c == [r EXCEPT !.pc = "release"]
  <2>1. ctx' = [ctx EXCEPT ![w] = c] /\ c.pc = "release"
    BY <1>0, <1>2 DEF Goto, Idle
  <2> HIDE DEF c
  <2> QED
    BY <2>1 DEF LoopMove
<1>3. CASE ctx' = [ctx EXCEPT ![w].pc = next, ![w].loaded = loaded,
                              ![w].held = @ \cup {state}]
  <2> DEFINE c == [r EXCEPT !.pc = next, !.loaded = loaded, !.held = @ \cup {state}]
  <2>1. ctx' = [ctx EXCEPT ![w] = c]
    BY <1>3
  <2>2. c.task = r.task /\ c.cur = r.cur /\ c.pc = next
    BY <1>0 DEF Idle
  <2> HIDE DEF c
  <2> QED
    BY <1>1, <2>1, <2>2 DEF LoopMove
<1> QED
  BY <1>1, <1>2, <1>3 DEF Acquire

LEMMA FailureMoves ==
  ASSUME TypeOK, NEW w \in Worker, Raise(w) \/ RaiseInRescue(w)
  PROVE  \E c : ctx' = [ctx EXCEPT ![w] = c] /\ LoopMove(w, c)
<1>1. Advance(w) /\ Fault /\ ctx[w].pc \notin {"idle", "pick"}
  BY DEF Raise, RaiseInRescue, Advance
<1>2. PICK c : /\ ctx' = [ctx EXCEPT ![w] = c]
               /\ c.task = ctx[w].task /\ c.cur = ctx[w].cur
               /\ \/ c.pc = "rescue" \/ c.pc = "release"
                  \/ c.pc \in Working /\ ctx' = Goto(w, c.pc)
  BY <1>1, AdvancePc
<1>3. ctx'[w].pc \in {"rescue", "release"}
  <2>1. DOMAIN ctx[w] = DOMAIN Idle /\ w \in DOMAIN ctx
    BY DEF TypeOK, ContextOK
  <2>2. ctx' \in {Failed(w), Closed(w), Aborted(w)}
    BY DEF Raise, RaiseInRescue
  <2> QED
    BY <2>1, <2>2 DEF Failed, Closed, Aborted, Idle
<1>4. c.pc \in {"rescue", "release"}
  BY <1>2, <1>3 DEF TypeOK
<1> QED
  BY <1>1, <1>2, <1>4 DEF LoopMove

LEMMA RescueMoves ==
  ASSUME TypeOK, NEW w \in Worker, Rescue(w)
  PROVE  \E c : ctx' = [ctx EXCEPT ![w] = c] /\ LoopMove(w, c)
<1> DEFINE r == ctx[w]
<1>0. DOMAIN r = DOMAIN Idle
  BY DEF TypeOK, ContextOK
<1>1. CASE r.task \in Retrying
  <2> DEFINE row == [x \in {Cur(w)} |-> Table(r.task)[x]]
             c == [r EXCEPT !.pc = "retry", !.loaded = Parents(w), !.seen = row]
  <2>1. ctx' = [ctx EXCEPT ![w] = c]
    BY <1>1 DEF Rescue
  <2>2. c.task = r.task /\ c.cur = r.cur /\ c.pc = "retry"
    BY <1>0 DEF Idle
  <2> HIDE DEF c
  <2> QED
    BY <2>1, <2>2 DEF Rescue, LoopMove
<1>2. CASE r.task \notin Retrying
  <2> DEFINE c == [r EXCEPT !.pc = "release", !.seen = NoRows]
  <2>1. ctx' = [ctx EXCEPT ![w] = c] /\ c.pc = "release"
    BY <1>0, <1>2 DEF Rescue, Closed, Idle
  <2> HIDE DEF c
  <2> QED
    BY <2>1 DEF LoopMove
<1> QED
  BY <1>1, <1>2

LEMMA EmptiedMoves ==
  ASSUME NEW w, Empties(w) PROVE \E c : ctx' = [ctx EXCEPT ![w] = c] /\ LoopMove(w, c)
<1>1. PICK c : ctx' = [ctx EXCEPT ![w] = c] /\ c.pc \in {"idle", "pick", "lock"}
  BY DEF Empties
<1> QED
  BY <1>1 DEF LoopMove

LEMMA PickMoves ==
  ASSUME TypeOK, NEW w \in Worker, Pick(w)
  PROVE  \E c : ctx' = [ctx EXCEPT ![w] = c] /\ LoopMove(w, c)
<1> DEFINE r == ctx[w]
<1>1. PICK x \in r.todo :
        ctx' = [ctx EXCEPT ![w].pc = "lock", ![w].cur = x, ![w].todo = @ \ {x},
                  ![w].seen = Insert(@, {x}, Table(ctx[w].task)[x])]
  BY DEF Pick
<1> DEFINE c == [r EXCEPT !.pc = "lock", !.cur = x, !.todo = @ \ {x},
                          !.seen = Insert(@, {x}, Table(r.task)[x])]
<1>2. ctx' = [ctx EXCEPT ![w] = c]
  BY <1>1
<1>3. c.pc = "lock"
  BY DEF TypeOK, ContextOK, Idle
<1> HIDE DEF c
<1> QED
  BY <1>2, <1>3 DEF LoopMove

LEMMA LoopMoves ==
  ASSUME TypeOK, NEW w \in Worker, Start(w) \/ LoopStep(w) \/ Crash(w)
  PROVE  \E c : ctx' = [ctx EXCEPT ![w] = c] /\ LoopMove(w, c)
<1>1. CASE Start(w) \/ Finish(w) \/ Crash(w) \/ Release(w) \/ ReleaseFails(w)
  BY <1>1, StartEmpties, IdleEmpties, ReleaseEmpties, EmptiedMoves
<1> QED
  BY <1>1, PickMoves, AcquireMoves, FailureMoves, RescueMoves DEF LoopStep

=============================================================================
