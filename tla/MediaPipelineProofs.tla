-------------------------- MODULE MediaPipelineProofs --------------------------
(***************************************************************************)
(* What TLAPS proves of the pipeline for any number of jobs, segments,     *)
(* workers, hosts, attempts and failures.                                  *)
(***************************************************************************)
EXTENDS PipelineProperties, TLAPS

-----------------------------------------------------------------------------
(* Tables.                                                                  *)

(* No row is ever deleted.                                                  *)
Grows ==
  /\ DOMAIN job \subseteq DOMAIN job'
  /\ DOMAIN transcode \subseteq DOMAIN transcode'
  /\ DOMAIN upload \subseteq DOMAIN upload'
  /\ DOMAIN outbox \subseteq DOMAIN outbox'

(* A context stays well typed while the tables grow.                        *)
LEMMA ContextKept ==
  ASSUME NEW c, ContextOK(c), Grows
  PROVE  ContextOK(c)'
<1>1. ItemIds(c.task) \subseteq ItemIds(c.task)'
  BY DEF ItemIds, Grows
<1>2. IsTable(c.seen, ItemIds(c.task), ItemRow(c.task))'
  BY <1>1 DEF ContextOK, IsTable
<1> QED
  BY <1>1, <1>2 DEF ContextOK

(* It is enough to look at the worker that moves.                           *)
LEMMA OneMoves ==
  ASSUME TypeOK, Grows, TablesOK', WorldOK', NEW w \in Worker, NEW c,
         ctx' = [ctx EXCEPT ![w] = c], ContextOK(c)
  PROVE  TypeOK'
<1>0. ContextOK(c)'
  BY ContextKept
<1>1. \A x \in Worker \ {w} : ctx'[x] = ctx[x] /\ ContextOK(ctx[x])
  BY DEF TypeOK
<1>2. \A x \in Worker \ {w} : ContextOK(ctx[x])'
  BY <1>1, ContextKept
<1>3. ctx'[w] = c /\ DOMAIN ctx' = Worker
  BY DEF TypeOK
<1> QED
  BY <1>0, <1>2, <1>3 DEF TypeOK

-----------------------------------------------------------------------------
(* Contexts.                                                                *)

InBody(w) == ctx[w].pc \notin {"idle", "pick"}
Inner == Pc \ {"idle", "pick", "rescue", "release"}

(* The ways in which a step inside the loop's body changes a context.       *)
BodyMove(w) ==
  \/ \E p \in Inner : ctx' = Goto(w, p) /\ Cur(w) \in DOMAIN ctx[w].seen
  \/ ctx' = Goto(w, "release")
  \/ ctx' = Failed(w)
  \/ ctx' = Closed(w)
  \/ ctx' = Aborted(w)

LEMMA NoRowsIsTable == ASSUME NEW K, NEW Row PROVE IsTable(NoRows, K, Row)
BY DEF IsTable, NoRows

(* None of them spoils the types, whatever the step does to typed tables.   *)
LEMMA BodyMoveType ==
  ASSUME TypeOK, Grows, TablesOK', WorldOK',
         NEW w \in Worker, InBody(w), BodyMove(w)
  PROVE  TypeOK'
<1> DEFINE r == ctx[w]
<1>0. ContextOK(r) /\ r.pc \notin {"idle", "pick"}
  BY DEF TypeOK, InBody
<1>1. ASSUME NEW c, ContextOK(c), ctx' = [ctx EXCEPT ![w] = c] PROVE TypeOK'
  BY <1>1, OneMoves
<1>2. ASSUME NEW p \in Inner, ctx' = Goto(w, p), Cur(w) \in DOMAIN ctx[w].seen
      PROVE TypeOK'
  <2>1. ContextOK([r EXCEPT !.pc = p])
    BY <1>0, <1>2 DEF ContextOK, Inner, Cur
  <2> QED
    BY <2>1, <1>1, <1>2 DEF Goto
<1>3. CASE ctx' = Goto(w, "release")
  <2>1. ContextOK([r EXCEPT !.pc = "release"])
    BY <1>0 DEF ContextOK, Pc
  <2> QED
    BY <2>1, <1>1, <1>3 DEF Goto
<1>4. CASE ctx' = Failed(w)
  <2>1. ContextOK([r EXCEPT !.pc = "rescue", !.seen = NoRows])
    BY <1>0, NoRowsIsTable DEF ContextOK, Pc
  <2> QED
    BY <2>1, <1>1, <1>4 DEF Failed
<1>5. CASE ctx' = Closed(w)
  <2>1. ContextOK([r EXCEPT !.pc = "release", !.seen = NoRows])
    BY <1>0, NoRowsIsTable DEF ContextOK, Pc
  <2> QED
    BY <2>1, <1>1, <1>5 DEF Closed
<1>6. CASE ctx' = Aborted(w)
  <2>1. ContextOK([r EXCEPT !.pc = "release", !.todo = {}, !.seen = NoRows])
    BY <1>0, NoRowsIsTable DEF ContextOK, Pc
  <2> QED
    BY <2>1, <1>1, <1>6 DEF Aborted
<1> QED
  BY <1>2, <1>3, <1>4, <1>5, <1>6 DEF BodyMove

(* A step that leaves the tables alone.                                     *)
LEMMA SameTables == ASSUME TypeOK, UNCHANGED db PROVE TablesOK' /\ Grows
BY DEF TypeOK, TablesOK, IsTable, Grows, db, JobOfTask, TaskOf, JobOfEvent

(* The table that a task reads, as ContextOK sees it.                       *)
LEMMA TaskTable ==
  ASSUME TypeOK, NEW task \in TaskName
  PROVE  /\ IsTable(Table(task), ItemIds(task), ItemRow(task))
         /\ DOMAIN Table(task) = ItemIds(task)
         /\ Nil \notin ItemIds(task)
BY StoreAssumption
   DEF TypeOK, TablesOK, IsTable, TaskName, Retrying, JobTasks, Table, ItemIds, ItemRow

(* A worker past its lock holds an item of its task and the item's row.     *)
LEMMA ItemInHand ==
  ASSUME TypeOK, NEW w \in Worker, InBody(w)
  PROVE  /\ ctx[w].task \in TaskName
         /\ Cur(w) \in ItemIds(ctx[w].task)
         /\ ctx[w].pc \in Inner =>
              /\ Cur(w) \in DOMAIN ctx[w].seen
              /\ Mine(w) \in ItemRow(ctx[w].task)
BY DEF TypeOK, ContextOK, InBody, Inner, Cur, Mine, IsTable

-----------------------------------------------------------------------------
(* TypeOK: what all tasks have in common.                                   *)

LEMMA BeginType ==
  ASSUME TypeOK, NEW w \in Worker, NEW task \in TaskName, NEW eligible,
         eligible \subseteq ItemIds(task), Begin(w, task, eligible)
  PROVE  TypeOK'
<1>1. PICK batch \in SUBSET eligible :
        ctx' = [ctx EXCEPT ![w] =
                 [Idle EXCEPT !.task = task, !.pc = "pick", !.todo = batch,
                              !.seen = [x \in batch |-> Table(task)[x]]]]
  BY DEF Begin
<1> DEFINE c == [Idle EXCEPT !.task = task, !.pc = "pick", !.todo = batch,
                             !.seen = [x \in batch |-> Table(task)[x]]]
<1>2. UNCHANGED <<db, locks, world, faults>>
  BY DEF Begin
<1>3. TablesOK' /\ Grows /\ WorldOK'
  BY <1>2, SameTables DEF TypeOK, WorldOK, world
<1>4. IsTable([x \in batch |-> Table(task)[x]], ItemIds(task), ItemRow(task))
  BY TaskTable DEF IsTable
<1>5. ContextOK(c)
  BY <1>4, StoreAssumption DEF ContextOK, Idle, NotLoaded, LoadedRow, Pc
<1> QED
  BY <1>1, <1>3, <1>5, OneMoves

LEMMA PickType == ASSUME TypeOK, NEW w \in Worker, Pick(w) PROVE TypeOK'
<1> DEFINE r == ctx[w]
<1>1. ContextOK(r) /\ r.pc = "pick"
  BY DEF TypeOK, Pick
<1>2. PICK x \in r.todo :
        ctx' = [ctx EXCEPT ![w].pc = "lock", ![w].cur = x, ![w].todo = @ \ {x},
                  ![w].seen = Insert(@, {x}, Table(ctx[w].task)[x])]
  BY DEF Pick
<1> DEFINE seen == Insert(r.seen, {x}, Table(r.task)[x])
           c == [r EXCEPT !.pc = "lock", !.cur = x, !.todo = @ \ {x}, !.seen = seen]
<1>3. ctx' = [ctx EXCEPT ![w] = c]
  BY <1>2
<1>4. UNCHANGED <<db, locks, world, faults>>
  BY DEF Pick
<1>5. TablesOK' /\ Grows /\ WorldOK'
  BY <1>4, SameTables DEF TypeOK, WorldOK, world
<1>6. r.task \in TaskName /\ x \in ItemIds(r.task)
  BY <1>1, <1>2 DEF ContextOK
<1>7. Table(r.task)[x] \in ItemRow(r.task) /\ x # Nil
  BY <1>6, TaskTable DEF IsTable
<1>8. IsTable(seen, ItemIds(r.task), ItemRow(r.task)) /\ x \in DOMAIN seen
  <2>1. IsTable(r.seen, ItemIds(r.task), ItemRow(r.task))
    BY <1>1 DEF ContextOK
  <2> HIDE DEF c
  <2> QED
    BY <1>6, <1>7, <2>1 DEF IsTable, Insert
<1>9. ContextOK(c)
  BY <1>1, <1>6, <1>7, <1>8 DEF ContextOK, Pc
<1> QED
  BY <1>3, <1>5, <1>9, OneMoves

(* An idle worker's context is well typed.                                  *)
LEMMA IdleOK == ContextOK(Idle)
BY StoreAssumption, NoRowsIsTable
   DEF ContextOK, Idle, NotLoaded, LoadedRow, Pc

LEMMA FinishType == ASSUME TypeOK, NEW w \in Worker, Finish(w) PROVE TypeOK'
<1>1. TablesOK' /\ Grows /\ WorldOK'
  BY SameTables DEF Finish, TypeOK, WorldOK, world
<1>2. ctx' = [ctx EXCEPT ![w] = Idle]
  BY DEF Finish
<1> QED
  BY <1>1, <1>2, IdleOK, OneMoves

LEMMA AcquireType ==
  ASSUME TypeOK, NEW w \in Worker, InBody(w), ctx[w].pc \in Inner,
         NEW state \in {"PROCESSING", "COMMITTING"}, NEW next \in Inner,
         NEW loaded \in LoadedRow,
         Acquire(w, state, next, loaded), UNCHANGED <<db, world, faults>>
  PROVE  TypeOK'
<1> DEFINE r == ctx[w]
           c == [r EXCEPT !.pc = next, !.loaded = loaded, !.held = @ \cup {state}]
<1>1. TablesOK' /\ Grows
  BY SameTables
<1>2. CASE locks' = locks \cup {[state |-> state, id |-> Cur(w), owner |-> w]}
           /\ ctx' = [ctx EXCEPT ![w].pc = next, ![w].loaded = loaded,
                                 ![w].held = @ \cup {state}]
  <2>1. Cur(w) \in Job \cup TaskId \cup UploadId \cup EventId
    <3>1. Cur(w) \in ItemIds(ctx[w].task)
      BY ItemInHand
    <3> QED
      BY <3>1 DEF TypeOK, TablesOK, IsTable, ItemIds
  <2>2. WorldOK'
    BY <1>2, <2>1 DEF TypeOK, WorldOK, world, LockRow
  <2>3. ContextOK(c)
    BY DEF TypeOK, ContextOK, Inner
  <2>4. ctx' = [ctx EXCEPT ![w] = c]
    BY <1>2
  <2> QED
    BY <1>1, <2>2, <2>3, <2>4, OneMoves
<1>3. CASE ctx' = Goto(w, "release") /\ UNCHANGED locks
  <2>1. WorldOK'
    BY <1>3 DEF TypeOK, WorldOK, world
  <2> QED
    BY <1>1, <1>3, <2>1, BodyMoveType DEF BodyMove
<1> QED
  BY <1>2, <1>3 DEF Acquire

LEMMA LockItemType == ASSUME TypeOK, NEW w \in Worker, LockItem(w) PROVE TypeOK'
<1>1. InBody(w) /\ ctx[w].pc \in Inner
  BY DEF LockItem, InBody, Inner, Pc
<1>2. NotLoaded \in LoadedRow /\ "work" \in Inner /\ "publish" \in Inner
  BY DEF NotLoaded, LoadedRow, Inner, Pc
<1> QED
  BY <1>1, <1>2, AcquireType DEF LockItem

LEMMA LockCommitType == ASSUME TypeOK, NEW w \in Worker, LockCommit(w) PROVE TypeOK'
<1>1. InBody(w) /\ ctx[w].pc \in Inner
  BY DEF LockCommit, InBody, Inner, Pc
<1>2. NotLoaded \in LoadedRow /\ "commit" \in Inner
  BY DEF NotLoaded, LoadedRow, Inner, Pc
<1>3. CASE ctx[w].task = "process_upload_tasks"
  <2>1. transcode[TaskOf(Cur(w))].status \in TranscodeTaskStatus
    <3>1. Cur(w) \in DOMAIN upload
      BY <1>1, <1>3, ItemInHand DEF ItemIds, JobTasks
    <3> QED
      BY <3>1 DEF TypeOK, TablesOK, IsTable, TaskRow
  <2>2. [NotLoaded EXCEPT !.task = transcode[TaskOf(Cur(w))].status] \in LoadedRow
    BY <2>1 DEF NotLoaded, LoadedRow
  <2> QED
    BY <1>1, <1>2, <1>3, <2>2, AcquireType DEF LockCommit
<1>4. CASE ctx[w].task # "process_upload_tasks"
  BY <1>1, <1>2, <1>4, AcquireType DEF LockCommit
<1> QED
  BY <1>3, <1>4

LEMMA NextItemType ==
  ASSUME TypeOK, NEW w \in Worker, InBody(w), NEW todo, todo \subseteq ctx[w].todo,
         UNCHANGED db, WorldOK', ctx' = Emptied(w, todo)
  PROVE  TypeOK'
<1> DEFINE c == [ctx[w] EXCEPT !.pc = "pick", !.cur = Nil, !.todo = todo,
                               !.loaded = NotLoaded, !.held = {}]
<1>1. TablesOK' /\ Grows
  BY SameTables
<1>2. ContextOK(c)
  <2>1. NotLoaded \in LoadedRow
    BY DEF NotLoaded, LoadedRow
  <2> QED
    BY <2>1 DEF TypeOK, ContextOK, InBody, Pc
<1>3. ctx' = [ctx EXCEPT ![w] = c]
  BY DEF Emptied
<1> QED
  BY <1>1, <1>2, <1>3, OneMoves

LEMMA ReleaseType == ASSUME TypeOK, NEW w \in Worker, Release(w) PROVE TypeOK'
<1>1. InBody(w) /\ UNCHANGED db
  BY DEF Release, InBody
<1>2. WorldOK'
  BY DEF Release, TypeOK, WorldOK, world
<1>3. ctx' = Emptied(w, ctx[w].todo)
  BY DEF Release
<1> QED
  BY <1>1, <1>2, <1>3, NextItemType

LEMMA ReleaseFailsType ==
  ASSUME TypeOK, NEW w \in Worker, ReleaseFails(w) PROVE TypeOK'
<1>1. InBody(w) /\ UNCHANGED db
  BY DEF ReleaseFails, InBody
<1>2. locks' \subseteq LockRow
  BY DEF ReleaseFails, TypeOK, WorldOK, LockRow
<1>3. WorldOK'
  BY <1>2, StoreAssumption DEF ReleaseFails, Fault, TypeOK, WorldOK, world
<1>4. ctx' = Emptied(w, {})
  BY DEF ReleaseFails
<1>5. {} \subseteq ctx[w].todo
  OBVIOUS
<1> QED
  BY <1>1, <1>3, <1>4, <1>5, NextItemType

(* Counting a failure keeps the count within its bound.                     *)
LEMMA FaultCounted ==
  ASSUME TypeOK, Fault \/ UNCHANGED faults PROVE faults' \in 0..MaxFaults
BY StoreAssumption DEF Fault, TypeOK, WorldOK

LEMMA RaiseType == ASSUME TypeOK, NEW w \in Worker, Raise(w) PROVE TypeOK'
<1>1. InBody(w) /\ BodyMove(w) /\ UNCHANGED <<db, locks, world>>
  BY DEF Raise, InBody, BodyMove
<1>2. TablesOK' /\ Grows
  BY <1>1, SameTables
<1>3. WorldOK'
  BY <1>1, FaultCounted DEF Raise, TypeOK, WorldOK, world
<1> QED
  BY <1>1, <1>2, <1>3, BodyMoveType

LEMMA RaiseInRescueType ==
  ASSUME TypeOK, NEW w \in Worker, RaiseInRescue(w) PROVE TypeOK'
<1>1. InBody(w) /\ BodyMove(w) /\ UNCHANGED <<db, locks, world>>
  BY DEF RaiseInRescue, InBody, BodyMove
<1>2. TablesOK' /\ Grows
  BY <1>1, SameTables
<1>3. WorldOK'
  BY <1>1, FaultCounted DEF RaiseInRescue, TypeOK, WorldOK, world
<1> QED
  BY <1>1, <1>2, <1>3, BodyMoveType

(* The parent rows that the bookkeeping loads exist and have a status.      *)
LEMMA ParentsType ==
  ASSUME TypeOK, NEW w \in Worker, InBody(w) PROVE Parents(w) \in LoadedRow
<1>1. ctx[w].task \in TaskName /\ Cur(w) \in ItemIds(ctx[w].task)
  BY ItemInHand
<1>2. NotLoaded \in LoadedRow
  BY DEF NotLoaded, LoadedRow
<1>3. CASE ctx[w].task = "process_transcode_tasks"
  <2>1. job[JobOfTask(Cur(w))].status \in JobStatus
    BY <1>1, <1>3 DEF ItemIds, JobTasks, TypeOK, TablesOK, IsTable, JobRow
  <2> QED
    BY <1>3, <2>1 DEF Parents, NotLoaded, LoadedRow
<1>4. CASE ctx[w].task = "process_upload_tasks"
  <2>1. TaskOf(Cur(w)) \in DOMAIN transcode
    BY <1>1, <1>4 DEF ItemIds, JobTasks, TypeOK, TablesOK
  <2>2. transcode[TaskOf(Cur(w))].status \in TranscodeTaskStatus
    BY <2>1 DEF TypeOK, TablesOK, IsTable, TaskRow
  <2>3. job[JobOfTask(TaskOf(Cur(w)))].status \in JobStatus
    BY <2>1 DEF TypeOK, TablesOK, IsTable, JobRow
  <2> QED
    BY <1>4, <2>2, <2>3 DEF Parents, NotLoaded, LoadedRow
<1>5. CASE ctx[w].task = "process_outbox_events"
  <2>1. JobOfEvent(Cur(w)) \in DOMAIN job
    BY <1>1, <1>5 DEF ItemIds, JobTasks, TypeOK, TablesOK
  <2>2. /\ job[JobOfEvent(Cur(w))].status \in JobStatus
        /\ job[JobOfEvent(Cur(w))].published \in BOOLEAN
    BY <2>1 DEF TypeOK, TablesOK, IsTable, JobRow
  <2> QED
    BY <1>5, <2>2 DEF Parents, NotLoaded, LoadedRow
<1>6. CASE ctx[w].task \notin {"process_transcode_tasks", "process_upload_tasks",
                              "process_outbox_events"}
  BY <1>2, <1>6 DEF Parents
<1> QED
  BY <1>3, <1>4, <1>5, <1>6

LEMMA RescueType == ASSUME TypeOK, NEW w \in Worker, Rescue(w) PROVE TypeOK'
<1>1. InBody(w) /\ UNCHANGED <<db, locks, world, faults>>
  BY DEF Rescue, InBody
<1>2. TablesOK' /\ Grows
  BY <1>1, SameTables
<1>3. WorldOK'
  BY <1>1 DEF TypeOK, WorldOK, world
<1>4. CASE ctx[w].task \in Retrying
  <2> DEFINE row == [x \in {Cur(w)} |-> Table(ctx[w].task)[x]]
             c == [ctx[w] EXCEPT !.pc = "retry", !.loaded = Parents(w), !.seen = row]
  <2>1. ctx' = [ctx EXCEPT ![w] = c]
    BY <1>4 DEF Rescue
  <2>2. ctx[w].task \in TaskName /\ Cur(w) \in ItemIds(ctx[w].task)
    BY <1>1, ItemInHand
  <2>3. IsTable(row, ItemIds(ctx[w].task), ItemRow(ctx[w].task)) /\ Cur(w) \in DOMAIN row
    BY <2>2, TaskTable DEF IsTable
  <2>4. Parents(w) \in LoadedRow
    BY <1>1, ParentsType
  <2>5. ContextOK(c)
    BY <1>1, <2>3, <2>4 DEF TypeOK, ContextOK, InBody, Cur, Pc
  <2> QED
    BY <1>2, <1>3, <2>1, <2>5, OneMoves
<1>5. CASE ctx[w].task \notin Retrying
  <2>1. BodyMove(w)
    BY <1>5 DEF Rescue, BodyMove
  <2> QED
    BY <1>1, <1>2, <1>3, <2>1, BodyMoveType
<1> QED
  BY <1>4, <1>5

LEMMA CrashType == ASSUME TypeOK, NEW w \in Worker, Crash(w) PROVE TypeOK'
<1>1. TablesOK' /\ Grows
  BY SameTables DEF Crash
<1>2. locks' \subseteq LockRow
  BY DEF Crash, TypeOK, WorldOK, LockRow
<1>3. WorldOK'
  BY <1>2, FaultCounted DEF Crash, TypeOK, WorldOK
<1>4. ctx' = [ctx EXCEPT ![w] = Idle]
  BY DEF Crash
<1> QED
  BY <1>1, <1>3, <1>4, IdleOK, OneMoves

(* A step that moves no worker.                                             *)
LEMMA NobodyMoves ==
  ASSUME TypeOK, Grows, TablesOK', WorldOK', UNCHANGED ctx PROVE TypeOK'
<1>1. \A w \in Worker : ContextOK(ctx[w])'
  <2> SUFFICES ASSUME NEW w \in Worker PROVE ContextOK(ctx[w])'
    OBVIOUS
  <2>1. PICK c : c = ctx[w]
    OBVIOUS
  <2>2. ContextOK(c)'
    BY <2>1, ContextKept DEF TypeOK
  <2> QED
    BY <2>1, <2>2
<1> QED
  BY <1>1 DEF TypeOK

LEMMA ExpireType == ASSUME TypeOK, Expire PROVE TypeOK'
<1>1. TablesOK' /\ Grows
  BY SameTables DEF Expire
<1>2. WorldOK' /\ UNCHANGED ctx
  BY DEF Expire, TypeOK, WorldOK, world
<1> QED
  BY <1>1, <1>2, NobodyMoves

LEMMA ArrivesType == ASSUME TypeOK, NEW j \in Job, JobArrives(j) PROVE TypeOK'
<1>1. NewJob \in JobRow
  BY StoreAssumption DEF NewJob, JobRow, JobStatus, Attempts
<1>2. IsTable(job', Job, JobRow) /\ DOMAIN job' = DOMAIN job \cup {j}
  <2>1. {j} \subseteq Job
    OBVIOUS
  <2> QED
    BY <1>1, <2>1 DEF JobArrives, TypeOK, TablesOK, IsTable, Insert
<1>3. TablesOK' /\ Grows
  BY <1>2 DEF JobArrives, TypeOK, TablesOK, Grows, JobOfTask, TaskOf, JobOfEvent, IsTable
<1>4. WorldOK' /\ UNCHANGED ctx
  BY DEF JobArrives, TypeOK, WorldOK, world
<1> QED
  BY <1>3, <1>4, NobodyMoves

-----------------------------------------------------------------------------
(* TypeOK: updates of the tables.                                           *)

(* Updates that keep the ids and the row types of every table.              *)
LEMMA SameIds ==
  ASSUME TypeOK,
         IsTable(job', Job, JobRow), DOMAIN job' = DOMAIN job,
         IsTable(transcode', TaskId, TaskRow), DOMAIN transcode' = DOMAIN transcode,
         IsTable(upload', UploadId, UploadRow), DOMAIN upload' = DOMAIN upload,
         IsTable(outbox', EventId, EventRow), DOMAIN outbox' = DOMAIN outbox
  PROVE  TablesOK' /\ Grows
BY DEF TypeOK, TablesOK, Grows, JobOfTask, TaskOf, JobOfEvent

(* The tables of TypeOK, taken apart.                                       *)
LEMMA Tables ==
  ASSUME TypeOK
  PROVE  /\ IsTable(job, Job, JobRow) /\ IsTable(transcode, TaskId, TaskRow)
         /\ IsTable(upload, UploadId, UploadRow) /\ IsTable(outbox, EventId, EventRow)
BY DEF TypeOK, TablesOK

LEMMA RetryWindowOpensType == ASSUME TypeOK, RetryWindowOpens PROVE TypeOK'
<1>1. WorldOK' /\ UNCHANGED ctx
  BY DEF RetryWindowOpens, TypeOK, WorldOK, world
<1>2. CASE /\ \E j \in DOMAIN job : ~job[j].due /\ job' = [job EXCEPT ![j].due = TRUE]
           /\ UNCHANGED <<transcode, upload, outbox>>
  <2>1. IsTable(job', Job, JobRow) /\ DOMAIN job' = DOMAIN job
    BY <1>2, Tables DEF IsTable, JobRow
  <2> QED
    BY <1>1, <1>2, <2>1, Tables, SameIds, NobodyMoves
<1>3. CASE /\ \E t \in DOMAIN transcode :
                ~transcode[t].due /\ transcode' = [transcode EXCEPT ![t].due = TRUE]
           /\ UNCHANGED <<job, upload, outbox>>
  <2>1. IsTable(transcode', TaskId, TaskRow) /\ DOMAIN transcode' = DOMAIN transcode
    BY <1>3, Tables DEF IsTable, TaskRow
  <2> QED
    BY <1>1, <1>3, <2>1, Tables, SameIds, NobodyMoves
<1>4. CASE /\ \E u \in DOMAIN upload :
                ~upload[u].due /\ upload' = [upload EXCEPT ![u].due = TRUE]
           /\ UNCHANGED <<job, transcode, outbox>>
  <2>1. IsTable(upload', UploadId, UploadRow) /\ DOMAIN upload' = DOMAIN upload
    BY <1>4, Tables DEF IsTable, UploadRow
  <2> QED
    BY <1>1, <1>4, <2>1, Tables, SameIds, NobodyMoves
<1>5. CASE /\ \E o \in DOMAIN outbox :
                ~outbox[o].due /\ outbox' = [outbox EXCEPT ![o].due = TRUE]
           /\ UNCHANGED <<job, transcode, upload>>
  <2>1. IsTable(outbox', EventId, EventRow) /\ DOMAIN outbox' = DOMAIN outbox
    BY <1>5, Tables DEF IsTable, EventRow
  <2> QED
    BY <1>1, <1>5, <2>1, Tables, SameIds, NobodyMoves
<1> QED
  BY <1>2, <1>3, <1>4, <1>5 DEF RetryWindowOpens

(* The retry bookkeeping keeps the type of a row.                           *)
LEMMA BumpedType ==
  ASSUME NEW w, NEW row, NEW Row \in {JobRow, TaskRow, UploadRow, EventRow},
         row \in Row, Mine(w) \in Row
  PROVE  Bumped(row, w) \in Row
<1>1. Mine(w).retries \in Attempts
  <2>1. PICK mine : mine = Mine(w)
    OBVIOUS
  <2>2. \/ mine \in JobRow
        \/ mine \in TaskRow
        \/ mine \in UploadRow
        \/ mine \in EventRow
    BY <2>1
  <2>3. mine.retries \in Attempts
    BY <2>2 DEF JobRow, TaskRow, UploadRow, EventRow
  <2> QED
    BY <2>1, <2>3
<1>2. Exhausted(w) => MaxAttempts \in Attempts
  BY StoreAssumption DEF Attempts
<1>3. ~Exhausted(w) => Mine(w).retries + 1 \in Attempts
  BY <1>1, StoreAssumption DEF Exhausted, Attempts
<1>4. CASE Row = JobRow
  BY <1>2, <1>3, <1>4 DEF Bumped, Assign, JobRow, JobStatus
<1>5. CASE Row = TaskRow
  BY <1>2, <1>3, <1>5 DEF Bumped, Assign, TaskRow, TranscodeTaskStatus
<1>6. CASE Row = UploadRow
  BY <1>2, <1>3, <1>6 DEF Bumped, Assign, UploadRow, UploadStatus
<1>7. CASE Row = EventRow
  BY <1>2, <1>3, <1>7 DEF Bumped, Assign, EventRow, OutboxStatus
<1> QED
  BY <1>4, <1>5, <1>6, <1>7

(* A status column that a cascade writes keeps the type of its row.         *)
LEMMA CascadeType ==
  ASSUME NEW j, NEW t, NEW loaded,
         IsTable(job, Job, JobRow), IsTable(transcode, TaskId, TaskRow)
  PROVE  /\ \A s \in JobStatus :
              LET new == [job EXCEPT ![j].status = Assign(@, loaded, s)]
              IN  IsTable(new, Job, JobRow) /\ DOMAIN new = DOMAIN job
         /\ \A s \in TranscodeTaskStatus :
              LET new == [transcode EXCEPT ![t].status = Assign(@, loaded, s)]
              IN  IsTable(new, TaskId, TaskRow) /\ DOMAIN new = DOMAIN transcode
<1>1. ASSUME NEW s \in JobStatus
      PROVE  LET new == [job EXCEPT ![j].status = Assign(@, loaded, s)]
             IN  IsTable(new, Job, JobRow) /\ DOMAIN new = DOMAIN job
  BY DEF IsTable, JobRow, Assign
<1>2. ASSUME NEW s \in TranscodeTaskStatus
      PROVE  LET new == [transcode EXCEPT ![t].status = Assign(@, loaded, s)]
             IN  IsTable(new, TaskId, TaskRow) /\ DOMAIN new = DOMAIN transcode
  BY DEF IsTable, TaskRow, Assign
<1> QED
  BY <1>1, <1>2

-----------------------------------------------------------------------------
(* TypeOK: the work of the tasks, which leaves the tables alone.            *)

(* A step of the loop's body that only works needs a typed world.           *)
LEMMA WorkType ==
  ASSUME TypeOK, NEW w \in Worker, InBody(w), BodyMove(w), UNCHANGED db, WorldOK'
  PROVE  TypeOK'
BY SameTables, BodyMoveType

LEMMA StoreType ==
  ASSUME TypeOK, NEW w \in Worker, NEW v \in Video
  PROVE  /\ DiskOf(w, v) \in Files
         /\ \A files \in Files : Store(w, v, files) \in [Host -> [Video -> Files]]
BY StoreAssumption DEF TypeOK, WorldOK, DiskOf, Store

(* Where a task works, its item and the video of it.                        *)
LEMMA AtWork ==
  ASSUME TypeOK, NEW w \in Worker, NEW task \in TaskName, NEW pc \in Inner,
         At(w, task, pc)
  PROVE  /\ InBody(w)
         /\ Cur(w) \in ItemIds(task)
         /\ Cur(w) \in DOMAIN ctx[w].seen
         /\ Mine(w) \in ItemRow(task)
BY ItemInHand DEF At, InBody, Inner

LEMMA VideoOfJob == ASSUME TypeOK, NEW j \in DOMAIN job PROVE VideoOf[j] \in Video
BY StoreAssumption DEF TypeOK, TablesOK, IsTable

LEMMA InnerPcs ==
  {"lock", "work", "init", "cut", "seal", "publish", "commit", "retry"} \subseteq Inner
BY DEF Inner, Pc

LEMMA DownloadType == ASSUME TypeOK, NEW w \in Worker, Download(w) PROVE TypeOK'
<1> DEFINE v == VideoInHand(w)
           downloaded == Store(w, v, [FilesInHand(w) EXCEPT !.video = TRUE])
<1>1. /\ InBody(w) /\ Cur(w) \in DOMAIN job /\ Cur(w) \in DOMAIN ctx[w].seen
  BY AtWork, InnerPcs DEF Download, ItemIds, TaskName, JobTasks
<1>2. v \in Video
  BY <1>1, VideoOfJob DEF VideoInHand
<1>3. downloaded \in [Host -> [Video -> Files]]
  <2>1. FilesInHand(w) \in Files
    BY <1>2, StoreType DEF FilesInHand
  <2>2. [FilesInHand(w) EXCEPT !.video = TRUE] \in Files
    BY <2>1 DEF Files
  <2> QED
    BY <1>2, <2>2, StoreType
<1>4. disk' \in {disk, downloaded}
  BY DEF Download
<1>5. WorldOK'
  BY <1>3, <1>4, FaultCounted DEF Download, TypeOK, WorldOK
<1>6. BodyMove(w)
  BY <1>1, InnerPcs DEF Download, BodyMove
<1> QED
  BY <1>1, <1>5, <1>6, WorkType DEF Download

LEMMA GenerateInitType ==
  ASSUME TypeOK, NEW w \in Worker, GenerateInit(w) PROVE TypeOK'
<1> DEFINE v == VideoInHand(w)
           generated == Store(w, v, [FilesInHand(w) EXCEPT !.init = TRUE])
<1>1. /\ InBody(w) /\ Cur(w) \in DOMAIN job /\ Cur(w) \in DOMAIN ctx[w].seen
  BY AtWork, InnerPcs DEF GenerateInit, ItemIds, TaskName, JobTasks
<1>2. v \in Video
  BY <1>1, VideoOfJob DEF VideoInHand
<1>3. generated \in [Host -> [Video -> Files]]
  <2>1. FilesInHand(w) \in Files
    BY <1>2, StoreType DEF FilesInHand
  <2>2. [FilesInHand(w) EXCEPT !.init = TRUE] \in Files
    BY <2>1 DEF Files
  <2> QED
    BY <1>2, <2>2, StoreType
<1>4. disk' \in {disk, generated}
  BY DEF GenerateInit
<1>5. bucket' \subseteq Object
  <2>1. InitObjects(v) \subseteq Object
    BY <1>2, StoreAssumption DEF InitObjects, Object
  <2>2. bucket' \subseteq bucket \cup InitObjects(v)
    BY DEF GenerateInit
  <2> QED
    BY <2>1, <2>2 DEF TypeOK, WorldOK
<1>6. WorldOK'
  BY <1>3, <1>4, <1>5, FaultCounted DEF GenerateInit, TypeOK, WorldOK
<1>7. BodyMove(w)
  BY <1>1, InnerPcs DEF GenerateInit, BodyMove
<1> QED
  BY <1>1, <1>6, <1>7, WorkType DEF GenerateInit

LEMMA CutSegmentsType ==
  ASSUME TypeOK, NEW w \in Worker, CutSegments(w) PROVE TypeOK'
<1> DEFINE v == VideoInHand(w)
           cut(s) == Store(w, v, [FilesInHand(w) EXCEPT !.segments = @ \cup s])
<1>1. /\ InBody(w) /\ Cur(w) \in DOMAIN job /\ Cur(w) \in DOMAIN ctx[w].seen
  BY AtWork, InnerPcs DEF CutSegments, ItemIds, TaskName, JobTasks
<1>2. v \in Video
  BY <1>1, VideoOfJob DEF VideoInHand
<1>3. ASSUME NEW s \in SUBSET Segment PROVE cut(s) \in [Host -> [Video -> Files]]
  <2>1. FilesInHand(w) \in Files
    BY <1>2, StoreType DEF FilesInHand
  <2>2. [FilesInHand(w) EXCEPT !.segments = @ \cup s] \in Files
    BY <2>1 DEF Files
  <2> QED
    BY <1>2, <2>2, StoreType
<1>4. disk' = disk \/ \E s \in SUBSET Segment : disk' = cut(s)
  BY DEF CutSegments
<1>5. disk' \in [Host -> [Video -> Files]]
  BY <1>3, <1>4 DEF TypeOK, WorldOK
<1>6. WorldOK'
  BY <1>5, FaultCounted DEF CutSegments, TypeOK, WorldOK
<1>7. BodyMove(w)
  BY <1>1, InnerPcs DEF CutSegments, BodyMove
<1> QED
  BY <1>1, <1>6, <1>7, WorkType DEF CutSegments

LEMMA TranscodeType == ASSUME TypeOK, NEW w \in Worker, Transcode(w) PROVE TypeOK'
<1> DEFINE v == VideoOf[JobOfTask(Cur(w))]
           s == SegmentOf(Cur(w))
           saved == Store(w, v, [DiskOf(w, v) EXCEPT !.cmaf = @ \cup {s}])
<1>1. InBody(w) /\ Cur(w) \in DOMAIN transcode /\ Cur(w) \in DOMAIN ctx[w].seen
  BY AtWork, InnerPcs DEF Transcode, ItemIds, TaskName, JobTasks, Retrying
<1>2. v \in Video /\ s \in Segment
  <2>1. Cur(w) \in TaskId /\ JobOfTask(Cur(w)) \in DOMAIN job
    BY <1>1 DEF TypeOK, TablesOK, IsTable
  <2> QED
    BY <2>1, VideoOfJob DEF TaskId, SegmentOf
<1>3. saved \in [Host -> [Video -> Files]]
  <2>1. DiskOf(w, v) \in Files
    BY <1>2, StoreType
  <2>2. [DiskOf(w, v) EXCEPT !.cmaf = @ \cup {s}] \in Files
    BY <1>2, <2>1 DEF Files
  <2> QED
    BY <1>2, <2>2, StoreType
<1>4. disk' \in {disk, saved}
  BY DEF Transcode
<1>5. WorldOK'
  BY <1>3, <1>4, FaultCounted DEF Transcode, TypeOK, WorldOK
<1>6. BodyMove(w)
  BY <1>1, InnerPcs DEF Transcode, BodyMove
<1> QED
  BY <1>1, <1>5, <1>6, WorkType DEF Transcode

LEMMA UploadFilesType ==
  ASSUME TypeOK, NEW w \in Worker, UploadFiles(w) PROVE TypeOK'
<1> DEFINE t == TaskOf(Cur(w))
           objects == SegmentObjects(VideoOf[JobOfTask(t)], SegmentOf(t))
<1>1. InBody(w) /\ Cur(w) \in DOMAIN upload /\ Cur(w) \in DOMAIN ctx[w].seen
  BY AtWork, InnerPcs DEF UploadFiles, ItemIds, TaskName, JobTasks, Retrying
<1>2. objects \subseteq Object
  <2>1. t \in DOMAIN transcode
    BY <1>1 DEF TypeOK, TablesOK
  <2>2. t \in TaskId /\ JobOfTask(t) \in DOMAIN job
    BY <2>1 DEF TypeOK, TablesOK, IsTable
  <2>3. VideoOf[JobOfTask(t)] \in Video /\ SegmentOf(t) \in Segment
    BY <2>2, VideoOfJob DEF TaskId, SegmentOf
  <2> QED
    BY <2>3, StoreAssumption DEF SegmentObjects, Object, Segment
<1>3. bucket' \subseteq bucket \cup objects
  BY DEF UploadFiles
<1>4. WorldOK'
  BY <1>2, <1>3, FaultCounted DEF UploadFiles, TypeOK, WorldOK
<1>5. BodyMove(w)
  BY <1>1, InnerPcs DEF UploadFiles, BodyMove
<1> QED
  BY <1>1, <1>4, <1>5, WorkType DEF UploadFiles

LEMMA CheckType == ASSUME TypeOK, NEW w \in Worker, Check(w) PROVE TypeOK'
<1>1. InBody(w) /\ Cur(w) \in DOMAIN ctx[w].seen
  BY AtWork, InnerPcs DEF Check, TaskName, JobTasks
<1>2. BodyMove(w)
  BY <1>1, InnerPcs DEF Check, BodyMove
<1>3. WorldOK'
  BY DEF Check, TypeOK, WorldOK, world
<1> QED
  BY <1>1, <1>2, <1>3, WorkType DEF Check

LEMMA CleaningType ==
  ASSUME NEW files \in Files
  PROVE  /\ Cleaned(files) \in Files
         /\ CleaningSteps(files) \subseteq Files
BY DEF Files, Cleaned, CleaningSteps, NoFiles

LEMMA PrepareManifestType ==
  ASSUME TypeOK, NEW w \in Worker, PrepareManifest(w) PROVE TypeOK'
<1> DEFINE v == VideoOf[Cur(w)]
           files == DiskOf(w, v)
           downloaded == [files EXCEPT !.video = TRUE]
<1>0. At(w, "process_completed_jobs", "work")
  BY DEF PrepareManifest
<1>1. InBody(w) /\ Cur(w) \in DOMAIN job /\ Cur(w) \in DOMAIN ctx[w].seen
  BY <1>0, AtWork, InnerPcs DEF ItemIds, TaskName, JobTasks
<1>2. v \in Video
  BY <1>1, VideoOfJob
<1>3. files \in Files /\ downloaded \in Files
  <2>1. files \in Files
    BY <1>2, StoreType
  <2> QED
    BY <2>1 DEF Files
<1>4. {files, Cleaned(files)} \cup CleaningSteps(downloaded) \subseteq Files
  BY <1>3, CleaningType
<1>5. \/ disk' = disk
      \/ \E left \in {files, Cleaned(files)} \cup CleaningSteps(downloaded) :
           disk' = Store(w, v, left)
  BY DEF PrepareManifest
<1>6. disk' \in [Host -> [Video -> Files]]
  <2>1. \A left \in Files : Store(w, v, left) \in [Host -> [Video -> Files]]
    BY <1>2, StoreType
  <2>2. disk' = disk \/ \E left \in Files : disk' = Store(w, v, left)
    BY <1>4, <1>5
  <2> QED
    BY <2>1, <2>2 DEF TypeOK, WorldOK
<1>7. WorldOK'
  BY <1>6, FaultCounted DEF PrepareManifest, TypeOK, WorldOK
<1>8. BodyMove(w)
  BY <1>1, InnerPcs DEF PrepareManifest, BodyMove
<1> QED
  BY <1>1, <1>7, <1>8, WorkType DEF PrepareManifest

LEMMA CleanUpType == ASSUME TypeOK, NEW w \in Worker, CleanUp(w) PROVE TypeOK'
<1> DEFINE v == VideoOf[Cur(w)]
           files == DiskOf(w, v)
<1>1. InBody(w) /\ Cur(w) \in DOMAIN job /\ Cur(w) \in DOMAIN ctx[w].seen
  BY AtWork, InnerPcs DEF CleanUp, ItemIds, TaskName, JobTasks
<1>2. v \in Video
  BY <1>1, VideoOfJob
<1>3. files \in Files
  BY <1>2, StoreType
<1>4. {Cleaned(files)} \cup CleaningSteps(files) \subseteq Files
  BY <1>3, CleaningType
<1>5. \/ disk' = disk
      \/ \E left \in {Cleaned(files)} \cup CleaningSteps(files) :
           disk' = Store(w, v, left)
  BY DEF CleanUp
<1>6. disk' \in [Host -> [Video -> Files]]
  BY <1>2, <1>4, <1>5, StoreType DEF TypeOK, WorldOK
<1>7. bucket' \subseteq bucket
  BY DEF CleanUp
<1>8. WorldOK'
  BY <1>6, <1>7, FaultCounted DEF CleanUp, TypeOK, WorldOK
<1>9. BodyMove(w)
  BY <1>1, InnerPcs DEF CleanUp, BodyMove
<1> QED
  BY <1>1, <1>8, <1>9, WorkType DEF CleanUp

LEMMA PublishingType ==
  ASSUME TypeOK, NEW w \in Worker, SkipEvent(w) \/ Publish(w) \/ PublishFails(w)
  PROVE  TypeOK'
<1>1. At(w, "process_outbox_events", "publish") /\ UNCHANGED db
  BY DEF SkipEvent, Publish, PublishFails
<1>2. InBody(w) /\ Cur(w) \in DOMAIN outbox /\ Cur(w) \in DOMAIN ctx[w].seen
  BY <1>1, AtWork, InnerPcs DEF ItemIds, TaskName, JobTasks, Retrying
<1>3. delivered' \in [EventId -> Nat] /\ client' \subseteq Worker
  <2>1. Cur(w) \in EventId
    BY <1>2 DEF TypeOK, TablesOK, IsTable
  <2> QED
    BY <2>1 DEF SkipEvent, Publish, PublishFails, TypeOK, WorldOK, world
<1>4. faults' \in 0..MaxFaults
  BY FaultCounted DEF SkipEvent, Publish, PublishFails
<1>5. WorldOK'
  BY <1>3, <1>4 DEF SkipEvent, Publish, PublishFails, TypeOK, WorldOK, world
<1>6. BodyMove(w)
  BY <1>2, InnerPcs DEF SkipEvent, Publish, PublishFails, BodyMove
<1> QED
  BY <1>1, <1>2, <1>5, <1>6, WorkType

-----------------------------------------------------------------------------
(* TypeOK: the commits and the retry bookkeeping.                           *)

(* A commit that touches only tables and the worker's context.              *)
LEMMA CommitType ==
  ASSUME TypeOK, NEW w \in Worker, InBody(w), BodyMove(w),
         TablesOK', Grows, UNCHANGED <<locks, world>>, Fault \/ UNCHANGED faults
  PROVE  TypeOK'
<1>1. WorldOK'
  BY FaultCounted DEF TypeOK, WorldOK, world
<1> QED
  BY <1>1, BodyMoveType

LEMMA AfterCommitMove ==
  ASSUME NEW w, AfterCommit(w)
  PROVE  BodyMove(w) /\ (Fault \/ UNCHANGED faults)
BY DEF AfterCommit, BodyMove

LEMMA FreshCopy == \A used : Fresh(used) \subseteq Copy
BY DEF Fresh

LEMMA CommitTasksType ==
  ASSUME TypeOK, NEW w \in Worker, CommitTasks(w) PROVE TypeOK'
<1>1. InBody(w) /\ Cur(w) \in DOMAIN job
  BY AtWork, InnerPcs DEF CommitTasks, ItemIds, TaskName, JobTasks
<1>2. IsTable(job', Job, JobRow) /\ DOMAIN job' = DOMAIN job
  BY Tables, CascadeType DEF CommitTasks, JobStatus
<1>3. PICK c \in Copy :
        transcode' = Insert(transcode, {<<Cur(w), c, s>> : s \in Segment}, NewTask)
  BY FreshCopy DEF CommitTasks
<1>4. NewTask \in TaskRow
  BY StoreAssumption DEF NewTask, TaskRow, TranscodeTaskStatus, Attempts
<1>5. PICK ids : ids = {<<Cur(w), c, s>> : s \in Segment}
  OBVIOUS
<1>6. ids \subseteq TaskId /\ \A t \in ids : JobOfTask(t) = Cur(w)
  <2>1. Cur(w) \in Job
    BY <1>1, Tables DEF IsTable
  <2>2. \A s \in Segment : <<Cur(w), c, s>> \in TaskId /\ JobOfTask(<<Cur(w), c, s>>) = Cur(w)
    BY <2>1 DEF TaskId, JobOfTask
  <2> QED
    BY <1>5, <2>2
<1>7. IsTable(transcode', TaskId, TaskRow) /\ DOMAIN transcode' = DOMAIN transcode \cup ids
  <2>1. transcode' = Insert(transcode, ids, NewTask)
    BY <1>3, <1>5
  <2> QED
    BY <1>4, <1>6, <2>1, Tables DEF IsTable, Insert
<1>8. TablesOK' /\ Grows
  <2>1. UNCHANGED <<upload, outbox>>
    BY DEF CommitTasks
  <2>2. \A t \in DOMAIN transcode' : JobOfTask(t) \in DOMAIN job'
    BY <1>1, <1>2, <1>6, <1>7 DEF TypeOK, TablesOK
  <2> QED
    BY <1>2, <1>7, <2>1, <2>2 DEF TypeOK, TablesOK, Grows, TaskOf, JobOfEvent, IsTable
<1> QED
  BY <1>1, <1>8, AfterCommitMove, CommitType DEF CommitTasks

LEMMA CommitUploadType ==
  ASSUME TypeOK, NEW w \in Worker, CommitUpload(w) PROVE TypeOK'
<1>1. InBody(w) /\ Cur(w) \in DOMAIN transcode
  BY AtWork, InnerPcs DEF CommitUpload, ItemIds, TaskName, JobTasks, Retrying
<1>2. IsTable(transcode', TaskId, TaskRow) /\ DOMAIN transcode' = DOMAIN transcode
  BY Tables, CascadeType DEF CommitUpload, TranscodeTaskStatus
<1>3. PICK c \in Copy : upload' = Insert(upload, {<<Cur(w), c>>}, NewUpload)
  BY FreshCopy DEF CommitUpload
<1>4. NewUpload \in UploadRow
  BY StoreAssumption DEF NewUpload, UploadRow, UploadStatus, Attempts
<1>5. PICK ids : ids = {<<Cur(w), c>>}
  OBVIOUS
<1>6. ids \subseteq UploadId /\ \A u \in ids : TaskOf(u) = Cur(w)
  <2>1. Cur(w) \in TaskId
    BY <1>1, Tables DEF IsTable
  <2> QED
    BY <1>5, <2>1 DEF UploadId, TaskOf
<1>7. IsTable(upload', UploadId, UploadRow) /\ DOMAIN upload' = DOMAIN upload \cup ids
  <2>1. upload' = Insert(upload, ids, NewUpload)
    BY <1>3, <1>5
  <2> QED
    BY <1>4, <1>6, <2>1, Tables DEF IsTable, Insert
<1>8. TablesOK' /\ Grows
  <2>1. UNCHANGED <<job, outbox>>
    BY DEF CommitUpload
  <2>2. \A u \in DOMAIN upload' : TaskOf(u) \in DOMAIN transcode'
    BY <1>1, <1>2, <1>6, <1>7 DEF TypeOK, TablesOK
  <2> QED
    BY <1>2, <1>7, <2>1, <2>2 DEF TypeOK, TablesOK, Grows, JobOfTask, JobOfEvent, IsTable
<1> QED
  BY <1>1, <1>8, AfterCommitMove, CommitType DEF CommitUpload

LEMMA CommitUploadedType ==
  ASSUME TypeOK, NEW w \in Worker, CommitUploaded(w) PROVE TypeOK'
<1>1. InBody(w) /\ Cur(w) \in DOMAIN upload
  BY AtWork, InnerPcs DEF CommitUploaded, ItemIds, TaskName, JobTasks, Retrying
<1>2. IsTable(upload', UploadId, UploadRow) /\ DOMAIN upload' = DOMAIN upload
  BY Tables DEF CommitUploaded, IsTable, UploadRow, UploadStatus, Assign
<1>3. IsTable(transcode', TaskId, TaskRow) /\ DOMAIN transcode' = DOMAIN transcode
  BY Tables, CascadeType DEF CommitUploaded, TranscodeTaskStatus
<1>4. TablesOK' /\ Grows
  BY <1>2, <1>3, Tables, SameIds DEF CommitUploaded
<1> QED
  BY <1>1, <1>4, AfterCommitMove, CommitType DEF CommitUploaded

LEMMA CommitCompletedType ==
  ASSUME TypeOK, NEW w \in Worker, CommitCompleted(w) PROVE TypeOK'
<1>1. InBody(w)
  BY DEF CommitCompleted, At, InBody
<1>2. IsTable(job', Job, JobRow) /\ DOMAIN job' = DOMAIN job
  BY Tables, CascadeType DEF CommitCompleted, JobStatus
<1>3. TablesOK' /\ Grows
  BY <1>2, Tables, SameIds DEF CommitCompleted
<1> QED
  BY <1>1, <1>3, AfterCommitMove, CommitType DEF CommitCompleted

LEMMA ProbeFailsType ==
  ASSUME TypeOK, NEW w \in Worker, ProbeFails(w) PROVE TypeOK'
<1> DEFINE v == VideoOf[Cur(w)]
           downloaded == [DiskOf(w, v) EXCEPT !.video = TRUE]
<1>1. InBody(w) /\ Cur(w) \in DOMAIN job
  BY AtWork, InnerPcs DEF ProbeFails, ItemIds, TaskName, JobTasks
<1>2. IsTable(job', Job, JobRow) /\ DOMAIN job' = DOMAIN job
  BY Tables, CascadeType DEF ProbeFails, JobStatus
<1>3. TablesOK' /\ Grows
  BY <1>2, Tables, SameIds DEF ProbeFails
<1>4. disk' \in [Host -> [Video -> Files]]
  <2>1. v \in Video
    BY <1>1, VideoOfJob
  <2>2. downloaded \in Files
    BY <2>1, StoreType DEF Files
  <2> QED
    BY <2>1, <2>2, StoreType DEF ProbeFails
<1>5. WorldOK'
  BY <1>4, FaultCounted DEF ProbeFails, TypeOK, WorldOK
<1>6. BodyMove(w)
  BY DEF ProbeFails, BodyMove
<1> QED
  BY <1>1, <1>3, <1>5, <1>6, BodyMoveType

LEMMA AnnouncementType ==
  ASSUME TypeOK, NEW w \in Worker, AnnounceCompleted(w) \/ AnnounceFailed(w)
  PROVE  TypeOK'
<1>1. PICK topic \in Topic : CommitAnnouncement(w, topic)
  BY DEF AnnounceCompleted, AnnounceFailed, Topic
<1>2. InBody(w) /\ Cur(w) \in DOMAIN job
  BY AtWork, InnerPcs DEF AnnounceCompleted, AnnounceFailed, ItemIds, TaskName, JobTasks
<1>3. Mine(w).published \in BOOLEAN
  <2>1. Mine(w) \in JobRow
    BY AtWork, InnerPcs DEF AnnounceCompleted, AnnounceFailed, ItemRow, TaskName, JobTasks
  <2> QED
    BY <2>1 DEF JobRow
<1>4. IsTable(job', Job, JobRow) /\ DOMAIN job' = DOMAIN job
  BY <1>1, Tables DEF CommitAnnouncement, IsTable, JobRow, Assign
<1>5. PICK c \in Copy : outbox' = Insert(outbox, {<<Cur(w), c>>}, NewEvent(topic))
  BY <1>1, FreshCopy DEF CommitAnnouncement
<1>6. NewEvent(topic) \in EventRow
  BY StoreAssumption DEF NewEvent, EventRow, OutboxStatus, Attempts
<1>7. PICK ids : ids = {<<Cur(w), c>>}
  OBVIOUS
<1>8. ids \subseteq EventId /\ \A o \in ids : JobOfEvent(o) = Cur(w)
  <2>1. Cur(w) \in Job
    BY <1>2, Tables DEF IsTable
  <2> QED
    BY <1>7, <2>1 DEF EventId, JobOfEvent
<1>9. IsTable(outbox', EventId, EventRow) /\ DOMAIN outbox' = DOMAIN outbox \cup ids
  <2>1. outbox' = Insert(outbox, ids, NewEvent(topic))
    BY <1>5, <1>7
  <2> QED
    BY <1>6, <1>8, <2>1, Tables DEF IsTable, Insert
<1>10. TablesOK' /\ Grows
  <2>1. UNCHANGED <<transcode, upload>>
    BY <1>1 DEF CommitAnnouncement
  <2>2. \A o \in DOMAIN outbox' : JobOfEvent(o) \in DOMAIN job'
    BY <1>2, <1>4, <1>8, <1>9 DEF TypeOK, TablesOK
  <2> QED
    BY <1>4, <1>9, <2>1, <2>2 DEF TypeOK, TablesOK, Grows, JobOfTask, TaskOf, IsTable
<1> QED
  BY <1>1, <1>2, <1>10, AfterCommitMove, CommitType DEF CommitAnnouncement

LEMMA CommitProcessedType ==
  ASSUME TypeOK, NEW w \in Worker, CommitProcessed(w) PROVE TypeOK'
<1>1. InBody(w)
  BY DEF CommitProcessed, At, InBody
<1>2. IsTable(outbox', EventId, EventRow) /\ DOMAIN outbox' = DOMAIN outbox
  BY Tables DEF CommitProcessed, IsTable, EventRow, OutboxStatus, Assign
<1>3. TablesOK' /\ Grows
  BY <1>2, Tables, SameIds DEF CommitProcessed
<1> QED
  BY <1>1, <1>3, AfterCommitMove, CommitType DEF CommitProcessed

LEMMA ClosedMove == \A w : ctx' = Closed(w) => BodyMove(w)
BY DEF BodyMove

LEMMA RetryJobType == ASSUME TypeOK, NEW w \in Worker, RetryJob(w) PROVE TypeOK'
<1>1. InBody(w) /\ Cur(w) \in DOMAIN job /\ Mine(w) \in JobRow
  BY AtWork, InnerPcs DEF RetryJob, ItemIds, ItemRow, TaskName, JobTasks
<1>2. Bumped(job[Cur(w)], w) \in JobRow
  BY <1>1, Tables, BumpedType DEF IsTable
<1>3. IsTable(job', Job, JobRow) /\ DOMAIN job' = DOMAIN job
  BY <1>2, Tables DEF RetryJob, IsTable
<1>4. TablesOK' /\ Grows
  BY <1>3, Tables, SameIds DEF RetryJob
<1> QED
  BY <1>1, <1>4, ClosedMove, CommitType DEF RetryJob

LEMMA RetryTranscodeType ==
  ASSUME TypeOK, NEW w \in Worker, RetryTranscode(w) PROVE TypeOK'
<1>1. InBody(w) /\ Cur(w) \in DOMAIN transcode /\ Mine(w) \in TaskRow
  BY AtWork, InnerPcs DEF RetryTranscode, ItemIds, ItemRow, TaskName, JobTasks, Retrying
<1>2. Bumped(transcode[Cur(w)], w) \in TaskRow
  BY <1>1, Tables, BumpedType DEF IsTable
<1>3. IsTable(transcode', TaskId, TaskRow) /\ DOMAIN transcode' = DOMAIN transcode
  BY <1>2, Tables DEF RetryTranscode, IsTable
<1>4. IsTable(job', Job, JobRow) /\ DOMAIN job' = DOMAIN job
  BY Tables, CascadeType DEF RetryTranscode, JobStatus
<1>5. TablesOK' /\ Grows
  BY <1>3, <1>4, Tables, SameIds DEF RetryTranscode
<1> QED
  BY <1>1, <1>5, ClosedMove, CommitType DEF RetryTranscode

LEMMA RetryUploadType ==
  ASSUME TypeOK, NEW w \in Worker, RetryUpload(w) PROVE TypeOK'
<1>1. InBody(w) /\ Cur(w) \in DOMAIN upload /\ Mine(w) \in UploadRow
  BY AtWork, InnerPcs DEF RetryUpload, ItemIds, ItemRow, TaskName, JobTasks, Retrying
<1>2. Bumped(upload[Cur(w)], w) \in UploadRow
  BY <1>1, Tables, BumpedType DEF IsTable
<1>3. IsTable(upload', UploadId, UploadRow) /\ DOMAIN upload' = DOMAIN upload
  BY <1>2, Tables DEF RetryUpload, IsTable
<1>4. /\ IsTable(transcode', TaskId, TaskRow) /\ DOMAIN transcode' = DOMAIN transcode
      /\ IsTable(job', Job, JobRow) /\ DOMAIN job' = DOMAIN job
  <2>1. "FAILED" \in JobStatus /\ "FAILED" \in TranscodeTaskStatus
    BY DEF JobStatus, TranscodeTaskStatus
  <2>2. CASE Exhausted(w)
    <3> DEFINE t == TaskOf(Cur(w))
               j == JobOfTask(t)
    <3>1. /\ transcode' = [transcode EXCEPT ![t].status =
                             Assign(@, ctx[w].loaded.task, "FAILED")]
          /\ job' = [job EXCEPT ![j].status = Assign(@, ctx[w].loaded.job, "FAILED")]
      BY <2>2 DEF RetryUpload
    <3> HIDE DEF t, j
    <3> QED
      BY <2>1, <3>1, Tables, CascadeType
  <2>3. CASE ~Exhausted(w)
    BY <2>3, Tables DEF RetryUpload
  <2> QED
    BY <2>2, <2>3
<1>5. TablesOK' /\ Grows
  BY <1>3, <1>4, Tables, SameIds DEF RetryUpload
<1> QED
  BY <1>1, <1>5, ClosedMove, CommitType DEF RetryUpload

LEMMA RetryEventType ==
  ASSUME TypeOK, NEW w \in Worker, RetryEvent(w) PROVE TypeOK'
<1>1. InBody(w) /\ Cur(w) \in DOMAIN outbox /\ Mine(w) \in EventRow
  BY AtWork, InnerPcs DEF RetryEvent, ItemIds, ItemRow, TaskName, JobTasks, Retrying
<1>2. Bumped(outbox[Cur(w)], w) \in EventRow
  BY <1>1, Tables, BumpedType DEF IsTable
<1>3. IsTable(outbox', EventId, EventRow) /\ DOMAIN outbox' = DOMAIN outbox
  BY <1>2, Tables DEF RetryEvent, IsTable
<1>4. IsTable(job', Job, JobRow) /\ DOMAIN job' = DOMAIN job
  <2>1. CASE Exhausted(w)
    <3> DEFINE j == JobOfEvent(Cur(w))
    <3>1. job' = [job EXCEPT ![j] = Withdrawn(@, w)]
      BY <2>1 DEF RetryEvent
    <3>2. \A row \in JobRow : Withdrawn(row, w) \in JobRow
      BY DEF Withdrawn, JobRow, JobStatus, Assign
    <3> HIDE DEF j
    <3> QED
      BY <3>1, <3>2, Tables DEF IsTable
  <2>2. CASE ~Exhausted(w)
    BY <2>2, Tables DEF RetryEvent
  <2> QED
    BY <2>1, <2>2
<1>5. TablesOK' /\ Grows
  BY <1>3, <1>4, Tables, SameIds DEF RetryEvent
<1> QED
  BY <1>1, <1>5, ClosedMove, CommitType DEF RetryEvent

-----------------------------------------------------------------------------
(* The theorem on types.                                                    *)

LEMMA StartType == ASSUME TypeOK, NEW w \in Worker, Start(w) PROVE TypeOK'
BY BeginType
   DEF Start, StartQueuedJobs, StartTranscodeTasks, StartUploadTasks, StartCheck,
       StartCompletedJobs, StartFailedJobs, StartOutboxEvents, ItemIds, TaskName,
       JobTasks, Retrying

LEMMA LoopStepType == ASSUME TypeOK, NEW w \in Worker, LoopStep(w) PROVE TypeOK'
BY PickType, FinishType, LockItemType, LockCommitType, ReleaseType, ReleaseFailsType,
   RaiseType, RescueType, RaiseInRescueType DEF LoopStep

LEMMA TaskStepType == ASSUME TypeOK, NEW w \in Worker, TaskStep(w) PROVE TypeOK'
<1>1. CASE QueuedJobsStep(w)
  BY <1>1, DownloadType, GenerateInitType, CutSegmentsType, CommitTasksType, RetryJobType
     DEF QueuedJobsStep
<1>2. CASE TranscodeTasksStep(w)
  BY <1>2, TranscodeType, CommitUploadType, RetryTranscodeType DEF TranscodeTasksStep
<1>3. CASE UploadTasksStep(w)
  BY <1>3, UploadFilesType, CommitUploadedType, RetryUploadType DEF UploadTasksStep
<1>4. CASE CompletedJobsStep(w)
  BY <1>4, CheckType, CommitCompletedType, PrepareManifestType, ProbeFailsType,
     AnnouncementType DEF CompletedJobsStep
<1>5. CASE FailedJobsStep(w)
  BY <1>5, CleanUpType, AnnouncementType DEF FailedJobsStep
<1>6. CASE OutboxEventsStep(w)
  BY <1>6, PublishingType, CommitProcessedType, RetryEventType DEF OutboxEventsStep
<1> QED
  BY <1>1, <1>2, <1>3, <1>4, <1>5, <1>6 DEF TaskStep

LEMMA InitType == Init => TypeOK
<1> SUFFICES ASSUME Init PROVE TypeOK
  OBVIOUS
<1>1. TablesOK
  BY NoRowsIsTable DEF Init, TablesOK, NoRows
<1>2. WorldOK
  BY StoreAssumption DEF Init, WorldOK, Files, NoFiles
<1> QED
  BY <1>1, <1>2, IdleOK DEF Init, TypeOK

LEMMA StepType == TypeOK /\ [Next]_vars => TypeOK'
<1> SUFFICES ASSUME TypeOK, [Next]_vars PROVE TypeOK'
  OBVIOUS
<1>1. CASE \E j \in Job : JobArrives(j)
  BY <1>1, ArrivesType
<1>2. CASE \E w \in Worker : Start(w) \/ LoopStep(w) \/ TaskStep(w) \/ Crash(w)
  BY <1>2, StartType, LoopStepType, TaskStepType, CrashType
<1>3. CASE Expire
  BY <1>3, ExpireType
<1>4. CASE RetryWindowOpens
  BY <1>4, RetryWindowOpensType
<1>5. CASE UNCHANGED vars
  <2>1. TablesOK' /\ Grows
    BY <1>5, SameTables DEF vars
  <2>2. WorldOK' /\ UNCHANGED ctx
    BY <1>5 DEF vars, world, TypeOK, WorldOK
  <2> QED
    BY <2>1, <2>2, NobodyMoves
<1> QED
  BY <1>1, <1>2, <1>3, <1>4, <1>5 DEF Next

(* TypeCorrect: in every reachable state every table, lock, directory and    *)
(* worker context has its type, foreign keys find their rows, and a worker  *)
(* in the body of a loop has an item of its task's table in hand.           *)
THEOREM TypeCorrect == Spec => []TypeOK
BY InitType, StepType, PTL DEF Spec

=============================================================================
