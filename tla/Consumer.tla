------------------------------- MODULE Consumer -------------------------------
(***************************************************************************)
(* The Kafka consumer of every process of the FastAPI service: it takes    *)
(* the messages of the partitions assigned to it, inserts one job per      *)
(* video.queued event under the two locks of the event, and commits the    *)
(* offset of the message.                                                  *)
(***************************************************************************)
EXTENDS Naturals, Sequences, FiniteSets

CONSTANTS
  Event,      \* event ids
  Empty,      \* a message without a value
  Garbage,    \* a message that is no JSON
  Invalid,    \* a message that is no VideoQueuedEvent
  Partition,  \* of the topic video.queued
  Log,        \* the messages of every partition; an event may be sent twice
  Service,    \* processes of the service
  Nil,        \* no message, no process, or the owner of an orphaned lock
  MaxFaults,  \* bound: failures, crashes and rebalances nobody asked for
  SlowWork    \* may a message take longer than LOCK_TTL?

Message == Event \cup {Empty, Garbage, Invalid}
Place == UNION {{p} \X DOMAIN Log[p] : p \in Partition}

ASSUME ConsumerAssumption ==
  /\ Log \in [Partition -> Seq(Message)]
  /\ Cardinality({Empty, Garbage, Invalid}) = 3
  /\ {Empty, Garbage, Invalid} \cap Event = {}
  /\ Nil \notin Service \cup Place
  /\ MaxFaults \in Nat
  /\ SlowWork \in BOOLEAN

VARIABLES
  job,         \* the events that have a row in table jobs
  committed,   \* the offset committed for every partition
  position,    \* the offset up to which its consumer has fetched
  assignment,  \* the process that consumes a partition
  locks,       \* Redis
  ctx,         \* every process: where it is, and the message it has in hand
  skipped,     \* history: the places of messages given up without a commit
  faults       \* failures so far

vars == <<job, committed, position, assignment, locks, ctx, skipped, faults>>

Pc == {"poll", "lock", "lock2", "insert", "commit", "handler",
       "release", "ending", "stopped", "down"}

Cur(s) == ctx[s].cur
MessageAt(place) == Log[place[1]][place[2]]
Running == {s \in Service : ctx[s].pc \notin {"stopped", "down"}}
Goto(s, pc) == [ctx EXCEPT ![s].pc = pc]
Fault == faults < MaxFaults /\ faults' = faults + 1

Init ==
  /\ job = {}
  /\ committed = [p \in Partition |-> 0]
  /\ position = [p \in Partition |-> 0]
  /\ assignment = [p \in Partition |-> Nil]
  /\ locks = {}
  /\ ctx = [s \in Service |-> [pc |-> "down", cur |-> Nil]]
  /\ skipped = {}
  /\ faults = 0

-----------------------------------------------------------------------------
(* The loop.                                                                *)

(* A continue, or the except clause for any other exception: the message is *)
(* left uncommitted, and the consumer goes on to the next one.              *)
Skip(s) ==
  /\ ctx' = Goto(s, "release")
  /\ skipped' = skipped \cup {Cur(s)}

(* The consumer hands out the next message of a partition.                  *)
Fetch(s) ==
  /\ ctx[s].pc = "poll"
  /\ \E p \in Partition :
       /\ assignment[p] = s
       /\ position[p] < Len(Log[p])
       /\ position' = [position EXCEPT ![p] = @ + 1]
       /\ LET place == <<p, position[p] + 1>>
              enter(pc) == ctx' = [ctx EXCEPT ![s] = [pc |-> pc, cur |-> place]]
          IN  \/ MessageAt(place) = Empty /\ enter("commit") /\ UNCHANGED skipped
              \/ MessageAt(place) = Garbage /\ enter("handler") /\ UNCHANGED skipped
              \/ /\ MessageAt(place) = Invalid
                 /\ enter("release")
                 /\ skipped' = skipped \cup {place}
              \/ MessageAt(place) \in Event /\ enter("lock") /\ UNCHANGED skipped
  /\ UNCHANGED <<job, committed, assignment, locks, faults>>

Taken(state, e) == \E l \in locks : l.state = state /\ l.event = e

(* Mutant: a taken lock is granted all the same.                             *)
AcquireShared(s, state, next) ==
  /\ locks' = locks \cup {[state |-> state, event |-> MessageAt(Cur(s)), owner |-> s]}
  /\ ctx' = Goto(s, next)
  /\ UNCHANGED <<skipped, faults>>

(* acquire_lock: the lock, None while it is taken, or an exception.          *)
Acquire(s, state, next) ==
  LET e == MessageAt(Cur(s))
  IN  \/ /\ ~Taken(state, e)
         /\ locks' = locks \cup {[state |-> state, event |-> e, owner |-> s]}
         /\ ctx' = Goto(s, next)
         /\ UNCHANGED <<skipped, faults>>
      \/ Taken(state, e) /\ Skip(s) /\ UNCHANGED <<locks, faults>>
      \/ Fault /\ Skip(s) /\ UNCHANGED locks

LockEvent(s) ==
  /\ \/ ctx[s].pc = "lock" /\ Acquire(s, "PROCESSING", "lock2")
     \/ ctx[s].pc = "lock2" /\ Acquire(s, "COMMITTING", "insert")
  /\ UNCHANGED <<job, committed, position, assignment>>

(* Mutant: a failing insert is followed by the commit of the offset.         *)
InsertJobOrNot(s) ==
  /\ ctx[s].pc = "insert"
  /\ ctx' = Goto(s, "commit")
  /\ \/ job' = job \cup {MessageAt(Cur(s))} /\ UNCHANGED faults
     \/ Fault /\ UNCHANGED job
  /\ UNCHANGED <<committed, position, assignment, locks, skipped>>

(* The commit of the job: an IntegrityError if the event has one already.    *)
(* When the connection fails the row may have been written.                 *)
InsertJob(s) ==
  LET e == MessageAt(Cur(s))
  IN  /\ ctx[s].pc = "insert"
      /\ \/ e \in job /\ ctx' = Goto(s, "handler") /\ UNCHANGED <<job, skipped, faults>>
         \/ /\ e \notin job
            /\ job' = job \cup {e}
            /\ ctx' = Goto(s, "commit")
            /\ UNCHANGED <<skipped, faults>>
         \/ Fault /\ job' \in {job, job \cup {e}} /\ Skip(s)
      /\ UNCHANGED <<committed, position, assignment, locks>>

(* What consumer.commit of the message's offset + 1 leaves.                  *)
OffsetSet(s) == [committed EXCEPT ![Cur(s)[1]] = Cur(s)[2]]

(* The commit raises if the partition has been taken away meanwhile, or if   *)
(* Kafka does not answer, with the offset set or not: in the body the except*)
(* clause catches that, in an except clause it ends the loop.               *)
CommitOffset(s) ==
  LET mine == assignment[Cur(s)[1]] = s
  IN  /\ ctx[s].pc \in {"commit", "handler"}
      /\ \/ /\ mine
            /\ committed' = OffsetSet(s)
            /\ ctx' = Goto(s, "release")
            /\ UNCHANGED <<skipped, faults>>
         \/ /\ \/ ~mine /\ UNCHANGED <<committed, faults>>
               \/ mine /\ Fault /\ committed' \in {committed, OffsetSet(s)}
            /\ IF ctx[s].pc = "commit" THEN Skip(s)
                 ELSE ctx' = Goto(s, "ending") /\ UNCHANGED skipped
      /\ UNCHANGED <<job, position, assignment, locks>>

-----------------------------------------------------------------------------
(* The end of a message, of the consumer, of the process.                   *)

(* Mutant: the consumer is not stopped.                                      *)
StayInGroup(s) == UNCHANGED assignment

(* consumer.stop: the process leaves the group.                              *)
Leave(s) ==
  assignment' = [p \in Partition |-> IF assignment[p] = s THEN Nil ELSE assignment[p]]
Unlocked(s) == {l \in locks : l.owner # s}
Orphaned(s) == {[l EXCEPT !.owner = IF @ = s THEN Nil ELSE @] : l \in locks}

(* The finally clauses: the locks go; after "ending" the consumer stops.     *)
Release(s) ==
  /\ \/ /\ ctx[s].pc = "release"
        /\ ctx' = [ctx EXCEPT ![s] = [pc |-> "poll", cur |-> Nil]]
        /\ UNCHANGED assignment
     \/ /\ ctx[s].pc = "ending"
        /\ ctx' = [ctx EXCEPT ![s] = [pc |-> "stopped", cur |-> Nil]]
        /\ Leave(s)
  /\ locks' = Unlocked(s)
  /\ UNCHANGED <<job, committed, position, skipped, faults>>

(* release_lock raises in a finally clause: the consumer stops, the locks    *)
(* that it did not reach stay.                                              *)
ReleaseFails(s) ==
  /\ ctx[s].pc \in {"release", "ending"}
  /\ Fault
  /\ \/ locks' = Orphaned(s)
     \/ locks' = {l \in Orphaned(s) : [l EXCEPT !.owner = s] \in locks => l.state = "PROCESSING"}
  /\ locks' # Unlocked(s)
  /\ ctx' = [ctx EXCEPT ![s] = [pc |-> "stopped", cur |-> Nil]]
  /\ Leave(s)
  /\ UNCHANGED <<job, committed, position, skipped>>

(* The process dies.                                                        *)
Crash(s) ==
  /\ ctx[s].pc # "down"
  /\ Fault
  /\ ctx' = [ctx EXCEPT ![s] = [pc |-> "down", cur |-> Nil]]
  /\ locks' = Orphaned(s)
  /\ Leave(s)
  /\ UNCHANGED <<job, committed, position, skipped>>

(* Shutdown cancels the consumer's task at an await: the finally clauses     *)
(* release the locks; a commit that was under way may have been done.       *)
Cancel(s) ==
  /\ ctx[s].pc \in {"poll", "insert", "commit", "handler"}
  /\ Fault
  /\ \/ UNCHANGED <<job, committed>>
     \/ /\ ctx[s].pc = "insert"
        /\ job' = job \cup {MessageAt(Cur(s))}
        /\ UNCHANGED committed
     \/ /\ ctx[s].pc \in {"commit", "handler"}
        /\ assignment[Cur(s)[1]] = s
        /\ committed' = OffsetSet(s)
        /\ UNCHANGED job
  /\ ctx' = [ctx EXCEPT ![s] = [pc |-> "down", cur |-> Nil]]
  /\ locks' = Unlocked(s)
  /\ Leave(s)
  /\ UNCHANGED <<position, skipped>>

(* A process starts, for the first time or again. consumer.start raises when  *)
(* no broker answers: then the process runs on, but without its consumer.    *)
StartConsumer(s) ==
  /\ ctx[s].pc = "down"
  /\ \/ ctx' = Goto(s, "poll") /\ UNCHANGED faults
     \/ ctx' = Goto(s, "stopped") /\ Fault
  /\ UNCHANGED <<job, committed, position, assignment, locks, skipped>>

(* Mutant: consumption restarts at the end of the log.                       *)
RebalanceToLatest ==
  /\ Running # {}
  /\ \E p \in Partition : assignment[p] = Nil
  /\ assignment' \in [Partition -> Running]
  /\ position' = [p \in Partition |-> Len(Log[p])]
  /\ UNCHANGED <<job, committed, locks, ctx, skipped, faults>>

(* The group rebalances when a partition has no consumer, or for reasons of  *)
(* its own; all consumers start again from the committed offsets.           *)
Rebalance ==
  /\ Running # {}
  /\ \/ (\E p \in Partition : assignment[p] = Nil) /\ UNCHANGED faults
     \/ Fault
  /\ assignment' \in [Partition -> Running]
  /\ position' = committed
  /\ UNCHANGED <<job, committed, locks, ctx, skipped>>

(* LOCK_TTL frees the orphans; SlowWork: a lock in use as well.              *)
Expire ==
  /\ \E l \in IF SlowWork THEN locks ELSE {l \in locks : l.owner = Nil} :
       locks' = locks \ {l}
  /\ UNCHANGED <<job, committed, position, assignment, ctx, skipped, faults>>

Work(s) ==
  Fetch(s) \/ LockEvent(s) \/ InsertJob(s) \/ CommitOffset(s) \/ Release(s)

Next ==
  \/ \E s \in Service : Work(s) \/ ReleaseFails(s) \/ Crash(s) \/ Cancel(s) \/ StartConsumer(s)
  \/ Rebalance
  \/ Expire

Spec == Init /\ [][Next]_vars

(* A process goes on with its loop, and Kafka assigns every partition.       *)
FairSpec ==
  /\ Spec
  /\ \A s \in Service : WF_vars(UNCHANGED faults /\ Work(s))
  /\ WF_vars(UNCHANGED faults /\ Rebalance)

-----------------------------------------------------------------------------

(* ConsumerTypeOK: every variable keeps its type; a process has a message in *)
(* hand exactly while it is inside the loop's body.                         *)
ConsumerTypeOK ==
  /\ job \subseteq Event
  /\ committed \in [Partition -> Nat]
  /\ position \in [Partition -> Nat]
  /\ \A p \in Partition : committed[p] <= Len(Log[p]) /\ position[p] <= Len(Log[p])
  /\ assignment \in [Partition -> Running \cup {Nil}]
  /\ locks \subseteq [state: {"PROCESSING", "COMMITTING"}, event: Event,
                      owner: Service \cup {Nil}]
  /\ ctx \in [Service -> [pc: Pc, cur: Place \cup {Nil}]]
  /\ \A s \in Service : ctx[s].pc \in {"poll", "stopped", "down"} <=> Cur(s) = Nil
  /\ skipped \subseteq Place
  /\ faults \in 0..MaxFaults

(* OffsetFollowsJob: a committed offset covers an event only if the event    *)
(* has its job, or was given up by a skip: neither a crash between the two  *)
(* commits nor a rebalance makes an offset overtake its job.                *)
OffsetFollowsJob ==
  \A place \in Place :
    place[2] <= committed[place[1]] /\ MessageAt(place) \in Event
      => MessageAt(place) \in job \/ place \in skipped

(* InsertIsExclusive: no two processes insert the job of one event at the    *)
(* same time, also when it stands in two partitions or a rebalance hands it *)
(* to a second process, as long as no lock outlives its TTL.                *)
InsertIsExclusive ==
  \A s, t \in Service :
    s # t /\ ctx[s].pc = "insert" /\ ctx[t].pc = "insert"
      => MessageAt(Cur(s)) # MessageAt(Cur(t))

(* EventsAreTaken: every event gets its job or is skipped, unless the time   *)
(* comes when no process consumes any more.                                 *)
EventsAreTaken ==
  \/ <>[](Running = {})
  \/ \A place \in Place :
       MessageAt(place) \in Event => <>(MessageAt(place) \in job \/ place \in skipped)

-----------------------------------------------------------------------------
(* What is documented and not done.                                         *)

(* EveryEventHasJob: README.md:36 has the consumer create a job for every    *)
(* video.queued event. A committed offset passes over what was skipped, and *)
(* the message redelivered after a crash is skipped: its locks are orphans. *)
EveryEventHasJob ==
  \A place \in Place :
    place[2] <= committed[place[1]] /\ MessageAt(place) \in Event
      => MessageAt(place) \in job
=============================================================================
