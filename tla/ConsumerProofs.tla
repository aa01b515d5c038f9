---------------------------- MODULE ConsumerProofs ----------------------------
(***************************************************************************)
(* What is proved of the Kafka consumer for every number of processes,     *)
(* every log and every number of failures: its variables keep their types, *)
(* and no committed offset overtakes the job of its message.               *)
(***************************************************************************)
EXTENDS Consumer, TLAPS

(* A message needs nothing more: it is no event, or it has its job, or it    *)
(* was given up.                                                            *)
Done(place) == MessageAt(place) \in Event => MessageAt(place) \in job \/ place \in skipped

(* What a process knows of the message it has in hand.                      *)
EventInHand ==
  \A s \in Service : ctx[s].pc \in {"lock", "lock2", "insert"} => MessageAt(Cur(s)) \in Event

DoneInHand ==
  \A s \in Service : ctx[s].pc \in {"commit", "handler", "release", "ending"} => Done(Cur(s))

(* Everything before the message in hand is done, and so is everything that *)
(* was fetched, but for the message in hand.                                *)
DoneBeforeHand ==
  \A s \in Service : Cur(s) # Nil =>
    \A place \in Place : place[1] = Cur(s)[1] /\ place[2] < Cur(s)[2] => Done(place)

DoneBeforePosition ==
  \A place \in Place :
    LET s == assignment[place[1]]
    IN  s # Nil /\ place[2] <= position[place[1]] => Done(place) \/ Cur(s) = place

(* The parts of the type invariant.                                         *)
DataOK ==
  /\ job \subseteq Event
  /\ committed \in [Partition -> Nat]
  /\ position \in [Partition -> Nat]
  /\ \A p \in Partition : committed[p] <= Len(Log[p]) /\ position[p] <= Len(Log[p])
  /\ skipped \subseteq Place
  /\ faults \in 0..MaxFaults

LocksOK ==
  locks \subseteq [state: {"PROCESSING", "COMMITTING"}, event: Event,
                   owner: Service \cup {Nil}]

CtxOK ==
  /\ ctx \in [Service -> [pc: Pc, cur: Place \cup {Nil}]]
  /\ \A s \in Service : ctx[s].pc \in {"poll", "stopped", "down"} <=> Cur(s) = Nil

AssignmentOK == assignment \in [Partition -> Running \cup {Nil}]

TypeInv == ConsumerTypeOK /\ EventInHand

OffsetInv == TypeInv /\ DoneInHand /\ DoneBeforeHand /\ DoneBeforePosition /\ OffsetFollowsJob

LEMMA TypeParts == ConsumerTypeOK <=> DataOK /\ LocksOK /\ CtxOK /\ AssignmentOK
BY DEF ConsumerTypeOK, DataOK, LocksOK, CtxOK, AssignmentOK

LEMMA TypePartsNext == ConsumerTypeOK' <=> DataOK' /\ LocksOK' /\ CtxOK' /\ AssignmentOK'
BY DEF ConsumerTypeOK, DataOK, LocksOK, CtxOK, AssignmentOK

(* A place is a partition and an index of its log.                          *)
LEMMA PlaceIs ==
  ASSUME NEW place \in Place
  PROVE  /\ place[1] \in Partition
         /\ place[2] \in 1..Len(Log[place[1]])
         /\ place = <<place[1], place[2]>>
<1>1. PICK p \in Partition : place \in {p} \X DOMAIN Log[p]
  BY DEF Place
<1>2. Log[p] \in Seq(Message)
  BY ConsumerAssumption
<1> QED
  BY <1>1, <1>2

LEMMA PlaceOf ==
  ASSUME NEW p \in Partition, NEW n \in 1..Len(Log[p])
  PROVE  <<p, n>> \in Place
<1>1. Log[p] \in Seq(Message)
  BY ConsumerAssumption
<1>2. <<p, n>> \in {p} \X DOMAIN Log[p]
  BY <1>1
<1> QED
  BY <1>2 DEF Place

-----------------------------------------------------------------------------
(* How a process moves.                                                     *)

Move(s, pc, cur) == ctx' = [ctx EXCEPT ![s] = [pc |-> pc, cur |-> cur]]

LEMMA GotoMoves ==
  ASSUME CtxOK, NEW s \in Service, NEW pc, ctx' = Goto(s, pc)
  PROVE  Move(s, pc, Cur(s))
<1>1. ctx' = [ctx EXCEPT ![s] = [ctx[s] EXCEPT !.pc = pc]]
  BY DEF Goto, CtxOK
<1>2. ctx[s] \in [pc: Pc, cur: Place \cup {Nil}]
  BY DEF CtxOK
<1>3. [ctx[s] EXCEPT !.pc = pc] = [pc |-> pc, cur |-> ctx[s].cur]
  BY <1>2
<1> QED
  BY <1>1, <1>3 DEF Move, Cur

LEMMA MoveIs ==
  ASSUME CtxOK, NEW s \in Service, NEW pc, NEW cur, Move(s, pc, cur)
  PROVE  /\ ctx'[s].pc = pc /\ Cur(s)' = cur
         /\ \A t \in Service \ {s} : ctx'[t] = ctx[t] /\ Cur(t)' = Cur(t)
BY DEF CtxOK, Move, Cur

LEMMA MoveCtx ==
  ASSUME CtxOK, NEW s \in Service, NEW pc \in Pc, NEW cur \in Place \cup {Nil},
         Move(s, pc, cur), pc \in {"poll", "stopped", "down"} <=> cur = Nil
  PROVE  CtxOK'
<1>1. ctx' \in [Service -> [pc: Pc, cur: Place \cup {Nil}]]
  BY DEF CtxOK, Move
<1>2. ASSUME NEW t \in Service
      PROVE  ctx'[t].pc \in {"poll", "stopped", "down"} <=> Cur(t)' = Nil
  BY MoveIs DEF CtxOK
<1> QED
  BY <1>1, <1>2 DEF CtxOK

(* A process that goes on running keeps its partitions ...                  *)
LEMMA RunAssignment ==
  ASSUME CtxOK, AssignmentOK, NEW s \in Service, NEW pc, NEW cur, Move(s, pc, cur),
         pc \notin {"stopped", "down"}, UNCHANGED assignment
  PROVE  AssignmentOK'
<1>1. Running \subseteq Running'
  BY MoveIs DEF Running
<1> QED
  BY <1>1 DEF AssignmentOK

(* ... and one that stops leaves them.                                      *)
LEMMA LeaveAssignment ==
  ASSUME CtxOK, AssignmentOK, NEW s \in Service, NEW pc, NEW cur, Move(s, pc, cur), Leave(s)
  PROVE  AssignmentOK'
<1>1. Running \ {s} \subseteq Running'
  BY MoveIs DEF Running
<1> QED
  BY <1>1 DEF AssignmentOK, Leave

-----------------------------------------------------------------------------
(* What an action leaves of the types: it is enough to know where the        *)
(* process goes.                                                            *)

(* The process goes on running inside the loop, or back to its top.         *)
Continues(s, pc, cur) ==
  /\ Move(s, pc, cur)
  /\ pc \in Pc \ {"stopped", "down"} /\ cur \in Place \cup {Nil}
  /\ pc = "poll" <=> cur = Nil
  /\ UNCHANGED assignment

LEMMA ContinueType ==
  ASSUME TypeInv, NEW s \in Service, NEW pc, NEW cur, Continues(s, pc, cur),
         pc \in {"lock", "lock2", "insert"} => MessageAt(cur) \in Event
  PROVE  CtxOK' /\ AssignmentOK' /\ EventInHand'
<1>1. CtxOK /\ AssignmentOK
  BY TypeParts DEF TypeInv
<1>2. CtxOK'
  BY <1>1, MoveCtx DEF Continues
<1>3. AssignmentOK'
  BY <1>1, RunAssignment DEF Continues
<1>4. EventInHand'
  BY <1>1, MoveIs DEF Continues, TypeInv, EventInHand, MessageAt
<1> QED
  BY <1>2, <1>3, <1>4

(* The process stops.                                                       *)
Stops(s, pc) == Move(s, pc, Nil) /\ pc \in {"stopped", "down"} /\ Leave(s)

LEMMA StopType ==
  ASSUME TypeInv, NEW s \in Service, NEW pc, Stops(s, pc)
  PROVE  CtxOK' /\ AssignmentOK' /\ EventInHand'
<1>1. CtxOK /\ AssignmentOK
  BY TypeParts DEF TypeInv
<1>2. CtxOK'
  BY <1>1, MoveCtx DEF Stops, Pc
<1>3. AssignmentOK'
  BY <1>1, LeaveAssignment DEF Stops
<1>4. EventInHand'
  BY <1>1, MoveIs DEF Stops, TypeInv, EventInHand, MessageAt
<1> QED
  BY <1>2, <1>3, <1>4

(* The actions inside the body.                                             *)
LEMMA FaultType == ASSUME faults \in 0..MaxFaults, Fault PROVE faults' \in 0..MaxFaults
BY ConsumerAssumption DEF Fault

LEMMA HandPlace ==
  ASSUME CtxOK, NEW s \in Service, ctx[s].pc \notin {"poll", "stopped", "down"}
  PROVE  Cur(s) \in Place /\ Cur(s) # Nil
BY DEF CtxOK, Cur

LEMMA GotoContinues ==
  ASSUME CtxOK, NEW s \in Service, ctx[s].pc \notin {"poll", "stopped", "down"},
         NEW pc \in Pc \ {"poll", "stopped", "down"}, ctx' = Goto(s, pc), UNCHANGED assignment
  PROVE  Continues(s, pc, Cur(s))
BY GotoMoves, HandPlace DEF Continues

LEMMA SkipContinues ==
  ASSUME TypeInv, NEW s \in Service, ctx[s].pc \notin {"poll", "stopped", "down"},
         Skip(s), UNCHANGED assignment
  PROVE  Continues(s, "release", Cur(s)) /\ skipped' \subseteq Place
BY TypeParts, GotoContinues, HandPlace DEF TypeInv, DataOK, Skip, Pc

-----------------------------------------------------------------------------
(* Every action preserves the types.                                        *)

(* Where a fetched message leads.                                           *)
LEMMA FetchMoves ==
  ASSUME TypeInv, NEW s \in Service, Fetch(s)
  PROVE  \E p \in Partition, pc \in {"commit", "handler", "release", "lock"} :
           LET place == <<p, position[p] + 1>>
           IN  /\ assignment[p] = s
               /\ position[p] < Len(Log[p])
               /\ position' = [position EXCEPT ![p] = @ + 1]
               /\ place \in Place
               /\ Continues(s, pc, place)
               /\ pc = "lock" => MessageAt(place) \in Event
               /\ pc \in {"commit", "handler"} => MessageAt(place) \notin Event
               /\ skipped' = IF pc = "release" THEN skipped \cup {place} ELSE skipped
<1>1. PICK p \in Partition :
        /\ assignment[p] = s
        /\ position[p] < Len(Log[p])
        /\ position' = [position EXCEPT ![p] = @ + 1]
        /\ LET place == <<p, position[p] + 1>>
               enter(pc) == ctx' = [ctx EXCEPT ![s] = [pc |-> pc, cur |-> place]]
           IN  \/ MessageAt(place) = Empty /\ enter("commit") /\ UNCHANGED skipped
               \/ MessageAt(place) = Garbage /\ enter("handler") /\ UNCHANGED skipped
               \/ /\ MessageAt(place) = Invalid
                  /\ enter("release")
                  /\ skipped' = skipped \cup {place}
               \/ MessageAt(place) \in Event /\ enter("lock") /\ UNCHANGED skipped
  BY DEF Fetch
<1> DEFINE place == <<p, position[p] + 1>>
<1>2. DataOK
  BY TypeParts DEF TypeInv
<1>3. position[p] + 1 \in 1..Len(Log[p])
  <2>1. position[p] \in Nat /\ Log[p] \in Seq(Message)
    BY <1>2, ConsumerAssumption DEF DataOK
  <2>2. Len(Log[p]) \in Nat
    BY <2>1
  <2> QED
    BY <1>1, <2>1, <2>2
<1>4. place \in Place /\ place # Nil
  BY <1>3, PlaceOf, ConsumerAssumption
<1>5. UNCHANGED assignment
  BY DEF Fetch
<1> HIDE DEF place
<1>6. ASSUME NEW pc \in {"commit", "handler", "release", "lock"}, Move(s, pc, place)
      PROVE  Continues(s, pc, place)
  BY <1>4, <1>5, <1>6 DEF Continues, Pc
<1>7. Empty \notin Event /\ Garbage \notin Event
  BY ConsumerAssumption
<1>8. PICK pc \in {"commit", "handler", "release", "lock"} :
        /\ Move(s, pc, place)
        /\ pc = "lock" => MessageAt(place) \in Event
        /\ pc \in {"commit", "handler"} => MessageAt(place) \notin Event
        /\ skipped' = IF pc = "release" THEN skipped \cup {place} ELSE skipped
  <2>1. CASE MessageAt(place) = Empty /\ Move(s, "commit", place) /\ UNCHANGED skipped
    BY <2>1, <1>7
  <2>2. CASE MessageAt(place) = Garbage /\ Move(s, "handler", place) /\ UNCHANGED skipped
    BY <2>2, <1>7
  <2>3. CASE /\ MessageAt(place) = Invalid
             /\ Move(s, "release", place)
             /\ skipped' = skipped \cup {place}
    BY <2>3
  <2>4. CASE MessageAt(place) \in Event /\ Move(s, "lock", place) /\ UNCHANGED skipped
    BY <2>4
  <2> QED
    BY <1>1, <2>1, <2>2, <2>3, <2>4 DEF Move, place
<1> QED
  BY <1>1, <1>4, <1>6, <1>8 DEF place

LEMMA FetchType ==
  ASSUME TypeInv, NEW s \in Service, Fetch(s)
  PROVE  TypeInv'
<1> DEFINE at(p) == <<p, position[p] + 1>>
<1>1. PICK p \in Partition, pc \in {"commit", "handler", "release", "lock"} :
        /\ position[p] < Len(Log[p])
        /\ position' = [position EXCEPT ![p] = @ + 1]
        /\ at(p) \in Place
        /\ Continues(s, pc, at(p))
        /\ pc = "lock" => MessageAt(at(p)) \in Event
        /\ skipped' = IF pc = "release" THEN skipped \cup {at(p)} ELSE skipped
  BY FetchMoves
<1>2. DataOK /\ LocksOK
  BY TypeParts DEF TypeInv
<1>3. CtxOK' /\ AssignmentOK' /\ EventInHand'
  BY <1>1, ContinueType
<1>4. UNCHANGED <<job, committed, locks, faults>>
  BY DEF Fetch
<1>5. ASSUME NEW q \in Partition PROVE Len(Log[q]) \in Nat
  BY ConsumerAssumption
<1>6. position' \in [Partition -> Nat] /\ \A q \in Partition : position'[q] <= Len(Log[q])
  BY <1>1, <1>2, <1>5 DEF DataOK
<1>7. skipped' \subseteq Place
  BY <1>1, <1>2 DEF DataOK
<1>8. DataOK'
  BY <1>2, <1>4, <1>6, <1>7 DEF DataOK
<1>9. LocksOK'
  BY <1>2, <1>4 DEF LocksOK
<1> QED
  BY <1>3, <1>8, <1>9, TypePartsNext DEF TypeInv

(* The actions in the middle of the body change one table and go on.        *)
LEMMA LockEventType ==
  ASSUME TypeInv, NEW s \in Service, LockEvent(s)
  PROVE  TypeInv'
<1>1. DataOK /\ LocksOK /\ CtxOK
  BY TypeParts DEF TypeInv
<1>2. PICK state \in {"PROCESSING", "COMMITTING"}, next \in {"lock2", "insert"} :
        Acquire(s, state, next)
  BY DEF LockEvent
<1>3. ctx[s].pc \in {"lock", "lock2"} /\ UNCHANGED <<job, committed, position, assignment>>
  BY DEF LockEvent
<1>4. MessageAt(Cur(s)) \in Event
  BY <1>3 DEF TypeInv, EventInHand
<1>5. CASE Skip(s) /\ UNCHANGED locks /\ (Fault \/ UNCHANGED faults)
  <2>1. Continues(s, "release", Cur(s)) /\ skipped' \subseteq Place
    BY <1>3, <1>5, SkipContinues
  <2>2. faults' \in 0..MaxFaults
    BY <1>1, <1>5, FaultType DEF DataOK
  <2> QED
    BY <1>1, <1>3, <1>5, <2>1, <2>2, ContinueType, TypePartsNext DEF TypeInv, DataOK, LocksOK
<1>6. CASE /\ locks' = locks \cup {[state |-> state, event |-> MessageAt(Cur(s)), owner |-> s]}
           /\ ctx' = Goto(s, next)
           /\ UNCHANGED <<skipped, faults>>
  <2>1. Continues(s, next, Cur(s))
    BY <1>1, <1>3, <1>6, GotoContinues DEF Pc
  <2>2. LocksOK'
    BY <1>1, <1>4, <1>6 DEF LocksOK
  <2> QED
    BY <1>1, <1>3, <1>4, <1>6, <2>1, <2>2, ContinueType, TypePartsNext DEF TypeInv, DataOK
<1> QED
  BY <1>2, <1>5, <1>6 DEF Acquire

LEMMA InsertJobType ==
  ASSUME TypeInv, NEW s \in Service, InsertJob(s)
  PROVE  TypeInv'
<1>1. DataOK /\ LocksOK /\ CtxOK
  BY TypeParts DEF TypeInv
<1>2. ctx[s].pc = "insert" /\ UNCHANGED <<committed, position, assignment, locks>>
  BY DEF InsertJob
<1>3. MessageAt(Cur(s)) \in Event
  BY <1>2 DEF TypeInv, EventInHand
<1>4. job' \subseteq Event /\ faults' \in 0..MaxFaults
  BY <1>1, <1>3, FaultType DEF InsertJob, DataOK
<1>5. CASE ctx' = Goto(s, "handler") /\ UNCHANGED skipped
  BY <1>1, <1>2, <1>4, <1>5, GotoContinues, ContinueType, TypePartsNext
     DEF TypeInv, DataOK, LocksOK, Pc
<1>6. CASE ctx' = Goto(s, "commit") /\ UNCHANGED skipped
  BY <1>1, <1>2, <1>4, <1>6, GotoContinues, ContinueType, TypePartsNext
     DEF TypeInv, DataOK, LocksOK, Pc
<1>7. CASE Skip(s)
  BY <1>1, <1>2, <1>4, <1>7, SkipContinues, ContinueType, TypePartsNext
     DEF TypeInv, DataOK, LocksOK
<1> QED
  BY <1>5, <1>6, <1>7 DEF InsertJob

(* The offset of the message in hand is one that its log has.               *)
LEMMA OffsetSetType ==
  ASSUME TypeInv, NEW s \in Service, ctx[s].pc \notin {"poll", "stopped", "down"}
  PROVE  /\ OffsetSet(s) \in [Partition -> Nat]
         /\ \A p \in Partition : OffsetSet(s)[p] <= Len(Log[p])
<1>1. DataOK /\ CtxOK
  BY TypeParts DEF TypeInv
<1>2. Cur(s) \in Place
  BY <1>1, HandPlace
<1>3. Cur(s)[1] \in Partition /\ Cur(s)[2] \in 1..Len(Log[Cur(s)[1]])
  BY <1>2, PlaceIs
<1>4. ASSUME NEW p \in Partition PROVE Len(Log[p]) \in Nat
  BY ConsumerAssumption
<1> QED
  BY <1>1, <1>3, <1>4 DEF OffsetSet, DataOK

LEMMA CommitOffsetType ==
  ASSUME TypeInv, NEW s \in Service, CommitOffset(s)
  PROVE  TypeInv'
<1>1. DataOK /\ LocksOK /\ CtxOK
  BY TypeParts DEF TypeInv
<1>2. ctx[s].pc \in {"commit", "handler"} /\ UNCHANGED <<job, position, assignment, locks>>
  BY DEF CommitOffset
<1>3. committed' \in {committed, OffsetSet(s)} /\ faults' \in 0..MaxFaults
  BY <1>1, FaultType DEF CommitOffset, DataOK
<1>4. committed' \in [Partition -> Nat] /\ \A p \in Partition : committed'[p] <= Len(Log[p])
  BY <1>1, <1>2, <1>3, OffsetSetType DEF DataOK
<1>5. \/ Continues(s, "release", Cur(s)) /\ skipped' \subseteq Place
      \/ Continues(s, "ending", Cur(s)) /\ UNCHANGED skipped
  <2>1. CASE ctx' = Goto(s, "release") /\ UNCHANGED skipped
    BY <1>1, <1>2, <2>1, GotoContinues DEF Pc, DataOK
  <2>2. CASE Skip(s)
    BY <1>2, <2>2, SkipContinues
  <2>3. CASE ctx' = Goto(s, "ending") /\ UNCHANGED skipped
    BY <1>1, <1>2, <2>3, GotoContinues DEF Pc
  <2> QED
    BY <2>1, <2>2, <2>3 DEF CommitOffset
<1> QED
  BY <1>1, <1>2, <1>3, <1>4, <1>5, ContinueType, TypePartsNext DEF TypeInv, DataOK, LocksOK

(* The ends of a message and of a process.                                  *)
LEMMA OrphanType ==
  ASSUME LocksOK, NEW s \in Service
  PROVE  /\ Orphaned(s) \subseteq [state: {"PROCESSING", "COMMITTING"}, event: Event,
                                   owner: Service \cup {Nil}]
         /\ Unlocked(s) \subseteq locks
BY DEF LocksOK, Orphaned, Unlocked

LEMMA StopKeepsType ==
  ASSUME TypeInv, NEW s \in Service, NEW pc, Stops(s, pc), LocksOK', DataOK'
  PROVE  TypeInv'
BY StopType, TypePartsNext DEF TypeInv

LEMMA ReleaseType ==
  ASSUME TypeInv, NEW s \in Service, Release(s)
  PROVE  TypeInv'
<1>1. DataOK /\ LocksOK
  BY TypeParts DEF TypeInv
<1>2. DataOK' /\ LocksOK'
  BY <1>1, OrphanType DEF Release, DataOK, LocksOK
<1>3. CASE Continues(s, "poll", Nil)
  BY <1>2, <1>3, ContinueType, TypePartsNext DEF TypeInv
<1>4. CASE Stops(s, "stopped")
  BY <1>2, <1>4, StopKeepsType
<1> QED
  BY <1>3, <1>4 DEF Release, Continues, Stops, Move, Pc

LEMMA ReleaseFailsType ==
  ASSUME TypeInv, NEW s \in Service, ReleaseFails(s)
  PROVE  TypeInv' /\ Stops(s, "stopped")
<1>1. DataOK /\ LocksOK
  BY TypeParts DEF TypeInv
<1>2. Stops(s, "stopped")
  BY DEF ReleaseFails, Stops, Move
<1>3. LocksOK'
  BY <1>1, OrphanType DEF ReleaseFails, LocksOK
<1>4. DataOK'
  BY <1>1, FaultType DEF ReleaseFails, DataOK
<1> QED
  BY <1>2, <1>3, <1>4, StopKeepsType

LEMMA CrashType ==
  ASSUME TypeInv, NEW s \in Service, Crash(s)
  PROVE  TypeInv' /\ Stops(s, "down")
<1>1. DataOK /\ LocksOK
  BY TypeParts DEF TypeInv
<1>2. Stops(s, "down")
  BY DEF Crash, Stops, Move
<1>3. LocksOK'
  BY <1>1, OrphanType DEF Crash, LocksOK
<1>4. DataOK'
  BY <1>1, FaultType DEF Crash, DataOK
<1> QED
  BY <1>2, <1>3, <1>4, StopKeepsType

LEMMA CancelType ==
  ASSUME TypeInv, NEW s \in Service, Cancel(s)
  PROVE  TypeInv' /\ Stops(s, "down")
<1>1. DataOK /\ LocksOK
  BY TypeParts DEF TypeInv
<1>2. Stops(s, "down")
  BY DEF Cancel, Stops, Move
<1>3. LocksOK'
  BY <1>1, OrphanType DEF Cancel, LocksOK
<1>4. DataOK'
  <2>1. UNCHANGED <<position, skipped>> /\ faults' \in 0..MaxFaults
    BY <1>1, FaultType DEF Cancel, DataOK
  <2>2. CASE UNCHANGED <<job, committed>>
    BY <1>1, <2>1, <2>2 DEF DataOK
  <2>3. CASE /\ ctx[s].pc = "insert"
             /\ job' = job \cup {MessageAt(Cur(s))}
             /\ UNCHANGED committed
    BY <1>1, <2>1, <2>3 DEF DataOK, TypeInv, EventInHand
  <2>4. CASE /\ ctx[s].pc \in {"commit", "handler"}
             /\ committed' = OffsetSet(s)
             /\ UNCHANGED job
    BY <1>1, <2>1, <2>4, OffsetSetType DEF DataOK
  <2> QED
    BY <2>2, <2>3, <2>4 DEF Cancel
<1> QED
  BY <1>2, <1>3, <1>4, StopKeepsType

(* A process that fails to start stops; it was no member of the group.      *)
LEMMA StartType ==
  ASSUME TypeInv, NEW s \in Service, StartConsumer(s)
  PROVE  TypeInv' /\ (Continues(s, "poll", Nil) \/ Stops(s, "stopped"))
<1>1. DataOK /\ LocksOK /\ CtxOK /\ AssignmentOK
  BY TypeParts DEF TypeInv
<1>2. DataOK' /\ LocksOK'
  BY <1>1, FaultType DEF StartConsumer, DataOK, LocksOK
<1>3. CASE ctx' = Goto(s, "poll")
  <2>1. Continues(s, "poll", Nil)
    BY <1>1, <1>3, GotoMoves DEF StartConsumer, Continues, Pc, CtxOK
  <2> QED
    BY <1>2, <2>1, ContinueType, TypePartsNext DEF TypeInv
<1>4. CASE ctx' = Goto(s, "stopped")
  <2>1. Move(s, "stopped", Nil)
    BY <1>1, <1>4, GotoMoves DEF StartConsumer, CtxOK
  <2>2. s \notin Running /\ s # Nil
    BY ConsumerAssumption DEF StartConsumer, Running
  <2>3. Leave(s)
    BY <1>1, <2>2 DEF StartConsumer, AssignmentOK, Leave
  <2> QED
    BY <1>2, <2>1, <2>3, StopKeepsType DEF Stops
<1> QED
  BY <1>3, <1>4 DEF StartConsumer

LEMMA RebalanceType ==
  ASSUME TypeInv, Rebalance
  PROVE  TypeInv'
<1>1. DataOK /\ LocksOK /\ CtxOK
  BY TypeParts DEF TypeInv
<1>2. UNCHANGED ctx /\ Running' = Running
  BY DEF Rebalance, Running
<1>3. CtxOK' /\ EventInHand' /\ LocksOK'
  BY <1>1, <1>2 DEF Rebalance, CtxOK, EventInHand, TypeInv, Cur, MessageAt, LocksOK
<1>4. AssignmentOK'
  BY <1>2 DEF Rebalance, AssignmentOK
<1>5. DataOK'
  BY <1>1, FaultType DEF Rebalance, DataOK
<1> QED
  BY <1>3, <1>4, <1>5, TypePartsNext DEF TypeInv

LEMMA ExpireType ==
  ASSUME TypeInv, Expire
  PROVE  TypeInv'
BY TypeParts, TypePartsNext
   DEF Expire, TypeInv, DataOK, LocksOK, CtxOK, AssignmentOK, EventInHand, Running, Cur, MessageAt

LEMMA StutterType ==
  ASSUME TypeInv, UNCHANGED vars
  PROVE  TypeInv'
BY TypeParts, TypePartsNext
   DEF vars, TypeInv, DataOK, LocksOK, CtxOK, AssignmentOK, EventInHand, Running, Cur, MessageAt

LEMMA InitType == Init => TypeInv
<1> SUFFICES ASSUME Init PROVE TypeInv
  OBVIOUS
<1>1. ASSUME NEW p \in Partition PROVE Len(Log[p]) \in Nat
  BY ConsumerAssumption
<1>2. DataOK /\ LocksOK
  BY <1>1, ConsumerAssumption DEF Init, DataOK, LocksOK
<1>3. CtxOK /\ AssignmentOK /\ EventInHand
  BY DEF Init, CtxOK, AssignmentOK, EventInHand, Cur, Pc
<1> QED
  BY <1>2, <1>3, TypeParts DEF TypeInv

(* The variables of the consumer keep their types.                          *)
THEOREM ConsumerTypeCorrect == Spec => []ConsumerTypeOK
<1>1. TypeInv /\ [Next]_vars => TypeInv'
  BY FetchType, LockEventType, InsertJobType, CommitOffsetType, ReleaseType, ReleaseFailsType,
     CrashType, CancelType, StartType, RebalanceType, ExpireType, StutterType
     DEF Next, Work
<1>2. TypeInv => ConsumerTypeOK
  BY DEF TypeInv
<1> QED
  BY <1>1, <1>2, InitType, PTL DEF Spec

-----------------------------------------------------------------------------
(* The offsets.                                                             *)

OffsetParts == DoneInHand /\ DoneBeforeHand /\ DoneBeforePosition /\ OffsetFollowsJob

Grows == job \subseteq job' /\ skipped \subseteq skipped'

LEMMA StaysDone ==
  ASSUME Grows, NEW place, Done(place)
  PROVE  Done(place)'
BY DEF Grows, Done, MessageAt

(* An offset follows the jobs if all it covers is done.                     *)
LEMMA OffsetIsDone ==
  OffsetFollowsJob <=> \A place \in Place : place[2] <= committed[place[1]] => Done(place)
BY DEF OffsetFollowsJob, Done

LEMMA OffsetStaysDone ==
  ASSUME Grows, OffsetFollowsJob, UNCHANGED committed
  PROVE  OffsetFollowsJob'
BY OffsetIsDone, StaysDone DEF OffsetFollowsJob, Done, MessageAt

(* To commit the offset of a message that is done is safe, also for the      *)
(* messages before it.                                                      *)
LEMMA OffsetSetIsDone ==
  ASSUME OffsetInv, NEW s \in Service, Grows, Cur(s) \in Place, Cur(s) # Nil, Done(Cur(s)),
         committed' = OffsetSet(s)
  PROVE  OffsetFollowsJob'
<1>1. DataOK
  BY TypeParts DEF OffsetInv, TypeInv
<1>2. ASSUME NEW place \in Place, place[2] <= committed'[place[1]]
      PROVE  Done(place)
  <2>1. /\ place[1] \in Partition /\ place[2] \in Nat /\ place = <<place[1], place[2]>>
        /\ Cur(s)[1] \in Partition /\ Cur(s)[2] \in Nat /\ Cur(s) = <<Cur(s)[1], Cur(s)[2]>>
    BY PlaceIs
  <2>2. CASE place[1] # Cur(s)[1]
    BY <1>1, <1>2, <2>1, <2>2, OffsetIsDone DEF OffsetSet, DataOK, OffsetInv
  <2>3. CASE place[1] = Cur(s)[1]
    <3>1. place[2] <= Cur(s)[2]
      BY <1>1, <1>2, <2>1, <2>3 DEF OffsetSet, DataOK
    <3>2. CASE place[2] < Cur(s)[2]
      BY <2>3, <3>2 DEF OffsetInv, DoneBeforeHand
    <3>3. CASE place[2] = Cur(s)[2]
      BY <2>1, <2>3, <3>3
    <3> QED
      BY <2>1, <3>1, <3>2, <3>3
  <2> QED
    BY <2>2, <2>3
<1> QED
  BY <1>2, StaysDone DEF OffsetFollowsJob, Done, MessageAt

(* A process goes on with the message it has in hand.                       *)
LEMMA HandKept ==
  ASSUME OffsetInv, NEW s \in Service, NEW pc, Continues(s, pc, Cur(s)), Grows,
         UNCHANGED position, OffsetFollowsJob',
         pc \in {"commit", "handler", "release", "ending"} => Done(Cur(s))'
  PROVE  OffsetParts'
<1>1. CtxOK
  BY TypeParts DEF OffsetInv, TypeInv
<1>2. /\ ctx'[s].pc = pc
      /\ \A t \in Service : Cur(t)' = Cur(t)
      /\ \A t \in Service \ {s} : ctx'[t] = ctx[t]
  BY <1>1, MoveIs DEF Continues
<1>3. DoneInHand'
  <2>1. ASSUME NEW t \in Service, ctx'[t].pc \in {"commit", "handler", "release", "ending"}
        PROVE  Done(Cur(t))'
    <3>1. CASE t = s
      BY <1>2, <2>1, <3>1
    <3>2. CASE t # s
      <4>1. Done(Cur(t))
        BY <1>2, <2>1, <3>2 DEF OffsetInv, DoneInHand
      <4> QED
        BY <1>2, <4>1 DEF Grows, Done, MessageAt
    <3> QED
      BY <3>1, <3>2
  <2> QED
    BY <2>1 DEF DoneInHand
<1>4. DoneBeforeHand'
  BY <1>2, StaysDone DEF OffsetInv, DoneBeforeHand
<1>5. DoneBeforePosition'
  <2>1. UNCHANGED assignment
    BY DEF Continues
  <2>2. ASSUME NEW place \in Place, assignment[place[1]] # Nil
        PROVE  assignment[place[1]] \in Service
    BY <2>2, TypeParts, PlaceIs DEF OffsetInv, TypeInv, AssignmentOK, Running
  <2> QED
    BY <1>2, <2>1, <2>2, StaysDone DEF OffsetInv, DoneBeforePosition
<1> QED
  BY <1>3, <1>4, <1>5 DEF OffsetParts

(* A process has done with its message, or leaves its partitions.           *)
LEMMA HandEmptied ==
  ASSUME OffsetInv, NEW s \in Service, NEW pc, Move(s, pc, Nil), Grows,
         pc \notin {"commit", "handler", "release", "ending"},
         UNCHANGED position, OffsetFollowsJob',
         \/ (Cur(s) # Nil => Done(Cur(s))) /\ UNCHANGED assignment
         \/ Leave(s)
  PROVE  OffsetParts'
<1>1. CtxOK
  BY TypeParts DEF OffsetInv, TypeInv
<1>2. /\ ctx'[s].pc = pc /\ Cur(s)' = Nil
      /\ \A t \in Service \ {s} : ctx'[t] = ctx[t] /\ Cur(t)' = Cur(t)
  BY <1>1, MoveIs
<1>3. DoneInHand'
  BY <1>2, StaysDone DEF OffsetInv, DoneInHand
<1>4. DoneBeforeHand'
  BY <1>2, StaysDone DEF OffsetInv, DoneBeforeHand
<1>5. DoneBeforePosition'
  <2>1. ASSUME NEW place \in Place, NEW t, t = assignment'[place[1]], t # Nil,
               place[2] <= position[place[1]]
        PROVE  Done(place)' \/ ctx'[t].cur = place
    <3>1. place[1] \in Partition /\ place # Nil
      BY PlaceIs, ConsumerAssumption
    <3>2. t = assignment[place[1]] /\ (t = s => UNCHANGED assignment)
      BY <2>1, <3>1, TypeParts DEF Leave, OffsetInv, TypeInv, AssignmentOK
    <3>3. t \in Service
      BY <2>1, <3>1, <3>2, TypeParts DEF OffsetInv, TypeInv, AssignmentOK, Running
    <3>4. Done(place) \/ Cur(t) = place
      BY <2>1, <3>2 DEF OffsetInv, DoneBeforePosition
    <3>5. CASE Done(place)
      BY <3>5, StaysDone
    <3>6. CASE Cur(t) = place /\ t # s
      BY <1>2, <3>3, <3>6 DEF Cur
    <3>7. CASE Cur(t) = place /\ t = s
      <4>1. ~Leave(s)
        BY <2>1, <3>1, <3>2, <3>7 DEF Leave
      <4>2. Done(place)
        BY <3>1, <3>7, <4>1
      <4> QED
        BY <4>2, StaysDone
    <3> QED
      BY <3>4, <3>5, <3>6, <3>7
  <2> QED
    BY <2>1 DEF DoneBeforePosition, Cur
<1> QED
  BY <1>3, <1>4, <1>5 DEF OffsetParts

-----------------------------------------------------------------------------
(* Every action preserves what the offsets need.                            *)

LEMMA FetchOffsets ==
  ASSUME OffsetInv, NEW s \in Service, Fetch(s)
  PROVE  OffsetParts'
<1> DEFINE at(p) == <<p, position[p] + 1>>
<1>1. PICK p \in Partition, pc \in {"commit", "handler", "release", "lock"} :
        /\ assignment[p] = s
        /\ position' = [position EXCEPT ![p] = @ + 1]
        /\ at(p) \in Place
        /\ Continues(s, pc, at(p))
        /\ pc \in {"commit", "handler"} => MessageAt(at(p)) \notin Event
        /\ skipped' = IF pc = "release" THEN skipped \cup {at(p)} ELSE skipped
  BY FetchMoves DEF OffsetInv
<1>2. DataOK /\ CtxOK /\ AssignmentOK
  BY TypeParts DEF OffsetInv, TypeInv
<1>3. Grows /\ UNCHANGED <<job, committed>> /\ Cur(s) = Nil /\ s # Nil
  BY <1>1, <1>2, ConsumerAssumption DEF Fetch, Grows, CtxOK
<1>4. /\ ctx'[s].pc = pc /\ Cur(s)' = at(p)
      /\ \A t \in Service \ {s} : ctx'[t] = ctx[t] /\ Cur(t)' = Cur(t)
  BY <1>1, <1>2, MoveIs DEF Continues
<1>5. OffsetFollowsJob'
  BY <1>3, OffsetStaysDone DEF OffsetInv
<1>6. DoneInHand'
  <2>1. pc \in {"commit", "handler", "release"} =>
          (MessageAt(at(p)) \in Event => at(p) \in skipped')
    BY <1>1
  <2>2. ASSUME NEW t \in Service, ctx'[t].pc \in {"commit", "handler", "release", "ending"}
        PROVE  Done(Cur(t))'
    <3>1. CASE t = s
      BY <1>4, <2>1, <2>2, <3>1 DEF Done, MessageAt
    <3>2. CASE t # s
      BY <1>3, <1>4, <2>2, <3>2, StaysDone DEF OffsetInv, DoneInHand
    <3> QED
      BY <3>1, <3>2
  <2> QED
    BY <2>2 DEF DoneInHand
(* All that s fetched before is done, as s has nothing in hand.              *)
<1>7. ASSUME NEW place \in Place, place[1] = p, place[2] <= position[p]
      PROVE  Done(place)
  BY <1>1, <1>3, <1>7, ConsumerAssumption DEF OffsetInv, DoneBeforePosition
<1>8. DoneBeforeHand'
  <2>1. ASSUME NEW place \in Place, place[1] = p, place[2] < position[p] + 1
        PROVE  Done(place)
    BY <1>2, <1>7, <2>1, PlaceIs DEF DataOK
  <2>2. ASSUME NEW t \in Service, Cur(t)' # Nil, NEW place \in Place,
               place[1] = Cur(t)'[1], place[2] < Cur(t)'[2]
        PROVE  Done(place)
    <3>1. CASE t = s
      BY <1>4, <2>1, <2>2, <3>1
    <3>2. CASE t # s
      BY <1>4, <2>2, <3>2 DEF OffsetInv, DoneBeforeHand
    <3> QED
      BY <3>1, <3>2
  <2> QED
    BY <1>3, <2>2, StaysDone DEF DoneBeforeHand
<1>9. DoneBeforePosition'
  <2>1. ASSUME NEW place \in Place, NEW t, t = assignment[place[1]], t # Nil,
               place[2] <= position'[place[1]]
        PROVE  Done(place) \/ ctx'[t].cur = place
    <3>1. /\ place[1] \in Partition /\ place[2] \in Nat /\ place = <<place[1], place[2]>>
          /\ place # Nil
      BY PlaceIs, ConsumerAssumption
    <3>2. t \in Service
      BY <1>2, <2>1, <3>1 DEF AssignmentOK, Running
    <3>3. CASE place[1] = p
      <4>1. place[2] <= position[p] \/ place = at(p)
        BY <1>1, <1>2, <2>1, <3>1, <3>3 DEF DataOK
      <4> QED
        BY <1>1, <1>4, <1>7, <2>1, <3>3, <4>1 DEF Cur
    <3>4. CASE place[1] # p
      <4>1. Done(place) \/ Cur(t) = place
        BY <1>1, <1>2, <2>1, <3>1, <3>4 DEF OffsetInv, DoneBeforePosition, DataOK
      <4> QED
        BY <1>3, <1>4, <3>1, <3>2, <4>1 DEF Cur
    <3> QED
      BY <3>3, <3>4
  <2> QED
    BY <1>1, <1>3, <2>1, StaysDone DEF Continues, DoneBeforePosition, Cur
<1> QED
  BY <1>5, <1>6, <1>8, <1>9 DEF OffsetParts

LEMMA SkipOffsets ==
  ASSUME OffsetInv, NEW s \in Service, ctx[s].pc \notin {"poll", "stopped", "down"}, Skip(s),
         Grows, UNCHANGED <<position, assignment>>, OffsetFollowsJob'
  PROVE  OffsetParts'
<1>1. Continues(s, "release", Cur(s))
  BY SkipContinues DEF OffsetInv
<1>2. Done(Cur(s))'
  <2>1. CtxOK
    BY TypeParts DEF OffsetInv, TypeInv
  <2>2. Cur(s)' = Cur(s)
    BY <1>1, <2>1, MoveIs DEF Continues
  <2> QED
    BY <2>2 DEF Skip, Done
<1> QED
  BY <1>1, <1>2, HandKept

LEMMA LockEventOffsets ==
  ASSUME OffsetInv, NEW s \in Service, LockEvent(s)
  PROVE  OffsetParts'
<1>1. /\ ctx[s].pc \in {"lock", "lock2"}
      /\ UNCHANGED <<job, committed, position, assignment>>
  BY DEF LockEvent
<1>2. CtxOK
  BY TypeParts DEF OffsetInv, TypeInv
<1>3. PICK next \in {"lock2", "insert"} :
        \/ Skip(s)
        \/ ctx' = Goto(s, next) /\ UNCHANGED skipped
  BY DEF LockEvent, Acquire
<1>4. Grows /\ OffsetFollowsJob'
  BY <1>1, <1>3, OffsetStaysDone DEF Grows, Skip, OffsetInv
<1>5. CASE ctx' = Goto(s, next)
  BY <1>1, <1>2, <1>4, <1>5, GotoContinues, HandKept DEF Pc
<1> QED
  BY <1>1, <1>3, <1>4, <1>5, SkipOffsets

LEMMA InsertJobOffsets ==
  ASSUME OffsetInv, NEW s \in Service, InsertJob(s)
  PROVE  OffsetParts'
<1>1. ctx[s].pc = "insert" /\ UNCHANGED <<committed, position, assignment>>
  BY DEF InsertJob
<1>2. CtxOK
  BY TypeParts DEF OffsetInv, TypeInv
<1>3. Grows /\ OffsetFollowsJob'
  BY <1>1, OffsetStaysDone DEF InsertJob, Grows, Skip, OffsetInv
<1>4. ASSUME NEW pc \in {"handler", "commit"}, ctx' = Goto(s, pc), MessageAt(Cur(s)) \in job'
      PROVE  OffsetParts'
  <2>1. Continues(s, pc, Cur(s))
    BY <1>1, <1>2, <1>4, GotoContinues DEF Pc
  <2>2. Cur(s)' = Cur(s)
    BY <1>2, <2>1, MoveIs DEF Continues
  <2> QED
    BY <1>1, <1>3, <1>4, <2>1, <2>2, HandKept DEF Done, MessageAt
<1>5. CASE Skip(s)
  BY <1>1, <1>3, <1>5, SkipOffsets
<1> QED
  BY <1>4, <1>5 DEF InsertJob

LEMMA CommitOffsetOffsets ==
  ASSUME OffsetInv, NEW s \in Service, CommitOffset(s)
  PROVE  OffsetParts'
<1>1. ctx[s].pc \in {"commit", "handler"} /\ UNCHANGED <<job, position, assignment>>
  BY DEF CommitOffset
<1>2. CtxOK
  BY TypeParts DEF OffsetInv, TypeInv
<1>3. Done(Cur(s)) /\ Cur(s) \in Place /\ Cur(s) # Nil
  BY <1>1, <1>2, HandPlace DEF OffsetInv, DoneInHand
<1>4. Grows
  BY <1>1 DEF CommitOffset, Grows, Skip
<1>5. OffsetFollowsJob'
  <2>1. CASE UNCHANGED committed
    BY <1>4, <2>1, OffsetStaysDone DEF OffsetInv
  <2>2. CASE committed' = OffsetSet(s)
    BY <1>3, <1>4, <2>2, OffsetSetIsDone
  <2> QED
    BY <2>1, <2>2 DEF CommitOffset
<1>6. ASSUME NEW pc \in {"release", "ending"}, ctx' = Goto(s, pc)
      PROVE  OffsetParts'
  <2>1. Continues(s, pc, Cur(s))
    BY <1>1, <1>2, <1>6, GotoContinues DEF Pc
  <2>2. Done(Cur(s))'
    <3>1. Cur(s)' = Cur(s)
      BY <1>2, <2>1, MoveIs DEF Continues
    <3> QED
      BY <1>3, <1>4, <3>1 DEF Grows, Done, MessageAt
  <2> QED
    BY <1>1, <1>4, <1>5, <2>1, <2>2, HandKept
<1> QED
  BY <1>6 DEF CommitOffset, Skip

LEMMA ReleaseOffsets ==
  ASSUME OffsetInv, NEW s \in Service, Release(s)
  PROVE  OffsetParts'
<1>1. Grows /\ UNCHANGED position /\ OffsetFollowsJob'
  BY OffsetStaysDone DEF Release, Grows, OffsetInv
<1>2. Done(Cur(s))
  BY DEF Release, OffsetInv, DoneInHand
<1>3. \/ Move(s, "poll", Nil) /\ UNCHANGED assignment
      \/ Move(s, "stopped", Nil) /\ Leave(s)
  BY DEF Release, Move
<1> QED
  BY <1>1, <1>2, <1>3, HandEmptied

(* A process that stops may have set the offset of a message that is done.   *)
LEMMA StopOffsets ==
  ASSUME OffsetInv, NEW s \in Service, NEW pc, Stops(s, pc), Grows,
         UNCHANGED position, OffsetFollowsJob'
  PROVE  OffsetParts'
BY HandEmptied DEF Stops

LEMMA CrashOffsets ==
  ASSUME OffsetInv, NEW s \in Service, ReleaseFails(s) \/ Crash(s)
  PROVE  OffsetParts'
<1>1. Grows /\ UNCHANGED position /\ OffsetFollowsJob'
  BY OffsetStaysDone DEF ReleaseFails, Crash, Grows, OffsetInv
<1> QED
  BY <1>1, ReleaseFailsType, CrashType, StopOffsets DEF OffsetInv

LEMMA CancelOffsets ==
  ASSUME OffsetInv, NEW s \in Service, Cancel(s)
  PROVE  OffsetParts'
<1>1. Grows /\ UNCHANGED position
  BY DEF Cancel, Grows
<1>2. OffsetFollowsJob'
  <2>1. CASE UNCHANGED committed
    BY <1>1, <2>1, OffsetStaysDone DEF OffsetInv
  <2>2. CASE ctx[s].pc \in {"commit", "handler"} /\ committed' = OffsetSet(s)
    <3>1. Done(Cur(s)) /\ Cur(s) \in Place /\ Cur(s) # Nil
      BY <2>2, TypeParts, HandPlace DEF OffsetInv, TypeInv, DoneInHand
    <3> QED
      BY <1>1, <2>2, <3>1, OffsetSetIsDone
  <2> QED
    BY <2>1, <2>2 DEF Cancel
<1> QED
  BY <1>1, <1>2, CancelType, StopOffsets DEF OffsetInv

LEMMA StartOffsets ==
  ASSUME OffsetInv, NEW s \in Service, StartConsumer(s)
  PROVE  OffsetParts'
<1>1. Continues(s, "poll", Nil) \/ Stops(s, "stopped")
  BY StartType DEF OffsetInv
<1>2. Cur(s) = Nil
  BY TypeParts DEF StartConsumer, OffsetInv, TypeInv, CtxOK
<1>3. Grows /\ UNCHANGED position /\ OffsetFollowsJob'
  BY OffsetStaysDone DEF StartConsumer, Grows, OffsetInv
<1> QED
  BY <1>1, <1>2, <1>3, HandEmptied, StopOffsets DEF Continues

(* After a rebalance everybody starts from the committed offsets, and what   *)
(* these cover is done.                                                     *)
LEMMA RebalanceOffsets ==
  ASSUME OffsetInv, Rebalance
  PROVE  OffsetParts'
<1>1. UNCHANGED <<job, committed, ctx, skipped>> /\ position' = committed
  BY DEF Rebalance
<1>2. DoneBeforePosition'
  BY <1>1, OffsetIsDone DEF OffsetInv, DoneBeforePosition, Done, Cur, MessageAt
<1> QED
  BY <1>1, <1>2
     DEF OffsetInv, OffsetParts, DoneInHand, DoneBeforeHand, OffsetFollowsJob, Done, Cur, MessageAt

LEMMA StillOffsets ==
  ASSUME OffsetInv, UNCHANGED <<job, committed, position, assignment, ctx, skipped>>
  PROVE  OffsetParts'
BY DEF OffsetInv, OffsetParts, DoneInHand, DoneBeforeHand, DoneBeforePosition, OffsetFollowsJob,
       Done, Cur, MessageAt

LEMMA InitOffsets == Init => OffsetInv
<1> SUFFICES ASSUME Init PROVE OffsetInv
  OBVIOUS
<1>1. TypeInv
  BY InitType
<1>2. OffsetFollowsJob
  BY PlaceIs DEF Init, OffsetFollowsJob
<1>3. DoneInHand /\ DoneBeforeHand /\ DoneBeforePosition
  BY PlaceIs DEF Init, DoneInHand, DoneBeforeHand, DoneBeforePosition, Cur
<1> QED
  BY <1>1, <1>2, <1>3 DEF OffsetInv

(* A committed offset covers an event only if the event has its job or was   *)
(* given up by a skip.                                                      *)
THEOREM OffsetsFollow == Spec => []OffsetFollowsJob
<1>1. OffsetInv /\ [Next]_vars => TypeInv'
  BY FetchType, LockEventType, InsertJobType, CommitOffsetType, ReleaseType, ReleaseFailsType,
     CrashType, CancelType, StartType, RebalanceType, ExpireType, StutterType
     DEF Next, Work, OffsetInv
<1>2. OffsetInv /\ [Next]_vars => OffsetParts'
  <2>1. OffsetInv /\ (Expire \/ UNCHANGED vars) => OffsetParts'
    BY StillOffsets DEF Expire, vars
  <2> QED
    BY <2>1, FetchOffsets, LockEventOffsets, InsertJobOffsets, CommitOffsetOffsets,
       ReleaseOffsets, CrashOffsets, CancelOffsets, StartOffsets, RebalanceOffsets
       DEF Next, Work
<1>3. OffsetInv /\ [Next]_vars => OffsetInv'
  BY <1>1, <1>2 DEF OffsetInv, OffsetParts
<1>4. OffsetInv => OffsetFollowsJob
  BY DEF OffsetInv
<1> QED
  BY <1>3, <1>4, InitOffsets, PTL DEF Spec

-----------------------------------------------------------------------------
(* The locks.                                                               *)

OneOwner == \A l, m \in locks : l.state = m.state /\ l.event = m.event => l = m

InsertHoldsLock ==
  \A s \in Service : ctx[s].pc = "insert" =>
    [state |-> "COMMITTING", event |-> MessageAt(Cur(s)), owner |-> s] \in locks

LockInv == TypeInv /\ OneOwner /\ InsertHoldsLock

(* Locks are given back, or lose their owner.                                *)
LEMMA LocksGoBack ==
  ASSUME LocksOK, OneOwner, NEW s \in Service, locks' \subseteq Orphaned(s)
  PROVE  OneOwner'
<1>1. ASSUME NEW l \in locks'
      PROVE  \E m \in locks : l = [m EXCEPT !.owner = IF @ = s THEN Nil ELSE @]
  BY DEF Orphaned
<1>2. ASSUME NEW l \in locks', NEW m \in locks', l.state = m.state, l.event = m.event
      PROVE  l = m
  <2>1. PICK l0 \in locks : l = [l0 EXCEPT !.owner = IF @ = s THEN Nil ELSE @]
    BY <1>1
  <2>2. PICK m0 \in locks : m = [m0 EXCEPT !.owner = IF @ = s THEN Nil ELSE @]
    BY <1>1
  <2>3. l0.state = m0.state /\ l0.event = m0.event
    BY <1>2, <2>1, <2>2 DEF LocksOK
  <2> QED
    BY <2>1, <2>2, <2>3 DEF OneOwner
<1> QED
  BY <1>2 DEF OneOwner

LEMMA UnlockedOneOwner ==
  ASSUME OneOwner, locks' \subseteq locks
  PROVE  OneOwner'
BY DEF OneOwner

(* The others keep the lock they insert under.                              *)
LEMMA OthersInsert ==
  ASSUME CtxOK, InsertHoldsLock, NEW s \in Service, NEW pc, NEW cur, Move(s, pc, cur),
         \A l \in locks : l.owner \in Service \ {s} => l \in locks',
         pc = "insert" =>
           [state |-> "COMMITTING", event |-> MessageAt(cur), owner |-> s] \in locks'
  PROVE  InsertHoldsLock'
<1>1. ASSUME NEW t \in Service, ctx'[t].pc = "insert"
      PROVE  [state |-> "COMMITTING", event |-> MessageAt(ctx'[t].cur), owner |-> t] \in locks'
  <2>1. CASE t = s
    BY <1>1, <2>1, MoveIs DEF Cur
  <2>2. CASE t # s
    <3>1. ctx'[t] = ctx[t]
      BY <2>2, MoveIs
    <3>2. [state |-> "COMMITTING", event |-> MessageAt(Cur(t)), owner |-> t] \in locks
      BY <1>1, <3>1 DEF InsertHoldsLock
    <3> QED
      BY <2>2, <3>1, <3>2 DEF Cur
  <2> QED
    BY <2>1, <2>2
<1> QED
  BY <1>1 DEF InsertHoldsLock, Cur, MessageAt

LEMMA LockEventLocks ==
  ASSUME LockInv, NEW s \in Service, LockEvent(s)
  PROVE  OneOwner' /\ InsertHoldsLock'
<1>1. LocksOK /\ CtxOK
  BY TypeParts DEF LockInv, TypeInv
<1>2. PICK state \in {"PROCESSING", "COMMITTING"}, next \in {"lock2", "insert"} :
        /\ Acquire(s, state, next)
        /\ next = "insert" => state = "COMMITTING"
  BY DEF LockEvent
<1>3. CASE Skip(s) /\ UNCHANGED locks
  <2>1. Move(s, "release", Cur(s))
    BY <1>1, <1>3, GotoMoves DEF Skip
  <2> QED
    BY <1>1, <1>3, <2>1, UnlockedOneOwner, OthersInsert DEF LockInv
<1>4. CASE /\ ~Taken(state, MessageAt(Cur(s)))
           /\ locks' = locks \cup {[state |-> state, event |-> MessageAt(Cur(s)), owner |-> s]}
           /\ ctx' = Goto(s, next)
  <2>1. Move(s, next, Cur(s))
    BY <1>1, <1>4, GotoMoves
  <2>2. InsertHoldsLock'
    BY <1>1, <1>2, <1>4, <2>1, OthersInsert DEF LockInv
  <2>3. OneOwner'
    BY <1>4 DEF Taken, LockInv, OneOwner
  <2> QED
    BY <2>2, <2>3
<1> QED
  BY <1>2, <1>3, <1>4 DEF Acquire

LEMMA OtherLocks ==
  ASSUME LockInv, NEW s \in Service,
         \/ Fetch(s) \/ InsertJob(s) \/ CommitOffset(s) \/ Release(s)
         \/ ReleaseFails(s) \/ Crash(s) \/ Cancel(s) \/ StartConsumer(s)
  PROVE  OneOwner' /\ InsertHoldsLock'
<1>1. LocksOK /\ CtxOK
  BY TypeParts DEF LockInv, TypeInv
<1>2. \E pc, cur : Move(s, pc, cur) /\ pc # "insert"
  <2>1. CASE Fetch(s)
    BY <2>1, FetchMoves DEF LockInv, Continues
  <2>2. CASE InsertJob(s) \/ CommitOffset(s) \/ StartConsumer(s)
    <3>1. PICK pc \in Pc \ {"insert"} : ctx' = Goto(s, pc)
      BY <2>2 DEF InsertJob, CommitOffset, StartConsumer, Skip, Pc
    <3> QED
      BY <1>1, <3>1, GotoMoves
  <2>3. CASE Release(s) \/ ReleaseFails(s) \/ Crash(s) \/ Cancel(s)
    BY <2>3 DEF Release, ReleaseFails, Crash, Cancel, Move
  <2> QED
    BY <2>1, <2>2, <2>3
<1>3. OneOwner' /\ \A l \in locks : l.owner \in Service \ {s} => l \in locks'
  <2>1. CASE UNCHANGED locks
    BY <2>1, UnlockedOneOwner DEF LockInv
  <2>2. CASE locks' = Unlocked(s)
    BY <1>1, <2>2, UnlockedOneOwner DEF LockInv, Unlocked
  <2>3. CASE \/ locks' = Orphaned(s)
             \/ locks' = {l \in Orphaned(s) :
                            [l EXCEPT !.owner = s] \in locks => l.state = "PROCESSING"}
    <3>1. OneOwner'
      BY <1>1, <2>3, LocksGoBack DEF LockInv
    <3>2. ASSUME NEW l \in locks, l.owner \in Service \ {s} PROVE l \in locks'
      <4>1. l \in Orphaned(s)
        <5>1. [l EXCEPT !.owner = IF @ = s THEN Nil ELSE @] = l
          BY <1>1, <3>2 DEF LocksOK
        <5> QED
          BY <5>1 DEF Orphaned
      <4>2. [l EXCEPT !.owner = s] \notin locks
        <5> DEFINE m == [l EXCEPT !.owner = s]
        <5>1. m.state = l.state /\ m.event = l.event /\ m.owner = s
          BY <1>1 DEF LocksOK
        <5> HIDE DEF m
        <5>2. m \notin locks
          BY <3>2, <5>1 DEF LockInv, OneOwner
        <5> QED
          BY <5>2 DEF m
      <4> QED
        BY <2>3, <4>1, <4>2
    <3> QED
      BY <3>1, <3>2
  <2> QED
    BY <2>1, <2>2, <2>3
       DEF Fetch, InsertJob, CommitOffset, StartConsumer, Release, ReleaseFails, Crash, Cancel
<1> QED
  BY <1>1, <1>2, <1>3, OthersInsert DEF LockInv

LEMMA WorldLocks ==
  ASSUME LockInv, ~SlowWork, Rebalance \/ Expire \/ UNCHANGED vars
  PROVE  OneOwner' /\ InsertHoldsLock'
<1>1. UNCHANGED ctx /\ locks' \subseteq locks
  BY DEF Rebalance, Expire, vars
<1>2. ASSUME NEW l \in locks, l.owner \in Service PROVE l \in locks'
  BY <1>2, ConsumerAssumption DEF Rebalance, Expire, vars
<1>3. InsertHoldsLock'
  BY <1>1, <1>2 DEF LockInv, InsertHoldsLock, Cur, MessageAt
<1> QED
  BY <1>1, <1>3, UnlockedOneOwner DEF LockInv

LEMMA InitLocks == Init => LockInv
BY InitType DEF Init, LockInv, OneOwner, InsertHoldsLock

(* As long as no lock outlives its TTL, no two processes insert the job of   *)
(* one event at the same time.                                              *)
THEOREM InsertsExclude ==
  ASSUME SlowWork = FALSE
  PROVE  Spec => []InsertIsExclusive
<1>1. LockInv /\ [Next]_vars => TypeInv'
  BY FetchType, LockEventType, InsertJobType, CommitOffsetType, ReleaseType, ReleaseFailsType,
     CrashType, CancelType, StartType, RebalanceType, ExpireType, StutterType
     DEF Next, Work, LockInv
<1>2. LockInv /\ [Next]_vars => OneOwner' /\ InsertHoldsLock'
  BY LockEventLocks, OtherLocks, WorldLocks DEF Next, Work
<1>3. LockInv /\ [Next]_vars => LockInv'
  BY <1>1, <1>2 DEF LockInv
<1>4. LockInv => InsertIsExclusive
  BY DEF LockInv, OneOwner, InsertHoldsLock, InsertIsExclusive
<1> QED
  BY <1>3, <1>4, InitLocks, PTL DEF Spec
=============================================================================
