----------------------------- MODULE JobLifecycle -----------------------------
(***************************************************************************)
(* What the pipeline promises about one job, seen from its row alone: it   *)
(* goes QUEUED -> PROCESSING -> COMPLETED, or fails from anywhere and then  *)
(* stays FAILED; its outcome is announced once it is COMPLETED or FAILED,  *)
(* and an announcement is withdrawn only by failing the job (again).       *)
(***************************************************************************)
CONSTANT Job

VARIABLES
  status,     \* of every job, "ABSENT" before it arrives
  published   \* has the outcome of the job been handed to the outbox?

lifecycleVars == <<status, published>>

LifecycleInit ==
  /\ status = [j \in Job |-> "ABSENT"]
  /\ published = [j \in Job |-> FALSE]

Move(j, from, to) ==
  /\ status[j] = from
  /\ status' = [status EXCEPT ![j] = to]
  /\ UNCHANGED published

Fail(j) ==
  /\ status[j] \in {"QUEUED", "PROCESSING", "COMPLETED"} \/ published[j]
  /\ status' = [status EXCEPT ![j] = "FAILED"]
  /\ published' = [published EXCEPT ![j] = FALSE]

Announce(j) ==
  /\ status[j] \in {"COMPLETED", "FAILED"}
  /\ ~published[j]
  /\ published' = [published EXCEPT ![j] = TRUE]
  /\ UNCHANGED status

LifecycleNext ==
  \E j \in Job :
    \/ Move(j, "ABSENT", "QUEUED")
    \/ Move(j, "QUEUED", "PROCESSING")
    \/ Move(j, "PROCESSING", "COMPLETED")
    \/ Fail(j)
    \/ Announce(j)

LifecycleSpec == LifecycleInit /\ [][LifecycleNext]_lifecycleVars
=============================================================================
