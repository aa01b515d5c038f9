---------------------------- MODULE OutboxContract ----------------------------
(***************************************************************************)
(* What the outbox promises about its events: an event is PENDING until a  *)
(* publication of it has been tried, a record of it is sent only while it  *)
(* is PENDING, a second one only after a failure, and it is given up only  *)
(* when as many attempts as are allowed have failed; given up is final.    *)
(***************************************************************************)
EXTENDS Naturals

CONSTANTS EventId, MaxAttempts

VARIABLES
  status,    \* of every event, "ABSENT" before it is added
  records,   \* records of every event in its topic
  failures   \* failures of whatever kind so far

contractVars == <<status, records, failures>>

ContractInit ==
  /\ status = [o \in EventId |-> "ABSENT"]
  /\ records = [o \in EventId |-> 0]
  /\ failures = 0

Change(o, from, to) ==
  /\ status[o] \in from
  /\ status' = [status EXCEPT ![o] = to]
  /\ UNCHANGED records

Send(o) ==
  /\ status[o] = "PENDING"
  /\ records[o] <= failures
  /\ records' = [records EXCEPT ![o] = @ + 1]
  /\ UNCHANGED status

(* A record that the broker loses is a failure that nobody is told of.      *)
Settle(o) ==
  /\ records[o] + failures > 0
  /\ Change(o, {"PENDING"}, "PROCESSED")

(* Also from PROCESSED: what follows the commit may fail.                   *)
GiveUp(o) ==
  /\ failures >= MaxAttempts
  /\ Change(o, {"PENDING", "PROCESSED"}, "FAILED")

ContractNext ==
  /\ failures' \in {failures, failures + 1}
  /\ \/ UNCHANGED <<status, records>>
     \/ \E o \in EventId :
          \/ Change(o, {"ABSENT"}, "PENDING")
          \/ Send(o)
          \/ Settle(o)
          \/ GiveUp(o)

ContractSpec == ContractInit /\ [][ContractNext]_contractVars
=============================================================================
