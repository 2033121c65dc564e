---------------------------- MODULE StepSequence ----------------------------
(***************************************************************************)
(* What the step queue promises about one sequence of processing steps:    *)
(* steps run one at a time and in order, a step starts only when all steps *)
(* before it are completed, a failure stops the sequence, and a failed     *)
(* step can be put back.  Nothing is said of jobs, Bull or requests.       *)
(***************************************************************************)
EXTENDS Naturals

CONSTANT N        \* number of steps

VARIABLE status   \* status[i] for the steps created so far

Step == DOMAIN status

SInit == status = <<>>

Create ==
  /\ \A i \in Step : status[i] = "PENDING"
  /\ \E n \in 1..N : status' = [i \in 1..n |-> "PENDING"] /\ Step \subseteq 1..n

CompletedBefore(i) == \A j \in 1..(i - 1) : status[j] = "COMPLETED"

Start(i) ==
  /\ status[i] = "PENDING"
  /\ CompletedBefore(i)
  /\ status' = [status EXCEPT ![i] = "PROCESSING"]

Complete(i) ==
  /\ status[i] = "PROCESSING"
  /\ status' = [status EXCEPT ![i] = "COMPLETED"]

\* A step fails before it starts (nothing can process it), while it runs, or
\* afterwards, because the step that follows it could not be queued.
Fail(i) ==
  /\ status[i] # "FAILED"
  /\ CompletedBefore(i)
  /\ \A j \in Step : j > i => status[j] = "PENDING"
  /\ status' = [status EXCEPT ![i] = "FAILED"]

Retry(i) ==
  /\ status[i] = "FAILED"
  /\ status' = [status EXCEPT ![i] = "PENDING"]

SNext ==
  \/ Create
  \/ \E i \in Step : Start(i) \/ Complete(i) \/ Fail(i) \/ Retry(i)

SSpec == SInit /\ [][SNext]_status
=============================================================================
