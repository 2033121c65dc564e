----------------------------- MODULE StepQueue ------------------------------
(***************************************************************************)
(* StepQueueService: one sequence of processing steps (sequences share     *)
(* nothing), its job rows, the Bull queue, the Bull processor and the HTTP *)
(* requests that create the sequence, retry a failed step, or process the  *)
(* next step by hand.                                                      *)
(*                                                                         *)
(* The processor and each request are processes in one Node process; an    *)
(* action is one awaited database or Redis call.  Timestamps, results and  *)
(* the WebSocket events are left out; so are lists of ids that mix steps   *)
(* of several sequences, which process-next would take as well.            *)
(***************************************************************************)
EXTENDS Naturals, Sequences, FiniteSets

CONSTANTS
  Worker,       \* the Bull processor (concurrency 1)
  Request,      \* HTTP requests that may be in flight together
  N,            \* steps in the sequence
  Handled,      \* values of "a handler is registered" for the types asked for
  Lists,        \* lists of steps process-next is called with ("for debugging")
  MaxJobs,      \* bound: job rows
  MaxTrouble,   \* bound: failing database calls and crashes of Node together
  MaxBullFaults \* bound: failing calls of Bull's add (Redis)

ASSUME WorkerAssumption == Worker \notin Request
ASSUME StepsAssumption == N \in Nat \ {0} /\ Handled \subseteq BOOLEAN
ASSUME ListsAssumption == Lists \subseteq SUBSET (1..N)
ASSUME BoundsAssumption ==
  MaxJobs \in Nat /\ MaxTrouble \in Nat /\ MaxBullFaults \in Nat

VARIABLES
  steps,     \* processing_steps of the sequence, by step number
  jobs,      \* the jobs table
  bull,      \* Bull's waiting list
  proc,      \* the state of each process
  trouble,   \* failed database calls and crashes so far (for the bound)
  bullFaults,
  started,   \* history: steps marked PROCESSING at least once
  succeeded  \* history: steps whose handler has succeeded at least once

vars == <<steps, jobs, bull, proc, trouble, bullFaults, started, succeeded>>
counters == <<trouble, bullFaults>>
history == <<counters, started, succeeded>>

Process == {Worker} \union Request
Ids == DOMAIN steps

\* ids: the list of steps the execution was called with (stepIds).
Idle == [pc |-> "idle", step |-> 0, job |-> 0, next |-> 0, ids |-> {},
         bullJob |-> 0, stalls |-> 0]

Init ==
  /\ steps = <<>>
  /\ jobs = <<>>
  /\ bull = <<>>
  /\ proc = [x \in Process |-> Idle]
  /\ trouble = 0
  /\ bullFaults = 0
  /\ started = {}
  /\ succeeded = {}

AtPc(x, pc) == proc[x].pc = pc
Step(x) == proc[x].step
Goto(x, pc) == proc' = [proc EXCEPT ![x].pc = pc]
Done(x) == proc' = [proc EXCEPT ![x] = Idle]
\* An exception reaches the catch of executeStep, where its variables end.
Throw(x) == proc' = [proc EXCEPT ![x].pc = "failStep", ![x].job = 0, ![x].next = 0]
SetStep(i, status) == steps' = [steps EXCEPT ![i].status = status]
SetJob(j, status) == jobs' = [jobs EXCEPT ![j].status = status]

\* findNextPendingStep: the first pending step of the list, unless a failed
\* one of the list precedes it; steps that are completed or being processed
\* are passed over.
NextPendingFirst(ids) == \* faulty: the first step alone is looked at
  {i \in Ids \intersect ids : i = 1 /\ steps[i].status = "PENDING"}
NextPendingLast(ids) == \* faulty: steps in descending order
  {i \in Ids \intersect ids :
     /\ steps[i].status = "PENDING"
     /\ \A j \in Ids \intersect ids : j > i => steps[j].status # "PENDING"}
NextPending(ids) ==
  {i \in Ids \intersect ids :
     /\ steps[i].status = "PENDING"
     /\ \A j \in Ids \intersect ids :
          j < i => steps[j].status \notin {"PENDING", "FAILED"}}

-----------------------------------------------------------------------------
(* createStepSequence *)

CreateStepSequence(r) ==
  /\ AtPc(r, "idle")
  /\ steps = <<>>
  /\ \A q \in Request : ~AtPc(q, "createSteps") \* one sequence is modelled
  /\ Goto(r, "createSteps")
  /\ UNCHANGED <<steps, jobs, bull, history>>

CreateStep(r) ==
  /\ AtPc(r, "createSteps")
  /\ \E h \in Handled :
       steps' = Append(steps, [status |-> "PENDING", job |-> 0, handled |-> h])
  /\ proc' = [proc EXCEPT ![r].pc = IF Len(steps) + 1 = N THEN "next" ELSE "createSteps",
                          ![r].ids = DOMAIN steps']
  /\ UNCHANGED <<jobs, bull, history>>

-----------------------------------------------------------------------------
(* createAndQueueNextJob *)

FindNext(x) ==
  /\ AtPc(x, "next")
  /\ \/ \E i \in NextPending(proc[x].ids) :
          proc' = [proc EXCEPT ![x].pc = "createJob", ![x].next = i]
     \/ NextPending(proc[x].ids) = {} /\ Done(x)
  /\ UNCHANGED <<steps, jobs, bull, history>>

CreateJobForCurrent(x) == \* faulty: a job for the step being executed
  /\ AtPc(x, "createJob")
  /\ Len(jobs) < MaxJobs
  /\ jobs' = Append(jobs, [status |-> "PENDING", step |-> Step(x)])
  /\ proc' = [proc EXCEPT ![x].pc = "linkJob", ![x].job = Len(jobs')]
  /\ UNCHANGED <<steps, bull, history>>
CreateJob(x) ==
  /\ AtPc(x, "createJob")
  /\ Len(jobs) < MaxJobs
  /\ jobs' = Append(jobs, [status |-> "PENDING", step |-> proc[x].next])
  /\ proc' = [proc EXCEPT ![x].pc = "linkJob", ![x].job = Len(jobs')]
  /\ UNCHANGED <<steps, bull, history>>

LinkJob(x) ==
  /\ AtPc(x, "linkJob")
  /\ steps' = [steps EXCEPT ![proc[x].next].job = proc[x].job]
  /\ Goto(x, "enqueue")
  /\ UNCHANGED <<jobs, bull, history>>

QueueJobInBull(x) ==
  /\ AtPc(x, "enqueue")
  /\ bull' = Append(bull, [step |-> proc[x].next, job |-> proc[x].job,
                            ids |-> proc[x].ids, stalls |-> 0])
  /\ Done(x)
  /\ UNCHANGED <<steps, jobs, history>>

-----------------------------------------------------------------------------
(* Who executes a step *)

\* processStepJob: Bull hands over the oldest job; the step's status is not
\* looked at.
ProcessStepJob ==
  /\ AtPc(Worker, "idle")
  /\ bull # <<>>
  /\ proc' = [proc EXCEPT ![Worker] =
       [Idle EXCEPT !.pc = "execute", !.step = Head(bull).step, !.ids = Head(bull).ids,
                    !.bullJob = Head(bull).job, !.stalls = Head(bull).stalls]]
  /\ bull' = Tail(bull)
  /\ UNCHANGED <<steps, jobs, history>>

\* POST sequence/:stepIds/process-next, with any list of the steps, whose ids
\* are known once they are all created.
ProcessNextStep(r) ==
  /\ AtPc(r, "idle")
  /\ Len(steps) = N
  /\ \E ids \in Lists : \E i \in NextPending(ids) :
       proc' = [proc EXCEPT ![r] = [Idle EXCEPT !.pc = "execute", !.step = i, !.ids = ids]]
  /\ UNCHANGED <<steps, jobs, bull, history>>

\* POST step/:stepId/retry: refused unless the step has failed ...
RetryAny(i) == steps[i].status \in {"FAILED", "COMPLETED"} \* faulty
RetryAllowed(i) == steps[i].status = "FAILED"
RetryStep(r, i) ==
  /\ AtPc(r, "idle")
  /\ RetryAllowed(i)
  /\ proc' = [proc EXCEPT ![r] = [Idle EXCEPT !.pc = "reset", !.step = i]]
  /\ UNCHANGED <<steps, jobs, bull, history>>

\* ... put back, whatever its status has become ...
ResetStep(r) ==
  /\ AtPc(r, "reset")
  /\ SetStep(Step(r), "PENDING")
  /\ Goto(r, "find")
  /\ UNCHANGED <<jobs, bull, history>>

\* ... and the next pending step of the whole sequence is executed, if any.
FindStep(r) ==
  /\ AtPc(r, "find")
  /\ \/ \E i \in NextPending(Ids) :
          proc' = [proc EXCEPT ![r].pc = "execute", ![r].step = i, ![r].ids = Ids]
     \/ NextPending(Ids) = {} /\ Done(r)
  /\ UNCHANGED <<steps, jobs, bull, history>>

-----------------------------------------------------------------------------
(* executeStep *)

MarkUnhandled(x) ==
  /\ AtPc(x, "execute")
  /\ ~steps[Step(x)].handled
  /\ SetStep(Step(x), "FAILED")
  /\ Done(x)
  /\ UNCHANGED <<jobs, bull, history>>

MarkStepProcessing(x) ==
  /\ AtPc(x, "execute")
  /\ steps[Step(x)].handled
  /\ SetStep(Step(x), "PROCESSING")
  /\ started' = started \union {Step(x)}
  /\ Goto(x, "findJob")
  /\ UNCHANGED <<jobs, bull, counters, succeeded>>

\* findJobForStep; a step without a job is an error.
FindJobOrReturn(x) == \* faulty: returns instead of throwing
  /\ AtPc(x, "findJob")
  /\ IF steps[Step(x)].job # 0
     THEN proc' = [proc EXCEPT ![x].pc = "jobProcessing",
                               ![x].job = steps[Step(x)].job]
     ELSE Done(x)
  /\ UNCHANGED <<steps, jobs, bull, history>>
FindJob(x) ==
  /\ AtPc(x, "findJob")
  /\ IF steps[Step(x)].job # 0
     THEN proc' = [proc EXCEPT ![x].pc = "jobProcessing",
                               ![x].job = steps[Step(x)].job]
     ELSE Throw(x)
  /\ UNCHANGED <<steps, jobs, bull, history>>

MarkJobProcessing(x) ==
  /\ AtPc(x, "jobProcessing")
  /\ SetJob(proc[x].job, "PROCESSING")
  /\ Goto(x, "handler")
  /\ UNCHANGED <<steps, bull, history>>

\* handler.execute succeeds or throws.
HandlerSucceeds(x) ==
  /\ AtPc(x, "handler")
  /\ succeeded' = succeeded \union {Step(x)}
  /\ Goto(x, "complete")
  /\ UNCHANGED <<steps, jobs, bull, counters, started>>

HandlerFailsSilently(x) == \* faulty: the exception is swallowed
  /\ AtPc(x, "handler")
  /\ Goto(x, "complete")
  /\ UNCHANGED <<steps, jobs, bull, history>>
HandlerFails(x) ==
  /\ AtPc(x, "handler")
  /\ Throw(x)
  /\ UNCHANGED <<steps, jobs, bull, history>>

MarkStepCompleted(x) ==
  /\ AtPc(x, "complete")
  /\ SetStep(Step(x), "COMPLETED")
  /\ Goto(x, "jobCompleted")
  /\ UNCHANGED <<jobs, bull, history>>

MarkJobCompletedOnly(x) == \* faulty: the next job is not queued
  /\ AtPc(x, "jobCompleted")
  /\ SetJob(proc[x].job, "COMPLETED")
  /\ Done(x)
  /\ UNCHANGED <<steps, bull, history>>
MarkJobCompleted(x) ==
  /\ AtPc(x, "jobCompleted")
  /\ SetJob(proc[x].job, "COMPLETED")
  /\ proc' = [proc EXCEPT ![x].pc = "next", ![x].job = 0]
  /\ UNCHANGED <<steps, bull, history>>

\* The catch of executeStep: the step fails, also when it had been completed
\* and only the job of the next one could not be queued.
MarkStepFailed(x) ==
  /\ AtPc(x, "failStep")
  /\ SetStep(Step(x), "FAILED")
  /\ Goto(x, "failFindJob")
  /\ UNCHANGED <<jobs, bull, history>>

FindFailedJob(x) ==
  /\ AtPc(x, "failFindJob")
  /\ IF steps[Step(x)].job # 0
     THEN proc' = [proc EXCEPT ![x].pc = "failJob", ![x].job = steps[Step(x)].job]
     ELSE Done(x)
  /\ UNCHANGED <<steps, jobs, bull, history>>

MarkJobFailed(x) ==
  /\ AtPc(x, "failJob")
  /\ SetJob(proc[x].job, "FAILED")
  /\ Done(x)
  /\ UNCHANGED <<steps, bull, history>>

\* The catch of processStepJob, reached when the one of executeStep throws.
WorkerFailsJob ==
  /\ AtPc(Worker, "workerFailJob")
  /\ SetJob(proc[Worker].bullJob, "FAILED")
  /\ Goto(Worker, "workerFailStep")
  /\ UNCHANGED <<steps, bull, history>>

WorkerFailsStep ==
  /\ AtPc(Worker, "workerFailStep")
  /\ SetStep(Step(Worker), "FAILED")
  /\ Done(Worker)
  /\ UNCHANGED <<jobs, bull, history>>

-----------------------------------------------------------------------------
(* Failures *)

\* The database calls inside the try of executeStep; createAndQueueNextJob is
\* called there, but also by createStepSequence (which executes no step).
TryPc == {"findJob", "jobProcessing", "complete", "jobCompleted",
          "next", "createJob", "linkJob"}
InTry(x) == \/ AtPc(x, "execute") /\ steps[Step(x)].handled
            \/ Step(x) # 0 /\ proc[x].pc \in TryPc
\* Those outside it whose exception reaches the catch of processStepJob.
InCatch(x) == \/ AtPc(x, "execute") /\ ~steps[Step(x)].handled
              \/ proc[x].pc \in {"failStep", "failFindJob", "failJob"}

\* A database call fails and its exception goes where the code sends it; in
\* a request, and in the outermost catch, it ends the processing.  That of the
\* processor reading its step goes to the catch of processStepJob at once.
DatabaseFault(x) ==
  /\ trouble < MaxTrouble
  /\ proc[x].pc \notin {"idle", "handler", "enqueue"}
  /\ \/ IF InTry(x) THEN Throw(x)
        ELSE IF x = Worker /\ InCatch(x) THEN Goto(x, "workerFailJob")
        ELSE Done(x)
     \/ x = Worker /\ AtPc(x, "execute") /\ Goto(x, "workerFailJob")
  /\ trouble' = trouble + 1
  /\ UNCHANGED <<steps, jobs, bull, bullFaults, started, succeeded>>

\* Bull's add fails: in executeStep the step that had just been completed
\* fails, in createStepSequence the request does.
BullFault(x) ==
  /\ bullFaults < MaxBullFaults
  /\ AtPc(x, "enqueue")
  /\ IF Step(x) # 0 THEN Throw(x) ELSE Done(x)
  /\ bullFaults' = bullFaults + 1
  /\ UNCHANGED <<steps, jobs, bull, trouble, started, succeeded>>

\* The Node process dies and comes back: nothing in flight survives; Bull
\* hands the job of the processor out again, once.
Restart ==
  /\ trouble < MaxTrouble
  /\ trouble' = trouble + 1
  /\ LET w == proc[Worker] IN
     bull' = IF w.pc # "idle" /\ w.stalls = 0
             THEN <<[step |-> w.step, job |-> w.bullJob, ids |-> w.ids,
                     stalls |-> 1]>> \o bull
             ELSE bull
  /\ proc' = [x \in Process |-> Idle]
  /\ UNCHANGED <<steps, jobs, bullFaults, started, succeeded>>

-----------------------------------------------------------------------------
ExecuteStep(x) ==
  \/ MarkUnhandled(x)
  \/ MarkStepProcessing(x)
  \/ FindJob(x)
  \/ MarkJobProcessing(x)
  \/ HandlerSucceeds(x)
  \/ HandlerFails(x)
  \/ MarkStepCompleted(x)
  \/ MarkJobCompleted(x)
  \/ MarkStepFailed(x)
  \/ FindFailedJob(x)
  \/ MarkJobFailed(x)

QueueNext(x) ==
  \/ FindNext(x)
  \/ CreateJob(x)
  \/ LinkJob(x)
  \/ QueueJobInBull(x)

ServerStep(x) == ExecuteStep(x) \/ QueueNext(x)
WorkerStep == ProcessStepJob \/ WorkerFailsJob \/ WorkerFailsStep \/ ServerStep(Worker)
RequestStep(r) == CreateStep(r) \/ ResetStep(r) \/ FindStep(r) \/ ServerStep(r)

Next ==
  \/ WorkerStep
  \/ \E r \in Request : \/ RequestStep(r)
                        \/ CreateStepSequence(r)
                        \/ ProcessNextStep(r)
                        \/ \E i \in Ids : RetryStep(r, i)
  \/ \E x \in Process : DatabaseFault(x) \/ BullFault(x)
  \/ Restart

Spec == Init /\ [][Next]_vars

\* Node keeps running what is in flight and Bull hands out waiting jobs.
Fairness == WF_vars(WorkerStep) /\ \A r \in Request : WF_vars(RequestStep(r))
FairSpec == Spec /\ Fairness

-----------------------------------------------------------------------------
Pc == {"idle", "createSteps", "next", "createJob", "linkJob", "enqueue",
       "execute", "reset", "find", "findJob", "jobProcessing", "handler",
       "complete", "jobCompleted", "failStep", "failFindJob", "failJob",
       "workerFailJob", "workerFailStep"}
Status == {"PENDING", "PROCESSING", "COMPLETED", "FAILED"}

(* The shape of the state; a job row, a link to a job and a Bull job name  *)
(* steps and jobs that exist, and a step's job is one made for it.         *)
TypeOK ==
  /\ steps \in Seq([status : Status, job : Nat, handled : BOOLEAN]) /\ Len(steps) <= N
  /\ jobs \in Seq([status : Status, step : 1..N])
  /\ bull \in Seq([step : 1..N, job : Nat, ids : SUBSET (1..N), stalls : 0..1])
  /\ proc \in [Process -> [pc : Pc, step : 0..N, job : Nat, next : 0..N,
                           ids : SUBSET (1..N), bullJob : Nat, stalls : 0..1]]
  /\ trouble \in Nat /\ bullFaults \in Nat
  /\ started \subseteq 1..N /\ succeeded \subseteq 1..N
  /\ \A i \in Ids : steps[i].job # 0 =>
       steps[i].job \in DOMAIN jobs /\ jobs[steps[i].job].step = i

(* findNextPendingStep passes over no pending and no failed step of the    *)
(* list it is given, and the list travels with the Bull job, so with any   *)
(* overlap of processor, retries and manual processing, any fault and any  *)
(* restart, a step is executed only after every earlier step of the list   *)
(* of its execution was started: a caller that names the whole sequence    *)
(* never runs ahead, though another may name a later step alone.           *)
ListsRunInOrder ==
  \A x \in Process : \A j \in proc[x].ids : j < Step(x) => j \in started

(* A step or job shown as completed has had a successful handler run, also *)
(* when several processes work on the step and their updates interleave.   *)
CompletedHasSucceeded ==
  /\ \A i \in Ids : steps[i].status = "COMPLETED" => i \in succeeded
  /\ \A j \in DOMAIN jobs : jobs[j].status = "COMPLETED" => jobs[j].step \in succeeded

(* A step shown as PROCESSING is being processed, however many processes   *)
(* write its status, as long as the database answers and Node stays up.    *)
ProcessingIsAlive ==
  trouble = 0 =>
    \A i \in Ids : steps[i].status = "PROCESSING" =>
      \E x \in Process :
        /\ Step(x) = i
        /\ proc[x].pc \in {"findJob", "jobProcessing", "handler", "complete", "failStep"}

(* Nothing runs and nothing waits. *)
Quiet == bull = <<>> /\ \A x \in Process : AtPc(x, "idle")

(* Without overlap and restarts a quiet sequence is finished, or has a     *)
(* failed step one can retry with every step before it completed, or never *)
(* began because its creation failed.                                      *)
NothingStuck ==
  Quiet =>
    \/ \A i \in Ids : steps[i].status = "COMPLETED"
    \/ \A i \in Ids : steps[i].status = "PENDING"
    \/ \E i \in Ids : /\ steps[i].status = "FAILED"
                      /\ \A j \in 1..(i - 1) : steps[j].status = "COMPLETED"

(* The processor executes whatever step a Bull job names, whatever its     *)
(* status.  Without overlap and restarts it is still handed none twice: a  *)
(* step whose execution begins is pending, nothing waits in Bull, and      *)
(* nobody else is at work, but for the end of a failure.                   *)
PendingIsBegun ==
  \A x \in Process : AtPc(x, "execute") =>
    /\ steps[Step(x)].status = "PENDING"
    /\ bull = <<>>
    /\ \A y \in Process : y # x => proc[y].pc \in {"idle", "failFindJob", "failJob"}

(* What the queue owes a sequence that runs alone: it gets nowhere stuck   *)
(* and begins no step that was begun before, but by a retry.               *)
SerialIsSound == NothingStuck /\ PendingIsBegun

(* One call per step keeps a sequence going: once its first job is queued  *)
(* it finishes or fails, with nobody asking for it.                        *)
SequenceEnds ==
  (bull # <<>>) ~>
    \/ \E i \in Ids : steps[i].status = "FAILED"
    \/ \A i \in Ids : steps[i].status = "COMPLETED"

(* "order by stepNumber to ensure proper sequence" (step-queue.service.ts  *)
(* :185): when a handler starts, every earlier step has succeeded once.    *)
InSequence ==
  \A x \in Process : AtPc(x, "handler") => \A j \in 1..(Step(x) - 1) : j \in succeeded

(* Without overlap and restarts the sequence runs as promised. *)
Sequence == INSTANCE StepSequence WITH
  status <- [i \in Ids |-> steps[i].status]
SequenceSpec == Sequence!SSpec
=============================================================================
