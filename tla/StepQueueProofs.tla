-------------------------- MODULE StepQueueProofs ---------------------------
(***************************************************************************)
(* For any number of steps, requests, faults and restarts: the shape of    *)
(* the queue's state, lists run in order, and completed means succeeded.   *)
(* Where nothing fails, who runs a step that shows as running; where       *)
(* nothing overlaps either, the queue implements StepSequence.  With the   *)
(* gateway (StepFeed), what clients are told of the steps is so.           *)
(***************************************************************************)
EXTENDS StepFeed, SequenceTheorems, TLAPS

StepRow == [status : Status, job : Nat, handled : BOOLEAN]
JobRow == [status : Status, step : 1..N]
BullJob == [step : 1..N, job : Nat, ids : SUBSET (1..N), stalls : 0..1]
ProcState == [pc : Pc, step : 0..N, job : Nat, next : 0..N, ids : SUBSET (1..N),
              bullJob : Nat, stalls : 0..1]

Executing == {"execute", "reset", "find", "findJob", "jobProcessing", "handler", "complete",
              "jobCompleted", "failStep", "failFindJob", "failJob", "workerFailJob",
              "workerFailStep"}
Queueing == {"createJob", "linkJob", "enqueue"}
WithJob == {"jobProcessing", "handler", "complete", "jobCompleted", "failJob"}

JobIsFor(j, i) == j \in DOMAIN jobs /\ jobs[j].step = i

(* What the code relies on at each of its calls: the steps and jobs a      *)
(* process names exist and belong together, and one request at a time      *)
(* creates the sequence.                                                   *)
Fits(x, p) ==
  /\ p.step # 0 => p.step \in Ids
  /\ p.pc \in Executing => p.step \in Ids
  /\ x = Worker /\ p.pc # "idle" => p.step \in Ids /\ p.bullJob \in DOMAIN jobs
  /\ p.pc \in Queueing => p.next \in Ids
  /\ p.pc \in {"linkJob", "enqueue"} => JobIsFor(p.job, p.next)
  /\ p.pc \in WithJob => JobIsFor(p.job, p.step)
  /\ p.pc \in {"complete", "jobCompleted"} => p.step \in succeeded
ProcOK(x) ==
  /\ Fits(x, proc[x])
  /\ proc[x].pc = "createSteps" => /\ Len(steps) < N
                                   /\ \A y \in Process : proc[y].pc = "createSteps" => y = x

StepsOK == steps \in Seq(StepRow) /\ Len(steps) <= N
JobsOK == jobs \in Seq(JobRow)
BullOK == bull \in Seq(BullJob) /\ \A k \in DOMAIN bull : bull[k].step \in Ids /\ bull[k].job \in DOMAIN jobs
LinksOK == \A i \in Ids : steps[i].job # 0 => JobIsFor(steps[i].job, i)
DoneOK == CompletedHasSucceeded
CountersOK ==
  /\ trouble \in Nat /\ bullFaults \in Nat
  /\ started \subseteq 1..N /\ succeeded \subseteq 1..N

IInv ==
  /\ StepsOK /\ JobsOK /\ BullOK /\ LinksOK /\ CountersOK /\ DoneOK
  /\ proc \in [Process -> ProcState]
  /\ \A x \in Process : ProcOK(x)

LEMMA IInvGivesTypeOK == IInv => TypeOK
BY DEF IInv, TypeOK, StepsOK, JobsOK, BullOK, LinksOK, JobIsFor, CountersOK, StepRow,
       JobRow, BullJob, ProcState

LEMMA InitIInv == Init => IInv
PROOF
<1> SUFFICES ASSUME Init PROVE IInv
  OBVIOUS
<1>1. StepsOK /\ JobsOK /\ BullOK
  BY StepsAssumption, EmptySeq DEF Init, StepsOK, JobsOK, BullOK
<1>6. DOMAIN steps = {} /\ DOMAIN jobs = {}
  BY EmptySeq DEF Init
<1>2. LinksOK /\ DoneOK /\ CountersOK
  BY <1>6 DEF Ids, Init, LinksOK, DoneOK, CompletedHasSucceeded, CountersOK
<1>3. Idle \in ProcState
  BY StepsAssumption DEF Idle, ProcState, Pc
<1>4. proc \in [Process -> ProcState]
  BY <1>3 DEF Init
<1>5. \A x \in Process : ProcOK(x)
  BY DEF Init, ProcOK, Fits, Idle, Executing, Queueing, WithJob, Step
<1> QED
  BY <1>1, <1>2, <1>4, <1>5 DEF IInv

-----------------------------------------------------------------------------
(* What the updates of a row leave alone. *)

LEMMA SetStepChanges ==
  ASSUME StepsOK, NEW i \in Ids, NEW status \in Status, SetStep(i, status)
  PROVE  /\ StepsOK'
         /\ Ids' = Ids /\ Len(steps') = Len(steps)
         /\ \A k \in Ids : /\ steps'[k].job = steps[k].job
                           /\ steps'[k].handled = steps[k].handled
                           /\ steps'[k].status = IF k = i THEN status ELSE steps[k].status
PROOF
<1>1. steps[i] \in StepRow /\ i \in 1..Len(steps)
  BY DEF StepsOK, Ids
<1> DEFINE row == [steps[i] EXCEPT !.status = status]
<1>2. row \in StepRow
  BY <1>1 DEF StepRow
<1>3. steps' = [steps EXCEPT ![i] = row]
  BY DEF SetStep
<1>4. steps' \in Seq(StepRow) /\ Len(steps') = Len(steps)
  BY <1>1, <1>2, <1>3, ExceptSeq DEF StepsOK
<1>5. \A k \in 1..Len(steps) : steps'[k] = IF k = i THEN row ELSE steps[k]
  BY <1>1, <1>2, <1>3 DEF StepsOK
<1>6. Ids = 1..Len(steps) /\ Ids' = 1..Len(steps)
  BY <1>4 DEF StepsOK, Ids
<1>7. /\ row.job = steps[i].job /\ row.handled = steps[i].handled
      /\ row.status = status
  BY <1>1 DEF StepRow
<1> QED
  BY <1>4, <1>5, <1>6, <1>7 DEF StepsOK

LEMMA SetJobChanges ==
  ASSUME JobsOK, NEW j \in DOMAIN jobs, NEW status \in Status, SetJob(j, status)
  PROVE  /\ JobsOK'
         /\ DOMAIN jobs' = DOMAIN jobs
         /\ \A k \in DOMAIN jobs :
              /\ jobs'[k].step = jobs[k].step
              /\ jobs'[k].status = IF k = j THEN status ELSE jobs[k].status
PROOF
<1>1. jobs[j] \in JobRow /\ j \in 1..Len(jobs)
  BY DEF JobsOK
<1> DEFINE row == [jobs[j] EXCEPT !.status = status]
<1>2. row \in JobRow
  BY <1>1 DEF JobRow
<1>3. jobs' = [jobs EXCEPT ![j] = row]
  BY DEF SetJob
<1>4. jobs' \in Seq(JobRow) /\ Len(jobs') = Len(jobs)
  BY <1>1, <1>2, <1>3, ExceptSeq DEF JobsOK
<1>5. \A k \in 1..Len(jobs) : jobs'[k] = IF k = j THEN row ELSE jobs[k]
  BY <1>1, <1>2, <1>3 DEF JobsOK
<1>6. row.step = jobs[j].step /\ row.status = status
  BY <1>1 DEF JobRow
<1>7. DOMAIN jobs = 1..Len(jobs) /\ DOMAIN jobs' = 1..Len(jobs)
  BY <1>4 DEF JobsOK
<1> QED
  BY <1>4, <1>5, <1>6, <1>7 DEF JobsOK

-----------------------------------------------------------------------------
(* A step of one process keeps what is true of the others. *)
Grows ==
  /\ Ids \subseteq Ids'
  /\ \A j \in DOMAIN jobs : j \in DOMAIN jobs' /\ jobs'[j].step = jobs[j].step
  /\ succeeded \subseteq succeeded'

LEMMA OthersStay ==
  ASSUME IInv, Grows, NEW x \in Process, NEW y \in Process, y # x,
         \A z \in Process : z # x => proc'[z] = proc[z],
         proc'[x].pc = "createSteps" => proc[x].pc = "createSteps",
         proc[y].pc = "createSteps" => Len(steps') = Len(steps)
  PROVE  ProcOK(y)'
PROOF
<1>1. ProcOK(y) /\ proc'[y] = proc[y]
  BY DEF IInv
<1>2. \A j, i : JobIsFor(j, i) => JobIsFor(j, i)'
  BY DEF Grows, JobIsFor
<1>3. \A i : i \in Ids => i \in Ids'
  BY DEF Grows
<1>4. \A i : i \in succeeded => i \in succeeded'
  BY DEF Grows
<1>5. proc[y].pc = "createSteps" =>
        \A z \in Process : proc'[z].pc = "createSteps" => z = y
  BY <1>1 DEF ProcOK, Fits
<1>6. \A j : j \in DOMAIN jobs => j \in DOMAIN jobs'
  BY DEF Grows
<1> QED
  BY <1>1, <1>2, <1>3, <1>4, <1>5, <1>6 DEF ProcOK, Fits, Step

Keeps ==
  /\ Grows
  /\ StepsOK' /\ JobsOK' /\ BullOK' /\ LinksOK' /\ CountersOK' /\ DoneOK'

\* Only x's variables change, and it does not begin to create steps.
Moves(x) ==
  /\ proc' = [proc EXCEPT ![x] = proc'[x]]
  /\ proc'[x] \in ProcState
  /\ proc'[x].pc = "createSteps" => proc[x].pc = "createSteps"

LEMMA StepKeeps ==
  ASSUME IInv, NEW x \in Process, Keeps, Moves(x), ProcOK(x)',
         proc[x].pc # "createSteps" => Len(steps') = Len(steps)
  PROVE  IInv'
PROOF
<1>1. proc \in [Process -> ProcState] /\ \A y \in Process : ProcOK(y)
  BY DEF IInv
<1>2. \A z \in Process : z # x => proc'[z] = proc[z]
  BY <1>1 DEF Moves
<1>3. ASSUME NEW y \in Process, y # x PROVE ProcOK(y)'
  <2>1. proc[y].pc = "createSteps" => Len(steps') = Len(steps)
    BY <1>1, <1>3 DEF ProcOK, Fits
  <2> QED
    BY <1>2, <1>3, <2>1, OthersStay DEF Keeps, Moves
<1>4. proc' \in [Process -> ProcState]
  BY <1>1 DEF Moves
<1> QED
  BY <1>3, <1>4 DEF IInv, Keeps

-----------------------------------------------------------------------------
(* What keeps the tables as they should be. *)

LEMMA NothingWritten ==
  ASSUME IInv, UNCHANGED <<steps, jobs, bull>>, CountersOK', succeeded \subseteq succeeded'
  PROVE  Keeps /\ Len(steps') = Len(steps)
BY DEF IInv, Keeps, Grows, StepsOK, JobsOK, BullOK, LinksOK, JobIsFor, DoneOK,
       CompletedHasSucceeded, Ids

LEMMA StepWritten ==
  ASSUME IInv, NEW i \in Ids, NEW status \in Status, SetStep(i, status),
         status = "COMPLETED" => i \in succeeded,
         UNCHANGED <<jobs, bull, succeeded>>, CountersOK'
  PROVE  Keeps /\ Len(steps') = Len(steps)
PROOF
<1>1. /\ StepsOK'
      /\ Ids' = Ids /\ Len(steps') = Len(steps)
      /\ \A k \in Ids : /\ steps'[k].job = steps[k].job
                        /\ steps'[k].status = IF k = i THEN status ELSE steps[k].status
  BY SetStepChanges DEF IInv
<1>2. JobsOK' /\ BullOK' /\ Grows
  BY <1>1 DEF IInv, JobsOK, BullOK, Grows
<1>3. LinksOK'
  BY <1>1 DEF IInv, LinksOK, JobIsFor
<1>4. DoneOK'
  BY <1>1 DEF IInv, DoneOK, CompletedHasSucceeded
<1> QED
  BY <1>1, <1>2, <1>3, <1>4 DEF Keeps

LEMMA JobWritten ==
  ASSUME IInv, NEW j \in DOMAIN jobs, NEW status \in Status, SetJob(j, status),
         status = "COMPLETED" => jobs[j].step \in succeeded,
         UNCHANGED <<steps, bull, succeeded>>, CountersOK'
  PROVE  Keeps /\ Len(steps') = Len(steps)
PROOF
<1>1. /\ JobsOK'
      /\ DOMAIN jobs' = DOMAIN jobs
      /\ \A k \in DOMAIN jobs :
           /\ jobs'[k].step = jobs[k].step
           /\ jobs'[k].status = IF k = j THEN status ELSE jobs[k].status
  BY SetJobChanges DEF IInv
<1>2. StepsOK' /\ BullOK' /\ Grows
  BY <1>1 DEF IInv, StepsOK, BullOK, Grows, Ids
<1>3. LinksOK'
  BY <1>1 DEF IInv, LinksOK, JobIsFor, Ids
<1>4. DoneOK'
  BY <1>1 DEF IInv, DoneOK, CompletedHasSucceeded, Ids
<1> QED
  BY <1>1, <1>2, <1>3, <1>4 DEF Keeps

LEMMA SameCounters ==
  ASSUME IInv, UNCHANGED <<counters, started, succeeded>>
  PROVE  CountersOK'
BY DEF IInv, CountersOK, counters

LEMMA NextPendingIsStep == ASSUME NEW ids, NEW i \in NextPending(ids) PROVE i \in Ids
BY DEF NextPending

-----------------------------------------------------------------------------
(* The actions: what each writes, and where it leaves its process. *)

LEMMA CreationKeeps ==
  ASSUME IInv, NEW r \in Request, CreateStepSequence(r) \/ CreateStep(r)
  PROVE  IInv'
PROOF
<1> USE DEF AtPc, Goto, history
<1>1. r \in Process /\ r # Worker /\ proc \in [Process -> ProcState] /\ ProcOK(r)
  BY WorkerAssumption DEF IInv, Process
<1>2. CountersOK'
  BY SameCounters DEF CreateStepSequence, CreateStep
<1>3. CASE CreateStepSequence(r)
  <2>1. Keeps /\ Len(steps') = Len(steps)
    BY <1>2, <1>3, NothingWritten DEF CreateStepSequence
  <2>2. /\ proc'[r] = [proc[r] EXCEPT !.pc = "createSteps"]
        /\ \A z \in Process : z # r => proc'[z] = proc[z]
        /\ proc' \in [Process -> ProcState]
    BY <1>1, <1>3 DEF CreateStepSequence, ProcState, Pc
  <2>3. \A z \in Process : proc[z].pc # "createSteps"
    <3>1. \A q \in Request : proc[q].pc # "createSteps"
      BY <1>3 DEF CreateStepSequence
    <3>2. proc[Worker].pc # "createSteps"
      BY <1>3 DEF IInv, ProcOK, Fits, CreateStepSequence, Process, Ids
    <3> QED
      BY <3>1, <3>2 DEF Process
  <2>4. Len(steps') < N
    BY <2>1, <1>3, StepsAssumption, EmptySeq DEF CreateStepSequence
  <2>5. ASSUME NEW y \in Process, y # r PROVE ProcOK(y)'
    <3>1. ProcOK(y) /\ proc'[y] = proc[y] /\ proc[y].pc # "createSteps"
      BY <2>2, <2>3, <2>5 DEF IInv
    <3> QED
      BY <3>1, <1>3 DEF ProcOK, Fits, Step, Ids, JobIsFor, CreateStepSequence
  <2>6. ProcOK(r)'
    <3>1. Step(r)' = Step(r) /\ (proc[r].pc)' = "createSteps"
      BY <1>1, <2>2 DEF Step, ProcState
    <3>2. Step(r) # 0 => Step(r) \in Ids'
      BY <1>1, <1>3 DEF ProcOK, Fits, CreateStepSequence, Ids, Step
    <3> QED
      BY <1>1, <2>2, <2>3, <2>4, <3>1, <3>2 DEF Step, ProcOK, Fits, Executing, Queueing, WithJob
  <2> QED
    BY <2>1, <2>2, <2>5, <2>6 DEF IInv, Keeps
<1>4. CASE CreateStep(r)
  <2> DEFINE new(h) == [status |-> "PENDING", job |-> 0, handled |-> h]
  <2>1. PICK h \in Handled : steps' = Append(steps, new(h))
    BY <1>4 DEF CreateStep
  <2>2. new(h) \in StepRow
    BY StepsAssumption DEF StepRow, Status
  <2>3. /\ steps' \in Seq(StepRow) /\ Len(steps') = Len(steps) + 1
        /\ \A k \in 1..Len(steps) : steps'[k] = steps[k]
        /\ steps'[Len(steps) + 1] = new(h)
    BY <2>1, <2>2, AppendProperties DEF IInv, StepsOK
  <2>4. Ids = 1..Len(steps) /\ Ids' = 1..(Len(steps) + 1) /\ Len(steps) \in Nat
    BY <2>3 DEF IInv, StepsOK, Ids
  <2>5. Len(steps) < N
    BY <1>1, <1>4 DEF ProcOK, Fits, CreateStep
  <2>6. StepsOK' /\ JobsOK' /\ Grows
    BY <1>4, <2>3, <2>4, <2>5, StepsAssumption
    DEF CreateStep, IInv, StepsOK, JobsOK, Grows
  <2>7. BullOK'
    BY <1>4, <2>4 DEF CreateStep, IInv, BullOK
  <2>8. LinksOK'
    BY <1>4, <2>3, <2>4 DEF CreateStep, IInv, LinksOK, JobIsFor
  <2>9. DoneOK'
    BY <1>4, <2>3, <2>4 DEF CreateStep, IInv, DoneOK, CompletedHasSucceeded
  <2> DEFINE pc == IF Len(steps) + 1 = N THEN "next" ELSE "createSteps"
  <2>13. proc' = [proc EXCEPT ![r].pc = pc, ![r].ids = Ids'] /\ pc \in Pc
    BY <1>4 DEF CreateStep, Pc, Ids
  <2>14. Ids' \in SUBSET (1..N)
    BY <2>4, <2>5, StepsAssumption
  <2>10. /\ proc'[r] = [proc[r] EXCEPT !.pc = pc, !.ids = Ids']
         /\ \A z \in Process : z # r => proc'[z] = proc[z]
         /\ proc' \in [Process -> ProcState]
    <3> HIDE DEF pc
    <3> DEFINE d == Ids'
    <3>1. d \in SUBSET (1..N) /\ proc[r] \in ProcState
      BY <1>1, <2>14
    <3>2. proc' = [proc EXCEPT ![r].pc = pc, ![r].ids = d]
      BY <2>13
    <3> HIDE DEF d
    <3>3. [proc[r] EXCEPT !.pc = pc, !.ids = d] \in ProcState
      BY <2>13, <3>1 DEF ProcState
    <3>4. proc' = [proc EXCEPT ![r] = [proc[r] EXCEPT !.pc = pc, !.ids = d]]
      BY <1>1, <3>2 DEF ProcState
    <3>5. /\ proc'[r] = [proc[r] EXCEPT !.pc = pc, !.ids = d]
          /\ \A z \in Process : z # r => proc'[z] = proc[z]
          /\ proc' \in [Process -> ProcState]
      BY <1>1, <3>3, <3>4
    <3> QED
      BY <3>5 DEF d
  <2>11. ASSUME NEW y \in Process, y # r PROVE ProcOK(y)'
    <3>1. proc[y].pc # "createSteps"
      BY <1>1, <1>4, <2>11 DEF ProcOK, Fits, CreateStep
    <3> QED
      BY <1>1, <2>6, <2>10, <2>11, <3>1, <1>4, OthersStay DEF CreateStep
  <2>12. ProcOK(r)'
    <3>1. Step(r)' = Step(r)
      BY <1>1, <2>10 DEF Step, ProcState
    <3>2. proc'[r].pc = IF Len(steps) + 1 = N THEN "next" ELSE "createSteps"
      BY <1>1, <2>10 DEF ProcState
    <3>3. \A y \in Process : proc'[y].pc = "createSteps" => y = r
      BY <1>1, <1>4, <2>10 DEF ProcOK, Fits, CreateStep
    <3>4. proc'[r].pc = "createSteps" => Len(steps') < N
      BY <2>3, <2>4, <2>5, <3>2, StepsAssumption
    <3>5. Step(r) # 0 => Step(r) \in Ids'
      BY <1>1, <2>6 DEF ProcOK, Fits, Grows, Step
    <3> QED
      BY <1>1, <3>1, <3>2, <3>3, <3>4, <3>5 DEF Step, ProcOK, Fits, Executing, Queueing, WithJob
  <2> QED
    BY <1>2, <2>6, <2>7, <2>8, <2>9, <2>10, <2>11, <2>12 DEF IInv
<1> QED
  BY <1>3, <1>4

LEMMA Facts ==
  ASSUME IInv, NEW x \in Process
  PROVE  /\ proc \in [Process -> ProcState] /\ proc[x] \in ProcState /\ ProcOK(x)
         /\ Ids \subseteq 1..N /\ 0 \notin Ids
         /\ DOMAIN jobs \subseteq Nat /\ \A j \in DOMAIN jobs : jobs[j].step \in 1..N
PROOF
<1>1. Ids = 1..Len(steps) /\ Len(steps) \in Nat /\ Len(steps) <= N
  BY DEF IInv, StepsOK, Ids
<1>2. jobs \in Seq(JobRow)
  BY DEF IInv, JobsOK
<1>3. \A j \in DOMAIN jobs : jobs[j] \in JobRow /\ j \in Nat
  BY <1>2
<1> QED
  BY <1>1, <1>3, StepsAssumption DEF IInv, JobRow

(* A process whose new variables p fit keeps everything as it should be.   *)
LEMMA Turn ==
  ASSUME IInv, NEW x \in Process, Keeps,
         proc[x].pc # "createSteps" => Len(steps') = Len(steps),
         NEW p \in ProcState, proc' = [proc EXCEPT ![x] = p], Fits(x, p),
         p.pc # "createSteps"
  PROVE  IInv'
PROOF
<1>1. proc \in [Process -> ProcState]
  BY Facts
<1>2. proc'[x] = p /\ proc' = [proc EXCEPT ![x] = proc'[x]]
  BY <1>1
<1>3. Moves(x)
  BY <1>2 DEF Moves
<1>4. /\ \A i \in Ids : i \in Ids'
      /\ \A j \in DOMAIN jobs : j \in DOMAIN jobs' /\ jobs'[j].step = jobs[j].step
      /\ \A i \in succeeded : i \in succeeded'
  BY DEF Keeps, Grows
<1>5. ProcOK(x)'
  BY <1>2, <1>4 DEF ProcOK, Fits, JobIsFor
<1> QED
  BY <1>3, <1>5, StepKeeps

LEMMA Rows ==
  ASSUME NEW s \in ProcState, NEW pc \in Pc, NEW i \in 0..N, NEW j \in Nat,
         NEW d \in SUBSET (1..N)
  PROVE  /\ [s EXCEPT !.pc = pc] \in ProcState
         /\ [s EXCEPT !.pc = pc, !.next = i] \in ProcState
         /\ [s EXCEPT !.pc = pc, !.step = i, !.ids = d] \in ProcState
         /\ [s EXCEPT !.pc = pc, !.job = j] \in ProcState
         /\ [s EXCEPT !.pc = pc, !.job = j, !.next = i] \in ProcState
PROOF
<1>1. [s EXCEPT !.pc = pc] \in ProcState
  BY DEF ProcState
<1>2. [s EXCEPT !.pc = pc, !.next = i] \in ProcState
  BY DEF ProcState
<1>3. [s EXCEPT !.pc = pc, !.step = i, !.ids = d] \in ProcState
  BY DEF ProcState
<1>4. [s EXCEPT !.pc = pc, !.job = j] \in ProcState
  BY DEF ProcState
<1>5. [s EXCEPT !.pc = pc, !.job = j, !.next = i] \in ProcState
  BY DEF ProcState
<1> QED
  BY <1>1, <1>2, <1>3, <1>4, <1>5

LEMMA IdleFits == Idle \in ProcState /\ \A x \in Process : Fits(x, Idle)
PROOF
<1>1. Idle \in ProcState
  BY StepsAssumption DEF Idle, ProcState, Pc
<1>2. \A x \in Process : Fits(x, Idle)
  BY DEF Fits, Idle, Executing, Queueing, WithJob
<1> QED
  BY <1>1, <1>2

LEMMA DoneKeeps ==
  ASSUME IInv, NEW x \in Process, Keeps, Done(x),
         proc[x].pc # "createSteps" => Len(steps') = Len(steps)
  PROVE  IInv'
BY IdleFits, Turn DEF Done, Idle

\* Where executeStep goes on with the same step and job.
LEMMA GotoKeeps ==
  ASSUME IInv, NEW x \in Process, Keeps, Len(steps') = Len(steps), proc[x].step \in Ids,
         NEW pc \in Pc \ (Queueing \union {"createSteps"}), Goto(x, pc),
         pc \in WithJob => JobIsFor(proc[x].job, proc[x].step),
         pc \in {"complete", "jobCompleted"} => proc[x].step \in succeeded,
         x = Worker => proc[x].pc # "idle"
  PROVE  IInv'
PROOF
<1> DEFINE p == [proc[x] EXCEPT !.pc = pc]
<1>1. proc \in [Process -> ProcState] /\ proc[x] \in ProcState /\ ProcOK(x)
  BY Facts
<1>2. proc' = [proc EXCEPT ![x] = p]
  BY <1>1 DEF Goto
<1>3. /\ p \in ProcState /\ p.pc = pc /\ p.step = proc[x].step
      /\ p.job = proc[x].job /\ p.bullJob = proc[x].bullJob
  BY <1>1, Rows, StepsAssumption DEF ProcState
<1>4. Fits(x, p)
  <2> HIDE DEF p
  <2> QED
    BY <1>1, <1>3 DEF Fits, ProcOK, Queueing
<1> QED
  BY <1>2, <1>3, <1>4, Turn

LEMMA ThrowKeeps ==
  ASSUME IInv, NEW x \in Process, Keeps, Len(steps') = Len(steps), proc[x].step \in Ids,
         Throw(x), x = Worker => proc[x].pc # "idle"
  PROVE  IInv'
PROOF
<1> DEFINE p == [proc[x] EXCEPT !.pc = "failStep", !.job = 0, !.next = 0]
<1>1. proc \in [Process -> ProcState] /\ proc[x] \in ProcState /\ ProcOK(x)
  BY Facts
<1>2. proc' = [proc EXCEPT ![x] = p]
  BY <1>1 DEF Throw, ProcState
<1>3. p \in ProcState
  <2>1. "failStep" \in Pc /\ 0 \in 0..N
    BY StepsAssumption DEF Pc
  <2> QED
    BY <1>1, <2>1, Rows
<1>4. p.pc = "failStep" /\ p.step = proc[x].step /\ p.bullJob = proc[x].bullJob
  BY <1>1 DEF ProcState
<1>5. Fits(x, p)
  <2> HIDE DEF p
  <2> QED
    BY <1>1, <1>4 DEF Fits, ProcOK, Executing, Queueing, WithJob
<1> QED
  BY <1>2, <1>3, <1>4, <1>5, Turn

LEMMA SameTables ==
  ASSUME IInv, UNCHANGED <<steps, jobs, bull, started, succeeded>>,
         trouble' \in Nat, bullFaults' \in Nat
  PROVE  Keeps /\ Len(steps') = Len(steps)
BY NothingWritten DEF IInv, CountersOK

-----------------------------------------------------------------------------
(* executeStep *)

LEMMA ExecuteKeeps ==
  ASSUME IInv, NEW x \in Process, ExecuteStep(x)
  PROVE  IInv'
PROOF
<1> USE DEF AtPc, Step, history
<1>1. /\ proc \in [Process -> ProcState] /\ proc[x] \in ProcState /\ ProcOK(x)
      /\ Ids \subseteq 1..N /\ 0 \notin Ids /\ DOMAIN jobs \subseteq Nat
  BY Facts
<1>2. proc[x].step \in Ids /\ proc[x].pc # "idle"
  BY <1>1 DEF ExecuteStep, ProcOK, Fits, Executing, MarkUnhandled, MarkStepProcessing, FindJob,
     MarkJobProcessing, HandlerSucceeds, HandlerFails, MarkStepCompleted, MarkJobCompleted,
     MarkStepFailed, FindFailedJob, MarkJobFailed
<1>3. CASE MarkUnhandled(x)
  <2>1. Keeps /\ Len(steps') = Len(steps)
    BY <1>2, <1>3, SameCounters, StepWritten DEF MarkUnhandled, Status
  <2> QED
    BY <1>3, <2>1, DoneKeeps DEF MarkUnhandled
<1>4. CASE MarkStepProcessing(x)
  <2>1. CountersOK'
    BY <1>1, <1>2, <1>4 DEF MarkStepProcessing, IInv, CountersOK, counters
  <2>2. Keeps /\ Len(steps') = Len(steps)
    BY <1>2, <1>4, <2>1, StepWritten DEF MarkStepProcessing, Status
  <2>3. "findJob" \in Pc \ (Queueing \union WithJob \union {"createSteps"})
    BY DEF Pc, Queueing, WithJob
  <2> QED
    BY <1>2, <1>4, <2>2, <2>3, GotoKeeps DEF MarkStepProcessing
<1>5. CASE FindJob(x) \/ FindFailedJob(x)
  <2>1. Keeps /\ Len(steps') = Len(steps)
    BY <1>5, SameCounters, NothingWritten DEF FindJob, FindFailedJob
  <2>2. CASE Throw(x)
    BY <1>2, <2>1, <2>2, ThrowKeeps
  <2>3. CASE Done(x)
    BY <2>1, <2>3, DoneKeeps
  <2>4. ASSUME NEW pc \in {"jobProcessing", "failJob"}, steps[proc[x].step].job # 0,
               proc' = [proc EXCEPT ![x].pc = pc, ![x].job = steps[proc[x].step].job]
        PROVE  IInv'
    <3> DEFINE j == steps[proc[x].step].job
               p == [proc[x] EXCEPT !.pc = pc, !.job = j]
    <3>1. JobIsFor(j, proc[x].step) /\ j \in Nat
      BY <1>1, <1>2, <2>4 DEF IInv, LinksOK, JobIsFor
    <3>2. /\ pc \in Pc /\ pc \in Executing /\ pc \notin Queueing \union {"createSteps"}
          /\ 0 \in 0..N
      BY StepsAssumption DEF Pc, Executing, Queueing
    <3> HIDE DEF j
    <3>3. proc' = [proc EXCEPT ![x] = p]
      BY <1>1, <2>4 DEF ProcState, j
    <3>4. p \in ProcState
      BY <1>1, <3>1, <3>2, Rows
    <3>5. /\ p.pc = pc /\ p.step = proc[x].step /\ p.job = j
          /\ p.bullJob = proc[x].bullJob
      BY <1>1 DEF ProcState
    <3>6. Fits(x, p)
      <4> HIDE DEF p
      <4> QED
        BY <1>1, <1>2, <3>1, <3>2, <3>5 DEF Fits, ProcOK, Queueing
    <3> QED
      BY <2>1, <3>2, <3>3, <3>4, <3>5, <3>6, Turn
  <2> QED
    BY <1>5, <2>2, <2>3, <2>4 DEF FindJob, FindFailedJob
<1>6. CASE MarkJobProcessing(x) \/ MarkJobFailed(x)
  <2>1. JobIsFor(proc[x].job, proc[x].step)
    BY <1>1, <1>6 DEF MarkJobProcessing, MarkJobFailed, ProcOK, Fits, WithJob
  <2>2. Keeps /\ Len(steps') = Len(steps)
    BY <1>6, <2>1, SameCounters, JobWritten DEF MarkJobProcessing, MarkJobFailed, Status, JobIsFor
  <2>3. "handler" \in Pc \ (Queueing \union {"createSteps"})
    BY DEF Pc, Queueing
  <2> QED
    BY <1>2, <1>6, <2>1, <2>2, <2>3, GotoKeeps, DoneKeeps DEF MarkJobProcessing, MarkJobFailed
<1>7. CASE HandlerFails(x)
  <2>1. Keeps /\ Len(steps') = Len(steps)
    BY <1>7, SameCounters, NothingWritten DEF HandlerFails
  <2> QED
    BY <1>2, <1>7, <2>1, ThrowKeeps DEF HandlerFails
<1>8. CASE HandlerSucceeds(x)
  <2> DEFINE p == [proc[x] EXCEPT !.pc = "complete"]
  <2>1. CountersOK'
    BY <1>1, <1>2, <1>8 DEF HandlerSucceeds, IInv, CountersOK, counters
  <2>2. Keeps /\ Len(steps') = Len(steps)
    BY <1>8, <2>1, NothingWritten DEF HandlerSucceeds
  <2>3. proc' = [proc EXCEPT ![x] = p] /\ proc'[x] = p
    BY <1>1, <1>8 DEF HandlerSucceeds, Goto
  <2>4. "complete" \in Pc
    BY DEF Pc
  <2>5. /\ p \in ProcState /\ p.pc = "complete" /\ p.step = proc[x].step
        /\ p.job = proc[x].job /\ p.bullJob = proc[x].bullJob
    BY <1>1, <2>4, Rows, StepsAssumption DEF ProcState
  <2> HIDE DEF p
  <2>6. Ids' = Ids /\ jobs' = jobs /\ proc[x].step \in succeeded'
    BY <1>8 DEF HandlerSucceeds, Ids
  <2>7. JobIsFor(proc[x].job, proc[x].step)
    BY <1>1, <1>8 DEF HandlerSucceeds, ProcOK, Fits, WithJob
  <2>8. ProcOK(x)'
    BY <1>1, <1>2, <2>3, <2>5, <2>6, <2>7 DEF ProcOK, Fits, JobIsFor, Queueing
  <2> QED
    BY <2>2, <2>3, <2>5, <2>8, StepKeeps DEF Moves
<1>9. CASE MarkStepCompleted(x)
  <2>1. JobIsFor(proc[x].job, proc[x].step) /\ proc[x].step \in succeeded
    BY <1>1, <1>9 DEF MarkStepCompleted, ProcOK, Fits, WithJob
  <2>2. Keeps /\ Len(steps') = Len(steps)
    BY <1>2, <1>9, <2>1, SameCounters, StepWritten DEF MarkStepCompleted, Status
  <2>3. "jobCompleted" \in Pc \ (Queueing \union {"createSteps"})
    BY DEF Pc, Queueing
  <2> QED
    BY <1>2, <1>9, <2>1, <2>2, <2>3, GotoKeeps DEF MarkStepCompleted
<1>10. CASE MarkJobCompleted(x)
  <2> DEFINE p == [proc[x] EXCEPT !.pc = "next", !.job = 0]
  <2>1. JobIsFor(proc[x].job, proc[x].step) /\ proc[x].step \in succeeded
    BY <1>1, <1>10 DEF MarkJobCompleted, ProcOK, Fits, WithJob
  <2>2. Keeps /\ Len(steps') = Len(steps)
    BY <1>10, <2>1, SameCounters, JobWritten DEF MarkJobCompleted, Status, JobIsFor
  <2>3. proc' = [proc EXCEPT ![x] = p]
    BY <1>1, <1>10 DEF MarkJobCompleted, ProcState
  <2>4. "next" \in Pc /\ 0 \in Nat /\ 0 \in 0..N
    BY StepsAssumption DEF Pc
  <2>5. p \in ProcState
    BY <1>1, <2>4, Rows
  <2>6. p.pc = "next" /\ p.step = proc[x].step /\ p.bullJob = proc[x].bullJob
    BY <1>1 DEF ProcState
  <2>7. Fits(x, p)
    <3> HIDE DEF p
    <3> QED
      BY <1>1, <1>2, <2>6 DEF Fits, ProcOK, Executing, Queueing, WithJob
  <2> QED
    BY <2>2, <2>3, <2>5, <2>6, <2>7, Turn
<1>11. CASE MarkStepFailed(x)
  <2>1. Keeps /\ Len(steps') = Len(steps)
    BY <1>2, <1>11, SameCounters, StepWritten DEF MarkStepFailed, Status
  <2>2. "failFindJob" \in Pc \ (Queueing \union WithJob \union {"createSteps"})
    BY DEF Pc, Queueing, WithJob
  <2> QED
    BY <1>2, <1>11, <2>1, <2>2, GotoKeeps DEF MarkStepFailed
<1> QED
  BY <1>3, <1>4, <1>5, <1>6, <1>7, <1>8, <1>9, <1>10, <1>11 DEF ExecuteStep

-----------------------------------------------------------------------------
(* createAndQueueNextJob *)

LEMMA CreateJobKeeps ==
  ASSUME IInv, NEW x \in Process, CreateJob(x)
  PROVE  IInv'
PROOF
<1> DEFINE i == proc[x].next
           row == [status |-> "PENDING", step |-> i]
           p == [proc[x] EXCEPT !.pc = "linkJob", !.job = Len(jobs')]
<1>1. /\ proc \in [Process -> ProcState] /\ proc[x] \in ProcState /\ ProcOK(x)
      /\ Ids \subseteq 1..N /\ 0 \notin Ids
  BY Facts
<1>2. i \in Ids
  BY <1>1 DEF CreateJob, AtPc, ProcOK, Fits, Queueing
<1>3. row \in JobRow
  BY <1>1, <1>2 DEF JobRow, Status
<1>4. /\ jobs' \in Seq(JobRow) /\ Len(jobs') = Len(jobs) + 1
      /\ \A k \in 1..Len(jobs) : jobs'[k] = jobs[k]
      /\ jobs'[Len(jobs')] = row
  BY <1>3, AppendProperties DEF CreateJob, IInv, JobsOK
<1>5. DOMAIN jobs = 1..Len(jobs) /\ DOMAIN jobs' = 1..(Len(jobs) + 1) /\ Len(jobs) \in Nat
  BY <1>4 DEF IInv, JobsOK
<1>6. \A k \in DOMAIN jobs : k \in DOMAIN jobs' /\ jobs'[k] = jobs[k]
  BY <1>4, <1>5
<1>7. Ids' = Ids /\ Len(steps') = Len(steps) /\ steps' = steps /\ bull' = bull /\ succeeded' = succeeded
  BY DEF CreateJob, Ids, history
<1>8. Keeps
  <2>1. StepsOK' /\ BullOK' /\ JobsOK' /\ CountersOK'
    BY <1>4, <1>6, <1>7, SameCounters
    DEF CreateJob, IInv, StepsOK, JobsOK, BullOK, history
  <2>2. LinksOK'
    BY <1>6, <1>7 DEF IInv, LinksOK, JobIsFor
  <2>3. DoneOK'
    BY <1>4, <1>5, <1>6, <1>7 DEF IInv, DoneOK, CompletedHasSucceeded
  <2> QED
    BY <1>6, <1>7, <2>1, <2>2, <2>3 DEF Keeps, Grows
<1>9. Len(jobs') \in Nat /\ "linkJob" \in Pc /\ 0 \in 0..N
  BY <1>4, <1>5, StepsAssumption DEF Pc
<1>10. proc' = [proc EXCEPT ![x] = p] /\ proc'[x] = p
  BY <1>1 DEF CreateJob, ProcState
<1>11. /\ p \in ProcState /\ p.pc = "linkJob" /\ p.step = proc[x].step
       /\ p.job = Len(jobs') /\ p.next = i /\ p.bullJob = proc[x].bullJob
  <2>1. p \in ProcState
    BY <1>1, <1>9, Rows
  <2> QED
    BY <1>1, <2>1 DEF ProcState
<1>12. ProcOK(x)'
  <2>1. Len(jobs') \in DOMAIN jobs' /\ jobs'[Len(jobs')].step = i
    BY <1>4, <1>5
  <2>2. proc[x].pc = "createJob"
    BY DEF CreateJob, AtPc
  <2> HIDE DEF p
  <2> QED
    BY <1>1, <1>2, <1>6, <1>7, <1>10, <1>11, <2>1, <2>2
    DEF ProcOK, Fits, JobIsFor, Executing, WithJob
<1> HIDE DEF p
<1> QED
  BY <1>7, <1>8, <1>10, <1>11, <1>12, StepKeeps DEF Moves

LEMMA LinkJobKeeps ==
  ASSUME IInv, NEW x \in Process, LinkJob(x)
  PROVE  IInv'
PROOF
<1> DEFINE i == proc[x].next
           j == proc[x].job
           row == [steps[i] EXCEPT !.job = j]
           p == [proc[x] EXCEPT !.pc = "enqueue"]
<1>1. /\ proc \in [Process -> ProcState] /\ proc[x] \in ProcState /\ ProcOK(x)
      /\ Ids \subseteq 1..N /\ 0 \notin Ids
  BY Facts
<1>2. i \in Ids /\ JobIsFor(j, i) /\ j \in Nat
  BY <1>1 DEF LinkJob, AtPc, ProcOK, Fits, Queueing, ProcState
<1>3. Ids = 1..Len(steps) /\ steps[i] \in StepRow
  BY <1>2 DEF IInv, StepsOK, Ids
<1>4. row \in StepRow /\ row.status = steps[i].status /\ row.job = j
  BY <1>2, <1>3 DEF StepRow
<1>5. steps' = [steps EXCEPT ![i] = row]
  BY DEF LinkJob
<1>6. steps' \in Seq(StepRow) /\ Len(steps') = Len(steps)
  BY <1>2, <1>3, <1>4, <1>5, ExceptSeq DEF IInv, StepsOK
<1>7. \A k \in 1..Len(steps) : steps'[k] = IF k = i THEN row ELSE steps[k]
  BY <1>3, <1>4, <1>5 DEF IInv, StepsOK
<1>8. Ids' = Ids
  BY <1>3, <1>6 DEF Ids
<1>9. jobs' = jobs /\ bull' = bull /\ succeeded' = succeeded
  BY DEF LinkJob, history
<1>10. Keeps
  <2>1. StepsOK' /\ JobsOK' /\ BullOK' /\ CountersOK'
    BY <1>6, <1>8, <1>9, SameCounters DEF LinkJob, IInv, StepsOK, JobsOK, BullOK, history
  <2>2. LinksOK'
    BY <1>2, <1>3, <1>4, <1>7, <1>8, <1>9 DEF IInv, LinksOK, JobIsFor
  <2>3. DoneOK'
    BY <1>3, <1>4, <1>7, <1>8, <1>9 DEF IInv, DoneOK, CompletedHasSucceeded
  <2> QED
    BY <1>8, <1>9, <2>1, <2>2, <2>3 DEF Keeps, Grows
<1>11. proc' = [proc EXCEPT ![x] = p]
  BY <1>1 DEF LinkJob, Goto
<1>12. "enqueue" \in Pc /\ 0 \in 0..N
  BY StepsAssumption DEF Pc
<1>13. /\ p \in ProcState /\ p.pc = "enqueue" /\ p.step = proc[x].step /\ p.job = j
       /\ p.next = i /\ p.bullJob = proc[x].bullJob
  BY <1>1, <1>2, <1>12, Rows DEF ProcState
<1>14. Fits(x, p)
  <2>1. proc[x].pc = "linkJob"
    BY DEF LinkJob, AtPc
  <2> HIDE DEF p
  <2> QED
    BY <1>1, <1>2, <1>13, <2>1 DEF ProcOK, Fits, Executing, WithJob
<1> HIDE DEF p
<1> QED
  BY <1>6, <1>10, <1>11, <1>13, <1>14, Turn

LEMMA QueueKeeps ==
  ASSUME IInv, NEW x \in Process, QueueNext(x)
  PROVE  IInv'
PROOF
<1>1. /\ proc \in [Process -> ProcState] /\ proc[x] \in ProcState /\ ProcOK(x)
      /\ Ids \subseteq 1..N /\ 0 \notin Ids
  BY Facts
<1>2. CASE FindNext(x)
  <2>1. Keeps /\ Len(steps') = Len(steps)
    BY <1>2, SameCounters, NothingWritten DEF FindNext, history
  <2>2. ASSUME NEW i \in NextPending(proc[x].ids),
               proc' = [proc EXCEPT ![x].pc = "createJob", ![x].next = i]
        PROVE  IInv'
    <3> DEFINE p == [proc[x] EXCEPT !.pc = "createJob", !.next = i]
    <3>1. i \in Ids
      BY NextPendingIsStep
    <3>7. i \in 0..N /\ 0 \in Nat
      BY <1>1, <3>1, StepsAssumption
    <3>8. "createJob" \in Pc
      BY DEF Pc
    <3>2. proc' = [proc EXCEPT ![x] = p]
      BY <1>1, <2>2 DEF ProcState
    <3>3. p \in ProcState
      BY <1>1, <3>7, <3>8, Rows
    <3>4. /\ p.pc = "createJob" /\ p.step = proc[x].step /\ p.next = i
          /\ p.bullJob = proc[x].bullJob
      BY <1>1 DEF ProcState
    <3>5. proc[x].pc = "next"
      BY <1>2 DEF FindNext, AtPc
    <3> HIDE DEF p
    <3>6. Fits(x, p)
      BY <1>1, <3>1, <3>4, <3>5 DEF ProcOK, Fits, Executing, WithJob
    <3> QED
      BY <2>1, <3>2, <3>3, <3>4, <3>6, Turn
  <2> QED
    BY <1>2, <2>1, <2>2, DoneKeeps DEF FindNext
<1>3. CASE QueueJobInBull(x)
  <2> DEFINE entry == [step |-> proc[x].next, job |-> proc[x].job, ids |-> proc[x].ids,
                    stalls |-> 0]
  <2>1. /\ proc[x].next \in Ids /\ proc[x].job \in DOMAIN jobs /\ proc[x].job \in Nat
        /\ proc[x].ids \in SUBSET (1..N)
    BY <1>1, <1>3 DEF QueueJobInBull, AtPc, ProcOK, Fits, Queueing, JobIsFor, ProcState
  <2>2. entry \in BullJob
    <3>1. proc[x].next \in 1..N
      BY <1>1, <2>1
    <3>2. 0 \in 0..1
      OBVIOUS
    <3> QED
      BY <2>1, <3>1, <3>2 DEF BullJob
  <2>3. /\ bull' \in Seq(BullJob) /\ Len(bull') = Len(bull) + 1
        /\ \A k \in 1..Len(bull) : bull'[k] = bull[k]
        /\ bull'[Len(bull) + 1] = entry
    BY <1>3, <2>2, AppendProperties DEF QueueJobInBull, IInv, BullOK
  <2>4. DOMAIN bull = 1..Len(bull) /\ DOMAIN bull' = 1..(Len(bull) + 1) /\ Len(bull) \in Nat
    BY <2>3 DEF IInv, BullOK
  <2>5. Ids' = Ids /\ jobs' = jobs /\ steps' = steps /\ succeeded' = succeeded
    BY <1>3 DEF QueueJobInBull, Ids, history
  <2>6. BullOK'
    BY <2>1, <2>3, <2>4, <2>5 DEF IInv, BullOK
  <2>7. Keeps
    BY <1>3, <2>5, <2>6, SameCounters
    DEF QueueJobInBull, Keeps, Grows, IInv, StepsOK, JobsOK, LinksOK, JobIsFor, DoneOK,
        CompletedHasSucceeded, history
  <2> QED
    BY <1>3, <2>5, <2>7, DoneKeeps DEF QueueJobInBull
<1> QED
  BY <1>2, <1>3, CreateJobKeeps, LinkJobKeeps DEF QueueNext

-----------------------------------------------------------------------------
(* The processor, the requests and the failures *)

LEMMA WorkerKeeps ==
  ASSUME IInv, ProcessStepJob \/ WorkerFailsJob \/ WorkerFailsStep
  PROVE  IInv'
PROOF
<1> USE DEF AtPc, Step
<1>1. Worker \in Process
  BY DEF Process
<1>2. /\ proc \in [Process -> ProcState] /\ proc[Worker] \in ProcState /\ ProcOK(Worker)
      /\ Ids \subseteq 1..N /\ 0 \notin Ids
  BY <1>1, Facts
<1>3. CASE ProcessStepJob
  <2> DEFINE head == Head(bull)
             p == [Idle EXCEPT !.pc = "execute", !.step = head.step, !.ids = head.ids,
                               !.bullJob = head.job, !.stalls = head.stalls]
  <2>1. /\ bull' \in Seq(BullJob) /\ head \in BullJob /\ head = bull[1] /\ 1 \in DOMAIN bull
        /\ \A k \in DOMAIN bull' : k + 1 \in DOMAIN bull /\ bull'[k] = bull[k + 1]
    <3>1. bull \in Seq(BullJob) /\ bull # <<>> /\ bull' = Tail(bull)
      BY <1>3 DEF ProcessStepJob, IInv, BullOK
    <3>2. Len(bull') = Len(bull) - 1 /\ Len(bull) \in Nat \ {0} /\ bull' \in Seq(BullJob)
      BY <3>1, HeadTailProperties, EmptySeq
    <3>3. \A k \in 1..Len(bull') : bull'[k] = bull[k + 1]
      BY <3>1, <3>2
    <3>4. DOMAIN bull = 1..Len(bull) /\ DOMAIN bull' = 1..Len(bull')
      BY <3>1, <3>2
    <3>5. head = bull[1] /\ bull[1] \in BullJob
      BY <3>1, <3>2, HeadTailProperties
    <3> QED
      BY <3>2, <3>3, <3>4, <3>5
  <2>2. head.step \in Ids /\ head.job \in DOMAIN jobs
    BY <2>1 DEF IInv, BullOK
  <2>3. Ids' = Ids /\ jobs' = jobs /\ steps' = steps /\ succeeded' = succeeded
    BY <1>3 DEF ProcessStepJob, Ids, history
  <2>4. BullOK'
    BY <2>1, <2>3 DEF IInv, BullOK
  <2>5. Keeps
    BY <1>3, <2>3, <2>4, SameCounters
    DEF ProcessStepJob, Keeps, Grows, IInv, StepsOK, JobsOK, LinksOK, JobIsFor, DoneOK,
        CompletedHasSucceeded, history
  <2>6. proc' = [proc EXCEPT ![Worker] = p]
    BY <1>3 DEF ProcessStepJob
  <2>7. /\ head.step \in 0..N /\ head.job \in Nat /\ head.stalls \in 0..1
        /\ head.ids \in SUBSET (1..N)
        /\ Idle \in ProcState /\ "execute" \in Pc
    <3>1. head.job \in Nat /\ head.stalls \in 0..1 /\ head.ids \in SUBSET (1..N)
      BY <2>1 DEF BullJob
    <3>2. head.step \in 0..N
      <4>1. head.step \in 1..N
        BY <1>2, <2>2
      <4> HIDE DEF head
      <4> QED
        BY <4>1, StepsAssumption
    <3>3. "execute" \in Pc
      BY DEF Pc
    <3> QED
      BY <3>1, <3>2, <3>3, IdleFits
  <2> HIDE DEF head
  <2>8. /\ p \in ProcState /\ p.pc = "execute" /\ p.step = head.step
        /\ p.bullJob = head.job
    BY <2>7 DEF ProcState
  <2>9. Fits(Worker, p)
    <3> HIDE DEF p
    <3> QED
      BY <2>2, <2>8 DEF Fits, Queueing, WithJob
  <2> HIDE DEF p
  <2> QED
    BY <1>1, <2>3, <2>5, <2>6, <2>8, <2>9, Turn
<1>4. CASE WorkerFailsJob
  <2>1. proc[Worker].step \in Ids /\ proc[Worker].bullJob \in DOMAIN jobs
        /\ proc[Worker].pc # "idle"
    BY <1>2, <1>4 DEF WorkerFailsJob, ProcOK, Fits
  <2>2. Keeps /\ Len(steps') = Len(steps)
    BY <1>4, <2>1, SameCounters, JobWritten DEF WorkerFailsJob, Status, history
  <2>3. "workerFailStep" \in Pc \ (Queueing \union WithJob \union {"createSteps"})
    BY DEF Pc, Queueing, WithJob
  <2> QED
    BY <1>1, <1>4, <2>1, <2>2, <2>3, GotoKeeps DEF WorkerFailsJob
<1>5. CASE WorkerFailsStep
  <2>1. proc[Worker].step \in Ids
    BY <1>2, <1>5 DEF WorkerFailsStep, ProcOK, Fits
  <2>2. Keeps /\ Len(steps') = Len(steps)
    BY <1>5, <2>1, SameCounters, StepWritten DEF WorkerFailsStep, Status, history
  <2> QED
    BY <1>1, <1>5, <2>2, DoneKeeps DEF WorkerFailsStep
<1> QED
  BY <1>3, <1>4, <1>5

LEMMA IdleListless ==
  ASSUME NEW pc, NEW i
  PROVE  [Idle EXCEPT !.pc = pc, !.step = i] = [Idle EXCEPT !.pc = pc, !.step = i, !.ids = {}]
PROOF
<1>1. ASSUME NEW s \in ProcState, s.ids = {}
      PROVE  [s EXCEPT !.pc = pc, !.step = i] = [s EXCEPT !.pc = pc, !.step = i, !.ids = {}]
  BY <1>1 DEF ProcState
<1>2. Idle \in ProcState
  BY IdleFits
<1>3. Idle.ids = {}
  BY DEF Idle
<1> QED
  BY <1>1, <1>2, <1>3

LEMMA ExecuteNext ==
  ASSUME IInv, NEW r \in Request, NEW i \in Ids, NEW pc \in {"execute", "reset"},
         UNCHANGED <<steps, jobs, bull, history>>,
         NEW s \in {proc[r], Idle}, NEW d \in SUBSET (1..N),
         proc' = [proc EXCEPT ![r] = [s EXCEPT !.pc = pc, !.step = i, !.ids = d]]
  PROVE  IInv'
PROOF
<1> DEFINE p == [s EXCEPT !.pc = pc, !.step = i, !.ids = d]
<1>1. r \in Process /\ r # Worker
  BY WorkerAssumption DEF Process
<1>2. s \in ProcState /\ i \in 0..N /\ 0 \in Nat
  <2>1. proc[r] \in ProcState /\ i \in 1..N
    BY <1>1, Facts
  <2>2. i \in 0..N
    BY <2>1, StepsAssumption
  <2> QED
    BY <2>1, <2>2, IdleFits
<1>3. pc \in Pc
  BY DEF Pc
<1>4. p \in ProcState
  BY <1>2, <1>3, Rows
<1>5. p.pc = pc /\ p.step = i
  BY <1>2 DEF ProcState
<1>6. Fits(r, p)
  <2> HIDE DEF p
  <2> QED
    BY <1>1, <1>5 DEF Fits, Queueing, WithJob
<1>7. Keeps /\ Len(steps') = Len(steps)
  BY SameCounters, NothingWritten DEF history
<1> HIDE DEF p
<1>8. proc' = [proc EXCEPT ![r] = p]
  BY DEF p
<1> QED
  BY <1>1, <1>4, <1>5, <1>6, <1>7, <1>8, Turn

LEMMA RequestKeeps ==
  ASSUME IInv, NEW r \in Request,
         \/ ProcessNextStep(r) \/ ResetStep(r) \/ FindStep(r)
         \/ \E i \in Ids : RetryStep(r, i)
  PROVE  IInv'
PROOF
<1>1. r \in Process /\ r # Worker
  BY WorkerAssumption DEF Process
<1>2. proc \in [Process -> ProcState] /\ proc[r] \in ProcState /\ ProcOK(r)
  BY <1>1, Facts
<1>3. CASE ProcessNextStep(r)
  <2>1. PICK ids \in Lists : \E i \in NextPending(ids) :
          proc' = [proc EXCEPT ![r] = [Idle EXCEPT !.pc = "execute", !.step = i, !.ids = ids]]
    BY <1>3 DEF ProcessNextStep
  <2>2. PICK i \in NextPending(ids) :
          proc' = [proc EXCEPT ![r] = [Idle EXCEPT !.pc = "execute", !.step = i, !.ids = ids]]
    BY <2>1
  <2>3. i \in Ids /\ ids \in SUBSET (1..N)
    BY <2>2, NextPendingIsStep, ListsAssumption
  <2> QED
    BY <1>3, <2>2, <2>3, ExecuteNext DEF ProcessNextStep
<1>4. CASE \E i \in Ids : RetryStep(r, i)
  <2>1. PICK i \in Ids : RetryStep(r, i)
    BY <1>4
  <2> DEFINE d == {}
  <2>2. d \in SUBSET (1..N) /\ "reset" \in {"execute", "reset"} /\ Idle \in {proc[r], Idle}
    OBVIOUS
  <2>3. proc' = [proc EXCEPT ![r] = [Idle EXCEPT !.pc = "reset", !.step = i, !.ids = d]]
    BY <2>1, IdleListless DEF RetryStep
  <2>4. UNCHANGED <<steps, jobs, bull, history>>
    BY <2>1 DEF RetryStep
  <2> HIDE DEF d
  <2> QED
    BY <2>2, <2>3, <2>4, ExecuteNext
<1>5. CASE ResetStep(r)
  <2>1. proc[r].step \in Ids
    BY <1>2, <1>5 DEF ResetStep, AtPc, ProcOK, Fits, Executing
  <2>2. Keeps /\ Len(steps') = Len(steps)
    BY <1>5, <2>1, SameCounters, StepWritten DEF ResetStep, Step, Status, history
  <2>3. "find" \in Pc \ (Queueing \union WithJob \union {"createSteps"})
    BY DEF Pc, Queueing, WithJob
  <2> QED
    BY <1>1, <1>5, <2>1, <2>2, <2>3, GotoKeeps DEF ResetStep
<1>6. CASE FindStep(r)
  <2>1. CASE Done(r)
    <3>1. Keeps /\ Len(steps') = Len(steps)
      BY <1>6, SameCounters, NothingWritten DEF FindStep, history
    <3> QED
      BY <1>1, <2>1, <3>1, DoneKeeps
  <2>2. ASSUME NEW i \in NextPending(Ids),
               proc' = [proc EXCEPT ![r].pc = "execute", ![r].step = i, ![r].ids = Ids]
        PROVE  IInv'
    <3>1. proc' = [proc EXCEPT ![r] = [proc[r] EXCEPT !.pc = "execute", !.step = i, !.ids = Ids]]
      BY <1>1, <1>2, <2>2 DEF ProcState
    <3>2. Ids \in SUBSET (1..N)
      BY <1>1, Facts
    <3>3. i \in Ids
      BY NextPendingIsStep
    <3> QED
      BY <1>6, <3>1, <3>2, <3>3, ExecuteNext DEF FindStep
  <2> QED
    BY <1>6, <2>1, <2>2 DEF FindStep
<1> QED
  BY <1>3, <1>4, <1>5, <1>6

LEMMA FaultKeeps ==
  ASSUME IInv, NEW x \in Process, DatabaseFault(x) \/ BullFault(x)
  PROVE  IInv'
PROOF
<1> USE DEF AtPc, Step
<1>1. /\ proc \in [Process -> ProcState] /\ proc[x] \in ProcState /\ ProcOK(x)
      /\ Ids \subseteq 1..N /\ 0 \notin Ids
  BY Facts
<1>2. trouble' \in Nat /\ bullFaults' \in Nat
  BY DEF IInv, CountersOK, DatabaseFault, BullFault
<1>3. Keeps /\ Len(steps') = Len(steps)
  BY <1>2, SameTables DEF DatabaseFault, BullFault
<1>4. CASE Done(x)
  BY <1>3, <1>4, DoneKeeps
<1>5. CASE Throw(x) /\ proc[x].step \in Ids /\ proc[x].pc # "idle"
  BY <1>3, <1>5, ThrowKeeps
<1>6. CASE x = Worker /\ proc[x].pc # "idle" /\ Goto(x, "workerFailJob")
  <2>1. proc[x].step \in Ids /\ proc[x].pc # "idle"
    BY <1>1, <1>6 DEF ProcOK, Fits
  <2>2. "workerFailJob" \in Pc \ (Queueing \union WithJob \union {"createSteps"})
    BY DEF Pc, Queueing, WithJob
  <2> QED
    BY <1>3, <1>6, <2>1, <2>2, GotoKeeps
<1>7. InTry(x) => proc[x].step \in Ids /\ proc[x].pc # "idle"
  BY <1>1 DEF InTry, TryPc, ProcOK, Fits, Executing
<1>8. CASE DatabaseFault(x)
  BY <1>4, <1>5, <1>6, <1>7, <1>8 DEF DatabaseFault
<1>9. CASE BullFault(x)
  <2>1. proc[x].step # 0 => proc[x].step \in Ids /\ proc[x].pc # "idle"
    BY <1>1, <1>9 DEF BullFault, ProcOK, Fits
  <2> QED
    BY <1>4, <1>5, <1>9, <2>1 DEF BullFault
<1> QED
  BY <1>8, <1>9

LEMMA PutInFront ==
  ASSUME NEW S, NEW s \in Seq(S), NEW e \in S
  PROVE  /\ <<e>> \o s \in Seq(S)
         /\ \A k \in DOMAIN (<<e>> \o s) :
              \/ (<<e>> \o s)[k] = e
              \/ \E n \in DOMAIN s : (<<e>> \o s)[k] = s[n]
PROOF
<1> DEFINE one == <<e>>
           q == one \o s
<1>1. one \in Seq(S) /\ Len(one) = 1 /\ one[1] = e
  OBVIOUS
<1> HIDE DEF one
<1>2. /\ q \in Seq(S) /\ Len(q) = Len(one) + Len(s)
      /\ \A k \in 1..(Len(one) + Len(s)) :
           q[k] = IF k <= Len(one) THEN one[k] ELSE s[k - Len(one)]
  BY <1>1, ConcatProperties
<1> HIDE DEF q
<1>3. Len(s) \in Nat /\ DOMAIN s = 1..Len(s) /\ DOMAIN q = 1..(1 + Len(s))
  BY <1>1, <1>2
<1>4. ASSUME NEW k \in DOMAIN q PROVE q[k] = e \/ \E n \in DOMAIN s : q[k] = s[n]
  <2>1. CASE k = 1
    BY <1>1, <1>2, <1>3, <2>1
  <2>2. CASE k # 1
    <3>1. k - 1 \in DOMAIN s /\ q[k] = s[k - 1]
      BY <1>1, <1>2, <1>3, <2>2
    <3> QED
      BY <3>1
  <2> QED
    BY <2>1, <2>2
<1> QED
  BY <1>2, <1>4 DEF q, one

LEMMA RestartKeeps ==
  ASSUME IInv, Restart
  PROVE  IInv'
PROOF
<1> DEFINE w == proc[Worker]
           entry == [step |-> w.step, job |-> w.bullJob, ids |-> w.ids, stalls |-> 1]
<1>1. Worker \in Process
  BY DEF Process
<1>2. /\ proc \in [Process -> ProcState] /\ w \in ProcState /\ ProcOK(Worker)
      /\ Ids \subseteq 1..N /\ 0 \notin Ids
  BY <1>1, Facts
<1>3. Ids' = Ids /\ jobs' = jobs /\ steps' = steps /\ succeeded' = succeeded
  BY DEF Restart, Ids
<1>4. BullOK'
  <2>1. CASE bull' = bull
    BY <1>3, <2>1 DEF IInv, BullOK
  <2>2. CASE w.pc # "idle" /\ bull' = <<entry>> \o bull
    <3>1. /\ w.step \in Ids /\ w.bullJob \in DOMAIN jobs /\ w.bullJob \in Nat
          /\ w.ids \in SUBSET (1..N)
      BY <1>2, <2>2 DEF ProcOK, Fits, ProcState
    <3>2. entry \in BullJob
      <4>1. w.step \in 1..N
        BY <1>2, <3>1
      <4>2. 1 \in 0..1
        OBVIOUS
      <4> QED
        BY <3>1, <4>1, <4>2 DEF BullJob
    <3>3. bull \in Seq(BullJob)
      BY DEF IInv, BullOK
    <3> HIDE DEF entry
    <3>4. /\ bull' \in Seq(BullJob)
          /\ \A k \in DOMAIN bull' : bull'[k] = entry \/ \E n \in DOMAIN bull : bull'[k] = bull[n]
      BY <2>2, <3>2, <3>3, PutInFront
    <3>5. entry.step = w.step /\ entry.job = w.bullJob
      BY DEF entry
    <3>6. \A k \in DOMAIN bull' : bull'[k].step \in Ids /\ bull'[k].job \in DOMAIN jobs
      <4> HIDE DEF w
      <4> QED
        BY <3>1, <3>4, <3>5 DEF IInv, BullOK
    <3> QED
      BY <1>3, <3>4, <3>6 DEF BullOK
  <2> QED
    BY <2>1, <2>2 DEF Restart
<1>5. CountersOK'
  BY DEF Restart, IInv, CountersOK
<1>6. StepsOK' /\ JobsOK' /\ LinksOK' /\ DoneOK'
  BY <1>3 DEF IInv, StepsOK, JobsOK, LinksOK, JobIsFor, DoneOK, CompletedHasSucceeded
<1>7. proc' = [x \in Process |-> Idle]
  BY DEF Restart
<1>8. proc' \in [Process -> ProcState]
  BY <1>7, IdleFits
<1>9. ASSUME NEW x \in Process PROVE ProcOK(x)'
  BY <1>7 DEF ProcOK, Fits, Idle, Executing, Queueing, WithJob
<1> QED
  BY <1>4, <1>5, <1>6, <1>8, <1>9 DEF IInv

LEMMA StutterKeeps ==
  ASSUME IInv, UNCHANGED vars
  PROVE  IInv'
PROOF
<1>1. UNCHANGED <<steps, jobs, bull, proc, trouble, bullFaults, started, succeeded>>
  BY DEF vars
<1>2. StepsOK' /\ JobsOK' /\ BullOK' /\ LinksOK' /\ DoneOK' /\ CountersOK'
  BY <1>1 DEF IInv, StepsOK, JobsOK, BullOK, LinksOK, JobIsFor, DoneOK, CountersOK,
     CompletedHasSucceeded, Ids
<1>3. \A x \in Process : ProcOK(x)'
  BY <1>1 DEF IInv, ProcOK, Fits, JobIsFor, Ids
<1> QED
  BY <1>1, <1>2, <1>3 DEF IInv

LEMMA NextKeeps == IInv /\ [Next]_vars => IInv'
PROOF
<1> SUFFICES ASSUME IInv, [Next]_vars PROVE IInv'
  OBVIOUS
<1>1. CASE WorkerStep
  <2>1. Worker \in Process
    BY DEF Process
  <2> QED
    BY <1>1, <2>1, WorkerKeeps, ExecuteKeeps, QueueKeeps DEF WorkerStep, ServerStep
<1>2. ASSUME NEW r \in Request,
             \/ RequestStep(r) \/ CreateStepSequence(r) \/ ProcessNextStep(r)
             \/ \E i \in Ids : RetryStep(r, i)
      PROVE  IInv'
  <2>1. r \in Process
    BY DEF Process
  <2> QED
    BY <1>2, <2>1, CreationKeeps, RequestKeeps, ExecuteKeeps, QueueKeeps
    DEF RequestStep, ServerStep
<1>3. CASE \E x \in Process : DatabaseFault(x) \/ BullFault(x)
  BY <1>3, FaultKeeps
<1>4. CASE Restart
  BY <1>4, RestartKeeps
<1>5. CASE UNCHANGED vars
  BY <1>5, StutterKeeps
<1> QED
  BY <1>1, <1>2, <1>3, <1>4, <1>5 DEF Next

(* Steps, jobs and Bull jobs named anywhere exist and belong together, and *)
(* whoever is about to record a success has had one.                       *)
THEOREM Inductive == Spec => []IInv
BY InitIInv, NextKeeps, PTL DEF Spec

(* The shape of the state, for any number of steps and requests: job rows, *)
(* links and Bull jobs name steps and jobs that exist and belong together. *)
THEOREM TypeCorrect == Spec => []TypeOK
BY Inductive, IInvGivesTypeOK, PTL

(* However the processor, retries, manual processing, failing calls and    *)
(* restarts interleave, a step or job is shown as completed only if its    *)
(* handler has succeeded.                                                  *)
THEOREM CompletedMeansSucceeded == Spec => []CompletedHasSucceeded
PROOF
<1>1. IInv => CompletedHasSucceeded
  BY DEF IInv, DoneOK
<1> QED
  BY <1>1, Inductive, PTL

-----------------------------------------------------------------------------
(* The order of the steps of a list.  A step is only ever looked for       *)
(* behind steps of the list that have been started, and who found it, or   *)
(* waits for it in Bull, may act on it much later: steps never become      *)
(* unstarted.                                                              *)

StartedBelow(i, ids) == \A j \in ids : j < i => j \in started

InOrder(p) ==
  /\ StartedBelow(p.step, p.ids)
  /\ p.pc \in Queueing => StartedBelow(p.next, p.ids)
  /\ p.pc \in {"findJob", "jobProcessing", "handler", "complete"} => p.step \in started
  /\ p.pc \in {"idle", "createSteps"} => p.step = 0

ShownIsStarted ==
  \A i \in Ids : steps[i].status \in {"PROCESSING", "COMPLETED"} => i \in started
BullInOrder == \A k \in DOMAIN bull : StartedBelow(bull[k].step, bull[k].ids)

OrderInv ==
  /\ ShownIsStarted
  /\ BullInOrder
  /\ \A x \in Process : InOrder(proc[x])

LEMMA InitOrder == Init => OrderInv
PROOF
<1> SUFFICES ASSUME Init PROVE OrderInv
  OBVIOUS
<1>1. ShownIsStarted /\ BullInOrder
  BY EmptySeq DEF Init, ShownIsStarted, BullInOrder, Ids
<1>2. \A x \in Process : InOrder(proc[x])
  BY DEF Init, InOrder, Idle, Queueing, StartedBelow
<1> QED
  BY <1>1, <1>2 DEF OrderInv

LEMMA NextPendingInOrder ==
  ASSUME IInv, OrderInv, NEW ids \in SUBSET (1..N), NEW i \in NextPending(ids)
  PROVE  i \in Ids /\ StartedBelow(i, ids)
PROOF
<1>1. /\ i \in Ids
      /\ \A j \in Ids \intersect ids : j < i => steps[j].status \notin {"PENDING", "FAILED"}
  BY DEF NextPending
<1>2. Ids = 1..Len(steps) /\ Len(steps) \in Nat /\ steps \in Seq(StepRow) /\ N \in Nat
  BY StepsAssumption DEF IInv, StepsOK, Ids
<1>3. ASSUME NEW j \in ids, j < i PROVE j \in started
  <2>1. j \in Ids
    <3>1. j \in 1..N
      OBVIOUS
    <3> QED
      BY <1>1, <1>2, <1>3, <3>1
  <2>2. steps[j].status \in Status
    <3>1. steps[j] \in StepRow
      BY <1>2, <2>1
    <3> QED
      BY <3>1 DEF StepRow
  <2> QED
    BY <1>1, <1>3, <2>1, <2>2 DEF OrderInv, ShownIsStarted, Status
<1> QED
  BY <1>1, <1>3 DEF StartedBelow

LEMMA OrderKept ==
  ASSUME OrderInv, NEW x \in Process, proc \in [Process -> ProcState], started' = started,
         NEW p, proc' = [proc EXCEPT ![x] = p], InOrder(p),
         ShownIsStarted', BullInOrder'
  PROVE  OrderInv'
PROOF
<1>1. \A y \in Process : proc'[y] = IF y = x THEN p ELSE proc[y]
  OBVIOUS
<1>2. ASSUME NEW y \in Process PROVE InOrder(proc[y])'
  BY <1>1 DEF OrderInv, InOrder, StartedBelow
<1> QED
  BY <1>2 DEF OrderInv

LEMMA IdleInOrder == InOrder(Idle)
BY DEF InOrder, Idle, Queueing, StartedBelow

LEMMA DoneInOrder ==
  ASSUME IInv, OrderInv, NEW x \in Process, Done(x), started' = started,
         ShownIsStarted', BullInOrder'
  PROVE  OrderInv'
BY IdleInOrder, OrderKept, Facts DEF Done

LEMMA GotoInOrder ==
  ASSUME IInv, OrderInv, NEW x \in Process, started' = started, ShownIsStarted', BullInOrder',
         NEW pc, pc \notin Queueing, Goto(x, pc),
         pc \in {"findJob", "jobProcessing", "handler", "complete"} => proc[x].step \in started,
         pc \in {"idle", "createSteps"} => proc[x].pc \in {"idle", "createSteps"}
  PROVE  OrderInv'
PROOF
<1> DEFINE p == [proc[x] EXCEPT !.pc = pc]
<1>1. proc \in [Process -> ProcState] /\ proc[x] \in ProcState /\ InOrder(proc[x])
  BY Facts DEF OrderInv
<1>2. proc' = [proc EXCEPT ![x] = p]
  BY <1>1 DEF Goto
<1>3. p.pc = pc /\ p.step = proc[x].step /\ p.ids = proc[x].ids
  BY <1>1 DEF ProcState
<1>4. InOrder(p)
  <2> HIDE DEF p
  <2> QED
    BY <1>1, <1>3 DEF InOrder
<1> QED
  BY <1>1, <1>2, <1>4, OrderKept

LEMMA ThrowInOrder ==
  ASSUME IInv, OrderInv, NEW x \in Process, Throw(x), started' = started,
         ShownIsStarted', BullInOrder'
  PROVE  OrderInv'
PROOF
<1> DEFINE p == [proc[x] EXCEPT !.pc = "failStep", !.job = 0, !.next = 0]
<1>1. proc \in [Process -> ProcState] /\ proc[x] \in ProcState /\ InOrder(proc[x])
  BY Facts DEF OrderInv
<1>2. proc' = [proc EXCEPT ![x] = p]
  BY <1>1 DEF Throw, ProcState
<1>3. p.pc = "failStep" /\ p.step = proc[x].step /\ p.ids = proc[x].ids
  BY <1>1 DEF ProcState
<1>4. InOrder(p)
  <2> HIDE DEF p
  <2> QED
    BY <1>1, <1>3 DEF InOrder, Queueing
<1> QED
  BY <1>1, <1>2, <1>4, OrderKept

\* What the tables' writes do to the order.
LEMMA SameShown ==
  ASSUME OrderInv, steps' = steps, started' = started PROVE ShownIsStarted'
BY DEF OrderInv, ShownIsStarted, Ids

LEMMA SameBull ==
  ASSUME OrderInv, bull' = bull, started' = started PROVE BullInOrder'
BY DEF OrderInv, BullInOrder, StartedBelow

LEMMA SetStepShown ==
  ASSUME IInv, OrderInv, NEW i \in Ids, NEW status \in Status, SetStep(i, status),
         started' = started,
         status \in {"PROCESSING", "COMPLETED"} => i \in started
  PROVE  ShownIsStarted'
PROOF
<1>1. /\ Ids' = Ids
      /\ \A k \in Ids : steps'[k].status = IF k = i THEN status ELSE steps[k].status
  BY SetStepChanges DEF IInv
<1> QED
  BY <1>1 DEF OrderInv, ShownIsStarted

LEMMA ExecuteInOrder ==
  ASSUME IInv, OrderInv, NEW x \in Process, ExecuteStep(x)
  PROVE  OrderInv'
PROOF
<1> USE DEF AtPc, Step, history
<1>1. /\ proc \in [Process -> ProcState] /\ proc[x] \in ProcState /\ ProcOK(x)
      /\ Ids \subseteq 1..N /\ 0 \notin Ids /\ InOrder(proc[x])
  BY Facts DEF OrderInv
<1>2. proc[x].step \in Ids /\ proc[x].pc # "idle"
  BY <1>1 DEF ExecuteStep, ProcOK, Fits, Executing, MarkUnhandled, MarkStepProcessing, FindJob,
     MarkJobProcessing, HandlerSucceeds, HandlerFails, MarkStepCompleted, MarkJobCompleted,
     MarkStepFailed, FindFailedJob, MarkJobFailed
<1>3. CASE MarkUnhandled(x)
  <2>1. ShownIsStarted' /\ BullInOrder' /\ started' = started
    BY <1>2, <1>3, SetStepShown, SameBull DEF MarkUnhandled, Status
  <2> QED
    BY <1>3, <2>1, DoneInOrder DEF MarkUnhandled
<1>4. CASE MarkStepProcessing(x)
  <2> DEFINE i == proc[x].step
             p == [proc[x] EXCEPT !.pc = "findJob"]
  <2>1. started' = started \union {i} /\ bull' = bull
    BY <1>4 DEF MarkStepProcessing
  <2>2. /\ Ids' = Ids
        /\ \A k \in Ids : steps'[k].status = IF k = i THEN "PROCESSING" ELSE steps[k].status
    BY <1>2, <1>4, SetStepChanges DEF MarkStepProcessing, IInv, Status
  <2>3. ShownIsStarted' /\ BullInOrder'
    BY <2>1, <2>2 DEF OrderInv, ShownIsStarted, BullInOrder, StartedBelow
  <2>4. \A y \in Process : proc'[y] = IF y = x THEN p ELSE proc[y]
    BY <1>1, <1>4 DEF MarkStepProcessing, Goto
  <2>5. p.pc = "findJob" /\ p.step = i /\ p.ids = proc[x].ids
    BY <1>1 DEF ProcState
  <2>6. ASSUME NEW y \in Process PROVE InOrder(proc[y])'
    <3> HIDE DEF p, i
    <3>1. InOrder(proc[x]) /\ proc[x].step = i
      BY <1>1 DEF i
    <3> QED
      BY <2>1, <2>4, <2>5, <3>1 DEF OrderInv, InOrder, StartedBelow, Queueing
  <2> QED
    BY <2>3, <2>6 DEF OrderInv
<1>5. CASE FindJob(x) \/ FindFailedJob(x)
  <2>1. ShownIsStarted' /\ BullInOrder' /\ started' = started
    BY <1>5, SameShown, SameBull DEF FindJob, FindFailedJob
  <2>2. CASE Throw(x)
    BY <1>2, <2>1, <2>2, ThrowInOrder
  <2>3. CASE Done(x)
    BY <2>1, <2>3, DoneInOrder
  <2>4. ASSUME NEW pc \in {"jobProcessing", "failJob"}, NEW j,
               pc = "jobProcessing" => proc[x].pc = "findJob",
               proc' = [proc EXCEPT ![x].pc = pc, ![x].job = j]
        PROVE  OrderInv'
    <3> DEFINE p == [proc[x] EXCEPT !.pc = pc, !.job = j]
    <3>1. proc' = [proc EXCEPT ![x] = p]
      BY <1>1, <2>4 DEF ProcState
    <3>2. p.pc = pc /\ p.step = proc[x].step /\ p.ids = proc[x].ids
      BY <1>1 DEF ProcState
    <3> HIDE DEF p
    <3>3. InOrder(p)
      BY <1>1, <1>2, <2>4, <3>2 DEF InOrder, Queueing
    <3> QED
      BY <1>1, <2>1, <3>1, <3>3, OrderKept
  <2> QED
    BY <1>5, <2>2, <2>3, <2>4 DEF FindJob, FindFailedJob
<1>6. CASE MarkJobProcessing(x) \/ MarkJobFailed(x) \/ HandlerSucceeds(x)
  <2>1. ShownIsStarted' /\ BullInOrder' /\ started' = started
    BY <1>6, SameShown, SameBull DEF MarkJobProcessing, MarkJobFailed, HandlerSucceeds
  <2>2. ~MarkJobFailed(x) => proc[x].step \in started
    BY <1>1, <1>6 DEF MarkJobProcessing, HandlerSucceeds, InOrder
  <2> QED
    BY <1>2, <1>6, <2>1, <2>2, GotoInOrder, DoneInOrder
    DEF MarkJobProcessing, MarkJobFailed, HandlerSucceeds, Queueing
<1>7. CASE HandlerFails(x)
  BY <1>2, <1>7, SameShown, SameBull, ThrowInOrder DEF HandlerFails
<1>8. CASE MarkStepCompleted(x)
  <2>1. proc[x].step \in started
    BY <1>1, <1>8 DEF MarkStepCompleted, InOrder
  <2>2. ShownIsStarted' /\ BullInOrder' /\ started' = started
    BY <1>2, <1>8, <2>1, SetStepShown, SameBull DEF MarkStepCompleted, Status
  <2> QED
    BY <1>2, <1>8, <2>2, GotoInOrder DEF MarkStepCompleted, Queueing
<1>9. CASE MarkJobCompleted(x)
  <2> DEFINE p == [proc[x] EXCEPT !.pc = "next", !.job = 0]
  <2>1. ShownIsStarted' /\ BullInOrder' /\ started' = started
    BY <1>9, SameShown, SameBull DEF MarkJobCompleted
  <2>2. proc' = [proc EXCEPT ![x] = p]
    BY <1>1, <1>9 DEF MarkJobCompleted, ProcState
  <2>3. p.pc = "next" /\ p.step = proc[x].step /\ p.ids = proc[x].ids
    BY <1>1 DEF ProcState
  <2> HIDE DEF p
  <2>4. InOrder(p)
    BY <1>1, <1>2, <2>3 DEF InOrder, Queueing
  <2> QED
    BY <1>1, <2>1, <2>2, <2>4, OrderKept
<1>10. CASE MarkStepFailed(x)
  <2>1. ShownIsStarted' /\ BullInOrder' /\ started' = started
    BY <1>2, <1>10, SetStepShown, SameBull DEF MarkStepFailed, Status
  <2> QED
    BY <1>2, <1>10, <2>1, GotoInOrder DEF MarkStepFailed, Queueing
<1> QED
  BY <1>3, <1>4, <1>5, <1>6, <1>7, <1>8, <1>9, <1>10 DEF ExecuteStep

LEMMA QueueInOrder ==
  ASSUME IInv, OrderInv, NEW x \in Process, QueueNext(x)
  PROVE  OrderInv'
PROOF
<1> USE DEF AtPc, history
<1>1. /\ proc \in [Process -> ProcState] /\ proc[x] \in ProcState /\ ProcOK(x)
      /\ Ids \subseteq 1..N /\ 0 \notin Ids /\ InOrder(proc[x])
  BY Facts DEF OrderInv
<1>2. CASE FindNext(x)
  <2>1. ShownIsStarted' /\ BullInOrder' /\ started' = started
    BY <1>2, SameShown, SameBull DEF FindNext
  <2>2. ASSUME NEW i \in NextPending(proc[x].ids),
               proc' = [proc EXCEPT ![x].pc = "createJob", ![x].next = i]
        PROVE  OrderInv'
    <3> DEFINE p == [proc[x] EXCEPT !.pc = "createJob", !.next = i]
    <3>1. StartedBelow(i, proc[x].ids)
      <4>1. proc[x].ids \in SUBSET (1..N)
        BY <1>1 DEF ProcState
      <4> QED
        BY <2>2, <4>1, NextPendingInOrder
    <3>2. proc' = [proc EXCEPT ![x] = p]
      BY <1>1, <2>2 DEF ProcState
    <3>3. p.pc = "createJob" /\ p.step = proc[x].step /\ p.next = i /\ p.ids = proc[x].ids
      BY <1>1 DEF ProcState
    <3>4. proc[x].pc = "next"
      BY <1>2 DEF FindNext
    <3> HIDE DEF p
    <3>5. InOrder(p)
      BY <1>1, <3>1, <3>3, <3>4 DEF InOrder
    <3> QED
      BY <1>1, <2>1, <3>2, <3>5, OrderKept
  <2> QED
    BY <1>2, <2>1, <2>2, DoneInOrder DEF FindNext
<1>3. CASE CreateJob(x) \/ LinkJob(x)
  <2>1. BullInOrder' /\ started' = started
    BY <1>3, SameBull DEF CreateJob, LinkJob
  <2>2. proc[x].pc \in Queueing /\ proc[x].next \in Ids
    BY <1>1, <1>3 DEF CreateJob, LinkJob, Queueing, ProcOK, Fits
  <2>3. ShownIsStarted'
    <3>1. CASE CreateJob(x)
      BY <2>1, <3>1, SameShown DEF CreateJob
    <3>2. CASE LinkJob(x)
      <4> DEFINE i == proc[x].next
                 row == [steps[i] EXCEPT !.job = proc[x].job]
      <4>1. steps \in Seq(StepRow) /\ Ids = 1..Len(steps) /\ i \in Ids
        BY <2>2 DEF IInv, StepsOK, Ids
      <4>2. steps[i] \in StepRow
        BY <4>1
      <4>3. row.status = steps[i].status
        BY <4>2 DEF StepRow
      <4>4. steps' = [steps EXCEPT ![i] = row]
        BY <3>2 DEF LinkJob
      <4> HIDE DEF row
      <4>5. Ids' = Ids /\ \A k \in Ids : steps'[k] = IF k = i THEN row ELSE steps[k]
        BY <4>1, <4>4 DEF Ids
      <4> QED
        BY <2>1, <4>3, <4>5 DEF OrderInv, ShownIsStarted
    <3> QED
      BY <1>3, <3>1, <3>2
  <2>4. ASSUME NEW p, proc' = [proc EXCEPT ![x] = p], p.pc \in Queueing,
               p.step = proc[x].step, p.next = proc[x].next, p.ids = proc[x].ids
        PROVE  OrderInv'
    <3>1. InOrder(p)
      BY <1>1, <2>2, <2>4 DEF InOrder, Queueing
    <3> QED
      BY <1>1, <2>1, <2>3, <2>4, <3>1, OrderKept
  <2>5. CASE CreateJob(x)
    <3> DEFINE p == [proc[x] EXCEPT !.pc = "linkJob", !.job = Len(jobs')]
    <3>1. proc' = [proc EXCEPT ![x] = p]
      BY <1>1, <2>5 DEF CreateJob, ProcState
    <3>2. /\ p.pc = "linkJob" /\ p.step = proc[x].step /\ p.next = proc[x].next
          /\ p.ids = proc[x].ids
      BY <1>1 DEF ProcState
    <3>3. \A y \in Process : proc'[y] = IF y = x THEN p ELSE proc[y]
      BY <1>1, <3>1
    <3> HIDE DEF p
    <3>4. \A y \in Process : InOrder(proc[y])'
      BY <1>1, <2>1, <2>2, <3>2, <3>3 DEF OrderInv, InOrder, StartedBelow, Queueing
    <3> QED
      BY <2>1, <2>3, <3>4 DEF OrderInv
  <2>6. CASE LinkJob(x)
    <3> DEFINE p == [proc[x] EXCEPT !.pc = "enqueue"]
    <3>1. proc' = [proc EXCEPT ![x] = p]
      BY <1>1, <2>6 DEF LinkJob, Goto
    <3>2. /\ p.pc = "enqueue" /\ p.step = proc[x].step /\ p.next = proc[x].next
          /\ p.ids = proc[x].ids
      BY <1>1 DEF ProcState
    <3> HIDE DEF p
    <3> QED
      BY <2>4, <3>1, <3>2 DEF Queueing
  <2> QED
    BY <1>3, <2>5, <2>6
<1>4. CASE QueueJobInBull(x)
  <2> DEFINE entry == [step |-> proc[x].next, job |-> proc[x].job, ids |-> proc[x].ids,
                    stalls |-> 0]
  <2>1. StartedBelow(proc[x].next, proc[x].ids) /\ started' = started
    BY <1>1, <1>4 DEF QueueJobInBull, InOrder, Queueing
  <2>2. ShownIsStarted'
    BY <1>4, <2>1, SameShown DEF QueueJobInBull
  <2>3. bull \in Seq(BullJob) /\ bull' = Append(bull, entry)
    BY <1>4 DEF QueueJobInBull, IInv, BullOK
  <2>4. \A k \in DOMAIN bull' : (k \in DOMAIN bull /\ bull'[k] = bull[k]) \/ bull'[k] = entry
    BY <2>3
  <2>5. BullInOrder'
    BY <2>1, <2>4 DEF OrderInv, BullInOrder, StartedBelow
  <2> QED
    BY <1>4, <2>1, <2>2, <2>5, DoneInOrder DEF QueueJobInBull
<1> QED
  BY <1>2, <1>3, <1>4 DEF QueueNext

LEMMA WorkerInOrder ==
  ASSUME IInv, OrderInv, ProcessStepJob \/ WorkerFailsJob \/ WorkerFailsStep
  PROVE  OrderInv'
PROOF
<1> USE DEF AtPc, Step, history
<1>1. Worker \in Process
  BY DEF Process
<1>2. /\ proc \in [Process -> ProcState] /\ proc[Worker] \in ProcState /\ ProcOK(Worker)
      /\ InOrder(proc[Worker])
  BY <1>1, Facts DEF OrderInv
<1>3. CASE ProcessStepJob
  <2> DEFINE head == Head(bull)
             p == [Idle EXCEPT !.pc = "execute", !.step = head.step, !.ids = head.ids,
                               !.bullJob = head.job, !.stalls = head.stalls]
  <2>1. started' = started /\ steps' = steps /\ bull' = Tail(bull) /\ bull # <<>>
    BY <1>3 DEF ProcessStepJob
  <2>2. bull \in Seq(BullJob)
    BY DEF IInv, BullOK
  <2>3. /\ head = bull[1] /\ 1 \in DOMAIN bull
        /\ \A k \in DOMAIN bull' : k + 1 \in DOMAIN bull /\ bull'[k] = bull[k + 1]
    BY <2>1, <2>2
  <2>4. StartedBelow(head.step, head.ids) /\ BullInOrder'
    BY <2>1, <2>3 DEF OrderInv, BullInOrder, StartedBelow
  <2>5. proc' = [proc EXCEPT ![Worker] = p]
    BY <1>3 DEF ProcessStepJob
  <2>6. p.pc = "execute" /\ p.step = head.step /\ p.ids = head.ids
    BY DEF Idle
  <2> HIDE DEF p, head
  <2>7. InOrder(p)
    BY <2>4, <2>6 DEF InOrder, Queueing
  <2> QED
    BY <1>1, <1>2, <2>1, <2>4, <2>5, <2>7, SameShown, OrderKept
<1>4. CASE WorkerFailsJob
  BY <1>1, <1>4, SameShown, SameBull, GotoInOrder DEF WorkerFailsJob, Queueing
<1>5. CASE WorkerFailsStep
  <2>1. proc[Worker].step \in Ids
    BY <1>2, <1>5 DEF WorkerFailsStep, ProcOK, Fits
  <2>2. ShownIsStarted' /\ BullInOrder' /\ started' = started
    BY <1>5, <2>1, SetStepShown, SameBull DEF WorkerFailsStep, Status
  <2> QED
    BY <1>1, <1>5, <2>2, DoneInOrder DEF WorkerFailsStep
<1> QED
  BY <1>3, <1>4, <1>5

LEMMA RequestInOrder ==
  ASSUME IInv, OrderInv, NEW r \in Request,
         \/ CreateStepSequence(r) \/ CreateStep(r)
         \/ ProcessNextStep(r) \/ ResetStep(r) \/ FindStep(r)
         \/ \E i \in Ids : RetryStep(r, i)
  PROVE  OrderInv'
PROOF
<1> USE DEF AtPc, Step, history
<1>1. r \in Process /\ r # Worker
  BY WorkerAssumption DEF Process
<1>2. /\ proc \in [Process -> ProcState] /\ proc[r] \in ProcState /\ ProcOK(r)
      /\ Idle \in ProcState
  BY <1>1, Facts, IdleFits
<1>3. CASE CreateStepSequence(r)
  BY <1>1, <1>3, SameShown, SameBull, GotoInOrder DEF CreateStepSequence, Queueing
<1>4. CASE CreateStep(r)
  <2> DEFINE pc == IF Len(steps) + 1 = N THEN "next" ELSE "createSteps"
             p == [proc[r] EXCEPT !.pc = pc, !.ids = DOMAIN steps']
  <2>1. PICK h \in Handled :
          steps' = Append(steps, [status |-> "PENDING", job |-> 0, handled |-> h])
    BY <1>4 DEF CreateStep
  <2>2. \A k \in Ids' : (k \in Ids /\ steps'[k] = steps[k]) \/ steps'[k].status = "PENDING"
    BY <2>1 DEF IInv, StepsOK, Ids
  <2>3. started' = started /\ BullInOrder'
    BY <1>4, SameBull DEF CreateStep
  <2>4. ShownIsStarted'
    BY <2>2, <2>3 DEF OrderInv, ShownIsStarted
  <2>5. proc' = [proc EXCEPT ![r] = p]
    BY <1>2, <1>4 DEF CreateStep, ProcState
  <2>6. p.pc = pc /\ p.step = proc[r].step /\ p.ids \subseteq Nat
    <3>1. DOMAIN steps' \subseteq Nat
      BY <2>1 DEF IInv, StepsOK
    <3> QED
      BY <1>2, <3>1 DEF ProcState
  <2>7. proc[r].step = 0
    BY <1>1, <1>4 DEF CreateStep, OrderInv, InOrder
  <2>8. pc \in {"next", "createSteps"}
    OBVIOUS
  <2> HIDE DEF p, pc
  <2>9. InOrder(p)
    BY <2>6, <2>7, <2>8 DEF InOrder, Queueing, StartedBelow
  <2> QED
    BY <1>1, <1>2, <2>3, <2>4, <2>5, <2>9, OrderKept
<1>5. CASE ResetStep(r)
  <2>1. proc[r].step \in Ids
    BY <1>2, <1>5 DEF ResetStep, ProcOK, Fits, Executing
  <2>2. ShownIsStarted' /\ BullInOrder' /\ started' = started
    BY <1>5, <2>1, SetStepShown, SameBull DEF ResetStep, Status
  <2> QED
    BY <1>1, <1>5, <2>2, GotoInOrder DEF ResetStep, Queueing
<1>6. ASSUME NEW i, NEW s \in ProcState, NEW pc \in {"execute", "reset"}, NEW d,
             StartedBelow(i, d), UNCHANGED <<steps, bull, started>>,
             proc' = [proc EXCEPT ![r] = [s EXCEPT !.pc = pc, !.step = i, !.ids = d]]
      PROVE  OrderInv'
  <2> DEFINE p == [s EXCEPT !.pc = pc, !.step = i, !.ids = d]
  <2>1. p.pc = pc /\ p.step = i /\ p.ids = d
    BY <1>6 DEF ProcState
  <2>2. proc' = [proc EXCEPT ![r] = p]
    BY <1>6
  <2> HIDE DEF p
  <2>3. InOrder(p)
    BY <1>1, <1>6, <2>1 DEF InOrder, Queueing
  <2> QED
    BY <1>1, <1>2, <1>6, <2>2, <2>3, SameShown, SameBull, OrderKept
<1>7. CASE ProcessNextStep(r)
  <2>1. PICK ids \in Lists : \E i \in NextPending(ids) :
          proc' = [proc EXCEPT ![r] = [Idle EXCEPT !.pc = "execute", !.step = i, !.ids = ids]]
    BY <1>7 DEF ProcessNextStep
  <2>2. PICK i \in NextPending(ids) :
          proc' = [proc EXCEPT ![r] = [Idle EXCEPT !.pc = "execute", !.step = i, !.ids = ids]]
    BY <2>1
  <2>3. StartedBelow(i, ids)
    BY <2>2, ListsAssumption, NextPendingInOrder
  <2> QED
    BY <1>2, <1>6, <1>7, <2>2, <2>3 DEF ProcessNextStep
<1>8. CASE \E i \in Ids : RetryStep(r, i)
  <2>1. PICK i \in Ids : RetryStep(r, i)
    BY <1>8
  <2>2. proc' = [proc EXCEPT ![r] = [Idle EXCEPT !.pc = "reset", !.step = i, !.ids = {}]]
    BY <2>1, IdleListless DEF RetryStep
  <2>3. StartedBelow(i, {})
    BY DEF StartedBelow
  <2> QED
    BY <1>2, <1>6, <2>1, <2>2, <2>3 DEF RetryStep
<1>9. CASE FindStep(r)
  <2>1. ASSUME NEW i \in NextPending(Ids),
               proc' = [proc EXCEPT ![r].pc = "execute", ![r].step = i, ![r].ids = Ids]
        PROVE  OrderInv'
    <3>1. proc' = [proc EXCEPT ![r] = [proc[r] EXCEPT !.pc = "execute", !.step = i, !.ids = Ids]]
      BY <1>1, <1>2, <2>1 DEF ProcState
    <3>2. StartedBelow(i, Ids)
      <4>1. Ids \in SUBSET (1..N)
        BY <1>1, Facts
      <4> QED
        BY <2>1, <4>1, NextPendingInOrder
    <3> QED
      BY <1>2, <1>6, <1>9, <3>1, <3>2 DEF FindStep
  <2>2. CASE Done(r)
    BY <1>1, <1>9, <2>2, SameShown, SameBull, DoneInOrder DEF FindStep
  <2> QED
    BY <1>9, <2>1, <2>2 DEF FindStep
<1> QED
  BY <1>3, <1>4, <1>5, <1>7, <1>8, <1>9

LEMMA FailureInOrder ==
  ASSUME IInv, OrderInv,
         (\E x \in Process : DatabaseFault(x) \/ BullFault(x)) \/ Restart
  PROVE  OrderInv'
PROOF
<1> USE DEF AtPc, Step
<1>1. ASSUME NEW x \in Process, DatabaseFault(x) \/ BullFault(x)
      PROVE  OrderInv'
  <2>1. ShownIsStarted' /\ BullInOrder' /\ started' = started
    BY <1>1, SameShown, SameBull DEF DatabaseFault, BullFault
  <2>3. Done(x) \/ Throw(x) \/ Goto(x, "workerFailJob")
    BY <1>1 DEF DatabaseFault, BullFault
  <2>4. "workerFailJob" \notin Queueing \union
          {"idle", "createSteps", "findJob", "jobProcessing", "handler", "complete"}
    BY DEF Queueing
  <2> QED
    BY <2>1, <2>3, <2>4, DoneInOrder, ThrowInOrder, GotoInOrder
<1>2. CASE Restart
  <2> DEFINE w == proc[Worker]
             entry == [step |-> w.step, job |-> w.bullJob, ids |-> w.ids, stalls |-> 1]
  <2>1. started' = started /\ steps' = steps /\ proc' = [x \in Process |-> Idle]
    BY <1>2 DEF Restart
  <2>2. Worker \in Process /\ bull \in Seq(BullJob)
    BY DEF Process, IInv, BullOK
  <2>3. StartedBelow(w.step, w.ids)
    BY <2>2 DEF OrderInv, InOrder
  <2>4. CASE bull' = bull
    BY <2>1, <2>4, SameBull, SameShown, IdleInOrder
    DEF OrderInv, InOrder, Idle, Queueing, StartedBelow
  <2>5. CASE w.pc # "idle" /\ bull' = <<entry>> \o bull
    <3>1. \A k \in DOMAIN bull' : bull'[k] = entry \/ \E n \in DOMAIN bull : bull'[k] = bull[n]
      <4> DEFINE S == BullJob \union {entry}
      <4> HIDE DEF entry
      <4>1. entry \in S /\ bull \in Seq(S)
        BY <2>2
      <4> HIDE DEF S
      <4> QED
        BY <2>5, <4>1, PutInFront
    <3>2. entry.step = w.step /\ entry.ids = w.ids
      OBVIOUS
    <3>3. BullInOrder'
      <4> HIDE DEF entry, w
      <4> QED
        BY <2>1, <2>3, <2>5, <3>1, <3>2 DEF OrderInv, BullInOrder, StartedBelow
    <3>4. \A x \in Process : InOrder(proc[x])'
      BY <2>1 DEF InOrder, Idle, Queueing, StartedBelow
    <3> QED
      BY <2>1, <3>3, <3>4, SameShown DEF OrderInv
  <2> QED
    BY <1>2, <2>4, <2>5 DEF Restart
<1> QED
  BY <1>1, <1>2

LEMMA NextInOrder == IInv /\ OrderInv /\ [Next]_vars => OrderInv'
PROOF
<1> SUFFICES ASSUME IInv, OrderInv, [Next]_vars PROVE OrderInv'
  OBVIOUS
<1>1. CASE WorkerStep
  <2>1. Worker \in Process
    BY DEF Process
  <2> QED
    BY <1>1, <2>1, WorkerInOrder, ExecuteInOrder, QueueInOrder DEF WorkerStep, ServerStep
<1>2. ASSUME NEW r \in Request,
             \/ RequestStep(r) \/ CreateStepSequence(r) \/ ProcessNextStep(r)
             \/ \E i \in Ids : RetryStep(r, i)
      PROVE  OrderInv'
  <2>1. r \in Process
    BY DEF Process
  <2> QED
    BY <1>2, <2>1, RequestInOrder, ExecuteInOrder, QueueInOrder DEF RequestStep, ServerStep
<1>3. CASE (\E x \in Process : DatabaseFault(x) \/ BullFault(x)) \/ Restart
  BY <1>3, FailureInOrder
<1>4. CASE UNCHANGED vars
  <2>1. UNCHANGED <<steps, bull, proc, started>>
    BY <1>4 DEF vars
  <2> QED
    BY <2>1 DEF OrderInv, ShownIsStarted, BullInOrder, InOrder, StartedBelow, Ids
<1> QED
  BY <1>1, <1>2, <1>3, <1>4 DEF Next

(* However many requests retry and process steps while the processor runs, *)
(* whatever lists they name, whatever fails and whenever Node restarts, a  *)
(* step is executed only after every earlier step of the list of its       *)
(* execution was started.                                                  *)
THEOREM StepsStartInOrder == Spec => []ListsRunInOrder
PROOF
<1>1. OrderInv => ListsRunInOrder
  BY DEF OrderInv, ListsRunInOrder, InOrder, StartedBelow, Step
<1> QED
  BY <1>1, Inductive, InitOrder, NextInOrder, PTL DEF Spec

-----------------------------------------------------------------------------
(* What the actions do to the variables of processes and the statuses. *)

OthersSame(x) == \A y \in Process : y # x => proc'[y] = proc[y]
\* x goes on with the same step.
GoesTo(x, pc) ==
  /\ OthersSame(x)
  /\ proc'[x].pc = pc /\ proc'[x].step = proc[x].step /\ proc'[x].next = proc[x].next
  /\ proc'[x].ids = proc[x].ids
Stops(x) == OthersSame(x) /\ proc'[x] = Idle

LEMMA GotoGoes ==
  ASSUME IInv, NEW x \in Process, NEW pc, Goto(x, pc)
  PROVE  GoesTo(x, pc)
BY Facts DEF Goto, GoesTo, OthersSame, ProcState

LEMMA ThrowGoes ==
  ASSUME IInv, NEW x \in Process, Throw(x)
  PROVE  /\ OthersSame(x)
         /\ proc'[x].pc = "failStep" /\ proc'[x].step = proc[x].step
         /\ proc'[x].ids = proc[x].ids
BY Facts DEF Throw, OthersSame, ProcState

LEMMA DoneStops ==
  ASSUME IInv, NEW x \in Process, Done(x)
  PROVE  Stops(x)
BY Facts DEF Done, Stops, OthersSame

SameStatus ==
  /\ Ids' = Ids /\ Len(steps') = Len(steps)
  /\ \A i \in Ids : steps'[i].status = steps[i].status

LEMMA StepsSame == ASSUME steps' = steps PROVE SameStatus
BY DEF SameStatus, Ids

LEMMA LinkJobStatus ==
  ASSUME IInv, NEW x \in Process, LinkJob(x)
  PROVE  SameStatus
PROOF
<1> DEFINE i == proc[x].next
           row == [steps[i] EXCEPT !.job = proc[x].job]
<1>1. i \in Ids /\ Ids = 1..Len(steps) /\ steps[i] \in StepRow /\ proc[x].job \in Nat
  <2>1. proc[x] \in ProcState /\ ProcOK(x)
    BY Facts
  <2>2. i \in Ids
    BY <2>1 DEF LinkJob, AtPc, ProcOK, Fits, Queueing
  <2> QED
    BY <2>1, <2>2 DEF IInv, StepsOK, Ids, ProcState
<1>2. row \in StepRow /\ row.status = steps[i].status
  BY <1>1 DEF StepRow
<1>3. steps' = [steps EXCEPT ![i] = row]
  BY DEF LinkJob
<1> HIDE DEF row
<1>4. steps' \in Seq(StepRow) /\ Len(steps') = Len(steps)
  BY <1>1, <1>2, <1>3, ExceptSeq DEF IInv, StepsOK
<1>5. Ids' = Ids
  BY <1>1, <1>4 DEF Ids
<1>6. \A k \in Ids : steps'[k] = IF k = i THEN row ELSE steps[k]
  BY <1>1, <1>2, <1>3 DEF IInv, StepsOK
<1> QED
  BY <1>2, <1>4, <1>5, <1>6 DEF SameStatus

LEMMA CreateStepStatus ==
  ASSUME IInv, NEW r \in Request, CreateStep(r)
  PROVE  /\ Ids = 1..Len(steps) /\ Len(steps) \in Nat /\ Len(steps) < N
         /\ Len(steps') = Len(steps) + 1 /\ Ids' = 1..(Len(steps) + 1)
         /\ \A i \in Ids : steps'[i].status = steps[i].status
         /\ steps'[Len(steps) + 1].status = "PENDING"
PROOF
<1> DEFINE new(h) == [status |-> "PENDING", job |-> 0, handled |-> h]
<1>1. PICK h \in Handled : steps' = Append(steps, new(h))
  BY DEF CreateStep
<1>2. new(h) \in StepRow /\ new(h).status = "PENDING"
  BY StepsAssumption DEF StepRow, Status
<1>3. /\ steps' \in Seq(StepRow) /\ Len(steps') = Len(steps) + 1
      /\ \A k \in 1..Len(steps) : steps'[k] = steps[k]
      /\ steps'[Len(steps) + 1] = new(h)
  BY <1>1, <1>2, AppendProperties DEF IInv, StepsOK
<1>4. Ids = 1..Len(steps) /\ Ids' = 1..(Len(steps) + 1) /\ Len(steps) \in Nat
  BY <1>3 DEF IInv, StepsOK, Ids
<1>5. Len(steps) < N
  <2>1. r \in Process
    BY DEF Process
  <2> QED
    BY <2>1, Facts DEF CreateStep, AtPc, ProcOK
<1> HIDE DEF new
<1> QED
  BY <1>2, <1>3, <1>4, <1>5

\* x's step and list stay while its place in the code changes.
Turns(x, from, to) ==
  /\ proc[x].pc = from /\ proc'[x].pc = to
  /\ proc'[x].step = proc[x].step /\ proc'[x].ids = proc[x].ids
Ends(x, from) == proc[x].pc = from /\ proc'[x] = Idle
Sets(i, status) ==
  /\ i \in Ids /\ Ids' = Ids /\ Len(steps') = Len(steps)
  /\ \A k \in Ids : steps'[k].status = IF k = i THEN status ELSE steps[k].status

LEMMA SetStepSets ==
  ASSUME IInv, NEW i \in Ids, NEW status \in Status, SetStep(i, status)
  PROVE  Sets(i, status)
BY SetStepChanges DEF IInv, Sets

LEMMA ExecuteMoves ==
  ASSUME IInv, NEW x \in Process, ExecuteStep(x)
  PROVE  /\ OthersSame(x) /\ bull' = bull /\ Step(x) \in Ids
         /\ \/ Sets(Step(x), "FAILED") /\ Ends(x, "execute")
            \/ Sets(Step(x), "PROCESSING") /\ Turns(x, "execute", "findJob")
            \/ Sets(Step(x), "COMPLETED") /\ Turns(x, "complete", "jobCompleted")
            \/ Sets(Step(x), "FAILED") /\ Turns(x, "failStep", "failFindJob")
            \/ /\ SameStatus
               /\ \/ Turns(x, "findJob", "jobProcessing") \/ Turns(x, "findJob", "failStep")
                  \/ Turns(x, "jobProcessing", "handler")
                  \/ Turns(x, "handler", "complete") \/ Turns(x, "handler", "failStep")
                  \/ Turns(x, "jobCompleted", "next")
                  \/ Turns(x, "failFindJob", "failJob")
                  \/ Ends(x, "failFindJob") \/ Ends(x, "failJob")
PROOF
<1> USE DEF AtPc, Turns, Ends
<1>1. proc \in [Process -> ProcState] /\ proc[x] \in ProcState /\ ProcOK(x)
  BY Facts
<1>2. Step(x) \in Ids
  BY <1>1 DEF ExecuteStep, ProcOK, Fits, Executing, MarkUnhandled, MarkStepProcessing, FindJob,
     MarkJobProcessing, HandlerSucceeds, HandlerFails, MarkStepCompleted, MarkJobCompleted,
     MarkStepFailed, FindFailedJob, MarkJobFailed, Step
<1>3. CASE MarkUnhandled(x)
  <2>1. Sets(Step(x), "FAILED")
    BY <1>2, <1>3, SetStepSets DEF MarkUnhandled, Status
  <2> QED
    BY <1>2, <1>3, <2>1, DoneStops DEF MarkUnhandled, Stops
<1>4. CASE MarkStepProcessing(x)
  <2>1. Sets(Step(x), "PROCESSING")
    BY <1>2, <1>4, SetStepSets DEF MarkStepProcessing, Status
  <2> QED
    BY <1>2, <1>4, <2>1, GotoGoes DEF MarkStepProcessing, GoesTo
<1>5. CASE FindJob(x)
  <2>1. CASE Throw(x)
    BY <1>2, <1>5, <2>1, ThrowGoes, StepsSame DEF FindJob
  <2>2. CASE ~Throw(x)
    <3>1. /\ OthersSame(x) /\ proc'[x].pc = "jobProcessing" /\ proc'[x].step = proc[x].step
          /\ proc'[x].ids = proc[x].ids
      BY <1>1, <1>5, <2>2 DEF FindJob, OthersSame, ProcState
    <3> QED
      BY <1>2, <1>5, <3>1, StepsSame DEF FindJob
  <2> QED
    BY <2>1, <2>2
<1>6. CASE MarkJobProcessing(x)
  BY <1>2, <1>6, GotoGoes, StepsSame DEF MarkJobProcessing, GoesTo
<1>7. CASE HandlerSucceeds(x)
  BY <1>2, <1>7, GotoGoes, StepsSame DEF HandlerSucceeds, GoesTo
<1>8. CASE HandlerFails(x)
  BY <1>2, <1>8, ThrowGoes, StepsSame DEF HandlerFails
<1>9. CASE MarkStepCompleted(x)
  <2>1. Sets(Step(x), "COMPLETED")
    BY <1>2, <1>9, SetStepSets DEF MarkStepCompleted, Status
  <2> QED
    BY <1>2, <1>9, <2>1, GotoGoes DEF MarkStepCompleted, GoesTo
<1>10. CASE MarkJobCompleted(x)
  <2>1. /\ OthersSame(x) /\ proc'[x].pc = "next" /\ proc'[x].step = proc[x].step
        /\ proc'[x].ids = proc[x].ids
    BY <1>1, <1>10 DEF MarkJobCompleted, OthersSame, ProcState
  <2> QED
    BY <1>2, <1>10, <2>1, StepsSame DEF MarkJobCompleted
<1>11. CASE MarkStepFailed(x)
  <2>1. Sets(Step(x), "FAILED")
    BY <1>2, <1>11, SetStepSets DEF MarkStepFailed, Status
  <2> QED
    BY <1>2, <1>11, <2>1, GotoGoes DEF MarkStepFailed, GoesTo
<1>12. CASE FindFailedJob(x)
  <2>1. CASE Done(x)
    BY <1>2, <1>12, <2>1, DoneStops, StepsSame DEF FindFailedJob, Stops
  <2>2. CASE ~Done(x)
    <3>1. /\ OthersSame(x) /\ proc'[x].pc = "failJob" /\ proc'[x].step = proc[x].step
          /\ proc'[x].ids = proc[x].ids
      BY <1>1, <1>12, <2>2 DEF FindFailedJob, OthersSame, ProcState
    <3> QED
      BY <1>2, <1>12, <3>1, StepsSame DEF FindFailedJob
  <2> QED
    BY <2>1, <2>2
<1>13. CASE MarkJobFailed(x)
  BY <1>2, <1>13, DoneStops, StepsSame DEF MarkJobFailed, Stops
<1> QED
  BY <1>3, <1>4, <1>5, <1>6, <1>7, <1>8, <1>9, <1>10, <1>11, <1>12, <1>13 DEF ExecuteStep

LEMMA QueueMoves ==
  ASSUME IInv, NEW x \in Process, QueueNext(x)
  PROVE  /\ OthersSame(x) /\ SameStatus
         /\ \/ /\ bull' = bull
               /\ \/ Ends(x, "next") /\ NextPending(proc[x].ids) = {}
                  \/ Turns(x, "next", "createJob") /\ proc'[x].next \in NextPending(proc[x].ids)
                  \/ Turns(x, "createJob", "linkJob") /\ proc'[x].next = proc[x].next
                  \/ Turns(x, "linkJob", "enqueue") /\ proc'[x].next = proc[x].next
            \/ /\ Ends(x, "enqueue")
               /\ bull' = Append(bull, [step |-> proc[x].next, job |-> proc[x].job,
                                        ids |-> proc[x].ids, stalls |-> 0])
PROOF
<1> USE DEF AtPc, Turns, Ends
<1>1. proc \in [Process -> ProcState] /\ proc[x] \in ProcState
  BY Facts
<1>2. CASE FindNext(x)
  <2>1. CASE Done(x) /\ NextPending(proc[x].ids) = {}
    BY <1>2, <2>1, DoneStops, StepsSame DEF FindNext, Stops
  <2>2. ASSUME NEW i \in NextPending(proc[x].ids),
               proc' = [proc EXCEPT ![x].pc = "createJob", ![x].next = i]
        PROVE  /\ OthersSame(x) /\ proc'[x].pc = "createJob" /\ proc'[x].step = proc[x].step
               /\ proc'[x].next \in NextPending(proc[x].ids) /\ proc'[x].ids = proc[x].ids
    BY <1>1, <2>2 DEF OthersSame, ProcState
  <2> QED
    BY <1>2, <2>1, <2>2, StepsSame DEF FindNext
<1>3. CASE CreateJob(x)
  <2>1. /\ OthersSame(x) /\ proc'[x].pc = "linkJob" /\ proc'[x].step = proc[x].step
        /\ proc'[x].next = proc[x].next /\ proc'[x].ids = proc[x].ids
    BY <1>1, <1>3 DEF CreateJob, OthersSame, ProcState
  <2> QED
    BY <1>3, <2>1, StepsSame DEF CreateJob
<1>4. CASE LinkJob(x)
  BY <1>4, LinkJobStatus, GotoGoes DEF LinkJob, GoesTo
<1>5. CASE QueueJobInBull(x)
  BY <1>5, DoneStops, StepsSame DEF QueueJobInBull, Stops
<1> QED
  BY <1>2, <1>3, <1>4, <1>5 DEF QueueNext

LEMMA WorkerMoves ==
  ASSUME IInv, ProcessStepJob \/ WorkerFailsJob \/ WorkerFailsStep
  PROVE  /\ OthersSame(Worker)
         /\ \/ /\ SameStatus /\ bull # <<>> /\ bull' = Tail(bull)
               /\ proc[Worker].pc = "idle" /\ proc'[Worker].pc = "execute"
               /\ proc'[Worker].step = Head(bull).step /\ proc'[Worker].ids = Head(bull).ids
            \/ bull' = bull /\ SameStatus /\ Turns(Worker, "workerFailJob", "workerFailStep")
            \/ bull' = bull /\ Sets(Step(Worker), "FAILED") /\ Ends(Worker, "workerFailStep")
PROOF
<1> USE DEF AtPc, Turns, Ends
<1>1. /\ Worker \in Process /\ proc \in [Process -> ProcState]
      /\ proc[Worker] \in ProcState /\ ProcOK(Worker)
  BY Facts DEF Process
<1>2. CASE ProcessStepJob
  <2>1. /\ OthersSame(Worker) /\ proc'[Worker].pc = "execute"
        /\ proc'[Worker].step = Head(bull).step /\ proc'[Worker].ids = Head(bull).ids
    BY <1>1, <1>2 DEF ProcessStepJob, OthersSame, Idle
  <2> QED
    BY <1>2, <2>1, StepsSame DEF ProcessStepJob
<1>3. CASE WorkerFailsJob
  BY <1>1, <1>3, GotoGoes, StepsSame DEF WorkerFailsJob, GoesTo
<1>4. CASE WorkerFailsStep
  <2>1. Step(Worker) \in Ids
    BY <1>1, <1>4 DEF WorkerFailsStep, ProcOK, Fits, Executing, Step
  <2>2. Sets(Step(Worker), "FAILED")
    BY <1>4, <2>1, SetStepSets DEF WorkerFailsStep, Status
  <2> QED
    BY <1>1, <1>4, <2>2, DoneStops DEF WorkerFailsStep, Stops
<1> QED
  BY <1>2, <1>3, <1>4

LEMMA RequestMoves ==
  ASSUME IInv, NEW r \in Request,
         \/ ProcessNextStep(r) \/ ResetStep(r) \/ FindStep(r) \/ CreateStepSequence(r)
         \/ \E i \in Ids : RetryStep(r, i)
  PROVE  /\ OthersSame(r) /\ bull' = bull
         /\ \/ Sets(Step(r), "PENDING") /\ Turns(r, "reset", "find")
            \/ /\ SameStatus
               /\ \/ /\ steps = <<>> /\ Turns(r, "idle", "createSteps")
                  \/ /\ proc[r].pc = "idle" /\ proc'[r].pc = "reset"
                     /\ proc'[r].step \in Ids /\ steps[proc'[r].step].status = "FAILED"
                  \/ /\ Lists # {} /\ proc[r].pc = "idle" /\ proc'[r].pc = "execute"
                     /\ proc'[r].ids \in Lists /\ proc'[r].step \in NextPending(proc'[r].ids)
                  \/ /\ proc[r].pc = "find" /\ proc'[r].pc = "execute"
                     /\ proc'[r].step \in NextPending(Ids) /\ proc'[r].ids = Ids
                  \/ Ends(r, "find") /\ NextPending(Ids) = {}
PROOF
<1> USE DEF AtPc, Turns, Ends
<1>1. /\ r \in Process /\ proc \in [Process -> ProcState]
      /\ proc[r] \in ProcState /\ ProcOK(r)
  BY Facts DEF Process
<1>2. CASE ProcessNextStep(r)
  <2>1. PICK ids \in Lists : \E i \in NextPending(ids) :
          proc' = [proc EXCEPT ![r] = [Idle EXCEPT !.pc = "execute", !.step = i, !.ids = ids]]
    BY <1>2 DEF ProcessNextStep
  <2>2. PICK i \in NextPending(ids) :
          proc' = [proc EXCEPT ![r] = [Idle EXCEPT !.pc = "execute", !.step = i, !.ids = ids]]
    BY <2>1
  <2>3. OthersSame(r) /\ proc'[r].pc = "execute" /\ proc'[r].step = i /\ proc'[r].ids = ids
    BY <1>1, <2>2 DEF OthersSame, Idle
  <2> QED
    BY <1>2, <2>3, StepsSame DEF ProcessNextStep
<1>3. CASE \E i \in Ids : RetryStep(r, i)
  <2>1. PICK i \in Ids : RetryStep(r, i)
    BY <1>3
  <2>2. OthersSame(r) /\ proc'[r].pc = "reset" /\ proc'[r].step = i
    BY <1>1, <2>1 DEF RetryStep, OthersSame, Idle
  <2> QED
    BY <2>1, <2>2, StepsSame DEF RetryStep, RetryAllowed
<1>4. CASE ResetStep(r)
  <2>1. Step(r) \in Ids
    BY <1>1, <1>4 DEF ResetStep, ProcOK, Fits, Executing, Step
  <2>2. Sets(Step(r), "PENDING")
    BY <1>4, <2>1, SetStepSets DEF ResetStep, Status
  <2> QED
    BY <1>1, <1>4, <2>2, GotoGoes DEF ResetStep, GoesTo
<1>5. CASE FindStep(r)
  <2>1. CASE Done(r) /\ NextPending(Ids) = {}
    BY <1>1, <1>5, <2>1, DoneStops, StepsSame DEF FindStep, Stops
  <2>2. ASSUME NEW i \in NextPending(Ids),
               proc' = [proc EXCEPT ![r].pc = "execute", ![r].step = i, ![r].ids = Ids]
        PROVE  /\ OthersSame(r) /\ proc'[r].pc = "execute"
               /\ proc'[r].step \in NextPending(Ids) /\ proc'[r].ids = Ids
    BY <1>1, <2>2 DEF OthersSame, ProcState
  <2> QED
    BY <1>5, <2>1, <2>2, StepsSame DEF FindStep
<1>6. CASE CreateStepSequence(r)
  BY <1>1, <1>6, GotoGoes, StepsSame DEF CreateStepSequence, GoesTo
<1> QED
  BY <1>2, <1>3, <1>4, <1>5, <1>6

LEMMA BullFaultMoves ==
  ASSUME IInv, NEW x \in Process, BullFault(x)
  PROVE  /\ OthersSame(x) /\ bull' = bull /\ SameStatus
         /\ \/ Turns(x, "enqueue", "failStep") /\ proc[x].step # 0
            \/ Ends(x, "enqueue") /\ proc[x].step = 0
PROOF
<1> USE DEF AtPc, Turns, Ends
<1>1. bull' = bull /\ SameStatus /\ proc[x].pc = "enqueue"
  BY StepsSame DEF BullFault
<1>2. CASE proc[x].step # 0
  BY <1>1, <1>2, ThrowGoes DEF BullFault, Step
<1>3. CASE proc[x].step = 0
  BY <1>1, <1>3, DoneStops DEF BullFault, Step, Stops
<1> QED
  BY <1>2, <1>3

-----------------------------------------------------------------------------
(* Who a step shown as PROCESSING is processed by.                         *)

AlivePc == {"findJob", "jobProcessing", "handler", "complete", "failStep"}

LEMMA AliveKept ==
  ASSUME ProcessingIsAlive, trouble' = trouble, NEW x \in Process, OthersSame(x),
         \A i \in Ids' : steps'[i].status = "PROCESSING" =>
           \/ proc'[x].step = i /\ proc'[x].pc \in AlivePc
           \/ /\ i \in Ids /\ steps[i].status = "PROCESSING"
              /\ ~(proc[x].step = i /\ proc[x].pc \in AlivePc)
  PROVE  ProcessingIsAlive'
PROOF
<1> SUFFICES ASSUME trouble = 0, NEW i \in Ids', steps'[i].status = "PROCESSING"
             PROVE  \E y \in Process : proc'[y].step = i /\ proc'[y].pc \in AlivePc
  BY DEF ProcessingIsAlive, Step, AlivePc
<1>1. CASE proc'[x].step = i /\ proc'[x].pc \in AlivePc
  BY <1>1
<1>2. CASE ~(proc'[x].step = i /\ proc'[x].pc \in AlivePc)
  <2>1. /\ i \in Ids /\ steps[i].status = "PROCESSING"
        /\ ~(proc[x].step = i /\ proc[x].pc \in AlivePc)
    BY <1>2
  <2>2. PICK y \in Process : proc[y].step = i /\ proc[y].pc \in AlivePc
    BY <2>1 DEF ProcessingIsAlive, Step, AlivePc
  <2>3. y # x
    BY <2>1, <2>2
  <2> QED
    BY <2>2, <2>3 DEF OthersSame
<1> QED
  BY <1>1, <1>2

LEMMA NextAlive == IInv /\ ProcessingIsAlive /\ [Next]_vars => ProcessingIsAlive'
PROOF
<1> USE DEF SameStatus, Sets, Turns, Ends, Step, AlivePc
<1> SUFFICES ASSUME IInv, ProcessingIsAlive, [Next]_vars PROVE ProcessingIsAlive'
  OBVIOUS
<1>0. Idle.pc = "idle" /\ Worker \in Process /\ \A r \in Request : r \in Process
  BY DEF Idle, Process
<1>1. ASSUME NEW x \in Process, ExecuteStep(x) PROVE ProcessingIsAlive'
  <2>1. trouble' = trouble
    BY <1>1 DEF ExecuteStep, MarkUnhandled, MarkStepProcessing, FindJob, MarkJobProcessing,
       HandlerSucceeds, HandlerFails, MarkStepCompleted, MarkJobCompleted, MarkStepFailed,
       FindFailedJob, MarkJobFailed, history, counters
  <2>2. OthersSame(x)
    BY <1>1, ExecuteMoves
  <2>3. \A i \in Ids' : steps'[i].status = "PROCESSING" =>
           \/ proc'[x].step = i /\ proc'[x].pc \in AlivePc
           \/ /\ i \in Ids /\ steps[i].status = "PROCESSING"
              /\ ~(proc[x].step = i /\ proc[x].pc \in AlivePc)
    BY <1>0, <1>1, ExecuteMoves
  <2> QED
    BY <2>1, <2>2, <2>3, AliveKept
<1>2. ASSUME NEW x \in Process, QueueNext(x) PROVE ProcessingIsAlive'
  <2>1. trouble' = trouble
    BY <1>2 DEF QueueNext, FindNext, CreateJob, LinkJob, QueueJobInBull, history, counters
  <2> QED
    BY <1>0, <1>2, <2>1, QueueMoves, AliveKept
<1>3. CASE ProcessStepJob \/ WorkerFailsJob \/ WorkerFailsStep
  <2>1. trouble' = trouble
    BY <1>3 DEF ProcessStepJob, WorkerFailsJob, WorkerFailsStep, history, counters
  <2> QED
    BY <1>0, <1>3, <2>1, WorkerMoves, AliveKept
<1>4. ASSUME NEW r \in Request,
             \/ ProcessNextStep(r) \/ ResetStep(r) \/ FindStep(r) \/ CreateStepSequence(r)
             \/ \E i \in Ids : RetryStep(r, i)
      PROVE  ProcessingIsAlive'
  <2>1. trouble' = trouble
    BY <1>4 DEF ProcessNextStep, ResetStep, FindStep, CreateStepSequence, RetryStep, history,
       counters
  <2> QED
    BY <1>0, <1>4, <2>1, RequestMoves, AliveKept
<1>5. ASSUME NEW r \in Request, CreateStep(r) PROVE ProcessingIsAlive'
  <2>1. trouble' = trouble /\ proc[r].pc = "createSteps"
    BY <1>5 DEF CreateStep, AtPc, history, counters
  <2>2. OthersSame(r)
    BY <1>0, <1>5, Facts DEF CreateStep, OthersSame
  <2>3. \A i \in Ids' : i \in Ids \/ steps'[i].status = "PENDING"
    BY <1>5, CreateStepStatus
  <2> QED
    BY <1>0, <1>5, <2>1, <2>2, <2>3, CreateStepStatus, AliveKept
<1>6. ASSUME NEW x \in Process, BullFault(x) PROVE ProcessingIsAlive'
  <2>1. trouble' = trouble
    BY <1>6 DEF BullFault
  <2> QED
    BY <1>0, <1>6, <2>1, BullFaultMoves, AliveKept
<1>7. CASE Restart \/ \E x \in Process : DatabaseFault(x)
  <2>1. trouble' = trouble + 1 /\ trouble \in Nat
    BY <1>7 DEF Restart, DatabaseFault, IInv, CountersOK
  <2> QED
    BY <2>1 DEF ProcessingIsAlive
<1>8. CASE UNCHANGED vars
  BY <1>8 DEF vars, ProcessingIsAlive, Ids
<1> QED
  BY <1>0, <1>1, <1>2, <1>3, <1>4, <1>5, <1>6, <1>7, <1>8
  DEF Next, WorkerStep, RequestStep, ServerStep

(* As long as the database answers and Node stays up, a step shown as      *)
(* PROCESSING is being processed by somebody, however many processes write *)
(* its status.                                                             *)
THEOREM ProcessingIsProcessed == Spec => []ProcessingIsAlive
PROOF
<1>1. Init => ProcessingIsAlive
  BY EmptySeq DEF Init, ProcessingIsAlive, Ids
<1> QED
  BY <1>1, Inductive, NextAlive, PTL DEF Spec

-----------------------------------------------------------------------------
(* The queue implements StepSequence, for any number of steps, with or     *)
(* without handlers, when nothing overlaps: one request at a time,         *)
(* process-next is not called, and the database answers and Node stays up  *)
(* (Bull may refuse jobs).                                                 *)

Alone == \A q, r \in Request : q = r
Undisturbed == Alone /\ Lists = {} /\ MaxTrouble = 0

(* The sequence has a front: the step whose turn it is.                    *)
Before(i) == \A j \in Ids : j < i => steps[j].status = "COMPLETED"
After(i) == \A j \in Ids : j > i => steps[j].status = "PENDING"
Front(i, status) == i \in Ids /\ Before(i) /\ After(i) /\ steps[i].status = status
AllPending == \A i \in Ids : steps[i].status = "PENDING"

(* Who acts on the sequence.  The tail of a failure only touches job rows. *)
Busy(x) == proc[x].pc \notin {"idle", "failFindJob", "failJob"}

(* Where the front is when x is at work, on the list of the whole sequence.*)
Work(x) ==
  /\ proc[x].pc \in {"execute", "find"} => Front(Step(x), "PENDING")
  /\ proc[x].pc \in {"findJob", "jobProcessing", "handler", "complete"} =>
       Front(Step(x), "PROCESSING")
  /\ proc[x].pc = "failStep" => \/ Front(Step(x), "PROCESSING")
                                \/ Front(Step(x), "COMPLETED")
  /\ proc[x].pc = "jobCompleted" => Front(Step(x), "COMPLETED")
  /\ proc[x].pc = "reset" => Front(Step(x), "FAILED")
  /\ proc[x].pc \in {"next"} \union Queueing =>
       \/ Step(x) = 0 /\ AllPending /\ Len(steps) = N
       \/ Front(Step(x), "COMPLETED")
  /\ proc[x].pc \in Queueing => proc[x].next = Step(x) + 1
  /\ proc[x].pc = "createSteps" => AllPending /\ Step(x) = 0
  /\ Busy(x) /\ proc[x].pc \notin {"reset", "find"} => proc[x].ids = Ids
  /\ proc[x].pc = "idle" => Step(x) = 0 /\ proc[x].ids = {}
  /\ proc[x].pc \notin {"workerFailJob", "workerFailStep"}
  /\ x = Worker => proc[x].pc \notin {"reset", "find", "createSteps"}

Rest == \/ AllPending
        \/ \A i \in Ids : steps[i].status = "COMPLETED"
        \/ \E i \in Ids : Front(i, "FAILED")

(* One token: the Bull job, or the one process at work.                    *)
OneToken ==
  /\ Len(bull) <= 1
  /\ bull # <<>> => \A x \in Process : ~Busy(x)
  /\ \A x, y \in Process : Busy(x) /\ Busy(y) => x = y
BullAtFront == \A k \in DOMAIN bull : Front(bull[k].step, "PENDING") /\ bull[k].ids = Ids
AtRest == bull = <<>> /\ (\A x \in Process : ~Busy(x)) => Rest

SerialInv == OneToken /\ BullAtFront /\ AtRest /\ \A x \in Process : Work(x)

-----------------------------------------------------------------------------
(* How the front moves. *)

LEMMA Numbers ==
  ASSUME IInv
  PROVE  /\ Ids = 1..Len(steps) /\ Len(steps) \in Nat /\ Len(steps) <= N /\ N \in Nat /\ N >= 1
         /\ \A i \in Ids : steps[i].status \in Status
PROOF
<1>1. Ids = 1..Len(steps) /\ Len(steps) \in Nat /\ Len(steps) <= N /\ N \in Nat /\ N >= 1
  BY StepsAssumption DEF IInv, StepsOK, Ids
<1>2. \A i \in Ids : steps[i] \in StepRow
  BY <1>1 DEF IInv, StepsOK
<1> QED
  BY <1>1, <1>2 DEF StepRow

LEMMA SameFront ==
  ASSUME SameStatus
  PROVE  /\ \A i, st : Front(i, st)' <=> Front(i, st)
         /\ AllPending' <=> AllPending
         /\ Rest' <=> Rest
         /\ Len(steps') = Len(steps) /\ Ids' = Ids
PROOF
<1>1. \A i : (Before(i)' <=> Before(i)) /\ (After(i)' <=> After(i))
  BY DEF SameStatus, Before, After
<1>2. \A i, st : Front(i, st)' <=> Front(i, st)
  BY <1>1 DEF SameStatus, Front
<1>3. AllPending' <=> AllPending
  BY DEF SameStatus, AllPending
<1>4. Rest' <=> Rest
  BY <1>2, <1>3 DEF SameStatus, Rest
<1> QED
  BY <1>2, <1>3, <1>4 DEF SameStatus

LEMMA FrontSet ==
  ASSUME IInv, NEW i, NEW st, NEW old, Front(i, old), Sets(i, st)
  PROVE  Front(i, st)' /\ Len(steps') = Len(steps) /\ Ids' = Ids
PROOF
<1>1. i \in Nat /\ Ids \subseteq Nat
  BY Numbers DEF Front
<1>2. \A j \in Ids : j # i => steps'[j].status = steps[j].status
  BY DEF Sets
<1>3. Before(i)' /\ After(i)'
  BY <1>1, <1>2 DEF Front, Before, After, Sets
<1> QED
  BY <1>3 DEF Front, Sets

\* findNextPendingStep finds the front, or the step behind a completed front.
LEMMA PendingFound ==
  ASSUME IInv, NEW i, Front(i, "PENDING")
  PROVE  NextPending(Ids) = {i}
PROOF
<1>1. Ids = 1..Len(steps) /\ Len(steps) \in Nat
  BY Numbers
<1>2. i \in NextPending(Ids)
  BY <1>1 DEF Front, Before, NextPending
<1>3. ASSUME NEW k \in NextPending(Ids) PROVE k = i
  <2>1. k \in Ids /\ steps[k].status = "PENDING"
        /\ \A j \in Ids : j < k => steps[j].status \notin {"PENDING", "FAILED"}
    BY <1>3 DEF NextPending
  <2>2. ~(k < i)
    BY <2>1 DEF Front, Before
  <2>3. ~(i < k)
    <3>1. SUFFICES ASSUME i < k PROVE FALSE
      OBVIOUS
    <3> QED
      BY <2>1, <3>1 DEF Front
  <2> QED
    BY <1>1, <2>1, <2>2, <2>3 DEF Front
<1> QED
  BY <1>2, <1>3

LEMMA CompletedFound ==
  ASSUME IInv, NEW i, Front(i, "COMPLETED")
  PROVE  /\ \A k \in NextPending(Ids) : k = i + 1
         /\ NextPending(Ids) = {} => \A k \in Ids : steps[k].status = "COMPLETED"
         /\ i + 1 \in Ids => Front(i + 1, "PENDING")
PROOF
<1>1. Ids = 1..Len(steps) /\ Len(steps) \in Nat /\ i \in Ids
  BY Numbers DEF Front
<1>2. i + 1 \in Ids => Front(i + 1, "PENDING")
  <2> SUFFICES ASSUME i + 1 \in Ids PROVE Front(i + 1, "PENDING")
    OBVIOUS
  <2>1. steps[i + 1].status = "PENDING"
    BY <1>1 DEF Front, After
  <2>2. ASSUME NEW j \in Ids, j < i + 1 PROVE steps[j].status = "COMPLETED"
    <3>1. j < i \/ j = i
      BY <1>1, <2>2
    <3> QED
      BY <3>1 DEF Front, Before
  <2>3. ASSUME NEW j \in Ids, j > i + 1 PROVE steps[j].status = "PENDING"
    <3>1. j > i
      BY <1>1, <2>3
    <3> QED
      BY <3>1 DEF Front, After
  <2> QED
    BY <2>1, <2>2, <2>3 DEF Front, Before, After
<1>3. i + 1 \in Ids => NextPending(Ids) = {i + 1}
  BY <1>2, PendingFound
<1>4. ASSUME i + 1 \notin Ids, NEW k \in Ids PROVE steps[k].status = "COMPLETED"
  <2>1. k < i \/ k = i
    BY <1>1, <1>4
  <2> QED
    BY <2>1 DEF Front, Before
<1>5. i + 1 \notin Ids => NextPending(Ids) = {}
  BY <1>4 DEF NextPending
<1> QED
  BY <1>2, <1>3, <1>4, <1>5

LEMMA FirstFound ==
  ASSUME IInv, AllPending, Len(steps) = N
  PROVE  NextPending(Ids) = {1} /\ Front(1, "PENDING")
PROOF
<1>1. Ids = 1..Len(steps) /\ Len(steps) \in Nat /\ N \in Nat /\ N >= 1
  BY Numbers
<1>2. Front(1, "PENDING")
  BY <1>1 DEF Front, Before, After, AllPending
<1> QED
  BY <1>2, PendingFound

-----------------------------------------------------------------------------
(* How the token moves. *)

LEMMA OthersWork ==
  ASSUME NEW x \in Process, NEW y \in Process, y # x, OthersSame(x), Work(y), ~Busy(y)
  PROVE  Work(y)' /\ ~Busy(y)'
BY DEF OthersSame, Work, Busy, Step, Queueing

\* Whoever is at work goes on, or leaves the sequence at rest.
LEMMA HolderMoves ==
  ASSUME SerialInv, NEW x \in Process, Busy(x), OthersSame(x), bull' = bull,
         Work(x)', ~Busy(x)' => Rest'
  PROVE  SerialInv'
PROOF
<1>1. bull = <<>> /\ \A y \in Process : y # x => ~Busy(y) /\ Work(y)
  BY DEF SerialInv, OneToken
<1>2. \A y \in Process : y # x => Work(y)' /\ ~Busy(y)'
  BY <1>1, OthersWork
<1>3. OneToken'
  BY <1>1, <1>2 DEF OneToken, SerialInv
<1>4. BullAtFront'
  BY <1>1 DEF BullAtFront
<1>5. AtRest'
  BY DEF AtRest
<1> QED
  BY <1>2, <1>3, <1>4, <1>5 DEF SerialInv

LEMMA TailMoves ==
  ASSUME SerialInv, NEW x \in Process, ~Busy(x), OthersSame(x), bull' = bull, SameStatus,
         Work(x)', ~Busy(x)'
  PROVE  SerialInv'
PROOF
<1>1. \A y \in Process : y # x => proc'[y] = proc[y]
  BY DEF OthersSame
<1>2. ASSUME NEW y \in Process, y # x PROVE Work(y)' /\ (Busy(y)' <=> Busy(y))
  <2>1. proc'[y] = proc[y] /\ Work(y)
    BY <1>1, <1>2 DEF SerialInv
  <2> QED
    BY <2>1, SameFront DEF Work, Busy, Step
<1>3. OneToken'
  BY <1>2 DEF OneToken, SerialInv
<1>4. BullAtFront'
  BY SameFront DEF BullAtFront, SerialInv
<1>5. AtRest'
  BY <1>2, SameFront DEF AtRest, SerialInv
<1> QED
  BY <1>2, <1>3, <1>4, <1>5 DEF SerialInv

LEMMA IdleWorks == ASSUME NEW x \in Process, proc'[x] = Idle PROVE Work(x)' /\ ~Busy(x)'
BY DEF Idle, Work, Busy, Step, Queueing

LEMMA ExecuteSerial ==
  ASSUME IInv, SerialInv, NEW x \in Process, ExecuteStep(x)
  PROVE  SerialInv'
PROOF
<1> USE DEF Turns, Ends
<1>1. OthersSame(x) /\ bull' = bull /\ Work(x)
  BY ExecuteMoves DEF SerialInv
<1>0. PICK i \in Ids : i = Step(x)
  BY ExecuteMoves
<1>2. CASE Sets(Step(x), "FAILED") /\ Ends(x, "execute")
  <2>1. Front(i, "FAILED")'
    BY <1>0, <1>1, <1>2, FrontSet DEF Work
  <2>2. Rest'
    BY <2>1 DEF Rest, Front
  <2> QED
    BY <1>1, <1>2, <2>2, IdleWorks, HolderMoves DEF Busy
<1>3. CASE Sets(Step(x), "PROCESSING") /\ Turns(x, "execute", "findJob")
  <2>1. Step(x)' = i
    BY <1>0, <1>3 DEF Step
  <2>2. Front(i, "PROCESSING")' /\ Ids' = Ids
    BY <1>0, <1>1, <1>3, FrontSet DEF Work
  <2>3. Work(x)' /\ Busy(x)'
    BY <1>1, <1>3, <2>1, <2>2 DEF Work, Busy, Queueing
  <2> QED
    BY <1>1, <1>3, <2>3, HolderMoves DEF Busy
<1>4. CASE Sets(Step(x), "COMPLETED") /\ Turns(x, "complete", "jobCompleted")
  <2>1. Step(x)' = i
    BY <1>0, <1>4 DEF Step
  <2>2. Front(i, "COMPLETED")' /\ Ids' = Ids
    BY <1>0, <1>1, <1>4, FrontSet DEF Work
  <2>3. Work(x)' /\ Busy(x)'
    BY <1>1, <1>4, <2>1, <2>2 DEF Work, Busy, Queueing
  <2> QED
    BY <1>1, <1>4, <2>3, HolderMoves DEF Busy
<1>5. CASE Sets(Step(x), "FAILED") /\ Turns(x, "failStep", "failFindJob")
  <2>1. Front(i, "FAILED")' /\ Ids' = Ids
    BY <1>0, <1>1, <1>5, FrontSet DEF Work
  <2>2. Rest'
    BY <2>1 DEF Rest, Front
  <2>3. Work(x)'
    BY <1>1, <1>5, <2>1 DEF Work, Busy, Queueing
  <2> QED
    BY <1>1, <1>5, <2>2, <2>3, HolderMoves DEF Busy
<1>6. ASSUME SameStatus,
             \/ Turns(x, "findJob", "jobProcessing") \/ Turns(x, "findJob", "failStep")
             \/ Turns(x, "jobProcessing", "handler")
             \/ Turns(x, "handler", "complete") \/ Turns(x, "handler", "failStep")
             \/ Turns(x, "jobCompleted", "next")
      PROVE  SerialInv'
  <2>1. Step(x)' = Step(x)
    BY <1>6 DEF Step
  <2>2. Work(x)' /\ Busy(x)'
    BY <1>1, <1>6, <2>1, SameFront DEF Work, Busy, Queueing
  <2> QED
    BY <1>1, <1>6, <2>2, HolderMoves DEF Busy
<1>7. ASSUME SameStatus,
             \/ Turns(x, "failFindJob", "failJob") \/ Ends(x, "failFindJob")
             \/ Ends(x, "failJob")
      PROVE  SerialInv'
  <2>1. ~Busy(x)
    BY <1>7 DEF Busy
  <2>2. Work(x)' /\ ~Busy(x)'
    BY <1>7, IdleWorks DEF Work, Busy, Queueing
  <2> QED
    BY <1>1, <1>7, <2>1, <2>2, TailMoves
<1> QED
  BY <1>2, <1>3, <1>4, <1>5, <1>6, <1>7, ExecuteMoves

LEMMA QueueSerial ==
  ASSUME IInv, SerialInv, NEW x \in Process, QueueNext(x)
  PROVE  SerialInv'
PROOF
<1> USE DEF Turns, Ends
<1>1. OthersSame(x) /\ SameStatus /\ Work(x) /\ Fits(x, proc[x]) /\ Busy(x)
  BY QueueMoves, Facts DEF SerialInv, Busy, ProcOK
<1>2. \/ Step(x) = 0 /\ AllPending /\ Len(steps) = N
      \/ Front(Step(x), "COMPLETED")
  BY <1>1, QueueMoves DEF Work, Queueing
<1>7. proc[x].ids = Ids
  BY <1>1, QueueMoves DEF Work
<1>3. CASE bull' = bull /\ Ends(x, "next") /\ NextPending(Ids) = {}
  <2>1. \A k \in Ids : steps[k].status = "COMPLETED"
    BY <1>2, <1>3, FirstFound, CompletedFound
  <2>2. Rest'
    BY <1>1, <2>1, SameFront DEF Rest
  <2> QED
    BY <1>1, <1>3, <2>2, IdleWorks, HolderMoves
<1>4. CASE bull' = bull /\ Turns(x, "next", "createJob") /\ proc'[x].next \in NextPending(Ids)
  <2>1. proc'[x].next = Step(x) + 1
    BY <1>2, <1>4, FirstFound, CompletedFound
  <2>2. Step(x)' = Step(x)
    BY <1>4 DEF Step
  <2>3. Work(x)' /\ Busy(x)'
    BY <1>1, <1>2, <1>4, <2>1, <2>2, SameFront DEF Work, Busy, Queueing
  <2> QED
    BY <1>1, <1>4, <2>3, HolderMoves
<1>5. ASSUME bull' = bull, proc'[x].next = proc[x].next,
             Turns(x, "createJob", "linkJob") \/ Turns(x, "linkJob", "enqueue")
      PROVE  SerialInv'
  <2>1. Step(x)' = Step(x)
    BY <1>5 DEF Step
  <2>2. Work(x)' /\ Busy(x)'
    BY <1>1, <1>2, <1>5, <2>1, SameFront DEF Work, Busy, Queueing
  <2> QED
    BY <1>1, <1>5, <2>2, HolderMoves
<1>6. ASSUME Ends(x, "enqueue"),
             bull' = Append(bull, [step |-> proc[x].next, job |-> proc[x].job,
                                   ids |-> Ids, stalls |-> 0])
      PROVE  SerialInv'
  <2> DEFINE entry == [step |-> proc[x].next, job |-> proc[x].job, ids |-> Ids,
                    stalls |-> 0]
  <2>1. bull = <<>> /\ \A y \in Process : y # x => ~Busy(y) /\ Work(y)
    BY <1>1 DEF SerialInv, OneToken
  <2>2. PICK i \in Ids : i = proc[x].next /\ i = Step(x) + 1
    BY <1>1, <1>6 DEF Work, Fits, Queueing
  <2>3. Front(i, "PENDING") /\ entry.step = i /\ entry.ids = Ids
    BY <1>2, <2>2, FirstFound, CompletedFound
  <2> HIDE DEF entry
  <2>4. bull' = <<entry>>
    BY <1>6, <2>1 DEF entry
  <2>5. Len(bull') = 1 /\ DOMAIN bull' = {1} /\ bull'[1] = entry /\ bull' # <<>>
    BY <2>4
  <2>6. \A y \in Process : Work(y)' /\ ~Busy(y)'
    BY <1>1, <1>6, <2>1, IdleWorks, OthersWork
  <2>7. Front(i, "PENDING")' /\ Ids' = Ids
    BY <1>1, <2>3, SameFront
  <2>8. BullAtFront'
    BY <2>3, <2>5, <2>7 DEF BullAtFront
  <2> QED
    BY <2>5, <2>6, <2>8 DEF SerialInv, OneToken, AtRest
<1> QED
  BY <1>3, <1>4, <1>5, <1>6, <1>7, QueueMoves

\* No step but the front is neither completed nor pending.
LEMMA FrontOnly ==
  ASSUME IInv, NEW i, NEW st, Front(i, st),
         NEW k \in Ids, steps[k].status \notin {"COMPLETED", "PENDING"}
  PROVE  k = i
PROOF
<1>1. Ids \subseteq Nat /\ i \in Ids
  BY Numbers DEF Front
<1>2. ~(k < i) /\ ~(k > i)
  BY DEF Front, Before, After
<1> QED
  BY <1>1, <1>2

\* When nobody is at work and nothing waits, x may begin.
LEMMA IdleBegins ==
  ASSUME SerialInv, NEW x \in Process, OthersSame(x), \A y \in Process : ~Busy(y),
         bull' = <<>>, Work(x)', Busy(x)'
  PROVE  SerialInv'
PROOF
<1>1. \A y \in Process : y # x => Work(y)' /\ ~Busy(y)'
  BY OthersWork DEF SerialInv
<1>2. bull' = <<>> /\ Len(bull') = 0 /\ DOMAIN bull' = {}
  OBVIOUS
<1>3. OneToken'
  BY <1>1, <1>2 DEF OneToken
<1>4. BullAtFront' /\ AtRest'
  BY <1>2 DEF BullAtFront, AtRest
<1> QED
  BY <1>1, <1>3, <1>4 DEF SerialInv

LEMMA WorkerSerial ==
  ASSUME IInv, SerialInv, ProcessStepJob \/ WorkerFailsJob \/ WorkerFailsStep
  PROVE  SerialInv'
PROOF
<1>1. /\ Worker \in Process /\ OthersSame(Worker) /\ Work(Worker)
  BY WorkerMoves DEF Process, SerialInv
<1>2. /\ SameStatus /\ bull # <<>> /\ bull' = Tail(bull)
      /\ proc'[Worker].pc = "execute" /\ proc'[Worker].step = Head(bull).step
      /\ proc'[Worker].ids = Head(bull).ids
  BY <1>1, WorkerMoves DEF Work, Turns, Ends
<1>3. bull \in Seq(BullJob) /\ Len(bull) <= 1 /\ \A y \in Process : ~Busy(y)
  BY <1>2 DEF IInv, BullOK, SerialInv, OneToken
<1>4. Len(bull) = 1 /\ Head(bull) = bull[1] /\ 1 \in DOMAIN bull
  <2>1. Len(bull) \in Nat \ {0} /\ DOMAIN bull = 1..Len(bull)
    BY <1>2, <1>3, EmptySeq
  <2> QED
    BY <1>2, <1>3, <2>1, HeadTailProperties
<1>5. bull' = <<>>
  <2>1. bull' \in Seq(BullJob) /\ Len(bull') = 0
    BY <1>2, <1>3, <1>4, HeadTailProperties
  <2> QED
    BY <2>1, EmptySeq
<1>6. PICK i \in Ids : i = bull[1].step /\ Front(i, "PENDING") /\ bull[1].ids = Ids
  BY <1>4 DEF SerialInv, BullAtFront, Front
<1>7. Front(i, "PENDING")' /\ Step(Worker)' = i /\ proc'[Worker].ids = Ids'
  BY <1>2, <1>4, <1>6, SameFront DEF Step
<1>8. Work(Worker)' /\ Busy(Worker)'
  BY <1>2, <1>7 DEF Work, Busy, Queueing
<1> QED
  BY <1>1, <1>3, <1>5, <1>8, IdleBegins

-----------------------------------------------------------------------------
(* What a request alone finds. *)

LEMMA AloneIsFirst ==
  ASSUME IInv, NEW r \in Request, Alone, steps = <<>>, ~Busy(r)
  PROVE  bull = <<>> /\ \A y \in Process : ~Busy(y)
PROOF
<1>1. Ids = {}
  BY DEF Ids
<1>2. bull = <<>>
  <2>1. bull \in Seq(BullJob) /\ DOMAIN bull = {}
    BY <1>1 DEF IInv, BullOK
  <2> QED
    BY <2>1, EmptySeq
<1>3. ~Busy(Worker)
  <2>1. Worker \in Process /\ ProcOK(Worker)
    BY DEF Process, IInv
  <2> QED
    BY <1>1, <2>1 DEF ProcOK, Fits, Busy
<1> QED
  BY <1>2, <1>3 DEF Process, Alone

LEMMA FailedIsFront ==
  ASSUME IInv, SerialInv, NEW r \in Request, Alone, proc[r].pc = "idle",
         NEW i \in Ids, steps[i].status = "FAILED"
  PROVE  bull = <<>> /\ (\A y \in Process : ~Busy(y)) /\ Front(i, "FAILED")
PROOF
<1>1. \A k, st : Front(k, st) => st = "FAILED"
  BY FrontOnly DEF Front
<1>2. bull = <<>>
  <2>1. DOMAIN bull = {} /\ bull \in Seq(BullJob)
    BY <1>1 DEF SerialInv, BullAtFront, IInv, BullOK
  <2> QED
    BY <2>1, EmptySeq
<1>3. ~AllPending
  BY DEF AllPending
<1>4. ~Busy(r)
  BY DEF Busy
<1>5. ASSUME NEW y \in Process PROVE ~Busy(y)
  <2>1. Work(y) /\ (y # r => y = Worker) /\ proc[y] \in ProcState
    BY Facts DEF SerialInv, Process, Alone
  <2> QED
    BY <1>1, <1>3, <1>4, <2>1 DEF Work, Busy, Queueing, ProcState, Pc
<1>6. PICK k \in Ids : Front(k, "FAILED")
  BY <1>2, <1>3, <1>5 DEF SerialInv, AtRest, Rest
<1>7. i = k
  BY <1>6, FrontOnly
<1> QED
  BY <1>2, <1>5, <1>6, <1>7

LEMMA RequestSerial ==
  ASSUME IInv, SerialInv, Undisturbed, NEW r \in Request,
         \/ ProcessNextStep(r) \/ ResetStep(r) \/ FindStep(r) \/ CreateStepSequence(r)
         \/ \E i \in Ids : RetryStep(r, i)
  PROVE  SerialInv'
PROOF
<1> USE DEF Turns, Ends
<1>1. /\ r \in Process /\ r # Worker /\ OthersSame(r) /\ bull' = bull /\ Work(r)
      /\ Alone /\ Lists = {}
  BY WorkerAssumption, RequestMoves DEF Process, SerialInv, Undisturbed
<1>2. CASE Sets(Step(r), "PENDING") /\ Turns(r, "reset", "find")
  <2>1. PICK i \in Ids : i = Step(r)
    BY <1>2 DEF Sets
  <2>2. Front(i, "PENDING")' /\ Step(r)' = i
    BY <1>1, <1>2, <2>1, FrontSet DEF Work, Step
  <2>3. Work(r)' /\ Busy(r)'
    BY <1>1, <1>2, <2>2 DEF Work, Busy, Queueing
  <2> QED
    BY <1>1, <1>2, <2>3, HolderMoves DEF Busy
<1>3. CASE SameStatus /\ steps = <<>> /\ Turns(r, "idle", "createSteps")
  <2>1. bull = <<>> /\ \A y \in Process : ~Busy(y)
    BY <1>1, <1>3, AloneIsFirst DEF Busy
  <2>2. AllPending' /\ Step(r)' = 0 /\ proc'[r].ids = Ids'
    BY <1>1, <1>3 DEF SameStatus, AllPending, Ids, Work, Step
  <2>3. Work(r)' /\ Busy(r)'
    BY <1>1, <1>3, <2>2 DEF Work, Busy, Queueing
  <2> QED
    BY <1>1, <2>1, <2>3, IdleBegins
<1>4. CASE /\ SameStatus /\ proc[r].pc = "idle" /\ proc'[r].pc = "reset"
           /\ proc'[r].step \in Ids /\ steps[proc'[r].step].status = "FAILED"
  <2>1. PICK i \in Ids : i = proc'[r].step
    BY <1>4
  <2>2. bull = <<>> /\ (\A y \in Process : ~Busy(y)) /\ Front(i, "FAILED")
    BY <1>1, <1>4, <2>1, FailedIsFront
  <2>3. Front(i, "FAILED")' /\ Step(r)' = i
    BY <1>4, <2>1, <2>2, SameFront DEF Step
  <2>4. Work(r)' /\ Busy(r)'
    BY <1>1, <1>4, <2>3 DEF Work, Busy, Queueing
  <2> QED
    BY <1>1, <2>2, <2>4, IdleBegins
<1>5. CASE /\ SameStatus /\ proc[r].pc = "find" /\ proc'[r].pc = "execute"
           /\ proc'[r].step \in NextPending(Ids) /\ proc'[r].ids = Ids
  <2>1. PICK i \in Ids : i = Step(r) /\ Front(i, "PENDING")
    BY <1>1, <1>5 DEF Work, Front
  <2>2. proc'[r].step = i
    BY <1>5, <2>1, PendingFound
  <2>3. Front(i, "PENDING")' /\ Step(r)' = i /\ Ids' = Ids
    BY <1>5, <2>1, <2>2, SameFront DEF Step
  <2>4. Work(r)' /\ Busy(r)'
    BY <1>1, <1>5, <2>3 DEF Work, Busy, Queueing
  <2> QED
    BY <1>1, <1>5, <2>4, HolderMoves DEF Busy
<1>6. ~(Ends(r, "find") /\ NextPending(Ids) = {})
  BY <1>1, PendingFound DEF Work
<1> QED
  BY <1>1, <1>2, <1>3, <1>4, <1>5, <1>6, RequestMoves

LEMMA CreateStepSerial ==
  ASSUME IInv, SerialInv, NEW r \in Request, CreateStep(r)
  PROVE  SerialInv'
PROOF
<1>1. /\ r \in Process /\ r # Worker /\ Work(r) /\ proc[r].pc = "createSteps"
      /\ bull' = bull
  BY WorkerAssumption DEF Process, SerialInv, CreateStep, AtPc
<1>2. AllPending /\ Step(r) = 0
  BY <1>1 DEF Work
<1>3. AllPending' /\ Len(steps') = Len(steps) + 1
  BY <1>2, CreateStepStatus DEF AllPending
<1> DEFINE pc == IF Len(steps) + 1 = N THEN "next" ELSE "createSteps"
<1>4. /\ OthersSame(r) /\ proc'[r].pc = pc /\ proc'[r].step = proc[r].step
      /\ proc'[r].ids = Ids'
  BY <1>1, Facts DEF CreateStep, OthersSame, ProcState, Ids
<1>5. OthersSame(r) /\ proc'[r].pc = pc /\ Step(r)' = 0
  BY <1>2, <1>4 DEF Step
<1>6. Work(r)'
  BY <1>1, <1>3, <1>4, <1>5 DEF Work, Queueing
<1>7. Rest'
  BY <1>3 DEF Rest
<1> QED
  BY <1>1, <1>5, <1>6, <1>7, HolderMoves DEF Busy

LEMMA BullFaultSerial ==
  ASSUME IInv, SerialInv, NEW x \in Process, BullFault(x)
  PROVE  SerialInv'
PROOF
<1> USE DEF Turns, Ends
<1>1. OthersSame(x) /\ bull' = bull /\ SameStatus /\ Work(x) /\ proc[x].pc = "enqueue"
  BY BullFaultMoves DEF SerialInv
<1>2. \/ Step(x) = 0 /\ AllPending
      \/ Front(Step(x), "COMPLETED")
  BY <1>1 DEF Work, Queueing
<1>3. CASE Turns(x, "enqueue", "failStep") /\ proc[x].step # 0
  <2>1. PICK i \in Ids : i = Step(x) /\ Front(i, "COMPLETED")
    BY <1>2, <1>3 DEF Step, Front
  <2>2. Front(i, "COMPLETED")' /\ Step(x)' = i /\ Ids' = Ids
    BY <1>1, <1>3, <2>1, SameFront DEF Step
  <2>3. Work(x)' /\ Busy(x)'
    BY <1>1, <1>3, <2>2 DEF Work, Busy, Queueing
  <2> QED
    BY <1>1, <2>3, HolderMoves DEF Busy
<1>4. CASE Ends(x, "enqueue") /\ proc[x].step = 0
  <2>1. AllPending
    BY <1>2, <1>4, Facts DEF Step, Front
  <2>2. Rest'
    BY <1>1, <2>1, SameFront DEF Rest
  <2> QED
    BY <1>1, <1>4, <2>2, IdleWorks, HolderMoves DEF Busy
<1> QED
  BY <1>3, <1>4, BullFaultMoves

LEMMA InitSerial == Init => SerialInv
PROOF
<1> SUFFICES ASSUME Init PROVE SerialInv
  OBVIOUS
<1>1. DOMAIN steps = {} /\ DOMAIN bull = {} /\ Len(bull) = 0
  BY EmptySeq DEF Init
<1>2. AllPending
  BY <1>1 DEF AllPending, Ids
<1>3. \A x \in Process : Work(x) /\ ~Busy(x)
  BY DEF Init, Idle, Work, Busy, Step, Queueing
<1> QED
  BY <1>1, <1>2, <1>3 DEF SerialInv, OneToken, BullAtFront, AtRest, Rest, Init

LEMMA NoTrouble ==
  ASSUME IInv, Undisturbed
  PROVE  ~Restart /\ \A x \in Process : ~DatabaseFault(x)
BY DEF IInv, CountersOK, Undisturbed, Restart, DatabaseFault

LEMMA StutterSerial ==
  ASSUME SerialInv, UNCHANGED vars
  PROVE  SerialInv'
PROOF
<1>1. steps' = steps /\ bull' = bull /\ proc' = proc
  BY DEF vars
<1>2. (AllPending' <=> AllPending) /\ \A i, st : Front(i, st)' <=> Front(i, st)
  BY <1>1, SameFront, StepsSame
<1>3. \A x \in Process : Work(x)' /\ (Busy(x)' <=> Busy(x))
  BY <1>1, <1>2 DEF SerialInv, Work, Busy, Step, Ids
<1>4. OneToken' /\ BullAtFront' /\ AtRest'
  BY <1>1, <1>2, <1>3, SameFront, StepsSame DEF SerialInv, OneToken, BullAtFront, AtRest
<1> QED
  BY <1>3, <1>4 DEF SerialInv

LEMMA NextSerial == Undisturbed /\ IInv /\ SerialInv /\ [Next]_vars => SerialInv'
PROOF
<1> SUFFICES ASSUME Undisturbed, IInv, SerialInv, [Next]_vars PROVE SerialInv'
  OBVIOUS
<1>1. Worker \in Process /\ \A r \in Request : r \in Process
  BY DEF Process
<1> QED
  BY <1>1, ExecuteSerial, QueueSerial, WorkerSerial, RequestSerial, CreateStepSerial,
     BullFaultSerial, NoTrouble, StutterSerial
  DEF Next, WorkerStep, RequestStep, ServerStep

(* Alone, the sequence keeps a front: the steps before it are completed,   *)
(* those behind it pending, and one process or one waiting job is at it,   *)
(* or everything rests.                                                    *)
THEOREM FrontInvariant ==
  ASSUME Undisturbed
  PROVE  Spec => [](IInv /\ SerialInv)
PROOF
<1>1. IInv /\ SerialInv /\ [Next]_vars => SerialInv'
  BY NextSerial
<1> QED
  BY <1>1, InitSerial, InitIInv, NextKeeps, PTL DEF Spec

(* Without overlap and restarts a quiet sequence is finished, or has a     *)
(* failed step one can retry with every step before it completed, or never *)
(* began: no fault of Bull leaves it anywhere else.                        *)
THEOREM NothingGetsStuck ==
  ASSUME Undisturbed
  PROVE  Spec => []NothingStuck
PROOF
<1>1. ASSUME IInv, SerialInv, Quiet PROVE NothingStuck
  <2>1. Rest
    BY <1>1 DEF SerialInv, AtRest, Quiet, AtPc, Busy
  <2>2. \A i \in Ids : Before(i) => \A j \in 1..(i - 1) : steps[j].status = "COMPLETED"
    BY <1>1, Numbers DEF Before
  <2> QED
    BY <2>1, <2>2 DEF Rest, AllPending, Front, NothingStuck
<1>2. IInv /\ SerialInv => NothingStuck
  BY <1>1 DEF NothingStuck
<1> QED
  BY <1>2, FrontInvariant, PTL

(* Without overlap and restarts the step whose execution begins is pending *)
(* and nobody else works on the sequence, though the processor looks at    *)
(* the status of no step: none has two jobs in Bull, and none is begun     *)
(* twice but by a retry.                                                   *)
THEOREM NoSecondExecution ==
  ASSUME Undisturbed
  PROVE  Spec => []PendingIsBegun
PROOF
<1>1. ASSUME IInv, SerialInv, NEW x \in Process, AtPc(x, "execute")
      PROVE  /\ steps[Step(x)].status = "PENDING"
             /\ bull = <<>>
             /\ \A y \in Process : y # x => proc[y].pc \in {"idle", "failFindJob", "failJob"}
  BY <1>1 DEF SerialInv, Work, Front, OneToken, Busy, AtPc
<1>2. IInv /\ SerialInv => PendingIsBegun
  BY <1>1 DEF PendingIsBegun
<1> QED
  BY <1>2, FrontInvariant, PTL

(* Both at once, for any number of steps and handlers that fail or not.    *)
THEOREM SerialStaysSound ==
  ASSUME Undisturbed
  PROVE  Spec => []SerialIsSound
BY NothingGetsStuck, NoSecondExecution, PTL DEF SerialIsSound

(* Without overlap and restarts the comment's promise is kept: when a      *)
(* handler starts, every earlier step has succeeded ("order by stepNumber  *)
(* to ensure proper sequence").                                            *)
THEOREM AloneRunsInSequence ==
  ASSUME Undisturbed
  PROVE  Spec => []InSequence
PROOF
<1>1. ASSUME IInv, SerialInv, NEW x \in Process, AtPc(x, "handler"), NEW j \in 1..(Step(x) - 1)
      PROVE  j \in succeeded
  <2>1. Front(Step(x), "PROCESSING")
    BY <1>1 DEF SerialInv, Work, AtPc
  <2>2. j \in Ids /\ j < Step(x)
    BY <1>1, <2>1, Numbers DEF Front
  <2>3. steps[j].status = "COMPLETED"
    BY <2>1, <2>2 DEF Front, Before
  <2> QED
    BY <1>1, <2>2, <2>3 DEF IInv, DoneOK, CompletedHasSucceeded
<1>2. IInv /\ SerialInv => InSequence
  BY <1>1 DEF InSequence
<1> QED
  BY <1>2, FrontInvariant, PTL

-----------------------------------------------------------------------------
(* Every step of the queue is a step of the abstract sequence, or leaves   *)
(* the statuses alone.                                                     *)

Shown == [i \in Ids |-> steps[i].status]

LEMMA SameShownStatus == ASSUME SameStatus PROVE Shown' = Shown
BY DEF SameStatus, Shown

LEMMA SetShown ==
  ASSUME NEW i, NEW status, Sets(i, status)
  PROVE  Shown' = [Shown EXCEPT ![i] = status]
BY DEF Sets, Shown

LEMMA FrontShown ==
  ASSUME IInv, NEW i, NEW st, Front(i, st)
  PROVE  /\ i \in Sequence!Step /\ Shown[i] = st
         /\ Sequence!CompletedBefore(i)
         /\ \A j \in Sequence!Step : j > i => Shown[j] = "PENDING"
PROOF
<1>1. Ids = 1..Len(steps) /\ Len(steps) \in Nat /\ i \in Ids
  BY Numbers DEF Front
<1>2. \A j \in 1..(i - 1) : j \in Ids /\ j < i
  BY <1>1
<1> QED
  BY <1>1, <1>2 DEF Sequence!Step, Sequence!CompletedBefore, Shown, Front, Before, After

LEMMA FrontStep ==
  ASSUME IInv, NEW i, NEW st, Front(i, st), NEW status, Sets(i, status)
  PROVE  /\ i \in Sequence!Step
         /\ st = "PENDING" /\ status = "PROCESSING" => Sequence!Start(i)
         /\ st = "PROCESSING" /\ status = "COMPLETED" => Sequence!Complete(i)
         /\ st # "FAILED" /\ status = "FAILED" => Sequence!Fail(i)
         /\ st = "FAILED" /\ status = "PENDING" => Sequence!Retry(i)
PROOF
<1>1. /\ i \in Sequence!Step /\ Shown[i] = st
      /\ Sequence!CompletedBefore(i)
      /\ \A j \in Sequence!Step : j > i => Shown[j] = "PENDING"
  BY FrontShown
<1>2. Shown' = [Shown EXCEPT ![i] = status]
  BY SetShown
<1>3. st = "PENDING" /\ status = "PROCESSING" => Sequence!Start(i)
  BY <1>1, <1>2 DEF Sequence!Start, Shown
<1>4. st = "PROCESSING" /\ status = "COMPLETED" => Sequence!Complete(i)
  BY <1>1, <1>2 DEF Sequence!Complete, Shown
<1>5. st # "FAILED" /\ status = "FAILED" => Sequence!Fail(i)
  BY <1>1, <1>2 DEF Sequence!Fail, Shown
<1>6. st = "FAILED" /\ status = "PENDING" => Sequence!Retry(i)
  BY <1>1, <1>2 DEF Sequence!Retry, Shown
<1> QED
  BY <1>1, <1>3, <1>4, <1>5, <1>6

LEMMA ExecuteIsStep ==
  ASSUME IInv, SerialInv, NEW x \in Process, ExecuteStep(x)
  PROVE  [Sequence!SNext]_Shown
PROOF
<1> USE DEF Turns, Ends
<1>1. Work(x)
  BY DEF SerialInv
<1>2. PICK i \in Ids : i = Step(x)
  BY ExecuteMoves
<1>3. CASE Sets(i, "FAILED") /\ proc[x].pc \in {"execute", "failStep"}
  <2>1. PICK st : Front(i, st) /\ st # "FAILED"
    BY <1>1, <1>2, <1>3 DEF Work
  <2>2. i \in Sequence!Step /\ Sequence!Fail(i)
    BY <1>3, <2>1, FrontStep
  <2> QED
    BY <2>2 DEF Sequence!SNext
<1>4. CASE Sets(i, "PROCESSING") /\ proc[x].pc = "execute"
  <2>1. Front(i, "PENDING")
    BY <1>1, <1>2, <1>4 DEF Work
  <2>2. i \in Sequence!Step /\ Sequence!Start(i)
    BY <1>4, <2>1, FrontStep
  <2> QED
    BY <2>2 DEF Sequence!SNext
<1>5. CASE Sets(i, "COMPLETED") /\ proc[x].pc = "complete"
  <2>1. Front(i, "PROCESSING")
    BY <1>1, <1>2, <1>5 DEF Work
  <2>2. i \in Sequence!Step /\ Sequence!Complete(i)
    BY <1>5, <2>1, FrontStep
  <2> QED
    BY <2>2 DEF Sequence!SNext
<1>6. CASE SameStatus
  BY <1>6, SameShownStatus
<1> QED
  BY <1>2, <1>3, <1>4, <1>5, <1>6, ExecuteMoves

LEMMA RequestIsStep ==
  ASSUME IInv, SerialInv, NEW r \in Request,
         \/ ProcessNextStep(r) \/ ResetStep(r) \/ FindStep(r) \/ CreateStepSequence(r)
         \/ \E i \in Ids : RetryStep(r, i)
  PROVE  [Sequence!SNext]_Shown
PROOF
<1> USE DEF Turns, Ends
<1>1. Work(r)
  BY DEF SerialInv, Process
<1>2. CASE Sets(Step(r), "PENDING") /\ proc[r].pc = "reset"
  <2>1. PICK i \in Ids : i = Step(r) /\ Front(i, "FAILED")
    BY <1>1, <1>2 DEF Work, Front
  <2>2. i \in Sequence!Step /\ Sequence!Retry(i)
    BY <1>2, <2>1, FrontStep
  <2> QED
    BY <2>2 DEF Sequence!SNext
<1>3. CASE SameStatus
  BY <1>3, SameShownStatus
<1> QED
  BY <1>2, <1>3, RequestMoves

LEMMA CreateIsStep ==
  ASSUME IInv, SerialInv, NEW r \in Request, CreateStep(r)
  PROVE  Sequence!SNext
PROOF
<1>1. AllPending
  <2>1. Work(r)
    BY DEF SerialInv, Process
  <2> QED
    BY <2>1 DEF CreateStep, AtPc, Work
<1>2. /\ Ids = 1..Len(steps) /\ Len(steps) \in Nat /\ Len(steps) < N /\ N \in Nat
      /\ Ids' = 1..(Len(steps) + 1)
      /\ \A i \in Ids' : steps'[i].status = "PENDING"
  <2>1. \A i \in 1..(Len(steps) + 1) : i \in 1..Len(steps) \/ i = Len(steps) + 1
    BY CreateStepStatus
  <2> QED
    BY <1>1, <2>1, CreateStepStatus, StepsAssumption DEF AllPending
<1>3. Len(steps) + 1 \in 1..N /\ 1..Len(steps) \subseteq 1..(Len(steps) + 1)
  BY <1>2
<1>4. Shown' = [i \in 1..(Len(steps) + 1) |-> "PENDING"]
  BY <1>2 DEF Shown
<1>5. Sequence!Create
  BY <1>1, <1>2, <1>3, <1>4 DEF Sequence!Create, Sequence!Step, Shown, AllPending
<1> QED
  BY <1>5 DEF Sequence!SNext

LEMMA NextIsStep ==
  Undisturbed /\ IInv /\ SerialInv /\ [Next]_vars => [Sequence!SNext]_Shown
PROOF
<1> SUFFICES ASSUME Undisturbed, IInv, SerialInv, [Next]_vars PROVE [Sequence!SNext]_Shown
  OBVIOUS
<1>1. Worker \in Process /\ (\A r \in Request : r \in Process) /\ Work(Worker)
  BY DEF Process, SerialInv
<1>2. ASSUME NEW x \in Process, QueueNext(x) \/ BullFault(x) PROVE Shown' = Shown
  BY <1>2, QueueMoves, BullFaultMoves, SameShownStatus
<1>3. ASSUME ProcessStepJob \/ WorkerFailsJob \/ WorkerFailsStep PROVE Shown' = Shown
  BY <1>1, <1>3, WorkerMoves, SameShownStatus DEF Work, Turns, Ends
<1>4. UNCHANGED vars => Shown' = Shown
  BY StepsSame, SameShownStatus DEF vars
<1> QED
  BY <1>1, <1>2, <1>3, <1>4, ExecuteIsStep, RequestIsStep, CreateIsStep, NoTrouble
  DEF Next, WorkerStep, RequestStep, ServerStep

(* Without overlap and restarts the queue implements StepSequence: steps   *)
(* run one at a time and in order, a failure stops them, and a retry puts  *)
(* the failed one back, whatever jobs, Bull and requests do for it.        *)
THEOREM QueueImplementsSequence ==
  ASSUME Undisturbed
  PROVE  Spec => SequenceSpec
PROOF
<1>1. Init => Sequence!SInit
  <2>1. ASSUME Init PROVE Shown = <<>>
    <3>1. Ids = {}
      BY <2>1, EmptySeq DEF Init, Ids
    <3> QED
      BY <3>1 DEF Shown
  <2> QED
    BY <2>1 DEF Sequence!SInit, Shown
<1>2. IInv /\ SerialInv /\ [Next]_vars => [Sequence!SNext]_Shown
  BY NextIsStep
<1> QED
  BY <1>1, <1>2, FrontInvariant, PTL DEF Spec, SequenceSpec, Sequence!SSpec, Shown

-----------------------------------------------------------------------------
(* The queue and the gateway together.  What is emitted is read off the    *)
(* row that an update returned, and until then its process does nothing    *)
(* else; the gateway's own invariant is the one of GatewayProofs.          *)
Gate == INSTANCE GatewayProofs WITH User <- {Owner}, Event <- StepEvent

LEMMA GatewaySame ==
  /\ G!Init <=> Gate!Init
  /\ G!Next <=> Gate!Next
  /\ G!vars = Gate!vars /\ G!vars' = Gate!vars'
  /\ G!TypeOK <=> Gate!TypeOK
  /\ G!NothingMissed <=> Gate!NothingMissed
BY DEF G!Init, Gate!Init, G!vars, Gate!vars, G!TypeOK, Gate!TypeOK, G!Next, Gate!Next,
   G!SocketNext, Gate!SocketNext, G!Connect, Gate!Connect,
   G!HandleConnection, Gate!HandleConnection, G!ClientLeaves, Gate!ClientLeaves,
   G!DeleteUser, Gate!DeleteUser, G!EmitToRoom, Gate!EmitToRoom,
   G!VerifyToken, Gate!VerifyToken, G!FindUser, Gate!FindUser,
   G!FindUserFails, Gate!FindUserFails, G!Join, Gate!Join, G!Welcome, Gate!Welcome,
   G!Refuse, Gate!Refuse, G!Close, Gate!Close, G!Goto, Gate!Goto,
   G!NothingMissed, Gate!NothingMissed, G!Welcomed, Gate!Welcomed

\* An event that tells of a completed step, given what has succeeded.
Tells(e, done) == e.status = "COMPLETED" => e.step \in done

FeedInv ==
  /\ IInv
  /\ Gate!IInv
  /\ due \in [Process -> StepEvent \union {Nothing}]
  /\ \A x \in Process : due[x] # Nothing => Tells(due[x], succeeded)
  /\ CompletedIsTrue

LEMMA InitFeed == FeedInit => FeedInv
PROOF
<1> SUFFICES ASSUME FeedInit PROVE FeedInv
  OBVIOUS
<1>1. IInv /\ Gate!IInv
  BY InitIInv, GatewaySame, Gate!InitIInv DEF FeedInit
<1>2. CompletedIsTrue
  BY EmptySeq DEF FeedInit, G!Init, CompletedIsTrue
<1> QED
  BY <1>1, <1>2 DEF FeedInit, FeedInv

(* A step of the composition is one of the queue or one of the gateway.    *)
LEMMA ActIsNext ==
  ASSUME NEW x \in Process, MarkAndAnnounce(x) \/ Silent(x)
  PROVE  Next
BY DEF Process, MarkAndAnnounce, Silent, Next, WorkerStep, RequestStep, ServerStep,
   ExecuteStep, QueueNext

LEMMA FeedIsQueue == [FeedNext]_feedVars => [Next]_vars
PROOF
<1> SUFFICES ASSUME [FeedNext]_feedVars PROVE [Next]_vars
  OBVIOUS
<1>1. ASSUME NEW x \in Process, Act(x) PROVE Next
  BY <1>1, ActIsNext DEF Act
<1>2. ASSUME NEW x \in Process, Faults(x) PROVE Next
  BY <1>2 DEF Faults, Next
<1> QED
  BY <1>1, <1>2 DEF FeedNext, feedVars, EmitStepStatusUpdate

LEMMA FeedIsGateway ==
  FeedInv /\ [FeedNext]_feedVars => [Gate!Next]_Gate!vars
PROOF
<1> SUFFICES ASSUME FeedInv, [FeedNext]_feedVars PROVE [Gate!Next]_Gate!vars
  OBVIOUS
<1>1. UNCHANGED gateway => Gate!vars' = Gate!vars
  BY DEF gateway, Gate!vars
<1>2. ASSUME NEW x \in Process, EmitStepStatusUpdate(x) PROVE G!Next
  <2>1. due[x] \in StepEvent
    BY <1>2 DEF FeedInv, EmitStepStatusUpdate
  <2> QED
    BY <1>2, <2>1 DEF EmitStepStatusUpdate, G!Next
<1>3. G!SocketNext => G!Next
  BY DEF G!Next
<1> QED
  BY <1>1, <1>2, <1>3, GatewaySame DEF FeedNext, feedVars, Act

(* What has succeeded has, for good.                                       *)
LEMMA SucceededStays == [Next]_vars => succeeded \subseteq succeeded'
PROOF
<1> SUFFICES ASSUME [Next]_vars PROVE succeeded \subseteq succeeded'
  OBVIOUS
<1>1. ASSUME NEW x, ExecuteStep(x) PROVE succeeded \subseteq succeeded'
  BY <1>1 DEF ExecuteStep, MarkUnhandled, MarkStepProcessing, FindJob, MarkJobProcessing,
     HandlerSucceeds, HandlerFails, MarkStepCompleted, MarkJobCompleted, MarkStepFailed,
     FindFailedJob, MarkJobFailed, history
<1>2. ASSUME NEW x, QueueNext(x) PROVE succeeded \subseteq succeeded'
  BY <1>2 DEF QueueNext, FindNext, CreateJob, LinkJob, QueueJobInBull, history
<1> QED
  BY <1>1, <1>2 DEF Next, WorkerStep, ServerStep, ProcessStepJob, WorkerFailsJob,
     WorkerFailsStep, RequestStep, CreateStep, ResetStep, FindStep, CreateStepSequence,
     ProcessNextStep, RetryStep, DatabaseFault, BullFault, Restart, history, vars

LEMMA AnnouncedIsTrue ==
  ASSUME FeedInv, NEW x \in Process, MarkAndAnnounce(x)
  PROVE  /\ due' \in [Process -> StepEvent \union {Nothing}]
         /\ \A y \in Process : due'[y] = due[y] \/ Tells(due'[y], succeeded')
PROOF
<1>1. \A y \in Process : due'[y] = IF y = x THEN due'[x] ELSE due[y]
  BY DEF FeedInv, MarkAndAnnounce, Announce
<1>2. proc[x].pc \in Executing /\ Step(x) \in 1..N
  BY Facts DEF FeedInv, MarkAndAnnounce, MarkUnhandled, MarkStepProcessing,
     MarkStepCompleted, MarkStepFailed, AtPc, ProcOK, Fits, Step, Executing
<1>3. ASSUME NEW status \in {"PROCESSING", "COMPLETED", "FAILED"}, Announce(x, status),
             status = "COMPLETED" => Step(x) \in succeeded'
      PROVE  /\ due' \in [Process -> StepEvent \union {Nothing}]
             /\ \A y \in Process : due'[y] = due[y] \/ Tells(due'[y], succeeded')
  <2> DEFINE event == [step |-> Step(x), status |-> status]
  <2>1. event \in StepEvent /\ event.status = status /\ event.step = Step(x)
    BY <1>2 DEF StepEvent
  <2>2. due' = [due EXCEPT ![x] = event]
    BY <1>3 DEF Announce
  <2> HIDE DEF event
  <2> QED
    BY <1>1, <1>3, <2>1, <2>2 DEF FeedInv, Tells
<1>4. MarkStepCompleted(x) => Step(x) \in succeeded'
  BY Facts DEF FeedInv, MarkStepCompleted, AtPc, ProcOK, Fits, Step, history
<1> QED
  BY <1>3, <1>4 DEF MarkAndAnnounce

LEMMA EmittedIsTrue ==
  ASSUME FeedInv, NEW x \in Process, EmitStepStatusUpdate(x)
  PROVE  \A k \in DOMAIN sent'[Owner] :
           Tells(sent'[Owner][k], succeeded) \/ (k \in DOMAIN sent[Owner] /\ sent'[Owner][k] = sent[Owner][k])
PROOF
<1>1. due[x] \in StepEvent /\ Tells(due[x], succeeded)
  BY DEF FeedInv, EmitStepStatusUpdate
<1>2. sent \in [{Owner} -> Seq(StepEvent)]
  BY DEF FeedInv, Gate!IInv, Gate!TypeOK
<1>3. sent'[Owner] = Append(sent[Owner], due[x])
  BY <1>2 DEF EmitStepStatusUpdate, G!EmitToRoom
<1> DEFINE before == sent[Owner]
<1>4. before \in Seq(StepEvent)
  BY <1>2
<1>5. \A k \in DOMAIN Append(before, due[x]) :
        \/ Append(before, due[x])[k] = due[x]
        \/ k \in DOMAIN before /\ Append(before, due[x])[k] = before[k]
  <2> HIDE DEF before
  <2> QED
    BY <1>1, <1>4
<1> QED
  BY <1>1, <1>3, <1>5

LEMMA NextFeed == FeedInv /\ [FeedNext]_feedVars => FeedInv'
PROOF
<1> SUFFICES ASSUME FeedInv, [FeedNext]_feedVars PROVE FeedInv'
  OBVIOUS
<1>1. IInv' /\ succeeded \subseteq succeeded'
  BY FeedIsQueue, NextKeeps, SucceededStays DEF FeedInv
<1>2. Gate!IInv'
  BY FeedIsGateway, Gate!NextKeeps DEF FeedInv
<1>3. \A e : Tells(e, succeeded) => Tells(e, succeeded')
  BY <1>1 DEF Tells
<1>4. /\ due' \in [Process -> StepEvent \union {Nothing}]
      /\ \A y \in Process : due'[y] = due[y] \/ due'[y] = Nothing \/ Tells(due'[y], succeeded')
  <2>1. CASE \E x \in Process : EmitStepStatusUpdate(x)
    BY <2>1 DEF EmitStepStatusUpdate, FeedInv
  <2>2. CASE due' = due
    BY <2>2 DEF FeedInv
  <2> QED
    BY <2>1, <2>2, AnnouncedIsTrue DEF FeedNext, feedVars, Act
<1>5. \A y \in Process : due'[y] # Nothing => Tells(due'[y], succeeded')
  BY <1>3, <1>4 DEF FeedInv
<1>6. CompletedIsTrue'
  <2>1. CASE \E x \in Process : EmitStepStatusUpdate(x)
    BY <1>3, <2>1, EmittedIsTrue DEF FeedInv, CompletedIsTrue, Tells
  <2>2. CASE sent' = sent
    BY <1>1, <2>2 DEF FeedInv, CompletedIsTrue
  <2>3. G!SocketNext => sent' = sent
    BY DEF G!SocketNext, G!Connect, G!HandleConnection, G!ClientLeaves, G!DeleteUser,
       G!VerifyToken, G!FindUser, G!FindUserFails, G!Join, G!Welcome, G!Refuse
  <2> QED
    BY <2>1, <2>2, <2>3 DEF FeedNext, feedVars, Act, gateway
<1> QED
  BY <1>1, <1>2, <1>4, <1>5, <1>6 DEF FeedInv

(* The composition runs the queue and the gateway as they are: neither     *)
(* does what it would not do alone.                                        *)
THEOREM FeedRunsBoth == FeedSpec => Spec /\ G!Init /\ [][G!Next]_G!vars
PROOF
<1>1. FeedInit => Init /\ G!Init
  BY DEF FeedInit
<1>2. FeedInv /\ [FeedNext]_feedVars => [Next]_vars /\ [G!Next]_G!vars
  BY FeedIsQueue, FeedIsGateway, GatewaySame
<1> QED
  BY <1>1, <1>2, InitFeed, NextFeed, PTL DEF FeedSpec, Spec

(* The events, the sockets and the rooms have their types.                 *)
THEOREM FeedTypeCorrect == FeedSpec => []FeedTypeOK
PROOF
<1>1. FeedInv => FeedTypeOK
  BY GatewaySame DEF FeedInv, FeedTypeOK, Gate!IInv
<1> QED
  BY <1>1, InitFeed, NextFeed, PTL DEF FeedSpec

(* Clients are told that a step is completed only if a handler of it has   *)
(* succeeded: an event is held by its process until it is emitted, and     *)
(* whoever holds one has marked the step, which only a success leads to.   *)
THEOREM CompletedEventsAreTrue == FeedSpec => []CompletedIsTrue
PROOF
<1>1. FeedInv => CompletedIsTrue
  BY DEF FeedInv
<1> QED
  BY <1>1, InitFeed, NextFeed, PTL DEF FeedSpec

(* On one server a welcomed client is sent every event of its sequence     *)
(* that is emitted from then on, in order.                                 *)
THEOREM FeedMissesNothing ==
  ASSUME Gate!OneInstance
  PROVE  FeedSpec => []G!NothingMissed
PROOF
<1>1. FeedInit => Gate!HistoryInv
  BY GatewaySame, Gate!InitHistory DEF FeedInit
<1>2. FeedInv /\ Gate!HistoryInv /\ [FeedNext]_feedVars => Gate!HistoryInv'
  BY FeedIsGateway, Gate!NextIsUpToDate
<1>3. Gate!HistoryInv => G!NothingMissed
  BY GatewaySame, Gate!HistoryMissesNothing
<1> QED
  BY <1>1, <1>2, <1>3, InitFeed, NextFeed, PTL DEF FeedSpec

-----------------------------------------------------------------------------
(* What is out when nothing overlaps: every status but PENDING was         *)
(* announced, and a step of which there was an event is PENDING only while *)
(* a retry is on its way to it.                                            *)

Out(e) == \/ \E k \in DOMAIN sent[Owner] : sent[Owner][k] = e
          \/ \E x \in Process : due[x] = e

Away(i) == \/ steps[i].status # "PENDING"
           \/ \E x \in Process : Step(x) = i /\ proc[x].pc \in {"find", "execute"}

IsOut(i) == \E e \in StepEvent : e.step = i /\ e.status = steps[i].status /\ Out(e)

OutInv ==
  /\ \A e \in StepEvent : Out(e) => e.step \in Ids /\ Away(e.step)
  /\ \A i \in Ids : steps[i].status # "PENDING" => IsOut(i)

LEMMA AwayStays ==
  ASSUME Undisturbed, IInv, SerialInv, [Next]_vars, NEW i \in Ids, Away(i)
  PROVE  i \in Ids' /\ Away(i)'
PROOF
<1> USE DEF Turns, Ends
<1>1. Worker \in Process /\ (\A r \in Request : r \in Process) /\ (\A x \in Process : Work(x))
  BY DEF Process, SerialInv
\* Whoever was on the way still is, unless it is the process that moves.
<1>2. ASSUME NEW x \in Process, OthersSame(x), i \in Ids',
             \/ steps'[i].status # "PENDING"
             \/ /\ steps'[i].status = steps[i].status
                /\ ~(Step(x) = i /\ proc[x].pc \in {"find", "execute"})
      PROVE  Away(i)'
  <2>1. CASE steps'[i].status # "PENDING"
    BY <2>1 DEF Away
  <2>2. CASE steps'[i].status = steps[i].status /\ steps[i].status = "PENDING"
    <3>1. PICK y \in Process : Step(y) = i /\ proc[y].pc \in {"find", "execute"}
      BY <2>2 DEF Away
    <3>2. CASE y # x
      <4>1. proc'[y] = proc[y]
        BY <1>2, <3>2 DEF OthersSame
      <4> QED
        BY <3>1, <4>1 DEF Away, Step
    <3> QED
      BY <1>2, <2>2, <3>1, <3>2
  <2> QED
    BY <1>2, <2>1, <2>2
<1>3. ASSUME NEW x \in Process, ExecuteStep(x) PROVE i \in Ids' /\ Away(i)'
  <2>1. OthersSame(x) /\ i \in Ids'
    BY <1>3, ExecuteMoves DEF Sets, SameStatus
  <2>2. CASE SameStatus
    BY <1>2, <1>3, <2>1, <2>2, ExecuteMoves DEF SameStatus, Sets
  <2>3. CASE \E st \in {"PROCESSING", "COMPLETED", "FAILED"} : Sets(Step(x), st)
    BY <1>2, <2>1, <2>3 DEF Sets
  <2> QED
    BY <1>3, <2>1, <2>2, <2>3, ExecuteMoves
<1>4. ASSUME NEW x \in Process, QueueNext(x) \/ BullFault(x) PROVE i \in Ids' /\ Away(i)'
  BY <1>2, <1>4, QueueMoves, BullFaultMoves DEF SameStatus
<1>5. ASSUME ProcessStepJob \/ WorkerFailsJob \/ WorkerFailsStep PROVE i \in Ids' /\ Away(i)'
  BY <1>1, <1>2, <1>5, WorkerMoves DEF SameStatus, Work
<1>6. ASSUME NEW r \in Request,
             \/ ProcessNextStep(r) \/ ResetStep(r) \/ FindStep(r) \/ CreateStepSequence(r)
             \/ \E k \in Ids : RetryStep(r, k)
      PROVE  i \in Ids' /\ Away(i)'
  <2>1. r \in Process /\ Work(r) /\ OthersSame(r) /\ Lists = {}
    BY <1>1, <1>6, RequestMoves DEF Undisturbed
  <2>2. i \in Ids'
    BY <1>6, RequestMoves DEF Sets, SameStatus
  <2>3. CASE Sets(Step(r), "PENDING") /\ Turns(r, "reset", "find")
    <3>1. CASE i = Step(r)
      BY <2>1, <2>2, <2>3, <3>1 DEF Away, Step
    <3>2. CASE i # Step(r)
      BY <1>2, <2>1, <2>2, <2>3, <3>2 DEF Sets
    <3> QED
      BY <3>1, <3>2
  <2>4. CASE SameStatus /\ proc[r].pc = "find" /\ Step(r) = i
    <3>1. NextPending(Ids) = {i}
      BY <2>1, <2>4, PendingFound DEF Work
    <3>2. proc'[r].pc = "execute" /\ proc'[r].step = i
      BY <1>6, <2>4, <3>1, RequestMoves DEF Sets
    <3> QED
      BY <2>1, <2>2, <3>2 DEF Away, Step
  <2>5. CASE SameStatus /\ ~(proc[r].pc = "find" /\ Step(r) = i)
    <3>1. proc[r].pc # "execute"
      BY <1>6, RequestMoves
    <3> QED
      BY <1>2, <2>1, <2>2, <2>5, <3>1 DEF SameStatus
  <2> QED
    BY <1>6, <2>3, <2>4, <2>5, RequestMoves
<1>7. ASSUME NEW r \in Request, CreateStep(r) PROVE i \in Ids' /\ Away(i)'
  <2>1. OthersSame(r) /\ proc[r].pc = "createSteps"
    BY <1>1, <1>7, Facts DEF CreateStep, AtPc, OthersSame
  <2>2. i \in Ids' /\ steps'[i].status = steps[i].status
    BY <1>7, CreateStepStatus
  <2> QED
    BY <1>1, <1>2, <2>1, <2>2
<1>8. CASE UNCHANGED vars
  BY <1>8 DEF vars, Away, Step, Ids
<1> QED
  BY <1>1, <1>3, <1>4, <1>5, <1>6, <1>7, <1>8, NoTrouble
  DEF Next, WorkerStep, RequestStep, ServerStep

\* What is not announced leaves a status alone or puts a step back.
LEMMA SilentIsPending ==
  ASSUME Undisturbed, IInv, SerialInv, NEW x \in Process, Silent(x) \/ BullFault(x),
         NEW i \in Ids', steps'[i].status # "PENDING"
  PROVE  i \in Ids /\ steps[i].status = steps'[i].status
PROOF
<1>1. CASE SameStatus
  BY <1>1 DEF SameStatus
<1>2. ASSUME NEW k, Sets(k, "PENDING") PROVE i \in Ids /\ steps[i].status = steps'[i].status
  BY <1>2 DEF Sets
<1>3. CASE x = Worker /\ (ProcessStepJob \/ WorkerFailsJob \/ WorkerFailsStep)
  <2>1. Work(Worker)
    BY <1>3 DEF SerialInv
  <2> QED
    BY <1>1, <1>3, <2>1, WorkerMoves DEF Work, Turns, Ends
<1>4. ASSUME x \in Request, CreateStep(x)
      PROVE i \in Ids /\ steps[i].status = steps'[i].status
  <2>1. i \in 1..(Len(steps) + 1) => i \in 1..Len(steps) \/ i = Len(steps) + 1
    BY <1>4, CreateStepStatus
  <2> QED
    BY <1>4, <2>1, CreateStepStatus
<1>5. ASSUME x \in Request,
             \/ ProcessNextStep(x) \/ ResetStep(x) \/ FindStep(x) \/ CreateStepSequence(x)
             \/ \E k \in Ids : RetryStep(x, k)
      PROVE  i \in Ids /\ steps[i].status = steps'[i].status
  BY <1>1, <1>2, <1>5, RequestMoves
<1>6. CASE QueueNext(x) \/ BullFault(x)
  BY <1>1, <1>6, QueueMoves, BullFaultMoves
<1>7. CASE steps' = steps
  BY <1>1, <1>7, StepsSame
<1> QED
  BY <1>3, <1>4, <1>5, <1>6, <1>7
  DEF Silent, FindJob, MarkJobProcessing, HandlerSucceeds, HandlerFails, MarkJobCompleted,
      FindFailedJob, MarkJobFailed

LEMMA AnnouncedIsSet ==
  ASSUME FeedInv, NEW x \in Process, MarkAndAnnounce(x)
  PROVE  \E status \in {"PROCESSING", "COMPLETED", "FAILED"} :
           Sets(Step(x), status) /\ Announce(x, status)
PROOF
<1>1. IInv
  BY DEF FeedInv
<1>2. Step(x) \in Ids
  BY <1>1, Facts DEF MarkAndAnnounce, MarkUnhandled, MarkStepProcessing,
     MarkStepCompleted, MarkStepFailed, AtPc, ProcOK, Fits, Step, Executing
<1>3. \A status \in Status : SetStep(Step(x), status) => Sets(Step(x), status)
  BY <1>1, <1>2, SetStepSets
<1> QED
  BY <1>3 DEF MarkAndAnnounce, MarkUnhandled, MarkStepProcessing, MarkStepCompleted,
     MarkStepFailed, Status

\* An announcement adds its event to those that are out ...
LEMMA AnnouncedIsOut ==
  ASSUME FeedInv, NothingAssumption, NEW x \in Process, NEW status,
         due[x] = Nothing, Announce(x, status), UNCHANGED gateway, NEW e \in StepEvent
  PROVE  Out(e)' <=> Out(e) \/ e = [step |-> Step(x), status |-> status]
PROOF
<1>1. sent' = sent
  BY DEF gateway
<1>2. \A y \in Process :
        due'[y] = IF y = x THEN [step |-> Step(x), status |-> status] ELSE due[y]
  BY DEF FeedInv, Announce
<1> QED
  BY <1>1, <1>2 DEF Out, NothingAssumption

\* ... which the emission keeps.
LEMMA EmittedIsOut ==
  ASSUME FeedInv, NothingAssumption, NEW x \in Process, EmitStepStatusUpdate(x),
         NEW e \in StepEvent
  PROVE  Out(e)' <=> Out(e)
PROOF
<1>1. due[x] \in StepEvent
  BY DEF FeedInv, EmitStepStatusUpdate
<1>2. sent \in [{Owner} -> Seq(StepEvent)]
  BY DEF FeedInv, Gate!IInv, Gate!TypeOK
<1> DEFINE before == sent[Owner]
           after == Append(before, due[x])
<1>3. sent'[Owner] = after
  BY <1>2 DEF EmitStepStatusUpdate, G!EmitToRoom
<1>4. before \in Seq(StepEvent)
  BY <1>2
<1>5. (\E k \in DOMAIN after : after[k] = e) <=> (\E k \in DOMAIN before : before[k] = e) \/ e = due[x]
  <2> HIDE DEF before
  <2>1. /\ Len(after) = Len(before) + 1 /\ DOMAIN after = 1..(Len(before) + 1)
        /\ DOMAIN before = 1..Len(before) /\ Len(before) \in Nat
        /\ \A k \in 1..Len(before) : after[k] = before[k]
        /\ after[Len(before) + 1] = due[x]
    BY <1>1, <1>4
  <2> HIDE DEF after
  <2>2. \A k \in DOMAIN after : k \in DOMAIN before \/ k = Len(before) + 1
    BY <2>1
  <2> QED
    BY <2>1, <2>2
<1>6. \A y \in Process : due'[y] = IF y = x THEN Nothing ELSE due[y]
  BY DEF FeedInv, EmitStepStatusUpdate
<1> HIDE DEF before, after
<1>7. (\E y \in Process : due'[y] = e) <=> \E y \in Process : y # x /\ due[y] = e
  BY <1>6 DEF NothingAssumption
<1> QED
  BY <1>3, <1>5, <1>7 DEF Out, before

LEMMA NextOut ==
  ASSUME NothingAssumption, Undisturbed, FeedInv, SerialInv, OutInv, [FeedNext]_feedVars
  PROVE  OutInv'
PROOF
<1>1. IInv /\ [Next]_vars /\ IInv'
  BY FeedIsQueue, NextKeeps DEF FeedInv
<1>2. \A i \in Ids : Away(i) => i \in Ids' /\ Away(i)'
  BY <1>1, AwayStays
\* What announces nothing.
<1>4. ASSUME \A e \in StepEvent : Out(e)' <=> Out(e),
             \A i \in Ids' : steps'[i].status # "PENDING" =>
               i \in Ids /\ steps[i].status = steps'[i].status
      PROVE  OutInv'
  <2>1. ASSUME NEW i \in Ids', steps'[i].status # "PENDING" PROVE IsOut(i)'
    BY <1>4, <2>1 DEF OutInv, IsOut
  <2>2. ASSUME NEW e \in StepEvent, Out(e)' PROVE e.step \in Ids' /\ Away(e.step)'
    BY <1>2, <1>4, <2>2 DEF OutInv
  <2> QED
    BY <2>1, <2>2 DEF OutInv
<1>5. ASSUME due' = due, sent' = sent PROVE \A e \in StepEvent : Out(e)' <=> Out(e)
  BY <1>5 DEF Out
<1>6. ASSUME steps' = steps
      PROVE  \A i \in Ids' : i \in Ids /\ steps[i].status = steps'[i].status
  BY <1>6 DEF Ids
<1>7. ASSUME NEW x \in Process, EmitStepStatusUpdate(x) PROVE OutInv'
  <2>1. steps' = steps
    BY <1>7 DEF EmitStepStatusUpdate, vars
  <2> QED
    BY <1>4, <1>6, <1>7, <2>1, EmittedIsOut
<1>8. ASSUME NEW x \in Process, Silent(x) \/ Faults(x), UNCHANGED <<due, gateway>>
      PROVE  OutInv'
  <2>1. Silent(x) \/ BullFault(x)
    BY <1>1, <1>8, NoTrouble DEF Faults
  <2> QED
    BY <1>1, <1>4, <1>5, <1>8, <2>1, SilentIsPending DEF gateway
<1>9. ASSUME NEW x \in Process, MarkAndAnnounce(x), due[x] = Nothing, UNCHANGED gateway
      PROVE  OutInv'
  <2>1. PICK status \in {"PROCESSING", "COMPLETED", "FAILED"} :
          Sets(Step(x), status) /\ Announce(x, status)
    BY <1>9, AnnouncedIsSet
  <2> DEFINE event == [step |-> Step(x), status |-> status]
  <2>2. \A e \in StepEvent : Out(e)' <=> Out(e) \/ e = event
    BY <1>9, <2>1, AnnouncedIsOut
  <2>3. ASSUME NEW e \in StepEvent, Out(e)' PROVE e.step \in Ids' /\ Away(e.step)'
    <3>1. CASE Out(e)
      BY <1>2, <3>1 DEF OutInv
    <3>2. CASE e = event
      BY <2>1, <3>2 DEF Sets, Away
    <3> QED
      BY <2>2, <2>3, <3>1, <3>2
  <2>4. event \in StepEvent /\ event.step = Step(x) /\ event.status = status
    <3>1. Step(x) \in 1..N
      BY <1>1, <2>1, Facts DEF Sets
    <3> QED
      BY <2>1, <3>1 DEF StepEvent
  <2> HIDE DEF event
  <2>5. ASSUME NEW i \in Ids', steps'[i].status # "PENDING" PROVE IsOut(i)'
    <3>1. CASE i = Step(x)
      BY <2>1, <2>2, <2>4, <3>1 DEF Sets, IsOut
    <3>2. CASE i # Step(x)
      BY <2>1, <2>2, <2>5, <3>2 DEF Sets, OutInv, IsOut
    <3> QED
      BY <3>1, <3>2
  <2> QED
    BY <2>3, <2>5 DEF OutInv
<1>10. CASE UNCHANGED <<vars, due>> /\ (G!SocketNext \/ UNCHANGED gateway)
  <2>1. sent' = sent
    BY <1>10 DEF gateway, G!SocketNext, G!Connect, G!HandleConnection, G!ClientLeaves,
       G!DeleteUser, G!VerifyToken, G!FindUser, G!FindUserFails, G!Join, G!Welcome, G!Refuse
  <2> QED
    BY <1>4, <1>5, <1>6, <1>10, <2>1 DEF vars
<1> QED
  BY <1>7, <1>8, <1>9, <1>10 DEF FeedNext, feedVars, Act

LEMMA QuietTells ==
  ASSUME NothingAssumption, FeedInv, OutInv, G!NothingMissed
  PROVE  QuietIsTold
PROOF
<1> SUFFICES ASSUME AllQuiet, NEW s \in Socket, G!Welcomed(s), since[s] = 0, NEW i \in Ids
             PROVE  IF steps[i].status = "PENDING" THEN Heard(s, i) = {}
                    ELSE HeardThat(s, i, steps[i].status)
  BY DEF QuietIsTold
<1>1. sent \in [{Owner} -> Seq(StepEvent)] /\ token[s] = Owner
  BY DEF FeedInv, Gate!IInv, Gate!TypeOK, Gate!SocketOK, Gate!Verified, G!Welcomed
<1>2. got[s] = sent[Owner] /\ sent[Owner] \in Seq(StepEvent)
  <2>1. PICK from \in 1..(0 + 1) :
          got[s] = SubSeq(sent[Owner], from, Len(sent[Owner]))
    BY <1>1 DEF G!NothingMissed
  <2> DEFINE all == sent[Owner]
  <2>2. all \in Seq(StepEvent) /\ from = 1
    BY <1>1
  <2> HIDE DEF all
  <2>3. SubSeq(all, 1, Len(all)) = all
    BY <2>2
  <2> QED
    BY <2>1, <2>2, <2>3 DEF all
<1>3. \A e \in StepEvent : Out(e) <=> \E k \in DOMAIN got[s] : got[s][k] = e
  BY <1>2 DEF Out, AllQuiet, NothingAssumption
<1>4. \A x \in Process : proc[x].pc \notin {"find", "execute"}
  BY DEF AllQuiet, Quiet, AtPc
<1>5. CASE steps[i].status = "PENDING"
  <2>1. ~Away(i)
    BY <1>4, <1>5 DEF Away
  <2>2. ASSUME NEW k \in DOMAIN got[s] PROVE got[s][k].step # i
    <3>1. got[s][k] \in StepEvent
      BY <1>2, <2>2
    <3>2. Out(got[s][k])
      BY <1>3, <2>2, <3>1
    <3> QED
      BY <2>1, <3>1, <3>2 DEF OutInv
  <2> QED
    BY <1>5, <2>2 DEF Heard
<1>6. CASE steps[i].status # "PENDING"
  <2>1. PICK e \in StepEvent : e.step = i /\ e.status = steps[i].status /\ Out(e)
    BY <1>6 DEF OutInv, IsOut
  <2> QED
    BY <1>3, <1>6, <2>1 DEF HeardThat, Heard
<1> QED
  BY <1>5, <1>6

(* While nothing overlaps and nothing but Bull and the handlers fails, a   *)
(* client that was welcomed before the first event has heard, once the     *)
(* queue is quiet and nothing is left to be emitted, of the status of      *)
(* every step that was worked on, and of none that was not.                *)
THEOREM QuietClientsAreTold ==
  ASSUME NothingAssumption, Undisturbed, Gate!OneInstance
  PROVE  FeedSpec => []QuietIsTold
PROOF
<1>1. FeedInit => SerialInv /\ OutInv
  <2> SUFFICES ASSUME FeedInit PROVE OutInv
    BY InitSerial DEF FeedInit
  <2>1. Ids = {} /\ DOMAIN sent[Owner] = {} /\ \A x \in Process : due[x] = Nothing
    BY EmptySeq DEF FeedInit, Init, G!Init, Ids
  <2> QED
    BY <2>1 DEF OutInv, Out, NothingAssumption
<1>2. FeedInv /\ SerialInv /\ OutInv /\ [FeedNext]_feedVars => SerialInv' /\ OutInv'
  BY FeedIsQueue, NextSerial, NextOut DEF FeedInv
<1>3. FeedInv /\ OutInv /\ G!NothingMissed => QuietIsTold
  BY QuietTells
<1> QED
  BY <1>1, <1>2, <1>3, InitFeed, NextFeed, FeedMissesNothing, PTL DEF FeedSpec
=============================================================================
