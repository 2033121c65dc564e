------------------------------ MODULE StepFeed ------------------------------
(***************************************************************************)
(* The step queue and the WebSocket gateway together: emitStepStatusUpdate *)
(* emits the row of a step to its user's room once the update of the row   *)
(* has returned.  The server stays up (Restart is StepQueue's alone).      *)
(***************************************************************************)
EXTENDS StepQueue

CONSTANTS
  Owner,     \* the user of the sequence
  Nothing,   \* nothing to emit
  Socket, Instance, BadToken, MaxEvents \* as in Gateway

VARIABLES
  due,  \* the event each process has still to emit, or Nothing
  users, handler, token, server, connected, room, sent, got, since

StepEvent == [step : 1..N, status : {"PROCESSING", "COMPLETED", "FAILED"}]

G == INSTANCE Gateway WITH User <- {Owner}, Event <- StepEvent

NothingAssumption == Nothing \notin StepEvent

gateway == <<users, handler, token, server, connected, room, sent, got, since>>
feedVars == <<vars, due, gateway>>

FeedInit ==
  /\ Init
  /\ G!Init
  /\ due = [x \in Process |-> Nothing]

-----------------------------------------------------------------------------
(* The step's row is returned by the update, and emitted afterwards. *)

Announce(x, status) ==
  due' = [due EXCEPT ![x] = [step |-> Step(x), status |-> status]]

MarkAndAnnounceSuccess(x) == \* faulty: no failure is announced
  \/ (MarkUnhandled(x) \/ MarkStepFailed(x)) /\ UNCHANGED due
  \/ MarkStepProcessing(x) /\ Announce(x, "PROCESSING")
  \/ MarkStepCompleted(x) /\ Announce(x, "COMPLETED")
MarkAndAnnounce(x) ==
  \/ MarkUnhandled(x) /\ Announce(x, "FAILED")
  \/ MarkStepProcessing(x) /\ Announce(x, "PROCESSING")
  \/ MarkStepCompleted(x) /\ Announce(x, "COMPLETED")
  \/ MarkStepFailed(x) /\ Announce(x, "FAILED")

\* Everything else a process does, retryStep's reset and the catch of
\* processStepJob among it, is emitted to nobody.
Silent(x) ==
  \/ x = Worker /\ (ProcessStepJob \/ WorkerFailsJob \/ WorkerFailsStep)
  \/ x \in Request /\ (\/ CreateStepSequence(x) \/ CreateStep(x)
                       \/ ProcessNextStep(x) \/ ResetStep(x) \/ FindStep(x)
                       \/ \E i \in Ids : RetryStep(x, i))
  \/ FindJob(x) \/ MarkJobProcessing(x) \/ HandlerSucceeds(x) \/ HandlerFails(x)
  \/ MarkJobCompleted(x) \/ FindFailedJob(x) \/ MarkJobFailed(x)
  \/ QueueNext(x)

EmitStepStatusUpdate(x) ==
  /\ due[x] # Nothing
  /\ \E i \in Instance : G!EmitToRoom(i, Owner, due[x])
  /\ due' = [due EXCEPT ![x] = Nothing]
  /\ UNCHANGED vars

-----------------------------------------------------------------------------
Faults(x) == DatabaseFault(x) \/ BullFault(x)

Act(x) ==
  /\ due[x] = Nothing
  /\ MarkAndAnnounce(x) \/ (Silent(x) /\ UNCHANGED due)
  /\ UNCHANGED gateway

FeedNext ==
  \/ \E x \in Process :
       \/ Act(x)
       \/ EmitStepStatusUpdate(x)
       \/ due[x] = Nothing /\ Faults(x) /\ UNCHANGED <<due, gateway>>
  \/ G!SocketNext /\ UNCHANGED <<vars, due>>

\* As in StepQueue and Gateway; an update that returned is followed by its
\* emission.
FeedFairness ==
  /\ WF_feedVars(EmitStepStatusUpdate(Worker))
  /\ WF_feedVars(WorkerStep /\ Act(Worker))
  /\ \A r \in Request : /\ WF_feedVars(EmitStepStatusUpdate(r))
                        /\ WF_feedVars(RequestStep(r) /\ Act(r))
  /\ \A s \in Socket : WF_feedVars(G!HandleConnection(s) /\ UNCHANGED <<vars, due>>)

FeedSpec == FeedInit /\ [][FeedNext]_feedVars /\ FeedFairness

-----------------------------------------------------------------------------
(* The shape of what the composition adds. *)
FeedTypeOK ==
  /\ due \in [Process -> StepEvent \union {Nothing}]
  /\ G!TypeOK

Heard(s, i) == {k \in DOMAIN got[s] : got[s][k].step = i}
HeardThat(s, i, status) == \E k \in Heard(s, i) : got[s][k].status = status
\* Nothing runs, waits or is still to be emitted.
AllQuiet == Quiet /\ \A x \in Process : due[x] = Nothing

(* Clients are told that a step is completed only if a handler of it has   *)
(* succeeded, whoever works on the step and whatever fails.                *)
CompletedIsTrue ==
  \A k \in DOMAIN sent[Owner] :
    sent[Owner][k].status = "COMPLETED" => sent[Owner][k].step \in succeeded

(* While calls of the database succeed, a client that was welcomed before  *)
(* the first event has, once the queue is quiet, heard the status of every *)
(* step that was worked on, though not always last: an event may be        *)
(* overtaken by one of a process that was quicker.                         *)
QuietIsTold ==
  AllQuiet =>
    \A s \in Socket : G!Welcomed(s) /\ since[s] = 0 =>
      \A i \in Ids :
        IF steps[i].status = "PENDING" THEN Heard(s, i) = {}
        ELSE HeardThat(s, i, steps[i].status)

\* The sequence has finished or failed as far as the client was told.
ToldTheEnd(s) ==
  \E k \in DOMAIN got[s] :
    \/ got[s][k].status = "FAILED"
    \/ got[s][k] = [step |-> N, status |-> "COMPLETED"]

(* A client that is welcomed before a sequence's first job is handed out   *)
(* and stays is told the sequence's end, without asking.                   *)
ClientIsToldTheEnd ==
  \A s \in Socket :
    (G!Welcomed(s) /\ bull # <<>> /\ started = {}) ~>
      (ToldTheEnd(s) \/ s \notin connected \/ Len(sent[Owner]) = MaxEvents)
=============================================================================
