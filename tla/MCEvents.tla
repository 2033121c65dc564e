------------------------------ MODULE MCEvents ------------------------------
(***************************************************************************)
(* Small instances, for TLC, of what clients are told over WebSockets: the *)
(* gateway alone with two clients, and with the step queue that emits to   *)
(* it, one request at a time or two that also process by hand.  A          *)
(* behaviour is one of them, its part; the gateway alone leaves the queue  *)
(* as it begins.                                                           *)
(***************************************************************************)
EXTENDS Naturals, Sequences

CONSTANTS
  Parts,  \* what is checked
  worker, r1, r2, nothing, s1, s2, u1, u2, e1, e2, i1, bad

VARIABLES
  part,
  steps, jobs, bull, proc, trouble, bullFaults, started, succeeded, due,
  users, handler, token, server, connected, room, sent, got, since

-----------------------------------------------------------------------------
\* One request at a time, no process-next; handlers and Bull may fail, and a
\* client comes and goes.
Feed == INSTANCE StepFeed WITH
  Worker <- worker, Request <- {r1}, N <- 2, Handled <- {TRUE, FALSE},
  Lists <- {}, MaxJobs <- 3, MaxTrouble <- 0, MaxBullFaults <- 1,
  Owner <- u1, Nothing <- nothing, Socket <- {s1}, Instance <- {i1},
  BadToken <- bad, MaxEvents <- 5

\* Two requests that also process by hand and a call of the database that
\* fails: what is emitted, whoever listens.
Overlap == INSTANCE StepFeed WITH
  Worker <- worker, Request <- {r1, r2}, N <- 1, Handled <- {TRUE, FALSE},
  Lists <- {{1}}, MaxJobs <- 2, MaxTrouble <- 1, MaxBullFaults <- 0,
  Owner <- u1, Nothing <- nothing, Socket <- {}, Instance <- {i1},
  BadToken <- bad, MaxEvents <- 3

\* Two clients of two users, or of one.
Gate == INSTANCE Gateway WITH
  Socket <- {s1, s2}, User <- {u1, u2}, Event <- {e1, e2}, Instance <- {i1},
  BadToken <- bad, MaxEvents <- 1

ASSUME GatewayAssumptions == Gate!BadTokenAssumption /\ Gate!MaxEventsAssumption
ASSUME FeedAssumptions == Feed!NothingAssumption /\ Overlap!NothingAssumption

queueVars == <<steps, jobs, bull, proc, trouble, bullFaults, started, succeeded, due>>
gatewayVars == <<users, handler, token, server, connected, room, sent, got, since>>
feedVars == <<queueVars, gatewayVars>>
allVars == <<part, feedVars>>

EventsInit ==
  /\ part \in Parts
  /\ \/ part = "feed" /\ Feed!FeedInit
     \/ part = "feed, two requests" /\ Overlap!FeedInit
     \/ part = "gateway" /\ Feed!Init /\ due = <<>> /\ Gate!Init

FeedStep == part = "feed" /\ Feed!FeedNext
OverlapStep == part = "feed, two requests" /\ Overlap!FeedNext
GatewayStep == part = "gateway" /\ Gate!Next /\ UNCHANGED queueVars

EventsNext == UNCHANGED part /\ (FeedStep \/ OverlapStep \/ GatewayStep)

\* As in the modules of the instances.
EventsFairness ==
  /\ WF_feedVars(part = "feed" /\ Feed!EmitStepStatusUpdate(worker))
  /\ WF_feedVars(part = "feed" /\ Feed!WorkerStep /\ Feed!Act(worker))
  /\ WF_feedVars(part = "feed" /\ Feed!EmitStepStatusUpdate(r1))
  /\ WF_feedVars(part = "feed" /\ Feed!RequestStep(r1) /\ Feed!Act(r1))
  /\ WF_feedVars(part = "feed" /\ Feed!G!HandleConnection(s1) /\ UNCHANGED queueVars)
  /\ \A s \in {s1, s2} : WF_gatewayVars(part = "gateway" /\ Gate!HandleConnection(s))

EventsSpec == EventsInit /\ [][EventsNext]_allVars /\ EventsFairness

-----------------------------------------------------------------------------
(* The properties of the instances.  What they state is told where they    *)
(* are defined.                                                            *)

(* Every part's state is of its type, and a room holds open sockets of its *)
(* user only.                                                              *)
EventsTypeOK ==
  CASE part = "feed" -> Feed!FeedTypeOK /\ Feed!G!RoomsHoldTheirOwn
    [] part = "feed, two requests" -> Overlap!FeedTypeOK
    [] part = "gateway" -> Gate!TypeOK /\ Gate!RoomsHoldTheirOwn

(* A client that was told 'connected' is sent every event from then on, in *)
(* order and with none of another's; a refused connection is closed and    *)
(* hears nothing.                                                          *)
NothingMissed ==
  /\ part = "feed" => Feed!G!NothingMissed /\ Feed!G!RefusedIsShut
  /\ part = "gateway" => Gate!NothingMissed /\ Gate!RefusedIsShut

(* A client is told that a step is completed only if a handler of it has   *)
(* succeeded, also when requests and the processor work on one step.  Once *)
(* the queue is quiet, clients have heard of every step.                   *)
EventsAreTrue ==
  /\ part = "feed" => Feed!CompletedIsTrue /\ Feed!QuietIsTold
  /\ part = "feed, two requests" => Overlap!CompletedIsTrue

(* A client is told the sequence's end without asking.  Every connection   *)
(* attempt is answered, or its client has gone; that of a user deleted     *)
(* before it began is never welcomed (the two clients are alike).          *)
ClientsAreAnswered ==
  /\ (/\ part = "feed" /\ s1 \in connected /\ handler[s1] = "welcomed"
      /\ bull # <<>> /\ started = {})
       ~> (part = "feed" => \/ Feed!ToldTheEnd(s1) \/ s1 \notin connected
                           \/ Len(sent[u1]) = 5)
  /\ (part = "gateway" /\ handler[s1] # "new")
       ~> (part = "gateway" => handler[s1] \in {"welcomed", "refused"})
  /\ [](part = "gateway" /\ Gate!OfDeleted(s1) => [](part = "gateway" => ~Gate!Welcomed(s1)))
=============================================================================
