----------------------------- MODULE ExamLedger -----------------------------
(***************************************************************************)
(* What the exam service promises about the life of an exam, with no word  *)
(* of requests, queries or the question bank: an exam is opened active,    *)
(* and ends exactly once, either completed with a score (at any time) or   *)
(* expired after its time is over.  Module Exams implements this when      *)
(* every user sends one request at a time.                                 *)
(***************************************************************************)
EXTENDS Naturals, Sequences

CONSTANTS
  User,            \* the users who sit exams
  Limits,          \* the time limits an exam may have, in minutes
  Scores,          \* the scores an exam may be handed in with
  TicksPerMinute   \* resolution of the clock

VARIABLES
  ledger,          \* the exams, in the order they were opened
  clock            \* the current time, in ticks

lvars == <<ledger, clock>>

LInit ==
  /\ ledger = <<>>
  /\ clock = 0

\* A user opens an exam of some number of minutes.
Open ==
  /\ \E u \in User, minutes \in Limits :
       ledger' = Append(ledger, [user |-> u, startedAt |-> clock,
                                 timeLimit |-> minutes,
                                 status |-> "active", score |-> 0])
  /\ UNCHANGED clock

\* An active exam is handed in, on time or late, with some score.
Complete(i) ==
  /\ ledger[i].status = "active"
  /\ \E n \in Scores :
       ledger' = [ledger EXCEPT ![i].status = "completed", ![i].score = n]
  /\ UNCHANGED clock

\* An active exam whose minutes have all passed is closed unanswered.
Expire(i) ==
  /\ ledger[i].status = "active"
  /\ clock - ledger[i].startedAt >= ledger[i].timeLimit * TicksPerMinute
  /\ ledger' = [ledger EXCEPT ![i].status = "expired"]
  /\ UNCHANGED clock

Pass ==
  /\ clock' = clock + 1
  /\ UNCHANGED ledger

LNext ==
  \/ Open
  \/ \E i \in DOMAIN ledger : Complete(i) \/ Expire(i)
  \/ Pass

LSpec == LInit /\ [][LNext]_lvars
=============================================================================
