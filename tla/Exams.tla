------------------------------- MODULE Exams --------------------------------
(***************************************************************************)
(* The exam service: ExamsService.startExam, finish and the statistics,    *)
(* over the exams table, the question bank and the subjects and tickets.   *)
(*                                                                         *)
(* An HTTP request is a process: one action per awaited database call, the *)
(* synchronous code around the call belonging to the same action.  Between *)
(* two of them any other request runs.  A client sends one request at a    *)
(* time and forgets it when the answer arrives; a user may have several    *)
(* clients (tabs, devices).  The order of an exam's questions, the texts   *)
(* and the flags of saved questions in the answers are left out.           *)
(***************************************************************************)
EXTENDS Naturals, Integers, Sequences, FiniteSets

CONSTANTS
  User, Client,
  Owner,           \* Owner[c] is the user a client is signed in as
  Question,        \* ids of questions
  Subject, Ticket, \* ids of subjects and tickets
  None,            \* an absent id or date
  StartDto,        \* the bodies clients send to POST exams/start
  Submission,      \* the correctQuestionIds clients send to finish
  InitBank,        \* the question bank at the start
  EditedRows,      \* the rows administrators turn questions into
  RandomCount,     \* questions of a RANDOM exam (20)
  TicksPerMinute,  \* resolution of the clock
  MaxExams,        \* bound: exams ever created
  MaxTick,         \* bound: the clock
  MaxEdits         \* bound: changes of the bank, subjects and tickets

ExamType == {"SUBJECT", "TICKET", "RANDOM"}

Dto == [type : ExamType,
        subjectId : Subject \union {None}, ticketId : Ticket \union {None}]

(* A question row with its answers: "absent" is not created yet; valid     *)
(* says it has at least two live answers and exactly one correct one.      *)
QuestionRow == [state : {"absent", "live", "deleted"}, valid : BOOLEAN,
                subjectId : Subject, ticketId : Ticket]

ASSUME OwnerAssumption == Owner \in [Client -> User]
ASSUME NoneAssumption == None \notin Subject \union Ticket \union Nat
ASSUME DtoAssumption == StartDto \subseteq Dto
ASSUME SubmissionAssumption == Submission \subseteq Seq(Question)
ASSUME QuestionAssumption == IsFiniteSet(Question)
ASSUME BankAssumption == InitBank \in [Question -> QuestionRow]
ASSUME EditAssumption == EditedRows \subseteq QuestionRow
ASSUME RandomAssumption == RandomCount \in Nat \ {0}
ASSUME TicksAssumption == TicksPerMinute \in Nat \ {0}
ASSUME BoundsAssumption == MaxExams \in Nat /\ MaxTick \in Nat /\ MaxEdits \in Nat

VARIABLES
  exams,     \* the exams table, in order of creation
  bank,      \* the questions table
  catalog,   \* the subjects and tickets that are not deleted
  now,       \* the clock, in ticks
  edits,     \* changes of the bank so far (for the bound)
  req,       \* the request each client has in flight
  openedBy   \* history: the client whose request created each exam

vars == <<exams, bank, catalog, now, edits, req, openedBy>>

Pc == {"idle", "resume", "validate", "load", "create", "submit"}

Idle == [pc |-> "idle", dto |-> None, exam |-> 0, paper |-> {},
         submission |-> <<>>]

Init ==
  /\ exams = <<>>
  /\ bank = InitBank
  /\ catalog = Subject \union Ticket
  /\ now = 0
  /\ edits = 0
  /\ req = [c \in Client |-> Idle]
  /\ openedBy = <<>>

Ids == DOMAIN exams
AtPc(c, pc) == req[c].pc = pc
Send(c, request) == req' = [req EXCEPT ![c] = request]
Answer(c) == Send(c, Idle)
Goto(c, pc) == req' = [req EXCEPT ![c].pc = pc]

-----------------------------------------------------------------------------
(* startExam *)

\* findActiveExam's where clause: an id narrows the search only if it is
\* given, and only the id that goes with the type.
MatchesByBothIds(dto, user, e) == \* faulty: ids compared whatever the type
  /\ e.user = user /\ e.status = "active" /\ e.type = dto.type
  /\ e.subjectId = dto.subjectId /\ e.ticketId = dto.ticketId

Matches(dto, user, e) ==
  /\ e.user = user
  /\ e.status = "active"
  /\ e.type = dto.type
  /\ dto.type = "SUBJECT" /\ dto.subjectId # None => e.subjectId = dto.subjectId
  /\ dto.type = "TICKET" /\ dto.ticketId # None => e.ticketId = dto.ticketId

\* POST exams/start reaches the service with a body the DTO validation let
\* through (the ids are optional whatever the type).  findActiveExam: a
\* matching exam is resumed, any of them, for the query has no order.
StartExam(c, dto) ==
  /\ AtPc(c, "idle")
  /\ \/ \E i \in Ids :
          /\ Matches(dto, Owner[c], exams[i])
          /\ Send(c, [Idle EXCEPT !.pc = "resume", !.dto = dto, !.exam = i])
     \/ /\ \A i \in Ids : ~Matches(dto, Owner[c], exams[i])
        /\ Send(c, [Idle EXCEPT !.pc = "validate", !.dto = dto])
  /\ UNCHANGED <<exams, bank, catalog, now, edits, openedBy>>

\* formatExamResponse: whole minutes spent since the start.
TimeSpentRoundedUp(e) == \* faulty: ceil for floor
  (now - e.startedAt + TicksPerMinute - 1) \div TicksPerMinute
TimeSpent(e) == (now - e.startedAt) \div TicksPerMinute
RemainingTimeAndOne(e) == \* faulty: the last minute runs over
  IF e.timeLimit >= TimeSpent(e) THEN e.timeLimit + 1 - TimeSpent(e) ELSE 0
RemainingTime(e) ==
  IF e.timeLimit > TimeSpent(e) THEN e.timeLimit - TimeSpent(e) ELSE 0

\* formatExamResponse of an exam that was found active: if its time is over
\* it is expired by id, whatever its status has become meanwhile.
ResumeExam(c) ==
  LET i == req[c].exam IN
  /\ AtPc(c, "resume")
  /\ exams' = IF RemainingTime(exams[i]) <= 0
              THEN [exams EXCEPT ![i].status = "expired", ![i].endedAt = now]
              ELSE exams
  /\ Answer(c)
  /\ UNCHANGED <<bank, catalog, now, edits, openedBy>>

\* validateExamType: a SUBJECT or TICKET exam needs a live subject or ticket.
TargetIsLive(dto) ==
  CASE dto.type = "SUBJECT" -> dto.subjectId \in catalog
    [] dto.type = "TICKET" -> dto.ticketId \in catalog
    [] dto.type = "RANDOM" -> TRUE

ValidateExamType(c) ==
  /\ AtPc(c, "validate")
  /\ IF TargetIsLive(req[c].dto) THEN Goto(c, "load") ELSE Answer(c)
  /\ UNCHANGED <<exams, bank, catalog, now, edits, openedBy>>

\* getQuestionsByType: the live questions of the subject or ticket, or all.
QuestionsOf(dto) ==
  {q \in Question :
     /\ bank[q].state = "live"
     /\ dto.type = "SUBJECT" => bank[q].subjectId = dto.subjectId
     /\ dto.type = "TICKET" => bank[q].ticketId = dto.ticketId}

\* validateQuestions looks at every question found, also for RANDOM, before
\* the selection.
UsableUncounted(found, required) == \A q \in found : bank[q].valid \* faulty
Usable(found, required) ==
  /\ Cardinality(found) >= required
  /\ \A q \in found : bank[q].valid

\* The question sets the exam may get: for RANDOM any RandomCount of them.
Papers(dto) ==
  LET found == QuestionsOf(dto) IN
  IF dto.type = "RANDOM"
  THEN IF Usable(found, RandomCount)
       THEN {p \in SUBSET found : Cardinality(p) = RandomCount}
       ELSE {}
  ELSE IF Usable(found, 1) THEN {found} ELSE {}

GetQuestionsByType(c) ==
  /\ AtPc(c, "load")
  /\ \/ \E p \in Papers(req[c].dto) :
          req' = [req EXCEPT ![c].pc = "create", ![c].paper = p]
     \/ Papers(req[c].dto) = {} /\ Answer(c)
  /\ UNCHANGED <<exams, bank, catalog, now, edits, openedBy>>

NewExam(dto, user, paper) ==
  [user |-> user, type |-> dto.type,
   subjectId |-> dto.subjectId, ticketId |-> dto.ticketId,
   startedAt |-> now, endedAt |-> None,
   timeLimit |-> Cardinality(paper), \* one minute per question
   status |-> "active",
   questionIds |-> paper, questionCount |-> Cardinality(paper),
   correctQuestionsIds |-> <<>>, correctQuestionCount |-> 0]

CreateExamSession(c) ==
  /\ AtPc(c, "create")
  /\ Len(exams) < MaxExams
  /\ exams' = Append(exams, NewExam(req[c].dto, Owner[c], req[c].paper))
  /\ openedBy' = Append(openedBy, c)
  /\ Answer(c)
  /\ UNCHANGED <<bank, catalog, now, edits>>

-----------------------------------------------------------------------------
(* finish *)

\* Only an active exam of the caller is found.
MayFinishAny(user, e) == e.status = "active"  \* faulty: owner not compared
MayFinishAgain(user, e) == e.user = user      \* faulty: status not compared
MayFinish(user, e) == e.user = user /\ e.status = "active"

\* POST exams/finish/:sessionId, with any exam id and any list of questions;
\* a request that does not find its exam is answered with NotFoundException
\* and changes nothing.
FinishNextExam(c, i, submission) == \* faulty: remembers another exam
  /\ AtPc(c, "idle")
  /\ MayFinish(Owner[c], exams[i])
  /\ Send(c, [Idle EXCEPT !.pc = "submit", !.exam = i + 1,
                          !.submission = submission])
  /\ UNCHANGED <<exams, bank, catalog, now, edits, openedBy>>
FinishExam(c, i, submission) ==
  /\ AtPc(c, "idle")
  /\ MayFinish(Owner[c], exams[i])
  /\ Send(c, [Idle EXCEPT !.pc = "submit", !.exam = i,
                          !.submission = submission])
  /\ UNCHANGED <<exams, bank, catalog, now, edits, openedBy>>

\* The update that completes the exam is by id alone.
SubmitExam(c) ==
  /\ AtPc(c, "submit")
  /\ exams' = [exams EXCEPT
       ![req[c].exam].correctQuestionsIds = req[c].submission,
       ![req[c].exam].correctQuestionCount = Len(req[c].submission),
       ![req[c].exam].status = "completed",
       ![req[c].exam].endedAt = now]
  /\ Answer(c)
  /\ UNCHANGED <<bank, catalog, now, edits, openedBy>>

-----------------------------------------------------------------------------
(* getExamStatistics: the highest score *)

\* Math.round of a percentage: halves up.
Percentage(e) ==
  (200 * e.correctQuestionCount + e.questionCount) \div (2 * e.questionCount)

Completed(user) ==
  {i \in Ids : exams[i].user = user /\ exams[i].status = "completed"}

\* The query sorts completed exams by the number of correct answers and
\* takes the first one; its percentage is reported (any of equals).
HighestScores(user) ==
  IF Completed(user) = {} THEN {0}
  ELSE {Percentage(exams[i]) : i \in
         {i \in Completed(user) : \A j \in Completed(user) :
            exams[j].correctQuestionCount <= exams[i].correctQuestionCount}}

-----------------------------------------------------------------------------
(* The administrators' side, as far as exams see it. *)

Edit == edits < MaxEdits /\ edits' = edits + 1

\* A question is created, updated or removed, or its answers change.  A
\* removed question never comes back.
EditQuestion(q, row) ==
  /\ Edit
  /\ bank[q].state # "deleted"
  /\ row.state # "absent"
  /\ row # bank[q]
  /\ bank' = [bank EXCEPT ![q] = row]
  /\ UNCHANGED <<exams, catalog, now, req, openedBy>>

\* A subject or ticket is removed; its questions and exams stay.
RemoveTarget(t) ==
  /\ Edit
  /\ catalog' = catalog \ {t}
  /\ UNCHANGED <<exams, bank, now, req, openedBy>>

Tick ==
  /\ now < MaxTick
  /\ now' = now + 1
  /\ UNCHANGED <<exams, bank, catalog, edits, req, openedBy>>

-----------------------------------------------------------------------------
RequestStep(c) ==
  \/ ResumeExam(c)
  \/ ValidateExamType(c)
  \/ GetQuestionsByType(c)
  \/ CreateExamSession(c)
  \/ SubmitExam(c)

ClientStep(c) ==
  \/ \E dto \in StartDto : StartExam(c, dto)
  \/ \E i \in Ids, s \in Submission : FinishExam(c, i, s)

Next ==
  \/ \E c \in Client : RequestStep(c) \/ ClientStep(c)
  \/ \E q \in Question, row \in EditedRows : EditQuestion(q, row)
  \/ \E t \in catalog : RemoveTarget(t)
  \/ Tick

Spec == Init /\ [][Next]_vars

\* The server answers: every query of a handler eventually returns.
Fairness == \A c \in Client : WF_vars(RequestStep(c))
FairSpec == Spec /\ Fairness

-----------------------------------------------------------------------------
Exam == [user : User, type : ExamType,
         subjectId : Subject \union {None}, ticketId : Ticket \union {None},
         startedAt : Nat, endedAt : Nat \union {None}, timeLimit : Nat,
         status : {"active", "completed", "expired"},
         questionIds : SUBSET Question, questionCount : Nat,
         correctQuestionsIds : Seq(Question), correctQuestionCount : Nat]

Request == [pc : Pc, dto : Dto \union {None}, exam : Nat,
            paper : SUBSET Question, submission : Seq(Question)]

Starting == {"resume", "validate", "load", "create"}
HasExam == {"resume", "submit"}

(* The shape of the tables and of the requests in flight: a request that   *)
(* carries an exam carries one that exists.                                *)
TypeOK ==
  /\ exams \in Seq(Exam)
  /\ bank \in [Question -> QuestionRow]
  /\ catalog \subseteq Subject \union Ticket
  /\ now \in Nat
  /\ edits \in Nat
  /\ req \in [Client -> Request]
  /\ openedBy \in Seq(Client) /\ Len(openedBy) = Len(exams)
  /\ \A c \in Client : /\ req[c].pc \in Starting => req[c].dto \in Dto
                       /\ req[c].pc \in HasExam => req[c].exam \in Ids

(* Two exams a later start request would not tell apart. *)
SameTarget(e, f) ==
  /\ e.user = f.user
  /\ e.type = f.type
  /\ e.type = "SUBJECT" => e.subjectId = f.subjectId
  /\ e.type = "TICKET" => e.ticketId = f.ticketId

(* startExam checks for an active exam and creates one in another query,   *)
(* so overlapping starts leave several; but a client that waits for its    *)
(* answers never opens a second active exam for the same target, whatever  *)
(* the user's other clients do meanwhile.                                  *)
OneActivePerClient ==
  \A i, j \in Ids :
    /\ i # j
    /\ exams[i].status = "active" /\ exams[j].status = "active"
    /\ SameTarget(exams[i], exams[j])
    => openedBy[i] # openedBy[j]

(* An exam is expired (formatExamResponse) only after all its minutes have *)
(* passed, also when the request that expires it read it long before.      *)
ExpiredNeverEarly ==
  \A i \in Ids : exams[i].status = "expired" =>
    exams[i].endedAt - exams[i].startedAt >= exams[i].timeLimit * TicksPerMinute

(* Every exam has at least one question, one minute for each, exactly      *)
(* RandomCount of them if it is RANDOM, and the id its type requires: what *)
(* was validated in earlier queries still holds of the row that is created.*)
PapersAreWellFormed ==
  \A i \in Ids : LET e == exams[i] IN
    /\ e.questionIds # {}
    /\ e.questionCount = Cardinality(e.questionIds)
    /\ e.timeLimit = e.questionCount
    /\ e.type = "RANDOM" => e.questionCount = RandomCount
    /\ e.type = "SUBJECT" => e.subjectId # None
    /\ e.type = "TICKET" => e.ticketId # None

(* An exam row changes only in a step of a request of the user who sits    *)
(* it, although both updates are by exam id alone.                         *)
OnlyOwnerChanges ==
  [][\A i \in Ids : exams'[i] # exams[i] =>
       \E c \in Client : /\ Owner[c] = exams[i].user
                         /\ req[c].exam = i
                         /\ req'[c] # req[c]]_vars

(* An exam has ended, and no request that found it active is still running.*)
Settled(i) ==
  /\ exams[i].status # "active"
  /\ \A c \in Client : req[c].pc \in HasExam => req[c].exam # i

(* Overlapping requests may complete an exam twice, expire a completed one *)
(* or complete an expired one; once they are through, its status, score    *)
(* and answers are final.                                                  *)
SettledIsFinal ==
  [][\A i \in Ids : Settled(i) => Settled(i)' /\ exams'[i] = exams[i]]_vars

Overdue(i) == now - exams[i].startedAt >= exams[i].timeLimit * TicksPerMinute

(* Exams are expired only when their owner asks for them again; a start    *)
(* request that finds an overdue exam does end it.                         *)
OverdueResumeEnds ==
  \A c \in Client, i \in 1..MaxExams :
    (AtPc(c, "resume") /\ req[c].exam = i /\ Overdue(i))
      ~> (i \in Ids /\ exams[i].status # "active")

(* "Get the highest score from completed exams" (exams.service.ts:76): no  *)
(* completed exam of the user has a higher percentage than the reported.   *)
HighestScoreIsHighest ==
  \A u \in User : \A h \in HighestScores(u), i \in Completed(u) :
    Percentage(exams[i]) <= h

(* The life of an exam as users are promised it. *)
Ledger == INSTANCE ExamLedger WITH
  ledger <- [i \in Ids |->
               [user |-> exams[i].user, startedAt |-> exams[i].startedAt,
                timeLimit |-> exams[i].timeLimit, status |-> exams[i].status,
                score |-> exams[i].correctQuestionCount]],
  clock <- now,
  Limits <- 1..Cardinality(Question),
  Scores <- {Len(s) : s \in Submission}

(* When no user has two requests in flight, each exam lives by the ledger: *)
(* it ends once, and expires only when its time is over.                   *)
LedgerSpec == Ledger!LSpec
=============================================================================
