----------------------------- MODULE ExamsProofs -----------------------------
(***************************************************************************)
(* What holds of the exam service for any number of users, clients,        *)
(* questions and exams, and any length of the minute.                      *)
(***************************************************************************)
EXTENDS Exams, TLAPS, FiniteSetTheorems, SequenceTheorems

(* A row of a table stays a row of the table's type under an update.       *)
LEMMA UpdateRow ==
  ASSUME NEW S, NEW rows \in Seq(S), NEW k \in DOMAIN rows, NEW row \in S
  PROVE  /\ [rows EXCEPT ![k] = row] \in Seq(S)
         /\ Len([rows EXCEPT ![k] = row]) = Len(rows)
         /\ DOMAIN [rows EXCEPT ![k] = row] = DOMAIN rows
  OBVIOUS

(* The new row of createExamSession is a row of the exams table.           *)
LEMMA NewExamType ==
  ASSUME NEW dto \in Dto, NEW c \in Client, NEW paper \in SUBSET Question,
         now \in Nat
  PROVE  NewExam(dto, Owner[c], paper) \in Exam
<1>1. IsFiniteSet(paper)
  BY FS_Subset, QuestionAssumption
<1>2. Cardinality(paper) \in Nat
  BY <1>1, FS_CardinalityType
<1>3. Owner[c] \in User
  BY OwnerAssumption
<1>4. <<>> \in Seq(Question)
  OBVIOUS
<1> QED
  BY <1>2, <1>3, <1>4 DEF NewExam, Exam, Dto, ExamType

(* Whatever getQuestionsByType chooses is a set of questions.              *)
LEMMA PapersType ==
  ASSUME NEW dto, NEW p \in Papers(dto)
  PROVE  p \subseteq Question
<1>1. QuestionsOf(dto) \subseteq Question
  BY DEF QuestionsOf
<1> QED
  BY <1>1 DEF Papers

LEMMA IdleType == Idle \in Request /\ Idle.pc = "idle"
  BY DEF Idle, Request, Pc

-----------------------------------------------------------------------------
(* The updates of rows: expiring and completing an exam. *)

ExpiredRow(e) == [e EXCEPT !.status = "expired", !.endedAt = now]

CompletedRow(e, s) ==
  [e EXCEPT !.correctQuestionsIds = s, !.correctQuestionCount = Len(s),
            !.status = "completed", !.endedAt = now]

(* ResumeExam leaves the table alone or expires the one row it carries.    *)
LEMMA ResumeUpdates ==
  ASSUME TypeOK, NEW c \in Client, ResumeExam(c)
  PROVE  /\ req[c].exam \in Ids
         /\ \/ exams' = exams
            \/ /\ RemainingTime(exams[req[c].exam]) <= 0
               /\ exams' = [exams EXCEPT ![req[c].exam] =
                              ExpiredRow(exams[req[c].exam])]
<1>1. req[c].exam \in Ids
  BY DEF TypeOK, ResumeExam, AtPc, HasExam
<1> QED
  BY <1>1 DEF ResumeExam, ExpiredRow

(* SubmitExam completes the one row it carries.                            *)
LEMMA SubmitUpdates ==
  ASSUME TypeOK, NEW c \in Client, SubmitExam(c)
  PROVE  /\ req[c].exam \in Ids
         /\ exams' = [exams EXCEPT ![req[c].exam] =
                        CompletedRow(exams[req[c].exam], req[c].submission)]
<1>1. req[c].exam \in Ids
  BY DEF TypeOK, SubmitExam, AtPc, HasExam
<1>2. exams \in Seq(Exam) /\ exams[req[c].exam] \in Exam
  BY <1>1 DEF TypeOK, Ids
<1> QED
  BY <1>1, <1>2 DEF SubmitExam, CompletedRow, Exam, Ids

LEMMA ExpiredRowType ==
  ASSUME NEW e \in Exam, now \in Nat
  PROVE  ExpiredRow(e) \in Exam
  BY DEF ExpiredRow, Exam

LEMMA CompletedRowType ==
  ASSUME NEW e \in Exam, NEW s \in Seq(Question), now \in Nat
  PROVE  CompletedRow(e, s) \in Exam
<1>1. Len(s) \in Nat
  OBVIOUS
<1> QED
  BY <1>1 DEF CompletedRow, Exam

-----------------------------------------------------------------------------
(* Type correctness, action by action.                                     *)

LEMMA InitType == Init => TypeOK
  BY IdleType, BankAssumption DEF Init, TypeOK, Starting, HasExam, Ids

(* An update of one row of exams, with an answer to the client that asked  *)
(* for it, keeps the types.                                                *)
LEMMA UpdateKeepsTypes ==
  ASSUME TypeOK, NEW c \in Client, Answer(c),
         UNCHANGED <<bank, catalog, now, edits, openedBy>>,
         \/ exams' = exams
         \/ \E k \in Ids, row \in Exam : exams' = [exams EXCEPT ![k] = row]
  PROVE  TypeOK'
<1>1. /\ exams' \in Seq(Exam)
      /\ Len(exams') = Len(exams)
      /\ Ids' = Ids
  BY UpdateRow DEF TypeOK, Ids
<1>2. req' \in [Client -> Request]
  BY IdleType DEF TypeOK, Answer, Send
<1>3. \A d \in Client : /\ req'[d].pc \in Starting => req'[d].dto \in Dto
                        /\ req'[d].pc \in HasExam => req'[d].exam \in Ids'
  BY <1>1, IdleType DEF TypeOK, Answer, Send, Starting, HasExam
<1> QED
  BY <1>1, <1>2, <1>3 DEF TypeOK

(* A change of the one client's request that carries what its new place    *)
(* in the handler needs keeps the types.                                   *)
LEMMA SendKeepsTypes ==
  ASSUME TypeOK, NEW c \in Client, NEW r \in Request, Send(c, r),
         r.pc \in Starting => r.dto \in Dto,
         r.pc \in HasExam => r.exam \in Ids,
         UNCHANGED <<exams, bank, catalog, now, edits, openedBy>>
  PROVE  TypeOK'
<1>1. req' \in [Client -> Request]
  BY DEF TypeOK, Send
<1>2. \A d \in Client : req'[d] = IF d = c THEN r ELSE req[d]
  BY DEF TypeOK, Send
<1>3. \A d \in Client : /\ req'[d].pc \in Starting => req'[d].dto \in Dto
                        /\ req'[d].pc \in HasExam => req'[d].exam \in Ids'
  BY <1>2 DEF TypeOK, Ids
<1> QED
  BY <1>1, <1>3 DEF TypeOK, Ids

LEMMA StartExamType ==
  ASSUME TypeOK, NEW c \in Client, NEW dto \in StartDto, StartExam(c, dto)
  PROVE  TypeOK'
<1> DEFINE Resuming(i) == [Idle EXCEPT !.pc = "resume", !.dto = dto, !.exam = i]
           Validating == [Idle EXCEPT !.pc = "validate", !.dto = dto]
<1>1. dto \in Dto /\ <<>> \in Seq(Question)
  BY DtoAssumption
<1>2. CASE \E i \in Ids : Send(c, Resuming(i))
  <2>1. PICK i \in Ids : Send(c, Resuming(i))
    BY <1>2
  <2>2. i \in Nat
    BY DEF Ids, TypeOK
  <2>3. /\ Resuming(i) \in Request
        /\ Resuming(i).pc = "resume"
        /\ Resuming(i).dto = dto /\ Resuming(i).exam = i
    BY <1>1, <2>2 DEF Idle, Request, Pc
  <2> QED
    BY <1>1, <2>1, <2>3, SendKeepsTypes DEF StartExam
<1>3. CASE Send(c, Validating)
  <2>1. /\ Validating \in Request
        /\ Validating.pc = "validate"
        /\ Validating.dto = dto
    BY <1>1 DEF Idle, Request, Pc
  <2> QED
    BY <1>1, <1>3, <2>1, SendKeepsTypes DEF StartExam, HasExam
<1> QED
  BY <1>2, <1>3 DEF StartExam

LEMMA FinishExamType ==
  ASSUME TypeOK, NEW c \in Client, NEW i \in Ids, NEW s \in Submission,
         FinishExam(c, i, s)
  PROVE  TypeOK'
<1> DEFINE r == [Idle EXCEPT !.pc = "submit", !.exam = i, !.submission = s]
<1>1. i \in Nat /\ s \in Seq(Question)
  BY SubmissionAssumption DEF Ids, TypeOK
<1>2. r \in Request /\ r.pc = "submit" /\ r.exam = i
  BY <1>1 DEF Idle, Request, Pc
<1>3. Send(c, r) /\ UNCHANGED <<exams, bank, catalog, now, edits, openedBy>>
  BY DEF FinishExam
<1> QED
  BY <1>2, <1>3, SendKeepsTypes DEF Starting

LEMMA ResumeExamType ==
  ASSUME TypeOK, NEW c \in Client, ResumeExam(c)
  PROVE  TypeOK'
<1>1. \A k \in Ids : exams[k] \in Exam
  BY DEF TypeOK, Ids
<1>2. \/ exams' = exams
      \/ \E k \in Ids, row \in Exam : exams' = [exams EXCEPT ![k] = row]
  BY <1>1, ResumeUpdates, ExpiredRowType DEF TypeOK
<1> QED
  BY <1>2, UpdateKeepsTypes DEF ResumeExam

LEMMA SubmitExamType ==
  ASSUME TypeOK, NEW c \in Client, SubmitExam(c)
  PROVE  TypeOK'
<1>1. req[c].exam \in Ids /\ exams[req[c].exam] \in Exam
  BY SubmitUpdates DEF TypeOK, Ids
<1>2. req[c].submission \in Seq(Question)
  BY DEF TypeOK, Request
<1>3. \E k \in Ids, row \in Exam : exams' = [exams EXCEPT ![k] = row]
  BY <1>1, <1>2, SubmitUpdates, CompletedRowType DEF TypeOK
<1> QED
  BY <1>3, UpdateKeepsTypes DEF SubmitExam

LEMMA ValidateExamTypeType ==
  ASSUME TypeOK, NEW c \in Client, ValidateExamType(c)
  PROVE  TypeOK'
<1> DEFINE r == [req[c] EXCEPT !.pc = "load"]
<1>1. req[c] \in Request /\ req[c].dto \in Dto
  BY DEF TypeOK, ValidateExamType, AtPc, Starting
<1>2. r \in Request /\ r.pc = "load" /\ r.dto \in Dto
  BY <1>1 DEF Request, Pc
<1>3. CASE Goto(c, "load")
  <2>1. Send(c, r)
    BY <1>3 DEF Goto, Send, TypeOK
  <2> QED
    BY <1>2, <2>1, SendKeepsTypes DEF ValidateExamType, HasExam
<1>4. CASE Answer(c)
  BY <1>4, IdleType, SendKeepsTypes
     DEF Answer, ValidateExamType, Starting, HasExam
<1> QED
  BY <1>3, <1>4 DEF ValidateExamType

LEMMA GetQuestionsByTypeType ==
  ASSUME TypeOK, NEW c \in Client, GetQuestionsByType(c)
  PROVE  TypeOK'
<1>1. req[c] \in Request /\ req[c].dto \in Dto
  BY DEF TypeOK, GetQuestionsByType, AtPc, Starting
<1>2. ASSUME NEW p \in Papers(req[c].dto),
             req' = [req EXCEPT ![c].pc = "create", ![c].paper = p]
      PROVE  TypeOK'
  <2> DEFINE r == [req[c] EXCEPT !.pc = "create", !.paper = p]
  <2>1. r \in Request /\ r.pc = "create" /\ r.dto \in Dto
    BY <1>1, PapersType DEF Request, Pc
  <2>2. Send(c, r)
    BY <1>2 DEF Send, TypeOK
  <2> QED
    BY <2>1, <2>2, SendKeepsTypes DEF GetQuestionsByType, HasExam
<1>3. CASE Answer(c)
  BY <1>3, IdleType, SendKeepsTypes
     DEF Answer, GetQuestionsByType, Starting, HasExam
<1> QED
  BY <1>2, <1>3 DEF GetQuestionsByType

LEMMA CreateExamSessionType ==
  ASSUME TypeOK, NEW c \in Client, CreateExamSession(c)
  PROVE  TypeOK'
<1> DEFINE row == NewExam(req[c].dto, Owner[c], req[c].paper)
<1>1. row \in Exam
  BY NewExamType DEF TypeOK, CreateExamSession, AtPc, Starting, Request
<1>2. /\ exams' = Append(exams, row)
      /\ exams' \in Seq(Exam)
      /\ Len(exams') = Len(exams) + 1
      /\ Ids \subseteq Ids'
  BY <1>1 DEF TypeOK, CreateExamSession, Ids
<1>3. openedBy' \in Seq(Client) /\ Len(openedBy') = Len(exams')
  BY <1>2 DEF TypeOK, CreateExamSession
<1>4. req' \in [Client -> Request]
  BY IdleType DEF TypeOK, CreateExamSession, Answer, Send
<1>5. \A d \in Client : /\ req'[d].pc \in Starting => req'[d].dto \in Dto
                        /\ req'[d].pc \in HasExam => req'[d].exam \in Ids'
  BY <1>2, IdleType
     DEF TypeOK, CreateExamSession, Answer, Send, Starting, HasExam
<1> QED
  BY <1>2, <1>3, <1>4, <1>5 DEF TypeOK, CreateExamSession

LEMMA EditQuestionType ==
  ASSUME TypeOK, NEW q \in Question, NEW row \in EditedRows,
         EditQuestion(q, row)
  PROVE  TypeOK'
<1>1. bank' \in [Question -> QuestionRow] /\ edits' \in Nat
  BY EditAssumption DEF TypeOK, EditQuestion, Edit
<1> QED
  BY <1>1 DEF TypeOK, EditQuestion, Ids

LEMMA NextType ==
  ASSUME TypeOK, [Next]_vars
  PROVE  TypeOK'
<1>1. ASSUME NEW c \in Client, RequestStep(c)
      PROVE  TypeOK'
  BY <1>1, ResumeExamType, ValidateExamTypeType, GetQuestionsByTypeType,
     CreateExamSessionType, SubmitExamType DEF RequestStep
<1>2. ASSUME NEW c \in Client, ClientStep(c)
      PROVE  TypeOK'
  BY <1>2, StartExamType, FinishExamType DEF ClientStep
<1>3. ASSUME NEW q \in Question, NEW row \in EditedRows, EditQuestion(q, row)
      PROVE  TypeOK'
  BY <1>3, EditQuestionType
<1>4. ASSUME NEW t \in catalog, RemoveTarget(t)
      PROVE  TypeOK'
  BY <1>4 DEF TypeOK, RemoveTarget, Edit, Ids
<1>5. CASE Tick
  BY <1>5 DEF TypeOK, Tick, Ids
<1>6. CASE UNCHANGED vars
  BY <1>6 DEF TypeOK, vars, Ids
<1> QED
  BY <1>1, <1>2, <1>3, <1>4, <1>5, <1>6 DEF Next

(* The tables and the requests keep their shape: in particular a request   *)
(* that updates an exam by id updates one that exists.                     *)
THEOREM TypeCorrect == Spec => []TypeOK
<1>1. TypeOK /\ [Next]_vars => TypeOK'
  BY NextType
<1> QED
  BY InitType, <1>1, PTL DEF Spec

-----------------------------------------------------------------------------
(* OneActivePerClient.  What makes it inductive: between the query of      *)
(* findActiveExam and the insert, the exams a client could find are its    *)
(* user's others', never its own, for it creates nothing in between.       *)

Opening == {"validate", "load", "create"}

NothingOfItsOwn ==
  \A c \in Client, i \in Ids :
    req[c].pc \in Opening /\ openedBy[i] = c
      => ~Matches(req[c].dto, Owner[c], exams[i])

OpeningInv == TypeOK /\ NothingOfItsOwn /\ OneActivePerClient

(* Ending an exam makes it match no search and share no target.            *)
LEMMA EndedRow ==
  ASSUME TypeOK, OpeningInv, NEW c \in Client, Answer(c), NEW k \in Ids,
         NEW row, row.status # "active",
         \/ exams' = exams
         \/ exams' = [exams EXCEPT ![k] = row],
         UNCHANGED openedBy
  PROVE  NothingOfItsOwn' /\ OneActivePerClient'
<1>1. Ids' = Ids /\ \A i \in Ids : exams'[i] = exams[i] \/ exams'[i].status # "active"
  BY DEF TypeOK, Ids
<1>2. \A d \in Client : req'[d].pc \in Opening => req'[d] = req[d]
  BY IdleType DEF TypeOK, Answer, Send, Opening
<1>3. NothingOfItsOwn'
  BY <1>1, <1>2 DEF OpeningInv, NothingOfItsOwn, Matches
<1>4. OneActivePerClient'
  BY <1>1 DEF OpeningInv, OneActivePerClient, SameTarget
<1> QED
  BY <1>3, <1>4

(* A step that leaves the table alone, and a request opening an exam with  *)
(* its body or none.                                                       *)
LEMMA SameExams ==
  ASSUME OpeningInv, UNCHANGED <<exams, openedBy>>,
         \A d \in Client : req'[d].pc \in Opening =>
           req[d].pc \in Opening /\ req'[d].dto = req[d].dto
  PROVE  NothingOfItsOwn' /\ OneActivePerClient'
  BY DEF OpeningInv, NothingOfItsOwn, OneActivePerClient, Matches, SameTarget, Ids

LEMMA StartExamOpens ==
  ASSUME OpeningInv, NEW c \in Client, NEW dto \in StartDto, StartExam(c, dto)
  PROVE  NothingOfItsOwn' /\ OneActivePerClient'
<1>1. CASE \E i \in Ids :
             Send(c, [Idle EXCEPT !.pc = "resume", !.dto = dto, !.exam = i])
  BY <1>1, SameExams DEF StartExam, Send, Idle, Opening, OpeningInv, TypeOK
<1>2. CASE /\ \A i \in Ids : ~Matches(dto, Owner[c], exams[i])
           /\ Send(c, [Idle EXCEPT !.pc = "validate", !.dto = dto])
  <2>1. \A d \in Client :
          \/ d = c /\ req'[d].dto = dto
          \/ d # c /\ req'[d] = req[d]
    BY <1>2 DEF Send, Idle, OpeningInv, TypeOK
  <2>2. exams' = exams /\ openedBy' = openedBy /\ Ids' = Ids
    BY DEF StartExam, Ids
  <2>3. NothingOfItsOwn'
    BY <1>2, <2>1, <2>2 DEF OpeningInv, NothingOfItsOwn, Matches
  <2> QED
    BY <2>2, <2>3 DEF OpeningInv, OneActivePerClient, SameTarget
<1> QED
  BY <1>1, <1>2 DEF StartExam

LEMMA CreateOpens ==
  ASSUME OpeningInv, NEW c \in Client, CreateExamSession(c)
  PROVE  NothingOfItsOwn' /\ OneActivePerClient'
<1> DEFINE row == NewExam(req[c].dto, Owner[c], req[c].paper)
           n == Len(exams) + 1
<1>1. /\ exams \in Seq(Exam) /\ openedBy \in Seq(Client)
      /\ Len(openedBy) = Len(exams)
      /\ exams' = Append(exams, row) /\ openedBy' = Append(openedBy, c)
  BY DEF OpeningInv, TypeOK, CreateExamSession
<1>2. /\ Ids' = Ids \union {n} /\ n \notin Ids
      /\ \A i \in Ids : exams'[i] = exams[i] /\ openedBy'[i] = openedBy[i]
      /\ exams'[n] = row /\ openedBy'[n] = c
  <2>1. row \in Exam
    BY NewExamType
       DEF OpeningInv, TypeOK, CreateExamSession, AtPc, Starting, Request
  <2> QED
    BY <1>1, <2>1 DEF Ids
<1>3. \A d \in Client : /\ d = c => req'[d].pc \notin Opening
                        /\ d # c => req'[d] = req[d]
  BY IdleType DEF OpeningInv, TypeOK, CreateExamSession, Answer, Send, Opening
<1>4. NothingOfItsOwn'
  BY <1>2, <1>3 DEF OpeningInv, NothingOfItsOwn, Matches
<1>5. ASSUME NEW i \in Ids, openedBy[i] = c, exams[i].status = "active"
      PROVE  ~SameTarget(exams[i], row)
  <2>1. ~Matches(req[c].dto, Owner[c], exams[i])
    BY <1>5 DEF OpeningInv, NothingOfItsOwn, CreateExamSession, AtPc, Opening
  <2> QED
    BY <1>5, <2>1 DEF Matches, SameTarget, NewExam
<1>6. \A i \in Ids : SameTarget(row, exams[i]) => SameTarget(exams[i], row)
  BY DEF SameTarget
<1>7. OneActivePerClient'
  <2> SUFFICES ASSUME NEW i \in Ids', NEW j \in Ids', i # j,
                      exams'[i].status = "active", exams'[j].status = "active",
                      SameTarget(exams'[i], exams'[j])
               PROVE  openedBy'[i] # openedBy'[j]
    BY DEF OneActivePerClient, SameTarget
  <2>1. CASE i \in Ids /\ j \in Ids
    BY <1>2, <2>1 DEF OpeningInv, OneActivePerClient
  <2>2. CASE i = n
    BY <1>2, <1>5, <1>6, <2>2
  <2>3. CASE j = n
    BY <1>2, <1>5, <2>3
  <2> QED
    BY <1>2, <2>1, <2>2, <2>3
<1> QED
  BY <1>4, <1>7

LEMMA NextOpens ==
  ASSUME OpeningInv, [Next]_vars
  PROVE  NothingOfItsOwn' /\ OneActivePerClient'
<1> USE DEF OpeningInv
<1>1. ASSUME NEW c \in Client, RequestStep(c)
      PROVE  NothingOfItsOwn' /\ OneActivePerClient'
  <2>1. CASE ResumeExam(c)
    <3> DEFINE row == ExpiredRow(exams[req[c].exam])
    <3>1. req[c].exam \in Ids /\ (exams' = exams \/ exams' = [exams EXCEPT ![req[c].exam] = row])
      BY <2>1, ResumeUpdates
    <3>2. row.status # "active"
      BY <3>1 DEF ExpiredRow, TypeOK, Exam, Ids
    <3> QED
      BY <2>1, <3>1, <3>2, EndedRow DEF ResumeExam
  <2>2. CASE SubmitExam(c)
    <3> DEFINE row == CompletedRow(exams[req[c].exam], req[c].submission)
    <3>1. req[c].exam \in Ids /\ exams' = [exams EXCEPT ![req[c].exam] = row]
      BY <2>2, SubmitUpdates
    <3>2. row.status # "active"
      BY <3>1 DEF CompletedRow, TypeOK, Exam, Ids
    <3> QED
      BY <2>2, <3>1, <3>2, EndedRow DEF SubmitExam
  <2>3. CASE ValidateExamType(c)
    <3>1. req \in [Client -> Request]
      BY DEF TypeOK
    <3>2. \A d \in Client : req'[d].pc \in Opening =>
            req[d].pc \in Opening /\ req'[d].dto = req[d].dto
      <4>1. CASE Goto(c, "load")
        BY <2>3, <3>1, <4>1 DEF ValidateExamType, AtPc, Goto, Request, Opening
      <4>2. CASE Answer(c)
        BY <3>1, <4>2, IdleType DEF Answer, Send, Opening
      <4> QED
        BY <2>3, <4>1, <4>2 DEF ValidateExamType
    <3> QED
      BY <2>3, <3>2, SameExams DEF ValidateExamType
  <2>4. CASE GetQuestionsByType(c)
    <3>1. req \in [Client -> Request]
      BY DEF TypeOK
    <3>2. \A d \in Client : req'[d].pc \in Opening =>
            req[d].pc \in Opening /\ req'[d].dto = req[d].dto
      BY <2>4, <3>1, IdleType
         DEF GetQuestionsByType, AtPc, Answer, Send, Request, Opening
    <3> QED
      BY <2>4, <3>2, SameExams DEF GetQuestionsByType
  <2>5. CASE CreateExamSession(c)
    BY <2>5, CreateOpens
  <2> QED
    BY <1>1, <2>1, <2>2, <2>3, <2>4, <2>5 DEF RequestStep
<1>2. ASSUME NEW c \in Client, ClientStep(c)
      PROVE  NothingOfItsOwn' /\ OneActivePerClient'
  <2>1. ASSUME NEW i \in Ids, NEW s \in Submission, FinishExam(c, i, s)
        PROVE  NothingOfItsOwn' /\ OneActivePerClient'
    BY <2>1, SameExams DEF FinishExam, Send, Idle, TypeOK, Opening
  <2> QED
    BY <1>2, <2>1, StartExamOpens DEF ClientStep
<1>3. ASSUME UNCHANGED <<exams, openedBy, req>>
      PROVE  NothingOfItsOwn' /\ OneActivePerClient'
  BY <1>3, SameExams
<1> QED
  BY <1>1, <1>2, <1>3 DEF Next, EditQuestion, RemoveTarget, Tick, vars

(* However the requests of a user's clients overlap, no client opens two   *)
(* active exams for one target.                                            *)
THEOREM OneActiveEach == Spec => []OneActivePerClient
<1>1. Init => OpeningInv
  BY InitType DEF Init, OpeningInv, NothingOfItsOwn, OneActivePerClient, Ids
<1>2. OpeningInv /\ [Next]_vars => OpeningInv'
  BY NextType, NextOpens DEF OpeningInv
<1>3. OpeningInv => OneActivePerClient
  BY DEF OpeningInv
<1> QED
  BY <1>1, <1>2, <1>3, PTL DEF Spec

-----------------------------------------------------------------------------
(* ExpiredNeverEarly and SettledIsFinal rest on what a step may do to the  *)
(* table: nothing, expire or complete the row of the request that runs, or *)
(* add an active row.                                                      *)

Expires(c) ==
  /\ ResumeExam(c)
  /\ req[c].exam \in Ids
  /\ RemainingTime(exams[req[c].exam]) <= 0
  /\ exams' = [exams EXCEPT ![req[c].exam] = ExpiredRow(exams[req[c].exam])]

Completes(c) ==
  /\ SubmitExam(c)
  /\ req[c].exam \in Ids
  /\ exams' = [exams EXCEPT ![req[c].exam] =
                 CompletedRow(exams[req[c].exam], req[c].submission)]

Opens(c) ==
  /\ CreateExamSession(c)
  /\ Ids' = Ids \union {Len(exams) + 1}
  /\ \A i \in Ids : exams'[i] = exams[i]
  /\ exams'[Len(exams) + 1] = NewExam(req[c].dto, Owner[c], req[c].paper)

LEMMA NextExams ==
  ASSUME TypeOK, [Next]_vars
  PROVE  \/ exams' = exams
         \/ \E c \in Client : Expires(c) \/ Completes(c) \/ Opens(c)
<1>1. ASSUME NEW c \in Client, CreateExamSession(c)
      PROVE  Opens(c)
  <2> DEFINE row == NewExam(req[c].dto, Owner[c], req[c].paper)
  <2>1. row \in Exam
    BY <1>1, NewExamType
       DEF TypeOK, CreateExamSession, AtPc, Starting, Request
  <2>2. exams \in Seq(Exam) /\ exams' = Append(exams, row)
    BY <1>1 DEF TypeOK, CreateExamSession
  <2> QED
    BY <1>1, <2>1, <2>2 DEF Opens, Ids
<1>2. ASSUME NEW c \in Client, ResumeExam(c)
      PROVE  exams' = exams \/ Expires(c)
  BY <1>2, ResumeUpdates DEF Expires
<1>3. ASSUME NEW c \in Client, SubmitExam(c)
      PROVE  Completes(c)
  BY <1>3, SubmitUpdates DEF Completes
<1> QED
  BY <1>1, <1>2, <1>3
     DEF Next, RequestStep, ClientStep, ValidateExamType, GetQuestionsByType,
         StartExam, FinishExam, EditQuestion, RemoveTarget, Tick, vars

(* An exam with no whole minute left has had all its ticks.                *)
LEMMA NoMinuteLeft ==
  ASSUME NEW elapsed \in Int, NEW limit \in Nat,
         limit <= elapsed \div TicksPerMinute
  PROVE  limit * TicksPerMinute <= elapsed
<1> DEFINE T == TicksPerMinute
           minutes == elapsed \div T
<1>1. T \in Nat /\ T > 0
  BY TicksAssumption
<1>2. minutes \in Int /\ minutes * T <= elapsed
  BY <1>1
<1>3. limit * T <= minutes * T
  BY <1>1, <1>2
<1> QED
  BY <1>1, <1>2, <1>3

(* No exam is expired before its last minute is over, whatever happened    *)
(* between the query that read it and the update that expires it.          *)
THEOREM NeverExpiredEarly == Spec => []ExpiredNeverEarly
<1> DEFINE ExpiryInv == TypeOK /\ ExpiredNeverEarly
<1>1. Init => ExpiryInv
  BY InitType DEF Init, ExpiredNeverEarly, Ids
<1>2. ASSUME ExpiryInv, [Next]_vars
      PROVE  ExpiredNeverEarly'
  <2>1. \A i \in Ids : exams[i] \in Exam
    BY <1>2 DEF TypeOK, Ids
  <2>2. CASE exams' = exams
    BY <1>2, <2>2 DEF ExpiredNeverEarly, Ids
  <2>3. ASSUME NEW c \in Client, Expires(c)
        PROVE  ExpiredNeverEarly'
    <3> DEFINE k == req[c].exam
               e == exams[k]
    <3>1. /\ k \in Ids /\ e \in Exam /\ Ids' = Ids
          /\ \A i \in Ids : i # k => exams'[i] = exams[i]
          /\ exams'[k] = ExpiredRow(e)
      BY <1>2, <2>1, <2>3 DEF Expires, Ids, TypeOK
    <3>2. /\ e.startedAt \in Nat /\ e.timeLimit \in Nat /\ now \in Nat
          /\ exams'[k].startedAt = e.startedAt
          /\ exams'[k].timeLimit = e.timeLimit
          /\ exams'[k].endedAt = now
      BY <1>2, <3>1 DEF TypeOK, Exam, ExpiredRow
    <3>3. TimeSpent(e) \in Int
      BY <3>2, TicksAssumption DEF TimeSpent
    <3>4. e.timeLimit <= TimeSpent(e)
      BY <2>3, <3>2, <3>3 DEF Expires, RemainingTime
    <3>5. e.timeLimit * TicksPerMinute <= now - e.startedAt
      BY <3>2, <3>4, NoMinuteLeft DEF TimeSpent
    <3>6. now - e.startedAt >= e.timeLimit * TicksPerMinute
      BY <3>2, <3>5, TicksAssumption
    <3> QED
      BY <1>2, <3>1, <3>2, <3>6 DEF ExpiredNeverEarly
  <2>4. ASSUME NEW c \in Client, Completes(c)
        PROVE  ExpiredNeverEarly'
    <3>1. /\ Ids' = Ids
          /\ \A i \in Ids : exams'[i] = exams[i] \/ exams'[i].status = "completed"
      BY <1>2, <2>1, <2>4 DEF Completes, CompletedRow, Ids, TypeOK, Exam
    <3> QED
      BY <1>2, <3>1 DEF ExpiredNeverEarly
  <2>5. ASSUME NEW c \in Client, Opens(c)
        PROVE  ExpiredNeverEarly'
    BY <1>2, <2>5 DEF Opens, NewExam, ExpiredNeverEarly
  <2> QED
    BY <1>2, <2>2, <2>3, <2>4, <2>5, NextExams
<1>3. ExpiryInv /\ [Next]_vars => ExpiryInv'
  BY <1>2, NextType
<1> QED
  BY <1>1, <1>3, PTL DEF Spec

(* An ended exam that no running request has found active is never touched *)
(* again.                                                                  *)
THEOREM SettledForGood == Spec => SettledIsFinal
<1>1. ASSUME TypeOK, [Next]_vars, NEW i \in Ids, Settled(i)
      PROVE  Settled(i)' /\ exams'[i] = exams[i]
  <2>1. exams'[i] = exams[i]
    <3>1. ASSUME NEW c \in Client, Expires(c) \/ Completes(c)
          PROVE  exams'[i] = exams[i]
      <4>1. req[c].exam # i
        BY <1>1, <3>1
           DEF Settled, Expires, Completes, ResumeExam, SubmitExam, AtPc, HasExam
      <4> QED
        BY <1>1, <3>1, <4>1 DEF Expires, Completes, TypeOK, Ids
    <3> QED
      BY <1>1, <3>1, NextExams DEF Opens
  <2>2. ASSUME NEW c \in Client
        PROVE  req'[c].pc \in HasExam => req'[c].exam # i
    <3>1. req[c].pc \in HasExam => req[c].exam # i
      BY <1>1 DEF Settled
    <3>2. ASSUME NEW d \in Client, ClientStep(d)
          PROVE  req'[c].pc \in HasExam => req'[c].exam # i
      <4>1. ASSUME NEW dto \in StartDto, StartExam(d, dto)
            PROVE  req'[c].pc \in HasExam => req'[c].exam # i
        BY <1>1, <3>1, <4>1
           DEF Settled, StartExam, Matches, Send, Idle, HasExam, TypeOK
      <4>2. ASSUME NEW j \in Ids, NEW s \in Submission, FinishExam(d, j, s)
            PROVE  req'[c].pc \in HasExam => req'[c].exam # i
        BY <1>1, <3>1, <4>2
           DEF Settled, FinishExam, MayFinish, Send, Idle, HasExam, TypeOK
      <4> QED
        BY <3>2, <4>1, <4>2 DEF ClientStep
    <3>3. ASSUME NEW d \in Client, RequestStep(d)
          PROVE  req'[c].pc \in HasExam => req'[c].exam # i
      <4>1. CASE Answer(d)
        BY <1>1, <3>1, <4>1, IdleType DEF Answer, Send, HasExam, TypeOK
      <4>2. CASE Goto(d, "load")
        BY <1>1, <3>1, <4>2 DEF Goto, HasExam, TypeOK, Request
      <4>3. ASSUME NEW p, req' = [req EXCEPT ![d].pc = "create", ![d].paper = p]
            PROVE  req'[c].pc \in HasExam => req'[c].exam # i
        BY <1>1, <3>1, <4>3 DEF HasExam, TypeOK, Request
      <4> QED
        BY <3>3, <4>1, <4>2, <4>3
           DEF RequestStep, ResumeExam, ValidateExamType, GetQuestionsByType,
               CreateExamSession, SubmitExam
    <3>4. CASE req' = req
      BY <3>1, <3>4
    <3> QED
      BY <1>1, <3>2, <3>3, <3>4 DEF Next, EditQuestion, RemoveTarget, Tick, vars
  <2> QED
    BY <1>1, <2>1, <2>2 DEF Settled
<1>2. TypeOK /\ [Next]_vars
        => [\A i \in Ids : Settled(i) => Settled(i)' /\ exams'[i] = exams[i]]_vars
  BY <1>1
<1> QED
  BY TypeCorrect, <1>2, PTL DEF Spec, SettledIsFinal

-----------------------------------------------------------------------------
(* OnlyOwnerChanges.  Both updates are by id alone; what makes them safe   *)
(* is that an exam never changes hands between the query and the update.   *)

CarriesItsOwn ==
  \A c \in Client : req[c].pc \in HasExam => exams[req[c].exam].user = Owner[c]

(* The fields of an exam that are set when it is created stay as they are. *)
LEMMA FieldsStay ==
  ASSUME TypeOK, [Next]_vars, NEW i \in Ids
  PROVE  /\ i \in Ids'
         /\ exams'[i].user = exams[i].user
         /\ exams'[i].questionIds = exams[i].questionIds
         /\ exams'[i].questionCount = exams[i].questionCount
         /\ exams'[i].timeLimit = exams[i].timeLimit
         /\ exams'[i].type = exams[i].type
         /\ exams'[i].subjectId = exams[i].subjectId
         /\ exams'[i].ticketId = exams[i].ticketId
<1>1. exams[i] \in Exam
  BY DEF TypeOK, Ids
<1>2. ASSUME NEW c \in Client, Expires(c) \/ Completes(c)
      PROVE  /\ i \in Ids'
             /\ \/ exams'[i] = exams[i]
                \/ exams'[i] = ExpiredRow(exams[i])
                \/ \E s : exams'[i] = CompletedRow(exams[i], s)
  BY <1>1, <1>2 DEF Expires, Completes, TypeOK, Ids
<1>3. ASSUME NEW c \in Client, Opens(c)
      PROVE  i \in Ids' /\ exams'[i] = exams[i]
  BY <1>3 DEF Opens
<1>4. i \in Ids'
  BY <1>2, <1>3, NextExams DEF Ids
<1> QED
  BY <1>1, <1>2, <1>3, <1>4, NextExams DEF ExpiredRow, CompletedRow, Exam

(* A request comes to carry an exam only by finding one of its user.       *)
LEMMA FoundExams ==
  ASSUME TypeOK, [Next]_vars, NEW c \in Client, req'[c].pc \in HasExam
  PROVE  \/ req[c].pc \in HasExam /\ req'[c] = req[c]
         \/ /\ req'[c].exam \in Ids
            /\ exams[req'[c].exam].user = Owner[c]
            /\ exams[req'[c].exam].status = "active"
<1> DEFINE Goal == \/ req[c].pc \in HasExam /\ req'[c] = req[c]
                   \/ /\ req'[c].exam \in Ids
                      /\ exams[req'[c].exam].user = Owner[c]
                      /\ exams[req'[c].exam].status = "active"
<1>1. ASSUME NEW d \in Client, ClientStep(d)
      PROVE  Goal
  <2>1. ASSUME NEW dto \in StartDto, StartExam(d, dto)
        PROVE  Goal
    BY <2>1 DEF StartExam, Matches, Send, Idle, HasExam, TypeOK
  <2>2. ASSUME NEW j \in Ids, NEW s \in Submission, FinishExam(d, j, s)
        PROVE  Goal
    BY <2>2 DEF FinishExam, MayFinish, Send, Idle, HasExam, TypeOK
  <2> QED
    BY <1>1, <2>1, <2>2 DEF ClientStep
<1>2. ASSUME NEW d \in Client, RequestStep(d)
      PROVE  Goal
  <2>1. CASE Answer(d)
    BY <2>1, IdleType DEF Answer, Send, HasExam, TypeOK
  <2>2. CASE AtPc(d, "validate") /\ Goto(d, "load")
    BY <2>2 DEF AtPc, Goto, HasExam, TypeOK, Request
  <2>3. ASSUME NEW p, req' = [req EXCEPT ![d].pc = "create", ![d].paper = p]
        PROVE  Goal
    BY <2>3 DEF HasExam, TypeOK, Request
  <2> QED
    BY <1>2, <2>1, <2>2, <2>3
       DEF RequestStep, ResumeExam, ValidateExamType, GetQuestionsByType,
           CreateExamSession, SubmitExam
<1>3. CASE req' = req
  BY <1>3
<1> QED
  BY <1>1, <1>2, <1>3 DEF Next, EditQuestion, RemoveTarget, Tick, vars

(* An exam changes only in a step of a request of the user who sits it.    *)
THEOREM OwnersOnly == Spec => OnlyOwnerChanges
<1> DEFINE OwnerInv == TypeOK /\ CarriesItsOwn
<1>1. Init => OwnerInv
  BY InitType DEF Init, CarriesItsOwn, Idle, HasExam
<1>2. ASSUME OwnerInv, [Next]_vars
      PROVE  CarriesItsOwn'
  <2> SUFFICES ASSUME NEW c \in Client, req'[c].pc \in HasExam
               PROVE  exams'[req'[c].exam].user = Owner[c]
    BY DEF CarriesItsOwn, HasExam
  <2>1. CASE req[c].pc \in HasExam /\ req'[c] = req[c]
    BY <1>2, <2>1, FieldsStay DEF CarriesItsOwn, TypeOK
  <2>2. CASE req'[c].exam \in Ids /\ exams[req'[c].exam].user = Owner[c]
    BY <1>2, <2>2, FieldsStay
  <2> QED
    BY <1>2, <2>1, <2>2, FoundExams
<1>3. OwnerInv /\ [Next]_vars => OwnerInv'
  BY <1>2, NextType
<1>4. ASSUME OwnerInv, [Next]_vars, NEW i \in Ids, exams'[i] # exams[i]
      PROVE  \E c \in Client : /\ Owner[c] = exams[i].user
                               /\ req[c].exam = i
                               /\ req'[c] # req[c]
  <2>1. PICK c \in Client : Expires(c) \/ Completes(c)
    BY <1>4, NextExams DEF Opens
  <2>2. req[c].exam = i
    BY <1>4, <2>1 DEF Expires, Completes, TypeOK, Ids
  <2>3. req[c].pc \in HasExam /\ req'[c] = Idle
    BY <1>4, <2>1
       DEF Expires, Completes, ResumeExam, SubmitExam, AtPc, HasExam,
           Answer, Send, TypeOK
  <2>4. req'[c] # req[c]
    BY <2>3, IdleType DEF HasExam
  <2> QED
    BY <1>4, <2>2, <2>3, <2>4 DEF CarriesItsOwn
<1>5. OwnerInv /\ [Next]_vars
        => [\A i \in Ids : exams'[i] # exams[i] =>
              \E c \in Client : /\ Owner[c] = exams[i].user
                                /\ req[c].exam = i
                                /\ req'[c] # req[c]]_vars
  BY <1>4
<1> QED
  BY <1>1, <1>3, <1>5, PTL DEF Spec, OnlyOwnerChanges

-----------------------------------------------------------------------------
(* PapersAreWellFormed.  What the two validating queries established goes  *)
(* with the request to the insert, whatever becomes of the bank meanwhile. *)

TargetGiven(dto) ==
  /\ dto.type = "SUBJECT" => dto.subjectId # None
  /\ dto.type = "TICKET" => dto.ticketId # None

PaperFits(dto, p) ==
  /\ p # {}
  /\ dto.type = "RANDOM" => Cardinality(p) = RandomCount

Validated ==
  \A c \in Client :
    /\ req[c].pc \in {"load", "create"} => TargetGiven(req[c].dto)
    /\ req[c].pc = "create" => PaperFits(req[c].dto, req[c].paper)

LEMMA PapersFit ==
  ASSUME NEW dto \in Dto, NEW p \in Papers(dto)
  PROVE  PaperFits(dto, p)
<1>1. CASE dto.type = "RANDOM"
  <2>1. Cardinality(p) = RandomCount
    BY <1>1 DEF Papers
  <2>2. p # {}
    BY <2>1, FS_EmptySet, RandomAssumption
  <2> QED
    BY <2>1, <2>2 DEF PaperFits
<1>2. CASE dto.type # "RANDOM"
  <2>1. p = QuestionsOf(dto) /\ Cardinality(p) >= 1
    BY <1>2 DEF Papers, Usable
  <2>2. p # {}
    BY <2>1, FS_EmptySet
  <2> QED
    BY <1>2, <2>2 DEF PaperFits
<1> QED
  BY <1>1, <1>2

(* A request comes to the load and to the insert only through the queries  *)
(* that validate what it carries.                                          *)
LEMMA ValidatedKept ==
  ASSUME TypeOK, Validated, [Next]_vars
  PROVE  Validated'
<1> DEFINE V(r) == /\ r.pc \in {"load", "create"} => TargetGiven(r.dto)
                   /\ r.pc = "create" => PaperFits(r.dto, r.paper)
<1>1. ASSUME NEW c \in Client, NEW d \in Client, RequestStep(d)
      PROVE  V(req'[c])
  <2>1. V(req[c])
    BY DEF Validated
  <2>2. CASE Answer(d)
    BY <2>1, <2>2, IdleType DEF Answer, Send, TypeOK
  <2>3. CASE ValidateExamType(d) /\ Goto(d, "load")
    <3>1. req[d].dto \in Dto /\ TargetIsLive(req[d].dto)
      BY <2>3, IdleType
         DEF ValidateExamType, AtPc, Starting, TypeOK, Goto, Answer, Send, Request
    <3>2. TargetGiven(req[d].dto)
      BY <3>1, NoneAssumption DEF TargetIsLive, TargetGiven, TypeOK, Dto, ExamType
    <3> QED
      BY <2>1, <2>3, <3>2 DEF Goto, TypeOK, Request
  <2>4. ASSUME AtPc(d, "load"), NEW p \in Papers(req[d].dto),
               req' = [req EXCEPT ![d].pc = "create", ![d].paper = p]
        PROVE  V(req'[c])
    <3>1. req[d].dto \in Dto /\ TargetGiven(req[d].dto)
      BY <2>4 DEF AtPc, Starting, TypeOK, Validated
    <3>2. PaperFits(req[d].dto, p)
      BY <2>4, <3>1, PapersFit
    <3> QED
      BY <2>1, <2>4, <3>1, <3>2 DEF TypeOK, Request
  <2> QED
    BY <1>1, <2>2, <2>3, <2>4
       DEF RequestStep, ResumeExam, ValidateExamType, GetQuestionsByType,
           CreateExamSession, SubmitExam
<1>2. ASSUME NEW c \in Client, NEW d \in Client, ClientStep(d)
      PROVE  V(req'[c])
  BY <1>2 DEF Validated, ClientStep, StartExam, FinishExam, Send, Idle, TypeOK
<1>3. ASSUME NEW c \in Client, req' = req
      PROVE  V(req'[c])
  BY <1>3 DEF Validated
<1>4. \A c \in Client : V(req'[c])
  BY <1>1, <1>2, <1>3 DEF Next, EditQuestion, RemoveTarget, Tick, vars
<1> QED
  BY <1>4 DEF Validated, TargetGiven, PaperFits

(* Every exam ever created has questions, a minute for each, RandomCount   *)
(* of them if RANDOM, and the id of its subject or ticket.                 *)
THEOREM WellFormedPapers == Spec => []PapersAreWellFormed
<1> DEFINE PaperInv == TypeOK /\ Validated /\ PapersAreWellFormed
<1>1. Init => PaperInv
  BY InitType DEF Init, Validated, PapersAreWellFormed, Idle, Ids
<1>2. ASSUME PaperInv, [Next]_vars
      PROVE  PapersAreWellFormed'
  <2>1. ASSUME NEW i \in Ids'
        PROVE  LET e == exams'[i] IN
                 /\ e.questionIds # {}
                 /\ e.questionCount = Cardinality(e.questionIds)
                 /\ e.timeLimit = e.questionCount
                 /\ e.type = "RANDOM" => e.questionCount = RandomCount
                 /\ e.type = "SUBJECT" => e.subjectId # None
                 /\ e.type = "TICKET" => e.ticketId # None
    <3>1. CASE i \in Ids
      BY <1>2, <3>1, FieldsStay DEF PapersAreWellFormed
    <3>2. CASE i \notin Ids
      <4>1. PICK c \in Client : Opens(c)
        BY <1>2, <2>1, <3>2, NextExams DEF Expires, Completes, Ids, TypeOK
      <4>2. exams'[i] = NewExam(req[c].dto, Owner[c], req[c].paper)
        BY <2>1, <3>2, <4>1 DEF Opens
      <4>3. TargetGiven(req[c].dto) /\ PaperFits(req[c].dto, req[c].paper)
        BY <1>2, <4>1 DEF Validated, Opens, CreateExamSession, AtPc
      <4> QED
        BY <4>2, <4>3 DEF NewExam, TargetGiven, PaperFits
    <3> QED
      BY <3>1, <3>2
  <2> QED
    BY <2>1 DEF PapersAreWellFormed
<1>3. PaperInv /\ [Next]_vars => PaperInv'
  BY <1>2, NextType, ValidatedKept
<1>4. PaperInv => PapersAreWellFormed
  OBVIOUS
<1> QED
  BY <1>1, <1>3, <1>4, PTL DEF Spec

-----------------------------------------------------------------------------
(* Exams implements ExamLedger when every user has one client, and so one  *)
(* request in flight: the separate queries of a handler are then as good   *)
(* as one atomic step.                                                     *)

OneClientPerUser == \A c, d \in Client : Owner[c] = Owner[d] => c = d

(* What a request read is still so when it uses it.                        *)
CarriesActive ==
  \A c \in Client :
    /\ req[c].pc \in HasExam => exams[req[c].exam].status = "active"
    /\ req[c].pc = "submit" => req[c].submission \in Submission

SerialInv == TypeOK /\ CarriesItsOwn /\ CarriesActive /\ Validated

LEMMA CarriesItsOwnKept ==
  ASSUME TypeOK, CarriesItsOwn, [Next]_vars
  PROVE  CarriesItsOwn'
<1> SUFFICES ASSUME NEW c \in Client, req'[c].pc \in HasExam
             PROVE  exams'[req'[c].exam].user = Owner[c]
  BY DEF CarriesItsOwn, HasExam
<1>1. CASE req[c].pc \in HasExam /\ req'[c] = req[c]
  BY <1>1, FieldsStay DEF CarriesItsOwn, TypeOK
<1>2. CASE req'[c].exam \in Ids /\ exams[req'[c].exam].user = Owner[c]
  BY <1>2, FieldsStay
<1> QED
  BY <1>1, <1>2, FoundExams

(* A request that updates an exam is answered, and nobody else carries the *)
(* exam, for all requests that carry it are of its user.                   *)
LEMMA CarriedAlone ==
  ASSUME OneClientPerUser, TypeOK, CarriesItsOwn, [Next]_vars,
         NEW c \in Client, req'[c].pc \in HasExam
  PROVE  exams'[req'[c].exam].status = exams[req'[c].exam].status
<1> DEFINE k == req'[c].exam
<1>1. k \in Ids /\ exams[k].user = Owner[c]
  BY FoundExams DEF CarriesItsOwn, TypeOK
<1>2. ASSUME NEW d \in Client, Expires(d) \/ Completes(d)
      PROVE  exams'[k] = exams[k]
  <2>1. req[d].pc \in HasExam /\ req'[d] = Idle
    BY <1>2 DEF Expires, Completes, ResumeExam, SubmitExam, AtPc, HasExam,
                Answer, Send, TypeOK
  <2>2. d # c
    BY <2>1, IdleType DEF HasExam
  <2>3. req[d].exam # k
    BY <1>1, <2>1, <2>2 DEF CarriesItsOwn, OneClientPerUser
  <2> QED
    BY <1>1, <1>2, <2>3 DEF Expires, Completes, TypeOK, Ids
<1> QED
  BY <1>1, <1>2, NextExams DEF Opens

LEMMA SubmissionsKept ==
  ASSUME TypeOK, CarriesActive, [Next]_vars, NEW c \in Client,
         req'[c].pc = "submit"
  PROVE  req'[c].submission \in Submission
<1>1. ASSUME NEW d \in Client, ClientStep(d)
      PROVE  req'[c].submission \in Submission
  BY <1>1 DEF ClientStep, StartExam, FinishExam, Send, Idle, CarriesActive, TypeOK
<1>2. ASSUME NEW d \in Client, RequestStep(d)
      PROVE  req'[c].submission \in Submission
  <2>1. CASE Answer(d)
    BY <2>1, IdleType DEF Answer, Send, CarriesActive, TypeOK
  <2>2. CASE Goto(d, "load")
    BY <2>2 DEF Goto, CarriesActive, TypeOK, Request
  <2>3. ASSUME NEW p, req' = [req EXCEPT ![d].pc = "create", ![d].paper = p]
        PROVE  req'[c].submission \in Submission
    BY <2>3 DEF CarriesActive, TypeOK, Request
  <2> QED
    BY <1>2, <2>1, <2>2, <2>3
       DEF RequestStep, ResumeExam, ValidateExamType, GetQuestionsByType,
           CreateExamSession, SubmitExam
<1>3. CASE req' = req
  BY <1>3 DEF CarriesActive
<1> QED
  BY <1>1, <1>2, <1>3 DEF Next, EditQuestion, RemoveTarget, Tick, vars

LEMMA SerialInvariant ==
  ASSUME OneClientPerUser
  PROVE  /\ Init => SerialInv
         /\ SerialInv /\ [Next]_vars => SerialInv'
<1>1. Init => SerialInv
  BY InitType DEF Init, SerialInv, CarriesItsOwn, CarriesActive, Validated,
                  Idle, HasExam
<1>2. ASSUME SerialInv, [Next]_vars, NEW c \in Client, req'[c].pc \in HasExam
      PROVE  exams'[req'[c].exam].status = "active"
  <2>1. exams[req'[c].exam].status = "active"
    BY <1>2, FoundExams DEF SerialInv, CarriesActive
  <2> QED
    BY <1>2, <2>1, CarriedAlone DEF SerialInv
<1>3. ASSUME SerialInv, [Next]_vars
      PROVE  CarriesActive'
  BY <1>2, <1>3, SubmissionsKept DEF SerialInv, CarriesActive, HasExam
<1> QED
  BY <1>1, <1>3, NextType, CarriesItsOwnKept, ValidatedKept DEF SerialInv

-----------------------------------------------------------------------------
(* The ledger a table of exams stands for.                                 *)

Entry(e) == [user |-> e.user, startedAt |-> e.startedAt,
             timeLimit |-> e.timeLimit, status |-> e.status,
             score |-> e.correctQuestionCount]

Entries == [i \in Ids |-> Entry(exams[i])]

LEMMA EntriesUpdate ==
  ASSUME TypeOK, NEW k \in Ids, NEW row,
         exams' = [exams EXCEPT ![k] = row]
  PROVE  Entries' = [Entries EXCEPT ![k] = Entry(row)]
<1>1. Ids' = Ids
  BY DEF TypeOK, Ids
<1>2. \A i \in Ids : exams'[i] = IF i = k THEN row ELSE exams[i]
  BY DEF TypeOK, Ids
<1> QED
  BY <1>1, <1>2 DEF Entries, Entry

LEMMA EntriesAppend ==
  ASSUME TypeOK, NEW c \in Client, Opens(c)
  PROVE  Entries' = Append(Entries, Entry(exams'[Len(exams) + 1]))
<1> DEFINE n == Len(exams)
           e == Entry(exams'[n + 1])
<1>1. n \in Nat /\ Ids = 1..n /\ Ids' = 1..(n + 1)
  BY DEF TypeOK, Ids, Opens
<1>2. Entries \in Seq({Entry(exams[i]) : i \in Ids}) /\ Len(Entries) = n
  BY <1>1 DEF Entries
<1>3. Append(Entries, e) = [i \in 1..(n + 1) |-> IF i = n + 1 THEN e ELSE Entries[i]]
  BY <1>1, <1>2
<1>4. \A i \in Ids : i # n + 1 /\ Entry(exams'[i]) = Entries[i]
  BY <1>1 DEF Opens, Entries
<1> QED
  BY <1>1, <1>3, <1>4 DEF Entries

LEMMA SameLedger ==
  ASSUME UNCHANGED <<exams, now>>
  PROVE  UNCHANGED Ledger!lvars
  BY DEF Ledger!lvars, Ids

LEMMA ExpiresIsExpire ==
  ASSUME SerialInv, NEW c \in Client, Expires(c)
  PROVE  Ledger!LNext
<1> DEFINE k == req[c].exam
           e == exams[k]
<1>1. k \in Ids /\ e \in Exam /\ now \in Nat
  BY DEF Expires, SerialInv, TypeOK, Ids
<1>2. e.status = "active"
  BY DEF Expires, ResumeExam, AtPc, HasExam, SerialInv, CarriesActive
<1>3. now - e.startedAt >= e.timeLimit * TicksPerMinute
  <2>0. e.startedAt \in Nat /\ e.timeLimit \in Nat
    BY <1>1 DEF Exam
  <2>1. TimeSpent(e) \in Int
    BY <1>1, <2>0, TicksAssumption DEF TimeSpent
  <2>2. e.timeLimit <= TimeSpent(e)
    BY <2>0, <2>1 DEF Expires, RemainingTime
  <2>3. e.timeLimit * TicksPerMinute <= now - e.startedAt
    BY <1>1, <2>0, <2>2, NoMinuteLeft DEF TimeSpent
  <2> QED
    BY <1>1, <2>0, <2>3, TicksAssumption
<1>4. Entries' = [Entries EXCEPT ![k] = Entry(ExpiredRow(e))]
  BY <1>1, EntriesUpdate DEF Expires, SerialInv
<1>5. Entry(ExpiredRow(e)) = [Entry(e) EXCEPT !.status = "expired"]
  <2>1. /\ ExpiredRow(e).user = e.user
        /\ ExpiredRow(e).startedAt = e.startedAt
        /\ ExpiredRow(e).timeLimit = e.timeLimit
        /\ ExpiredRow(e).correctQuestionCount = e.correctQuestionCount
        /\ ExpiredRow(e).status = "expired"
    BY <1>1 DEF ExpiredRow, Exam
  <2> QED
    BY <2>1 DEF Entry
<1>6. Entries' = [Entries EXCEPT ![k].status = "expired"] /\ Entries[k] = Entry(e)
  BY <1>1, <1>4, <1>5 DEF Entries
<1>7. now' = now
  BY DEF Expires, ResumeExam
<1>8. Ledger!Expire(k)
  BY <1>1, <1>2, <1>3, <1>6, <1>7 DEF Ledger!Expire, Entries, Entry
<1> QED
  <2>1. DOMAIN Entries = Ids
    BY DEF Entries
  <2> QED
    BY <1>1, <1>8, <2>1, Zenon
       DEF Ledger!LNext, Ledger!Expire, Ledger!Complete, Entries, Entry

LEMMA CompletesIsComplete ==
  ASSUME SerialInv, NEW c \in Client, Completes(c)
  PROVE  Ledger!LNext
<1> DEFINE k == req[c].exam
           e == exams[k]
           s == req[c].submission
<1>1. k \in Ids /\ e \in Exam
  BY DEF Completes, SerialInv, TypeOK, Ids
<1>2. e.status = "active" /\ s \in Submission
  BY DEF Completes, SubmitExam, AtPc, HasExam, SerialInv, CarriesActive
<1>3. Entries' = [Entries EXCEPT ![k] = Entry(CompletedRow(e, s))]
  BY <1>1, EntriesUpdate DEF Completes, SerialInv
<1>4. Entry(CompletedRow(e, s))
        = [Entry(e) EXCEPT !.status = "completed", !.score = Len(s)]
  <2>1. /\ CompletedRow(e, s).user = e.user
        /\ CompletedRow(e, s).startedAt = e.startedAt
        /\ CompletedRow(e, s).timeLimit = e.timeLimit
        /\ CompletedRow(e, s).correctQuestionCount = Len(s)
        /\ CompletedRow(e, s).status = "completed"
    BY <1>1 DEF CompletedRow, Exam
  <2>2. [Entry(e) EXCEPT !.status = "completed"]
          = [user |-> e.user, startedAt |-> e.startedAt,
             timeLimit |-> e.timeLimit, status |-> "completed",
             score |-> e.correctQuestionCount]
    BY DEF Entry
  <2>3. [[Entry(e) EXCEPT !.status = "completed"] EXCEPT !.score = Len(s)]
          = Entry(CompletedRow(e, s))
    <3>1. [[user |-> e.user, startedAt |-> e.startedAt,
            timeLimit |-> e.timeLimit, status |-> "completed",
            score |-> e.correctQuestionCount] EXCEPT !.score = Len(s)]
            = [user |-> e.user, startedAt |-> e.startedAt,
               timeLimit |-> e.timeLimit, status |-> "completed",
               score |-> Len(s)]
      OBVIOUS
    <3>2. Entry(CompletedRow(e, s))
            = [user |-> e.user, startedAt |-> e.startedAt,
               timeLimit |-> e.timeLimit, status |-> "completed",
               score |-> Len(s)]
      BY <2>1 DEF Entry
    <3> QED
      BY <2>2, <3>1, <3>2
  <2>4. [Entry(e) EXCEPT !.status = "completed", !.score = Len(s)]
          = [[Entry(e) EXCEPT !.status = "completed"] EXCEPT !.score = Len(s)]
    BY DEF Entry
  <2> QED
    BY <2>3, <2>4
<1>5. /\ Entries' = [Entries EXCEPT ![k].status = "completed", ![k].score = Len(s)]
      /\ Entries[k] = Entry(e)
  BY <1>1, <1>3, <1>4 DEF Entries, Entry
<1>6. now' = now
  BY DEF Completes, SubmitExam
<1>7. Ledger!Complete(k)
  BY <1>1, <1>2, <1>5, <1>6 DEF Ledger!Complete, Entries, Entry
<1> QED
  <2>1. DOMAIN Entries = Ids
    BY DEF Entries
  <2> QED
    BY <1>1, <1>7, <2>1, Zenon
       DEF Ledger!LNext, Ledger!Expire, Ledger!Complete, Entries, Entry

LEMMA OpensIsOpen ==
  ASSUME SerialInv, NEW c \in Client, Opens(c)
  PROVE  Ledger!LNext
<1> DEFINE paper == req[c].paper
           row == NewExam(req[c].dto, Owner[c], paper)
<1>1. Owner[c] \in User
  BY OwnerAssumption
<1>2. paper \subseteq Question /\ paper # {}
  BY DEF Opens, CreateExamSession, AtPc, SerialInv, Validated, PaperFits,
         TypeOK, Request
<1>3. Cardinality(paper) \in 1..Cardinality(Question)
  <2>1. /\ IsFiniteSet(paper)
        /\ Cardinality(paper) \in Nat /\ Cardinality(Question) \in Nat
        /\ Cardinality(paper) <= Cardinality(Question)
    BY <1>2, FS_Subset, FS_CardinalityType, QuestionAssumption
  <2>2. Cardinality(paper) # 0
    BY <1>2, <2>1, FS_EmptySet
  <2> QED
    BY <2>1, <2>2
<1>4. Entries' = Append(Entries, Entry(row))
  BY EntriesAppend DEF Opens, SerialInv
<1>5. Entry(row) = [user |-> Owner[c], startedAt |-> now,
                    timeLimit |-> Cardinality(paper),
                    status |-> "active", score |-> 0]
  BY DEF Entry, NewExam
<1>6. now' = now
  BY DEF Opens, CreateExamSession
<1>7. Ledger!Open
  BY <1>1, <1>3, <1>4, <1>5, <1>6 DEF Ledger!Open, Entries, Entry
<1> QED
  BY <1>7 DEF Ledger!LNext

LEMMA StepIsLedgerStep ==
  ASSUME SerialInv, [Next]_vars
  PROVE  [Ledger!LNext]_(Ledger!lvars)
<1>1. CASE exams' = exams /\ now' = now
  BY <1>1, SameLedger
<1>2. CASE exams' = exams /\ Tick
  BY <1>2 DEF Tick, Ids, Ledger!LNext, Ledger!Pass
<1>3. exams' = exams => now' = now \/ Tick
  BY DEF Next, RequestStep, ClientStep, ResumeExam, ValidateExamType,
         GetQuestionsByType, CreateExamSession, SubmitExam, StartExam,
         FinishExam, EditQuestion, RemoveTarget, vars
<1>4. CASE exams' # exams
  BY <1>4, NextExams, ExpiresIsExpire, CompletesIsComplete, OpensIsOpen
     DEF SerialInv
<1> QED
  BY <1>1, <1>2, <1>3, <1>4

(* With one client per user, every exam lives as the ledger promises.      *)
THEOREM SerialImplementsLedger ==
  ASSUME OneClientPerUser
  PROVE  Spec => LedgerSpec
<1>1. Init => Ledger!LInit
  BY DEF Init, Ids, Ledger!LInit
<1>2. Init => SerialInv
  BY SerialInvariant
<1>3. SerialInv /\ [Next]_vars => SerialInv'
  BY SerialInvariant
<1>4. SerialInv /\ [Next]_vars => [Ledger!LNext]_(Ledger!lvars)
  BY StepIsLedgerStep
<1> QED
  BY <1>1, <1>2, <1>3, <1>4, PTL DEF Spec, LedgerSpec, Ledger!LSpec
=============================================================================
