--------------------------- MODULE QuestionProofs ---------------------------
(***************************************************************************)
(* What hangs on questions, for any questions.                             *)
(*                                                                         *)
(* Answers: when one administrator edits, or several update and remove but *)
(* create nothing, a question has at most one correct answer and stays one *)
(* exams can ask until somebody asks for something else.                   *)
(*                                                                         *)
(* Saved questions, for any devices: none is saved twice; what the answers *)
(* said is stored and toggles succeed, where the operations allow it.      *)
(***************************************************************************)
EXTENDS AnswerBank, SequenceTheorems, FiniteSetTheorems, TLAPS

CONSTANTS
  Client, NoQuestion, SavedOperations, MaxRows \* as in SavedQuestions

VARIABLES
  saved, sreq, told \* as in SavedQuestions

SQ == INSTANCE SavedQuestions WITH
  None <- NoQuestion, Operations <- SavedOperations, req <- sreq

(* Who looks for a correct answer and inserts one later relies on nobody   *)
(* doing so in between: either there is one administrator, or several that *)
(* only update and remove.  Otherwise two correct answers can be created.  *)
Alone == \A e, f \in Editor : e = f
NoCreation == Operations \intersect {"create", "createCorrect", "createMultiple"} = {}

(* The bank begins with at most one correct answer to a question.          *)
InitIsSound ==
  \A i, j \in DOMAIN InitAnswers :
    /\ InitAnswers[i].question = InitAnswers[j].question
    /\ InitAnswers[i].isCorrect /\ ~InitAnswers[i].isDeleted
    /\ InitAnswers[j].isCorrect /\ ~InitAnswers[j].isDeleted
    => i = j

Setting ==
  /\ BatchAssumption /\ InitAssumption /\ EditorAssumption /\ InitIsSound
  /\ Alone \/ NoCreation

Request == [pc : {"idle", "insert", "others"}, new : Seq(Answer), target : Nat, todo : SUBSET Ids]

Live(i) == ~answers[i].isDeleted
Correct(i) == answers[i].isCorrect /\ Live(i)
SameQuestion(i) == {j \in Ids : answers[j].question = answers[i].question}

(* What a transaction relies on: each other live answer of the question is *)
(* still to be written, or is locked by it.                                *)
Covered(e) ==
  /\ req[e].target \in Ids
  /\ req[e].todo \subseteq SameQuestion(req[e].target)
  /\ \A j \in SameQuestion(req[e].target) :
       Live(j) => j = req[e].target \/ j \in req[e].todo \/ lock[j] = e

(* What an insertion relies on: nobody else edits, and what was looked for *)
(* is as it was.                                                           *)
Ready(e) ==
  /\ Alone
  /\ \E q \in Question, flags \in Seq(BOOLEAN) :
       /\ req[e].new = NewAnswers(q, flags)
       /\ \A k, l \in DOMAIN flags : flags[k] /\ flags[l] => k = l
       /\ MayCreate(q, flags)

LocksOK(e) ==
  \A j \in Ids : lock[j] = e => AtPc(e, "others") /\ j \in SameQuestion(req[e].target)

EditorOK(e) ==
  /\ AtPc(e, "others") => Covered(e)
  /\ AtPc(e, "insert") => Ready(e)
  /\ LocksOK(e)

(* One correct answer at most, said of rows.                               *)
OneEach ==
  \A i, j \in Ids :
    Correct(i) /\ Correct(j) /\ answers[i].question = answers[j].question => i = j

IInv == TypeOK /\ OneEach /\ \A e \in Editor : EditorOK(e)

LEMMA OneEachIsOneCorrect == ASSUME TypeOK PROVE OneEach => OneCorrectAtMost
BY DEF OneEach, OneCorrectAtMost, CorrectOf, AnswersOf, Correct, Live

LEMMA Numbers ==
  ASSUME TypeOK
  PROVE  /\ answers \in Seq(Answer)
         /\ Ids = 1..Len(answers) /\ Len(answers) \in Nat /\ IsFiniteSet(Ids)
         /\ \A i \in Ids : answers[i] \in Answer
         /\ lock \in Seq(Editor \union {None}) /\ Len(lock) = Len(answers)
         /\ req \in [Editor -> Request]
PROOF
<1>1. Ids = 1..Len(answers) /\ Len(answers) \in Nat /\ \A i \in Ids : answers[i] \in Answer
  BY DEF TypeOK, Ids
<1>2. IsFiniteSet(Ids)
  BY <1>1, FS_Interval
<1>3. lock \in Seq(Editor \union {None}) /\ Len(lock) = Len(answers)
  BY <1>1 DEF TypeOK
<1> QED
  BY <1>1, <1>2, <1>3 DEF TypeOK, Request

LEMMA IdleFits == ASSUME NEW S PROVE Idle.pc = "idle" /\ Idle.todo = {} /\ Idle \in
  [pc : {"idle", "insert", "others"}, new : Seq(Answer), target : Nat, todo : SUBSET S]
PROOF
<1>1. <<>> \in Seq(Answer)
  BY EmptySeq
<1> QED
  BY <1>1 DEF Idle

LEMMA InitIInv == ASSUME Setting, Init PROVE IInv
PROOF
<1>1. answers \in Seq(Answer) /\ answers = InitAnswers
  BY DEF Init, Setting, InitAssumption
<1>2. TypeOK
  BY <1>1, IdleFits DEF Init, TypeOK, Ids
<1>3. OneEach
  BY <1>1 DEF OneEach, Correct, Live, Setting, InitIsSound, Ids
<1>4. \A e \in Editor : EditorOK(e)
  BY <1>1, IdleFits DEF Init, EditorOK, AtPc, LocksOK, Setting, EditorAssumption, Ids
<1> QED
  BY <1>2, <1>3, <1>4 DEF IInv

-----------------------------------------------------------------------------
(* What the writes do to the rows. *)

\* The rows keep their questions, and none comes back to life.
RowsStay ==
  /\ answers' \in Seq(Answer) /\ Ids' = Ids
  /\ \A k \in Ids : /\ answers'[k].question = answers[k].question
                    /\ Live(k)' => Live(k)

LEMMA SameRows == ASSUME TypeOK, answers' = answers PROVE RowsStay
BY DEF TypeOK, RowsStay, Live, Ids

LEMMA RowWritten ==
  ASSUME TypeOK, NEW i \in Ids, NEW row \in Answer, answers' = [answers EXCEPT ![i] = row]
  PROVE  /\ answers' \in Seq(Answer) /\ Ids' = Ids
         /\ \A k \in Ids : answers'[k] = IF k = i THEN row ELSE answers[k]
PROOF
<1>1. answers \in Seq(Answer) /\ Ids = 1..Len(answers) /\ i \in 1..Len(answers)
  BY Numbers
<1>2. answers' \in Seq(Answer) /\ Len(answers') = Len(answers)
  BY <1>1, ExceptSeq
<1>3. Ids' = Ids
  BY <1>1, <1>2 DEF Ids
<1>4. \A k \in Ids : answers'[k] = IF k = i THEN row ELSE answers[k]
  BY <1>1
<1> QED
  BY <1>2, <1>3, <1>4

LEMMA IncorrectRows ==
  ASSUME TypeOK, NEW i \in Ids, answers' = [answers EXCEPT ![i].isCorrect = FALSE]
  PROVE  /\ RowsStay
         /\ \A k \in Ids : /\ Live(k)' <=> Live(k)
                           /\ answers'[k].isCorrect <=> (k # i /\ answers[k].isCorrect)
PROOF
<1> DEFINE row == [answers[i] EXCEPT !.isCorrect = FALSE]
<1>1. answers[i] \in Answer
  BY Numbers
<1>2. /\ row \in Answer /\ row.question = answers[i].question
      /\ row.isDeleted = answers[i].isDeleted /\ row.isCorrect = FALSE
  BY <1>1 DEF Answer
<1>3. answers' = [answers EXCEPT ![i] = row]
  OBVIOUS
<1> HIDE DEF row
<1>4. /\ answers' \in Seq(Answer) /\ Ids' = Ids
      /\ \A k \in Ids : answers'[k] = IF k = i THEN row ELSE answers[k]
  BY <1>2, <1>3, RowWritten
<1> QED
  BY <1>2, <1>4 DEF RowsStay, Live

LEMMA RemovedRows ==
  ASSUME TypeOK, NEW i \in Ids, answers' = [answers EXCEPT ![i].isDeleted = TRUE]
  PROVE  /\ RowsStay
         /\ \A k \in Ids : /\ Live(k)' <=> (k # i /\ Live(k))
                           /\ answers'[k].isCorrect <=> answers[k].isCorrect
PROOF
<1> DEFINE row == [answers[i] EXCEPT !.isDeleted = TRUE]
<1>1. answers[i] \in Answer
  BY Numbers
<1>2. /\ row \in Answer /\ row.question = answers[i].question
      /\ row.isDeleted = TRUE /\ row.isCorrect = answers[i].isCorrect
  BY <1>1 DEF Answer
<1>3. answers' = [answers EXCEPT ![i] = row]
  OBVIOUS
<1> HIDE DEF row
<1>4. /\ answers' \in Seq(Answer) /\ Ids' = Ids
      /\ \A k \in Ids : answers'[k] = IF k = i THEN row ELSE answers[k]
  BY <1>2, <1>3, RowWritten
<1> QED
  BY <1>2, <1>4 DEF RowsStay, Live

LEMMA CommittedRows ==
  ASSUME TypeOK, NEW e \in Editor, Commit(e)
  PROVE  /\ RowsStay
         /\ \A k \in Ids :
              /\ Live(k)' <=> Live(k)
              /\ answers'[k].isCorrect <=>
                   (k = req[e].target \/ (lock[k] # e /\ answers[k].isCorrect))
PROOF
<1>1. Ids = 1..Len(answers) /\ Len(answers) \in Nat /\ \A k \in Ids : answers[k] \in Answer
  BY Numbers
<1> DEFINE row(k) == IF k = req[e].target THEN [answers[k] EXCEPT !.isCorrect = TRUE]
                     ELSE IF lock[k] = e THEN [answers[k] EXCEPT !.isCorrect = FALSE]
                     ELSE answers[k]
<1>2. ASSUME NEW k \in Ids
      PROVE  /\ row(k) \in Answer /\ row(k).question = answers[k].question
             /\ row(k).isDeleted = answers[k].isDeleted
             /\ row(k).isCorrect <=>
                   (k = req[e].target \/ (lock[k] # e /\ answers[k].isCorrect))
  BY <1>1 DEF Answer
<1>3. answers' = [k \in Ids |-> row(k)]
  BY DEF Commit
<1> HIDE DEF row
<1>4. answers' \in Seq(Answer) /\ Ids' = Ids
  BY <1>1, <1>2, <1>3 DEF Ids
<1> QED
  BY <1>2, <1>3, <1>4 DEF RowsStay, Live

LEMMA Concat ==
  ASSUME NEW S, NEW a \in Seq(S), NEW b \in Seq(S)
  PROVE  /\ a \o b \in Seq(S) /\ Len(a \o b) = Len(a) + Len(b)
         /\ \A k \in 1..(Len(a) + Len(b)) :
              (a \o b)[k] = IF k <= Len(a) THEN a[k] ELSE b[k - Len(a)]
BY ConcatProperties

LEMMA InsertedRows ==
  ASSUME TypeOK, NEW e \in Editor, Insert(e)
  PROVE  /\ answers' \in Seq(Answer) /\ Len(answers') = Len(answers) + Len(req[e].new)
         /\ req[e].new \in Seq(Answer) /\ Len(req[e].new) \in Nat
         /\ Ids' = 1..(Len(answers) + Len(req[e].new)) /\ Ids \subseteq Ids'
         /\ \A k \in Ids : answers'[k] = answers[k] /\ lock'[k] = lock[k]
         /\ \A k \in Ids' \ Ids : /\ k - Len(answers) \in DOMAIN req[e].new
                                  /\ answers'[k] = req[e].new[k - Len(answers)]
                                  /\ lock'[k] = None
         /\ lock' \in [Ids' -> Editor \union {None}]
PROOF
<1> DEFINE new == req[e].new
           free == [k \in DOMAIN new |-> None]
<1>1. /\ answers \in Seq(Answer) /\ Ids = 1..Len(answers) /\ Len(answers) \in Nat
      /\ lock \in Seq(Editor \union {None}) /\ Len(lock) = Len(answers)
      /\ req \in [Editor -> Request]
  BY Numbers
<1>2. new \in Seq(Answer) /\ Len(new) \in Nat /\ DOMAIN new = 1..Len(new)
  BY <1>1 DEF Request
<1>3. free \in Seq(Editor \union {None}) /\ Len(free) = Len(new)
      /\ \A k \in 1..Len(new) : free[k] = None
  BY <1>2
<1>4. answers' = answers \o new /\ lock' = lock \o free
  BY DEF Insert
<1> HIDE DEF new, free
<1>5. /\ answers' \in Seq(Answer) /\ Len(answers') = Len(answers) + Len(new)
      /\ \A k \in 1..(Len(answers) + Len(new)) :
           answers'[k] = IF k <= Len(answers) THEN answers[k] ELSE new[k - Len(answers)]
  BY <1>1, <1>2, <1>4, Concat
<1>6. /\ lock' \in Seq(Editor \union {None}) /\ Len(lock') = Len(answers) + Len(new)
      /\ \A k \in 1..(Len(answers) + Len(new)) :
           lock'[k] = IF k <= Len(answers) THEN lock[k] ELSE free[k - Len(answers)]
  BY <1>1, <1>3, <1>4, Concat
<1>7. Ids' = 1..(Len(answers) + Len(new)) /\ Ids \subseteq Ids'
  BY <1>1, <1>2, <1>5 DEF Ids
<1>8. \A k \in Ids : answers'[k] = answers[k] /\ lock'[k] = lock[k]
  BY <1>1, <1>5, <1>6, <1>7
<1>9. ASSUME NEW k \in Ids' \ Ids
      PROVE  k - Len(answers) \in DOMAIN new /\ ~(k <= Len(answers))
  BY <1>1, <1>2, <1>7, <1>9
<1>10. lock' \in [Ids' -> Editor \union {None}]
  BY <1>6, <1>7
<1> QED
  BY <1>2, <1>3, <1>5, <1>6, <1>7, <1>8, <1>9, <1>10 DEF new

-----------------------------------------------------------------------------
(* Requests and locks. *)

LEMMA RequestSet ==
  ASSUME TypeOK, Ids \subseteq Ids', NEW e \in Editor, NEW r \in Request',
         req' = [req EXCEPT ![e] = r]
  PROVE  /\ req' \in [Editor -> Request'] /\ req'[e] = r
         /\ \A f \in Editor : f # e => req'[f] = req[f]
PROOF
<1>1. req \in [Editor -> Request] /\ \A f \in Editor : req[f] \in Request'
  BY Numbers DEF Request
<1> QED
  BY <1>1

LEMMA FinishSets ==
  ASSUME TypeOK, Ids \subseteq Ids', NEW e \in Editor, Finish(e)
  PROVE  /\ req' \in [Editor -> Request'] /\ req'[e] = Idle
         /\ \A f \in Editor : f # e => req'[f] = req[f]
BY RequestSet, IdleFits DEF Finish, Request

LEMMA ReleaseSets ==
  ASSUME Setting, TypeOK, NEW e \in Editor
  PROVE  /\ Release(e) \in [Ids -> Editor \union {None}]
         /\ \A j \in Ids : /\ Release(e)[j] # e
                           /\ \A f \in Editor \ {e} : Release(e)[j] = f <=> lock[j] = f
BY DEF TypeOK, Release, Setting, EditorAssumption

(* A step of e leaves the other editors' transactions as they were.        *)
LEMMA OthersOK ==
  ASSUME IInv, NEW e \in Editor, NEW f \in Editor, f # e,
         req'[f] = req[f], RowsStay,
         \A j \in Ids : lock'[j] = f <=> lock[j] = f
  PROVE  EditorOK(f)'
PROOF
<1>1. EditorOK(f)
  BY DEF IInv
<1>2. ~AtPc(f, "insert")'
  BY <1>1 DEF EditorOK, Ready, Alone, AtPc
<1>3. \A i \in Ids : SameQuestion(i)' = SameQuestion(i)
  BY DEF SameQuestion, RowsStay
<1>4. ASSUME AtPc(f, "others")' PROVE Covered(f)'
  <2>1. Covered(f)
    BY <1>1, <1>4 DEF EditorOK, AtPc
  <2>2. \A j \in SameQuestion(req[f].target) : j \in Ids
    BY DEF SameQuestion
  <2>3. Ids' = Ids /\ \A j \in Ids : Live(j)' => Live(j)
    BY DEF RowsStay
  <2>4. SameQuestion(req[f].target)' = SameQuestion(req[f].target)
    BY <1>3, <2>1 DEF Covered, SameQuestion, RowsStay
  <2> QED
    BY <2>1, <2>2, <2>3, <2>4 DEF Covered
<1>5. LocksOK(f)'
  <2>1. ASSUME NEW j \in Ids, lock[j] = f
        PROVE  /\ AtPc(f, "others") /\ req[f].target \in Ids
               /\ j \in SameQuestion(req[f].target)
    BY <1>1, <2>1 DEF EditorOK, LocksOK, Covered
  <2> QED
    BY <1>3, <2>1 DEF LocksOK, AtPc, RowsStay, SameQuestion
<1> QED
  BY <1>2, <1>4, <1>5 DEF EditorOK

(* A row's update keeps it one correct answer to a question, if it makes   *)
(* none correct.                                                           *)
LEMMA OneEachShrinks ==
  ASSUME IInv, RowsStay,
         \A k \in Ids : answers'[k].isCorrect => answers[k].isCorrect
  PROVE  OneEach'
PROOF
<1>1. Ids' = Ids /\ \A k \in Ids : Correct(k)' => Correct(k)
  BY DEF RowsStay, Correct
<1>2. \A k \in Ids : answers'[k].question = answers[k].question
  BY DEF RowsStay
<1> QED
  BY <1>1, <1>2 DEF IInv, OneEach

(* All editors but e are as before.                                        *)
Leaves(e) == \A f \in Editor : f # e => req'[f] = req[f]
KeepsLocks(e) == \A f \in Editor : f # e => \A j \in Ids : lock'[j] = f <=> lock[j] = f

LEMMA StepKeepsIInv ==
  ASSUME IInv, NEW e \in Editor, RowsStay,
         req' \in [Editor -> Request'], lock' \in [Ids -> Editor \union {None}],
         Leaves(e), KeepsLocks(e), OneEach', EditorOK(e)'
  PROVE  IInv'
PROOF
<1>1. TypeOK'
  BY DEF TypeOK, RowsStay, Request
<1>2. ASSUME NEW f \in Editor PROVE EditorOK(f)'
  BY <1>2, OthersOK DEF Leaves, KeepsLocks
<1> QED
  BY <1>1, <1>2 DEF IInv

LEMMA SetCorrectKeeps ==
  ASSUME IInv, NEW e \in Editor, NEW i \in Ids, SetCorrect(e, i)
  PROVE  IInv'
PROOF
<1>1. TypeOK /\ RowsStay /\ Ids' = Ids
  BY SameRows DEF IInv, SetCorrect, Ids
<1> DEFINE r == [Idle EXCEPT !.pc = "others", !.target = i, !.todo = Others(i)]
<1>2. /\ r \in Request' /\ r.pc = "others" /\ r.target = i /\ r.todo = Others(i)
  <2>1. Others(i) \subseteq Ids' /\ i \in Nat
    BY <1>1, Numbers DEF Others, AnswersOf
  <2> QED
    BY <2>1, EmptySeq DEF Idle, Request
<1>3. req' = [req EXCEPT ![e] = r]
  BY DEF SetCorrect
<1> HIDE DEF r
<1>4. /\ req' \in [Editor -> Request'] /\ Leaves(e)
      /\ AtPc(e, "others")' /\ req'[e].target = i /\ req'[e].todo = Others(i)
  BY <1>1, <1>2, <1>3, RequestSet DEF Leaves, AtPc
<1>5. /\ lock' \in [Ids -> Editor \union {None}] /\ KeepsLocks(e) /\ OneEach'
  BY <1>1, OneEachShrinks DEF SetCorrect, IInv, TypeOK, KeepsLocks
<1>6. Covered(e)'
  <2>1. SameQuestion(i)' = SameQuestion(i) /\ \A j \in Ids : Live(j)' <=> Live(j)
    BY <1>1 DEF SetCorrect, SameQuestion, Live
  <2>2. Others(i) \subseteq SameQuestion(i)
    BY DEF Others, AnswersOf, SameQuestion
  <2>3. \A j \in SameQuestion(i) : j \in Ids /\ (Live(j) => j = i \/ j \in Others(i))
    BY DEF Others, AnswersOf, SameQuestion, Live
  <2> QED
    BY <1>1, <1>4, <2>1, <2>2, <2>3 DEF Covered, SameQuestion
<1>7. LocksOK(e)'
  <2>1. \A j \in Ids : lock'[j] # e
    BY DEF SetCorrect, IInv, EditorOK, LocksOK, AtPc
  <2> QED
    BY <1>1, <2>1 DEF LocksOK
<1>8. EditorOK(e)'
  BY <1>4, <1>6, <1>7 DEF EditorOK, AtPc
<1> QED
  BY <1>1, <1>4, <1>5, <1>8, StepKeepsIInv

LEMMA WriteOtherKeeps ==
  ASSUME Setting, IInv, NEW e \in Editor, NEW j \in Ids, WriteOther(e, j)
  PROVE  IInv'
PROOF
<1>1. TypeOK /\ RowsStay /\ Ids' = Ids
  BY SameRows DEF IInv, WriteOther, Ids
<1>2. Covered(e) /\ LocksOK(e) /\ AtPc(e, "others") /\ j \in req[e].todo
  BY DEF WriteOther, IInv, EditorOK
<1> DEFINE r == [req[e] EXCEPT !.todo = req[e].todo \ {j}]
<1>3. /\ r \in Request' /\ r.pc = "others" /\ r.target = req[e].target
      /\ r.todo = req[e].todo \ {j}
  <2>1. req[e] \in Request
    BY <1>1, Numbers
  <2> QED
    BY <1>1, <1>2, <2>1 DEF Request, AtPc
<1>4. req' = [req EXCEPT ![e] = r]
  BY DEF WriteOther
<1> HIDE DEF r
<1>5. /\ req' \in [Editor -> Request'] /\ Leaves(e)
      /\ AtPc(e, "others")' /\ req'[e].target = req[e].target
      /\ req'[e].todo = req[e].todo \ {j}
  BY <1>1, <1>3, <1>4, RequestSet DEF Leaves, AtPc
<1>6. /\ lock' \in [Ids -> Editor \union {None}] /\ KeepsLocks(e)
      /\ \A k \in Ids : k # j => lock'[k] = lock[k]
      /\ lock'[j] = IF answers[j].isDeleted THEN lock[j] ELSE e
  <2> DEFINE holder == IF answers[j].isDeleted THEN lock[j] ELSE e
  <2>1. lock \in [Ids -> Editor \union {None}] /\ lock' = [lock EXCEPT ![j] = holder]
    BY <1>1 DEF WriteOther, TypeOK
  <2>2. /\ holder \in Editor \union {None}
        /\ \A f \in Editor : f # e => (holder = f <=> lock[j] = f)
    BY <2>1 DEF WriteOther, FreeTo, Setting, EditorAssumption
  <2> HIDE DEF holder
  <2>3. \A k \in Ids : lock'[k] = IF k = j THEN holder ELSE lock[k]
    BY <2>1
  <2>4. KeepsLocks(e)
    BY <2>2, <2>3 DEF KeepsLocks
  <2> QED
    BY <2>1, <2>2, <2>3, <2>4 DEF holder
<1>7. OneEach'
  BY <1>1, OneEachShrinks DEF WriteOther
<1>8. /\ SameQuestion(req[e].target)' = SameQuestion(req[e].target)
      /\ \A k \in Ids : Live(k)' <=> Live(k)
      /\ req[e].todo \subseteq SameQuestion(req[e].target) /\ req[e].target \in Ids
      /\ SameQuestion(req[e].target) \subseteq Ids
  BY <1>1, <1>2, <1>5 DEF WriteOther, SameQuestion, Live, Covered
<1>9. Covered(e)'
  <2>1. ASSUME NEW k \in SameQuestion(req[e].target), Live(k)
        PROVE  k = req[e].target \/ k \in req[e].todo \ {j} \/ lock'[k] = e
    BY <1>2, <1>6, <1>8, <2>1 DEF Covered, Live
  <2> QED
    BY <1>1, <1>5, <1>8, <2>1 DEF Covered
<1>10. LocksOK(e)'
  <2>1. \A k \in Ids : lock'[k] = e => k \in SameQuestion(req[e].target)
    BY <1>2, <1>6, <1>8 DEF LocksOK
  <2> QED
    BY <1>1, <1>5, <1>8, <2>1 DEF LocksOK
<1>11. EditorOK(e)'
  BY <1>5, <1>9, <1>10 DEF EditorOK, AtPc
<1> QED
  BY <1>1, <1>5, <1>6, <1>7, <1>11, StepKeepsIInv

(* An editor that is done holds no lock and relies on nothing.             *)
LEMMA IdleIsOK ==
  ASSUME NEW e \in Editor, req'[e] = Idle, \A j \in Ids' : lock'[j] # e
  PROVE  EditorOK(e)'
BY DEF EditorOK, LocksOK, AtPc, Idle

LEMMA CommitKeeps ==
  ASSUME Setting, IInv, NEW e \in Editor, Commit(e)
  PROVE  IInv'
PROOF
<1> DEFINE t == req[e].target
<1>1. TypeOK /\ RowsStay /\ Ids' = Ids /\ OneEach
  BY CommittedRows DEF IInv, RowsStay
<1>2. \A k \in Ids : /\ Live(k)' <=> Live(k)
                     /\ answers'[k].isCorrect <=> (k = t \/ (lock[k] # e /\ answers[k].isCorrect))
                     /\ answers'[k].question = answers[k].question
  BY <1>1, CommittedRows DEF RowsStay
<1>3. t \in Ids /\ \A j \in SameQuestion(t) : Live(j) => j = t \/ lock[j] = e
  <2>1. Covered(e) /\ req[e].todo = {}
    BY DEF Commit, IInv, EditorOK
  <2> QED
    BY <2>1 DEF Covered
<1> HIDE DEF t
<1>4. OneEach'
  <2> SUFFICES ASSUME NEW i \in Ids, NEW j \in Ids, Correct(i)', Correct(j)',
                      answers[i].question = answers[j].question
               PROVE  i = j
    BY <1>1, <1>2 DEF OneEach
  <2>1. \A k \in Ids : Correct(k)' => Live(k) /\ (k = t \/ (lock[k] # e /\ answers[k].isCorrect))
    BY <1>2 DEF Correct
  <2>2. \A k \in Ids : Correct(k)' /\ answers[k].question = answers[t].question => k = t \/ lock[k] = e
    BY <1>3, <2>1 DEF SameQuestion
  <2>3. CASE i # t /\ j # t
    BY <1>1, <2>1, <2>3 DEF OneEach, Correct
  <2>4. CASE i = t \/ j = t
    BY <2>1, <2>2, <2>4
  <2> QED
    BY <2>3, <2>4
<1>5. /\ req' \in [Editor -> Request'] /\ Leaves(e) /\ req'[e] = Idle
  BY <1>1, FinishSets DEF Commit, Leaves
<1>6. /\ lock' \in [Ids -> Editor \union {None}] /\ KeepsLocks(e) /\ \A j \in Ids' : lock'[j] # e
  BY <1>1, ReleaseSets DEF Commit, KeepsLocks
<1> QED
  BY <1>1, <1>4, <1>5, <1>6, IdleIsOK, StepKeepsIInv

LEMMA RollBackKeeps ==
  ASSUME Setting, IInv, NEW e \in Editor, RollBack(e)
  PROVE  IInv'
PROOF
<1>1. TypeOK /\ RowsStay /\ Ids' = Ids
  BY SameRows DEF IInv, RollBack, Ids
<1>2. /\ req' \in [Editor -> Request'] /\ Leaves(e) /\ req'[e] = Idle
  BY <1>1, FinishSets DEF RollBack, Leaves
<1>3. /\ lock' \in [Ids -> Editor \union {None}] /\ KeepsLocks(e) /\ \A j \in Ids' : lock'[j] # e
  BY <1>1, ReleaseSets DEF RollBack, KeepsLocks
<1>4. OneEach'
  BY <1>1, OneEachShrinks DEF RollBack
<1> QED
  BY <1>1, <1>2, <1>3, <1>4, IdleIsOK, StepKeepsIInv

LEMMA SingleUpdateKeeps ==
  ASSUME IInv, NEW e \in Editor, AtPc(e, "idle"), UNCHANGED <<lock, req>>, RowsStay,
         \A k \in Ids : answers'[k].isCorrect => answers[k].isCorrect
  PROVE  IInv'
PROOF
<1>1. OneEach' /\ TypeOK /\ Ids' = Ids
  BY OneEachShrinks DEF IInv, RowsStay
<1>2. /\ req' \in [Editor -> Request'] /\ Leaves(e)
      /\ lock' \in [Ids -> Editor \union {None}] /\ KeepsLocks(e)
  BY <1>1, Numbers DEF TypeOK, Request, Leaves, KeepsLocks
<1>3. EditorOK(e)'
  <2>1. \A j \in Ids : lock[j] # e
    BY DEF IInv, EditorOK, LocksOK, AtPc
  <2> QED
    BY <1>1, <2>1 DEF EditorOK, LocksOK, AtPc
<1> QED
  BY <1>1, <1>2, <1>3, StepKeepsIInv

LEMMA SetIncorrectKeeps ==
  ASSUME IInv, NEW e \in Editor, NEW i \in Ids, SetIncorrect(e, i)
  PROVE  IInv'
PROOF
<1>1. AtPc(e, "idle") /\ UNCHANGED <<lock, req>> /\ answers' = [answers EXCEPT ![i].isCorrect = FALSE]
  BY DEF SetIncorrect
<1>2. RowsStay /\ \A k \in Ids : answers'[k].isCorrect => answers[k].isCorrect
  BY <1>1, IncorrectRows DEF IInv
<1> QED
  BY <1>1, <1>2, SingleUpdateKeeps

LEMMA RemoveKeeps ==
  ASSUME IInv, NEW e \in Editor, NEW i \in Ids, Remove(e, i)
  PROVE  IInv'
PROOF
<1>1. AtPc(e, "idle") /\ UNCHANGED <<lock, req>> /\ answers' = [answers EXCEPT ![i].isDeleted = TRUE]
  BY DEF Remove
<1>2. RowsStay /\ \A k \in Ids : answers'[k].isCorrect => answers[k].isCorrect
  BY <1>1, RemovedRows DEF IInv
<1> QED
  BY <1>1, <1>2, SingleUpdateKeeps

LEMMA BeginKeeps ==
  ASSUME Setting, Alone, IInv, NEW e \in Editor, NEW q \in Question,
         NEW flags \in Seq(BOOLEAN), \A k, l \in DOMAIN flags : flags[k] /\ flags[l] => k = l,
         Begin(e, q, flags)
  PROVE  IInv'
PROOF
<1>1. TypeOK /\ RowsStay /\ Ids' = Ids
  BY SameRows DEF IInv, Begin, Ids
<1> DEFINE r == [Idle EXCEPT !.pc = "insert", !.new = NewAnswers(q, flags)]
<1>2. r \in Request' /\ r.pc = "insert" /\ r.new = NewAnswers(q, flags)
  <2>1. NewAnswers(q, flags) \in Seq(Answer)
    <3>1. Len(flags) \in Nat /\ DOMAIN flags = 1..Len(flags)
      OBVIOUS
    <3>2. \A k \in DOMAIN flags :
            [question |-> q, isCorrect |-> flags[k], isDeleted |-> FALSE] \in Answer
      BY DEF Answer
    <3> QED
      BY <3>1, <3>2 DEF NewAnswers
  <2> QED
    BY <2>1 DEF Idle, Request
<1>3. req' = [req EXCEPT ![e] = r]
  BY DEF Begin
<1> HIDE DEF r
<1>4. /\ req' \in [Editor -> Request'] /\ Leaves(e)
      /\ AtPc(e, "insert")' /\ req'[e].new = NewAnswers(q, flags)
  BY <1>1, <1>2, <1>3, RequestSet DEF Leaves, AtPc
<1>5. /\ lock' \in [Ids -> Editor \union {None}] /\ KeepsLocks(e) /\ OneEach'
  BY <1>1, OneEachShrinks DEF Begin, IInv, TypeOK, KeepsLocks
<1>6. Ready(e)'
  <2>1. MayCreate(q, flags)'
    BY DEF Begin, MayCreate, CorrectOf, AnswersOf, Ids
  <2> QED
    BY <1>4, <2>1 DEF Ready
<1>7. LocksOK(e)'
  <2>1. \A j \in Ids : lock'[j] # e
    BY DEF Begin, IInv, EditorOK, LocksOK, AtPc
  <2> QED
    BY <1>1, <2>1 DEF LocksOK
<1>8. EditorOK(e)'
  BY <1>4, <1>6, <1>7 DEF EditorOK, AtPc
<1> QED
  BY <1>1, <1>4, <1>5, <1>8, StepKeepsIInv

LEMMA CreateKeeps ==
  ASSUME Setting, IInv, NEW e \in Editor, NEW q \in Question,
         \/ Create(e, q) \/ CreateCorrect(e, q)
         \/ \E flags \in Batches : CreateMultiple(e, q, flags)
  PROVE  IInv'
PROOF
<1>1. Alone
  BY DEF Setting, NoCreation, Create, CreateCorrect, CreateMultiple
<1>2. CASE Create(e, q) \/ CreateCorrect(e, q)
  <2>1. PICK flag \in BOOLEAN : Begin(e, q, <<flag>>)
    BY <1>2 DEF Create, CreateCorrect
  <2>2. <<flag>> \in Seq(BOOLEAN) /\ DOMAIN <<flag>> = {1}
    OBVIOUS
  <2> QED
    BY <1>1, <2>1, <2>2, BeginKeeps
<1>3. ASSUME NEW flags \in Batches, CreateMultiple(e, q, flags) PROVE IInv'
  <2>1. flags \in Seq(BOOLEAN) /\ Begin(e, q, flags)
    BY <1>3 DEF Setting, BatchAssumption, CreateMultiple
  <2> DEFINE right == {k \in DOMAIN flags : flags[k]}
  <2>2. \E k : right = {k}
    <3>1. IsFiniteSet(DOMAIN flags)
      BY <2>1, FS_Interval
    <3>2. IsFiniteSet(right) /\ Cardinality(right) = 1
      BY <1>3, <3>1, FS_Subset DEF CreateMultiple
    <3> QED
      BY <3>2, FS_Singleton
  <2>3. \A k, l \in DOMAIN flags : flags[k] /\ flags[l] => k = l
    BY <2>2
  <2> QED
    BY <1>1, <2>1, <2>3, BeginKeeps
<1> QED
  BY <1>2, <1>3

(* What an insertion adds, to whom it is alone: rows of one question, with *)
(* at most one correct answer, and that only where there was none.         *)
LEMMA InsertsWhatMayBe ==
  ASSUME IInv, NEW e \in Editor, Insert(e)
  PROVE  \E q \in Question :
           /\ \A k \in Ids' \ Ids : answers'[k].question = q /\ Live(k)'
           /\ \A k, l \in Ids' \ Ids :
                answers'[k].isCorrect /\ answers'[l].isCorrect => k = l
           /\ (\E k \in Ids' \ Ids : answers'[k].isCorrect) => CorrectOf(q) = {}
PROOF
<1>1. Ready(e) /\ TypeOK
  BY DEF Insert, IInv, EditorOK
<1>2. PICK q \in Question, flags \in Seq(BOOLEAN) :
        /\ req[e].new = NewAnswers(q, flags)
        /\ \A k, l \in DOMAIN flags : flags[k] /\ flags[l] => k = l
        /\ MayCreate(q, flags)
  BY <1>1 DEF Ready
<1>3. \A k \in DOMAIN flags :
        /\ req[e].new[k].question = q /\ ~req[e].new[k].isDeleted
        /\ req[e].new[k].isCorrect = flags[k]
  BY <1>2 DEF NewAnswers
<1>4. DOMAIN req[e].new = DOMAIN flags
  BY <1>2 DEF NewAnswers
<1> DEFINE n == Len(answers)
<1>5. n \in Nat /\ \A k \in Ids' \ Ids :
        /\ k \in Nat /\ k - n \in DOMAIN flags
        /\ answers'[k].question = q /\ ~answers'[k].isDeleted
        /\ answers'[k].isCorrect = flags[k - n]
  <2>1. n \in Nat /\ \A k \in Ids' : k \in Nat
    BY <1>1, InsertedRows, Numbers
  <2>2. \A k \in Ids' \ Ids : k - n \in DOMAIN flags /\ answers'[k] = req[e].new[k - n]
    BY <1>1, <1>4, InsertedRows
  <2> QED
    BY <1>3, <2>1, <2>2
<1> HIDE DEF n
<1>6. \A k, l \in Ids' \ Ids : answers'[k].isCorrect /\ answers'[l].isCorrect => k = l
  <2> SUFFICES ASSUME NEW k \in Ids' \ Ids, NEW l \in Ids' \ Ids,
                      answers'[k].isCorrect, answers'[l].isCorrect
               PROVE  k = l
    OBVIOUS
  <2>1. k - n = l - n
    BY <1>2, <1>5
  <2> QED
    BY <1>5, <2>1
<1>7. (\E k \in Ids' \ Ids : answers'[k].isCorrect) => CorrectOf(q) = {}
  BY <1>2, <1>5 DEF MayCreate
<1> QED
  BY <1>5, <1>6, <1>7 DEF Live

LEMMA InsertKeeps ==
  ASSUME Setting, IInv, NEW e \in Editor, Insert(e)
  PROVE  IInv'
PROOF
<1>1. TypeOK /\ OneEach /\ Alone /\ LocksOK(e)
  BY DEF IInv, Insert, EditorOK, Ready
<1>2. /\ answers' \in Seq(Answer) /\ Ids \subseteq Ids'
      /\ lock' \in [Ids' -> Editor \union {None}]
      /\ \A k \in Ids : answers'[k] = answers[k] /\ lock'[k] = lock[k]
      /\ \A k \in Ids' \ Ids : lock'[k] = None
  BY <1>1, InsertedRows
<1>3. req' \in [Editor -> Request'] /\ req'[e] = Idle
  BY <1>1, <1>2, FinishSets DEF Insert
<1>4. TypeOK'
  BY <1>2, <1>3 DEF TypeOK, Request
<1>5. OneEach'
  <2>1. PICK q \in Question :
          /\ \A k \in Ids' \ Ids : answers'[k].question = q /\ Live(k)'
          /\ \A k, l \in Ids' \ Ids :
               answers'[k].isCorrect /\ answers'[l].isCorrect => k = l
          /\ (\E k \in Ids' \ Ids : answers'[k].isCorrect) => CorrectOf(q) = {}
    BY InsertsWhatMayBe
  <2>2. \A k \in Ids : Correct(k)' <=> Correct(k)
    BY <1>2 DEF Correct, Live
  <2>3. \A k \in Ids : Correct(k) /\ answers[k].question = q => CorrectOf(q) # {}
    BY DEF Correct, Live, CorrectOf, AnswersOf
  <2> SUFFICES ASSUME NEW i \in Ids', NEW j \in Ids', Correct(i)', Correct(j)',
                      answers'[i].question = answers'[j].question
               PROVE  i = j
    BY DEF OneEach
  <2>4. CASE i \in Ids /\ j \in Ids
    BY <1>1, <1>2, <2>2, <2>4 DEF OneEach
  <2>5. CASE i \notin Ids /\ j \notin Ids
    BY <2>1, <2>5 DEF Correct
  <2>6. ASSUME NEW k \in Ids, NEW l \in Ids' \ Ids, Correct(k)', Correct(l)',
               answers'[k].question = answers'[l].question
        PROVE  FALSE
    BY <1>2, <2>1, <2>2, <2>3, <2>6 DEF Correct
  <2> QED
    BY <2>4, <2>5, <2>6
<1>6. \A j \in Ids' : lock'[j] # e
  BY <1>1, <1>2 DEF LocksOK, Insert, AtPc, Setting, EditorAssumption
<1>7. \A f \in Editor : EditorOK(f)'
  BY <1>1, <1>3, <1>6, IdleIsOK DEF Alone
<1> QED
  BY <1>4, <1>5, <1>7 DEF IInv

-----------------------------------------------------------------------------
LEMMA NextKeeps == Setting /\ IInv /\ [Next]_vars => IInv'
PROOF
<1> SUFFICES ASSUME Setting, IInv, [Next]_vars PROVE IInv'
  OBVIOUS
<1>1. ASSUME UNCHANGED vars PROVE IInv'
  <2>1. answers' = answers /\ lock' = lock /\ req' = req
    BY <1>1 DEF vars
  <2>2. Ids' = Ids /\ \A i \in Ids : (Live(i)' <=> Live(i)) /\ (Correct(i)' <=> Correct(i))
    BY <2>1 DEF Ids, Live, Correct
  <2>3. TypeOK' /\ OneEach'
    BY <2>1, <2>2 DEF IInv, TypeOK, OneEach
  <2>4. ASSUME NEW e \in Editor PROVE EditorOK(e)'
    <3>1. AtPc(e, "others") => Covered(e)'
      BY <2>1, <2>2 DEF IInv, EditorOK, Covered, SameQuestion
    <3>2. AtPc(e, "insert") => Ready(e)'
      <4>1. \A q \in Question : CorrectOf(q)' = CorrectOf(q)
        BY <2>1, <2>2 DEF CorrectOf, AnswersOf
      <4>2. \A q \in Question, flags \in Seq(BOOLEAN) : MayCreate(q, flags) => MayCreate(q, flags)'
        BY <4>1 DEF MayCreate
      <4>3. AtPc(e, "insert") => Ready(e)
        BY DEF IInv, EditorOK
      <4> QED
        BY <2>1, <4>2, <4>3 DEF Ready
    <3>3. LocksOK(e)'
      BY <2>1, <2>2 DEF IInv, EditorOK, LocksOK, AtPc, SameQuestion
    <3> QED
      BY <2>1, <3>1, <3>2, <3>3 DEF EditorOK, AtPc
  <2> QED
    BY <2>3, <2>4 DEF IInv
<1> QED
  BY <1>1, CreateKeeps, InsertKeeps, SetCorrectKeeps, WriteOtherKeeps, SetIncorrectKeeps,
     RemoveKeeps, CommitKeeps, RollBackKeeps
  DEF Next

THEOREM Inductive == ASSUME Setting PROVE Spec => []IInv
PROOF
<1>1. Init => IInv
  BY InitIInv
<1>2. IInv /\ [Next]_vars => IInv'
  BY NextKeeps
<1> QED
  BY <1>1, <1>2, PTL DEF Spec

(* The table, its locks and the requests have their types.                 *)
THEOREM TypeCorrect == ASSUME Setting PROVE Spec => []TypeOK
BY Inductive, PTL DEF IInv

(* A question never has two correct answers: one that is not yet locked by *)
(* the transaction that makes another correct is still to be written by    *)
(* it, and the commit shows all of it at once.                             *)
THEOREM OneCorrectAnswer == ASSUME Setting PROVE Spec => []OneCorrectAtMost
PROOF
<1>1. IInv => OneCorrectAtMost
  BY OneEachIsOneCorrect DEF IInv
<1> QED
  BY <1>1, Inductive, PTL

-----------------------------------------------------------------------------
(* A question exams can ask. *)

LEMMA StaysFit ==
  ASSUME IInv, IsFiniteSet(Ids'), NEW q \in Question, Fit(q), AnswersOf(q) \subseteq AnswersOf(q)',
         CorrectOf(q)' = CorrectOf(q)
  PROVE  Fit(q)'
PROOF
<1>1. IsFiniteSet(AnswersOf(q)') /\ IsFiniteSet(AnswersOf(q))
  <2>1. AnswersOf(q)' \subseteq Ids'
    BY DEF AnswersOf
  <2> QED
    BY <2>1, FS_Subset
<1> DEFINE now == AnswersOf(q)
           later == AnswersOf(q)'
<1>2. now \subseteq later /\ IsFiniteSet(later) /\ IsFiniteSet(now)
  BY <1>1
<1>3. Cardinality(now) <= Cardinality(later) /\ Cardinality(now) \in Nat /\ Cardinality(later) \in Nat
  <2> HIDE DEF now, later
  <2> QED
    BY <1>2, FS_Subset, FS_CardinalityType
<1>4. Cardinality(now) >= 2 /\ Cardinality(CorrectOf(q)) = 1
  BY DEF Fit
<1>5. Cardinality(later) >= 2
  <2> HIDE DEF now, later
  <2> QED
    BY <1>3, <1>4
<1> QED
  BY <1>4, <1>5 DEF Fit

\* The rows that matter to a question are as they were.
LEMMA SameFit ==
  ASSUME IInv, RowsStay, NEW q \in Question, Fit(q),
         \A k \in AnswersOf(q) : /\ Live(k)' 
                                 /\ answers'[k].isCorrect <=> answers[k].isCorrect
  PROVE  Fit(q)'
PROOF
<1>1. Ids' = Ids /\ IsFiniteSet(Ids)
  BY Numbers DEF RowsStay, IInv
<1>2. AnswersOf(q)' = AnswersOf(q)
  BY <1>1 DEF AnswersOf, RowsStay, Live
<1>3. CorrectOf(q)' = CorrectOf(q)
  BY <1>2 DEF CorrectOf, AnswersOf
<1> QED
  BY <1>1, <1>2, <1>3, StaysFit

LEMMA CommitStaysFit ==
  ASSUME IInv, NEW e \in Editor, Commit(e), Live(req[e].target), NEW q \in Question, Fit(q)
  PROVE  Fit(q)'
PROOF
<1> DEFINE t == req[e].target
<1>1. TypeOK /\ RowsStay /\ Ids' = Ids /\ LocksOK(e) /\ Covered(e) /\ req[e].todo = {}
  BY CommittedRows DEF IInv, RowsStay, EditorOK, Commit
<1>2. \A k \in Ids : /\ Live(k)' <=> Live(k)
                     /\ answers'[k].isCorrect <=> (k = t \/ (lock[k] # e /\ answers[k].isCorrect))
                     /\ answers'[k].question = answers[k].question
  BY <1>1, CommittedRows DEF RowsStay
<1>3. t \in Ids /\ Live(t) /\ \A j \in SameQuestion(t) : Live(j) => j = t \/ lock[j] = e
  BY <1>1 DEF Covered
<1>4. \A j \in Ids : lock[j] = e => j \in SameQuestion(t)
  BY <1>1 DEF LocksOK
<1> HIDE DEF t
<1>5. CASE answers[t].question # q
  <2>1. \A k \in AnswersOf(q) : k \in Ids /\ k # t /\ lock[k] # e /\ Live(k)
    BY <1>4, <1>5 DEF AnswersOf, SameQuestion, Live
  <2> QED
    BY <1>1, <1>2, <2>1, SameFit
<1>6. CASE answers[t].question = q
  <2>1. AnswersOf(q)' = AnswersOf(q)
    BY <1>1, <1>2 DEF AnswersOf, Live
  <2>2. CorrectOf(q)' = {t}
    BY <1>1, <1>2, <1>3, <1>6 DEF CorrectOf, AnswersOf, SameQuestion, Live
  <2>3. Cardinality(CorrectOf(q)') = 1
    BY <2>2, FS_Singleton
  <2> QED
    BY <2>1, <2>3 DEF Fit
<1> QED
  BY <1>5, <1>6

LEMMA InsertStaysFit ==
  ASSUME IInv, NEW e \in Editor, Insert(e), NEW q \in Question, Fit(q)
  PROVE  Fit(q)'
PROOF
<1>1. /\ Ids \subseteq Ids' /\ IsFiniteSet(Ids')
      /\ \A k \in Ids : answers'[k] = answers[k]
  <2>1. TypeOK
    BY DEF IInv
  <2>2. /\ Len(answers) \in Nat /\ Len(req[e].new) \in Nat
        /\ Ids' = 1..(Len(answers) + Len(req[e].new))
        /\ Ids \subseteq Ids' /\ \A k \in Ids : answers'[k] = answers[k]
    BY <2>1, InsertedRows, Numbers
  <2>3. IsFiniteSet(Ids')
    <3>1. PICK n \in Nat : n = Len(answers) + Len(req[e].new)
      BY <2>2
    <3>2. IsFiniteSet(1..n)
      BY FS_Interval
    <3> QED
      BY <2>2, <3>1, <3>2
  <2> QED
    BY <2>2, <2>3
<1>2. PICK p \in Question :
        /\ \A k \in Ids' \ Ids : answers'[k].question = p /\ Live(k)'
        /\ (\E k \in Ids' \ Ids : answers'[k].isCorrect) => CorrectOf(p) = {}
  BY InsertsWhatMayBe
<1>3. CorrectOf(q) # {}
  <2>1. Cardinality({}) = 0 /\ Cardinality(CorrectOf(q)) = 1
    BY FS_EmptySet DEF Fit
  <2> QED
    BY <2>1
<1>4. AnswersOf(q) \subseteq AnswersOf(q)'
  BY <1>1 DEF AnswersOf
<1>5. ASSUME NEW k \in Ids', answers'[k].question = q, answers'[k].isCorrect PROVE k \in Ids
  BY <1>2, <1>3, <1>5
<1>6. CorrectOf(q)' = CorrectOf(q)
  BY <1>1, <1>5 DEF CorrectOf, AnswersOf
<1> QED
  BY <1>1, <1>4, <1>6, StaysFit

LEMMA OnPurpose ==
  Setting /\ IInv /\ [Next]_vars => [UnfitOnPurpose]_vars
PROOF
<1> SUFFICES ASSUME Setting, IInv, [Next]_vars, NEW q \in Question, Fit(q), ~Fit(q)',
                    AnswersOf(q) \subseteq AnswersOf(q)',
                    \A e \in Editor : /\ \A i \in AnswersOf(q) : ~SetIncorrect(e, i)
                                      /\ ~(Commit(e) /\ answers[req[e].target].isDeleted)
             PROVE  FALSE
  BY DEF UnfitOnPurpose
<1>1. \A k \in AnswersOf(q) : k \in Ids /\ Live(k)
  BY DEF AnswersOf, Live
<1>2. answers' # answers
  BY DEF Fit, AnswersOf, CorrectOf, Ids
<1>3. ASSUME NEW e \in Editor, NEW i \in Ids, SetIncorrect(e, i) PROVE FALSE
  <2>1. /\ RowsStay /\ i \notin AnswersOf(q)
        /\ \A k \in Ids : /\ Live(k)' <=> Live(k)
                          /\ answers'[k].isCorrect <=> (k # i /\ answers[k].isCorrect)
    BY <1>3, IncorrectRows DEF SetIncorrect, IInv
  <2> QED
    BY <1>1, <2>1, SameFit
<1>4. ASSUME NEW e \in Editor, NEW i \in Ids, Remove(e, i) PROVE FALSE
  <2>1. /\ RowsStay
        /\ \A k \in Ids : /\ Live(k)' <=> (k # i /\ Live(k))
                          /\ answers'[k].isCorrect <=> answers[k].isCorrect
    BY <1>4, RemovedRows DEF Remove, IInv
  <2>2. \A k \in AnswersOf(q) : Live(k)'
    BY DEF AnswersOf, Live
  <2> QED
    BY <1>1, <2>1, <2>2, SameFit
<1>5. ASSUME NEW e \in Editor, Commit(e) PROVE FALSE
  BY <1>5, CommitStaysFit DEF Live
<1>6. ASSUME NEW e \in Editor, Insert(e) PROVE FALSE
  BY <1>6, InsertStaysFit
<1> QED
  BY <1>2, <1>3, <1>4, <1>5, <1>6
  DEF Next, vars, Create, CreateCorrect, CreateMultiple, Begin, SetCorrect, WriteOther, RollBack

(* A question exams can ask stays one, unless somebody removes one of its  *)
(* answers, marks its correct one incorrect or makes a deleted one correct.*)
THEOREM FitQuestionsStayFit == ASSUME Setting PROVE Spec => FitStaysFit
PROOF
<1>1. IInv /\ [Next]_vars => [UnfitOnPurpose]_vars
  BY OnPurpose
<1> QED
  BY <1>1, Inductive, PTL DEF Spec, FitStaysFit

-----------------------------------------------------------------------------
(* Saved questions (SQ).  The unique key holds, though rows are changed by *)
(* the id of a row that was found before.                                  *)
KeyUnique ==
  \A i, j \in SQ!Ids :
    /\ saved[i].state # "gone" /\ saved[j].state # "gone"
    /\ saved[i].question = saved[j].question
    => i = j

Writing == {"create", "delete", "update", "remove"}
Begins(c) ==
  \/ \E q \in Question : SQ!Toggle(c, q)
  \/ \E i \in SQ!Ids : \/ SQ!FindToRemove(c, i)
                        \/ \E q \in Question : SQ!FindToUpdate(c, i, q)

\* What is written names a row that exists, and none of it is lost.
ReqOK(c) ==
  /\ ~SQ!AtPc(c, "idle") /\ ~SQ!AtPc(c, "create") => sreq[c].row \in SQ!Ids
  /\ SQ!AtPc(c, "create") \/ SQ!AtPc(c, "update") => sreq[c].question \in Question

SavedInv == SQ!TypeOK /\ KeyUnique /\ \A c \in Client : ReqOK(c)

LEMMA IdleReq == SQ!Idle \in [pc : {"idle", "create", "delete", "update", "remove"},
                          row : Nat, question : Question \union {NoQuestion}, alone : BOOLEAN]
BY DEF SQ!Idle

LEMMA InitSaved == SQ!Init => SavedInv
PROOF
<1> SUFFICES ASSUME SQ!Init PROVE SavedInv
  OBVIOUS
<1>1. saved \in Seq(SQ!Row) /\ SQ!Ids = {} /\ told \in [SQ!Ids -> Question \union {NoQuestion}]
  BY EmptySeq DEF SQ!Init, SQ!Ids
<1>2. sreq = [c \in Client |-> SQ!Idle]
  BY DEF SQ!Init
<1>3. \A c \in Client : ReqOK(c)
  BY <1>2 DEF ReqOK, SQ!AtPc, SQ!Idle
<1> QED
  BY <1>1, <1>2, <1>3, IdleReq DEF SavedInv, SQ!TypeOK, KeyUnique

\* A request that begins.
LEMMA BeginSaved ==
  ASSUME SavedInv, NEW c \in Client, NEW pc \in Writing,
         NEW row \in Nat, NEW q \in Question \union {NoQuestion}, SQ!Begin(c, pc, row, q),
         pc # "create" => row \in SQ!Ids,
         pc \in {"create", "update"} => q \in Question
  PROVE  SavedInv'
PROOF
<1>1. UNCHANGED <<saved, told>>
  BY DEF SQ!Begin
<1> DEFINE all == \A d \in Client : SQ!AtPc(d, "idle")
           new == [pc |-> pc, row |-> row, question |-> q, alone |-> all]
<1>2. all \in BOOLEAN
  OBVIOUS
<1> HIDE DEF all
<1>3. sreq' = [d \in Client |-> IF d = c THEN new
                               ELSE [sreq[d] EXCEPT !.alone = SQ!AtPc(d, "idle")]]
  BY DEF SQ!Begin, all
<1>4. sreq' \in [Client -> [pc : {"idle", "create", "delete", "update", "remove"},
                         row : Nat, question : Question \union {NoQuestion}, alone : BOOLEAN]]
  BY <1>2, <1>3 DEF SavedInv, SQ!TypeOK, SQ!AtPc, Writing
<1>5. \A d \in Client \ {c} : /\ sreq'[d].pc = sreq[d].pc /\ sreq'[d].row = sreq[d].row
                              /\ sreq'[d].question = sreq[d].question
  BY <1>3 DEF SavedInv, SQ!TypeOK
<1>6. sreq'[c].pc = pc /\ sreq'[c].row = row /\ sreq'[c].question = q
  BY <1>3
<1>7. \A d \in Client : ReqOK(d)'
  BY <1>1, <1>5, <1>6 DEF SavedInv, ReqOK, SQ!AtPc, SQ!Ids, Writing
<1> QED
  BY <1>1, <1>4, <1>7 DEF SavedInv, SQ!TypeOK, KeyUnique, SQ!Ids

\* A row that is written.
LEMMA WrittenSaved ==
  ASSUME SavedInv, NEW c \in Client, NEW i \in SQ!Ids, NEW row \in SQ!Row,
         NEW t \in Question \union {NoQuestion},
         saved' = [saved EXCEPT ![i] = row], told' = [told EXCEPT ![i] = t], SQ!Answer(c),
         row.state = "gone" \/ (saved[i].state # "gone" /\ SQ!KeyFree(i, row.question))
  PROVE  SavedInv'
PROOF
<1>1. saved' \in Seq(SQ!Row) /\ Len(saved') = Len(saved) /\ i \in 1..Len(saved)
  BY ExceptSeq DEF SavedInv, SQ!TypeOK, SQ!Ids
<1>2. SQ!Ids' = SQ!Ids /\ \A j \in SQ!Ids : saved'[j] = IF j = i THEN row ELSE saved[j]
  BY <1>1 DEF SavedInv, SQ!TypeOK, SQ!Ids
<1>3. told' \in [SQ!Ids' -> Question \union {NoQuestion}]
  BY <1>2 DEF SavedInv, SQ!TypeOK
<1>4. KeyUnique'
  BY <1>2 DEF SavedInv, KeyUnique, SQ!KeyFree, SQ!Holding
<1>5. \A d \in Client : sreq'[d] = IF d = c THEN SQ!Idle ELSE sreq[d]
  BY DEF SQ!Answer, SavedInv, SQ!TypeOK
<1>6. SQ!TypeOK'
  BY <1>1, <1>3, IdleReq DEF SQ!Answer, SavedInv, SQ!TypeOK
<1>7. \A d \in Client : ReqOK(d)'
  BY <1>2, <1>5 DEF SavedInv, ReqOK, SQ!AtPc, SQ!Idle
<1> QED
  BY <1>4, <1>6, <1>7 DEF SavedInv

LEMMA CreateSaved ==
  ASSUME SavedInv, NEW c \in Client, SQ!Create(c)
  PROVE  /\ SavedInv'
         /\ SQ!Ids = 1..Len(saved) /\ SQ!Ids' = 1..(Len(saved) + 1) /\ Len(saved) \in Nat
         /\ \A j \in SQ!Ids : saved'[j] = saved[j] /\ told'[j] = told[j]
         /\ saved'[Len(saved) + 1] = [question |-> sreq[c].question, state |-> "live"]
         /\ told'[Len(saved) + 1] = sreq[c].question /\ sreq[c].question \in Question
PROOF
<1> DEFINE q == sreq[c].question
           row == [question |-> q, state |-> "live"]
<1>1. q \in Question /\ row \in SQ!Row /\ row.question = q
  BY DEF SQ!Create, SavedInv, ReqOK, SQ!Row
<1>2. /\ saved' \in Seq(SQ!Row) /\ Len(saved') = Len(saved) + 1
      /\ \A j \in 1..Len(saved) : saved'[j] = saved[j]
      /\ saved'[Len(saved) + 1] = row
  BY <1>1, AppendProperties DEF SQ!Create, SavedInv, SQ!TypeOK
<1>3. SQ!Ids = 1..Len(saved) /\ SQ!Ids' = 1..(Len(saved) + 1) /\ Len(saved) \in Nat
  BY <1>2 DEF SavedInv, SQ!TypeOK, SQ!Ids
<1>4. told \in Seq(Question \union {NoQuestion}) /\ Len(told) = Len(saved)
  BY <1>3 DEF SavedInv, SQ!TypeOK
<1>5. /\ told' \in Seq(Question \union {NoQuestion}) /\ Len(told') = Len(saved) + 1
      /\ \A j \in 1..Len(saved) : told'[j] = told[j]
      /\ told'[Len(saved) + 1] = q
  BY <1>1, <1>4, AppendProperties DEF SQ!Create
<1>6. told' \in [SQ!Ids' -> Question \union {NoQuestion}]
  BY <1>3, <1>5
<1>7. \A d \in Client : sreq'[d] = IF d = c THEN SQ!Idle ELSE sreq[d]
  BY DEF SQ!Create, SQ!Answer, SavedInv, SQ!TypeOK
<1>8. SQ!TypeOK'
  BY <1>2, <1>6, IdleReq DEF SQ!Create, SQ!Answer, SavedInv, SQ!TypeOK
<1>9. \A d \in Client : ReqOK(d)'
  BY <1>3, <1>7 DEF SavedInv, ReqOK, SQ!AtPc, SQ!Idle
<1>10. KeyUnique'
  <2>1. \A j \in SQ!Ids : saved[j].state # "gone" => saved[j].question # q
    BY <1>3 DEF SQ!Create, SQ!KeyFree, SQ!Holding
  <2>2. \A j \in SQ!Ids' : j \in SQ!Ids \/ j = Len(saved) + 1
    BY <1>3
  <2> HIDE DEF row
  <2>3. \A i, j \in SQ!Ids' :
          saved'[i].state # "gone" /\ saved'[j].state # "gone"
          /\ saved'[i].question = saved'[j].question => i = j
    BY <1>1, <1>2, <1>3, <2>1, <2>2 DEF SavedInv, KeyUnique
  <2> QED
    BY <2>3 DEF KeyUnique
<1> QED
  BY <1>1, <1>2, <1>3, <1>5, <1>8, <1>9, <1>10 DEF SavedInv

LEMMA RowsSaved ==
  ASSUME SavedInv
  PROVE  /\ \A i \in SQ!Ids : i \in Nat /\ saved[i] \in SQ!Row
         /\ \A c \in Client :
              SQ!AtPc(c, "delete") \/ SQ!AtPc(c, "update") \/ SQ!AtPc(c, "remove") =>
                sreq[c].row \in SQ!Ids
BY DEF SavedInv, SQ!TypeOK, SQ!Ids, ReqOK, SQ!AtPc

\* Every other write changes one row ...
LEMMA WriteMoves ==
  ASSUME SavedInv, NEW c \in Client, SQ!Delete(c) \/ SQ!Update(c) \/ SQ!Remove(c)
  PROVE  \E i \in SQ!Ids, row \in SQ!Row, t \in Question \union {NoQuestion} :
           /\ saved' = [saved EXCEPT ![i] = row] /\ told' = [told EXCEPT ![i] = t]
           /\ SQ!Answer(c)
           /\ saved[i].state # "gone"
           /\ row.state = "gone" \/ SQ!KeyFree(i, row.question)
           /\ \/ row.state \in {"deleted", "gone"} /\ t = NoQuestion
                 /\ (row.state = "deleted" => SQ!AtPc(c, "remove"))
              \/ /\ SQ!AtPc(c, "update") /\ row.state = saved[i].state
                 /\ row.question = t
PROOF
<1> DEFINE i == sreq[c].row
<1>1. i \in SQ!Ids /\ saved[i] \in SQ!Row
  BY RowsSaved DEF SQ!Delete, SQ!Update, SQ!Remove
<1>2. CASE SQ!Delete(c)
  <2> DEFINE row == [saved[i] EXCEPT !.state = "gone"]
  <2>1. row \in SQ!Row /\ row.state = "gone"
    BY <1>1 DEF SQ!Row
  <2>2. saved' = [saved EXCEPT ![i] = row]
        /\ told' = [told EXCEPT ![i] = NoQuestion] /\ SQ!Answer(c)
        /\ saved[i].state # "gone"
    BY <1>2 DEF SQ!Delete
  <2> HIDE DEF row, i
  <2> QED
    BY <1>1, <2>1, <2>2
<1>3. CASE SQ!Update(c)
  <2> DEFINE q == sreq[c].question
             row == [saved[i] EXCEPT !.question = q]
  <2>1. q \in Question
    BY <1>3 DEF SQ!Update, SavedInv, ReqOK
  <2>2. row \in SQ!Row /\ row.state = saved[i].state /\ row.question = q
    BY <1>1, <2>1 DEF SQ!Row
  <2>3. saved' = [saved EXCEPT ![i] = row] /\ told' = [told EXCEPT ![i] = q] /\ SQ!Answer(c)
        /\ saved[i].state # "gone" /\ SQ!KeyFree(i, q) /\ SQ!AtPc(c, "update")
    BY <1>3 DEF SQ!Update
  <2> HIDE DEF row, i, q
  <2> QED
    BY <1>1, <2>1, <2>2, <2>3
<1>4. CASE SQ!Remove(c)
  <2> DEFINE row == [saved[i] EXCEPT !.state = "deleted"]
  <2>1. row \in SQ!Row /\ row.state = "deleted" /\ row.question = saved[i].question
    BY <1>1 DEF SQ!Row
  <2>2. saved' = [saved EXCEPT ![i] = row]
        /\ told' = [told EXCEPT ![i] = NoQuestion] /\ SQ!Answer(c)
        /\ saved[i].state # "gone" /\ SQ!AtPc(c, "remove")
    BY <1>4 DEF SQ!Remove
  <2>3. SQ!KeyFree(i, saved[i].question)
    BY <1>1, <2>2 DEF SavedInv, KeyUnique, SQ!KeyFree, SQ!Holding
  <2> HIDE DEF row, i
  <2> QED
    BY <1>1, <2>1, <2>2, <2>3
<1> QED
  BY <1>2, <1>3, <1>4

\* ... and every request begins with what it found.
LEMMA BeginMoves ==
  ASSUME SavedInv, NEW c \in Client, Begins(c)
  PROVE  \E pc \in Writing, row \in Nat, q \in Question \union {NoQuestion} :
           /\ SQ!Begin(c, pc, row, q)
           /\ pc \in {"create", "update"} => q \in Question
           /\ pc = "create" => SQ!Holding(q) \intersect SQ!Live = {}
           /\ pc # "create" => row \in SQ!Live
           /\ pc \in {"update", "remove"} => pc \in SavedOperations
BY RowsSaved DEF Begins, SQ!Toggle, SQ!FindToUpdate, SQ!FindToRemove, SQ!Live, SQ!Holding, Writing

LEMMA FailMoves ==
  ASSUME SavedInv, NEW c \in Client, SQ!Fails(c)
  PROVE  SavedInv'
PROOF
<1>1. UNCHANGED <<saved, told>> /\ \A d \in Client : sreq'[d] = IF d = c THEN SQ!Idle ELSE sreq[d]
  BY DEF SQ!Fails, SQ!Answer, SavedInv, SQ!TypeOK
<1>2. SQ!TypeOK'
  BY <1>1, IdleReq DEF SQ!Fails, SQ!Answer, SavedInv, SQ!TypeOK, SQ!Ids
<1> QED
  BY <1>1, <1>2 DEF SavedInv, KeyUnique, ReqOK, SQ!AtPc, SQ!Idle, SQ!Ids

LEMMA NextSaved == SavedInv /\ [SQ!Next]_SQ!vars => SavedInv'
PROOF
<1> SUFFICES ASSUME SavedInv, [SQ!Next]_SQ!vars PROVE SavedInv'
  OBVIOUS
<1>1. ASSUME NEW c \in Client, Begins(c)
      PROVE  SavedInv'
  BY <1>1, BeginMoves, BeginSaved DEF SQ!Live
<1>2. ASSUME NEW c \in Client, SQ!Delete(c) \/ SQ!Update(c) \/ SQ!Remove(c) PROVE SavedInv'
  BY <1>2, WriteMoves, WrittenSaved
<1>3. UNCHANGED SQ!vars => SavedInv'
  BY DEF SQ!vars, SavedInv, SQ!TypeOK, KeyUnique, ReqOK, SQ!AtPc, SQ!Ids
<1> QED
  BY <1>1, <1>2, <1>3, CreateSaved, FailMoves DEF SQ!Next, Begins

(* The shape of the saved questions and of the devices' requests.          *)
THEOREM SavedTypes == SQ!Spec => []SQ!TypeOK
PROOF
<1>1. SavedInv => SQ!TypeOK
  BY DEF SavedInv
<1> QED
  BY <1>1, InitSaved, NextSaved, PTL DEF SQ!Spec

(* No question is saved twice, with all operations on any number of        *)
(* devices: every write looks at the key of the row it writes.             *)
THEOREM QuestionsSavedOnce == SQ!Spec => []SQ!SavedOnce
PROOF
<1>1. SavedInv => SQ!SavedOnce
  BY DEF SavedInv, KeyUnique, SQ!SavedOnce, SQ!Live
<1> QED
  BY <1>1, InitSaved, NextSaved, PTL DEF SQ!Spec

-----------------------------------------------------------------------------
(* update answers for a row that remove has marked in between; where one   *)
(* of the two is not called, what is told is so.                           *)
NotBoth == "update" \notin SavedOperations \/ "remove" \notin SavedOperations

AsAsked ==
  /\ \A c \in Client, pc \in {"update", "remove"} : SQ!AtPc(c, pc) => pc \in SavedOperations
  /\ \A i \in SQ!Ids : saved[i].state = "deleted" => "remove" \in SavedOperations

LEMMA NextAsked == SavedInv /\ AsAsked /\ [SQ!Next]_SQ!vars => AsAsked'
PROOF
<1> SUFFICES ASSUME SavedInv, AsAsked, [SQ!Next]_SQ!vars PROVE AsAsked'
  OBVIOUS
<1>1. ASSUME NEW c \in Client, Begins(c)
      PROVE  AsAsked'
  <2>1. PICK pc \in Writing, row \in Nat, q \in Question \union {NoQuestion} :
          SQ!Begin(c, pc, row, q) /\ (pc \in {"update", "remove"} => pc \in SavedOperations)
    BY <1>1, BeginMoves
  <2>2. \A d \in Client : sreq'[d].pc = IF d = c THEN pc ELSE sreq[d].pc
    BY <2>1 DEF SQ!Begin, SavedInv, SQ!TypeOK
  <2> QED
    BY <2>1, <2>2 DEF AsAsked, SQ!AtPc, SQ!Begin, SQ!Ids
<1>2. ASSUME NEW c \in Client, SQ!Answer(c)
      PROVE  \A d \in Client, pc \in {"update", "remove"} : SQ!AtPc(d, pc)' => SQ!AtPc(d, pc)
  BY <1>2 DEF SQ!Answer, SavedInv, SQ!TypeOK, SQ!AtPc, SQ!Idle
<1>3. ASSUME NEW c \in Client, SQ!Delete(c) \/ SQ!Update(c) \/ SQ!Remove(c) PROVE AsAsked'
  <2>1. PICK i \in SQ!Ids, row \in SQ!Row :
          /\ saved' = [saved EXCEPT ![i] = row] /\ SQ!Answer(c)
          /\ row.state = "deleted" => SQ!AtPc(c, "remove") \/ saved[i].state = "deleted"
    BY <1>3, WriteMoves
  <2>2. SQ!Ids' = SQ!Ids /\ \A j \in SQ!Ids : saved'[j] = IF j = i THEN row ELSE saved[j]
    BY <2>1 DEF SavedInv, SQ!TypeOK, SQ!Ids
  <2> QED
    BY <1>2, <2>1, <2>2 DEF AsAsked
<1>4. ASSUME NEW c \in Client, SQ!Create(c) PROVE AsAsked'
  <2> DEFINE n == Len(saved) + 1
             q == sreq[c].question
  <2>1. /\ SQ!Ids = 1..Len(saved) /\ SQ!Ids' = 1..n /\ Len(saved) \in Nat
        /\ \A j \in SQ!Ids : saved'[j] = saved[j] /\ told'[j] = told[j]
        /\ saved'[n] = [question |-> q, state |-> "live"] /\ told'[n] = q /\ q \in Question
    BY <1>4, CreateSaved
  <2>2. \A j \in SQ!Ids' : j \in SQ!Ids \/ j = n
    BY <2>1
  <2>3. SQ!Answer(c)
    BY <1>4 DEF SQ!Create
  <2> HIDE DEF n, q
  <2> QED
    BY <1>2, <2>1, <2>2, <2>3 DEF AsAsked
<1>5. ASSUME NEW c \in Client, SQ!Fails(c) PROVE AsAsked'
  BY <1>2, <1>5 DEF SQ!Fails, AsAsked, SQ!Ids
<1>6. UNCHANGED SQ!vars => AsAsked'
  BY DEF SQ!vars, AsAsked, SQ!AtPc, SQ!Ids
<1> QED
  BY <1>1, <1>3, <1>4, <1>5, <1>6 DEF SQ!Next, Begins

LEMMA NextTold ==
  SQ!NoneAssumption /\ NotBoth /\ SavedInv /\ AsAsked /\ SQ!ToldIsSaved /\ [SQ!Next]_SQ!vars
    => SQ!ToldIsSaved'
PROOF
<1> SUFFICES ASSUME SQ!NoneAssumption, NotBoth, SavedInv, AsAsked, SQ!ToldIsSaved,
                    [SQ!Next]_SQ!vars
             PROVE  SQ!ToldIsSaved'
  OBVIOUS
<1>1. UNCHANGED <<saved, told>> => SQ!ToldIsSaved'
  BY DEF SQ!ToldIsSaved, SQ!Ids, SQ!Live
<1>2. ASSUME NEW c \in Client, SQ!Delete(c) \/ SQ!Update(c) \/ SQ!Remove(c) PROVE SQ!ToldIsSaved'
  <2>1. PICK i \in SQ!Ids, row \in SQ!Row, t \in Question \union {NoQuestion} :
          /\ saved' = [saved EXCEPT ![i] = row] /\ told' = [told EXCEPT ![i] = t]
          /\ saved[i].state # "gone"
          /\ \/ row.state \in {"deleted", "gone"} /\ t = NoQuestion
             \/ /\ SQ!AtPc(c, "update") /\ row.state = saved[i].state
                /\ row.question = t
    BY <1>2, WriteMoves
  <2>2. SQ!Ids' = SQ!Ids /\ \A j \in SQ!Ids : /\ saved'[j] = IF j = i THEN row ELSE saved[j]
                                     /\ told'[j] = IF j = i THEN t ELSE told[j]
    BY <2>1 DEF SavedInv, SQ!TypeOK, SQ!Ids
  <2>3. SQ!AtPc(c, "update") => saved[i].state = "live"
    <3>1. saved[i].state \in {"live", "deleted", "gone"}
      BY RowsSaved DEF SQ!Row
    <3>2. SQ!AtPc(c, "update") => "update" \in SavedOperations
      BY DEF AsAsked
    <3>3. saved[i].state = "deleted" => "remove" \in SavedOperations
      BY DEF AsAsked
    <3> QED
      BY <2>1, <3>1, <3>2, <3>3 DEF NotBoth
  <2>4. row.question # NoQuestion
    BY DEF SQ!NoneAssumption, SQ!Row
  <2> QED
    BY <2>1, <2>2, <2>3, <2>4 DEF SQ!ToldIsSaved, SQ!Live
<1>3. ASSUME NEW c \in Client, SQ!Create(c) PROVE SQ!ToldIsSaved'
  <2> DEFINE n == Len(saved) + 1
             q == sreq[c].question
  <2>1. /\ SQ!Ids = 1..Len(saved) /\ SQ!Ids' = 1..n /\ Len(saved) \in Nat
        /\ \A j \in SQ!Ids : saved'[j] = saved[j] /\ told'[j] = told[j]
        /\ saved'[n] = [question |-> q, state |-> "live"] /\ told'[n] = q /\ q \in Question
    BY <1>3, CreateSaved
  <2>2. \A j \in SQ!Ids' : j \in SQ!Ids \/ j = n
    BY <2>1
  <2>3. SQ!Answer(c)
    BY <1>3 DEF SQ!Create
  <2> HIDE DEF n, q
  <2> QED
    BY <2>1, <2>2, <2>3 DEF SQ!ToldIsSaved, SQ!Live, SQ!NoneAssumption
<1>4. ASSUME NEW c \in Client, Begins(c) \/ SQ!Fails(c)
      PROVE  SQ!ToldIsSaved'
  BY <1>1, <1>4, BeginMoves DEF SQ!Begin, SQ!Fails
<1> QED
  BY <1>1, <1>2, <1>3, <1>4 DEF SQ!Next, Begins, SQ!vars

(* Where saved questions are removed by id, or else given another          *)
(* question, but not both: what the last answer said is what is stored.    *)
THEOREM ToldStaysSaved ==
  ASSUME SQ!NoneAssumption, NotBoth
  PROVE  SQ!Spec => []SQ!ToldIsSaved
PROOF
<1>1. SQ!Init => AsAsked /\ SQ!ToldIsSaved
  <2> SUFFICES ASSUME SQ!Init PROVE AsAsked /\ SQ!ToldIsSaved
    OBVIOUS
  <2>1. SQ!Ids = {} /\ \A c \in Client : sreq[c] = SQ!Idle
    BY EmptySeq DEF SQ!Init, SQ!Ids
  <2> QED
    BY <2>1 DEF AsAsked, SQ!ToldIsSaved, SQ!AtPc, SQ!Idle
<1>2. SavedInv /\ AsAsked /\ SQ!ToldIsSaved /\ [SQ!Next]_SQ!vars => SQ!ToldIsSaved'
  BY NextTold
<1> QED
  BY <1>1, <1>2, InitSaved, NextSaved, NextAsked, PTL DEF SQ!Spec

-----------------------------------------------------------------------------
(* A toggle without others.  remove leaves rows that hold their key though *)
(* no toggle finds them; without it every row that is left is live.        *)
NoRemoval == "remove" \notin SavedOperations

AloneOK(c) ==
  sreq[c].alone /\ ~SQ!AtPc(c, "idle") =>
    /\ \A d \in Client \ {c} : SQ!AtPc(d, "idle")
    /\ SQ!AtPc(c, "create") => SQ!Holding(sreq[c].question) = {}
    /\ SQ!AtPc(c, "delete") => saved[sreq[c].row].state # "gone"

AloneInv == \A c \in Client : AloneOK(c)

LEMMA NextAlone ==
  NoRemoval /\ SavedInv /\ AsAsked /\ AloneInv /\ [SQ!Next]_SQ!vars => AloneInv'
PROOF
<1> SUFFICES ASSUME NoRemoval, SavedInv, AsAsked, AloneInv, [SQ!Next]_SQ!vars
             PROVE  \A c \in Client : AloneOK(c)'
  BY DEF AloneInv
<1>1. ASSUME NEW c \in Client, Begins(c)
      PROVE  \A d \in Client : AloneOK(d)'
  <2>1. PICK pc \in Writing, row \in Nat, q \in Question \union {NoQuestion} :
          /\ SQ!Begin(c, pc, row, q)
          /\ pc = "create" => SQ!Holding(q) \intersect SQ!Live = {}
          /\ pc # "create" => row \in SQ!Live
    BY <1>1, BeginMoves
  <2> DEFINE all == \A d \in Client : SQ!AtPc(d, "idle")
  <2>2. /\ sreq'[c].pc = pc /\ sreq'[c].row = row /\ sreq'[c].question = q /\ sreq'[c].alone = all
        /\ \A d \in Client \ {c} : /\ sreq'[d].pc = sreq[d].pc
                                  /\ sreq'[d].alone = (sreq[d].pc = "idle")
    BY <2>1 DEF SQ!Begin, SavedInv, SQ!TypeOK, SQ!AtPc
  <2>3. saved' = saved
    BY <2>1 DEF SQ!Begin
  <2>4. \A i \in SQ!Ids : saved[i].state # "gone" => i \in SQ!Live
    BY RowsSaved DEF AsAsked, NoRemoval, SQ!Live, SQ!Row
  <2>5. pc = "create" => SQ!Holding(q) = {}
    BY <2>1, <2>4 DEF SQ!Holding
  <2>6. ASSUME all PROVE AloneOK(c)'
    BY <2>1, <2>2, <2>3, <2>5, <2>6 DEF AloneOK, SQ!AtPc, SQ!Holding, SQ!Ids, SQ!Live
  <2>7. ASSUME NEW d \in Client, d # c PROVE AloneOK(d)'
    BY <2>2, <2>7 DEF AloneOK, SQ!AtPc
  <2>8. ~all => AloneOK(c)'
    BY <2>2 DEF AloneOK
  <2> QED
    BY <2>6, <2>7, <2>8
<1>2. ASSUME NEW c \in Client, SQ!Answer(c), ~SQ!AtPc(c, "idle") PROVE \A d \in Client : AloneOK(d)'
  <2>1. \A d \in Client : sreq'[d] = IF d = c THEN SQ!Idle ELSE sreq[d]
    BY <1>2 DEF SQ!Answer, SavedInv, SQ!TypeOK
  <2>2. AloneOK(c)'
    BY <2>1 DEF AloneOK, SQ!AtPc, SQ!Idle
  <2>3. ASSUME NEW d \in Client, d # c PROVE AloneOK(d)'
    <3>1. ~(sreq[d].alone /\ ~SQ!AtPc(d, "idle"))
      BY <1>2, <2>3 DEF AloneInv, AloneOK
    <3> QED
      BY <2>1, <2>3, <3>1 DEF AloneOK, SQ!AtPc
  <2> QED
    BY <2>2, <2>3
<1>3. UNCHANGED SQ!vars => \A c \in Client : AloneOK(c)'
  BY DEF SQ!vars, AloneInv, AloneOK, SQ!AtPc, SQ!Holding, SQ!Ids
<1> QED
  BY <1>1, <1>2, <1>3
  DEF SQ!Next, Begins, SQ!Create, SQ!Delete, SQ!Update, SQ!Remove, SQ!Fails, SQ!AtPc

(* Where nothing is removed by id, a toggle that no other request of the   *)
(* user overlaps does not fail: upsert finds the row that holds the key.   *)
THEOREM TogglesAloneSucceed ==
  ASSUME NoRemoval
  PROVE  SQ!Spec => SQ!ToggleAloneSucceeds
PROOF
<1>1. SQ!Init => AsAsked /\ AloneInv
  <2> SUFFICES ASSUME SQ!Init PROVE AsAsked /\ AloneInv
    OBVIOUS
  <2>1. SQ!Ids = {} /\ \A c \in Client : sreq[c] = SQ!Idle
    BY EmptySeq DEF SQ!Init, SQ!Ids
  <2> QED
    BY <2>1 DEF AsAsked, AloneInv, AloneOK, SQ!AtPc, SQ!Idle
<1>2. SavedInv /\ AsAsked /\ AloneInv /\ [SQ!Next]_SQ!vars => AloneInv'
  BY NextAlone
<1>3. AloneInv => SQ!FailedToggleWasNotAlone
  <2> SUFFICES ASSUME NEW c \in Client, AloneOK(c), SQ!Fails(c),
                      sreq[c].pc \in {"create", "delete"}, sreq[c].alone
               PROVE  FALSE
    BY DEF SQ!FailedToggleWasNotAlone, AloneInv
  <2> QED
    BY DEF AloneOK, SQ!Fails, SQ!AtPc, SQ!KeyFree
<1> QED
  BY <1>1, <1>2, <1>3, InitSaved, NextSaved, NextAsked, PTL DEF SQ!Spec, SQ!ToggleAloneSucceeds
=============================================================================
