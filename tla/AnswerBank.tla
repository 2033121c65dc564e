----------------------------- MODULE AnswerBank -----------------------------
(***************************************************************************)
(* AnswersService: the answers of the questions, edited by administrators  *)
(* at the same time.  A request checks first and writes in a later         *)
(* statement; making an answer correct is a transaction that takes the     *)
(* rows of the other answers one after the other (PostgreSQL, READ         *)
(* COMMITTED) and shows nothing before it commits.  Texts are left out.    *)
(***************************************************************************)
EXTENDS Naturals, Sequences, FiniteSets

CONSTANTS
  Question, Editor,
  None,          \* no editor
  Operations,    \* what the editors do: a subset of AllOperations
  Batches,       \* the isCorrect flags of the answers createMultiple is given
  InitAnswers,   \* the answers at the start
  MaxAnswers     \* bound: answers ever created

AllOperations == {"create", "createCorrect", "createMultiple",
                  "setCorrect", "setDeletedCorrect", "setIncorrect", "remove"}
Answer == [question : Question, isCorrect : BOOLEAN, isDeleted : BOOLEAN]

OperationAssumption == Operations \subseteq AllOperations
BatchAssumption == Batches \subseteq Seq(BOOLEAN)
InitAssumption == InitAnswers \in Seq(Answer)
EditorAssumption == None \notin Editor
BoundAssumption == MaxAnswers \in Nat

VARIABLES
  answers,  \* the table as committed, in the order of creation
  lock,     \* the editor whose transaction has written the row, or None
  req       \* the request each editor has in flight

vars == <<answers, lock, req>>

Ids == DOMAIN answers
AnswersOf(q) == {i \in Ids : answers[i].question = q /\ ~answers[i].isDeleted}
CorrectOf(q) == {i \in AnswersOf(q) : answers[i].isCorrect}

\* What validateQuestions of the exams asks of a question.
Fit(q) == Cardinality(AnswersOf(q)) >= 2 /\ Cardinality(CorrectOf(q)) = 1

FreeTo(e, i) == lock[i] \in {None, e}

Idle == [pc |-> "idle", new |-> <<>>, target |-> 0, todo |-> {}]

Init ==
  /\ answers = InitAnswers
  /\ lock = [i \in DOMAIN InitAnswers |-> None]
  /\ req = [e \in Editor |-> Idle]

AtPc(e, pc) == req[e].pc = pc
Finish(e) == req' = [req EXCEPT ![e] = Idle]

NewAnswersNowhere(q, flags) == \* faulty: loses the question
  [k \in DOMAIN flags |-> [question |-> None, isCorrect |-> flags[k], isDeleted |-> FALSE]]
NewAnswers(q, flags) ==
  [k \in DOMAIN flags |-> [question |-> q, isCorrect |-> flags[k], isDeleted |-> FALSE]]

-----------------------------------------------------------------------------
(* create and createMultiple *)

MayCreateAny(q, flags) == TRUE \* faulty: forgets to look for a correct answer

\* Correct answers are added only where the look finds none.
MayCreate(q, flags) ==
  (\E k \in DOMAIN flags : flags[k]) => CorrectOf(q) = {}

Begin(e, q, flags) ==
  /\ AtPc(e, "idle")
  /\ MayCreate(q, flags)
  /\ req' = [req EXCEPT ![e] = [Idle EXCEPT !.pc = "insert", !.new = NewAnswers(q, flags)]]
  /\ UNCHANGED <<answers, lock>>

Create(e, q) == "create" \in Operations /\ Begin(e, q, <<FALSE>>)
CreateCorrect(e, q) == "createCorrect" \in Operations /\ Begin(e, q, <<TRUE>>)

\* "Only one answer can be marked as correct", "at least one must be".
CreateMultiple(e, q, flags) ==
  /\ "createMultiple" \in Operations
  /\ Cardinality({k \in DOMAIN flags : flags[k]}) = 1
  /\ Begin(e, q, flags)

\* All rows of a request appear at once.
Insert(e) ==
  /\ AtPc(e, "insert")
  /\ Len(answers) + Len(req[e].new) <= MaxAnswers
  /\ answers' = answers \o req[e].new
  /\ lock' = lock \o [k \in DOMAIN req[e].new |-> None]
  /\ Finish(e)

-----------------------------------------------------------------------------
(* update *)

SetEitherKind(i) ==
  IF answers[i].isDeleted THEN "setDeletedCorrect" \in Operations
  ELSE "setCorrect" \in Operations

\* The rows updateMany sees when it starts.
Others(i) == AnswersOf(answers[i].question) \ {i}

\* isCorrect = true: the answer's question, which never changes, is read by
\* id alone (a deleted answer is found too), and the transaction begins.
SetCorrect(e, i) ==
  /\ AtPc(e, "idle")
  /\ SetEitherKind(i)
  /\ req' = [req EXCEPT ![e] = [Idle EXCEPT !.pc = "others", !.target = i, !.todo = Others(i)]]
  /\ UNCHANGED <<answers, lock>>

WriteOtherAtOnce(e, j) == \* faulty: no transaction
  /\ AtPc(e, "others")
  /\ j \in req[e].todo
  /\ answers' = [answers EXCEPT ![j].isCorrect = FALSE]
  /\ req' = [req EXCEPT ![e].todo = @ \ {j}]
  /\ UNCHANGED lock

\* updateMany reaches another answer, in any order, when no other
\* transaction holds it; one deleted meanwhile no longer qualifies.
WriteOther(e, j) ==
  /\ AtPc(e, "others")
  /\ j \in req[e].todo
  /\ FreeTo(e, j)
  /\ lock' = [lock EXCEPT ![j] = IF answers[j].isDeleted THEN @ ELSE e]
  /\ req' = [req EXCEPT ![e].todo = @ \ {j}]
  /\ UNCHANGED answers

Release(e) == [j \in Ids |-> IF lock[j] = e THEN None ELSE lock[j]]

\* The answer itself is written and the transaction commits.
Commit(e) ==
  /\ AtPc(e, "others")
  /\ req[e].todo = {}
  /\ FreeTo(e, req[e].target)
  /\ answers' = [j \in Ids |->
       IF j = req[e].target THEN [answers[j] EXCEPT !.isCorrect = TRUE]
       ELSE IF lock[j] = e THEN [answers[j] EXCEPT !.isCorrect = FALSE]
       ELSE answers[j]]
  /\ lock' = Release(e)
  /\ Finish(e)

\* The rows a transaction still has to write, and who keeps it from that.
Needs(e) == IF AtPc(e, "others") THEN req[e].todo \union {req[e].target} ELSE {}
WaitsFor(e) == {lock[j] : j \in Needs(e)} \ {None, e}

NeverDetected(e) == FALSE \* faulty: no deadlock detection
Deadlocked(e) ==
  \E f \in WaitsFor(e) : e \in WaitsFor(f) \union UNION {WaitsFor(g) : g \in WaitsFor(f)}

\* The database ends a deadlock by rolling one transaction back.
RollBack(e) ==
  /\ Deadlocked(e)
  /\ lock' = Release(e)
  /\ Finish(e)
  /\ UNCHANGED answers

\* isCorrect = false: a single update, which waits for the row.
SetIncorrect(e, i) ==
  /\ "setIncorrect" \in Operations
  /\ AtPc(e, "idle") /\ lock[i] = None
  /\ answers' = [answers EXCEPT ![i].isCorrect = FALSE]
  /\ UNCHANGED <<lock, req>>

Remove(e, i) ==
  /\ "remove" \in Operations
  /\ AtPc(e, "idle") /\ lock[i] = None
  /\ answers' = [answers EXCEPT ![i].isDeleted = TRUE]
  /\ UNCHANGED <<lock, req>>

-----------------------------------------------------------------------------
Next ==
  \E e \in Editor :
    \/ \E q \in Question :
         \/ Create(e, q)
         \/ CreateCorrect(e, q)
         \/ \E flags \in Batches : CreateMultiple(e, q, flags)
    \/ Insert(e)
    \/ \E i \in Ids :
         \/ SetCorrect(e, i)
         \/ WriteOther(e, i)
         \/ SetIncorrect(e, i)
         \/ Remove(e, i)
    \/ Commit(e)
    \/ RollBack(e)

\* The database works on: row locks are granted in the order of asking, so
\* that nobody is passed over for ever, and a deadlock is always ended.
Fairness ==
  \A e \in Editor :
    /\ SF_vars(\E j \in Ids : WriteOther(e, j))
    /\ SF_vars(Commit(e))
    /\ WF_vars(RollBack(e))

Spec == Init /\ [][Next]_vars /\ Fairness

-----------------------------------------------------------------------------
TypeOK ==
  /\ answers \in Seq(Answer)
  /\ lock \in [Ids -> Editor \union {None}]
  /\ req \in [Editor -> [pc : {"idle", "insert", "others"}, new : Seq(Answer),
                         target : Nat, todo : SUBSET Ids]]

(* A question has at most one correct answer, whatever one administrator   *)
(* does, and however the updates and removals of several interleave: the   *)
(* row locks of the transactions keep them apart.                          *)
OneCorrectAtMost ==
  \A q \in Question : \A i, j \in CorrectOf(q) : i = j

\* A question becomes unfit because of what somebody asked for.
UnfitOnPurpose ==
  \A q \in Question : Fit(q) /\ ~Fit(q)' =>
    \/ AnswersOf(q) \ AnswersOf(q)' # {}
    \/ \E e \in Editor :
         \/ \E i \in AnswersOf(q) : SetIncorrect(e, i)
         \/ Commit(e) /\ answers[req[e].target].isDeleted

(* A question exams can ask stays one unless somebody removes one of its   *)
(* answers, marks its correct one incorrect or makes a deleted one the     *)
(* correct one: no interleaving of updates passes through a state without  *)
(* exactly one correct answer (exams read outside the transaction).        *)
FitStaysFit == [][UnfitOnPurpose]_vars

(* Every update ends, also when two of them want each other's rows.        *)
EveryUpdateEnds == \A e \in Editor : AtPc(e, "others") ~> ~AtPc(e, "others")
=============================================================================
