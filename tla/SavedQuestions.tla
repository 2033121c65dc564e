--------------------------- MODULE SavedQuestions ---------------------------
(***************************************************************************)
(* SavedQuestionsService for one user, signed in on several devices: the   *)
(* toggle (upsert), the change of question and the removal of a saved      *)
(* question.  Every request finds a row first and writes by its id later.  *)
(* The table has one row per user and question, deleted rows included.     *)
(***************************************************************************)
EXTENDS Naturals, Sequences

CONSTANTS
  Question, Client,
  None,        \* no question
  Operations,  \* what the clients do: a subset of AllOperations
  MaxRows      \* bound: rows ever created

AllOperations == {"toggle", "update", "remove"}

OperationAssumption == Operations \subseteq AllOperations
NoneAssumption == None \notin Question
BoundAssumption == MaxRows \in Nat

VARIABLES
  saved,  \* the rows ever created: "gone" rows have left the table
  req,    \* the request each client has in flight
  told    \* history: what the last answer about each row said is saved in it

vars == <<saved, req, told>>

Row == [question : Question, state : {"live", "deleted", "gone"}]
Ids == DOMAIN saved
Live == {i \in Ids : saved[i].state = "live"}
Holding(q) == {i \in Ids : saved[i].question = q /\ saved[i].state # "gone"}

Idle == [pc |-> "idle", row |-> 0, question |-> None, alone |-> TRUE]

Init ==
  /\ saved = <<>>
  /\ req = [c \in Client |-> Idle]
  /\ told = <<>>

AtPc(c, pc) == req[c].pc = pc

\* A request is alone if no other one of the user runs at any time with it.
Begin(c, pc, row, q) ==
  /\ AtPc(c, "idle")
  /\ LET alone == \A d \in Client : AtPc(d, "idle")
     IN req' = [d \in Client |->
          IF d = c THEN [pc |-> pc, row |-> row, question |-> q, alone |-> alone]
          ELSE [req[d] EXCEPT !.alone = AtPc(d, "idle")]]
  /\ UNCHANGED <<saved, told>>

Answer(c) == req' = [req EXCEPT ![c] = Idle]

\* The unique key (userId, questionId).
KeyIgnored(i, q) == TRUE \* faulty: no unique key
KeyFree(i, q) == Holding(q) \subseteq {i}

-----------------------------------------------------------------------------
\* upsert: a saved question is found to be deleted, or none is found and one
\* is to be created.
Toggle(c, q) ==
  /\ "toggle" \in Operations
  /\ \/ Holding(q) \intersect Live = {} /\ Begin(c, "create", 0, q)
     \/ \E i \in Holding(q) \intersect Live : Begin(c, "delete", i, q)

FindToUpdate(c, i, q) ==
  /\ "update" \in Operations
  /\ i \in Live
  /\ Begin(c, "update", i, q)

FindToRemove(c, i) ==
  /\ "remove" \in Operations
  /\ i \in Live
  /\ Begin(c, "remove", i, None)

-----------------------------------------------------------------------------
(* The writes *)

Create(c) ==
  /\ AtPc(c, "create")
  /\ Len(saved) < MaxRows
  /\ KeyFree(0, req[c].question)
  /\ saved' = Append(saved, [question |-> req[c].question, state |-> "live"])
  /\ told' = Append(told, req[c].question)
  /\ Answer(c)

SoftDelete(c) == \* faulty: keeps the row of the unique key
  /\ AtPc(c, "delete")
  /\ saved[req[c].row].state # "gone"
  /\ saved' = [saved EXCEPT ![req[c].row].state = "deleted"]
  /\ told' = [told EXCEPT ![req[c].row] = None]
  /\ Answer(c)
\* upsert deletes the row itself.
Delete(c) ==
  /\ AtPc(c, "delete")
  /\ saved[req[c].row].state # "gone"
  /\ saved' = [saved EXCEPT ![req[c].row].state = "gone"]
  /\ told' = [told EXCEPT ![req[c].row] = None]
  /\ Answer(c)

UpdateAnyway(c) == \* faulty: answers also if no row was there to update
  /\ AtPc(c, "update")
  /\ KeyFree(req[c].row, req[c].question)
  /\ saved' = [saved EXCEPT ![req[c].row].question = req[c].question]
  /\ told' = [told EXCEPT ![req[c].row] = req[c].question]
  /\ Answer(c)
Update(c) ==
  /\ AtPc(c, "update")
  /\ saved[req[c].row].state # "gone"
  /\ KeyFree(req[c].row, req[c].question)
  /\ saved' = [saved EXCEPT ![req[c].row].question = req[c].question]
  /\ told' = [told EXCEPT ![req[c].row] = req[c].question]
  /\ Answer(c)

\* remove marks the row.
Remove(c) ==
  /\ AtPc(c, "remove")
  /\ saved[req[c].row].state # "gone"
  /\ saved' = [saved EXCEPT ![req[c].row].state = "deleted"]
  /\ told' = [told EXCEPT ![req[c].row] = None]
  /\ Answer(c)

\* The row has gone, or the unique key is taken: an error is answered.
Fails(c) ==
  /\ \/ AtPc(c, "create") /\ ~KeyFree(0, req[c].question)
     \/ AtPc(c, "update") /\ ~KeyFree(req[c].row, req[c].question)
     \/ req[c].pc \in {"delete", "update", "remove"} /\ saved[req[c].row].state = "gone"
  /\ Answer(c)
  /\ UNCHANGED <<saved, told>>

-----------------------------------------------------------------------------
Next ==
  \E c \in Client :
    \/ \E q \in Question : Toggle(c, q)
    \/ \E i \in Ids : FindToRemove(c, i) \/ \E q \in Question : FindToUpdate(c, i, q)
    \/ Create(c)
    \/ Delete(c)
    \/ Update(c)
    \/ Remove(c)
    \/ Fails(c)

Spec == Init /\ [][Next]_vars

-----------------------------------------------------------------------------
TypeOK ==
  /\ saved \in Seq(Row)
  /\ told \in [Ids -> Question \union {None}]
  /\ req \in [Client -> [pc : {"idle", "create", "delete", "update", "remove"},
                         row : Nat, question : Question \union {None}, alone : BOOLEAN]]

(* What the last answer about a saved question said is what is stored: a   *)
(* row the client was told of is live and holds that question, one it was  *)
(* told has been removed is not live.                                      *)
ToldIsSaved ==
  \A i \in Ids : IF told[i] = None THEN i \notin Live
                 ELSE i \in Live /\ saved[i].question = told[i]

(* A question is never saved twice.                                        *)
SavedOnce ==
  \A i, j \in Live : saved[i].question = saved[j].question => i = j

\* A toggle that fails was not alone.
FailedToggleWasNotAlone ==
  \A c \in Client : Fails(c) /\ req[c].pc \in {"create", "delete"} => ~req[c].alone

(* "Upsert saved question for user": a toggle that no other request of the *)
(* user overlaps succeeds.                                                 *)
ToggleAloneSucceeds == [][FailedToggleWasNotAlone]_vars
=============================================================================
