------------------------------ MODULE Listing -------------------------------
(***************************************************************************)
(* The paged lists of users, roles, subjects, tickets, questions, answers  *)
(* and saved questions.  A request runs two queries side by side, one page *)
(* of the rows and their number; a client asks for one page after the      *)
(* other while administrators add and remove rows.                         *)
(***************************************************************************)
EXTENDS Naturals, Sequences, SequencesExt

CONSTANTS
  Lists,      \* the lists walked through: a subset of AllLists
  Sortings,   \* whether clients ask for an order by creation: {TRUE, FALSE}
  Limit,      \* rows per page
  InitRows,   \* rows at the start
  MaxRows     \* bound: rows ever created

AllLists == {"users", "roles", "subjects", "tickets", "questions", "answers", "saved"}

ListsAssumption == Lists \subseteq AllLists
SortingsAssumption == Sortings \subseteq BOOLEAN
LimitAssumption == Limit \in Nat \ {0}
BoundAssumption == InitRows \in Nat /\ MaxRows \in Nat

VARIABLES
  rows,  \* the table, in the order of creation
  walk   \* the client: its list and where it is in it

vars == <<rows, walk>>

\* A row; matches says whether the search and the filters find it.  The
\* question of a saved question may be deleted on its own.
Row == [matches : BOOLEAN, isDeleted : BOOLEAN, questionDeleted : BOOLEAN]

Ids == DOMAIN rows
Live == {i \in Ids : ~rows[i].isDeleted}
Matching(search) == {i \in Ids : search => rows[i].matches}

-----------------------------------------------------------------------------
(* The where clauses *)

ListedUsers(search) == Live \intersect Matching(search)
ListedSubjects(search) == Live \intersect Matching(search)
ListedTickets(search) == Live \intersect Matching(search)
ListedQuestions(search) == Live \intersect Matching(search)
ListedAnswers(search) == Live \intersect Matching(search)

\* Deleted roles are left out only if there is a search.
ListedRoles(search) == IF search THEN Live \intersect Matching(search) ELSE Ids

ListedSaved(search) ==
  {i \in Live \intersect Matching(search) : ~rows[i].questionDeleted}

ListedWithDeleted(list, search) == Matching(search) \* faulty: forgets isDeleted
Listed(list, search) ==
  CASE list = "users" -> ListedUsers(search)
    [] list = "roles" -> ListedRoles(search)
    [] list = "subjects" -> ListedSubjects(search)
    [] list = "tickets" -> ListedTickets(search)
    [] list = "questions" -> ListedQuestions(search)
    [] list = "answers" -> ListedAnswers(search)
    [] list = "saved" -> ListedSaved(search)

\* The query of a ticket names columns under "include", which takes
\* relations only: it is refused.
FoundTickets == {}

\* The rows that GET <list>/:id answers with.
FoundById(list) == IF list = "tickets" THEN FoundTickets ELSE Live

-----------------------------------------------------------------------------
(* The order and the pages *)

\* A column is sorted by if the list selects it; users and roles have no
\* other order, and roles do not select createdAt.
UsersOrder(sorted, order) == IF sorted THEN order ELSE "any"
RolesOrder == "any"
SavedOrder == "desc"

OrderBy(list, sorted, order) ==
  CASE list = "users" -> UsersOrder(sorted, order)
    [] list = "roles" -> RolesOrder
    [] list = "saved" -> SavedOrder
    [] OTHER -> order

\* The sequences in which the database may deliver the rows.
InOrder(ids, order) ==
  {s \in SetToSeqs(ids) : \A i, j \in DOMAIN s :
     i < j => (order = "asc" => s[i] < s[j]) /\ (order = "desc" => s[i] > s[j])}

Least(m, n) == IF m < n THEN m ELSE n

PageFromZero(s, page) == \* faulty: skips one row too few
  SubSeq(s, IF page = 1 THEN 1 ELSE Limit * (page - 1), Least(Len(s), Limit * page))
\* take limit, skip limit * (page - 1)
Page(s, page) == SubSeq(s, Limit * (page - 1) + 1, Least(Len(s), Limit * page))

LastPageFloor(total) == total \div Limit \* faulty: floor for ceil
LastPage(total) == (total + Limit - 1) \div Limit

-----------------------------------------------------------------------------
NoWalk == [pc |-> "idle", list |-> "users", search |-> FALSE, order |-> "asc", page |-> 0,
           found |-> <<>>, total |-> 0, got |-> <<>>, start |-> {},
           grown |-> FALSE, removed |-> FALSE, split |-> FALSE]

Fresh(matches) == [matches |-> matches, isDeleted |-> FALSE, questionDeleted |-> FALSE]

Init ==
  /\ rows = [i \in 1..InitRows |-> Fresh(TRUE)]
  /\ walk = NoWalk

Start(list, search, sorted, order) ==
  /\ walk.pc = "idle"
  /\ walk' = [NoWalk EXCEPT !.pc = "both", !.list = list, !.search = search, !.page = 1,
                            !.order = OrderBy(list, sorted, order),
                            !.start = Listed(list, search)]
  /\ UNCHANGED rows

\* The two queries of Promise.all, in either order.
FindMany ==
  /\ walk.pc \in {"both", "rows"}
  /\ \E s \in InOrder(Listed(walk.list, walk.search), walk.order) :
       walk' = [walk EXCEPT !.found = Page(s, walk.page),
                            !.pc = IF @ = "both" THEN "count" ELSE "answer"]
  /\ UNCHANGED rows

Count ==
  /\ walk.pc \in {"both", "count"}
  /\ walk' = [walk EXCEPT !.total = Cardinality(Listed(walk.list, walk.search)),
                          !.pc = IF @ = "both" THEN "rows" ELSE "answer"]
  /\ UNCHANGED rows

\* The answer arrives; the client asks for the next page if there is one.
NextPage ==
  /\ walk.pc = "answer"
  /\ walk' = [walk EXCEPT !.got = @ \o walk.found, !.found = <<>>,
                          !.page = @ + 1,
                          !.pc = IF walk.page < LastPage(walk.total) THEN "both" ELSE "done"]
  /\ UNCHANGED rows

\* What goes on in the table meanwhile; walk remembers it for the properties.
Noted(w, gone) ==
  [w EXCEPT !.removed = @ \/ gone, !.grown = @ \/ ~gone,
            !.split = @ \/ (~gone /\ w.pc \in {"rows", "count"})]

\* Bound: rows change while the client walks.
Walking == walk.pc \notin {"idle", "done"}

InsertRow(matches) ==
  /\ Walking
  /\ Len(rows) < MaxRows
  /\ rows' = Append(rows, Fresh(matches))
  /\ walk' = Noted(walk, FALSE)

RemoveRow(i) ==
  /\ Walking
  /\ ~rows[i].isDeleted
  /\ rows' = [rows EXCEPT ![i].isDeleted = TRUE]
  /\ walk' = Noted(walk, TRUE)

RemoveQuestion(i) ==
  /\ Walking /\ walk.list = "saved"
  /\ ~rows[i].questionDeleted
  /\ rows' = [rows EXCEPT ![i].questionDeleted = TRUE]
  /\ walk' = Noted(walk, TRUE)

-----------------------------------------------------------------------------
Next ==
  \/ \E list \in Lists, search \in BOOLEAN, sorted \in Sortings, order \in {"asc", "desc"} :
       Start(list, search, sorted, order)
  \/ FindMany
  \/ Count
  \/ NextPage
  \/ \E matches \in BOOLEAN : InsertRow(matches)
  \/ \E i \in Ids : RemoveRow(i) \/ RemoveQuestion(i)

Spec == Init /\ [][Next]_vars

-----------------------------------------------------------------------------
\* A page never has more rows than the limit.
TypeOK ==
  /\ rows \in Seq(Row)
  /\ walk.pc \in {"idle", "both", "rows", "count", "answer", "done"}
  /\ walk.found \in Seq(Ids) /\ Len(walk.found) <= Limit
  /\ walk.got \in Seq(Ids)
  /\ walk.total \in Nat /\ walk.page \in Nat

(* Who walks through all pages of a list meets every row that was there    *)
(* all the time, unless rows were removed meanwhile, or the newest come    *)
(* first and one was added between the two queries of a request.           *)
MissedOnlyAfterRemoval ==
  walk.pc = "done" =>
    \A i \in walk.start \intersect Listed(walk.list, walk.search) :
      \/ i \in Range(walk.got)
      \/ walk.removed
      \/ walk.order = "desc" /\ walk.split

(* No row is met twice unless the newest come first and rows were added.   *)
TwiceOnlyAfterInsertion ==
  IsInjective(walk.got) \/ (walk.order = "desc" /\ walk.grown)

(* A page lists only rows that can be opened by their id ("Get role by     *)
(* ID", "Get ticket by ID") while nobody removes them.                     *)
ListedCanBeOpened ==
  [][FindMany => Range(walk'.found) \subseteq FoundById(walk.list)]_vars
=============================================================================
