------------------------------ MODULE MCExams -------------------------------
(* Small instances of Exams for TLC. *)
EXTENDS Exams, TLC

CONSTANTS u1, u2, c1, c2, c3, q1, q2, q3, s1, t1, t2

\* Two clients of one user, and one client per user.
TwoTabs == (c1 :> u1) @@ (c2 :> u1)
OneEach == [c \in Client |-> IF c = c3 THEN u2 ELSE u1]

Live(s, t) == [state |-> "live", valid |-> TRUE, subjectId |-> s, ticketId |-> t]
OneQuestion == q1 :> Live(s1, t1)
TwoQuestions == (q1 :> Live(s1, t1)) @@ (q2 :> Live(s1, t2))
ThreeQuestions == TwoQuestions @@ (q3 :> Live(s1, t2))
TwoWaysToSpoil ==
  {[Live(s1, t1) EXCEPT !.state = "deleted"], [Live(s1, t1) EXCEPT !.valid = FALSE]}

\* Every type, with and without the id it needs, with an id it ignores.
Random == [type |-> "RANDOM", subjectId |-> None, ticketId |-> None]
RandomOfSubject == [Random EXCEPT !.subjectId = s1]
OfSubject == [Random EXCEPT !.type = "SUBJECT", !.subjectId = s1]
OfNoSubject == [Random EXCEPT !.type = "SUBJECT"]
OfTicket == [Random EXCEPT !.type = "TICKET", !.ticketId = t1]

FewDtos == {Random, RandomOfSubject}
EveryType == {OfSubject, OfNoSubject, OfTicket, Random}

NoneOrOne == {<<>>, <<q1>>}
OneOrTwo == {<<q1>>, <<q1, q2>>}
=============================================================================
