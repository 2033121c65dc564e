\* Two users with one client each, while administrators change the bank.
SPECIFICATION Spec
CONSTANTS
  u1 = u1  u2 = u2  c1 = c1  c2 = c2  c3 = c3
  q1 = q1  q2 = q2  q3 = q3  s1 = s1  t1 = t1  t2 = t2  None = None
  User = {u1, u2}
  Client = {c1, c3}
  Owner <- OneEach
  Question = {q1, q2}
  Subject = {s1}
  Ticket = {t1, t2}
  StartDto <- EveryType
  Submission <- NoneOrOne
  InitBank <- TwoQuestions
  EditedRows <- TwoWaysToSpoil
  RandomCount = 2
  TicksPerMinute = 1
  MaxExams = 2
  MaxTick = 1
  MaxEdits = 1
INVARIANTS TypeOK PapersAreWellFormed
PROPERTIES OnlyOwnerChanges LedgerSpec
CHECK_DEADLOCK FALSE
