\* Two clients of one user; every exam can run out of its time.
SPECIFICATION FairSpec
CONSTANTS
  u1 = u1  u2 = u2  c1 = c1  c2 = c2  c3 = c3
  q1 = q1  q2 = q2  q3 = q3  s1 = s1  t1 = t1  t2 = t2  None = None
  User = {u1}
  Client = {c1, c2}
  Owner <- TwoTabs
  Question = {q1}
  Subject = {s1}
  Ticket = {t1, t2}
  StartDto <- FewDtos
  Submission <- NoneOrOne
  InitBank <- OneQuestion
  EditedRows <- TwoWaysToSpoil
  RandomCount = 1
  TicksPerMinute = 2
  MaxExams = 2
  MaxTick = 2
  MaxEdits = 0
INVARIANTS OneActivePerClient ExpiredNeverEarly
PROPERTIES SettledIsFinal OverdueResumeEnds
CHECK_DEADLOCK FALSE
