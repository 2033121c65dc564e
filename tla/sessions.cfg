\* One user on two devices.
SPECIFICATION FairSpec
CONSTANTS
  u1 = u1  c1 = c1  c2 = c2
  User = {u1}
  Client = {c1, c2}
  Owner <- OneUser
  SessionsKept = 1
  MaxSessions = 4
  MaxResets = 1
INVARIANTS TypeOK ActiveBound
PROPERTIES  OverIsFinal ResetEndsSessions EveryRequestEnds
CHECK_DEADLOCK FALSE
