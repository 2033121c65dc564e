\* One user on one device, two sessions kept as in the code.
SPECIFICATION Spec
CONSTANTS
  u1 = u1  c1 = c1  c2 = c2
  User = {u1}
  Client = {c1}
  Owner <- OneUser
  SessionsKept = 2
  MaxSessions = 3
  MaxResets = 0
PROPERTIES RefreshEndsSessions
CHECK_DEADLOCK FALSE
