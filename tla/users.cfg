\* What is kept about users, one part at a time.
SPECIFICATION UsersSpec
CONSTANTS
  u1 = u1  c1 = c1  c2 = c2  mail1 = mail1
  phone1 = phone1  google1 = google1
  permission1 = permission1  permission2 = permission2  name1 = name1  name2 = name2
  admin1 = admin1
  None = None  NoValue = NoValue
  Parts = {"cache", "codes", "codes, two clients", "codes, outage", "accounts",
           "period", "roles"}
  Key = {1}
  Value = {1, 2}
  Ttl = 2
  Second = 2
  MaxTime = 4
  MaxOutages = 2
  Time = {0, 1, 2, 3, 4}
  Month = 2
  Admin = {admin1}
  Creation <- Dates
  Role = {"user"}
INVARIANTS UsersTypeOK CodesAreSound AccessIsSound
PROPERTIES Implements EveryRequestEnds AccountsAreSound AssignmentsAreKept
CHECK_DEADLOCK FALSE
