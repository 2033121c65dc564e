\* What clients are told over WebSockets, one part at a time.
SPECIFICATION EventsSpec
CONSTANTS
  worker = worker  r1 = r1  r2 = r2  nothing = nothing
  s1 = s1  s2 = s2  u1 = u1  u2 = u2  e1 = e1  e2 = e2  i1 = i1  bad = bad
  Parts = {"feed", "feed, two requests", "gateway"}
INVARIANTS EventsTypeOK NothingMissed EventsAreTrue
PROPERTIES ClientsAreAnswered
CHECK_DEADLOCK FALSE
