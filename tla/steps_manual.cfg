\* The processor, and one request that also processes steps by hand.
SPECIFICATION Spec
CONSTANTS
  Worker = worker
  Request = {r1}
  N = 3
  Handled = {TRUE}
  Lists = {{1, 2, 3}}
  MaxJobs = 3
  MaxTrouble = 0
  MaxBullFaults = 0
INVARIANTS InSequence
CHECK_DEADLOCK FALSE
