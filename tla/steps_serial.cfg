\* One request at a time, no process-next, calls that fail.
SPECIFICATION FairSpec
CONSTANTS
  Worker = worker
  Request = {r1}
  N = 3
  Handled = {TRUE, FALSE}
  Lists = {}
  MaxJobs = 5
  MaxTrouble = 0
  MaxBullFaults = 1
INVARIANTS SerialIsSound
PROPERTIES SequenceSpec SequenceEnds
CHECK_DEADLOCK FALSE
