\* The processor and two requests that create, retry and process the next step of the
\* whole list or of the second step's alone, with a failing call or a restart.
SPECIFICATION Spec
CONSTANTS
  Worker = worker
  Request = {r1, r2}
  N = 2
  Handled = {TRUE}
  Lists = {{2}, {1, 2}}
  MaxJobs = 2
  MaxTrouble = 1
  MaxBullFaults = 0
SYMMETRY Symmetry
CONSTRAINT QuietInTrouble
INVARIANTS TypeOK ListsRunInOrder CompletedHasSucceeded ProcessingIsAlive
CHECK_DEADLOCK FALSE
