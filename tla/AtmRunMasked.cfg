CONSTANTS
  Outputs <- MCOutputs
  RingIntervals = {2}
  TimeSteps = {1}
  StopTime = 5
  MaxTime = 6
  Refusable = {"output"}
  MaxRuns = 2
SPECIFICATION Spec
INVARIANT StampedOnlyAfterSuccess
CHECK_DEADLOCK FALSE
