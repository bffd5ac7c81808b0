CONSTANTS
  Outputs <- MCThreeOutputs
  RingIntervals = {2, 3}
  TimeSteps = {1, 2, 3}
  StopTime = 5
  MaxTime = 8
  Refusable = {}
  MaxRuns = 3
SPECIFICATION Spec
INVARIANTS TimestampHasRecord OutputOnSchedule LbcCoversStep SurfaceIsLatest
PROPERTY Terminates
CHECK_DEADLOCK FALSE
