CONSTANTS
  Modes = {"never_modify", "append", "overwrite", "truncate"}
  Periods = {1, 2}
  FileInterval = 4
  MaxTime = 5
  Orders = {TRUE, FALSE}
  MaxRuns = 3
  MaxFailures = 2
SPECIFICATION Spec
INVARIANTS ExistingDataKept NoGaps RecordsInOrder NothingLost
CHECK_DEADLOCK FALSE
