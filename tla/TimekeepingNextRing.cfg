CONSTANTS
  a1 = a1
  a2 = a2
  AlarmIds = {a1}
  Intervals = {2}
  Steps = {1}
  Lookaheads = {0}
  MaxTime = 4
  MaxAdds = 1
SPECIFICATION Spec
INVARIANT NextRingTimeAsDocumented
CHECK_DEADLOCK FALSE
