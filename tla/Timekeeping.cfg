CONSTANTS
  a1 = a1
  a2 = a2
  AlarmIds = {a1, a2}
  Intervals = {2, 3}
  Steps <- MCSteps
  Lookaheads = {0, 2}
  MaxTime = 3
  MaxAdds = 2
SYMMETRY AlarmSymmetry
SPECIFICATION Spec
INVARIANTS RingsExactlyWhenDue SeriesNeverShifts
PROPERTIES ResetSilences RingingPersists
CHECK_DEADLOCK FALSE
