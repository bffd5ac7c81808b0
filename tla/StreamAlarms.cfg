CONSTANTS
  s1 = s1
  s2 = s2
  a1 = a1
  a2 = a2
  a3 = a3
  StreamIds = {s1, s2}
  AlarmIds = {a1, a2, a3}
  ClockAlarms = {a1, a2}
  StreamDirections = {{"output"}, {"input", "output"}}
  MaxLinks = 3
SYMMETRY StreamAlarmSymmetry
SPECIFICATION ManagerSpec
INVARIANT CrossReferenced
PROPERTY ImplementsRegistry
