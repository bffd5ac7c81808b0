CONSTANTS
  Numerators <- MCNumerators
  Denominators <- MCDenominators
  RingTimes <- MCRingTimes
  ClockTimes <- MCClockTimes
  RingIntervals = {1, 2, 3, 5}
SPECIFICATION SearchSpec
INVARIANTS SearchBrackets Divides SearchStaysClose FindsNeighbors
PROPERTY SearchesEnd
CHECK_DEADLOCK FALSE
