--------------------------- MODULE MCTimeSearches ---------------------------
(* The two searches of the time manager: all numerators and denominators up  *)
(* to a bound, around every power of two up to 64; every position of the     *)
(* clock against a series of ring times.  A behaviour makes one search, while *)
(* the other stands at the end of one that had nothing to do.                *)
EXTENDS IntervalDivision, AlarmCalibration

MCNumerators == -3 .. 70
MCDenominators == 0 .. 5
MCRingTimes == -4 .. 5
MCClockTimes == -4 .. 9

DivisionRests ==
    /\ pc = "done" /\ num = 0 /\ den = 1
    /\ n = 0 /\ rem = 0 /\ m = 0 /\ updated = 0 /\ cost = 0

CalibrationRests ==
    /\ loop = "done" /\ turned = TRUE
    /\ prev = 0 /\ present = 0 /\ iv = 1
    /\ t = 0 /\ neg = -1 /\ pos = 1

SearchInit == (DivisionInit /\ CalibrationRests) \/ (CalibrationInit /\ DivisionRests)

SearchNext == (DivisionNext /\ UNCHANGED calibration) \/ (CalibrationNext /\ UNCHANGED division)

SearchSpec ==
    SearchInit /\ [][SearchNext]_<<division, calibration>> /\ WF_division(DivisionNext) /\ WF_calibration(CalibrationNext)

\* Every search ends, whatever the intervals and however far the clock was set, the division
\* after a number of steps that grows with the logarithm of its result
\* (mpas_interval_division and mpas_calibrate_alarms loop until a comparison turns).
SearchesEnd == DivisionEnds /\ CalibrationEnds /\ []CostIsLogarithmic
=============================================================================
