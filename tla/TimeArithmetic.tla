--------------------------- MODULE TimeArithmetic ---------------------------
(* What the searches of framework/mpas_timekeeping.F compute, when a time is *)
(* a number of ticks.  IntervalDivision and AlarmCalibration model the       *)
(* searches themselves, loop by loop, and are checked against these.         *)
EXTENDS Integers

\* Mutant: an interval that fits exactly once is left over whole.
IntervalRemainderOffByOne(num, den) == IF num <= den THEN num ELSE num % den

\* The remainder mpas_interval_division returns for a denominator den > 0: a
\* numerator below the denominator, a negative one too, comes back whole.
IntervalRemainder(num, den) == IF num < den THEN num ELSE num % den

\* The two neighbours mpas_calibrate_alarms finds by stepping by the interval
\* iv > 0 from the time prev: the last time of the series before n, and the
\* first one after n.
NegativeNeighbor(prev, iv, n) == n - 1 - ((n - 1 - prev) % iv)
PositiveNeighbor(prev, iv, n) == n + 1 + ((prev - n - 1) % iv)
=============================================================================
