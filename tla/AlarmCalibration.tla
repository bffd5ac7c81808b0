-------------------------- MODULE AlarmCalibration --------------------------
(***************************************************************************)
(* The search mpas_calibrate_alarms (framework/mpas_timekeeping.F) makes   *)
(* for one recurring alarm when the clock is set or reversed: from the     *)
(* previous ring time prev it steps by the ring interval until it has gone *)
(* past now, notes the neighbour, and comes back past now for the other    *)
(* one.  One step of the model is one iteration of one of the loops.       *)
(***************************************************************************)
EXTENDS TimeArithmetic

CONSTANTS
    RingTimes,  \* previous ring times
    ClockTimes, \* what the clock may show
    RingIntervals   \* ring intervals

ASSUME TimesAssumption     == RingTimes \subseteq Int /\ ClockTimes \subseteq Int
ASSUME RingIntervalsAssumption == RingIntervals \subseteq Nat \ {0}

VARIABLES
    loop,           \* "up" or "down": the loop being run; "done"
    turned,         \* the first of the two loops is over
    prev, present, iv,  \* prevRingTime and ringTimeInterval of the alarm, the clock
    t,              \* previousRingTime
    neg, pos        \* negativeNeighborRingTime, positiveNeighborRingTime

calibration == <<loop, turned, prev, present, iv, t, neg, pos>>
arguments == <<prev, present, iv>>

CalibrationInit ==
    /\ prev \in RingTimes
    /\ present \in ClockTimes
    /\ iv \in RingIntervals
    /\ t = prev
    /\ loop = IF prev <= present THEN "up" ELSE "down"
    /\ turned = FALSE
    /\ neg = 0 /\ pos = 0

StepUp ==
    /\ loop = "up" /\ t <= present
    /\ t' = t + iv
    /\ UNCHANGED <<loop, turned, arguments, neg, pos>>

\* Mutant: a ring time at the present itself is left where it is.
StepDownStrictly ==
    /\ loop = "down" /\ t > present
    /\ t' = t - iv
    /\ UNCHANGED <<loop, turned, arguments, neg, pos>>

StepDown ==
    /\ loop = "down" /\ t >= present
    /\ t' = t - iv
    /\ UNCHANGED <<loop, turned, arguments, neg, pos>>

\* The end of a loop: the second one follows, or the search is over.
Above ==
    /\ loop = "up" /\ t > present
    /\ pos' = t
    /\ loop' = IF turned THEN "done" ELSE "down"
    /\ turned' = TRUE
    /\ UNCHANGED <<arguments, t, neg>>

\* Mutant: the time the second loop starts from is taken for the neighbour.
BelowTooEarly ==
    /\ loop = "down"
    /\ neg' = t
    /\ loop' = IF turned THEN "done" ELSE "up"
    /\ turned' = TRUE
    /\ UNCHANGED <<arguments, t, pos>>

Below ==
    /\ loop = "down" /\ t < present
    /\ neg' = t
    /\ loop' = IF turned THEN "done" ELSE "up"
    /\ turned' = TRUE
    /\ UNCHANGED <<arguments, t, pos>>

CalibrationNext == StepUp \/ StepDown \/ Above \/ Below

\* A sequential subroutine: it runs as long as it has a step to take.
CalibrationSpec == CalibrationInit /\ [][CalibrationNext]_calibration /\ WF_calibration(CalibrationNext)

-----------------------------------------------------------------------------
(* Properties *)

CalibrationTypeOK ==
    /\ loop \in {"up", "down", "done"}
    /\ turned \in BOOLEAN
    /\ prev \in Int /\ present \in Int /\ iv \in Nat \ {0}
    /\ t \in Int /\ neg \in Int /\ pos \in Int

\* The two loops never leave the series of ring times, the second one comes
\* back from within one interval of the present, and each neighbour, once noted, is
\* within one interval of the present and strictly on its side.
SearchStaysClose ==
    /\ (t - prev) % iv = 0
    /\ loop = "up" => t - iv <= present
    /\ loop = "down" => present <= t + iv
    /\ (loop = "up" /\ turned) \/ loop = "done" =>
          (neg - prev) % iv = 0 /\ neg < present /\ present <= neg + iv
    /\ (loop = "down" /\ turned) \/ loop = "done" =>
          (pos - prev) % iv = 0 /\ present < pos /\ pos - iv <= present

\* The neighbours are the ones the model of the clock is built with, whichever
\* side of the present the search starts from and also when that is itself a ring time.
FindsNeighbors ==
    loop = "done" => /\ neg = NegativeNeighbor(prev, iv, present)
                   /\ pos = PositiveNeighbor(prev, iv, present)

\* The search ends, however far the clock was set.
CalibrationEnds == <>(loop = "done")
=============================================================================
