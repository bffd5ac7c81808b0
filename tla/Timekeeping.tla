---------------------------- MODULE Timekeeping ----------------------------
(***************************************************************************)
(* The MPAS clock and its list of alarms (framework/mpas_timekeeping.F),   *)
(* as the master thread of one MPI task changes them.  Time is a count of  *)
(* ticks on one calendar: an interval is a number of ticks, so an interval *)
(* of calendar months is outside this model.                               *)
(*                                                                         *)
(* `origin', `heard' and `displaced' are history variables: what the       *)
(* program does to its clock and alarms does not depend on them.           *)
(* origin[id] is one of the times at which alarm id was asked to ring, and *)
(* fixes the whole series of its ring times; heard[id] is the time up to   *)
(* which its rings have been dealt with.  An alarm is displaced from its   *)
(* adjusting on a clock that runs backward, which forgets where the clock  *)
(* stands, to its next reset while it rings or its next calibration.       *)
(***************************************************************************)
EXTENDS TimeArithmetic

CONSTANTS
    AlarmIds,    \* the names alarms are given
    Intervals,   \* ring intervals of recurring alarms
    Steps,       \* time steps the clock is given, of either sign
    Lookaheads,  \* values of the optional argument `interval'; 0: absent
    MaxTime,     \* bound: the clock stays within 0..MaxTime
    MaxAdds      \* bound: mpas_add_clock_alarm succeeds at most this often

ASSUME IntervalsAssumption  == Intervals \subseteq Nat \ {0}
ASSUME StepsAssumption      == Steps \subseteq Int
ASSUME LookaheadsAssumption == Lookaheads \subseteq Nat /\ 0 \in Lookaheads
ASSUME BoundsAssumption     == MaxTime \in Nat /\ MaxAdds \in Nat

MPAS_FORWARD  == 1
MPAS_BACKWARD == -1

Times == 0 .. MaxTime

VARIABLES
    now,        \* CurrTime of the ESMF clock
    timeStep,   \* TimeStep of the ESMF clock: nothing ties its sign to direction
    direction,
    alarms,     \* the alarm list: a function from the defined ids to records
    nAlarms,    \* counted up by every insertion, never counted down
    origin,     \* history: a ring time of each alarm
    heard,      \* history: the rings up to this time have been dealt with
    displaced   \* history: alarms adjusted on a clock that ran backward

clockVars == <<now, timeStep, direction>>
vars == <<now, timeStep, direction, alarms, nAlarms, origin, heard, displaced>>

Forward == direction = MPAS_FORWARD

Alarm == [isRecurring: BOOLEAN, isSet: BOOLEAN, ringTime: Int,
          prevRingTime: Int, ringTimeInterval: Nat]

\* One type invariant: a recurring alarm is set and has a usable interval.
TypeOK ==
    /\ now \in Times
    /\ direction \in {MPAS_FORWARD, MPAS_BACKWARD}
    /\ timeStep \in Int
    /\ DOMAIN alarms \subseteq AlarmIds
    /\ alarms \in [DOMAIN alarms -> Alarm]
    /\ \A id \in DOMAIN alarms :
          alarms[id].isRecurring => /\ alarms[id].isSet
                                    /\ alarms[id].ringTimeInterval \in Intervals
    /\ nAlarms \in 0 .. MaxAdds
    /\ origin \in [AlarmIds -> Int]
    /\ heard \in [AlarmIds -> Int]
    /\ displaced \subseteq AlarmIds

Init ==
    /\ now \in Times
    /\ timeStep \in Steps
    /\ direction = MPAS_FORWARD
    /\ alarms = [id \in {} |-> {}]
    /\ nAlarms = 0
    /\ origin = [id \in AlarmIds |-> 0]
    /\ heard = [id \in AlarmIds |-> 0]
    /\ displaced = {}

-----------------------------------------------------------------------------
(* Queries *)

\* The time reached from t after the interval iv, the way the clock runs.
Ahead(t, iv) == IF Forward THEN t + iv ELSE t - iv

\* The clock has come to the time t, or gone past it, when it shows n.
Reached(t, n) == IF Forward THEN t <= n ELSE t >= n

\* mpas_alarm_get_next_ring_time
NextRingTime(a) == Ahead(a.prevRingTime, a.ringTimeInterval)

\* Mutant: the alarm is looked for at its threshold only.
InRingingEnvelopeExact(a, iv) ==
    Ahead(now, iv) = IF a.isRecurring THEN NextRingTime(a) ELSE a.ringTime

\* mpas_in_ringing_envelope
InRingingEnvelope(a, iv) ==
    Reached(IF a.isRecurring THEN NextRingTime(a) ELSE a.ringTime,
            Ahead(now, iv))

\* mpas_is_alarm_ringing, and for every id mpas_get_clock_ringing_alarms
IsAlarmRinging(id, iv) ==
    /\ id \in DOMAIN alarms
    /\ alarms[id].isSet
    /\ InRingingEnvelope(alarms[id], iv)

\* mpas_calibrate_alarms on one alarm of a clock that shows n and runs in dir.
Calibrated(a, n, dir) ==
    IF ~a.isRecurring
    THEN [a EXCEPT !.isSet = TRUE]
    ELSE [a EXCEPT !.prevRingTime =
            IF dir = MPAS_FORWARD
            THEN NegativeNeighbor(@, a.ringTimeInterval, n)
            ELSE PositiveNeighbor(@, a.ringTimeInterval, n)]

\* What a calibration makes of the history: a one-shot alarm is due again; of
\* a recurring alarm the rings before n count as dealt with, one at n does not.
CalibratedHeard(id, n, dir) ==
    LET t == IF alarms[id].isRecurring THEN n ELSE alarms[id].ringTime
    IN  IF dir = MPAS_FORWARD THEN t - 1 ELSE t + 1

CalibrateAlarms(n, dir) ==
    /\ alarms' = [id \in DOMAIN alarms |-> Calibrated(alarms[id], n, dir)]
    /\ heard' = [id \in AlarmIds |-> IF id \in DOMAIN alarms
                                     THEN CalibratedHeard(id, n, dir)
                                     ELSE heard[id]]
    /\ displaced' = {}
    /\ UNCHANGED <<nAlarms, origin>>

-----------------------------------------------------------------------------
(* Operations on the clock *)

\* mpas_set_clock_direction: an early return when the direction is unchanged.
SetClockDirection ==
    /\ direction' = -direction
    /\ timeStep' = -timeStep
    /\ CalibrateAlarms(now, -direction)
    /\ UNCHANGED now

\* mpas_set_clock_timestep: the step is taken as it is, also by a clock that
\* runs backward.
SetClockTimestep(s) ==
    /\ timeStep' = s
    /\ UNCHANGED <<now, direction, alarms, nAlarms, origin, heard, displaced>>

\* mpas_advance_clock, with the clock's time step
AdvanceClock ==
    /\ now + timeStep \in Times
    /\ now' = now + timeStep
    /\ UNCHANGED <<timeStep, direction, alarms, nAlarms, origin, heard, displaced>>

\* mpas_advance_clock with its optional argument: the clock's own step is
\* saved, replaced for one advance and put back.
AdvanceClockBy(s) ==
    /\ now + s \in Times
    /\ now' = now + s
    /\ UNCHANGED <<timeStep, direction, alarms, nAlarms, origin, heard, displaced>>

\* mpas_set_clock_time with whichTime = MPAS_NOW
SetClockTime(t) ==
    /\ now' = t
    /\ CalibrateAlarms(t, direction)
    /\ UNCHANGED <<timeStep, direction>>

-----------------------------------------------------------------------------
(* Operations on one alarm *)

\* The end of mpas_add_clock_alarm, after the search for a duplicate id.
Inserted(id, a, t) ==
    /\ id \notin DOMAIN alarms
    /\ nAlarms < MaxAdds
    /\ alarms' = [x \in DOMAIN alarms \cup {id} |->
                     IF x = id THEN a ELSE alarms[x]]
    /\ nAlarms' = nAlarms + 1
    /\ origin' = [origin EXCEPT ![id] = t]
    /\ heard' = [heard EXCEPT ![id] = Ahead(t, -1)]
    /\ displaced' = displaced \ {id}
    /\ UNCHANGED clockVars

NewRecurring(t, iv) ==
    [isRecurring |-> TRUE, isSet |-> TRUE, ringTime |-> t,
     prevRingTime |-> Ahead(t, -iv), ringTimeInterval |-> iv]

\* The interval of a one-shot alarm is never assigned, and never read by the
\* operations below: 0 stands for it.
NewOneShot(t) ==
    [isRecurring |-> FALSE, isSet |-> TRUE, ringTime |-> t,
     prevRingTime |-> t, ringTimeInterval |-> 0]

AddRecurringAlarm(id, t, iv) == Inserted(id, NewRecurring(t, iv), t)
AddOneShotAlarm(id, t) == Inserted(id, NewOneShot(t), t)

\* mpas_remove_clock_alarm
RemoveClockAlarm(id) ==
    /\ id \in DOMAIN alarms
    /\ alarms' = [x \in DOMAIN alarms \ {id} |-> alarms[x]]
    /\ origin' = [origin EXCEPT ![id] = 0]
    /\ heard' = [heard EXCEPT ![id] = 0]
    /\ displaced' = displaced \ {id}
    /\ UNCHANGED <<clockVars, nAlarms>>

\* Mutants: the ring is counted from now on, or by one interval only.
ResetRingTimeToNow(a, n) == n
ResetRingTimeByOne(a, n) == NextRingTime(a)

\* The previous ring time mpas_reset_clock_alarm stores when it has been asked
\* to look ahead to the time n.
ResetRingTime(a, n) ==
    IF Forward
    THEN n - IntervalRemainder(n - a.prevRingTime, a.ringTimeInterval)
    ELSE n + IntervalRemainder(a.prevRingTime - n, a.ringTimeInterval)

\* mpas_reset_clock_alarm: a reset outside the envelope changes nothing.
ResetClockAlarm(id, iv) ==
    /\ id \in DOMAIN alarms
    /\ LET a == alarms[id]
           n == Ahead(now, iv)
       IN  /\ alarms' = IF ~InRingingEnvelope(a, iv) THEN alarms
                        ELSE IF a.isRecurring
                        THEN [alarms EXCEPT ![id].prevRingTime = ResetRingTime(a, n)]
                        ELSE [alarms EXCEPT ![id].isSet = FALSE]
           /\ heard' = [heard EXCEPT ![id] =
                           IF Reached(@, n) \/ InRingingEnvelope(a, iv) THEN n ELSE @]
           /\ displaced' = IF InRingingEnvelope(a, iv) THEN displaced \ {id} ELSE displaced
    /\ UNCHANGED <<clockVars, nAlarms, origin>>

\* The previous ring time mpas_adjust_alarm_to_reference_time stores.  The two
\* branches of a backward clock divide an interval that is not positive, so what
\* they store is ref itself or ref - iv, wherever the clock stands.
AdjustedRingTime(a, ref) ==
    LET iv == a.ringTimeInterval
        past == IF Forward THEN now > ref ELSE now < ref
    IN  IF past
        THEN now - IntervalRemainder(now - ref, iv)
        ELSE now - (iv - IntervalRemainder(ref - now, iv))

\* mpas_adjust_alarm_to_reference_time of a recurring alarm (a one-shot alarm
\* is left alone).  The series of ring times now runs through ref.  A clock past
\* ref treats a ring due at this very moment as dealt with, one that has not come
\* past it does not: what the code does on a forward clock, which `heard' expects
\* of it on a backward one too.
AdjustAlarmToReferenceTime(id, ref) ==
    /\ id \in DOMAIN alarms
    /\ alarms[id].isRecurring
    /\ alarms' = [alarms EXCEPT ![id].prevRingTime = AdjustedRingTime(alarms[id], ref)]
    /\ origin' = [origin EXCEPT ![id] = ref]
    /\ heard' = [heard EXCEPT ![id] =
                   IF Reached(now, ref) THEN Ahead(now, -1) ELSE now]
    /\ displaced' = IF Forward THEN displaced \ {id} ELSE displaced \cup {id}
    /\ UNCHANGED <<clockVars, nAlarms>>

-----------------------------------------------------------------------------
Next ==
    \/ SetClockDirection
    \/ \E s \in Steps : SetClockTimestep(s) \/ AdvanceClockBy(s)
    \/ AdvanceClock
    \/ \E t \in Times : SetClockTime(t)
    \/ \E id \in AlarmIds :
         \/ \E t \in Times, iv \in Intervals : AddRecurringAlarm(id, t, iv)
         \/ \E t \in Times : AddOneShotAlarm(id, t)
         \/ RemoveClockAlarm(id)
         \/ \E iv \in Lookaheads : ResetClockAlarm(id, iv)
         \/ \E ref \in Times : AdjustAlarmToReferenceTime(id, ref)

Spec == Init /\ [][Next]_vars

-----------------------------------------------------------------------------
(* Properties *)

\* The times at which alarm id is asked to ring.
IsRingTime(id, p) ==
    IF alarms[id].isRecurring
    THEN (p - origin[id]) % alarms[id].ringTimeInterval = 0
    ELSE p = alarms[id].ringTime

\* A ring time of alarm id that the clock has reached and nobody has dealt with.
Due(id, p) ==
    /\ IsRingTime(id, p)
    /\ IF Forward THEN heard[id] < p /\ p <= now
                  ELSE now <= p /\ p < heard[id]

DuePoints == -1 .. MaxTime + 1

\* An alarm rings exactly when one of its ring times has been reached and not
\* yet dealt with: no ring is lost when a step jumps over it, a late or early
\* reset neither repeats a ring nor drops the next one, and no sequence of
\* resets, calibrations and reversals shifts the series (the tests reset every
\* alarm at the moment it rings).  A displaced alarm is excepted: it rings for
\* times the clock had passed before it was adjusted, or misses the next ones.
RingsExactlyWhenDue ==
    \A id \in DOMAIN alarms \ displaced :
        IsAlarmRinging(id, 0) <=> \E p \in DuePoints : Due(id, p)

\* Of a recurring alarm: its previous ring time belongs to its series, and
\* unless the alarm is displaced it is the last time of the series that has been
\* dealt with.
PrevIsLastHeard(id) ==
    LET iv == alarms[id].ringTimeInterval
        prev == alarms[id].prevRingTime
    IN  /\ (prev - origin[id]) % iv = 0
        /\ id \notin displaced =>
              IF Forward THEN prev <= heard[id] /\ heard[id] < prev + iv
                         ELSE prev - iv < heard[id] /\ heard[id] <= prev

\* Of a one-shot alarm: it is set until its ring time has been dealt with.
SetUntilHeard(id) ==
    LET t == alarms[id].ringTime
    IN  /\ t \in Times
        /\ alarms[id].isSet <=> IF Forward THEN heard[id] < t ELSE t < heard[id]

SeriesOf(id) ==
    /\ IF alarms[id].isRecurring THEN PrevIsLastHeard(id) ELSE SetUntilHeard(id)
    /\ IF Forward THEN heard[id] >= -1 ELSE heard[id] <= MaxTime + 1

\* The strengthening from which RingsExactlyWhenDue follows: the alarm list says
\* exactly which rings of each series are still to come, whatever sequence of
\* calls, reversals and look-aheads produced it.
SeriesNeverShifts == \A id \in DOMAIN alarms : SeriesOf(id)

\* After a reset the alarm is silent for the look-ahead it was reset with, and
\* a recurring alarm next rings within one interval.
ResetSilences ==
    [][\A id \in AlarmIds, ahead \in Lookaheads :
          ResetClockAlarm(id, ahead) =>
             LET at == Ahead(now, ahead)
                 next == NextRingTime(alarms'[id])
             IN  /\ ~IsAlarmRinging(id, ahead)'
                 /\ (alarms[id].isRecurring /\ IsAlarmRinging(id, ahead)) =>
                       ~Reached(next, at) /\ Reached(next, Ahead(at, alarms[id].ringTimeInterval))]_vars

\* A ringing alarm rings until it is reset, removed or moved to another
\* reference time, or the clock is reversed, set, or moved against the direction
\* it runs in: a step that points the other way is not refused.
RingingPersists ==
    [][\A id \in DOMAIN alarms :
          IsAlarmRinging(id, 0) =>
             \/ IsAlarmRinging(id, 0)'
             \/ RemoveClockAlarm(id)
             \/ \E ahead \in Lookaheads : ResetClockAlarm(id, ahead)
             \/ \E ref \in Times : AdjustAlarmToReferenceTime(id, ref)
             \/ direction' # direction
             \/ IF Forward THEN now' < now ELSE now' > now
             \/ \E time \in Times : SetClockTime(time)]_vars

\* The comment on mpas_alarm_get_next_ring_time says that, called exactly at a
\* ring time of an alarm that has not been reset, it returns the current time.
NextRingTimeAsDocumented ==
    \A id \in DOMAIN alarms :
        alarms[id].isRecurring /\ Due(id, now) => NextRingTime(alarms[id]) = now
=============================================================================
