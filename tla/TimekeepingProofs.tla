------------------------- MODULE TimekeepingProofs -------------------------
(* Proofs about the time manager.  First the clock and its alarms, for every *)
(* set of alarm ids, of intervals, of time steps and of look-aheads.  Then   *)
(* the two searches.  mpas_interval_division divides, for all numerators and *)
(* all denominators: its two loops walk through powers of two, so the second *)
(* one meets every smaller power down to 1 before it stops, and what is left *)
(* of num after the power m is less than 2 * m * den.  The search of         *)
(* mpas_calibrate_alarms finds the neighbours of the clock's time in the     *)
(* series of ring times, for every series and every time.                    *)
EXTENDS Timekeeping, IntervalDivision, AlarmCalibration, OperatorProofs

-----------------------------------------------------------------------------
(* The alarm list *)

\* mpas_calibrate_alarms leaves every entry of the alarm list an alarm.
LEMMA CalibratedType ==
    ASSUME NEW a \in Alarm, NEW at \in Int, NEW dir,
           a.isRecurring => a.ringTimeInterval \in Nat \ {0}
    PROVE  /\ Calibrated(a, at, dir) \in Alarm
           /\ Calibrated(a, at, dir).isRecurring = a.isRecurring
           /\ Calibrated(a, at, dir).ringTimeInterval = a.ringTimeInterval
           /\ Calibrated(a, at, dir).ringTime = a.ringTime
           /\ Calibrated(a, at, dir).isSet = (a.isSet \/ ~a.isRecurring)
<1>1. CASE a.isRecurring
  <2>1. /\ NegativeNeighbor(a.prevRingTime, a.ringTimeInterval, at) \in Int
        /\ PositiveNeighbor(a.prevRingTime, a.ringTimeInterval, at) \in Int
    BY <1>1, Neighbors DEF Alarm
  <2> QED
    BY <1>1, <2>1 DEF Calibrated, Alarm
<1>2. CASE ~a.isRecurring
  BY <1>2 DEF Calibrated, Alarm
<1> QED
  BY <1>1, <1>2

-----------------------------------------------------------------------------
(* Types *)

\* A new clock has the types TypeOK names.
LEMMA InitType == Init => TypeOK
  BY StepsAssumption, BoundsAssumption
  DEF Init, TypeOK, Times, Forward, MPAS_FORWARD, MPAS_BACKWARD, Alarm

\* What TypeOK says of the alarm list, the form the steps below need.
LEMMA AlarmType ==
    ASSUME TypeOK, NEW id \in DOMAIN alarms
    PROVE  /\ id \in AlarmIds
           /\ alarms[id] \in Alarm
           /\ alarms[id].isRecurring =>
                 alarms[id].isSet /\ alarms[id].ringTimeInterval \in Nat \ {0}
           /\ origin[id] \in Int
           /\ heard[id] \in Int
           /\ now \in Int
  BY IntervalsAssumption, BoundsAssumption DEF TypeOK, Times

\* Calibrating all alarms keeps their types.
LEMMA CalibrateType ==
    ASSUME TypeOK, NEW at \in Times, NEW dir, CalibrateAlarms(at, dir)
    PROVE  /\ DOMAIN alarms' = DOMAIN alarms
           /\ alarms' \in [DOMAIN alarms -> Alarm]
           /\ \A id \in DOMAIN alarms :
                 alarms[id].isRecurring =>
                    /\ alarms'[id].isSet
                    /\ alarms'[id].ringTimeInterval = alarms[id].ringTimeInterval
           /\ \A id \in DOMAIN alarms :
                 alarms'[id].isRecurring = alarms[id].isRecurring
           /\ nAlarms' = nAlarms
           /\ origin' \in [AlarmIds -> Int]
           /\ heard' \in [AlarmIds -> Int]
           /\ displaced' \subseteq AlarmIds
<1>1. at \in Int
  BY BoundsAssumption DEF Times
<1>2. ASSUME NEW id \in DOMAIN alarms
      PROVE  /\ alarms'[id] = Calibrated(alarms[id], at, dir)
             /\ Calibrated(alarms[id], at, dir) \in Alarm
             /\ Calibrated(alarms[id], at, dir).isRecurring = alarms[id].isRecurring
             /\ Calibrated(alarms[id], at, dir).ringTimeInterval = alarms[id].ringTimeInterval
             /\ alarms[id].isRecurring => Calibrated(alarms[id], at, dir).isSet
             /\ CalibratedHeard(id, at, dir) \in Int
  <2>1. alarms'[id] = Calibrated(alarms[id], at, dir)
    BY DEF CalibrateAlarms
  <2>2. CalibratedHeard(id, at, dir) \in Int
    BY <1>1, AlarmType DEF CalibratedHeard, Alarm
  <2>3. /\ alarms[id] \in Alarm
        /\ alarms[id].isRecurring =>
              alarms[id].isSet /\ alarms[id].ringTimeInterval \in Nat \ {0}
    BY AlarmType
  <2> DEFINE c == Calibrated(alarms[id], at, dir)
  <2>4. /\ c \in Alarm
        /\ c.isRecurring = alarms[id].isRecurring
        /\ c.ringTimeInterval = alarms[id].ringTimeInterval
        /\ c.isSet = (alarms[id].isSet \/ ~alarms[id].isRecurring)
    BY <1>1, <2>3, CalibratedType
  <2>5. alarms[id].isRecurring => c.isSet
    BY <2>3, <2>4, Zenon
  <2> QED
    BY <2>1, <2>2, <2>4, <2>5
<1>3. DOMAIN alarms' = DOMAIN alarms /\ alarms' \in [DOMAIN alarms -> Alarm]
  BY <1>2 DEF CalibrateAlarms
<1>4. heard' \in [AlarmIds -> Int]
  BY <1>2 DEF CalibrateAlarms, TypeOK
<1>5. nAlarms' = nAlarms /\ origin' \in [AlarmIds -> Int] /\ displaced' \subseteq AlarmIds
  BY DEF CalibrateAlarms, TypeOK
<1> QED
  BY <1>2, <1>3, <1>4, <1>5

\* Every operation of the clock keeps the types.
LEMMA NextType == TypeOK /\ [Next]_vars => TypeOK'
<1> SUFFICES ASSUME TypeOK, [Next]_vars PROVE TypeOK'
  OBVIOUS
<1> USE BoundsAssumption, IntervalsAssumption, StepsAssumption, LookaheadsAssumption
<1>1. CASE SetClockDirection
  <2>1. now \in Times
    BY DEF TypeOK
  <2>2. CalibrateAlarms(now, -direction)
    BY <1>1 DEF SetClockDirection
  <2>3. /\ now' \in Times /\ direction' \in {MPAS_FORWARD, MPAS_BACKWARD}
        /\ timeStep' \in Int
    BY <1>1 DEF SetClockDirection, TypeOK, MPAS_FORWARD, MPAS_BACKWARD
  <2> QED
    BY <2>1, <2>2, <2>3, CalibrateType DEF TypeOK
<1>2. ASSUME NEW time \in Times, SetClockTime(time)
      PROVE  TypeOK'
  <2>1. CalibrateAlarms(time, direction)
    BY <1>2 DEF SetClockTime
  <2>2. /\ now' \in Times /\ direction' \in {MPAS_FORWARD, MPAS_BACKWARD}
        /\ timeStep' \in Int
    BY <1>2 DEF SetClockTime, TypeOK
  <2> QED
    BY <2>1, <2>2, CalibrateType DEF TypeOK
<1>3. ASSUME NEW s \in Steps, SetClockTimestep(s)
      PROVE  TypeOK'
  BY <1>3 DEF SetClockTimestep, TypeOK
<1>4. ASSUME NEW s \in Steps, AdvanceClockBy(s)
      PROVE  TypeOK'
  BY <1>4 DEF AdvanceClockBy, TypeOK
<1>5. CASE AdvanceClock
  BY <1>5 DEF AdvanceClock, TypeOK
<1>6. ASSUME NEW id \in AlarmIds, NEW a \in Alarm, NEW time \in Times, Inserted(id, a, time),
             a.isRecurring => a.isSet /\ a.ringTimeInterval \in Intervals
      PROVE  TypeOK'
  <2>1. /\ DOMAIN alarms' \subseteq AlarmIds
        /\ alarms' \in [DOMAIN alarms' -> Alarm]
        /\ \A x \in DOMAIN alarms' :
              alarms'[x].isRecurring => /\ alarms'[x].isSet
                                        /\ alarms'[x].ringTimeInterval \in Intervals
    BY <1>6 DEF Inserted, TypeOK
  <2>2. Ahead(time, -1) \in Int /\ time \in Int
    BY DEF Ahead, Times
  <2>3. nAlarms' \in 0 .. MaxAdds
    BY <1>6 DEF Inserted, TypeOK
  <2>4. /\ origin' \in [AlarmIds -> Int] /\ heard' \in [AlarmIds -> Int]
        /\ displaced' \subseteq AlarmIds
    BY <1>6, <2>2 DEF Inserted, TypeOK
  <2> QED
    BY <1>6, <2>1, <2>3, <2>4 DEF Inserted, TypeOK, clockVars
<1>7. ASSUME NEW id \in AlarmIds, NEW time \in Times, NEW every \in Intervals,
             AddRecurringAlarm(id, time, every)
      PROVE  TypeOK'
  <2>1. Ahead(time, -every) \in Int /\ time \in Int /\ every \in Nat
    BY DEF Ahead, Times
  <2>2. /\ NewRecurring(time, every) \in Alarm
        /\ NewRecurring(time, every).isSet /\ NewRecurring(time, every).ringTimeInterval \in Intervals
    BY <2>1 DEF NewRecurring, Alarm
  <2> QED
    BY <1>6, <1>7, <2>2 DEF AddRecurringAlarm
<1>8. ASSUME NEW id \in AlarmIds, NEW time \in Times, AddOneShotAlarm(id, time)
      PROVE  TypeOK'
  <2>1. NewOneShot(time) \in Alarm /\ ~NewOneShot(time).isRecurring
    BY DEF NewOneShot, Alarm, Times
  <2> QED
    BY <1>6, <1>8, <2>1 DEF AddOneShotAlarm
<1>9. ASSUME NEW id \in AlarmIds, RemoveClockAlarm(id)
      PROVE  TypeOK'
  BY <1>9 DEF RemoveClockAlarm, TypeOK, clockVars
<1>10. ASSUME NEW id \in AlarmIds, NEW ahead \in Lookaheads, ResetClockAlarm(id, ahead)
       PROVE  TypeOK'
  <2>1. id \in DOMAIN alarms
    BY <1>10 DEF ResetClockAlarm
  <2>2. Ahead(now, ahead) \in Int
    BY AlarmType, <2>1 DEF Ahead
  <2>3. alarms[id].isRecurring => ResetRingTime(alarms[id], Ahead(now, ahead)) \in Int
    BY AlarmType, RemainderType, <2>1, <2>2 DEF ResetRingTime, Alarm
  <2>4. /\ DOMAIN alarms' = DOMAIN alarms
        /\ alarms' \in [DOMAIN alarms -> Alarm]
        /\ \A x \in DOMAIN alarms :
              alarms'[x].isRecurring => /\ alarms'[x].isSet
                                        /\ alarms'[x].ringTimeInterval \in Intervals
    <3>1. CASE alarms' = alarms
      BY <3>1 DEF TypeOK
    <3>2. CASE /\ alarms[id].isRecurring
               /\ alarms' = [alarms EXCEPT ![id].prevRingTime =
                               ResetRingTime(alarms[id], Ahead(now, ahead))]
      BY <3>2, <2>1, <2>3 DEF TypeOK, Alarm
    <3>3. CASE /\ ~alarms[id].isRecurring
               /\ alarms' = [alarms EXCEPT ![id].isSet = FALSE]
      BY <3>3, <2>1 DEF TypeOK, Alarm
    <3> QED
      BY <1>10, <3>1, <3>2, <3>3 DEF ResetClockAlarm
  <2>5. heard' \in [AlarmIds -> Int] /\ displaced' \subseteq AlarmIds
    BY <1>10, <2>2 DEF ResetClockAlarm, TypeOK
  <2> QED
    BY <1>10, <2>4, <2>5 DEF ResetClockAlarm, TypeOK, clockVars
<1>11. ASSUME NEW id \in AlarmIds, NEW ref \in Times, AdjustAlarmToReferenceTime(id, ref)
       PROVE  TypeOK'
  <2>1. /\ id \in DOMAIN alarms /\ alarms[id].isRecurring
        /\ alarms[id].ringTimeInterval \in Nat \ {0}
        /\ now \in Int /\ ref \in Int
    BY <1>11, AlarmType DEF AdjustAlarmToReferenceTime, Times
  <2>2. AdjustedRingTime(alarms[id], ref) \in Int
    BY <2>1, RemainderType DEF AdjustedRingTime
  <2>3. /\ DOMAIN alarms' = DOMAIN alarms
        /\ alarms' \in [DOMAIN alarms -> Alarm]
        /\ \A x \in DOMAIN alarms :
              alarms'[x].isRecurring => /\ alarms'[x].isSet
                                        /\ alarms'[x].ringTimeInterval \in Intervals
    BY <1>11, <2>1, <2>2 DEF AdjustAlarmToReferenceTime, TypeOK, Alarm
  <2>4. /\ origin' \in [AlarmIds -> Int] /\ heard' \in [AlarmIds -> Int]
        /\ displaced' \subseteq AlarmIds
    BY <1>11, <2>1 DEF AdjustAlarmToReferenceTime, TypeOK, Ahead
  <2> QED
    BY <1>11, <2>3, <2>4 DEF AdjustAlarmToReferenceTime, TypeOK, clockVars
<1>12. CASE UNCHANGED vars
  BY <1>12 DEF vars, TypeOK
<1> QED
  BY <1>1, <1>2, <1>3, <1>4, <1>5, <1>7, <1>8, <1>9, <1>10, <1>11, <1>12 DEF Next

\* Every record of the alarm list keeps its shape, and a recurring alarm its
\* usable interval, whatever time steps the clock is given.
THEOREM TypeCorrect == Spec => []TypeOK
  BY InitType, NextType, PTL DEF Spec

-----------------------------------------------------------------------------
(* The series of ring times *)

IInv == TypeOK /\ SeriesNeverShifts

\* An alarm that a step leaves alone keeps its series.
LEMMA SeriesFramed ==
    ASSUME IInv, direction' = direction, NEW x \in DOMAIN alarms,
           alarms'[x] = alarms[x], origin'[x] = origin[x], heard'[x] = heard[x],
           x \in displaced => x \in displaced'
    PROVE  SeriesOf(x)'
<1>1. SeriesOf(x)
  BY DEF IInv, SeriesNeverShifts
<1> QED
  BY <1>1 DEF SeriesOf, PrevIsLastHeard, SetUntilHeard, Forward

\* Calibrating at a new time or in a new direction keeps every alarm in its series.
LEMMA CalibrateSeries ==
    ASSUME IInv, NEW at \in Times, NEW dir \in {MPAS_FORWARD, MPAS_BACKWARD},
           CalibrateAlarms(at, dir), direction' = dir
    PROVE  SeriesNeverShifts'
<1> SUFFICES ASSUME NEW id \in DOMAIN alarms'
             PROVE  SeriesOf(id)'
  BY DEF SeriesNeverShifts
<1> USE BoundsAssumption
<1>1. /\ id \in DOMAIN alarms /\ id \in AlarmIds
      /\ alarms[id] \in Alarm /\ origin[id] \in Int
      /\ alarms[id].isRecurring => alarms[id].ringTimeInterval \in Nat \ {0}
      /\ SeriesOf(id)
      /\ at \in Int /\ 0 <= at /\ at <= MaxTime
  BY AlarmType DEF CalibrateAlarms, IInv, SeriesNeverShifts, Times
<1>2. /\ alarms'[id] = Calibrated(alarms[id], at, dir)
      /\ origin'[id] = origin[id]
      /\ heard'[id] = CalibratedHeard(id, at, dir)
      /\ Forward' <=> dir = MPAS_FORWARD
  BY <1>1 DEF CalibrateAlarms, Forward
<1>3. CASE alarms[id].isRecurring
  <2> DEFINE previous == alarms[id].prevRingTime
             every == alarms[id].ringTimeInterval
             p == IF dir = MPAS_FORWARD THEN NegativeNeighbor(previous, every, at)
                                        ELSE PositiveNeighbor(previous, every, at)
  <2>1. previous \in Int /\ every \in Nat \ {0} /\ (previous - origin[id]) % every = 0
    BY <1>1, <1>3 DEF Alarm, SeriesOf, PrevIsLastHeard
  <2>2. /\ alarms'[id].isRecurring
        /\ alarms'[id].ringTimeInterval = every
        /\ alarms'[id].prevRingTime = p
    BY <1>1, <1>2, <1>3 DEF Calibrated, Alarm
  <2>3. heard'[id] = IF dir = MPAS_FORWARD THEN at - 1 ELSE at + 1
    BY <1>2, <1>3 DEF CalibratedHeard
  <2> HIDE DEF previous, every
  <2>4. /\ p \in Int /\ (p - previous) % every = 0
        /\ IF dir = MPAS_FORWARD THEN p < at /\ at <= p + every
                                 ELSE at < p /\ p - every <= at
    BY <1>1, <2>1, Neighbors
  <2>5. (p - origin[id]) % every = 0
    BY <1>1, <2>1, <2>4, SameSeries
  <2> HIDE DEF p
  <2>6. PrevIsLastHeard(id)'
    BY <1>1, <1>2, <2>1, <2>2, <2>3, <2>4, <2>5 DEF PrevIsLastHeard
  <2> QED
    BY <1>1, <1>2, <2>2, <2>3, <2>6 DEF SeriesOf
<1>4. CASE ~alarms[id].isRecurring
  <2>1. alarms[id].ringTime \in Times
    BY <1>1, <1>4 DEF SeriesOf, SetUntilHeard
  <2>2. /\ ~alarms'[id].isRecurring /\ alarms'[id].isSet
        /\ alarms'[id].ringTime = alarms[id].ringTime
    BY <1>1, <1>2, <1>4 DEF Calibrated, Alarm
  <2>3. heard'[id] = IF dir = MPAS_FORWARD THEN alarms[id].ringTime - 1
                                           ELSE alarms[id].ringTime + 1
    BY <1>2, <1>4 DEF CalibratedHeard
  <2> QED
    BY <1>2, <2>1, <2>2, <2>3 DEF SeriesOf, SetUntilHeard, Times
<1> QED
  BY <1>3, <1>4

\* A new clock has no alarms, so nothing has shifted.
LEMMA InitSeries == Init => SeriesNeverShifts
  BY DEF Init, SeriesNeverShifts

\* A new alarm has heard everything before its first ring time.
LEMMA InsertedSeries ==
    ASSUME IInv, NEW id \in AlarmIds, NEW time \in Times, NEW a, Inserted(id, a, time),
           \/ a = NewOneShot(time)
           \/ \E every \in Intervals : a = NewRecurring(time, every)
    PROVE  SeriesNeverShifts'
<1> USE BoundsAssumption, IntervalsAssumption
<1>1. direction' = direction /\ (Forward' <=> Forward)
  BY DEF Inserted, clockVars, Forward
<1>2. ASSUME NEW x \in DOMAIN alarms
      PROVE  SeriesOf(x)'
  <2>1. x # id /\ x \in AlarmIds
    BY AlarmType DEF Inserted, IInv
  <2>2. /\ alarms'[x] = alarms[x] /\ origin'[x] = origin[x] /\ heard'[x] = heard[x]
        /\ x \in displaced => x \in displaced'
    BY <2>1 DEF Inserted, IInv, TypeOK
  <2> QED
    BY <1>1, <2>2, SeriesFramed
<1>3. /\ alarms'[id] = a /\ origin'[id] = time
      /\ heard'[id] = IF Forward THEN time - 1 ELSE time + 1
      /\ time \in Int /\ 0 <= time /\ time <= MaxTime
  BY DEF Inserted, IInv, TypeOK, Ahead, Times
<1>4. (IF Forward THEN heard[id] >= -1 ELSE heard[id] <= MaxTime + 1)'
  BY <1>1, <1>3
<1>5. ASSUME a = NewOneShot(time)
      PROVE  SeriesOf(id)'
  <2>1. ~alarms'[id].isRecurring /\ alarms'[id].isSet /\ alarms'[id].ringTime = time
    BY <1>3, <1>5 DEF NewOneShot
  <2>2. SetUntilHeard(id)'
    BY <1>1, <1>3, <2>1 DEF SetUntilHeard, Times
  <2> QED
    BY <1>4, <2>1, <2>2 DEF SeriesOf
<1>6. ASSUME NEW every \in Intervals, a = NewRecurring(time, every)
      PROVE  SeriesOf(id)'
  <2> DEFINE p == IF Forward THEN time - every ELSE time + every
  <2>1. every \in Nat \ {0} /\ every \in Int /\ Ahead(time, -every) = p
    BY <1>3 DEF Ahead
  <2> HIDE DEF p
  <2>2. /\ alarms'[id].isRecurring
        /\ alarms'[id].ringTimeInterval = every
        /\ alarms'[id].prevRingTime = p
    BY <1>3, <1>6, <2>1 DEF NewRecurring
  <2>3. (0 + every) % every = 0 /\ (0 - every) % every = 0
    BY <2>1, MultipleSelf, MultipleSum
  <2>4. p \in Int /\ (p - time) % every = 0
    <3>1. p \in Int /\ p - time = IF Forward THEN 0 - every ELSE 0 + every
      BY <1>3, <2>1 DEF p
    <3> QED
      BY <2>3, <3>1
  <2>5. PrevIsLastHeard(id)'
    BY <1>1, <1>3, <2>1, <2>2, <2>4 DEF PrevIsLastHeard, p
  <2> QED
    BY <1>4, <2>2, <2>5 DEF SeriesOf
<1>7. SeriesOf(id)'
  BY <1>5, <1>6
<1> QED
  BY <1>2, <1>7 DEF SeriesNeverShifts, Inserted

\* Only the alarm that is reset changes, and it does so within its series.
LEMMA ResetSeries ==
    ASSUME IInv, NEW id \in AlarmIds, NEW ahead \in Lookaheads, ResetClockAlarm(id, ahead)
    PROVE  SeriesNeverShifts'
<1> USE BoundsAssumption, LookaheadsAssumption
<1> DEFINE at == Ahead(now, ahead)
           a == alarms[id]
           previous == a.prevRingTime
           I == a.ringTimeInterval
<1>1. /\ id \in DOMAIN alarms /\ a \in Alarm
      /\ origin[id] \in Int /\ heard[id] \in Int
      /\ now \in Int /\ 0 <= now /\ now <= MaxTime
      /\ SeriesOf(id)
      /\ a.isRecurring => I \in Nat \ {0}
  BY AlarmType DEF ResetClockAlarm, IInv, SeriesNeverShifts, TypeOK, Times
<1>2. /\ direction' = direction /\ (Forward' <=> Forward) /\ origin' = origin
      /\ DOMAIN alarms' = DOMAIN alarms
  BY DEF ResetClockAlarm, clockVars, Forward
<1>3. ASSUME NEW x \in DOMAIN alarms, x # id
      PROVE  SeriesOf(x)'
  <2>1. x \in AlarmIds
    BY DEF IInv, TypeOK
  <2>2. /\ alarms'[x] = alarms[x] /\ heard'[x] = heard[x]
        /\ x \in displaced => x \in displaced'
    BY <1>3, <2>1 DEF ResetClockAlarm, IInv, TypeOK
  <2> QED
    BY <1>2, <2>2, SeriesFramed
<1>4. at \in Int /\ IF Forward THEN 0 <= at ELSE at <= MaxTime
  BY <1>1 DEF Ahead
<1>5. /\ heard'[id] = IF Reached(heard[id], at) \/ InRingingEnvelope(a, ahead)
                       THEN at ELSE heard[id]
      /\ displaced' = IF InRingingEnvelope(a, ahead) THEN displaced \ {id} ELSE displaced
  BY DEF ResetClockAlarm, IInv, TypeOK
<1> HIDE DEF at
<1>6. (IF Forward THEN heard[id] >= -1 ELSE heard[id] <= MaxTime + 1)'
  BY <1>1, <1>2, <1>4, <1>5 DEF Reached, SeriesOf
<1>7. ASSUME a.isRecurring
      PROVE  SeriesOf(id)'
  <2>1. /\ previous \in Int /\ (previous - origin[id]) % I = 0
        /\ id \notin displaced =>
              IF Forward THEN previous <= heard[id] /\ heard[id] < previous + I
                         ELSE previous - I < heard[id] /\ heard[id] <= previous
    BY <1>1, <1>7 DEF SeriesOf, PrevIsLastHeard, Alarm
  <2>2. InRingingEnvelope(a, ahead) <=> IF Forward THEN previous + I <= at ELSE previous - I >= at
    BY <1>7 DEF InRingingEnvelope, NextRingTime, Reached, Ahead, at
  <2>3. CASE ~InRingingEnvelope(a, ahead)
    <3>1. alarms'[id] = a
      BY <2>3 DEF ResetClockAlarm
    <3>2. PrevIsLastHeard(id)'
      BY <1>1, <1>2, <1>4, <1>5, <1>7, <2>1, <2>2, <2>3, <3>1 DEF PrevIsLastHeard, Reached
    <3> QED
      BY <1>2, <1>6, <1>7, <3>1, <3>2 DEF SeriesOf
  <2>4. CASE InRingingEnvelope(a, ahead)
    <3> DEFINE p == ResetRingTime(a, at)
    <3>1. /\ alarms'[id].isRecurring /\ alarms'[id].ringTimeInterval = I
          /\ alarms'[id].prevRingTime = p
      BY <1>1, <1>7, <2>4 DEF ResetClockAlarm, IInv, TypeOK, Alarm, at
    <3>2. /\ p \in Int /\ (p - previous) % I = 0
          /\ IF Forward THEN p <= at /\ at < p + I ELSE p - I < at /\ at <= p
      BY <1>1, <1>4, <1>7, <2>1, <2>2, <2>4, ResetMovesWithinSeries DEF ResetRingTime
    <3>3. (p - origin[id]) % I = 0
      BY <1>1, <1>7, <2>1, <3>2, SameSeries
    <3>4. heard'[id] = at
      BY <1>5, <2>4
    <3> HIDE DEF p
    <3>5. PrevIsLastHeard(id)'
      BY <1>2, <3>1, <3>2, <3>3, <3>4 DEF PrevIsLastHeard
    <3> QED
      BY <1>2, <1>6, <3>1, <3>5 DEF SeriesOf
  <2> QED
    BY <2>3, <2>4
<1>8. ASSUME ~a.isRecurring
      PROVE  SeriesOf(id)'
  <2>1. /\ a.ringTime \in Times /\ a.ringTime \in Int
        /\ a.isSet <=> IF Forward THEN heard[id] < a.ringTime ELSE a.ringTime < heard[id]
    BY <1>1, <1>8 DEF SeriesOf, SetUntilHeard, Times
  <2>2. InRingingEnvelope(a, ahead) <=> IF Forward THEN a.ringTime <= at ELSE a.ringTime >= at
    BY <1>8 DEF InRingingEnvelope, Reached, at
  <2>3. /\ ~alarms'[id].isRecurring /\ alarms'[id].ringTime = a.ringTime
        /\ alarms'[id].isSet <=> (a.isSet /\ ~InRingingEnvelope(a, ahead))
    BY <1>1, <1>8 DEF ResetClockAlarm, IInv, TypeOK, Alarm
  <2>4. SetUntilHeard(id)'
    BY <1>1, <1>2, <1>4, <1>5, <2>1, <2>2, <2>3 DEF SetUntilHeard, Reached
  <2> QED
    BY <1>2, <1>6, <2>3, <2>4 DEF SeriesOf
<1> QED
  BY <1>2, <1>3, <1>7, <1>8 DEF SeriesNeverShifts

\* mpas_adjust_alarm_to_reference_time starts a series from the reference time.
LEMMA AdjustSeries ==
    ASSUME IInv, NEW id \in AlarmIds, NEW ref \in Times, AdjustAlarmToReferenceTime(id, ref)
    PROVE  SeriesNeverShifts'
<1> USE BoundsAssumption
<1> DEFINE a == alarms[id]
           every == a.ringTimeInterval
           p == AdjustedRingTime(a, ref)
<1>1. /\ id \in DOMAIN alarms /\ a \in Alarm /\ a.isRecurring
      /\ every \in Nat \ {0}
      /\ now \in Int /\ 0 <= now /\ now <= MaxTime
      /\ ref \in Int /\ 0 <= ref /\ ref <= MaxTime
  BY AlarmType DEF AdjustAlarmToReferenceTime, IInv, TypeOK, Times
<1>2. direction' = direction /\ (Forward' <=> Forward) /\ DOMAIN alarms' = DOMAIN alarms
  BY DEF AdjustAlarmToReferenceTime, clockVars, Forward
<1>3. ASSUME NEW x \in DOMAIN alarms, x # id
      PROVE  SeriesOf(x)'
  <2>1. x \in AlarmIds
    BY DEF IInv, TypeOK
  <2>2. /\ alarms'[x] = alarms[x] /\ heard'[x] = heard[x] /\ origin'[x] = origin[x]
        /\ x \in displaced => x \in displaced'
    BY <1>3, <2>1 DEF AdjustAlarmToReferenceTime, IInv, TypeOK
  <2> QED
    BY <1>2, <2>2, SeriesFramed
<1>4. /\ alarms'[id].isRecurring /\ alarms'[id].ringTimeInterval = every
      /\ alarms'[id].prevRingTime = p
  BY <1>1 DEF AdjustAlarmToReferenceTime, IInv, TypeOK, Alarm
<1>5. /\ origin'[id] = ref
      /\ heard'[id] = IF Forward THEN IF now > ref THEN now ELSE now - 1
                                 ELSE IF now < ref THEN now ELSE now + 1
      /\ ~Forward => id \in displaced'
  BY <1>1 DEF AdjustAlarmToReferenceTime, IInv, TypeOK, Reached, Ahead
<1>6. p = IF IF Forward THEN now > ref ELSE now < ref
          THEN now - IntervalRemainder(now - ref, every)
          ELSE now - (every - IntervalRemainder(ref - now, every))
  BY DEF AdjustedRingTime
<1>7. ((ref - every) - ref) % every = 0 /\ (ref - ref) % every = 0
  <2>1. (0 - every) % every = 0 /\ 0 % every = 0
    BY <1>1, MultipleSelf
  <2>2. (ref - every) - ref = 0 - every /\ ref - ref = 0
    BY <1>1
  <2> QED
    BY <2>1, <2>2
<1> HIDE DEF every, p
<1>8. /\ p \in Int /\ (p - ref) % every = 0
      /\ Forward => p <= heard'[id] /\ heard'[id] < p + every
  <2>1. CASE Forward
    <3>1. CASE now > ref
      <4>1. p = now - IntervalRemainder(now - ref, every) /\ heard'[id] = now
        BY <1>5, <1>6, <2>1, <3>1
      <4>2. p \in Int /\ p <= now /\ now < p + every /\ (p - ref) % every = 0
        BY <1>1, <3>1, <4>1, AdjustedWithinSeries
      <4> QED
        BY <2>1, <4>1, <4>2
    <3>2. CASE now <= ref
      <4>1. /\ p = now - (every - IntervalRemainder(ref - now, every))
            /\ heard'[id] = now - 1
        BY <1>1, <1>5, <1>6, <2>1, <3>2
      <4>2. p \in Int /\ p < now /\ now <= p + every /\ (p - ref) % every = 0
        BY <1>1, <3>2, <4>1, AdjustedWithinSeries
      <4> QED
        BY <1>1, <2>1, <4>1, <4>2
    <3> QED
      BY <1>1, <3>1, <3>2
  <2>2. CASE ~Forward
    <3>1. p = IF now < ref THEN ref ELSE ref - every
      BY <1>1, <1>6, <2>2, AdjustedWithinSeries
    <3> QED
      BY <1>1, <1>7, <2>2, <3>1
  <2> QED
    BY <2>1, <2>2
<1>9. PrevIsLastHeard(id)'
  <2>1. id \notin displaced' => Forward
    BY <1>5
  <2> QED
    BY <1>1, <1>2, <1>4, <1>5, <1>8, <2>1 DEF PrevIsLastHeard
<1>10. (IF Forward THEN heard[id] >= -1 ELSE heard[id] <= MaxTime + 1)'
  BY <1>1, <1>2, <1>5
<1>11. SeriesOf(id)'
  BY <1>4, <1>9, <1>10 DEF SeriesOf
<1> QED
  BY <1>2, <1>3, <1>11 DEF SeriesNeverShifts

\* Every operation of the clock keeps every alarm in its series.
LEMMA NextSeries == IInv /\ [Next]_vars => SeriesNeverShifts'
<1> SUFFICES ASSUME IInv, [Next]_vars PROVE SeriesNeverShifts'
  OBVIOUS
<1>1. CASE SetClockDirection
  <2>1. now \in Times /\ -direction \in {MPAS_FORWARD, MPAS_BACKWARD}
    BY DEF IInv, TypeOK, MPAS_FORWARD, MPAS_BACKWARD
  <2> QED
    BY <1>1, <2>1, CalibrateSeries DEF SetClockDirection
<1>2. ASSUME NEW time \in Times, SetClockTime(time)
      PROVE  SeriesNeverShifts'
  <2>1. direction \in {MPAS_FORWARD, MPAS_BACKWARD}
    BY DEF IInv, TypeOK
  <2> QED
    BY <1>2, <2>1, CalibrateSeries DEF SetClockTime
<1>3. ASSUME UNCHANGED <<direction, alarms, origin, heard, displaced>>
      PROVE  SeriesNeverShifts'
  BY <1>3, SeriesFramed DEF SeriesNeverShifts
<1>4. ASSUME NEW id \in AlarmIds, RemoveClockAlarm(id)
      PROVE  SeriesNeverShifts'
  <2>1. ASSUME NEW x \in DOMAIN alarms \ {id}
        PROVE  SeriesOf(x)'
    <3>1. x # id /\ x \in AlarmIds
      BY DEF IInv, TypeOK
    <3>2. /\ alarms'[x] = alarms[x] /\ heard'[x] = heard[x] /\ origin'[x] = origin[x]
          /\ direction' = direction /\ (x \in displaced => x \in displaced')
      BY <1>4, <3>1 DEF RemoveClockAlarm, IInv, TypeOK, clockVars
    <3> QED
      BY <3>2, SeriesFramed
  <2> QED
    BY <1>4, <2>1 DEF RemoveClockAlarm, SeriesNeverShifts
<1>5. ASSUME NEW s \in Steps, SetClockTimestep(s) \/ AdvanceClockBy(s)
      PROVE  SeriesNeverShifts'
  BY <1>3, <1>5 DEF SetClockTimestep, AdvanceClockBy
<1>6. CASE AdvanceClock \/ UNCHANGED vars
  BY <1>3, <1>6 DEF AdvanceClock, vars
<1>7. ASSUME NEW id \in AlarmIds, NEW time \in Times,
             AddOneShotAlarm(id, time) \/ \E every \in Intervals : AddRecurringAlarm(id, time, every)
      PROVE  SeriesNeverShifts'
  BY <1>7, InsertedSeries DEF AddOneShotAlarm, AddRecurringAlarm
<1> QED
  BY <1>1, <1>2, <1>4, <1>5, <1>6, <1>7, ResetSeries, AdjustSeries DEF Next

\* No sequence of calls shifts the series of ring times of any alarm, and for an
\* alarm that is not displaced the alarm list records exactly which of them are
\* still to come.
THEOREM SeriesKept == Spec => []SeriesNeverShifts
<1>1. Init => IInv
  BY InitType, InitSeries DEF IInv
<1>2. IInv /\ [Next]_vars => IInv'
  BY NextType, NextSeries DEF IInv
<1>3. IInv => SeriesNeverShifts
  BY DEF IInv
<1> QED
  BY <1>1, <1>2, <1>3, PTL DEF Spec

-----------------------------------------------------------------------------
(* What the series mean for the callers *)

\* What the alarm list says of the series decides which alarms ring.
LEMMA RingsFromSeries == IInv => RingsExactlyWhenDue
<1> SUFFICES ASSUME IInv, NEW id \in DOMAIN alarms \ displaced
             PROVE  IsAlarmRinging(id, 0) <=> \E p \in DuePoints : Due(id, p)
  BY DEF RingsExactlyWhenDue
<1> USE BoundsAssumption
<1> DEFINE a == alarms[id]
           previous == a.prevRingTime
           every == a.ringTimeInterval
<1>1. /\ a \in Alarm /\ origin[id] \in Int /\ heard[id] \in Int
      /\ a.isRecurring => a.isSet /\ every \in Nat \ {0}
      /\ now \in Int /\ 0 <= now /\ now <= MaxTime
      /\ SeriesOf(id)
  BY AlarmType DEF IInv, SeriesNeverShifts, TypeOK, Times
<1>2. IF Forward THEN heard[id] >= -1 ELSE heard[id] <= MaxTime + 1
  BY <1>1 DEF SeriesOf
<1>3. CASE a.isRecurring
  <2> DEFINE next == IF Forward THEN previous + every ELSE previous - every
  <2>1. /\ previous \in Int /\ every \in Nat \ {0} /\ (previous - origin[id]) % every = 0
        /\ IF Forward THEN previous <= heard[id] /\ heard[id] < previous + every
                      ELSE previous - every < heard[id] /\ heard[id] <= previous
    BY <1>1, <1>3 DEF SeriesOf, PrevIsLastHeard, Alarm
  <2>2. IsAlarmRinging(id, 0) <=> IF Forward THEN previous + every <= now ELSE previous - every >= now
    BY <1>1, <1>3, <2>1
    DEF IsAlarmRinging, InRingingEnvelope, NextRingTime, Reached, Ahead
  <2>3. \A p : Due(id, p) <=>
                  /\ (p - origin[id]) % every = 0
                  /\ IF Forward THEN heard[id] < p /\ p <= now
                                ELSE now <= p /\ p < heard[id]
    BY <1>3 DEF Due, IsRingTime
  <2>4. /\ ((previous + every) - origin[id]) % every = 0
        /\ ((previous - every) - origin[id]) % every = 0
    BY <1>1, <2>1, StepOfSeries
  <2> HIDE DEF previous, every
  <2>5. ASSUME IsAlarmRinging(id, 0)
        PROVE  \E p \in DuePoints : Due(id, p)
    <3>1. next \in DuePoints
      BY <1>1, <1>2, <2>1, <2>2, <2>5 DEF DuePoints
    <3>2. Due(id, next)
      BY <1>1, <2>1, <2>2, <2>3, <2>4, <2>5
    <3> QED
      BY <3>1, <3>2
  <2>6. ASSUME NEW p \in DuePoints, Due(id, p)
        PROVE  IsAlarmRinging(id, 0)
    <3>1. p \in Int /\ (p - origin[id]) % every = 0
      BY <2>3, <2>6 DEF DuePoints
    <3>2. CASE Forward
      <4>1. previous < p /\ p <= now
        BY <1>1, <2>1, <2>3, <2>6, <3>1, <3>2
      <4>2. previous + every <= p
        BY <1>1, <2>1, <3>1, <4>1, NextOfSeries
      <4> QED
        BY <1>1, <2>1, <2>2, <3>1, <3>2, <4>1, <4>2
    <3>3. CASE ~Forward
      <4>1. p < previous /\ now <= p
        BY <1>1, <2>1, <2>3, <2>6, <3>1, <3>3
      <4>2. p + every <= previous
        BY <1>1, <2>1, <3>1, <4>1, NextOfSeries
      <4> QED
        BY <1>1, <2>1, <2>2, <3>1, <3>3, <4>1, <4>2
    <3> QED
      BY <3>2, <3>3
  <2> QED
    BY <2>5, <2>6
<1>4. CASE ~a.isRecurring
  <2>1. /\ a.ringTime \in Times /\ a.ringTime \in Int
        /\ a.isSet <=> IF Forward THEN heard[id] < a.ringTime ELSE a.ringTime < heard[id]
    BY <1>1, <1>4 DEF SeriesOf, SetUntilHeard, Times
  <2>2. IsAlarmRinging(id, 0) <=>
           /\ a.isSet
           /\ IF Forward THEN a.ringTime <= now ELSE a.ringTime >= now
    BY <1>1, <1>4 DEF IsAlarmRinging, InRingingEnvelope, Reached, Ahead
  <2>3. \A p : Due(id, p) <=>
                  /\ p = a.ringTime
                  /\ IF Forward THEN heard[id] < p /\ p <= now
                                ELSE now <= p /\ p < heard[id]
    BY <1>4 DEF Due, IsRingTime
  <2>4. a.ringTime \in DuePoints
    BY <2>1 DEF DuePoints, Times
  <2> QED
    BY <1>1, <2>1, <2>2, <2>3, <2>4
<1> QED
  BY <1>3, <1>4

\* An alarm that is not displaced rings exactly when one of its ring times has
\* been reached and not yet dealt with.
THEOREM RingsWhenDue == Spec => []RingsExactlyWhenDue
<1>1. Init => IInv
  BY InitType, InitSeries DEF IInv
<1>2. IInv /\ [Next]_vars => IInv'
  BY NextType, NextSeries DEF IInv
<1> QED
  BY <1>1, <1>2, RingsFromSeries, PTL DEF Spec

-----------------------------------------------------------------------------
(* What single operations may do to the rings *)

\* mpas_reset_clock_alarm moves the next ring behind the time it looks at, and no
\* further than one interval.
LEMMA ResetIsSilent ==
    ASSUME TypeOK, NEW id \in AlarmIds, NEW ahead \in Lookaheads, ResetClockAlarm(id, ahead)
    PROVE  LET at == Ahead(now, ahead)
               next == NextRingTime(alarms'[id])
           IN  /\ ~IsAlarmRinging(id, ahead)'
               /\ (alarms[id].isRecurring /\ IsAlarmRinging(id, ahead)) =>
                     ~Reached(next, at) /\ Reached(next, Ahead(at, alarms[id].ringTimeInterval))
<1> USE LookaheadsAssumption
<1> DEFINE at == Ahead(now, ahead)
           a == alarms[id]
           b == alarms'[id]
           I == a.ringTimeInterval
<1>1. /\ id \in DOMAIN alarms /\ a \in Alarm
      /\ now \in Int /\ ahead \in Nat /\ at \in Int
      /\ a.isRecurring => I \in Nat \ {0}
  BY AlarmType DEF ResetClockAlarm, TypeOK, Times, Ahead
<1>2. now' = now /\ (Forward' <=> Forward)
  BY DEF ResetClockAlarm, clockVars, Forward
<1>3. IsAlarmRinging(id, ahead)' <=> id \in DOMAIN alarms' /\ b.isSet /\ InRingingEnvelope(b, ahead)
  BY <1>2 DEF IsAlarmRinging, InRingingEnvelope, NextRingTime, Reached, Ahead
<1>4. CASE ~InRingingEnvelope(a, ahead)
  <2>1. b = a
    BY <1>4 DEF ResetClockAlarm
  <2> QED
    BY <1>3, <1>4, <2>1 DEF IsAlarmRinging
<1>5. CASE InRingingEnvelope(a, ahead) /\ a.isRecurring
  <2> DEFINE p == ResetRingTime(a, at)
  <2>1. /\ b.isRecurring /\ b.ringTimeInterval = I /\ b.prevRingTime = p
    BY <1>1, <1>5 DEF ResetClockAlarm, TypeOK, Alarm
  <2>2. IF Forward THEN a.prevRingTime + I <= at ELSE a.prevRingTime - I >= at
    BY <1>5 DEF InRingingEnvelope, NextRingTime, Reached, Ahead
  <2>3. a.prevRingTime \in Int
    BY <1>1 DEF Alarm
  <2>4. p \in Int /\ IF Forward THEN p <= at /\ at < p + I ELSE p - I < at /\ at <= p
    BY <1>1, <1>5, <2>2, <2>3, ResetMovesWithinSeries DEF ResetRingTime
  <2> HIDE DEF p, at
  <2>5. NextRingTime(b) = (IF Forward THEN p + I ELSE p - I)
    BY <2>1 DEF NextRingTime, Ahead
  <2>6. ~Reached(NextRingTime(b), at) /\ Reached(NextRingTime(b), Ahead(at, I))
    BY <1>1, <1>5, <2>4, <2>5 DEF Reached, Ahead
  <2>7. ~InRingingEnvelope(b, ahead)
    BY <2>1, <2>6 DEF InRingingEnvelope, at
  <2> QED
    BY <1>3, <2>6, <2>7 DEF at
<1>6. CASE InRingingEnvelope(a, ahead) /\ ~a.isRecurring
  <2>1. ~b.isSet
    BY <1>1, <1>6 DEF ResetClockAlarm, TypeOK, Alarm
  <2> QED
    BY <1>3, <1>6, <2>1
<1> QED
  BY <1>4, <1>5, <1>6

\* A reset silences the alarm for its look-ahead, and not for longer than one interval.
THEOREM ResetsSilence == Spec => ResetSilences
<1>1. Init => TypeOK
  BY InitType
<1>2. TypeOK /\ [Next]_vars => TypeOK'
  BY NextType
<1>3. TypeOK => \A id \in AlarmIds, ahead \in Lookaheads :
          ResetClockAlarm(id, ahead) =>
             LET at == Ahead(now, ahead)
                 next == NextRingTime(alarms'[id])
             IN  /\ ~IsAlarmRinging(id, ahead)'
                 /\ (alarms[id].isRecurring /\ IsAlarmRinging(id, ahead)) =>
                       ~Reached(next, at) /\ Reached(next, Ahead(at, alarms[id].ringTimeInterval))
  BY ResetIsSilent
<1> QED
  BY <1>1, <1>2, <1>3, PTL DEF Spec, ResetSilences

\* An alarm that a step leaves alone rings on, when the clock does not move
\* against its direction.
LEMMA RingingFramed ==
    ASSUME TypeOK, NEW id \in DOMAIN alarms, IsAlarmRinging(id, 0), direction' = direction,
           now' \in Int, IF Forward THEN now <= now' ELSE now >= now',
           id \in DOMAIN alarms', alarms'[id] = alarms[id]
    PROVE  IsAlarmRinging(id, 0)'
<1> DEFINE a == alarms[id]
           time == IF a.isRecurring THEN NextRingTime(a) ELSE a.ringTime
<1>1. now \in Int /\ a \in Alarm /\ (a.isRecurring => a.ringTimeInterval \in Nat)
  BY AlarmType DEF TypeOK, Times
<1>2. time \in Int
  BY <1>1 DEF NextRingTime, Ahead, Alarm
<1>3. a.isSet /\ IF Forward THEN time <= now ELSE time >= now
  BY <1>1 DEF IsAlarmRinging, InRingingEnvelope, Reached, Ahead
<1>4. Forward' <=> Forward
  BY DEF Forward
<1>5. IsAlarmRinging(id, 0)' <=> a.isSet /\ IF Forward THEN time <= now' ELSE time >= now'
  BY <1>4 DEF IsAlarmRinging, InRingingEnvelope, NextRingTime, Reached, Ahead
<1> HIDE DEF time
<1> QED
  BY <1>1, <1>2, <1>3, <1>5

\* Nothing but the operations that may silences a ringing alarm.
LEMMA RingingKept ==
    ASSUME TypeOK, [Next]_vars, NEW id \in DOMAIN alarms, IsAlarmRinging(id, 0)
    PROVE  \/ IsAlarmRinging(id, 0)'
           \/ RemoveClockAlarm(id)
           \/ \E ahead \in Lookaheads : ResetClockAlarm(id, ahead)
           \/ \E ref \in Times : AdjustAlarmToReferenceTime(id, ref)
           \/ direction' # direction
           \/ IF Forward THEN now' < now ELSE now' > now
           \/ \E time \in Times : SetClockTime(time)
<1>1. now \in Int /\ direction \in {1, -1} /\ timeStep \in Int
  BY DEF TypeOK, Times, MPAS_FORWARD, MPAS_BACKWARD
<1>2. CASE SetClockDirection
  BY <1>1, <1>2 DEF SetClockDirection
<1>3. ASSUME NEW s \in Int, now' = now + s, UNCHANGED <<direction, alarms>>,
             ~(IF Forward THEN now' < now ELSE now' > now)
      PROVE  IsAlarmRinging(id, 0)'
  <2>1. now' \in Int /\ IF Forward THEN now <= now' ELSE now >= now'
    BY <1>1, <1>3
  <2> QED
    BY <1>3, <2>1, RingingFramed
<1>4. ASSUME AdvanceClock \/ \E s \in Steps : SetClockTimestep(s) \/ AdvanceClockBy(s)
      PROVE  IsAlarmRinging(id, 0)' \/ IF Forward THEN now' < now ELSE now' > now
  <2>1. PICK s \in Int : now' = now + s /\ UNCHANGED <<direction, alarms>>
    <3>1. now' = now => now' = now + 0
      BY <1>1
    <3> QED
      BY <1>1, <1>4, <3>1, StepsAssumption DEF AdvanceClock, SetClockTimestep, AdvanceClockBy
  <2> QED
    BY <1>3, <2>1, Zenon
<1>5. ASSUME NEW x \in AlarmIds,
             \/ \E time \in Times, every \in Intervals : AddRecurringAlarm(x, time, every)
             \/ \E time \in Times : AddOneShotAlarm(x, time)
      PROVE  IsAlarmRinging(id, 0)'
  <2>1. PICK a, time : Inserted(x, a, time)
    BY <1>5 DEF AddRecurringAlarm, AddOneShotAlarm
  <2>2. id \in DOMAIN alarms' /\ alarms'[id] = alarms[id] /\ now' = now /\ direction' = direction
    BY <2>1 DEF Inserted, clockVars
  <2> QED
    BY <1>1, <2>2, RingingFramed
<1>6. ASSUME NEW x \in AlarmIds, x # id,
             \/ RemoveClockAlarm(x)
             \/ \E ahead \in Lookaheads : ResetClockAlarm(x, ahead)
             \/ \E ref \in Times : AdjustAlarmToReferenceTime(x, ref)
      PROVE  IsAlarmRinging(id, 0)'
  <2>1. now' = now /\ direction' = direction
    BY <1>6 DEF RemoveClockAlarm, ResetClockAlarm, AdjustAlarmToReferenceTime, clockVars
  <2>2. id \in DOMAIN alarms' /\ alarms'[id] = alarms[id]
    BY <1>6 DEF RemoveClockAlarm, ResetClockAlarm, AdjustAlarmToReferenceTime
  <2> QED
    BY <1>1, <2>1, <2>2, RingingFramed
<1>7. CASE UNCHANGED vars
  BY <1>1, <1>7, RingingFramed DEF vars
<1> QED
  BY <1>2, <1>4, <1>5, <1>6, <1>7 DEF Next

\* A ringing alarm rings until an operation that may silence it is called.
THEOREM RingingKeepsOn == Spec => RingingPersists
<1>1. Init => TypeOK
  BY InitType
<1>2. TypeOK /\ [Next]_vars => TypeOK'
  BY NextType
<1>3. TypeOK /\ [Next]_vars =>
          \A id \in DOMAIN alarms :
             IsAlarmRinging(id, 0) =>
                \/ IsAlarmRinging(id, 0)'
                \/ RemoveClockAlarm(id)
                \/ \E ahead \in Lookaheads : ResetClockAlarm(id, ahead)
                \/ \E ref \in Times : AdjustAlarmToReferenceTime(id, ref)
                \/ direction' # direction
                \/ IF Forward THEN now' < now ELSE now' > now
                \/ \E time \in Times : SetClockTime(time)
  BY RingingKept
<1> QED
  BY <1>1, <1>2, <1>3, PTL DEF Spec, RingingPersists

-----------------------------------------------------------------------------
(* Powers of two: the smallest set that holds 1 and the double of each of   *)
(* its elements.                                                            *)
DoublingClosed(S) == 1 \in S /\ \A x \in S : 2 * x \in S

PowersOfTwo == {x \in Nat : \A S \in SUBSET Nat : DoublingClosed(S) => x \in S}

\* The division starts its search at the power 1.
LEMMA OneIsPower == 1 \in PowersOfTwo
  BY DEF PowersOfTwo, DoublingClosed

\* Doubling a power of two gives another one: the first loop of the division.
LEMMA DoubleIsPower ==
    ASSUME NEW x \in PowersOfTwo
    PROVE  2 * x \in PowersOfTwo /\ x \in Nat \ {0}
<1>1. x \in Nat /\ 2 * x \in Nat
  BY DEF PowersOfTwo
<1>2. x # 0
  <2> DEFINE Positive == Nat \ {0}
  <2>1. DoublingClosed(Positive) /\ Positive \in SUBSET Nat
    BY DEF DoublingClosed
  <2> HIDE DEF Positive
  <2>2. x \in Positive
    BY <2>1 DEF PowersOfTwo
  <2> QED
    BY <2>2 DEF Positive
<1>3. ASSUME NEW S \in SUBSET Nat, DoublingClosed(S)
      PROVE  2 * x \in S
  <2>1. x \in S
    BY <1>3 DEF PowersOfTwo
  <2> QED
    BY <1>3, <2>1 DEF DoublingClosed
<1> QED
  BY <1>1, <1>2, <1>3 DEF PowersOfTwo

\* A power of two is 1 or twice a power of two, so halving stays among them.
LEMMA HalfIsPower ==
    ASSUME NEW x \in PowersOfTwo, x # 1
    PROVE  x \div 2 \in PowersOfTwo /\ 2 * (x \div 2) = x
<1> DEFINE S == {1} \cup {2 * y : y \in PowersOfTwo}
<1>1. S \in SUBSET Nat
  BY DoubleIsPower DEF PowersOfTwo
<1>2. DoublingClosed(S)
  <2>1. ASSUME NEW s \in S
        PROVE  2 * s \in S
    <3>1. s \in PowersOfTwo
      BY OneIsPower, DoubleIsPower
    <3> QED
      BY <3>1
  <2> HIDE DEF S
  <2> QED
    BY <2>1 DEF DoublingClosed, S
<1>3. x \in S
  <2> HIDE DEF S
  <2> QED
    BY <1>1, <1>2 DEF PowersOfTwo
<1>4. PICK y \in PowersOfTwo : x = 2 * y
  BY <1>3
<1>5. y \in Nat /\ x \div 2 = y
  BY <1>4, SMT DEF PowersOfTwo
<1> QED
  BY <1>4, <1>5

-----------------------------------------------------------------------------
DivisionInv ==
    /\ DivisionTypeOK
    /\ pc \in {"doubling", "halving"} => den > 0 /\ num > den /\ updated = den * n
    /\ pc = "doubling" => n \in PowersOfTwo /\ (n = 1 \/ den * (n \div 2) < num)
    /\ pc = "halving" =>
          /\ m = 0 \/ m \in PowersOfTwo
          /\ updated <= num
          /\ num < updated + (IF m = 0 THEN den ELSE 2 * (den * m))
    /\ Divides

\* The first iteration of mpas_interval_division starts inside the invariant.
LEMMA DivisionInitInv == DivisionInit => DivisionInv
  BY NumeratorsAssumption, DenominatorsAssumption DEF DivisionInit, DivisionInv, DivisionTypeOK, Divides

\* Every iteration of its two loops stays inside it.
LEMMA DivisionNextInv == DivisionInv /\ [DivisionNext]_division => DivisionInv'
<1> SUFFICES ASSUME DivisionInv, [DivisionNext]_division PROVE DivisionInv'
  OBVIOUS
<1> USE DEF DivisionInv, DivisionTypeOK
<1>1. CASE ReturnEarly
  BY <1>1, SMT DEF ReturnEarly, Divides
<1>2. CASE StartSearch
  <2>1. den * 1 = den
    OBVIOUS
  <2> QED
    BY <1>2, <2>1, OneIsPower DEF StartSearch, Divides
<1>3. CASE Double
  <2>1. /\ n * 2 \in PowersOfTwo /\ (n * 2) \div 2 = n /\ n * 2 \in Nat
        /\ n \in Nat
    BY <1>3, DoubleIsPower, SMT DEF Double
  <2>2. den * (n * 2) \in Int
    BY <2>1
  <2>3. /\ pc = "doubling" /\ pc' = "doubling"
        /\ den > 0 /\ num > den /\ den * n < num
        /\ n' = n * 2 /\ updated' = den * n' /\ cost' \in Nat
        /\ UNCHANGED <<num, den, rem, m>>
    BY <1>3 DEF Double
  <2>4. /\ n' \in PowersOfTwo /\ n' \in Nat /\ den * (n' \div 2) < num
        /\ updated' \in Int
    BY <2>1, <2>2, <2>3
  <2> QED
    BY <2>3, <2>4 DEF Divides
<1>4. CASE TurnBack
  <2>1. pc = "doubling" /\ n \in PowersOfTwo /\ num <= den * n /\ num > den
    BY <1>4 DEF TurnBack
  <2>2. n # 1
    BY <2>1
  <2> DEFINE h == n \div 2
  <2>3. h \in PowersOfTwo /\ h \in Nat \ {0} /\ 2 * h = n
    BY <2>1, <2>2, HalfIsPower, DoubleIsPower
  <2>4. n' = h /\ m' = h /\ updated' = den * h /\ pc' = "halving"
        /\ UNCHANGED <<num, den, rem, cost>>
    BY <1>4 DEF TurnBack
  <2>5. den * h < num
    BY <2>1, <2>2
  <2> HIDE DEF h
  <2>6. den * h \in Nat /\ den * h > 0 /\ den * n = 2 * (den * h)
    BY <2>1, <2>3, SMT
  <2>7. num < den * h + 2 * (den * h)
    BY <2>1, <2>6
  <2> QED
    BY <2>1, <2>3, <2>4, <2>5, <2>6, <2>7 DEF Divides
<1>5. CASE Halve
  <2>1. /\ pc = "halving" /\ m \in PowersOfTwo /\ m \in Nat \ {0}
        /\ updated = den * n /\ updated <= num
        /\ num < updated + 2 * (den * m)
    BY <1>5 DEF Halve
  <2> DEFINE h == m \div 2
             part == den * m
  <2>2. h \in Nat /\ part \in Nat
        /\ \/ m = 1 /\ h = 0 /\ part = den
           \/ h \in PowersOfTwo /\ h # 0 /\ part = 2 * (den * h)
    <3>1. CASE m = 1
      BY <3>1, SMT
    <3>2. CASE m # 1
      <4>1. h \in PowersOfTwo /\ 2 * h = m /\ h \in Nat \ {0}
        BY <2>1, <3>2, HalfIsPower, DoubleIsPower
      <4>2. part = 2 * (den * h) /\ part \in Nat
        BY <4>1, SMT
      <4> QED
        BY <4>1, <4>2
    <3> QED
      BY <3>1, <3>2
  <2>3. /\ m' = h /\ pc' = "halving" /\ cost' \in Nat
        /\ UNCHANGED <<num, den, rem>>
        /\ IF updated + part <= num THEN n' = n + m /\ updated' = updated + part
                                 ELSE n' = n /\ updated' = updated
    BY <1>5 DEF Halve
  <2>4. den * (n + m) = den * n + part /\ n + m \in Nat
    BY SMT
  <2> HIDE DEF h, part
  <2>5. num < updated' + part /\ updated' <= num /\ updated' = den * n' /\ n' \in Nat
    BY <2>1, <2>2, <2>3, <2>4
  <2>6. /\ h = 0 \/ h \in PowersOfTwo
        /\ num < updated' + (IF h = 0 THEN den ELSE 2 * (den * h))
    BY <2>2, <2>5
  <2> QED
    BY <2>1, <2>2, <2>3, <2>5, <2>6 DEF Divides
<1>6. CASE Finish
  BY <1>6, SMT DEF Finish, Divides
<1>7. CASE UNCHANGED division
  BY <1>7 DEF division, Divides
<1> QED
  BY <1>1, <1>2, <1>3, <1>4, <1>5, <1>6, <1>7 DEF DivisionNext

\* Both loops keep num within what the rest of the search can reach.
THEOREM SearchBracketed == DivisionSpec => []SearchBrackets
<1>1. DivisionInv => SearchBrackets
  BY DEF DivisionInv, SearchBrackets
<1> QED
  BY <1>1, DivisionInitInv, DivisionNextInv, PTL DEF DivisionSpec

\* mpas_interval_division returns the quotient and the remainder.
THEOREM DivisionCorrect == DivisionSpec => []Divides
<1>1. DivisionInv => Divides
  BY DEF DivisionInv
<1> QED
  BY <1>1, DivisionInitInv, DivisionNextInv, PTL DEF DivisionSpec

\* The remainder is the one the model of the clock computes in one step.
THEOREM RemainderAgrees == DivisionSpec => []ReturnsRemainder
<1>1. DivisionInv => ReturnsRemainder
  <2> SUFFICES ASSUME DivisionInv, pc = "done", den > 0
               PROVE  rem = IntervalRemainder(num, den)
    BY DEF ReturnsRemainder
  <2>1. den \in Nat \ {0} /\ num \in Int /\ n \in Int /\ rem \in Int
    BY DEF DivisionInv, DivisionTypeOK
  <2>2. CASE num < den
    BY <2>1, <2>2 DEF DivisionInv, Divides, IntervalRemainder
  <2>3. CASE ~(num < den)
    <3>1. num = (den * n) + rem /\ rem \in 0 .. den - 1
      BY <2>1, <2>3 DEF DivisionInv, Divides
    <3>2. num % den = rem
      BY <2>1, <3>1, ModUnique
    <3> QED
      BY <2>3, <3>2 DEF IntervalRemainder
  <2> QED
    BY <2>2, <2>3
<1> QED
  BY <1>1, DivisionInitInv, DivisionNextInv, PTL DEF DivisionSpec

-----------------------------------------------------------------------------
(* mpas_calibrate_alarms *)

CalibrationInv == CalibrationTypeOK /\ SearchStaysClose

\* The search starts inside the series.
LEMMA CalibrationInitInv == CalibrationInit => CalibrationInv
<1> SUFFICES ASSUME CalibrationInit PROVE CalibrationInv
  OBVIOUS
<1>1. CalibrationTypeOK
  <2>1. prev \in Int /\ present \in Int /\ iv \in Nat \ {0} /\ t = prev
    BY TimesAssumption, RingIntervalsAssumption DEF CalibrationInit
  <2>2. loop \in {"up", "down", "done"} /\ turned \in BOOLEAN
    BY Zenon DEF CalibrationInit
  <2> QED
    BY <2>1, <2>2 DEF CalibrationInit, CalibrationTypeOK
<1>2. (t - prev) % iv = 0
  BY <1>1, MultipleSelf, t - prev = 0 DEF CalibrationInit, CalibrationTypeOK
<1> QED
  BY <1>1, <1>2 DEF CalibrationInv, SearchStaysClose, CalibrationInit, CalibrationTypeOK

\* Every iteration and every turn of the search keeps it close to now.
LEMMA CalibrationNextInv == CalibrationInv /\ [CalibrationNext]_calibration => CalibrationInv'
<1> SUFFICES ASSUME CalibrationInv, [CalibrationNext]_calibration PROVE CalibrationInv'
  OBVIOUS
<1>1. /\ prev \in Int /\ present \in Int /\ iv \in Nat \ {0} /\ iv \in Int
      /\ t \in Int /\ (t - prev) % iv = 0
  BY DEF CalibrationInv, CalibrationTypeOK, SearchStaysClose
<1>2. ((t + iv) - prev) % iv = 0 /\ ((t - iv) - prev) % iv = 0
  BY <1>1, StepOfSeries
<1> USE DEF CalibrationInv, CalibrationTypeOK, SearchStaysClose
<1>3. CASE StepUp
  BY <1>1, <1>2, <1>3 DEF StepUp, arguments
<1>4. CASE StepDown
  BY <1>1, <1>2, <1>4 DEF StepDown, arguments
<1>5. CASE Above
  BY <1>1, <1>5 DEF Above, arguments
<1>6. CASE Below
  BY <1>1, <1>6 DEF Below, arguments
<1>7. CASE UNCHANGED calibration
  BY <1>7 DEF calibration
<1> QED
  BY <1>3, <1>4, <1>5, <1>6, <1>7 DEF CalibrationNext

\* The search never leaves the series, and stays within one interval of now.
THEOREM StaysClose == CalibrationSpec => []SearchStaysClose
<1>1. CalibrationInv => SearchStaysClose
  BY DEF CalibrationInv
<1> QED
  BY <1>1, CalibrationInitInv, CalibrationNextInv, PTL DEF CalibrationSpec

\* Two times of a series with less than an interval between them are the same.
LEMMA SameInterval ==
    ASSUME NEW o \in Int, NEW p \in Int, NEW q \in Int, NEW d \in Nat \ {0},
           (p - o) % d = 0, (q - o) % d = 0, p < q + d, q < p + d
    PROVE  p = q
<1>1. ~(p < q)
  <2> SUFFICES ASSUME p < q PROVE FALSE
    OBVIOUS
  <2>1. p + d <= q
    BY NextOfSeries
  <2> QED
    BY <2>1
<1>2. ~(q < p)
  <2> SUFFICES ASSUME q < p PROVE FALSE
    OBVIOUS
  <2>1. q + d <= p
    BY NextOfSeries
  <2> QED
    BY <2>1
<1> QED
  BY <1>1, <1>2

\* mpas_calibrate_alarms finds the last ring time before now and the first one
\* after it.
THEOREM CalibrationCorrect == CalibrationSpec => []FindsNeighbors
<1>1. CalibrationInv => FindsNeighbors
  <2> SUFFICES ASSUME CalibrationInv, loop = "done"
               PROVE  /\ neg = NegativeNeighbor(prev, iv, present)
                      /\ pos = PositiveNeighbor(prev, iv, present)
    BY DEF FindsNeighbors
  <2> DEFINE lo == NegativeNeighbor(prev, iv, present)
             hi == PositiveNeighbor(prev, iv, present)
  <2>1. /\ prev \in Int /\ present \in Int /\ iv \in Nat \ {0}
        /\ neg \in Int /\ (neg - prev) % iv = 0 /\ neg < present /\ present <= neg + iv
        /\ pos \in Int /\ (pos - prev) % iv = 0 /\ present < pos /\ pos - iv <= present
    BY DEF CalibrationInv, CalibrationTypeOK, SearchStaysClose
  <2>2. /\ lo \in Int /\ lo < present /\ present <= lo + iv /\ (lo - prev) % iv = 0
        /\ hi \in Int /\ present < hi /\ hi - iv <= present /\ (hi - prev) % iv = 0
    BY <2>1, Neighbors
  <2> HIDE DEF lo, hi
  <2>3. neg < lo + iv /\ lo < neg + iv /\ pos < hi + iv /\ hi < pos + iv
    BY <2>1, <2>2
  <2>4. neg = lo /\ pos = hi
    BY <2>1, <2>2, <2>3, SameInterval
  <2> QED
    BY <2>4 DEF lo, hi
<1> QED
  BY <1>1, CalibrationInitInv, CalibrationNextInv, PTL DEF CalibrationSpec
=============================================================================
