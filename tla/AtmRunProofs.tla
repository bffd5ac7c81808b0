---------------------------- MODULE AtmRunProofs ----------------------------
(* Proofs about the run loop of the atmosphere core, for every list of output *)
(* streams, every choice of intervals, and any number of crashes.             *)
EXTENDS AtmRun, OperatorProofs, FiniteSetTheorems

-----------------------------------------------------------------------------
(* The invariant *)

\* A refusal, which the run loop tolerates, cannot stand for a restart record that is
\* not there: the restart stream overwrites, and no refusal of a stream written after
\* it replaces its error.
Unmasked ==
    /\ "restart" \notin Refusable
    /\ Refusable = {} \/ Last(Outputs) = "restart"

Prev(s) == alarms[s].prevRingTime

\* The clock runs forward, in whole steps from the start of the run, and every alarm
\* recurs at the interval of its stream.
ClockOK ==
    /\ direction = 1 /\ timeStep \in Nat \ {0}
    /\ now \in Nat /\ startTime \in Nat /\ startTime <= now
    /\ (now - startTime) % timeStep = 0
    /\ interval \in [Streams -> Nat \ {0}]
    /\ DOMAIN alarms \subseteq Streams
    /\ alarms \in [DOMAIN alarms -> Clock!Alarm]
    /\ \A s \in DOMAIN alarms : /\ alarms[s].isRecurring /\ alarms[s].isSet
                                /\ alarms[s].ringTimeInterval = interval[s]
    /\ origin \in [Streams -> Nat]

\* What is left of a loop over streams.
Listing(q) == q \in Seq(Streams) /\ q # <<>> /\ IsInjective(q)

Loops == {"add", "adjust", "skip", "write", "reset"}
Setup == {"add", "adjust", "read_ICs", "skip"}
Stepping == {"lbc", "reset_lbc", "surface", "reset_surface", "advance"}

ControlOK ==
    /\ pc \in Statements
    /\ pc \in Loops => Listing(todo)
    /\ pc = "skip" =>
          Range(todo) \subseteq {"restart"} \cup IF do_restart THEN {"output", "diagnostics"} ELSE {}
    /\ pc \in {"write", "reset"} => Range(todo) \subseteq Range(Outputs)
    /\ pc = "write" => Last(todo) = Last(Outputs)
    /\ pc \in Setup \cup {"first_lbc"} => now = startTime
    /\ pc \in {"stamp", "stamping"} => now # startTime
    /\ ierr \in {"NOERR", "ERROR", "CLOBBER"}
    /\ attempted \in [Range(Outputs) -> SUBSET Nat]
    /\ restartFile \subseteq Nat /\ timestamp \in {Missing, Empty} \cup Nat

\* The streams the alarm of which is at its place in its series.
Adjusted == IF pc \in {"add", "adjust"} THEN Streams \ Range(todo) ELSE Streams

AlarmsListed ==
    /\ DOMAIN alarms = IF pc = "adjust" THEN Adjusted \cup {Head(todo)} ELSE Adjusted
    /\ \A s \in Adjusted : (Prev(s) - origin[s]) % interval[s] = 0
    /\ \A s \in Adjusted \cap {"lbc_in", "surface"} : origin[s] = startTime

RecordInv ==
    /\ \/ timestamp = Missing
       \/ timestamp \in restartFile
       \/ timestamp = Empty /\ pc = "stamping"
    /\ pc = "stamping" => now \in restartFile
    /\ pc \in {"write", "check", "stamp"} /\ Ringing("restart") /\ ierr # "ERROR" =>
          now \in restartFile \/ (pc = "write" /\ "restart" \in Range(todo))
    /\ pc = "stamp" => ierr # "ERROR"

\* How the alarm of an output stream stands to the clock.
Quiet(s) == Prev(s) <= now /\ now < Prev(s) + interval[s]
QuietBefore(s) == Prev(s) <= now - timeStep /\ now - timeStep < Prev(s) + interval[s]
Fresh(s) == IF origin[s] = startTime THEN Prev(s) + interval[s] = startTime ELSE Quiet(s)
Wanted(s) ==
    /\ s # "restart" /\ (do_restart => s \notin {"output", "diagnostics"})
    /\ origin[s] = startTime
AtStart(s) == IF Wanted(s) THEN Prev(s) + interval[s] = startTime ELSE Quiet(s)
BeforeOutput(s) == IF now = startTime THEN AtStart(s) ELSE QuietBefore(s)

\* The times the stream s is to be written at up to the time n.
DueTimes(s, n) == {t \in 0 .. n : startTime < t /\ (t - origin[s]) % interval[s] = 0}
Schedule(s, n) ==
    {StepAtOrAfter(r) : r \in DueTimes(s, n)} \cup IF Wanted(s) THEN {startTime} ELSE {}
WrittenBefore(s) == IF now = startTime THEN {} ELSE Schedule(s, now - timeStep)

ScheduleInv ==
    \A s \in Range(Outputs) :
       /\ pc \in Setup => attempted[s] = {}
       /\ pc \in {"add", "adjust", "read_ICs"} /\ s \in Adjusted => Fresh(s)
       /\ pc = "skip" => IF s \in Range(todo) THEN Fresh(s) ELSE AtStart(s)
       /\ pc = "write" =>
             /\ BeforeOutput(s)
             /\ attempted[s] = IF s \in Range(todo) THEN WrittenBefore(s) ELSE Schedule(s, now)
       /\ pc \in {"check", "stamp", "stamping"} => BeforeOutput(s)
       /\ pc = "reset" => IF s \in Range(todo) THEN BeforeOutput(s) ELSE Quiet(s)
       /\ pc \in Stepping \cup {"first_lbc", "loop"} => Quiet(s)
       /\ pc \in Stepping \cup {"check", "stamp", "stamping", "reset", "first_lbc", "loop"} =>
             attempted[s] = Schedule(s, now)

\* The surface fields are those of the previous ring time of their alarm, or the alarm
\* rings and they are about to be read.
SurfaceInv ==
    "surface" \in Adjusted /\ startTime % interval["surface"] = 0 =>
       /\ pc = "reset_surface" => Ringing("surface") /\ surface = LatestBefore("surface")
       /\ pc = "advance" => ~Ringing("surface")
       /\ pc # "reset_surface" =>
             Ringing("surface") \/ (surface = Prev("surface") /\ 0 <= surface /\ surface <= now)

\* The newer boundary state is that of the next ring time of the alarm.
LbcInv ==
    "lbc_in" \in Adjusted /\ startTime % interval["lbc_in"] = 0 =>
       LET next == Prev("lbc_in") + interval["lbc_in"]
           covered == 0 <= lbc.from /\ lbc.from <= now
       IN  IF pc \in Setup \cup {"first_lbc"} \/ (now = startTime /\ pc \in {"write", "check", "reset"})
           THEN next = startTime
           ELSE IF pc = "reset_lbc"
           THEN /\ covered
                /\ lbc.to = IF Ringing("lbc_in") THEN EarliestStrictlyAfter("lbc_in") ELSE next
           ELSE pc \notin {"aborted", "done"} =>
                /\ lbc.to = next /\ 0 <= next
                /\ covered \/ Ringing("lbc_in")
                /\ pc \in {"surface", "reset_surface", "advance"} => covered /\ ~Ringing("lbc_in")

-----------------------------------------------------------------------------
(* The streams a loop visits *)

\* One pass through a loop visits the first stream that is left, and leaves the others.
LEMMA ListingTail ==
    ASSUME NEW q, Listing(q)
    PROVE  /\ Head(q) \in Streams /\ Head(q) \in Range(q)
           /\ Len(q) = 1 => Range(q) = {Head(q)} /\ Last(q) = Head(q)
           /\ Len(q) # 1 => /\ Listing(Tail(q))
                            /\ Range(Tail(q)) = Range(q) \ {Head(q)}
                            /\ Last(Tail(q)) = Last(q)
<1> USE DEF Listing, Range, Last, IsInjective
<1>1. /\ q \in Seq(Streams) /\ Len(q) \in Nat \ {0} /\ Head(q) = q[1] /\ DOMAIN q = 1 .. Len(q)
      /\ 1 \in DOMAIN q /\ Head(q) \in Streams
  <2> HIDE DEF Streams
  <2> QED
    OBVIOUS
<1>2. ASSUME Len(q) = 1 PROVE Range(q) = {Head(q)} /\ Last(q) = Head(q)
  <2> HIDE DEF Streams
  <2> QED
    BY <1>1, <1>2
<1>3. ASSUME Len(q) # 1
      PROVE  /\ Listing(Tail(q)) /\ Last(Tail(q)) = Last(q)
             /\ Range(Tail(q)) = Range(q) \ {Head(q)}
  <2> DEFINE r == Tail(q)
  <2>1. /\ r \in Seq(Streams) /\ Len(r) = Len(q) - 1 /\ DOMAIN r = 1 .. Len(q) - 1
        /\ \A i \in 1 .. Len(q) - 1 : r[i] = q[i + 1]
    BY <1>1, <1>3
  <2> HIDE DEF r, Streams
  <2>2. r # <<>> /\ Last(r) = Last(q)
    BY <1>1, <1>3, <2>1
  <2>3. \A i \in 1 .. Len(q) - 1 : i + 1 \in DOMAIN q /\ i + 1 # 1
    BY <1>1
  <2>4. IsInjective(r)
    <3> SUFFICES ASSUME NEW i \in DOMAIN r, NEW j \in DOMAIN r, r[i] = r[j] PROVE i = j
      OBVIOUS
    <3>1. i + 1 = j + 1
      BY <2>1, <2>3
    <3> QED
      BY <2>1, <3>1
  <2>5. Range(r) \subseteq Range(q) \ {Head(q)}
    <3> SUFFICES ASSUME NEW i \in DOMAIN r PROVE r[i] \in Range(q) /\ r[i] # q[1]
      BY <1>1
    <3> QED
      BY <1>1, <2>1, <2>3
  <2>6. Range(q) \ {Head(q)} \subseteq Range(r)
    <3> SUFFICES ASSUME NEW j \in DOMAIN q, q[j] # q[1] PROVE q[j] \in Range(r)
      BY <1>1
    <3>1. j - 1 \in DOMAIN r /\ r[j - 1] = q[j]
      BY <1>1, <2>1
    <3> QED
      BY <3>1
  <2> QED
    BY <2>1, <2>2, <2>4, <2>5, <2>6 DEF r
<1> QED
  BY <1>1, <1>2, <1>3

\* Lists of different streams, one after the other.
LEMMA ListsJoined ==
    ASSUME NEW p \in Seq(Streams), NEW q \in Seq(Streams), IsInjective(p), IsInjective(q),
           Range(p) \cap Range(q) = {}
    PROVE  /\ p \o q \in Seq(Streams) /\ IsInjective(p \o q)
           /\ Range(p \o q) = Range(p) \cup Range(q)
<1> DEFINE r == p \o q
           m == Len(p)
           n == Len(q)
<1> HIDE DEF Streams
<1>1. m \in Nat /\ n \in Nat /\ DOMAIN p = 1 .. m /\ DOMAIN q = 1 .. n
  OBVIOUS
<1>2. /\ r \in Seq(Streams) /\ DOMAIN r = 1 .. m + n
      /\ \A i \in 1 .. m + n : r[i] = IF i <= m THEN p[i] ELSE q[i - m]
  OBVIOUS
<1> HIDE DEF r, m, n
<1>3. \A i \in 1 .. m + n : \/ i \in DOMAIN p /\ r[i] = p[i] /\ r[i] \in Range(p)
                            \/ i - m \in DOMAIN q /\ r[i] = q[i - m] /\ r[i] \in Range(q)
  <2> SUFFICES ASSUME NEW i \in 1 .. m + n
               PROVE  \/ i \in DOMAIN p /\ r[i] = p[i]
                      \/ i - m \in DOMAIN q /\ r[i] = q[i - m]
    BY DEF Range
  <2> QED
    BY <1>1, <1>2
<1>4. IsInjective(r)
  <2> SUFFICES ASSUME NEW i \in 1 .. m + n, NEW j \in 1 .. m + n, r[i] = r[j] PROVE i = j
    BY <1>2 DEF IsInjective
  <2>1. CASE i \in DOMAIN p /\ r[i] = p[i] /\ j \in DOMAIN p /\ r[j] = p[j]
    BY <2>1 DEF IsInjective
  <2>2. CASE i - m \in DOMAIN q /\ r[i] = q[i - m] /\ j - m \in DOMAIN q /\ r[j] = q[j - m]
    <3>1. i - m = j - m
      BY <2>2 DEF IsInjective
    <3> QED
      BY <1>1, <3>1
  <2> QED
    BY <1>3, <2>1, <2>2
<1>5. Range(r) = Range(p) \cup Range(q)
  <2>1. \A i \in DOMAIN p : i \in 1 .. m + n /\ r[i] = p[i]
    BY <1>1, <1>2
  <2>2. \A i \in DOMAIN q : i + m \in 1 .. m + n /\ r[i + m] = q[i]
    BY <1>1, <1>2
  <2> QED
    BY <1>2, <1>3, <2>1, <2>2 DEF Range
<1> QED
  BY <1>2, <1>4, <1>5 DEF r

LEMMA OneStream ==
    ASSUME NEW s \in Streams
    PROVE  <<s>> \in Seq(Streams) /\ IsInjective(<<s>>) /\ Range(<<s>>) = {s} /\ <<s>> # <<>>
  BY DEF IsInjective, Range

LEMMA NoStream == <<>> \in Seq(Streams) /\ IsInjective(<<>>) /\ Range(<<>>) = {}
  BY DEF IsInjective, Range

\* The loops start with the streams of the list, each once.
LEMMA OutputsListing == Listing(Outputs)
<1>1. Outputs \in Seq(Streams)
  BY OutputsAssumption DEF Streams
<1>2. Outputs # <<>>
  BY OutputsAssumption DEF Range
<1> QED
  BY <1>1, <1>2, OutputsAssumption DEF Listing

LEMMA AllStreamsListing == Listing(AllStreams) /\ Range(AllStreams) = Streams
<1> DEFINE q == <<"lbc_in", "surface">>
<1>1. Outputs \in Seq(Streams) /\ IsInjective(Outputs)
  BY OutputsListing DEF Listing
<1>2. "lbc_in" \in Streams /\ "surface" \in Streams
  BY DEF Streams
<1>3. q \in Seq(Streams) /\ IsInjective(q) /\ Range(q) = {"lbc_in", "surface"}
  BY <1>2 DEF IsInjective, Range
<1> HIDE DEF q
<1>4. /\ Outputs \o q \in Seq(Streams) /\ IsInjective(Outputs \o q)
      /\ Range(Outputs \o q) = Range(Outputs) \cup Range(q)
  BY <1>1, <1>3, ListsJoined, OutputsAssumption
<1>5. Outputs \o q # <<>>
  BY <1>3, <1>4, NoStream
<1> QED
  BY <1>3, <1>4, <1>5 DEF Listing, AllStreams, q, Streams

LEMMA SkippedListing ==
    /\ Listing(Skipped) /\ Range(Skipped) \subseteq Range(Outputs)
    /\ Range(Skipped) = {"restart"} \cup IF do_restart
                                         THEN {"output", "diagnostics"} \cap Range(Outputs)
                                         ELSE {}
<1> DEFINE o == Listed("output")
           d == Listed("diagnostics")
           more == IF do_restart THEN o \o d ELSE <<>>
<1>1. "restart" \in Range(Outputs) /\ Range(Outputs) \subseteq Streams
  BY OutputsAssumption DEF Streams
<1>2. ASSUME NEW s
      PROVE  /\ Listed(s) \in Seq(Streams) /\ IsInjective(Listed(s))
             /\ Range(Listed(s)) = {s} \cap Range(Outputs)
  BY <1>1, OneStream, NoStream DEF Listed
<1> HIDE DEF o, d
<1>3. /\ o \in Seq(Streams) /\ IsInjective(o) /\ Range(o) = {"output"} \cap Range(Outputs)
      /\ d \in Seq(Streams) /\ IsInjective(d) /\ Range(d) = {"diagnostics"} \cap Range(Outputs)
  BY <1>2 DEF o, d
<1>4. /\ o \o d \in Seq(Streams) /\ IsInjective(o \o d)
      /\ Range(o \o d) = {"output", "diagnostics"} \cap Range(Outputs)
  <2>1. Range(o) \cap Range(d) = {}
    BY <1>3
  <2>2. /\ o \o d \in Seq(Streams) /\ IsInjective(o \o d)
        /\ Range(o \o d) = Range(o) \cup Range(d)
    BY <1>3, <2>1, ListsJoined
  <2> QED
    BY <1>3, <2>2
<1>5. /\ more \in Seq(Streams) /\ IsInjective(more)
      /\ Range(more) = IF do_restart THEN {"output", "diagnostics"} \cap Range(Outputs) ELSE {}
  BY <1>4, NoStream
<1>6. Skipped = <<"restart">> \o more
  BY DEF Skipped, o, d
<1> HIDE DEF more
<1>7. /\ Skipped \in Seq(Streams) /\ IsInjective(Skipped)
      /\ Range(Skipped) = {"restart"} \cup Range(more)
  <2>1. /\ <<"restart">> \in Seq(Streams) /\ IsInjective(<<"restart">>)
        /\ Range(<<"restart">>) = {"restart"}
    BY <1>1, OneStream
  <2>2. Range(<<"restart">>) \cap Range(more) = {}
    BY <1>5, <2>1
  <2> QED
    BY <1>5, <1>6, <2>1, <2>2, ListsJoined
<1>8. Skipped # <<>>
  BY <1>7, NoStream
<1> QED
  BY <1>1, <1>5, <1>7, <1>8 DEF Listing

-----------------------------------------------------------------------------
(* The clock *)

\* An alarm rings when its next ring time has been reached.
LEMMA RingingMeans ==
    ASSUME ClockOK, NEW s \in DOMAIN alarms
    PROVE  /\ Ringing(s) <=> Prev(s) + interval[s] <= now
           /\ s \in Streams /\ Prev(s) \in Int /\ interval[s] \in Nat \ {0} /\ now \in Int
           /\ origin[s] \in Nat
<1>1. /\ alarms[s] \in Clock!Alarm /\ alarms[s].isRecurring /\ alarms[s].isSet
      /\ alarms[s].ringTimeInterval = interval[s] /\ direction = 1 /\ s \in Streams
      /\ interval[s] \in Nat \ {0} /\ now \in Int /\ origin[s] \in Nat
  BY DEF ClockOK
<1>2. Prev(s) \in Int
  BY <1>1 DEF Clock!Alarm, Prev
<1>3. Ringing(s) <=> Prev(s) + interval[s] <= now + 0
  BY <1>1 DEF Ringing, Clock!IsAlarmRinging, Clock!InRingingEnvelope, Clock!NextRingTime,
              Clock!Reached, Clock!Ahead, Clock!Forward, Clock!MPAS_FORWARD, Prev
<1> QED
  BY <1>1, <1>2, <1>3

\* The division of intervals is the one of TimeArithmetic.
LEMMA SameRemainder == \A a, b : Clock!IntervalRemainder(a, b) = IntervalRemainder(a, b)
  BY DEF Clock!IntervalRemainder, IntervalRemainder

\* A step that leaves the clock and the interval of a stream alone leaves what is
\* said of its alarm.
LEMMA ClockFramed ==
    ASSUME ClockOK, UNCHANGED <<clock, interval, startTime>>
    PROVE  /\ ClockOK'
           /\ UNCHANGED <<now, timeStep, alarms, origin>>
           /\ \A s : (Ringing(s)' <=> Ringing(s)) /\ Prev(s)' = Prev(s)
<1>1. UNCHANGED <<now, timeStep, direction, alarms, nAlarms, origin, heard, interval, startTime>>
  BY DEF clock
<1>2. ClockOK'
  BY <1>1 DEF ClockOK
<1>3. \A s : (Ringing(s)' <=> Ringing(s)) /\ Prev(s)' = Prev(s)
  BY <1>1 DEF Ringing, Prev, Clock!IsAlarmRinging, Clock!InRingingEnvelope, Clock!NextRingTime,
              Clock!Reached, Clock!Ahead, Clock!Forward
<1> QED
  BY <1>1, <1>2, <1>3

\* A new alarm starts one interval before now.
LEMMA AlarmAdded ==
    ASSUME ClockOK, NEW s \in Streams, Clock!AddRecurringAlarm(s, now, interval[s]),
           UNCHANGED <<interval, startTime>>
    PROVE  /\ ClockOK' /\ UNCHANGED <<now, timeStep>>
           /\ s \notin DOMAIN alarms /\ DOMAIN alarms' = DOMAIN alarms \cup {s}
           /\ \A x \in DOMAIN alarms : alarms'[x] = alarms[x] /\ origin'[x] = origin[x]
<1>1. /\ s \notin DOMAIN alarms
      /\ alarms' = [x \in DOMAIN alarms \cup {s} |->
                       IF x = s THEN Clock!NewRecurring(now, interval[s]) ELSE alarms[x]]
      /\ origin' = [origin EXCEPT ![s] = now]
      /\ UNCHANGED <<now, timeStep, direction, interval, startTime>>
  BY DEF Clock!AddRecurringAlarm, Clock!Inserted, Clock!clockVars
<1>2. /\ Clock!NewRecurring(now, interval[s]) =
            [isRecurring |-> TRUE, isSet |-> TRUE, ringTime |-> now,
             prevRingTime |-> now + (-interval[s]), ringTimeInterval |-> interval[s]]
      /\ now \in Nat /\ interval[s] \in Nat \ {0} /\ now + (-interval[s]) \in Int
  BY DEF ClockOK, Clock!NewRecurring, Clock!Ahead, Clock!Forward, Clock!MPAS_FORWARD
<1>3. Clock!NewRecurring(now, interval[s]) \in Clock!Alarm
  BY <1>2 DEF Clock!Alarm
<1>4. DOMAIN alarms' = DOMAIN alarms \cup {s} /\ alarms' \in [DOMAIN alarms' -> Clock!Alarm]
  BY <1>1, <1>3 DEF ClockOK
<1>5. \A x \in DOMAIN alarms' : /\ alarms'[x].isRecurring /\ alarms'[x].isSet
                                /\ alarms'[x].ringTimeInterval = interval[x]
  BY <1>1, <1>2 DEF ClockOK
<1>6. ClockOK'
  BY <1>1, <1>2, <1>4, <1>5 DEF ClockOK
<1> QED
  BY <1>1, <1>4, <1>6 DEF ClockOK

\* Adjusted to the present time, an alarm rings at once; adjusted to an earlier one,
\* it rings with the next time of that series.
LEMMA AlarmAdjusted ==
    ASSUME ClockOK, NEW s \in Streams, NEW ref \in {now, 0},
           Clock!AdjustAlarmToReferenceTime(s, ref), UNCHANGED <<interval, startTime>>
    PROVE  /\ ClockOK' /\ UNCHANGED <<now, timeStep>>
           /\ s \in DOMAIN alarms /\ DOMAIN alarms' = DOMAIN alarms
           /\ \A x \in DOMAIN alarms \ {s} : alarms'[x] = alarms[x] /\ origin'[x] = origin[x]
           /\ origin'[s] = ref /\ (Prev(s)' - ref) % interval[s] = 0 /\ Prev(s)' \in Int
           /\ IF ref = now THEN Prev(s)' + interval[s] = now
                           ELSE Prev(s)' <= now /\ now < Prev(s)' + interval[s]
<1> DEFINE iv == interval[s]
           p == Clock!AdjustedRingTime(alarms[s], ref)
<1>1. /\ s \in DOMAIN alarms
      /\ alarms' = [alarms EXCEPT ![s].prevRingTime = p]
      /\ origin' = [origin EXCEPT ![s] = ref]
      /\ UNCHANGED <<now, timeStep, direction, interval, startTime>>
  BY DEF Clock!AdjustAlarmToReferenceTime, Clock!clockVars
<1>2. /\ alarms[s] \in Clock!Alarm /\ now \in Nat /\ ref \in Nat /\ ref <= now /\ now \in Int
      /\ ref \in Int /\ iv \in Nat \ {0} /\ alarms[s].ringTimeInterval = iv
  BY <1>1 DEF ClockOK
<1>3. p = IF now > ref THEN now - IntervalRemainder(now - ref, iv)
                       ELSE now - (iv - IntervalRemainder(ref - now, iv))
  BY <1>2, SameRemainder DEF ClockOK, Clock!AdjustedRingTime, Clock!Forward, Clock!MPAS_FORWARD
<1> HIDE DEF p, iv
<1>4. /\ p \in Int /\ (p - ref) % iv = 0
      /\ IF ref = now THEN p + iv = now ELSE p <= now /\ now < p + iv
  <2>1. CASE now > ref
    BY <1>2, <1>3, <2>1, AdjustedWithinSeries
  <2>2. CASE now = ref
    <3>1. p \in Int /\ (p - ref) % iv = 0 /\ p = ref - iv
      BY <1>2, <1>3, <2>2, AdjustedWithinSeries
    <3> QED
      BY <1>2, <2>2, <3>1
  <2> QED
    BY <1>2, <2>1, <2>2
<1>5. /\ alarms'[s] = [alarms[s] EXCEPT !.prevRingTime = p]
      /\ DOMAIN alarms' = DOMAIN alarms
      /\ \A x \in DOMAIN alarms \ {s} : alarms'[x] = alarms[x]
  BY <1>1 DEF ClockOK
<1>6. alarms'[s] \in Clock!Alarm /\ Prev(s)' = p
  BY <1>2, <1>4, <1>5 DEF Clock!Alarm, Prev
<1>7. ClockOK'
  <2>1. /\ alarms' \in [DOMAIN alarms' -> Clock!Alarm]
        /\ \A x \in DOMAIN alarms' : /\ alarms'[x].isRecurring /\ alarms'[x].isSet
                                     /\ alarms'[x].ringTimeInterval = interval[x]
    BY <1>1, <1>2, <1>5, <1>6 DEF ClockOK, Clock!Alarm
  <2> QED
    BY <1>1, <1>2, <1>5, <2>1 DEF ClockOK
<1>8. origin'[s] = ref /\ \A x \in DOMAIN alarms \ {s} : origin'[x] = origin[x]
  BY <1>1 DEF ClockOK
<1> QED
  BY <1>1, <1>4, <1>5, <1>6, <1>7, <1>8 DEF iv

\* A reset moves the previous ring time of a ringing alarm to the last time of its
\* series that has been reached, and leaves any other alarm as it is.
LEMMA AlarmReset ==
    ASSUME ClockOK, NEW s \in Streams, Clock!ResetClockAlarm(s, 0), UNCHANGED <<interval, startTime>>
    PROVE  /\ ClockOK' /\ UNCHANGED <<now, timeStep, origin>>
           /\ s \in DOMAIN alarms /\ DOMAIN alarms' = DOMAIN alarms
           /\ \A x \in DOMAIN alarms \ {s} : alarms'[x] = alarms[x]
           /\ Prev(s)' \in Int /\ (Prev(s)' - Prev(s)) % interval[s] = 0
           /\ now < Prev(s)' + interval[s]
           /\ IF Ringing(s) THEN Prev(s)' <= now ELSE Prev(s)' = Prev(s)
<1> DEFINE iv == interval[s]
           p == now - IntervalRemainder(now - Prev(s), iv)
<1>1. s \in DOMAIN alarms /\ UNCHANGED <<now, timeStep, direction, origin, interval, startTime>>
  BY DEF Clock!ResetClockAlarm, Clock!clockVars
<1>2. /\ alarms[s] \in Clock!Alarm /\ now \in Int /\ iv \in Nat \ {0} /\ Prev(s) \in Int
      /\ alarms[s].ringTimeInterval = iv /\ alarms[s].isRecurring /\ alarms[s].isSet
      /\ Ringing(s) <=> Prev(s) + iv <= now
  BY <1>1, RingingMeans DEF ClockOK
<1>3. Clock!InRingingEnvelope(alarms[s], 0) <=> Ringing(s)
  BY <1>1, <1>2 DEF Ringing, Clock!IsAlarmRinging
<1>4. Clock!Ahead(now, 0) = now
  BY <1>2 DEF Clock!Ahead
<1>5. Clock!ResetRingTime(alarms[s], now) = p
  BY <1>2, SameRemainder DEF Clock!ResetRingTime, ClockOK, Clock!Forward, Clock!MPAS_FORWARD, Prev
<1>6. alarms' = IF Ringing(s) THEN [alarms EXCEPT ![s].prevRingTime = p] ELSE alarms
  BY <1>2, <1>3, <1>4, <1>5 DEF Clock!ResetClockAlarm
<1>7. Prev(s) + iv <= now => p \in Int /\ p <= now /\ now < p + iv /\ (p - Prev(s)) % iv = 0
  BY <1>2, ResetMovesWithinSeries
<1>8. (Prev(s) - Prev(s)) % iv = 0
  BY <1>2, MultipleSelf
<1> HIDE DEF p, iv
<1>9. CASE Ringing(s)
  <2>1. /\ alarms'[s] = [alarms[s] EXCEPT !.prevRingTime = p]
        /\ DOMAIN alarms' = DOMAIN alarms
        /\ \A x \in DOMAIN alarms \ {s} : alarms'[x] = alarms[x]
    BY <1>1, <1>6, <1>9 DEF ClockOK
  <2>2. alarms'[s] \in Clock!Alarm /\ Prev(s)' = p
    BY <1>2, <1>7, <1>9, <2>1 DEF Clock!Alarm, Prev
  <2>3. /\ alarms' \in [DOMAIN alarms' -> Clock!Alarm]
        /\ \A x \in DOMAIN alarms' : /\ alarms'[x].isRecurring /\ alarms'[x].isSet
                                     /\ alarms'[x].ringTimeInterval = interval[x]
    BY <1>1, <1>2, <1>6, <1>9, <2>1, <2>2 DEF ClockOK, Clock!Alarm
  <2>4. ClockOK'
    BY <1>1, <2>1, <2>3 DEF ClockOK
  <2> QED
    BY <1>1, <1>2, <1>7, <1>9, <2>1, <2>2, <2>4 DEF iv
<1>10. CASE ~Ringing(s)
  <2>1. alarms' = alarms /\ Prev(s)' = Prev(s)
    BY <1>6, <1>10 DEF Prev
  <2>2. ClockOK'
    BY <1>1, <2>1 DEF ClockOK
  <2> QED
    BY <1>1, <1>2, <1>8, <1>10, <2>1, <2>2 DEF iv
<1> QED
  BY <1>9, <1>10

\* A time step changes the time only, and keeps it a whole number of steps.
LEMMA ClockAdvanced ==
    ASSUME ClockOK, Clock!AdvanceClock, UNCHANGED <<interval, startTime>>
    PROVE  /\ ClockOK' /\ UNCHANGED <<timeStep, alarms, origin>>
           /\ now' = now + timeStep /\ now' \in Nat /\ now' > now
<1>1. now' = now + timeStep /\ UNCHANGED <<timeStep, direction, alarms, origin, interval, startTime>>
  BY DEF Clock!AdvanceClock
<1>2. now' \in Nat /\ now' > now /\ startTime <= now'
  BY <1>1 DEF ClockOK
<1>3. (now' - startTime) % timeStep = 0
  <2>1. now \in Int /\ startTime \in Int /\ timeStep \in Nat \ {0} /\ (now - startTime) % timeStep = 0
    BY DEF ClockOK
  <2>2. ((now + timeStep) - startTime) % timeStep = 0
    BY <2>1, StepOfSeries
  <2> QED
    BY <1>1, <2>2
<1>4. ClockOK'
  BY <1>1, <1>2, <1>3 DEF ClockOK
<1> QED
  BY <1>1, <1>2, <1>4

-----------------------------------------------------------------------------
(* Control, the clock and the list of alarms *)

Base == ClockOK /\ ControlOK /\ AlarmsListed

\* The statements that leave the clock and its alarms alone.
ClockLeft ==
    \/ ReadICs \/ WriteStream \/ CheckWrite \/ OpenTimestamp \/ WriteTimestamp
    \/ ReadFirstLbc \/ Loop \/ ReadLbc \/ ReadSurface

LEMMA ClockLeftFacts ==
    ASSUME ClockLeft \/ UNCHANGED vars
    PROVE  UNCHANGED clock /\ UNCHANGED <<interval, startTime, do_restart, run>>
  BY DEF ClockLeft, ReadICs, WriteStream, CheckWrite, OpenTimestamp, WriteTimestamp,
         ReadFirstLbc, Loop, ReadLbc, ReadSurface, vars, fixed

\* A new run has a clock of its own.
LEMMA RestartFacts ==
    ASSUME Base, Restart
    PROVE  /\ ClockOK' /\ DOMAIN alarms' = {} /\ now' = startTime' /\ now' \in Nat
           /\ pc' = "add" /\ todo' = AllStreams /\ interval' = interval
<1>1. /\ timestamp # Empty
      /\ now' = IF timestamp = Missing THEN 0 ELSE timestamp
      /\ startTime' = now' /\ alarms' = [s \in {} |-> {}] /\ origin' = [s \in Streams |-> 0]
      /\ UNCHANGED <<timeStep, direction, interval>>
      /\ pc' = "add" /\ todo' = AllStreams
  BY DEF Restart, Goto
<1>2. now' \in Nat
  BY <1>1 DEF Base, ControlOK
<1>3. (now' - startTime') % timeStep' = 0
  <2>1. now' - startTime' = 0
    BY <1>1, <1>2
  <2> QED
    BY <1>1, <2>1, MultipleSelf DEF Base, ClockOK
<1>4. ClockOK'
  BY <1>1, <1>2, <1>3 DEF Base, ClockOK
<1> QED
  BY <1>1, <1>2, <1>4

\* The streams of which a loop visits the first one.
LEMMA TodoHead ==
    ASSUME ControlOK, pc \in Loops
    PROVE  Listing(todo) /\ Head(todo) \in Streams /\ Head(todo) \in Range(todo)
  BY ListingTail DEF ControlOK

LEMMA LoopMoves ==
    ASSUME ControlOK, pc \in Loops, NEW p, NEW ss, Looped(p, ss)
    PROVE  \/ /\ Len(todo) = 1 /\ Range(todo) = {Head(todo)} /\ Last(todo) = Head(todo)
              /\ pc' = p /\ todo' = ss
           \/ /\ pc' = pc /\ Listing(todo') /\ Last(todo') = Last(todo)
              /\ Range(todo') = Range(todo) \ {Head(todo)}
<1>1. Listing(todo)
  BY TodoHead
<1> QED
  BY <1>1, ListingTail DEF Looped, Goto

\* The first reading of every statement keeps control in the program.
LEMMA ControlNext ==
    ASSUME Base, [Next]_vars
    PROVE  ControlOK'
<1> USE DEF Goto, disk, history, fixed
<1> USE DEF Base
<1>1. ClockOK /\ ControlOK
  OBVIOUS
<1>2. CASE AddAlarm
  <2>1. /\ pc = "add" /\ pc' = "adjust" /\ todo' = todo
        /\ UNCHANGED <<ierr, attempted, restartFile, timestamp, startTime, interval>>
        /\ Clock!AddRecurringAlarm(Head(todo), now, interval[Head(todo)])
    BY <1>2 DEF AddAlarm
  <2>2. now' = now
    BY <2>1 DEF Clock!AddRecurringAlarm, Clock!Inserted, Clock!clockVars
  <2> QED
    BY <1>1, <2>1, <2>2 DEF ControlOK, Statements, Loops, Setup
<1>3. CASE AdjustAlarm
  <2>1. /\ pc = "adjust"
        /\ \/ Len(todo) = 1 /\ pc' = "read_ICs"
           \/ Len(todo) # 1 /\ pc' = "add" /\ todo' = Tail(todo)
        /\ UNCHANGED <<ierr, attempted, restartFile, timestamp, startTime, interval>>
        /\ \E ref : Clock!AdjustAlarmToReferenceTime(Head(todo), ref)
    BY <1>3 DEF AdjustAlarm
  <2>2. now' = now
    BY <2>1 DEF Clock!AdjustAlarmToReferenceTime, Clock!clockVars
  <2>3. Len(todo) # 1 => Listing(Tail(todo))
    BY <1>1, <2>1, TodoHead, ListingTail DEF Loops
  <2> QED
    BY <1>1, <2>1, <2>2, <2>3 DEF ControlOK, Statements, Loops, Setup
<1>4. CASE ReadICs
  <2>1. /\ pc = "read_ICs"
        /\ pc' = "aborted" \/ (pc' = "skip" /\ todo' = Skipped)
        /\ UNCHANGED <<ierr, attempted, restartFile, timestamp, startTime, do_restart, now>>
    BY <1>4 DEF ReadICs, clock
  <2>2. Listing(Skipped)
        /\ Range(Skipped) \subseteq {"restart"} \cup IF do_restart THEN {"output", "diagnostics"} ELSE {}
    BY SkippedListing
  <2> QED
    BY <1>1, <2>1, <2>2 DEF ControlOK, Statements, Loops, Setup
<1>5. CASE SkipOutput
  <2>1. /\ pc = "skip" /\ Looped("write", Outputs)
        /\ UNCHANGED <<ierr, attempted, restartFile, timestamp, startTime, do_restart>>
        /\ Clock!ResetClockAlarm(Head(todo), 0)
    BY <1>5 DEF SkipOutput
  <2>2. now' = now
    BY <2>1 DEF Clock!ResetClockAlarm, Clock!clockVars
  <2>3. \/ pc' = "write" /\ todo' = Outputs
        \/ pc' = "skip" /\ Listing(todo') /\ Range(todo') \subseteq Range(todo)
    BY <1>1, <2>1, LoopMoves DEF Loops
  <2>4. Listing(Outputs)
    BY OutputsListing
  <2> QED
    BY <1>1, <2>1, <2>2, <2>3, <2>4 DEF ControlOK, Statements, Loops, Setup
<1>6. CASE WriteStream
  <2> DEFINE s == Head(todo)
  <2>1. /\ pc = "write" /\ Looped("check", <<>>)
        /\ UNCHANGED <<timestamp, startTime, do_restart, now>>
        /\ ierr' = ierr \/ \E outcome \in Outcomes(s) : ierr' = LastError(outcome)
        /\ attempted' = attempted \/ attempted' = [attempted EXCEPT ![s] = @ \cup {now}]
    BY <1>6 DEF WriteStream, clock
  <2>2. restartFile' \subseteq restartFile \cup {now}
    <3>1. /\ restartFile' = restartFile
          \/ restartFile' = restartFile \cup {now}
          \/ restartFile' \in {restartFile, restartFile \cup {now}}
      BY <1>6 DEF WriteStream, Outcomes
    <3> QED
      BY <3>1
  <2>3. /\ s \in Range(Outputs) /\ Range(todo) \subseteq Range(Outputs)
    BY <1>1, <2>1, TodoHead DEF ControlOK, Loops
  <2>4. \/ pc' = "check"
        \/ /\ pc' = "write" /\ Listing(todo') /\ Last(todo') = Last(todo)
           /\ Range(todo') \subseteq Range(todo)
    BY <1>1, <2>1, LoopMoves DEF Loops
  <2>5. ierr' \in {"NOERR", "ERROR", "CLOBBER"}
    BY <1>1, <2>1 DEF ControlOK, LastError, Outcomes
  <2>6. now \in Nat
    BY <1>1 DEF ClockOK
  <2>7. attempted' \in [Range(Outputs) -> SUBSET Nat]
    BY <1>1, <2>1, <2>3, <2>6 DEF ControlOK
  <2> QED
    BY <1>1, <2>1, <2>2, <2>3, <2>4, <2>5, <2>6, <2>7 DEF ControlOK, Statements, Loops, Setup
<1>7. CASE CheckWrite
  <2>1. /\ pc = "check"
        /\ \/ pc' = "aborted"
           \/ pc' = "reset" /\ todo' = Outputs
           \/ pc' = "stamp" /\ now # startTime
        /\ UNCHANGED <<ierr, attempted, restartFile, timestamp, startTime, now>>
    BY <1>7 DEF CheckWrite, clock
  <2>2. Listing(Outputs)
    BY OutputsListing
  <2> QED
    BY <1>1, <2>1, <2>2 DEF ControlOK, Statements, Loops, Setup
<1>8. CASE OpenTimestamp \/ WriteTimestamp
  <2>1. /\ pc \in {"stamp", "stamping"}
        /\ pc' = "stamping" \/ (pc' = "reset" /\ todo' = Outputs)
        /\ UNCHANGED <<ierr, attempted, restartFile, startTime, now>>
        /\ timestamp' \in {Empty, timestamp, now}
    BY <1>8 DEF OpenTimestamp, WriteTimestamp, clock
  <2>2. Listing(Outputs) /\ now \in Nat
    BY <1>1, OutputsListing DEF ClockOK
  <2> QED
    BY <1>1, <2>1, <2>2 DEF ControlOK, Statements, Loops, Setup
<1>9. CASE ResetOutput
  <2>1. /\ pc = "reset" /\ Looped(IF now = startTime THEN "first_lbc" ELSE "loop", <<>>)
        /\ UNCHANGED <<ierr, attempted, restartFile, timestamp, startTime>>
        /\ Clock!ResetClockAlarm(Head(todo), 0)
    BY <1>9 DEF ResetOutput
  <2>2. now' = now
    BY <2>1 DEF Clock!ResetClockAlarm, Clock!clockVars
  <2>3. \/ pc' = IF now = startTime THEN "first_lbc" ELSE "loop"
        \/ pc' = "reset" /\ Listing(todo') /\ Range(todo') \subseteq Range(todo)
    BY <1>1, <2>1, LoopMoves DEF Loops
  <2> QED
    BY <1>1, <2>1, <2>2, <2>3 DEF ControlOK, Statements, Loops, Setup
<1>10. CASE ReadFirstLbc \/ Loop \/ ReadLbc \/ ReadSurface
  <2>1. /\ pc' \in {"loop", "aborted", "done", "lbc", "reset_lbc", "reset_surface", "advance"}
        /\ UNCHANGED <<ierr, attempted, restartFile, timestamp>>
    BY <1>10 DEF ReadFirstLbc, Loop, ReadLbc, ReadSurface
  <2> QED
    BY <1>1, <2>1 DEF ControlOK, Statements, Loops, Setup
<1>11. CASE ResetLbc \/ ResetSurface
  <2>1. /\ pc' \in {"surface", "advance"}
        /\ UNCHANGED <<ierr, attempted, restartFile, timestamp>>
    BY <1>11 DEF ResetLbc, ResetSurface
  <2> QED
    BY <1>1, <2>1 DEF ControlOK, Statements, Loops, Setup
<1>12. CASE Advance
  <2>1. /\ pc' = "write" /\ todo' = Outputs /\ ierr' = "NOERR"
        /\ UNCHANGED <<attempted, restartFile, timestamp>>
    BY <1>12 DEF Advance
  <2> QED
    BY <1>1, <2>1, OutputsListing DEF ControlOK, Statements, Loops, Setup
<1>13. CASE Restart
  <2>1. /\ ierr' = "NOERR" /\ attempted' = [s \in Range(Outputs) |-> {}]
        /\ UNCHANGED <<restartFile, timestamp>>
    BY <1>13 DEF Restart
  <2> QED
    BY <1>1, <1>13, <2>1, RestartFacts, AllStreamsListing DEF ControlOK, Statements, Loops, Setup
<1>14. CASE UNCHANGED vars
  <2>1. UNCHANGED <<now, pc, todo, ierr, attempted, restartFile, timestamp, startTime, do_restart>>
    BY <1>14 DEF vars, clock
  <2> QED
    BY <1>1, <2>1 DEF ControlOK, Listing
<1> QED
  BY <1>2, <1>3, <1>4, <1>5, <1>6, <1>7, <1>8, <1>9, <1>10, <1>11, <1>12, <1>13, <1>14
  DEF Next, Step

\* The statements that reset the alarm of a stream.
Resets(s) ==
    /\ Clock!ResetClockAlarm(s, 0) /\ UNCHANGED <<interval, startTime, do_restart, run>>
    /\ \/ SkipOutput /\ s = Head(todo)
       \/ ResetOutput /\ s = Head(todo)
       \/ ResetLbc /\ s = "lbc_in"
       \/ ResetSurface /\ s = "surface"

LEMMA ResetsFacts ==
    ASSUME ControlOK, SkipOutput \/ ResetOutput \/ ResetLbc \/ ResetSurface
    PROVE  \E s \in Streams : Resets(s)
<1>1. UNCHANGED <<interval, startTime, do_restart, run>>
  BY DEF SkipOutput, ResetOutput, ResetLbc, ResetSurface, fixed
<1>2. CASE SkipOutput
  <2>1. pc \in Loops /\ Clock!ResetClockAlarm(Head(todo), 0)
    BY <1>2 DEF SkipOutput, Loops
  <2>2. Head(todo) \in Streams
    BY <2>1, TodoHead
  <2> QED
    BY <1>1, <1>2, <2>1, <2>2 DEF Resets
<1>3. CASE ResetOutput
  <2>1. pc \in Loops /\ Clock!ResetClockAlarm(Head(todo), 0)
    BY <1>3 DEF ResetOutput, Loops
  <2>2. Head(todo) \in Streams
    BY <2>1, TodoHead
  <2> QED
    BY <1>1, <1>3, <2>1, <2>2 DEF Resets
<1>4. CASE ResetLbc
  <2>1. Clock!ResetClockAlarm("lbc_in", 0) /\ "lbc_in" \in Streams
    BY <1>4 DEF ResetLbc, Streams
  <2> QED
    BY <1>1, <1>4, <2>1 DEF Resets
<1>5. CASE ResetSurface
  <2>1. Clock!ResetClockAlarm("surface", 0) /\ "surface" \in Streams
    BY <1>5 DEF ResetSurface, Streams
  <2> QED
    BY <1>1, <1>5, <2>1 DEF Resets
<1> QED
  BY <1>2, <1>3, <1>4, <1>5

\* Every statement adds, adjusts or resets an alarm, advances the clock or leaves it.
LEMMA NextCases ==
    ASSUME ControlOK, [Next]_vars
    PROVE  \/ AddAlarm \/ AdjustAlarm \/ \E s \in Streams : Resets(s)
           \/ Advance \/ Restart \/ ClockLeft \/ UNCHANGED vars
  BY ResetsFacts DEF Next, Step, ClockLeft

LEMMA AddFacts ==
    ASSUME Base, AddAlarm
    PROVE  /\ pc = "add" /\ pc' = "adjust" /\ todo' = todo /\ Head(todo) \in Streams
           /\ Head(todo) \in Range(todo)
           /\ Clock!AddRecurringAlarm(Head(todo), now, interval[Head(todo)])
           /\ UNCHANGED <<interval, startTime, do_restart, run, attempted>>
  BY TodoHead DEF Base, AddAlarm, Goto, Loops, fixed, history

LEMMA AdjustFacts ==
    ASSUME Base, AdjustAlarm
    PROVE  /\ pc = "adjust" /\ Head(todo) \in Streams /\ now = startTime
           /\ \E ref \in {now, 0} : /\ Clock!AdjustAlarmToReferenceTime(Head(todo), ref)
                                    /\ Head(todo) \notin Range(Outputs) => ref = now
           /\ UNCHANGED <<interval, startTime, do_restart, run, attempted>>
           /\ Adjusted = Streams \ Range(todo) /\ Adjusted' = Adjusted \cup {Head(todo)}
           /\ pc' \in {"add", "read_ICs"}
<1>1. /\ pc = "adjust" /\ Listing(todo) /\ Head(todo) \in Streams /\ Head(todo) \in Range(todo)
      /\ now = startTime
  BY TodoHead DEF Base, AdjustAlarm, Loops, Setup, ControlOK
<1>2. /\ \E ref \in {now, 0} : /\ Clock!AdjustAlarmToReferenceTime(Head(todo), ref)
                               /\ Head(todo) \notin Range(Outputs) => ref = now
      /\ UNCHANGED <<interval, startTime, do_restart, run, attempted>>
  BY DEF AdjustAlarm, fixed, history
<1>3. \/ Len(todo) = 1 /\ pc' = "read_ICs"
      \/ Len(todo) # 1 /\ pc' = "add" /\ todo' = Tail(todo)
  BY DEF AdjustAlarm, Goto
<1>4. Adjusted = Streams \ Range(todo) /\ Adjusted' = Adjusted \cup {Head(todo)}
  <2>1. /\ Len(todo) = 1 => Range(todo) = {Head(todo)}
        /\ Len(todo) # 1 => Range(Tail(todo)) = Range(todo) \ {Head(todo)}
    BY <1>1, ListingTail
  <2>2. Streams' = Streams
    BY DEF Streams
  <2> QED
    BY <1>1, <1>3, <2>1, <2>2 DEF Adjusted
<1> QED
  BY <1>1, <1>2, <1>3, <1>4

LEMMA AdvanceFacts ==
    ASSUME Advance
    PROVE  /\ pc = "advance" /\ pc' = "write" /\ todo' = Outputs /\ Clock!AdvanceClock
           /\ ierr' = "NOERR"
           /\ UNCHANGED <<interval, startTime, do_restart, run, attempted, lbc, surface,
                          restartFile, timestamp>>
  BY DEF Advance, Goto, fixed, history, disk

\* The clock keeps its shape in every step.
LEMMA ClockNext ==
    ASSUME Base, [Next]_vars
    PROVE  ClockOK'
<1>1. ClockOK /\ ControlOK
  BY DEF Base
<1>2. CASE AddAlarm
  BY <1>1, <1>2, AddFacts, AlarmAdded
<1>3. CASE AdjustAlarm
  BY <1>1, <1>3, AdjustFacts, AlarmAdjusted
<1>4. ASSUME NEW s \in Streams, Resets(s) PROVE ClockOK'
  BY <1>1, <1>4, AlarmReset DEF Resets
<1>5. CASE Advance
  BY <1>1, <1>5, AdvanceFacts, ClockAdvanced
<1>6. CASE Restart
  BY <1>6, RestartFacts
<1>7. CASE ClockLeft \/ UNCHANGED vars
  BY <1>1, <1>7, ClockLeftFacts, ClockFramed
<1> QED
  BY <1>1, <1>2, <1>3, <1>4, <1>5, <1>6, <1>7, NextCases

\* Once the alarms are set up, no statement adds or adjusts one.
LEMMA SetUp ==
    ASSUME Advance \/ ClockLeft \/ \E s \in Streams : Resets(s)
    PROVE  pc \notin {"add", "adjust"} /\ pc' \notin {"add", "adjust"}
<1>1. CASE Advance
  BY <1>1, AdvanceFacts
<1>2. CASE ClockLeft
  BY <1>2 DEF ClockLeft, ReadICs, WriteStream, CheckWrite, OpenTimestamp, WriteTimestamp,
              ReadFirstLbc, Loop, ReadLbc, ReadSurface, Looped, Goto
<1>3. ASSUME NEW s \in Streams, Resets(s)
      PROVE  pc \notin {"add", "adjust"} /\ pc' \notin {"add", "adjust"}
  BY <1>3 DEF Resets, SkipOutput, ResetOutput, ResetLbc, ResetSurface, Looped, Goto
<1> QED
  BY <1>1, <1>2, <1>3

\* Which statements leave the adjusted streams the same.
LEMMA AdjustedFramed ==
    ASSUME Base,
           AddAlarm \/ Advance \/ ClockLeft \/ UNCHANGED vars \/ \E s \in Streams : Resets(s)
    PROVE  Adjusted' = Adjusted
<1>1. Streams' = Streams
  BY DEF Streams
<1>2. CASE AddAlarm
  BY <1>1, <1>2, AddFacts DEF Adjusted
<1>3. CASE UNCHANGED vars
  BY <1>1, <1>3 DEF Adjusted, vars
<1>4. CASE Advance \/ ClockLeft \/ \E s \in Streams : Resets(s)
  BY <1>1, <1>4, SetUp DEF Adjusted
<1> QED
  BY <1>2, <1>3, <1>4

\* The alarm of every adjusted stream stays in the series of its reference time.
LEMMA AlarmsListedNext ==
    ASSUME Base, [Next]_vars
    PROVE  AlarmsListed'
<1>1. ClockOK /\ ControlOK /\ AlarmsListed
  BY DEF Base
<1>2. CASE AddAlarm
  <2> DEFINE s == Head(todo)
  <2>1. /\ pc = "add" /\ pc' = "adjust" /\ todo' = todo /\ s \in Streams /\ s \in Range(todo)
        /\ interval' = interval /\ startTime' = startTime
        /\ DOMAIN alarms' = DOMAIN alarms \cup {s}
        /\ \A x \in DOMAIN alarms : alarms'[x] = alarms[x] /\ origin'[x] = origin[x]
    BY <1>1, <1>2, AddFacts, AlarmAdded
  <2>2. Adjusted' = Adjusted /\ DOMAIN alarms = Adjusted
    BY <1>1, <1>2, <2>1, AdjustedFramed DEF AlarmsListed
  <2> QED
    BY <1>1, <2>1, <2>2 DEF AlarmsListed, Prev
<1>3. CASE AdjustAlarm
  <2> PICK s \in Streams : s = Head(todo)
    BY <1>3, AdjustFacts
  <2>1. PICK ref \in {now, 0} : /\ Clock!AdjustAlarmToReferenceTime(s, ref)
                                /\ s \notin Range(Outputs) => ref = now
    BY <1>3, AdjustFacts
  <2>2. /\ pc = "adjust" /\ pc' \in {"add", "read_ICs"} /\ s \in Streams /\ now = startTime
        /\ UNCHANGED <<interval, startTime>> /\ Adjusted' = Adjusted \cup {s}
    BY <1>3, AdjustFacts
  <2>3. /\ DOMAIN alarms' = DOMAIN alarms
        /\ \A x \in DOMAIN alarms \ {s} : alarms'[x] = alarms[x] /\ origin'[x] = origin[x]
        /\ origin'[s] = ref /\ (Prev(s)' - ref) % interval[s] = 0
    BY <1>1, <2>1, <2>2, AlarmAdjusted
  <2>4. DOMAIN alarms' = Adjusted'
    BY <1>1, <2>2, <2>3 DEF AlarmsListed
  <2>5. s \in {"lbc_in", "surface"} => s \notin Range(Outputs)
    BY OutputsAssumption
  <2>6. \A x \in Adjusted \ {s} : x \in DOMAIN alarms \ {s}
    BY <1>1, <2>2 DEF AlarmsListed
  <2>7. \A x \in Adjusted' : (Prev(x)' - origin'[x]) % interval'[x] = 0
    <3> SUFFICES ASSUME NEW x \in Adjusted' PROVE (Prev(x)' - origin'[x]) % interval'[x] = 0
      OBVIOUS
    <3>1. CASE x = s
      BY <2>2, <2>3, <3>1
    <3>2. CASE x # s
      <4>1. x \in Adjusted /\ Prev(x)' = Prev(x) /\ origin'[x] = origin[x]
        BY <2>2, <2>3, <2>6, <3>2 DEF Prev
      <4> QED
        BY <1>1, <2>2, <4>1 DEF AlarmsListed
    <3> QED
      BY <3>1, <3>2
  <2>8. \A x \in Adjusted' \cap {"lbc_in", "surface"} : origin'[x] = startTime'
    BY <1>1, <2>1, <2>2, <2>3, <2>5, <2>6 DEF AlarmsListed
  <2>9. pc' # "adjust"
    BY <2>2
  <2> QED
    BY <2>4, <2>7, <2>8, <2>9 DEF AlarmsListed, Prev
<1>4. ASSUME NEW s \in Streams, Resets(s) PROVE AlarmsListed'
  <2>1. /\ UNCHANGED <<interval, startTime, origin>>
        /\ s \in DOMAIN alarms /\ DOMAIN alarms' = DOMAIN alarms
        /\ \A x \in DOMAIN alarms \ {s} : alarms'[x] = alarms[x]
        /\ Prev(s)' \in Int /\ (Prev(s)' - Prev(s)) % interval[s] = 0
    BY <1>1, <1>4, AlarmReset DEF Resets
  <2>2. Adjusted' = Adjusted /\ pc # "adjust" /\ pc' # "adjust"
    BY <1>1, <1>4, SetUp, AdjustedFramed DEF Base
  <2>3. DOMAIN alarms = Adjusted
    BY <1>1, <2>2 DEF AlarmsListed
  <2>4. (Prev(s) - origin[s]) % interval[s] = 0
    BY <1>1, <2>1, <2>3 DEF AlarmsListed
  <2>5. Prev(s) \in Int /\ origin[s] \in Int /\ interval[s] \in Nat \ {0}
    BY <1>1, <2>1, RingingMeans
  <2>6. (Prev(s)' - origin[s]) % interval[s] = 0
    BY <2>1, <2>4, <2>5, SameSeries
  <2>7. \A x \in Adjusted : (Prev(x)' - origin[x]) % interval[x] = 0
    BY <1>1, <2>1, <2>3, <2>6 DEF AlarmsListed, Prev
  <2> QED
    BY <1>1, <2>1, <2>2, <2>3, <2>7 DEF AlarmsListed
<1>5. CASE Advance
  <2>1. UNCHANGED <<interval, startTime, origin, alarms>> /\ pc = "advance" /\ pc' = "write"
    BY <1>1, <1>5, AdvanceFacts, ClockAdvanced
  <2>2. Adjusted' = Adjusted
    BY <1>5, AdjustedFramed
  <2> QED
    BY <1>1, <2>1, <2>2 DEF AlarmsListed, Prev
<1>6. CASE Restart
  <2>1. Adjusted' = {}
    BY <1>6, RestartFacts, AllStreamsListing DEF Adjusted, Streams
  <2> QED
    BY <1>6, <2>1, RestartFacts DEF AlarmsListed
<1>7. CASE ClockLeft
  <2>1. UNCHANGED <<interval, startTime, origin, alarms>>
    BY <1>1, <1>7, ClockLeftFacts, ClockFramed
  <2>2. Adjusted' = Adjusted /\ pc # "adjust" /\ pc' # "adjust"
    BY <1>7, SetUp, AdjustedFramed
  <2> QED
    BY <1>1, <2>1, <2>2 DEF AlarmsListed, Prev
<1>8. CASE UNCHANGED vars
  <2>1. UNCHANGED <<pc, todo, interval, startTime, origin, alarms>>
    BY <1>8 DEF vars, clock, fixed
  <2> QED
    BY <1>1, <2>1 DEF AlarmsListed, Adjusted, Prev, Streams
<1> QED
  BY <1>1, <1>2, <1>3, <1>4, <1>5, <1>6, <1>7, <1>8, NextCases

\* A run begins at time 0 with no alarms.
LEMMA InitBase == Init => Base
<1> SUFFICES ASSUME Init PROVE Base
  OBVIOUS
<1>1. /\ now = 0 /\ timeStep \in TimeSteps /\ direction = 1
      /\ alarms = [id \in {} |-> {}] /\ origin = [id \in Streams |-> 0]
      /\ pc = "add" /\ todo = AllStreams /\ ierr = "NOERR"
      /\ interval \in [Streams -> RingIntervals] /\ startTime = 0
      /\ restartFile = {} /\ timestamp = Missing
      /\ attempted = [s \in Range(Outputs) |-> {}]
  BY DEF Init, Clock!Init, Clock!MPAS_FORWARD
<1>2. (now - startTime) % timeStep = 0
  BY <1>1, MultipleSelf, IntervalsAssumption
<1>3. ClockOK
  <2>1. direction = 1 /\ timeStep \in Nat \ {0} /\ now \in Nat /\ startTime \in Nat /\ startTime <= now
    BY <1>1, IntervalsAssumption
  <2>2. interval \in [Streams -> Nat \ {0}] /\ origin \in [Streams -> Nat]
    BY <1>1, IntervalsAssumption
  <2>3. DOMAIN alarms = {} /\ alarms \in [DOMAIN alarms -> Clock!Alarm]
    BY <1>1
  <2> QED
    BY <1>2, <2>1, <2>2, <2>3 DEF ClockOK
<1>4. ControlOK
  BY <1>1, AllStreamsListing DEF ControlOK, Statements, Loops, Setup
<1>5. AlarmsListed
  <2>1. Adjusted = {}
    BY <1>1, AllStreamsListing DEF Adjusted
  <2> QED
    BY <1>1, <2>1 DEF AlarmsListed
<1> QED
  BY <1>3, <1>4, <1>5 DEF Base

LEMMA NextBase == Base /\ [Next]_vars => Base'
  BY ClockNext, ControlNext, AlarmsListedNext DEF Base

-----------------------------------------------------------------------------
(* Types *)

\* What Base says nothing about.
TypeInv ==
    /\ now <= MaxTime /\ nAlarms \in 0 .. Cardinality(Streams)
    /\ heard \in [Streams -> Int] /\ interval \in [Streams -> RingIntervals]
    /\ pc \notin Loops => todo = <<>>
    /\ run \in 1 .. MaxRuns
    /\ restartFile \subseteq 0 .. MaxTime /\ timestamp <= now

LEMMA StreamsCounted == Cardinality(Streams) \in Nat
<1>1. IsFiniteSet(Range(Outputs))
  <2>1. Outputs \in Seq(Range(Outputs)) /\ Range(Outputs) = {Outputs[i] : i \in 1 .. Len(Outputs)}
    BY OutputsAssumption DEF Range
  <2>2. IsFiniteSet(1 .. Len(Outputs))
    BY <2>1, FS_Interval
  <2>3. IsFiniteSet({Outputs[i] : i \in 1 .. Len(Outputs)})
    <3> DEFINE f == [i \in 1 .. Len(Outputs) |-> Outputs[i]]
    <3>1. f \in Surjection(1 .. Len(Outputs), {Outputs[i] : i \in 1 .. Len(Outputs)})
      BY DEF Surjection
    <3> QED
      BY <2>2, <3>1, FS_Surjection
  <2> QED
    BY <2>1, <2>3
<1>2. IsFiniteSet(Range(Outputs) \cup {"lbc_in"})
  BY <1>1, FS_AddElement
<1>3. IsFiniteSet((Range(Outputs) \cup {"lbc_in"}) \cup {"surface"})
  BY <1>2, FS_AddElement
<1>4. Streams = (Range(Outputs) \cup {"lbc_in"}) \cup {"surface"}
  BY DEF Streams
<1> QED
  BY <1>3, <1>4, FS_CardinalityType

\* A restart goes back to the time in the restart_timestamp file, which is not after
\* the present one; nothing else turns the clock back.
LEMMA TypeNext ==
    ASSUME Base, TypeInv, [Next]_vars
    PROVE  TypeInv'
<1>1. /\ ClockOK /\ ControlOK /\ ClockOK' /\ MaxTime \in Nat /\ Cardinality(Streams) \in Nat
      /\ now \in Nat
  BY ClockNext, StreamsCounted, StopAssumption DEF Base, ClockOK
<1>2. pc' \notin Loops => todo' = <<>>
  BY <1>1 DEF TypeInv, Next, Step, vars, AddAlarm, AdjustAlarm, ReadICs, SkipOutput, WriteStream,
     CheckWrite, OpenTimestamp, WriteTimestamp, ResetOutput, ReadFirstLbc, Loop, ReadLbc, ResetLbc,
     ReadSurface, ResetSurface, Advance, Restart, Goto, Looped, Loops
<1>3. ASSUME now' >= now, now' <= MaxTime, UNCHANGED <<interval, run>>,
             nAlarms' \in 0 .. Cardinality(Streams), heard' \in [Streams -> Int],
             restartFile' \subseteq restartFile \cup {now}, timestamp' \in {timestamp, Empty, now}
      PROVE  TypeInv'
  <2>1. now' \in Nat /\ Cardinality(Streams)' = Cardinality(Streams)
    BY <1>1 DEF ClockOK, Streams
  <2>2. restartFile' \subseteq 0 .. MaxTime
    BY <1>1, <1>3 DEF TypeInv
  <2>3. timestamp' <= now'
    BY <1>1, <1>3, <2>1 DEF TypeInv, ControlOK, Empty, Missing
  <2> QED
    BY <1>2, <1>3, <2>1, <2>2, <2>3 DEF TypeInv, Streams
<1>4. CASE AddAlarm
  <2>1. /\ Clock!AddRecurringAlarm(Head(todo), now, interval[Head(todo)])
        /\ UNCHANGED <<interval, run, restartFile, timestamp>>
    BY <1>4 DEF AddAlarm, fixed, disk
  <2>2. /\ nAlarms < Cardinality(Streams) /\ nAlarms' = nAlarms + 1 /\ now' = now
        /\ heard' = [heard EXCEPT ![Head(todo)] = now - 1]
    <3>1. Clock!Ahead(now, -1) = now - 1
      BY <1>1 DEF ClockOK, Clock!Ahead, Clock!Forward, Clock!MPAS_FORWARD
    <3> QED
      BY <2>1, <3>1 DEF Clock!AddRecurringAlarm, Clock!Inserted, Clock!clockVars
  <2>3. heard' \in [Streams -> Int] /\ nAlarms' \in 0 .. Cardinality(Streams)
    <3>1. heard \in [Streams -> Int] /\ now - 1 \in Int
      BY <1>1 DEF TypeInv
    <3>2. \A v \in Int : [heard EXCEPT ![Head(todo)] = v] \in [Streams -> Int]
      BY <3>1
    <3>3. heard' \in [Streams -> Int]
      BY <2>2, <3>1, <3>2
    <3>4. nAlarms \in 0 .. Cardinality(Streams)
      BY DEF TypeInv
    <3>5. nAlarms' \in 0 .. Cardinality(Streams)
      BY <1>1, <2>2, <3>4
    <3> QED
      BY <3>3, <3>5
  <2> QED
    BY <1>1, <1>3, <2>1, <2>2, <2>3 DEF TypeInv
<1>5. CASE AdjustAlarm
  <2>1. /\ \E ref \in {now, 0} : Clock!AdjustAlarmToReferenceTime(Head(todo), ref)
        /\ UNCHANGED <<interval, run, restartFile, timestamp>>
    BY <1>5 DEF AdjustAlarm, fixed, disk
  <2>2. PICK ref \in {now, 0} : Clock!AdjustAlarmToReferenceTime(Head(todo), ref)
    BY <2>1
  <2>3. /\ now' = now /\ nAlarms' = nAlarms
        /\ heard' = [heard EXCEPT ![Head(todo)] = IF now > ref THEN now ELSE now - 1]
    <3>1. now \in Int /\ ref \in Int /\ Clock!Forward
      BY <1>1 DEF ClockOK, Clock!Forward, Clock!MPAS_FORWARD
    <3>2. (IF Clock!Reached(now, ref) THEN Clock!Ahead(now, -1) ELSE now) =
             IF now > ref THEN now ELSE now - 1
      BY <3>1 DEF Clock!Reached, Clock!Ahead
    <3>3. /\ UNCHANGED <<now, nAlarms>>
          /\ heard' = [heard EXCEPT ![Head(todo)] =
                IF Clock!Reached(now, ref) THEN Clock!Ahead(now, -1) ELSE now]
      BY <2>2, Zenon DEF Clock!AdjustAlarmToReferenceTime, Clock!clockVars
    <3> QED
      BY <3>2, <3>3, Zenon
  <2>4. heard' \in [Streams -> Int]
    <3>1. heard \in [Streams -> Int] /\ (IF now > ref THEN now ELSE now - 1) \in Int
      BY <1>1 DEF TypeInv
    <3>2. \A v \in Int : [heard EXCEPT ![Head(todo)] = v] \in [Streams -> Int]
      BY <3>1
    <3> QED
      BY <2>3, <3>1, <3>2
  <2> QED
    BY <1>1, <1>3, <2>1, <2>3, <2>4 DEF TypeInv
<1>6. ASSUME NEW s \in Streams, Resets(s) PROVE TypeInv'
  <2>1. Clock!ResetClockAlarm(s, 0) /\ UNCHANGED <<interval, run, restartFile, timestamp>>
    BY <1>6 DEF Resets, SkipOutput, ResetOutput, ResetLbc, ResetSurface, disk
  <2>2. /\ now' = now /\ nAlarms' = nAlarms
        /\ heard' = [heard EXCEPT ![s] = now] \/ heard' = [heard EXCEPT ![s] = heard[s]]
    <3>1. Clock!Ahead(now, 0) = now
      BY <1>1 DEF ClockOK, Clock!Ahead, Clock!Forward, Clock!MPAS_FORWARD
    <3> QED
      BY <2>1, <3>1 DEF Clock!ResetClockAlarm, Clock!clockVars
  <2>3. heard' \in [Streams -> Int]
    BY <1>1, <2>2 DEF TypeInv
  <2> QED
    BY <1>1, <1>3, <2>1, <2>2, <2>3 DEF TypeInv
<1>7. CASE Advance
  <2>1. /\ now' = now + timeStep /\ now' \in 0 .. MaxTime /\ now' > now
        /\ UNCHANGED <<nAlarms, heard, interval, run, restartFile, timestamp>>
    BY <1>1, <1>7 DEF Advance, Clock!AdvanceClock, Clock!Times, fixed, disk, ClockOK
  <2> QED
    BY <1>1, <1>3, <2>1 DEF TypeInv
<1>8. CASE Restart
  <2>1. /\ run < MaxRuns /\ run' = run + 1 /\ timestamp # Empty
        /\ now' = IF timestamp = Missing THEN 0 ELSE timestamp
        /\ nAlarms' = 0 /\ heard' = [s \in Streams |-> 0]
        /\ UNCHANGED <<interval, restartFile, timestamp>>
    BY <1>8 DEF Restart, disk
  <2>2. now' <= now /\ timestamp <= now' /\ now' \in Nat
    BY <1>1, <2>1 DEF TypeInv, ControlOK, Missing, Empty
  <2>3. run' \in 1 .. MaxRuns
    BY <2>1, StopAssumption DEF TypeInv
  <2> QED
    BY <1>1, <1>2, <2>1, <2>2, <2>3 DEF TypeInv, Streams
<1>9. CASE ClockLeft \/ UNCHANGED vars
  <2>1. UNCHANGED <<now, nAlarms, heard, interval, run>>
    BY <1>9, ClockLeftFacts DEF clock
  <2>2. restartFile' \subseteq restartFile \cup {now}
    <3>1. CASE WriteStream
      BY <3>1 DEF WriteStream, Outcomes
    <3> QED
      BY <1>9, <3>1 DEF ClockLeft, ReadICs, CheckWrite, OpenTimestamp, WriteTimestamp,
         ReadFirstLbc, Loop, ReadLbc, ReadSurface, vars, disk
  <2>3. timestamp' \in {timestamp, Empty, now}
    BY <1>9 DEF ClockLeft, ReadICs, WriteStream, CheckWrite, OpenTimestamp, WriteTimestamp,
       ReadFirstLbc, Loop, ReadLbc, ReadSurface, vars, disk
  <2> QED
    BY <1>1, <1>3, <2>1, <2>2, <2>3 DEF TypeInv
<1> QED
  BY <1>1, <1>4, <1>5, <1>6, <1>7, <1>8, <1>9, NextCases

\* Clock, control and files hold values of their kinds, the clock stays within the bound
\* and no time is stamped that has not been reached, through all crashes and restarts
\* of mpas_atm_core.F.
THEOREM TypeCorrect == Spec => []TypeOK
<1>1. Init => TypeInv
  <2> SUFFICES ASSUME Init PROVE TypeInv
    OBVIOUS
  <2>1. /\ now = 0 /\ nAlarms = 0 /\ heard = [s \in Streams |-> 0] /\ pc = "add"
        /\ interval \in [Streams -> RingIntervals] /\ run = 1
        /\ restartFile = {} /\ timestamp = -1
    BY DEF Init, Clock!Init, Missing
  <2> QED
    BY <2>1, StreamsCounted, StopAssumption DEF TypeInv, Loops
<1>2. Base /\ TypeInv /\ [Next]_vars => TypeInv'
  BY TypeNext
<1>3. Base /\ TypeInv => TypeOK
  <2> SUFFICES ASSUME Base, TypeInv PROVE TypeOK
    OBVIOUS
  <2>1. ClockOK /\ ControlOK
    BY DEF Base
  <2>2. Range(todo) \subseteq Streams
    <3>1. CASE pc \in Loops
      <4>1. todo \in Seq(Streams)
        BY <2>1, <3>1, TodoHead DEF Listing
      <4> HIDE DEF Streams
      <4> QED
        BY <4>1 DEF Range
    <3>2. CASE pc \notin Loops
      BY <3>2, NoStream DEF TypeInv
    <3> QED
      BY <3>1, <3>2
  <2>3. Clock!TypeOK
    <3>1. now \in 0 .. MaxTime /\ direction = 1 /\ timeStep \in Int /\ timeStep > 0
      BY <2>1, StopAssumption DEF ClockOK, TypeInv
    <3>2. /\ DOMAIN alarms \subseteq Streams /\ alarms \in [DOMAIN alarms -> Clock!Alarm]
          /\ \A s \in DOMAIN alarms : alarms[s].isSet /\ alarms[s].ringTimeInterval \in RingIntervals
      BY <2>1 DEF ClockOK, TypeInv
    <3>3. origin \in [Streams -> Int] /\ heard \in [Streams -> Int]
      BY <2>1 DEF ClockOK, TypeInv
    <3>4. nAlarms \in 0 .. Cardinality(Streams)
      BY DEF TypeInv
    <3> QED
      BY <3>1, <3>2, <3>3, <3>4 DEF Clock!TypeOK, Clock!Times, Clock!Forward, Clock!MPAS_FORWARD,
                                    Clock!MPAS_BACKWARD
  <2>4. startTime \in 0 .. now
    BY <2>1 DEF ClockOK
  <2>5. timestamp \in {Missing, Empty} \cup 0 .. now
    BY <2>1 DEF ControlOK, ClockOK, TypeInv, Missing, Empty
  <2> QED
    BY <2>1, <2>2, <2>3, <2>4, <2>5 DEF TypeOK, ControlOK, TypeInv
<1> QED
  BY <1>1, <1>2, <1>3, InitBase, NextBase, PTL DEF Spec

-----------------------------------------------------------------------------
(* The time of the next run *)

LEMMA LastListed == \A q : Listing(q) => Last(q) \in Range(q)
<1> SUFFICES ASSUME NEW q, Listing(q) PROVE Last(q) \in Range(q)
  OBVIOUS
<1>1. q \in Seq(Streams) /\ Len(q) \in DOMAIN q
  <2> HIDE DEF Streams
  <2> QED
    BY DEF Listing
<1> QED
  BY <1>1 DEF Last, Range

\* No time is stamped before there is a restart record for it: a write of the restart
\* stream that leaves none is an error, and the error is still known when all
\* streams have been written.
LEMMA RecordNext ==
    ASSUME Unmasked, Base, RecordInv, [Next]_vars
    PROVE  RecordInv'
<1>1. ClockOK /\ ControlOK
  BY DEF Base
<1> DEFINE Quietly == /\ UNCHANGED <<restartFile, timestamp>>
                      /\ pc # "stamping" /\ pc' \notin {"write", "check", "stamp", "stamping"}
<1>2. ASSUME Quietly PROVE RecordInv'
  BY <1>2 DEF RecordInv
<1>3. ASSUME UNCHANGED <<restartFile, timestamp>>, pc # "stamping", pc' = "write", todo' = Outputs
      PROVE  RecordInv'
  BY <1>3, OutputsAssumption DEF RecordInv
<1>4. CASE AddAlarm \/ AdjustAlarm \/ ReadICs \/ ReadFirstLbc \/ Loop \/ ReadLbc \/ ResetLbc
           \/ ReadSurface \/ ResetSurface
  <2>1. Quietly
    BY <1>4 DEF AddAlarm, AdjustAlarm, ReadICs, ReadFirstLbc, Loop, ReadLbc, ResetLbc,
                ReadSurface, ResetSurface, Goto, disk
  <2> QED
    BY <1>2, <2>1
<1>5. CASE SkipOutput \/ ResetOutput
  <2>1. /\ UNCHANGED <<restartFile, timestamp>> /\ pc # "stamping"
        /\ \/ pc' \in {"skip", "reset", "first_lbc", "loop"}
           \/ pc' = "write" /\ todo' = Outputs
    BY <1>5 DEF SkipOutput, ResetOutput, Looped, Goto, disk
  <2> QED
    BY <1>2, <1>3, <2>1
<1>6. CASE Advance
  BY <1>3, <1>6, AdvanceFacts
<1>7. CASE Restart
  <2>1. UNCHANGED <<restartFile, timestamp>> /\ timestamp # Empty /\ pc' = "add"
    BY <1>7 DEF Restart, Goto, disk
  <2> QED
    BY <2>1 DEF RecordInv
<1>8. CASE UNCHANGED vars
  <2>1. UNCHANGED <<pc, todo, ierr, restartFile, timestamp>> /\ UNCHANGED <<clock, interval, startTime>>
    BY <1>8 DEF vars, fixed, disk
  <2>2. now' = now /\ (Ringing("restart")' <=> Ringing("restart"))
    BY <1>1, <2>1, ClockFramed
  <2> QED
    BY <2>1, <2>2 DEF RecordInv
<1>9. CASE WriteStream \/ CheckWrite \/ OpenTimestamp \/ WriteTimestamp
  <2>1. UNCHANGED <<clock, interval, startTime>>
    BY <1>9, ClockLeftFacts DEF ClockLeft
  <2>2. now' = now /\ (Ringing("restart")' <=> Ringing("restart"))
    BY <1>1, <2>1, ClockFramed
  <2>3. CASE CheckWrite
    <3>1. /\ pc = "check" /\ UNCHANGED <<ierr, restartFile, timestamp>>
          /\ \/ pc' \in {"aborted", "reset"}
             \/ pc' = "stamp" /\ ierr # "ERROR"
      BY <2>3 DEF CheckWrite, Goto, disk
    <3> QED
      BY <2>2, <3>1 DEF RecordInv
  <2>4. CASE OpenTimestamp
    <3>1. /\ pc = "stamp" /\ restartFile' = restartFile
          /\ \/ Ringing("restart") /\ timestamp' = Empty /\ pc' = "stamping"
             \/ timestamp' = timestamp /\ pc' = "reset"
      BY <2>4 DEF OpenTimestamp, Goto
    <3> QED
      BY <2>2, <3>1 DEF RecordInv
  <2>5. CASE WriteTimestamp
    <3>1. pc = "stamping" /\ restartFile' = restartFile /\ timestamp' = now /\ pc' = "reset"
      BY <2>5 DEF WriteTimestamp, Goto
    <3> QED
      BY <2>2, <3>1 DEF RecordInv
  <2>6. CASE WriteStream
    <3> PICK s \in Streams : s = Head(todo)
      BY <1>1, <2>6, TodoHead DEF WriteStream, Loops
    <3>1. /\ pc = "write" /\ timestamp' = timestamp /\ Looped("check", <<>>)
          /\ Listing(todo) /\ s \in Range(todo)
      BY <1>1, <2>6, TodoHead DEF WriteStream, Loops
    <3>2. \/ ~Ringing(s) /\ UNCHANGED <<ierr, restartFile>>
          \/ \E outcome \in {"NOERR", "ERROR", "CLOBBER"} :
               /\ ierr' = IF outcome # "NOERR" THEN outcome ELSE ierr
               /\ s # "restart" => restartFile' = restartFile
               /\ s = "restart" => \/ outcome = "NOERR" /\ now \in restartFile'
                                   \/ outcome = "ERROR"
               /\ outcome = "CLOBBER" => Refusable # {}
      BY <2>6 DEF WriteStream, LastError, Outcomes, Unmasked
    <3>3. restartFile \subseteq restartFile'
      BY <2>6 DEF WriteStream, Outcomes
    <3>4. \/ Range(todo) = {s} /\ Last(todo) = s /\ pc' = "check"
          \/ /\ pc' = "write" /\ Listing(todo') /\ Last(todo') = Last(todo)
             /\ Range(todo') = Range(todo) \ {s}
      BY <1>1, <3>1, LoopMoves DEF Loops
    <3>5. Last(todo) = Last(Outputs)
      BY <1>1, <3>1 DEF ControlOK
    <3>6. ASSUME s # "restart", ierr = "ERROR", ierr' # "ERROR"
          PROVE  pc' = "write" /\ "restart" \in Range(todo')
      <4>1. Last(Outputs) = "restart"
        BY <3>2, <3>6 DEF Unmasked
      <4> QED
        BY <3>4, <3>5, <3>6, <4>1, LastListed
    <3>7. ASSUME Ringing("restart"), ierr' # "ERROR"
          PROVE  now \in restartFile' \/ (pc' = "write" /\ "restart" \in Range(todo'))
      <4>1. CASE s = "restart"
        BY <3>2, <3>7, <4>1
      <4>2. CASE s # "restart"
        <5>1. CASE ierr = "ERROR"
          BY <3>6, <3>7, <4>2, <5>1
        <5>2. CASE ierr # "ERROR"
          BY <3>1, <3>3, <3>4, <3>7, <4>2, <5>2 DEF RecordInv
        <5> QED
          BY <5>1, <5>2
      <4> QED
        BY <4>1, <4>2
    <3> QED
      BY <2>2, <3>1, <3>3, <3>4, <3>7 DEF RecordInv
  <2> QED
    BY <1>9, <2>3, <2>4, <2>5, <2>6
<1> QED
  BY <1>4, <1>5, <1>6, <1>7, <1>8, <1>9 DEF Next, Step

\* Whenever a run crashes, the next one finds a restart record for the time in the
\* restart_timestamp file, and for the time whose stamp the crash has cut short
\* (TimestampHasRecord): a failed write of the restart stream ends the run before the
\* time is stamped.  Unmasked excepts the runs in which it does not: a refusal of a
\* later stream replaces the error, or the restart stream is itself refused, which
\* mpas_atm_core.F tolerates.
THEOREM RestartSafe ==
    ASSUME Unmasked
    PROVE  Spec => []TimestampHasRecord
<1>1. Init => RecordInv
  BY DEF Init, RecordInv
<1>2. Base /\ RecordInv /\ [Next]_vars => RecordInv'
  BY RecordNext
<1>3. Base /\ RecordInv => TimestampHasRecord
  <2> SUFFICES ASSUME Base, RecordInv PROVE TimestampHasRecord
    OBVIOUS
  <2>1. /\ restartFile \subseteq Nat /\ Missing = -1 /\ Empty = -2
        /\ timestamp \in {Missing, Empty} \cup Nat
    BY DEF Base, ControlOK, Missing, Empty
  <2>2. timestamp >= 0 => timestamp \in restartFile
    BY <2>1 DEF RecordInv
  <2>3. timestamp = Empty => now \in restartFile
    BY <2>1 DEF RecordInv
  <2> QED
    BY <2>2, <2>3 DEF TimestampHasRecord
<1> QED
  BY <1>1, <1>2, <1>3, InitBase, NextBase, PTL DEF Spec

-----------------------------------------------------------------------------
(* The surface fields *)

\* The clause on ringing alarms, of the present state and of the next one.
RingingLaw ==
    ClockOK => \A s \in DOMAIN alarms : Ringing(s) <=> Prev(s) + interval[s] <= now

LEMMA RingingLawHolds == RingingLaw
  BY RingingMeans DEF RingingLaw

LEMMA RingingLawNext == RingingLaw'
  BY RingingLawHolds, PTL

\* The last multiple of an interval that has been reached is the ring time of a series
\* of multiples that lies less than an interval back.
LEMMA LatestInSeries ==
    ASSUME NEW n \in Nat, NEW iv \in Nat \ {0}
    PROVE  LET l == (n \div iv) * iv
           IN  /\ l \in Nat /\ l <= n /\ n < l + iv
               /\ \A o, p \in Int : o % iv = 0 /\ (p - o) % iv = 0 /\ p <= n /\ n < p + iv => p = l
<1> DEFINE k == n \div iv
           l == k * iv
<1>1. k \in Int /\ n = (iv * k) + (n % iv) /\ n % iv \in 0 .. iv - 1
  BY ModDiv, ModRange
<1>2. l \in Int /\ l = iv * k /\ n = l + (n % iv)
  BY <1>1
<1> HIDE DEF k, l
<1>3. l % iv = 0
  <2>1. 0 \in 0 .. iv - 1
    OBVIOUS
  <2>2. ((iv * k) + 0) % iv = 0
    BY <1>1, <2>1, ModUnique
  <2>3. (iv * k) + 0 = l
    BY <1>2
  <2> QED
    BY <2>2, <2>3
<1>4. l <= n /\ n < l + iv
  BY <1>1, <1>2
<1>5. l >= 0
  <2> SUFFICES ASSUME l < 0 PROVE FALSE
    BY <1>2
  <2>1. 0 - l \in Int /\ 0 < 0 - l /\ (0 - l) % iv = 0
    BY <1>2, <1>3, MultipleSelf, MultipleSum
  <2>2. 0 - l >= iv
    BY <2>1, PositiveMultiple
  <2> QED
    BY <1>2, <1>4, <2>2
<1>6. ASSUME NEW o \in Int, NEW p \in Int, o % iv = 0, (p - o) % iv = 0, p <= n, n < p + iv
      PROVE  p = l
  <2>1. (l - 0) % iv = 0 /\ (p - 0) % iv = 0
    <3>1. p - o \in Int /\ (p - o) + o = p
      OBVIOUS
    <3>2. ((p - o) + o) % iv = 0
      BY <1>6, <3>1, MultipleSum
    <3> QED
      BY <1>2, <1>3, <3>1, <3>2
  <2>2. p < l => p + iv <= l
    BY <1>2, <2>1, 0 \in Int, NextOfSeries
  <2>3. l < p => l + iv <= p
    BY <1>2, <2>1, 0 \in Int, NextOfSeries
  <2> QED
    BY <1>2, <1>4, <1>6, <2>2, <2>3
<1> QED
  BY <1>2, <1>4, <1>5, <1>6 DEF l, k

\* What an input stream is read at, and where the reset leaves its alarm.
LEMMA LatestMeans ==
    ASSUME Base, NEW s \in Adjusted \cap {"lbc_in", "surface"}, startTime % interval[s] = 0
    PROVE  /\ s \in DOMAIN alarms /\ LatestBefore(s) \in Nat
           /\ LatestBefore(s) <= now /\ now < LatestBefore(s) + interval[s]
           /\ \A p \in Int : (p - Prev(s)) % interval[s] = 0 /\ p <= now /\ now < p + interval[s]
                                => p = LatestBefore(s)
<1>1. s \in DOMAIN alarms
  BY DEF Base, AlarmsListed
<1>2. /\ (Prev(s) - startTime) % interval[s] = 0 /\ startTime \in Int /\ now \in Nat
      /\ Prev(s) \in Int /\ interval[s] \in Nat \ {0}
  <2>1. Prev(s) \in Int /\ interval[s] \in Nat \ {0}
    BY <1>1, RingingMeans DEF Base
  <2> QED
    BY <2>1 DEF Base, AlarmsListed, ClockOK
<1>3. /\ LatestBefore(s) \in Nat
      /\ LatestBefore(s) <= now /\ now < LatestBefore(s) + interval[s]
      /\ \A o, p \in Int : o % interval[s] = 0 /\ (p - o) % interval[s] = 0
                              /\ p <= now /\ now < p + interval[s] => p = LatestBefore(s)
  BY <1>2, LatestInSeries DEF LatestBefore
<1>4. ASSUME NEW p \in Int, (p - Prev(s)) % interval[s] = 0, p <= now, now < p + interval[s]
      PROVE  p = LatestBefore(s)
  <2>1. (p - startTime) % interval[s] = 0
    BY <1>2, <1>4, SameSeries
  <2> QED
    BY <1>2, <1>3, <1>4, <2>1
<1> QED
  BY <1>1, <1>3, <1>4

\* A statement about another stream leaves the alarm of the stream s as it is.
LEMMA OtherAlarm ==
    ASSUME Base, ClockOK', NEW s \in DOMAIN alarms, s \in DOMAIN alarms',
           alarms'[s] = alarms[s], UNCHANGED <<now, interval>>
    PROVE  Prev(s)' = Prev(s) /\ (Ringing(s)' <=> Ringing(s))
<1>1. Prev(s)' = Prev(s)
  BY DEF Prev
<1>2. Ringing(s) <=> Prev(s) + interval[s] <= now
  BY RingingLawHolds DEF Base, RingingLaw
<1>3. Ringing(s)' <=> Prev(s)' + interval'[s] <= now'
  BY RingingLawNext DEF RingingLaw
<1> QED
  BY <1>1, <1>2, <1>3

\* Which statements leave the alarm of an input stream alone.
LEMMA InputAlarmLeft ==
    ASSUME Base, [Next]_vars, NEW s \in {"lbc_in", "surface"}, s \in Adjusted', ~Advance,
           ~(AdjustAlarm /\ s = Head(todo)),
           ~(ResetLbc /\ s = "lbc_in"), ~(ResetSurface /\ s = "surface")
    PROVE  /\ s \in Adjusted /\ Prev(s)' = Prev(s) /\ (Ringing(s)' <=> Ringing(s))
           /\ UNCHANGED <<now, startTime, interval>>
           /\ LatestBefore(s)' = LatestBefore(s)
<1>1. ClockOK /\ ControlOK /\ AlarmsListed /\ ClockOK' /\ s \in Streams
  BY ClockNext DEF Base, Streams
<1>2. ASSUME alarms'[s] = alarms[s], s \in DOMAIN alarms, s \in DOMAIN alarms', s \in Adjusted,
             UNCHANGED <<now, startTime, interval>>
      PROVE  /\ s \in Adjusted /\ Prev(s)' = Prev(s) /\ (Ringing(s)' <=> Ringing(s))
             /\ UNCHANGED <<now, startTime, interval>>
             /\ LatestBefore(s)' = LatestBefore(s)
  BY <1>2, ClockNext, OtherAlarm DEF LatestBefore
<1>3. s \in Adjusted => s \in DOMAIN alarms
  BY <1>1 DEF AlarmsListed
<1>4. CASE AddAlarm
  <2> PICK x \in Streams : x = Head(todo)
    BY <1>4, AddFacts
  <2>1. UNCHANGED <<now, startTime, interval>> /\ DOMAIN alarms \subseteq DOMAIN alarms'
        /\ \A y \in DOMAIN alarms : alarms'[y] = alarms[y]
    BY <1>1, <1>4, AddFacts, AlarmAdded
  <2>2. s \in Adjusted
    BY <1>4, AdjustedFramed
  <2> QED
    BY <1>2, <1>3, <2>1, <2>2
<1>5. CASE AdjustAlarm
  <2> PICK x \in Streams : x = Head(todo)
    BY <1>5, AdjustFacts
  <2>1. PICK ref \in {now, 0} : Clock!AdjustAlarmToReferenceTime(x, ref)
    BY <1>5, AdjustFacts
  <2>2. /\ UNCHANGED <<now, startTime, interval>> /\ DOMAIN alarms = DOMAIN alarms'
        /\ \A y \in DOMAIN alarms \ {x} : alarms'[y] = alarms[y]
    BY <1>1, <1>5, <2>1, AdjustFacts, AlarmAdjusted
  <2>3. s \in Adjusted /\ s # x
    BY <1>5, AdjustFacts
  <2> QED
    BY <1>2, <1>3, <2>2, <2>3
<1>6. ASSUME NEW x \in Streams, Resets(x)
      PROVE  /\ s \in Adjusted /\ Prev(s)' = Prev(s) /\ (Ringing(s)' <=> Ringing(s))
             /\ UNCHANGED <<now, startTime, interval>>
             /\ LatestBefore(s)' = LatestBefore(s)
  <2>1. /\ UNCHANGED <<now, startTime, interval>> /\ DOMAIN alarms = DOMAIN alarms'
        /\ \A y \in DOMAIN alarms \ {x} : alarms'[y] = alarms[y]
    BY <1>1, <1>6, AlarmReset DEF Resets
  <2>2. s \in Adjusted
    BY <1>6, AdjustedFramed
  <2>3. CASE SkipOutput \/ ResetOutput
    <3>1. /\ pc \in {"skip", "reset"} /\ Listing(todo) /\ Head(todo) \in Range(todo)
      BY <1>1, <2>3, TodoHead DEF SkipOutput, ResetOutput, Loops
    <3>2. Head(todo) \notin {"lbc_in", "surface"}
      BY <1>1, <3>1, OutputsAssumption DEF ControlOK
    <3>3. ~ResetLbc /\ ~ResetSurface
      BY <2>3 DEF SkipOutput, ResetOutput, ResetLbc, ResetSurface
    <3>4. s # x
      BY <1>6, <3>2, <3>3 DEF Resets
    <3> QED
      BY <1>2, <1>3, <2>1, <2>2, <3>4
  <2>4. CASE ~(SkipOutput \/ ResetOutput)
    <3>1. s # x
      BY <1>6, <2>4 DEF Resets
    <3> QED
      BY <1>2, <1>3, <2>1, <2>2, <3>1
  <2> QED
    BY <2>3, <2>4
<1>7. CASE Restart
  <2>1. s \notin Adjusted'
    <3>1. Streams' = Streams
      BY DEF Streams
    <3> QED
      BY <1>7, <3>1, RestartFacts, AllStreamsListing DEF Adjusted
  <2> QED
    BY <2>1
<1>8. CASE ClockLeft \/ UNCHANGED vars
  <2>1. UNCHANGED <<now, startTime, interval, alarms>>
    BY <1>8, ClockLeftFacts DEF clock
  <2>2. s \in Adjusted
    BY <1>8, AdjustedFramed
  <2> QED
    BY <1>2, <1>3, <2>1, <2>2
<1> QED
  BY <1>1, <1>4, <1>5, <1>6, <1>7, <1>8, NextCases

\* Once the surface fields are read the alarm is reset to the time they are for, and it
\* rings again when fields for a later time are due.
LEMMA SurfaceNext ==
    ASSUME Base, SurfaceInv, [Next]_vars
    PROVE  SurfaceInv'
<1> DEFINE iv == interval["surface"]
<1> SUFFICES ASSUME "surface" \in Adjusted', startTime' % interval'["surface"] = 0
             PROVE  /\ pc' = "reset_surface" => Ringing("surface")' /\ surface' = LatestBefore("surface")'
                    /\ pc' = "advance" => ~Ringing("surface")'
                    /\ pc' # "reset_surface" =>
                          \/ Ringing("surface")'
                          \/ surface' = Prev("surface")' /\ 0 <= surface' /\ surface' <= now'
  BY DEF SurfaceInv
<1>1. ClockOK /\ ControlOK /\ AlarmsListed /\ "surface" \in Streams
  BY DEF Base, Streams
<1>2. CASE AdjustAlarm /\ "surface" = Head(todo)
  <2>1. PICK ref \in {now, 0} : /\ Clock!AdjustAlarmToReferenceTime("surface", ref)
                                /\ "surface" \notin Range(Outputs) => ref = now
    BY <1>2, AdjustFacts
  <2>2. ref = now /\ interval' = interval /\ startTime' = startTime /\ pc' \in {"add", "read_ICs"}
    BY <1>2, <2>1, AdjustFacts, OutputsAssumption
  <2>3. /\ Prev("surface")' + interval["surface"] = now /\ now' = now
        /\ "surface" \in DOMAIN alarms' /\ Prev("surface")' \in Int
    BY <1>1, <2>1, <2>2, AlarmAdjusted
  <2>4. Ringing("surface")'
    <3>1. Ringing("surface")' <=> Prev("surface")' + interval'["surface"] <= now'
      BY <1>2, <2>3, ClockNext, RingingLawNext DEF RingingLaw
    <3> QED
      BY <1>1, <2>2, <2>3, <3>1 DEF ClockOK
  <2> QED
    BY <2>2, <2>4
<1>3. CASE ResetSurface
  <2>1. /\ pc = "reset_surface" /\ pc' = "advance" /\ Clock!ResetClockAlarm("surface", 0)
        /\ UNCHANGED <<interval, startTime, surface>>
    BY <1>3 DEF ResetSurface, Goto, fixed
  <2>2. "surface" \in Adjusted
    BY <1>1, <2>1 DEF Adjusted
  <2>3. Ringing("surface") /\ surface = LatestBefore("surface")
    BY <2>1, <2>2 DEF SurfaceInv
  <2>4. /\ Prev("surface")' \in Int /\ (Prev("surface")' - Prev("surface")) % iv = 0 /\ now' = now
        /\ Prev("surface")' <= now /\ now < Prev("surface")' + iv
        /\ "surface" \in DOMAIN alarms'
    BY <1>1, <2>1, <2>3, AlarmReset
  <2>5. /\ LatestBefore("surface") \in Nat /\ LatestBefore("surface") <= now
        /\ Prev("surface")' = LatestBefore("surface")
    <3>1. PICK p \in Int : p = Prev("surface")'
      BY <2>4
    <3>2. p = LatestBefore("surface") /\ LatestBefore("surface") \in Nat /\ LatestBefore("surface") <= now
      BY <2>1, <2>2, <2>4, <3>1, LatestMeans
    <3> QED
      BY <3>1, <3>2
  <2>6. ~Ringing("surface")'
    <3>1. Ringing("surface")' <=> Prev("surface")' + iv <= now
      BY <2>1, <2>4, ClockNext, RingingLawNext DEF RingingLaw
    <3>2. iv \in Int /\ now \in Int
      BY <1>1 DEF ClockOK
    <3> QED
      BY <2>4, <3>1, <3>2
  <2> QED
    BY <2>1, <2>3, <2>4, <2>5, <2>6
<1>4. CASE Advance
  <2>1. /\ pc = "advance" /\ pc' = "write" /\ UNCHANGED <<interval, startTime, surface, alarms>>
        /\ now' \in Nat /\ now < now'
    BY <1>1, <1>4, AdvanceFacts, ClockAdvanced
  <2>2. "surface" \in Adjusted
    BY <1>1, <2>1 DEF Adjusted
  <2>3. surface = Prev("surface") /\ 0 <= surface /\ surface <= now
    BY <2>1, <2>2 DEF SurfaceInv
  <2>4. Prev("surface")' = Prev("surface") /\ Prev("surface") \in Int /\ now \in Int
    BY <1>1, <2>1, <2>2, RingingMeans DEF Prev, AlarmsListed
  <2>5. surface' <= now'
    <3> PICK n \in Nat : n = now'
      BY <2>1
    <3> QED
      BY <2>1, <2>3, <2>4
  <2> QED
    BY <2>1, <2>3, <2>4, <2>5
<1>5. CASE ~Advance /\ ~(AdjustAlarm /\ "surface" = Head(todo)) /\ ~ResetSurface
  <2>1. /\ "surface" \in Adjusted /\ Prev("surface")' = Prev("surface")
        /\ Ringing("surface")' <=> Ringing("surface")
        /\ UNCHANGED <<now, startTime, interval>>
        /\ LatestBefore("surface")' = LatestBefore("surface")
    BY <1>5, InputAlarmLeft
  <2>2. startTime % interval["surface"] = 0
    BY <2>1
  <2>3. CASE ReadSurface
    <3>1. /\ pc = "surface"
          /\ \/ /\ Ringing("surface") /\ surface' = LatestBefore("surface")
                /\ pc' = "reset_surface"
             \/ Ringing("surface") /\ surface' = surface /\ pc' = "aborted"
             \/ ~Ringing("surface") /\ surface' = surface /\ pc' = "advance"
      BY <2>3 DEF ReadSurface, Goto
    <3> QED
      BY <2>1, <2>2, <3>1 DEF SurfaceInv
  <2>4. CASE UNCHANGED vars
    <3>1. UNCHANGED <<pc, surface>>
      BY <2>4 DEF vars
    <3> QED
      BY <2>1, <2>2, <3>1 DEF SurfaceInv
  <2>5. CASE ~ReadSurface /\ ~UNCHANGED vars /\ ~Restart
    <3>1. surface' = surface /\ pc # "reset_surface" /\ pc' \notin {"reset_surface", "advance"}
      BY <1>5, <2>5 DEF Next, Step, AddAlarm, AdjustAlarm, ReadICs, SkipOutput, WriteStream,
            CheckWrite, OpenTimestamp, WriteTimestamp, ResetOutput, ReadFirstLbc, Loop, ReadLbc,
            ResetLbc, Looped, Goto
    <3> QED
      BY <2>1, <2>2, <3>1 DEF SurfaceInv
  <2>6. CASE Restart
    <3>1. "surface" \notin Adjusted'
      <4>1. Streams' = Streams
        BY DEF Streams
      <4> QED
        BY <2>6, <4>1, RestartFacts, AllStreamsListing DEF Adjusted
    <3> QED
      BY <3>1
  <2> QED
    BY <2>3, <2>4, <2>5, <2>6
<1> QED
  BY <1>2, <1>3, <1>4, <1>5

\* A run that starts at a time there are surface fields for takes every time step with
\* the latest ones (SurfaceIsLatest).
THEOREM SurfaceFresh == Spec => []SurfaceIsLatest
<1>1. Init => SurfaceInv
  <2> SUFFICES ASSUME Init PROVE "surface" \notin Adjusted
    BY DEF SurfaceInv
  <2> QED
    BY AllStreamsListing DEF Init, Adjusted
<1>2. Base /\ SurfaceInv /\ [Next]_vars => SurfaceInv'
  BY SurfaceNext
<1>3. Base /\ SurfaceInv => SurfaceIsLatest
  <2> SUFFICES ASSUME Base, SurfaceInv, pc = "advance", startTime % interval["surface"] = 0
               PROVE  surface <= now /\ now < surface + interval["surface"] /\ surface >= 0
    BY DEF SurfaceIsLatest
  <2>1. "surface" \in Adjusted
    BY DEF Adjusted, Streams
  <2>2. ~Ringing("surface") /\ surface = Prev("surface") /\ 0 <= surface /\ surface <= now
    BY <2>1 DEF SurfaceInv
  <2>3. /\ Ringing("surface") <=> Prev("surface") + interval["surface"] <= now
        /\ Prev("surface") \in Int /\ interval["surface"] \in Nat /\ now \in Int
    BY <2>1, RingingMeans DEF Base, AlarmsListed
  <2> QED
    BY <2>2, <2>3
<1> QED
  BY <1>1, <1>2, <1>3, InitBase, NextBase, PTL DEF Spec

-----------------------------------------------------------------------------
(* The boundary states *)

LbcTyped == lbc \in [from : Int, to : Int]

LEMMA LbcTypedNext == Base /\ LbcTyped /\ [Next]_vars => LbcTyped'
<1> SUFFICES ASSUME Base, LbcTyped, [Next]_vars PROVE LbcTyped'
  OBVIOUS
<1>1. LatestBefore("lbc_in") \in Int /\ EarliestStrictlyAfter("lbc_in") \in Int
  <2>1. now \in Int /\ interval["lbc_in"] \in Nat \ {0}
    BY DEF Base, ClockOK, Streams
  <2>2. now \div interval["lbc_in"] \in Int
    BY <2>1, ModDiv
  <2> QED
    BY <2>1, <2>2 DEF LatestBefore, EarliestStrictlyAfter
<1>2. \/ lbc' = lbc
      \/ lbc' = [lbc EXCEPT !.to = LatestBefore("lbc_in")]
      \/ lbc' = [from |-> lbc.to, to |-> EarliestStrictlyAfter("lbc_in")]
      \/ lbc' = [lbc EXCEPT !.from = lbc.to]
      \/ lbc' = [from |-> Missing, to |-> Missing]
  BY DEF Next, Step, AddAlarm, AdjustAlarm, ReadICs, SkipOutput, WriteStream, CheckWrite,
         OpenTimestamp, WriteTimestamp, ResetOutput, ReadFirstLbc, Loop, ReadLbc, ResetLbc,
         ReadSurface, ResetSurface, Advance, Restart, vars
<1> QED
  BY <1>1, <1>2 DEF LbcTyped, Missing

\* The statements of the setting up and of the initial time.
Beginning ==
    pc \in Setup \cup {"first_lbc"} \/ (now = startTime /\ pc \in {"write", "check", "reset"})

\* The newer boundary state is for the next ring time of the alarm, so that the older
\* one is for a time that has been reached as soon as the alarm rings.
LEMMA LbcNext ==
    ASSUME Base, LbcTyped, LbcInv, [Next]_vars
    PROVE  LbcInv'
<1> DEFINE iv == interval["lbc_in"]
<1> SUFFICES ASSUME "lbc_in" \in Adjusted', startTime' % interval'["lbc_in"] = 0
             PROVE  IF Beginning' THEN Prev("lbc_in")' + interval'["lbc_in"] = startTime'
                    ELSE IF pc' = "reset_lbc"
                    THEN /\ 0 <= lbc'.from /\ lbc'.from <= now'
                         /\ lbc'.to = IF Ringing("lbc_in")' THEN EarliestStrictlyAfter("lbc_in")'
                                      ELSE Prev("lbc_in")' + interval'["lbc_in"]
                    ELSE pc' \notin {"aborted", "done"} =>
                         /\ lbc'.to = Prev("lbc_in")' + interval'["lbc_in"]
                         /\ 0 <= Prev("lbc_in")' + interval'["lbc_in"]
                         /\ (0 <= lbc'.from /\ lbc'.from <= now') \/ Ringing("lbc_in")'
                         /\ pc' \in {"surface", "reset_surface", "advance"} =>
                               (0 <= lbc'.from /\ lbc'.from <= now') /\ ~Ringing("lbc_in")'
  BY DEF LbcInv, Beginning
<1>1. ClockOK /\ ControlOK /\ AlarmsListed /\ "lbc_in" \in Streams /\ ClockOK'
  BY ClockNext DEF Base, Streams
<1>2. ASSUME "lbc_in" \in Adjusted
      PROVE  /\ "lbc_in" \in DOMAIN alarms
             /\ Ringing("lbc_in") <=> Prev("lbc_in") + iv <= now
             /\ Prev("lbc_in") \in Int /\ iv \in Nat \ {0} /\ now \in Int
  BY <1>1, <1>2, RingingMeans DEF AlarmsListed
<1>3. ASSUME "lbc_in" \in Adjusted, startTime % interval["lbc_in"] = 0
      PROVE  /\ Beginning => Prev("lbc_in") + iv = startTime
             /\ ~Beginning /\ pc = "reset_lbc" =>
                    /\ 0 <= lbc.from /\ lbc.from <= now
                    /\ lbc.to = IF Ringing("lbc_in") THEN EarliestStrictlyAfter("lbc_in")
                                ELSE Prev("lbc_in") + iv
             /\ ~Beginning /\ pc \notin {"reset_lbc", "aborted", "done"} =>
                    /\ lbc.to = Prev("lbc_in") + iv /\ 0 <= Prev("lbc_in") + iv
                    /\ (0 <= lbc.from /\ lbc.from <= now) \/ Ringing("lbc_in")
                    /\ pc \in {"surface", "reset_surface", "advance"} =>
                          (0 <= lbc.from /\ lbc.from <= now) /\ ~Ringing("lbc_in")
  BY <1>3 DEF LbcInv, Beginning
<1>4. CASE AdjustAlarm /\ "lbc_in" = Head(todo)
  <2>1. PICK ref \in {now, 0} : /\ Clock!AdjustAlarmToReferenceTime("lbc_in", ref)
                                /\ "lbc_in" \notin Range(Outputs) => ref = now
    BY <1>4, AdjustFacts
  <2>2. /\ ref = now /\ interval' = interval /\ startTime' = startTime
        /\ pc' \in {"add", "read_ICs"} /\ now = startTime
    BY <1>4, <2>1, AdjustFacts, OutputsAssumption
  <2>3. Prev("lbc_in")' + interval["lbc_in"] = now
    BY <1>1, <2>1, <2>2, AlarmAdjusted
  <2> QED
    BY <2>2, <2>3 DEF Beginning, Setup
<1>5. CASE ResetLbc
  <2>1. /\ pc = "reset_lbc" /\ pc' = "surface" /\ Clock!ResetClockAlarm("lbc_in", 0)
        /\ UNCHANGED <<interval, startTime, lbc>>
    BY <1>5 DEF ResetLbc, Goto, fixed
  <2>2. "lbc_in" \in Adjusted /\ ~Beginning /\ ~Beginning'
    BY <1>1, <2>1 DEF Adjusted, Beginning, Setup
  <2>3. /\ 0 <= lbc.from /\ lbc.from <= now
        /\ lbc.to = IF Ringing("lbc_in") THEN EarliestStrictlyAfter("lbc_in")
                    ELSE Prev("lbc_in") + iv
    BY <1>3, <2>1, <2>2
  <2>4. /\ Prev("lbc_in")' \in Int /\ (Prev("lbc_in")' - Prev("lbc_in")) % iv = 0 /\ now' = now
        /\ now < Prev("lbc_in")' + iv
        /\ IF Ringing("lbc_in") THEN Prev("lbc_in")' <= now ELSE Prev("lbc_in")' = Prev("lbc_in")
        /\ "lbc_in" \in DOMAIN alarms'
    BY <1>1, <2>1, AlarmReset
  <2>5. lbc.to = Prev("lbc_in")' + iv
    <3>1. CASE Ringing("lbc_in")
      <4>1. PICK p \in Int : p = Prev("lbc_in")'
        BY <2>4
      <4>2. p = LatestBefore("lbc_in")
        BY <2>1, <2>2, <2>4, <3>1, <4>1, LatestMeans
      <4> QED
        BY <2>3, <3>1, <4>1, <4>2 DEF EarliestStrictlyAfter
    <3>2. CASE ~Ringing("lbc_in")
      BY <2>3, <2>4, <3>2
    <3> QED
      BY <3>1, <3>2
  <2>6. 0 <= Prev("lbc_in")' + iv
    <3>1. now \in Nat /\ iv \in Nat
      BY <1>1 DEF ClockOK
    <3> QED
      BY <2>4, <3>1
  <2>7. ~Ringing("lbc_in")'
    <3>1. Ringing("lbc_in")' <=> Prev("lbc_in")' + iv <= now
      BY <1>1, <2>1, <2>4, RingingLawNext DEF RingingLaw
    <3>2. iv \in Int /\ now \in Int
      BY <1>1 DEF ClockOK
    <3> QED
      BY <2>4, <3>1, <3>2
  <2> QED
    BY <2>1, <2>2, <2>3, <2>4, <2>5, <2>6, <2>7
<1>6. CASE Advance
  <2>1. /\ pc = "advance" /\ pc' = "write" /\ UNCHANGED <<interval, startTime, lbc, alarms>>
        /\ now' \in Nat /\ now < now'
    BY <1>1, <1>6, AdvanceFacts, ClockAdvanced
  <2>2. "lbc_in" \in Adjusted /\ startTime <= now /\ startTime \in Nat /\ now \in Nat
    BY <1>1, <2>1 DEF Adjusted, ClockOK
  <2>3. ~Beginning /\ ~Beginning'
    <3> PICK n \in Nat : n = now'
      BY <2>1
    <3>1. n # startTime
      BY <2>1, <2>2
    <3> QED
      BY <2>1, <3>1 DEF Beginning, Setup
  <2>4. /\ lbc.to = Prev("lbc_in") + iv /\ 0 <= Prev("lbc_in") + iv
        /\ 0 <= lbc.from /\ lbc.from <= now
    BY <1>3, <2>1, <2>2, <2>3
  <2>5. Prev("lbc_in")' = Prev("lbc_in")
    BY <2>1 DEF Prev
  <2>6. lbc.from <= now'
    <3> PICK n \in Nat : n = now'
      BY <2>1
    <3> QED
      BY <2>1, <2>2, <2>4 DEF LbcTyped
  <2> QED
    BY <2>1, <2>3, <2>4, <2>5, <2>6
<1>7. CASE ~Advance /\ ~(AdjustAlarm /\ "lbc_in" = Head(todo)) /\ ~ResetLbc
  <2>1. /\ "lbc_in" \in Adjusted /\ Prev("lbc_in")' = Prev("lbc_in")
        /\ Ringing("lbc_in")' <=> Ringing("lbc_in")
        /\ UNCHANGED <<now, startTime, interval>>
        /\ LatestBefore("lbc_in")' = LatestBefore("lbc_in")
    BY <1>7, InputAlarmLeft
  <2>2. /\ startTime % interval["lbc_in"] = 0
        /\ EarliestStrictlyAfter("lbc_in")' = EarliestStrictlyAfter("lbc_in")
    BY <2>1 DEF EarliestStrictlyAfter
  <2>3. CASE ReadFirstLbc
    <3>1. /\ pc = "first_lbc"
          /\ \/ /\ Ringing("lbc_in") /\ lbc' = [lbc EXCEPT !.to = LatestBefore("lbc_in")]
                /\ pc' = "loop"
             \/ pc' = "aborted"
             \/ ~Ringing("lbc_in") /\ pc' = "loop"
      BY <2>3 DEF ReadFirstLbc, Goto
    <3>2. now = startTime /\ Prev("lbc_in") + iv = startTime
      BY <1>1, <1>3, <2>1, <2>2, <3>1 DEF ControlOK, Beginning
    <3>3. ~Beginning'
      BY <3>1 DEF Beginning, Setup
    <3>4. CASE pc' = "aborted"
      BY <3>3, <3>4
    <3>5. CASE pc' = "loop"
      <4>1. Ringing("lbc_in")
        BY <1>2, <2>1, <3>2
      <4>2. lbc' = [lbc EXCEPT !.to = LatestBefore("lbc_in")]
        BY <3>1, <3>5, <4>1
      <4>3. lbc'.to = LatestBefore("lbc_in")
        BY <4>2 DEF LbcTyped
      <4>4. now = LatestBefore("lbc_in") /\ now \in Nat
        <5>1. now \in Nat /\ iv \in Nat \ {0} /\ Prev("lbc_in") \in Int
          BY <1>1, <1>2, <2>1 DEF ClockOK
        <5>2. now - Prev("lbc_in") = iv /\ now < now + iv /\ now <= now
          BY <3>2, <5>1
        <5>3. (now - Prev("lbc_in")) % iv = 0
          BY <5>1, <5>2, MultipleSelf
        <5> QED
          BY <2>1, <2>2, <5>1, <5>2, <5>3, LatestMeans
      <4> QED
        BY <2>1, <3>2, <3>3, <3>5, <4>1, <4>3, <4>4
    <3> QED
      BY <3>1, <3>4, <3>5
  <2>4. CASE ReadLbc
    <3>1. /\ pc = "lbc"
          /\ \/ /\ Ringing("lbc_in") /\ pc' = "reset_lbc"
                /\ lbc' = [from |-> lbc.to, to |-> EarliestStrictlyAfter("lbc_in")]
             \/ pc' = "aborted"
             \/ ~Ringing("lbc_in") /\ lbc' = lbc /\ pc' = "reset_lbc"
      BY <2>4 DEF ReadLbc, Goto
    <3>2. ~Beginning /\ ~Beginning'
      BY <3>1 DEF Beginning, Setup
    <3>3. /\ lbc.to = Prev("lbc_in") + iv /\ 0 <= Prev("lbc_in") + iv
          /\ (0 <= lbc.from /\ lbc.from <= now) \/ Ringing("lbc_in")
      BY <1>3, <2>1, <2>2, <3>1, <3>2
    <3>4. CASE Ringing("lbc_in") /\ pc' = "reset_lbc"
      <4>1. lbc'.from = Prev("lbc_in") + iv /\ lbc'.to = EarliestStrictlyAfter("lbc_in")
        BY <3>1, <3>3, <3>4
      <4>2. Prev("lbc_in") + iv <= now
        BY <1>2, <2>1, <3>4
      <4> QED
        BY <2>1, <2>2, <3>2, <3>3, <3>4, <4>1, <4>2
    <3>5. CASE ~Ringing("lbc_in") /\ pc' = "reset_lbc"
      BY <2>1, <3>1, <3>2, <3>3, <3>5
    <3>6. CASE pc' = "aborted"
      BY <3>2, <3>6
    <3> QED
      BY <3>1, <3>4, <3>5, <3>6
  <2>5. CASE ReadSurface \/ ResetSurface \/ Loop
    <3>1. /\ lbc' = lbc /\ pc \in {"surface", "reset_surface", "loop"}
          /\ \/ /\ pc \in {"surface", "reset_surface"}
                /\ pc' \in {"reset_surface", "advance", "aborted"}
             \/ pc' \in {"lbc", "done"}
      BY <2>5 DEF ReadSurface, ResetSurface, Loop, Goto
    <3>2. ~Beginning /\ ~Beginning'
      BY <3>1 DEF Beginning, Setup
    <3> QED
      BY <1>3, <2>1, <2>2, <3>1, <3>2
  <2>6. CASE AddAlarm \/ AdjustAlarm \/ ReadICs \/ SkipOutput
    <3>1. /\ lbc' = lbc /\ pc \in Setup /\ now = startTime
          /\ pc' \in Setup \cup {"write", "aborted"}
      BY <1>1, <2>6 DEF AddAlarm, AdjustAlarm, ReadICs, SkipOutput, Looped, Goto, Setup, ControlOK
    <3>2. Beginning /\ (pc' # "aborted" => Beginning')
      BY <2>1, <3>1 DEF Beginning
    <3>3. pc' = "aborted" => ~Beginning'
      BY DEF Beginning, Setup
    <3> QED
      BY <1>3, <2>1, <2>2, <3>1, <3>2, <3>3
  <2>7. CASE WriteStream \/ CheckWrite \/ OpenTimestamp \/ WriteTimestamp \/ ResetOutput
    <3>1. /\ lbc' = lbc /\ pc \in {"write", "check", "stamp", "stamping", "reset"}
          /\ pc' \in {"write", "check", "stamp", "stamping", "reset", "first_lbc", "loop", "aborted"}
          /\ pc' = "first_lbc" => pc = "reset" /\ now = startTime
          /\ pc' = "loop" => pc = "reset" /\ now # startTime
          /\ pc' \in {"stamp", "stamping"} => now # startTime
          /\ pc \in {"stamp", "stamping"} => now # startTime
      BY <1>1, <2>7 DEF WriteStream, CheckWrite, OpenTimestamp, WriteTimestamp, ResetOutput, Looped,
                        Goto, ControlOK
    <3>2. Beginning <=> now = startTime
      BY <3>1 DEF Beginning, Setup
    <3>3. pc' # "aborted" => (Beginning' <=> now = startTime)
      BY <2>1, <3>1 DEF Beginning, Setup
    <3>4. pc' = "aborted" => ~Beginning'
      BY DEF Beginning, Setup
    <3> QED
      BY <1>3, <2>1, <2>2, <3>1, <3>2, <3>3, <3>4
  <2>8. CASE UNCHANGED vars
    <3>1. UNCHANGED <<pc, lbc>>
      BY <2>8 DEF vars
    <3>2. Beginning' <=> Beginning
      BY <2>1, <3>1 DEF Beginning
    <3> QED
      BY <1>3, <2>1, <2>2, <3>1, <3>2
  <2>9. CASE Restart
    <3>1. "lbc_in" \notin Adjusted'
      <4>1. Streams' = Streams
        BY DEF Streams
      <4> QED
        BY <2>9, <4>1, RestartFacts, AllStreamsListing DEF Adjusted
    <3> QED
      BY <3>1
  <2> QED
    BY <1>7, <2>3, <2>4, <2>5, <2>6, <2>7, <2>8, <2>9 DEF Next, Step
<1> QED
  BY <1>4, <1>5, <1>6, <1>7

\* A run that starts at a time there are boundary states for takes every time step with
\* two of them that lie on either side of it (LbcCoversStep).
THEOREM LbcCovers == Spec => []LbcCoversStep
<1>1. Init => LbcInv /\ LbcTyped
  <2> SUFFICES ASSUME Init PROVE "lbc_in" \notin Adjusted /\ LbcTyped
    BY DEF LbcInv
  <2>1. "lbc_in" \notin Adjusted
    BY AllStreamsListing DEF Init, Adjusted
  <2>2. LbcTyped
    BY DEF Init, LbcTyped, Missing
  <2> QED
    BY <2>1, <2>2
<1>2. Base /\ LbcTyped /\ LbcInv /\ [Next]_vars => LbcInv'
  BY LbcNext
<1>3. Base /\ LbcTyped /\ LbcInv => LbcCoversStep
  <2> SUFFICES ASSUME Base, LbcTyped, LbcInv, pc = "advance", startTime % interval["lbc_in"] = 0
               PROVE  lbc.from <= now /\ now < lbc.to /\ lbc.from >= 0
    BY DEF LbcCoversStep
  <2>1. "lbc_in" \in Adjusted
    BY DEF Adjusted, Streams
  <2>2. /\ ~Ringing("lbc_in") /\ lbc.to = Prev("lbc_in") + interval["lbc_in"]
        /\ 0 <= lbc.from /\ lbc.from <= now
    BY <2>1 DEF LbcInv, Setup
  <2>3. /\ Ringing("lbc_in") <=> Prev("lbc_in") + interval["lbc_in"] <= now
        /\ Prev("lbc_in") \in Int /\ interval["lbc_in"] \in Nat /\ now \in Int
    BY <2>1, RingingMeans DEF Base, AlarmsListed
  <2> QED
    BY <2>2, <2>3 DEF LbcTyped
<1> QED
  BY <1>1, <1>2, <1>3, InitBase, NextBase, LbcTypedNext, PTL DEF Spec

-----------------------------------------------------------------------------
(* The schedule of the output *)

\* The time step that comes to a time r of its last stretch.
LEMMA StepReached ==
    ASSUME ClockOK, NEW r \in Int, now - timeStep < r, r <= now
    PROVE  StepAtOrAfter(r) = now
<1> DEFINE d == timeStep
           q == (now - startTime) \div d
           e == r - now + d - 1
           a == r - startTime + d - 1
<1>1. /\ now \in Int /\ startTime \in Int /\ d \in Nat \ {0} /\ now - startTime \in Int
      /\ (now - startTime) % d = 0
  BY DEF ClockOK
<1>2. q \in Int /\ now - startTime = (d * q) + 0
  BY <1>1, ModDiv
<1>3. e \in 0 .. d - 1 /\ a \in Int /\ a = (now - startTime) + e
  BY <1>1
<1> HIDE DEF q, e, d, a
<1>4. d * q \in Int /\ a = (d * q) + e
  BY <1>1, <1>2, <1>3
<1>5. a % d = e
  BY <1>1, <1>2, <1>3, <1>4, ModUnique
<1>6. a \div d \in Int /\ a = (d * (a \div d)) + e
  BY <1>1, <1>3, <1>5, ModDiv
<1>7. (a \div d) * d = now - startTime
  <2> PICK x \in Int : x = a \div d
    BY <1>6
  <2>1. d * x \in Int /\ x * d = d * x
    BY <1>1
  <2> QED
    BY <1>1, <1>2, <1>3, <1>4, <1>6, <2>1
<1> QED
  BY <1>1, <1>7 DEF StepAtOrAfter, a, d

\* The time step a time is written at is not before it.
LEMMA StepNotBefore ==
    ASSUME ClockOK, NEW r \in Int
    PROVE  r <= StepAtOrAfter(r) /\ StepAtOrAfter(r) \in Int
<1> DEFINE d == timeStep
           a == r - startTime + d - 1
<1>1. d \in Nat \ {0} /\ startTime \in Int /\ a \in Int
  BY DEF ClockOK
<1>2. a \div d \in Int /\ a = (d * (a \div d)) + (a % d) /\ a % d \in 0 .. d - 1
  BY <1>1, ModDiv, ModRange
<1>3. StepAtOrAfter(r) = startTime + (a \div d) * d
  BY DEF StepAtOrAfter
<1> PICK x \in Int : x = a \div d
  BY <1>2
<1> PICK m \in 0 .. d - 1 : m = a % d
  BY <1>2
<1>4. x * d = d * x /\ d * x \in Int
  BY <1>1
<1>5. a = (d * x) + m /\ StepAtOrAfter(r) = startTime + d * x
  BY <1>2, <1>3, <1>4
<1> QED
  BY <1>1, <1>4, <1>5

\* The times a stream is due at in the last time step.
NewlyDue(s) == {t \in DueTimes(s, now) : now - timeStep < t}

LEMMA DueSplit ==
    ASSUME ClockOK, NEW s \in DOMAIN alarms, now # startTime, QuietBefore(s),
           (Prev(s) - origin[s]) % interval[s] = 0
    PROVE  /\ DueTimes(s, now) = DueTimes(s, now - timeStep) \cup NewlyDue(s)
           /\ Ringing(s) <=> NewlyDue(s) # {}
           /\ \A r \in NewlyDue(s) : StepAtOrAfter(r) = now
<1> DEFINE iv == interval[s]
           b == now - timeStep
<1>1. /\ now \in Nat /\ startTime \in Nat /\ startTime <= now /\ timeStep \in Nat \ {0}
      /\ (now - startTime) % timeStep = 0
  BY DEF ClockOK
<1>2. /\ Ringing(s) <=> Prev(s) + iv <= now
      /\ Prev(s) \in Int /\ iv \in Nat \ {0} /\ origin[s] \in Int
  BY RingingMeans
<1>3. b \in Nat /\ startTime <= b /\ b < now
  <2>1. now - startTime \in Int /\ 0 < now - startTime
    BY <1>1
  <2>2. now - startTime >= timeStep
    BY <1>1, <2>1, PositiveMultiple
  <2> QED
    BY <1>1, <2>2
<1>4. Prev(s) <= b /\ b < Prev(s) + iv
  BY DEF QuietBefore
<1> HIDE DEF iv, b
<1>5. DueTimes(s, now) = DueTimes(s, b) \cup NewlyDue(s)
  <2>1. ASSUME NEW t PROVE t \in DueTimes(s, now) <=> t \in DueTimes(s, b) \cup NewlyDue(s)
    <3>1. t \in 0 .. b => t \in 0 .. now
      BY <1>1, <1>3
    <3>2. t \in 0 .. now => t \in 0 .. b \/ b < t
      BY <1>1, <1>3
    <3> QED
      BY <3>1, <3>2 DEF DueTimes, NewlyDue, b
  <2> QED
    BY <2>1
<1>6. \A r \in NewlyDue(s) : StepAtOrAfter(r) = now
  <2> SUFFICES ASSUME NEW r \in NewlyDue(s) PROVE StepAtOrAfter(r) = now
    OBVIOUS
  <2>1. r \in Int /\ now - timeStep < r /\ r <= now
    BY <1>1 DEF NewlyDue, DueTimes
  <2> QED
    BY <2>1, StepReached
<1>7. ASSUME Ringing(s) PROVE NewlyDue(s) # {}
  <2> DEFINE t == Prev(s) + iv
  <2>1. t \in Int /\ t <= now /\ b < t
    BY <1>2, <1>3, <1>4, <1>7
  <2>2. (t - origin[s]) % iv = 0
    <3>1. (Prev(s) - origin[s]) % iv = 0
      BY DEF iv
    <3> QED
      BY <1>2, <3>1, StepOfSeries
  <2>3. t \in 0 .. now /\ startTime < t
    BY <1>1, <1>3, <2>1
  <2>4. t \in NewlyDue(s)
    BY <2>1, <2>2, <2>3 DEF NewlyDue, DueTimes, iv, b
  <2> QED
    BY <2>4
<1>8. ASSUME ~Ringing(s) PROVE NewlyDue(s) = {}
  <2> SUFFICES ASSUME NEW t \in NewlyDue(s) PROVE FALSE
    OBVIOUS
  <2>1. t \in Int /\ b < t /\ t <= now /\ (t - origin[s]) % iv = 0
    BY <1>1 DEF NewlyDue, DueTimes, iv, b
  <2>2. Prev(s) < t /\ (Prev(s) - origin[s]) % iv = 0
    BY <1>2, <1>3, <1>4, <2>1 DEF iv
  <2>3. Prev(s) + iv <= t
    BY <1>2, <2>1, <2>2, NextOfSeries
  <2> QED
    BY <1>1, <1>2, <1>8, <2>1, <2>3
<1> QED
  BY <1>5, <1>6, <1>7, <1>8 DEF b

\* A stream whose alarm has been reset in time is written now exactly if it is due at
\* the present time step.
LEMMA WriteDecides ==
    ASSUME ClockOK, NEW s \in DOMAIN alarms, BeforeOutput(s),
           (Prev(s) - origin[s]) % interval[s] = 0
    PROVE  Schedule(s, now) = WrittenBefore(s) \cup IF Ringing(s) THEN {now} ELSE {}
<1>1. /\ now \in Nat /\ startTime \in Nat
      /\ Ringing(s) <=> Prev(s) + interval[s] <= now
      /\ Prev(s) \in Int /\ interval[s] \in Nat \ {0}
  BY RingingMeans DEF ClockOK
<1>2. CASE now = startTime
  <2>1. DueTimes(s, now) = {}
    BY <1>1, <1>2 DEF DueTimes
  <2>2. Wanted(s) <=> Ringing(s)
    BY <1>1, <1>2 DEF BeforeOutput, AtStart, Quiet
  <2> QED
    BY <1>2, <2>1, <2>2 DEF Schedule, WrittenBefore
<1>3. CASE now # startTime
  <2> DEFINE old == DueTimes(s, now - timeStep)
  <2>1. /\ DueTimes(s, now) = old \cup NewlyDue(s)
        /\ Ringing(s) <=> NewlyDue(s) # {}
        /\ \A r \in NewlyDue(s) : StepAtOrAfter(r) = now
    BY <1>3, DueSplit DEF BeforeOutput
  <2> HIDE DEF old
  <2>2. {StepAtOrAfter(r) : r \in DueTimes(s, now)} =
           {StepAtOrAfter(r) : r \in old} \cup IF Ringing(s) THEN {now} ELSE {}
    BY <2>1
  <2> QED
    BY <1>3, <2>2 DEF Schedule, WrittenBefore, old
<1> QED
  BY <1>2, <1>3

\* An alarm whose reset is at hand is not ahead of the clock.
LEMMA NotAhead ==
    ASSUME ClockOK, NEW s \in DOMAIN alarms, BeforeOutput(s)
    PROVE  Prev(s) <= now
<1>1. /\ now \in Nat /\ startTime \in Nat /\ timeStep \in Nat \ {0}
      /\ Prev(s) \in Int /\ interval[s] \in Nat \ {0}
  BY RingingMeans DEF ClockOK
<1> QED
  BY <1>1 DEF BeforeOutput, AtStart, Quiet, QuietBefore

\* What is said of a stream depends on its alarm and on the clock only.
LEMMA StreamFramed ==
    ASSUME NEW s, Prev(s)' = Prev(s), origin'[s] = origin[s],
           UNCHANGED <<now, timeStep, startTime, do_restart, interval>>
    PROVE  /\ Fresh(s)' <=> Fresh(s)
           /\ AtStart(s)' <=> AtStart(s)
           /\ Quiet(s)' <=> Quiet(s)
           /\ BeforeOutput(s)' <=> BeforeOutput(s)
           /\ WrittenBefore(s)' = WrittenBefore(s)
           /\ Schedule(s, now)' = Schedule(s, now)
<1>1. Quiet(s)' <=> Quiet(s)
  BY DEF Quiet
<1>2. Wanted(s)' <=> Wanted(s)
  BY DEF Wanted
<1>3. (Fresh(s)' <=> Fresh(s)) /\ (AtStart(s)' <=> AtStart(s))
  BY <1>1, <1>2 DEF Fresh, AtStart
<1>4. BeforeOutput(s)' <=> BeforeOutput(s)
  BY <1>3 DEF BeforeOutput, QuietBefore
<1>5. WrittenBefore(s)' = WrittenBefore(s) /\ Schedule(s, now)' = Schedule(s, now)
  BY <1>2 DEF WrittenBefore, Schedule, DueTimes, StepAtOrAfter
<1> QED
  BY <1>1, <1>3, <1>4, <1>5

\* The statements that move the alarm of the output stream s, or the clock.
Moves(s) ==
    \/ Advance \/ Restart
    \/ (AdjustAlarm \/ SkipOutput \/ ResetOutput) /\ s = Head(todo)

\* Every other statement leaves the alarm alone.
LEMMA OutputAlarmLeft ==
    ASSUME Base, [Next]_vars, NEW s \in Range(Outputs), s \in Adjusted', ~Moves(s)
    PROVE  /\ s \in Adjusted /\ Prev(s)' = Prev(s) /\ origin'[s] = origin[s]
           /\ UNCHANGED <<now, timeStep, startTime, do_restart, interval>>
<1>1. ClockOK /\ ControlOK /\ AlarmsListed /\ s \in Streams
  BY DEF Base, Streams
<1>2. s \in Adjusted => s \in DOMAIN alarms
  BY <1>1 DEF AlarmsListed
<1>3. CASE AddAlarm
  <2> PICK x \in Streams : x = Head(todo)
    BY <1>3, AddFacts
  <2>1. /\ UNCHANGED <<now, timeStep, startTime, do_restart, interval>>
        /\ \A y \in DOMAIN alarms : alarms'[y] = alarms[y] /\ origin'[y] = origin[y]
    BY <1>1, <1>3, AddFacts, AlarmAdded
  <2>2. s \in Adjusted
    BY <1>3, AdjustedFramed
  <2> QED
    BY <1>2, <2>1, <2>2 DEF Prev
<1>4. CASE AdjustAlarm
  <2> PICK x \in Streams : x = Head(todo)
    BY <1>4, AdjustFacts
  <2>1. PICK ref \in {now, 0} : Clock!AdjustAlarmToReferenceTime(x, ref)
    BY <1>4, AdjustFacts
  <2>2. /\ UNCHANGED <<now, timeStep, startTime, do_restart, interval>>
        /\ \A y \in DOMAIN alarms \ {x} : alarms'[y] = alarms[y] /\ origin'[y] = origin[y]
    BY <1>1, <1>4, <2>1, AdjustFacts, AlarmAdjusted
  <2>3. s \in Adjusted /\ s # x
    BY <1>4, AdjustFacts DEF Moves
  <2> QED
    BY <1>2, <2>2, <2>3 DEF Prev
<1>5. ASSUME NEW x \in Streams, Resets(x)
      PROVE  /\ s \in Adjusted /\ Prev(s)' = Prev(s) /\ origin'[s] = origin[s]
             /\ UNCHANGED <<now, timeStep, startTime, do_restart, interval>>
  <2>1. /\ UNCHANGED <<now, timeStep, startTime, do_restart, interval, origin>>
        /\ \A y \in DOMAIN alarms \ {x} : alarms'[y] = alarms[y]
    BY <1>1, <1>5, AlarmReset DEF Resets
  <2>2. s \in Adjusted
    BY <1>5, AdjustedFramed
  <2>3. s # x
    BY <1>5, OutputsAssumption DEF Resets, Moves
  <2> QED
    BY <1>2, <2>1, <2>2, <2>3 DEF Prev
<1>6. CASE ClockLeft \/ UNCHANGED vars
  <2>1. UNCHANGED <<now, timeStep, startTime, do_restart, interval, alarms, origin>>
    BY <1>6, ClockLeftFacts DEF clock
  <2>2. s \in Adjusted
    BY <1>6, AdjustedFramed
  <2> QED
    BY <2>1, <2>2 DEF Prev
<1> QED
  BY <1>1, <1>3, <1>4, <1>5, <1>6, NextCases DEF Moves

\* What is to be kept of one output stream.
StreamOK(s) ==
    /\ pc \in Setup => attempted[s] = {}
    /\ pc \in {"add", "adjust", "read_ICs"} /\ s \in Adjusted => Fresh(s)
    /\ pc = "skip" => IF s \in Range(todo) THEN Fresh(s) ELSE AtStart(s)
    /\ pc = "write" =>
          /\ BeforeOutput(s)
          /\ attempted[s] = IF s \in Range(todo) THEN WrittenBefore(s) ELSE Schedule(s, now)
    /\ pc \in {"check", "stamp", "stamping"} => BeforeOutput(s)
    /\ pc = "reset" => IF s \in Range(todo) THEN BeforeOutput(s) ELSE Quiet(s)
    /\ pc \in Stepping \cup {"first_lbc", "loop"} => Quiet(s)
    /\ pc \in Stepping \cup {"check", "stamp", "stamping", "reset", "first_lbc", "loop"} =>
          attempted[s] = Schedule(s, now)

LEMMA OneStreamAtATime == ScheduleInv <=> \A s \in Range(Outputs) : StreamOK(s)
  BY DEF ScheduleInv, StreamOK

\* The alarms start at their places.
LEMMA ScheduleSetUp ==
    ASSUME Base, NEW s \in Range(Outputs), StreamOK(s), [Next]_vars,
           AddAlarm \/ AdjustAlarm \/ ReadICs, ~Restart
    PROVE  StreamOK(s)'
<1>1. ClockOK /\ ControlOK /\ AlarmsListed /\ s \in Streams /\ Streams' = Streams
  BY DEF Base, Streams
<1>2. attempted' = attempted /\ pc \in {"add", "adjust", "read_ICs"}
  BY DEF AddAlarm, AdjustAlarm, ReadICs, history
<1>3. attempted[s] = {}
  BY <1>2 DEF StreamOK, Setup
<1>4. CASE AddAlarm \/ (AdjustAlarm /\ s # Head(todo))
  <2>1. pc' \in {"add", "adjust", "read_ICs"}
    BY <1>4 DEF AddAlarm, AdjustAlarm, Goto
  <2>2. ASSUME s \in Adjusted' PROVE Fresh(s)'
    <3>1. ~Moves(s)
      BY <1>4 DEF Moves, AddAlarm, AdjustAlarm, SkipOutput, ResetOutput, Advance, Restart, Goto
    <3>2. s \in Adjusted /\ (Fresh(s)' <=> Fresh(s))
      BY <2>2, <3>1, OutputAlarmLeft, StreamFramed
    <3> QED
      BY <1>2, <3>2 DEF StreamOK
  <2> QED
    BY <1>2, <1>3, <2>1, <2>2 DEF StreamOK, Stepping, Setup
<1>5. CASE AdjustAlarm /\ s = Head(todo)
  <2>1. PICK ref \in {now, 0} : Clock!AdjustAlarmToReferenceTime(s, ref)
    BY <1>5, AdjustFacts
  <2>2. /\ UNCHANGED <<interval, startTime>> /\ pc' \in {"add", "read_ICs"} /\ now = startTime
    BY <1>5, AdjustFacts
  <2>3. /\ now' = now /\ origin'[s] = ref
        /\ IF ref = now THEN Prev(s)' + interval[s] = now
                        ELSE Prev(s)' <= now /\ now < Prev(s)' + interval[s]
    BY <1>1, <2>1, <2>2, AlarmAdjusted
  <2>4. Fresh(s)'
    BY <2>2, <2>3 DEF Fresh, Quiet
  <2> QED
    BY <1>2, <1>3, <2>2, <2>4 DEF StreamOK, Stepping, Setup
<1>6. CASE ReadICs
  <2>1. pc = "read_ICs" /\ (pc' = "aborted" \/ (pc' = "skip" /\ todo' = Skipped))
    BY <1>6 DEF ReadICs, Goto
  <2>2. s \in Adjusted /\ s \in Adjusted'
    BY <1>1, <2>1 DEF Adjusted
  <2>3. ~Moves(s)
    BY <1>6 DEF Moves, ReadICs, AdjustAlarm, SkipOutput, ResetOutput, Advance, Restart, Goto
  <2>4. /\ Fresh(s)' <=> Fresh(s)
        /\ AtStart(s)' <=> AtStart(s)
    BY <2>2, <2>3, OutputAlarmLeft, StreamFramed
  <2>5. Fresh(s)
    BY <2>1, <2>2 DEF StreamOK
  <2>6. s \notin Range(Skipped) => AtStart(s)
    BY <2>5, SkippedListing DEF Fresh, AtStart, Wanted
  <2>7. pc' = "skip" => IF s \in Range(todo') THEN Fresh(s)' ELSE AtStart(s)'
    BY <2>1, <2>4, <2>5, <2>6
  <2> QED
    BY <1>2, <1>3, <2>1, <2>7 DEF StreamOK, Stepping, Setup
<1> QED
  BY <1>4, <1>5, <1>6

\* A reset leaves the alarm of an output stream quiet.
LEMMA ResetQuiet ==
    ASSUME Base, NEW s \in Range(Outputs), Clock!ResetClockAlarm(s, 0),
           UNCHANGED <<interval, startTime>>, Prev(s) <= now
    PROVE  Quiet(s)' /\ now' = now
<1>1. /\ now < Prev(s)' + interval[s] /\ now' = now
      /\ IF Ringing(s) THEN Prev(s)' <= now ELSE Prev(s)' = Prev(s)
  BY AlarmReset DEF Base, Streams
<1> QED
  BY <1>1 DEF Quiet

\* The streams skipped at the initial time are those not written then.
LEMMA ScheduleSkip ==
    ASSUME Base, NEW s \in Range(Outputs), StreamOK(s), [Next]_vars, SkipOutput
    PROVE  StreamOK(s)'
<1>1. ClockOK /\ ControlOK /\ AlarmsListed /\ s \in Streams /\ Streams' = Streams
  BY DEF Base, Streams
<1>2. /\ pc = "skip" /\ attempted' = attempted /\ Looped("write", Outputs)
      /\ Clock!ResetClockAlarm(Head(todo), 0)
      /\ UNCHANGED <<interval, startTime, do_restart>>
  BY DEF SkipOutput, history, fixed
<1>3. /\ attempted[s] = {} /\ now = startTime
      /\ IF s \in Range(todo) THEN Fresh(s) ELSE AtStart(s)
      /\ Head(todo) \in Range(todo)
      /\ Range(todo) \subseteq {"restart"} \cup IF do_restart THEN {"output", "diagnostics"} ELSE {}
  BY <1>1, <1>2, TodoHead DEF StreamOK, Setup, ControlOK, Loops
<1>4. \/ /\ Range(todo) = {Head(todo)} /\ pc' = "write" /\ todo' = Outputs
      \/ /\ pc' = "skip" /\ Range(todo') = Range(todo) \ {Head(todo)}
  BY <1>1, <1>2, LoopMoves DEF Loops
<1>5. s \in Adjusted /\ s \in Adjusted' /\ s \in DOMAIN alarms
  BY <1>1, <1>2, <1>4 DEF Adjusted, AlarmsListed
<1>6. now' = now /\ IF s # Head(todo) /\ s \in Range(todo) THEN Fresh(s)' ELSE AtStart(s)'
  <2>1. CASE s # Head(todo)
    <3>1. ~Moves(s)
      BY <1>2, <2>1 DEF Moves, AdjustAlarm, ResetOutput, Advance, Restart, Goto, SkipOutput, Looped
    <3>2. /\ now' = now /\ (Fresh(s)' <=> Fresh(s)) /\ (AtStart(s)' <=> AtStart(s))
      BY <1>5, <3>1, OutputAlarmLeft, StreamFramed
    <3> QED
      BY <1>3, <2>1, <3>2
  <2>2. CASE s = Head(todo)
    <3>1. Fresh(s)
      BY <1>3, <2>2
    <3>2. Prev(s) <= now
      <4>1. Prev(s) \in Int /\ interval[s] \in Nat \ {0} /\ now \in Int
        BY <1>1, <1>5, RingingMeans
      <4> QED
        BY <1>3, <3>1, <4>1 DEF Fresh, Quiet
    <3>3. Quiet(s)' /\ now' = now
      BY <1>2, <2>2, <3>2, ResetQuiet
    <3>4. ~Wanted(s)'
      BY <1>2, <1>3, <2>2 DEF Wanted
    <3> QED
      BY <2>2, <3>3, <3>4 DEF AtStart
  <2> QED
    BY <2>1, <2>2
<1>7. CASE pc' = "write"
  <2>1. todo' = Outputs /\ AtStart(s)' /\ now' = startTime'
    BY <1>2, <1>3, <1>4, <1>6, <1>7
  <2>2. BeforeOutput(s)' /\ WrittenBefore(s)' = {}
    BY <2>1 DEF BeforeOutput, WrittenBefore
  <2> QED
    BY <1>2, <1>3, <1>7, <2>1, <2>2 DEF StreamOK, Stepping, Setup
<1>8. CASE pc' = "skip"
  BY <1>2, <1>3, <1>4, <1>6, <1>8 DEF StreamOK, Stepping, Setup
<1> QED
  BY <1>4, <1>7, <1>8

\* A stream is written when its alarm rings, and not before its turn.
LEMMA ScheduleWrite ==
    ASSUME Base, NEW s \in Range(Outputs), StreamOK(s), [Next]_vars, WriteStream
    PROVE  StreamOK(s)'
<1>1. ClockOK /\ ControlOK /\ AlarmsListed /\ s \in Streams /\ Streams' = Streams
  BY DEF Base, Streams
<1>2. pc = "write" /\ Looped("check", <<>>)
  BY DEF WriteStream
<1>3. /\ BeforeOutput(s)
      /\ attempted[s] = IF s \in Range(todo) THEN WrittenBefore(s) ELSE Schedule(s, now)
  BY <1>2 DEF StreamOK
<1>4. \/ /\ Range(todo) = {Head(todo)} /\ pc' = "check"
      \/ /\ pc' = "write" /\ Range(todo') = Range(todo) \ {Head(todo)}
  BY <1>1, <1>2, LoopMoves DEF Loops
<1>5. s \in Adjusted /\ s \in Adjusted' /\ s \in DOMAIN alarms /\ Head(todo) \in Range(todo)
  BY <1>1, <1>2, <1>4, TodoHead DEF Adjusted, AlarmsListed, Loops
<1>6. /\ BeforeOutput(s)' <=> BeforeOutput(s)
      /\ WrittenBefore(s)' = WrittenBefore(s) /\ Schedule(s, now)' = Schedule(s, now)
  <2>1. ~Moves(s)
    BY <1>2, <1>4 DEF Moves, AdjustAlarm, SkipOutput, ResetOutput, Advance, Restart, Goto
  <2> QED
    BY <1>5, <2>1, OutputAlarmLeft, StreamFramed
<1>7. Schedule(s, now) = WrittenBefore(s) \cup IF Ringing(s) THEN {now} ELSE {}
  BY <1>1, <1>3, <1>5, WriteDecides DEF AlarmsListed
<1>8. attempted'[s] = IF s \in Range(todo) /\ s # Head(todo) THEN WrittenBefore(s) ELSE Schedule(s, now)
  <2>1. CASE s # Head(todo)
    <3>1. attempted'[s] = attempted[s]
      BY <1>1, <2>1 DEF WriteStream, ControlOK, history
    <3> QED
      BY <1>3, <2>1, <3>1
  <2>2. CASE s = Head(todo)
    <3>1. attempted'[s] = attempted[s] \cup IF Ringing(s) THEN {now} ELSE {}
      BY <1>1, <2>2 DEF WriteStream, ControlOK, history
    <3> QED
      BY <1>3, <1>5, <1>7, <2>2, <3>1
  <2> QED
    BY <2>1, <2>2
<1>9. CASE pc' = "write"
  BY <1>3, <1>4, <1>6, <1>8, <1>9 DEF StreamOK, Stepping, Setup
<1>10. CASE pc' = "check"
  BY <1>3, <1>4, <1>6, <1>8, <1>10 DEF StreamOK, Stepping, Setup
<1> QED
  BY <1>4, <1>9, <1>10

\* Between the writes and the resets the alarms still ring.
LEMMA ScheduleCheck ==
    ASSUME Base, NEW s \in Range(Outputs), StreamOK(s), [Next]_vars,
           CheckWrite \/ OpenTimestamp \/ WriteTimestamp
    PROVE  StreamOK(s)'
<1>1. ClockOK /\ ControlOK /\ AlarmsListed /\ s \in Streams /\ Streams' = Streams
  BY DEF Base, Streams
<1>2. /\ pc \in {"check", "stamp", "stamping"} /\ attempted' = attempted
      /\ \/ pc' \in {"aborted", "stamp", "stamping"}
         \/ pc' = "reset" /\ todo' = Outputs
  BY DEF CheckWrite, OpenTimestamp, WriteTimestamp, Goto, history
<1>3. s \in Adjusted /\ s \in Adjusted'
  BY <1>1, <1>2 DEF Adjusted
<1>4. /\ BeforeOutput(s)' <=> BeforeOutput(s)
      /\ Schedule(s, now)' = Schedule(s, now)
  <2>1. ~Moves(s)
    BY <1>2 DEF Moves, AdjustAlarm, SkipOutput, ResetOutput, Advance, Restart, Goto
  <2> QED
    BY <1>3, <2>1, OutputAlarmLeft, StreamFramed
<1>5. BeforeOutput(s) /\ attempted[s] = Schedule(s, now)
  BY <1>2 DEF StreamOK
<1> QED
  BY <1>2, <1>4, <1>5 DEF StreamOK, Stepping, Setup

\* The reset of each alarm comes after its stream was written.
LEMMA ScheduleReset ==
    ASSUME Base, NEW s \in Range(Outputs), StreamOK(s), [Next]_vars, ResetOutput
    PROVE  StreamOK(s)'
<1>1. ClockOK /\ ControlOK /\ AlarmsListed /\ s \in Streams /\ Streams' = Streams
  BY DEF Base, Streams
<1>2. /\ pc = "reset" /\ attempted' = attempted
      /\ Looped(IF now = startTime THEN "first_lbc" ELSE "loop", <<>>)
      /\ Clock!ResetClockAlarm(Head(todo), 0)
      /\ UNCHANGED <<interval, startTime, do_restart>>
  BY DEF ResetOutput, history, fixed
<1>3. /\ attempted[s] = Schedule(s, now) /\ Head(todo) \in Range(todo)
      /\ IF s \in Range(todo) THEN BeforeOutput(s) ELSE Quiet(s)
  BY <1>1, <1>2, TodoHead DEF StreamOK, Loops
<1>4. \/ /\ Range(todo) = {Head(todo)} /\ pc' \in {"first_lbc", "loop"}
      \/ /\ pc' = "reset" /\ Range(todo') = Range(todo) \ {Head(todo)}
  BY <1>1, <1>2, LoopMoves DEF Loops
<1>5. s \in Adjusted /\ s \in Adjusted' /\ s \in DOMAIN alarms
  BY <1>1, <1>2, <1>4 DEF Adjusted, AlarmsListed
<1>6. CASE s # Head(todo)
  <2>1. ~Moves(s)
    BY <1>2, <1>4, <1>6 DEF Moves, AdjustAlarm, SkipOutput, Advance, Restart, Goto, Setup
  <2>2. /\ BeforeOutput(s)' <=> BeforeOutput(s)
        /\ Quiet(s)' <=> Quiet(s)
        /\ Schedule(s, now)' = Schedule(s, now)
    BY <1>5, <2>1, OutputAlarmLeft, StreamFramed
  <2> QED
    BY <1>2, <1>3, <1>4, <1>6, <2>2 DEF StreamOK, Stepping, Setup
<1>7. CASE s = Head(todo)
  <2>1. Prev(s) <= now
    BY <1>1, <1>3, <1>5, <1>7, NotAhead
  <2>2. Quiet(s)' /\ now' = now
    BY <1>2, <1>7, <2>1, ResetQuiet
  <2>3. UNCHANGED <<timeStep, origin>>
    BY <1>1, <1>2, <1>7, AlarmReset
  <2>4. Schedule(s, now)' = Schedule(s, now)
    BY <1>2, <2>2, <2>3 DEF Schedule, DueTimes, StepAtOrAfter, Wanted
  <2> QED
    BY <1>2, <1>3, <1>4, <1>7, <2>2, <2>4 DEF StreamOK, Stepping, Setup
<1> QED
  BY <1>6, <1>7

\* The rest of a time step leaves the output alarms quiet.
LEMMA ScheduleStep ==
    ASSUME Base, NEW s \in Range(Outputs), StreamOK(s), [Next]_vars,
           ReadFirstLbc \/ Loop \/ ReadLbc \/ ResetLbc \/ ReadSurface \/ ResetSurface
    PROVE  StreamOK(s)'
<1>1. ClockOK /\ ControlOK /\ AlarmsListed /\ s \in Streams /\ Streams' = Streams
  BY DEF Base, Streams
<1>2. /\ pc \in (Stepping \ {"advance"}) \cup {"first_lbc", "loop"} /\ attempted' = attempted
      /\ pc' \in Stepping \cup {"loop", "done", "aborted"}
  BY DEF ReadFirstLbc, Loop, ReadLbc, ResetLbc, ReadSurface, ResetSurface, Goto, history, Stepping
<1>3. s \in Adjusted /\ s \in Adjusted'
  BY <1>1, <1>2 DEF Adjusted, Stepping
<1>4. /\ Quiet(s)' <=> Quiet(s)
      /\ Schedule(s, now)' = Schedule(s, now)
  <2>1. ~Moves(s)
    BY <1>2 DEF Moves, AdjustAlarm, SkipOutput, ResetOutput, Advance, Restart, Goto, Stepping
  <2> QED
    BY <1>3, <2>1, OutputAlarmLeft, StreamFramed
<1>5. Quiet(s) /\ attempted[s] = Schedule(s, now)
  BY <1>2 DEF StreamOK, Stepping
<1> QED
  BY <1>2, <1>4, <1>5 DEF StreamOK, Stepping, Setup

\* An alarm that is quiet when a time step begins is the one before the output at its end.
LEMMA ScheduleAdvance ==
    ASSUME Base, NEW s \in Range(Outputs), StreamOK(s), Advance
    PROVE  StreamOK(s)'
<1>1. ClockOK /\ s \in Streams
  BY DEF Base, Streams
<1>2. /\ pc = "advance" /\ pc' = "write" /\ todo' = Outputs
      /\ UNCHANGED <<interval, startTime, do_restart, attempted, timeStep, alarms, origin>>
      /\ now' = now + timeStep /\ now' \in Nat /\ now < now'
  BY <1>1, AdvanceFacts, ClockAdvanced
<1>3. Quiet(s) /\ attempted[s] = Schedule(s, now)
  BY <1>2 DEF StreamOK, Stepping
<1>4. now' # startTime /\ now' - timeStep = now
  <2>1. now \in Nat /\ startTime \in Nat /\ startTime <= now /\ timeStep \in Nat
    BY <1>1 DEF ClockOK
  <2> PICK n \in Nat : n = now'
    BY <1>2
  <2> QED
    BY <1>2, <2>1
<1>5. BeforeOutput(s)'
  BY <1>2, <1>3, <1>4 DEF BeforeOutput, QuietBefore, Quiet, Prev
<1>6. WrittenBefore(s)' = Schedule(s, now)
  BY <1>2, <1>4 DEF WrittenBefore, Schedule, DueTimes, StepAtOrAfter, Wanted
<1> QED
  BY <1>2, <1>3, <1>5, <1>6 DEF StreamOK, Stepping, Setup

LEMMA ScheduleNext ==
    ASSUME Base, ScheduleInv, [Next]_vars
    PROVE  ScheduleInv'
<1> SUFFICES ASSUME NEW s \in Range(Outputs) PROVE StreamOK(s)'
  BY DEF ScheduleInv, StreamOK
<1>1. StreamOK(s)
  BY OneStreamAtATime
<1>2. CASE Restart
  <2>1. pc' = "add" /\ attempted' = [x \in Range(Outputs) |-> {}]
    BY <1>2 DEF Restart, Goto
  <2>2. s \notin Adjusted'
    <3>1. Streams' = Streams
      BY DEF Streams
    <3> QED
      BY <1>2, <3>1, RestartFacts, AllStreamsListing DEF Adjusted
  <2> QED
    BY <2>1, <2>2 DEF StreamOK, Stepping, Setup
<1>3. CASE ~Restart /\ (AddAlarm \/ AdjustAlarm \/ ReadICs)
  BY <1>1, <1>3, ScheduleSetUp
<1>4. CASE SkipOutput
  BY <1>1, <1>4, ScheduleSkip
<1>5. CASE WriteStream
  BY <1>1, <1>5, ScheduleWrite
<1>6. CASE CheckWrite \/ OpenTimestamp \/ WriteTimestamp
  BY <1>1, <1>6, ScheduleCheck
<1>7. CASE ResetOutput
  BY <1>1, <1>7, ScheduleReset
<1>8. CASE ReadFirstLbc \/ Loop \/ ReadLbc \/ ResetLbc \/ ReadSurface \/ ResetSurface
  BY <1>1, <1>8, ScheduleStep
<1>9. CASE Advance
  BY <1>1, <1>9, ScheduleAdvance
<1>10. CASE UNCHANGED vars
  <2>1. UNCHANGED <<pc, todo, attempted, now, timeStep, startTime, do_restart, interval, alarms, origin>>
    BY <1>10 DEF vars, clock, fixed, history
  <2>2. Prev(s)' = Prev(s)
    BY <2>1 DEF Prev
  <2>3. Adjusted' = Adjusted
    BY <1>10, AdjustedFramed
  <2> QED
    BY <1>1, <2>1, <2>2, <2>3, StreamFramed DEF StreamOK
<1> QED
  BY <1>2, <1>3, <1>4, <1>5, <1>6, <1>7, <1>8, <1>9, <1>10 DEF Next, Step

\* Every output stream is written once at each time step at or after a time it is due,
\* and at no other, however its interval and its reference time lie to the time step
\* and to the start of the run (OutputOnSchedule).
THEOREM OnSchedule == Spec => []OutputOnSchedule
<1>1. Init => ScheduleInv
  <2> SUFFICES ASSUME Init, NEW s \in Range(Outputs) PROVE StreamOK(s)
    BY OneStreamAtATime
  <2>1. pc = "add" /\ attempted = [x \in Range(Outputs) |-> {}] /\ s \notin Adjusted
    BY AllStreamsListing DEF Init, Adjusted
  <2> QED
    BY <2>1 DEF StreamOK, Stepping, Setup
<1>2. Base /\ ScheduleInv /\ [Next]_vars => ScheduleInv'
  BY ScheduleNext
<1>3. Base /\ ScheduleInv => OutputOnSchedule
  <2> SUFFICES ASSUME Base, ScheduleInv, pc = "loop", NEW s \in Range(Outputs)
               PROVE  /\ attempted[s] \ {startTime} =
                            {StepAtOrAfter(r) : r \in {t \in 0 .. now : CameDue(s, t)}}
                      /\ startTime \in attempted[s] <=> Wanted(s)
    BY DEF OutputOnSchedule, Wanted
  <2> DEFINE due == {StepAtOrAfter(r) : r \in DueTimes(s, now)}
  <2>1. attempted[s] = due \cup IF Wanted(s) THEN {startTime} ELSE {}
    BY DEF ScheduleInv, Schedule
  <2>2. DueTimes(s, now) = {t \in 0 .. now : CameDue(s, t)}
    <3>1. now \in Nat
      BY DEF Base, ClockOK
    <3>2. \A t \in 0 .. now : t <= now
      BY <3>1
    <3> QED
      BY <3>2 DEF DueTimes, CameDue
  <2>3. startTime \notin due
    <3> SUFFICES ASSUME NEW r \in DueTimes(s, now) PROVE StepAtOrAfter(r) # startTime
      OBVIOUS
    <3>1. r \in Int /\ startTime < r /\ startTime \in Int
      BY DEF DueTimes, Base, ClockOK
    <3>2. r <= StepAtOrAfter(r) /\ StepAtOrAfter(r) \in Int
      BY <3>1, StepNotBefore DEF Base
    <3> QED
      BY <3>1, <3>2
  <2>4. due = {StepAtOrAfter(r) : r \in {t \in 0 .. now : CameDue(s, t)}}
    BY <2>2
  <2> HIDE DEF due
  <2> QED
    BY <2>1, <2>3, <2>4
<1> QED
  BY <1>1, <1>2, <1>3, InitBase, NextBase, PTL DEF Spec
=============================================================================
