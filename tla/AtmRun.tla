------------------------------- MODULE AtmRun -------------------------------
(***************************************************************************)
(* The run loop of the atmosphere core (core_atmosphere/mpas_atm_core.F,   *)
(* atm_core_run) with the set-up of its clock and stream alarms before it. *)
(* It drives the clock of module Timekeeping: every statement that touches *)
(* the clock or an alarm is a step of that module.  What a write of one    *)
(* stream may return is abstracted from module OutputStream.               *)
(*                                                                         *)
(* A run may crash between any two steps and be started again from the     *)
(* time in the restart_timestamp file, or from the beginning if there is   *)
(* none yet.  Steps of the model are the statements of one MPI task.       *)
(***************************************************************************)
EXTENDS Integers, SequencesExt

CONSTANTS
    Outputs,        \* the output streams, in the order of the stream list
    RingIntervals,  \* output and input intervals a stream may have
    TimeSteps,      \* values of config_dt
    StopTime,       \* config_stop_time
    MaxTime,        \* bound: the clock stays within 0..MaxTime
    Refusable,      \* the streams whose clobber mode may refuse a write
    MaxRuns         \* bound on the number of runs

\* The stream list holds every name once, and the streams driven apart from it
\* are not output streams.
ASSUME OutputsAssumption ==
    /\ Outputs \in Seq(Range(Outputs)) /\ IsInjective(Outputs)
    /\ "restart" \in Range(Outputs) /\ Range(Outputs) \cap {"lbc_in", "surface"} = {}
ASSUME RefusableAssumption == Refusable \subseteq Range(Outputs)
ASSUME IntervalsAssumption ==
    RingIntervals \subseteq Nat \ {0} /\ TimeSteps \subseteq Nat \ {0}
ASSUME StopAssumption ==
    /\ StopTime \in Nat /\ MaxTime \in Nat /\ MaxRuns \in Nat \ {0}
    /\ \A dt \in TimeSteps : StopTime + dt <= MaxTime

VARIABLES
    now, timeStep, direction, alarms, nAlarms, origin, heard,   \* the clock
    pc,             \* the statement about to be executed
    todo,           \* streams a loop over streams has still to visit
    ierr,           \* local_ierr of the write in progress
    interval,       \* configuration: the interval of every stream
    startTime,      \* the time this run started from
    do_restart,     \* config_do_restart
    lbc,            \* times of the boundary states the tendencies join
    surface,        \* time of the surface fields last read
    restartFile,    \* disk: the times there is a restart record for
    timestamp,      \* disk: the time in the restart_timestamp file
    attempted,      \* history: times each stream was due and written in this run
    succeeded,      \* history: those of the restart stream that returned NOERR
    run             \* number of the present run

Streams == Range(Outputs) \cup {"lbc_in", "surface"}

Clock == INSTANCE Timekeeping WITH
            AlarmIds <- Streams, Intervals <- RingIntervals, Steps <- TimeSteps,
            Lookaheads <- {0}, MaxAdds <- Cardinality(Streams), displaced <- {}

clock == <<now, timeStep, direction, alarms, nAlarms, origin, heard>>
disk == <<restartFile, timestamp>>
history == <<attempted, succeeded>>
fixed == <<interval, startTime, do_restart, run>>
vars == <<clock, pc, todo, ierr, lbc, surface, disk, history, fixed>>

Missing == -1   \* a file that does not exist, a field that was never read
Empty   == -2   \* a restart_timestamp file with nothing in it
AllStreams == Outputs \o <<"lbc_in", "surface">>

\* Avoid writing a restart file at the initial time, and in a restart run the
\* history and diagnostics fields the preceding run has written; there need be no
\* stream for either.
Listed(s) == IF s \in Range(Outputs) THEN <<s>> ELSE <<>>
Skipped ==
    <<"restart">> \o IF do_restart THEN Listed("output") \o Listed("diagnostics") ELSE <<>>

Init ==
    /\ Clock!Init /\ now = 0
    /\ pc = "add" /\ todo = AllStreams /\ ierr = "NOERR"
    /\ interval \in [Streams -> RingIntervals]
    /\ startTime = 0 /\ do_restart = FALSE /\ run = 1
    /\ lbc = [from |-> Missing, to |-> Missing] /\ surface = Missing
    /\ restartFile = {} /\ timestamp = Missing
    /\ attempted = [s \in Range(Outputs) |-> {}] /\ succeeded = {}

-----------------------------------------------------------------------------
(* Setting up *)

\* Control moves to p, and a loop over the streams ss starts.
Goto(p, ss) == pc' = p /\ todo' = ss

\* The end of one pass through a loop that goes on at p when it is over.
Looped(p, ss) == IF Len(todo) = 1 THEN Goto(p, ss) ELSE Goto(pc, Tail(todo))

\* stream_mgr_add_alarm_c: the alarm starts with the run, then it is adjusted to
\* the reference time of the stream.
AddAlarm ==
    /\ pc = "add"
    /\ Clock!AddRecurringAlarm(Head(todo), now, interval[Head(todo)])
    /\ Goto("adjust", todo)
    /\ UNCHANGED <<ierr, lbc, surface, disk, history, fixed>>

\* An output stream may have the beginning of the simulation for its reference
\* time; the default, and the one of the input streams, is the start of the run.
AdjustAlarm ==
    /\ pc = "adjust"
    /\ \E ref \in {now} \cup IF Head(todo) \in Range(Outputs) THEN {0} ELSE {} :
          Clock!AdjustAlarmToReferenceTime(Head(todo), ref)
    /\ IF Len(todo) = 1 THEN Goto("read_ICs", <<>>) ELSE Goto("add", Tail(todo))
    /\ UNCHANGED <<ierr, lbc, surface, disk, history, fixed>>

\* The initial state is read from the restart stream at the start time exactly.
ReadICs ==
    /\ pc = "read_ICs"
    /\ IF do_restart /\ now \notin restartFile
       THEN Goto("aborted", <<>>)
       ELSE Goto("skip", Skipped)
    /\ UNCHANGED <<clock, ierr, lbc, surface, disk, history, fixed>>

SkipOutput ==
    /\ pc = "skip"
    /\ Clock!ResetClockAlarm(Head(todo), 0)
    /\ Looped("write", Outputs)
    /\ UNCHANGED <<ierr, lbc, surface, disk, history, fixed>>

-----------------------------------------------------------------------------
(* Writing output *)

Ringing(s) == Clock!IsAlarmRinging(s, 0)

\* Mutant: the error code is the one of the last stream written.
KeptError(outcome) == outcome

\* mpas_stream_mgr_write: an error replaces the one of an earlier stream.
LastError(outcome) == IF outcome # "NOERR" THEN outcome ELSE ierr

\* What writing the stream s may return.
Outcomes(s) == {"NOERR", "ERROR"} \cup IF s \in Refusable THEN {"CLOBBER"} ELSE {}

\* One stream of mpas_stream_mgr_write.  A write that fails may have written the
\* record; one is refused because its file, or another record in its place, is there,
\* whether the record is or not.
WriteStream ==
    /\ pc = "write"
    /\ LET s == Head(todo)
       IN  IF ~Ringing(s)
           THEN UNCHANGED <<ierr, restartFile, history>>
           ELSE \E outcome \in Outcomes(s) :
                  /\ ierr' = LastError(outcome)
                  /\ attempted' = [attempted EXCEPT ![s] = @ \cup {now}]
                  /\ IF s # "restart" THEN UNCHANGED <<restartFile, succeeded>>
                     ELSE CASE outcome = "NOERR" ->
                                /\ restartFile' = restartFile \cup {now}
                                /\ succeeded' = succeeded \cup {now}
                            [] outcome = "ERROR" ->
                                /\ restartFile' \in {restartFile, restartFile \cup {now}}
                                /\ UNCHANGED succeeded
                            [] outcome = "CLOBBER" -> UNCHANGED <<restartFile, succeeded>>
    /\ Looped("check", <<>>)
    /\ UNCHANGED <<clock, lbc, surface, timestamp, fixed>>

\* The driver aborts on an error other than a clobber; no restart_timestamp is
\* written after the output of the initial time.
CheckWrite ==
    /\ pc = "check"
    /\ CASE ierr = "ERROR" -> Goto("aborted", <<>>)
         [] ierr # "ERROR" /\ now = startTime -> Goto("reset", Outputs)
         [] OTHER -> Goto("stamp", <<>>)
    /\ UNCHANGED <<clock, ierr, lbc, surface, disk, history, fixed>>

\* The restart_timestamp file is opened with status='replace', then written.
OpenTimestamp ==
    /\ pc = "stamp"
    /\ IF Ringing("restart")
       THEN timestamp' = Empty /\ Goto("stamping", <<>>)
       ELSE UNCHANGED timestamp /\ Goto("reset", Outputs)
    /\ UNCHANGED <<clock, ierr, lbc, surface, restartFile, history, fixed>>

WriteTimestamp ==
    /\ pc = "stamping"
    /\ timestamp' = now
    /\ Goto("reset", Outputs)
    /\ UNCHANGED <<clock, ierr, lbc, surface, restartFile, history, fixed>>

\* Mutant: the output alarms are left ringing.
ResetNothing ==
    /\ pc = "reset"
    /\ Looped(IF now = startTime THEN "first_lbc" ELSE "loop", <<>>)
    /\ UNCHANGED <<clock, ierr, lbc, surface, disk, history, fixed>>

ResetOutput ==
    /\ pc = "reset"
    /\ Clock!ResetClockAlarm(Head(todo), 0)
    /\ Looped(IF now = startTime THEN "first_lbc" ELSE "loop", <<>>)
    /\ UNCHANGED <<ierr, lbc, surface, disk, history, fixed>>

-----------------------------------------------------------------------------
(* Reading input, and the time step *)

\* Mutant: the field after the present one is read.
NextAfter(s) == (now \div interval[s] + 1) * interval[s]

\* A field of the stream s is on disk for every multiple of its interval.
LatestBefore(s) == (now \div interval[s]) * interval[s]
EarliestStrictlyAfter(s) == LatestBefore(s) + interval[s]

\* mpas_atm_update_bdy_tend with firstCall; the run is over when it fails.
ReadFirstLbc ==
    /\ pc = "first_lbc"
    /\ IF Ringing("lbc_in")
       THEN \/ lbc' = [lbc EXCEPT !.to = LatestBefore("lbc_in")] /\ Goto("loop", <<>>)
            \/ UNCHANGED lbc /\ Goto("aborted", <<>>)
       ELSE UNCHANGED lbc /\ Goto("loop", <<>>)
    /\ UNCHANGED <<clock, ierr, surface, disk, history, fixed>>

\* Mutants: the run stops at its stop time only, and the boundary state is
\* looked for at the present time.
LoopExactStop ==
    /\ pc = "loop"
    /\ Goto(IF now = StopTime THEN "done" ELSE "lbc", <<>>)
    /\ UNCHANGED <<clock, ierr, lbc, surface, disk, history, fixed>>
ReadLbcBefore ==
    /\ pc = "lbc"
    /\ IF Ringing("lbc_in")
       THEN \/ lbc' = [from |-> lbc.to, to |-> LatestBefore("lbc_in")] /\ Goto("reset_lbc", <<>>)
            \/ lbc' = [lbc EXCEPT !.from = lbc.to] /\ Goto("aborted", <<>>)
       ELSE UNCHANGED lbc /\ Goto("reset_lbc", <<>>)
    /\ UNCHANGED <<clock, ierr, surface, disk, history, fixed>>

\* mpas_is_clock_stop_time
Loop ==
    /\ pc = "loop"
    /\ Goto(IF now >= StopTime THEN "done" ELSE "lbc", <<>>)
    /\ UNCHANGED <<clock, ierr, lbc, surface, disk, history, fixed>>

\* mpas_atm_update_bdy_tend: the older boundary state is the newer one of before,
\* even when the next one cannot be read and the run is over.
ReadLbc ==
    /\ pc = "lbc"
    /\ IF Ringing("lbc_in")
       THEN \/ /\ lbc' = [from |-> lbc.to, to |-> EarliestStrictlyAfter("lbc_in")]
               /\ Goto("reset_lbc", <<>>)
            \/ lbc' = [lbc EXCEPT !.from = lbc.to] /\ Goto("aborted", <<>>)
       ELSE UNCHANGED lbc /\ Goto("reset_lbc", <<>>)
    /\ UNCHANGED <<clock, ierr, surface, disk, history, fixed>>

ResetLbc ==
    /\ pc = "reset_lbc"
    /\ Clock!ResetClockAlarm("lbc_in", 0)
    /\ Goto("surface", <<>>)
    /\ UNCHANGED <<ierr, lbc, surface, disk, history, fixed>>

\* The other input streams; one that cannot be read aborts the run.
ReadSurface ==
    /\ pc = "surface"
    /\ IF Ringing("surface")
       THEN \/ surface' = LatestBefore("surface") /\ Goto("reset_surface", <<>>)
            \/ UNCHANGED surface /\ Goto("aborted", <<>>)
       ELSE UNCHANGED surface /\ Goto("advance", <<>>)
    /\ UNCHANGED <<clock, ierr, lbc, disk, history, fixed>>

ResetSurface ==
    /\ pc = "reset_surface"
    /\ Clock!ResetClockAlarm("surface", 0)
    /\ Goto("advance", <<>>)
    /\ UNCHANGED <<ierr, lbc, surface, disk, history, fixed>>

\* atm_do_timestep and mpas_advance_clock, before the output.
Advance ==
    /\ pc = "advance"
    /\ Clock!AdvanceClock
    /\ ierr' = "NOERR"
    /\ Goto("write", Outputs)
    /\ UNCHANGED <<lbc, surface, disk, history, fixed>>

-----------------------------------------------------------------------------
\* A crash at any point, and the next run: a new clock and new alarms.  Started
\* from the restart_timestamp file the run is a restart run; an empty file
\* cannot be started from.
Restart ==
    /\ pc # "done"
    /\ run < MaxRuns /\ run' = run + 1
    /\ timestamp # Empty
    /\ do_restart' = (timestamp # Missing)
    /\ now' = IF timestamp = Missing THEN 0 ELSE timestamp
    /\ startTime' = now'
    /\ alarms' = [s \in {} |-> {}] /\ nAlarms' = 0
    /\ origin' = [s \in Streams |-> 0] /\ heard' = [s \in Streams |-> 0]
    /\ Goto("add", AllStreams) /\ ierr' = "NOERR"
    /\ lbc' = [from |-> Missing, to |-> Missing] /\ surface' = Missing
    /\ attempted' = [s \in Range(Outputs) |-> {}] /\ succeeded' = {}
    /\ UNCHANGED <<timeStep, direction, interval, disk>>

Step ==
    \/ AddAlarm \/ AdjustAlarm \/ ReadICs \/ SkipOutput
    \/ WriteStream \/ CheckWrite \/ OpenTimestamp \/ WriteTimestamp \/ ResetOutput
    \/ ReadFirstLbc \/ Loop \/ ReadLbc \/ ResetLbc \/ ReadSurface \/ ResetSurface
    \/ Advance

Next == Step \/ Restart

\* A task executes its program until it ends; crashes are not owed.
Spec == Init /\ [][Next]_vars /\ WF_vars(Step)

-----------------------------------------------------------------------------
(* Properties *)

Statements == {"add", "adjust", "read_ICs", "skip", "write", "check", "stamp", "stamping",
               "reset", "first_lbc", "loop", "lbc", "reset_lbc", "surface",
               "reset_surface", "advance", "done", "aborted"}

TypeOK ==
    /\ Clock!TypeOK
    /\ pc \in Statements
    /\ Range(todo) \subseteq Streams /\ ierr \in {"NOERR", "ERROR", "CLOBBER"}
    /\ startTime \in 0 .. now /\ run \in 1 .. MaxRuns
    /\ restartFile \subseteq 0 .. MaxTime
    /\ timestamp \in {Missing, Empty} \cup 0 .. now

\* The time the next run would start from is one it can start from: there is a
\* restart record for it, whenever the crash comes, and one for the time whose stamp
\* a crash has cut short.
TimestampHasRecord ==
    /\ timestamp >= 0 => timestamp \in restartFile
    /\ timestamp = Empty => now \in restartFile

\* A ring time of the stream s the present run has come to.
CameDue(s, r) ==
    /\ startTime < r /\ r <= now
    /\ (r - origin[s]) % interval[s] = 0

\* The first time of the run at or after r.
StepAtOrAfter(r) ==
    startTime + ((r - startTime + timeStep - 1) \div timeStep) * timeStep

\* At the top of the loop each stream has been written at the first time step at
\* or after every one of its ring times, and at no other: once, not again while
\* the alarm was left ringing, not lost to a reset that came too early, and not
\* at the initial time where the run must not.
OutputOnSchedule ==
    pc = "loop" =>
       \A s \in Range(Outputs) :
          /\ attempted[s] \ {startTime} =
                {StepAtOrAfter(r) : r \in {t \in 0 .. now : CameDue(s, t)}}
          /\ startTime \in attempted[s] <=>
                /\ s # "restart" /\ (do_restart => s \notin {"output", "diagnostics"})
                /\ origin[s] = startTime

\* Every time step is taken with boundary tendencies that cover its beginning,
\* in a run that starts at a time the boundary data is for.
LbcCoversStep ==
    pc = "advance" /\ startTime % interval["lbc_in"] = 0 =>
       lbc.from <= now /\ now < lbc.to /\ lbc.from >= 0

\* Every time step is taken with the latest surface fields, in a run that starts
\* at a time they are for.
SurfaceIsLatest ==
    pc = "advance" /\ startTime % interval["surface"] = 0 =>
       surface <= now /\ now < surface + interval["surface"] /\ surface >= 0

\* The run comes to its stop time or aborts.
Terminates == <>[](pc \in {"done", "aborted"})

\* The comment before the restart_timestamp file is written: only after we've
\* successfully written the restart file.
StampedOnlyAfterSuccess == timestamp > startTime => timestamp \in succeeded
=============================================================================
