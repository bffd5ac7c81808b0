---------------------------- MODULE OutputStream ----------------------------
(***************************************************************************)
(* One output stream of the stream manager (framework/                     *)
(* mpas_stream_manager.F, write_stream), the files it leaves on disk, and  *)
(* the runs of the model that write to them one after the other: a run may *)
(* stop at any moment and be started again from an earlier time, with      *)
(* another clobber mode or output interval, on the files it finds.         *)
(*                                                                         *)
(* A file is the sequence of the times of its records.  Its name is the    *)
(* number of the filename interval a time falls into.                      *)
(***************************************************************************)
EXTENDS Integers, SequencesExt

CONSTANTS
    Modes,          \* clobber modes a run may be configured with
    Periods,        \* output intervals a run may be configured with
    FileInterval,   \* filename_interval; > MaxTime is the interval `none'
    Orders,         \* values of orderly
    MaxTime,        \* bound on the time of a run
    MaxRuns,        \* bound on the number of runs
    MaxFailures     \* bound on the number of writes that fail

ASSUME ModesAssumption ==
    Modes \subseteq {"never_modify", "append", "overwrite", "truncate"}
ASSUME PeriodsAssumption == Periods \subseteq Nat \ {0}
ASSUME BoundsAssumption ==
    /\ FileInterval \in Nat \ {0} /\ MaxTime \in Nat /\ MaxRuns \in Nat \ {0}
    /\ MaxFailures \in Nat /\ Orders \subseteq BOOLEAN

VARIABLES
    orderly,        \* every run is configured as the first one was, ends at a write
                    \* that fails, and goes on from a time the output of which is
                    \* complete; no record loses its time
    mode, period,   \* configuration of the present run
    now, due,       \* the clock, and whether an output alarm of the stream rings
    stream,         \* the node of the stream list, with its open file handle
    files,          \* the disk: a function from the names of the files there are
    result,         \* what the last write returned
    run,            \* number of the present run
    failures,       \* number of writes that have failed
    found,          \* history: the disk when this run started
    written,        \* history: times this run has written without an error
    masked          \* history: files in which a run went on after a failing write

configuration == <<orderly, mode, period, run, found>>
vars == <<orderly, mode, period, now, due, stream, files, result, run, failures, found,
          written, masked>>

Times == 0 .. MaxTime
FillValue == -1     \* the time of a record that was skipped
TornValue == -2     \* the time of a record that was written in part
Stamps == Times \cup {FillValue, TornValue}
FileOf(t) == t \div FileInterval

Results == {"NONE", "NOERR", "ERROR", "CLOBBER_FILE", "CLOBBER_REC", "MASKED"}

\* What MPAS_Stream_type holds: an open file with the fields of the stream, an
\* open file without them, or no file.
Handles == {"open", "bare", "closed"}

TypeOK ==
    /\ orderly \in Orders
    /\ mode \in Modes /\ period \in Periods
    /\ now \in Times /\ due \in BOOLEAN
    /\ stream \in [valid: BOOLEAN, filename: Nat \cup {FillValue}, nRecords: Nat,
                   preexisting: Nat, handle: Handles]
    /\ DOMAIN files \subseteq {FileOf(t) : t \in Times}
    /\ \A f \in DOMAIN files : Range(files[f]) \subseteq Stamps
    /\ result \in Results
    /\ run \in 1 .. MaxRuns /\ failures \in 0 .. MaxFailures
    /\ DOMAIN found \subseteq DOMAIN files
    /\ written \subseteq Times /\ masked \subseteq DOMAIN files

NewStream == [valid |-> FALSE, filename |-> FillValue, nRecords |-> 0, preexisting |-> 0,
              handle |-> "closed"]

Init ==
    /\ orderly \in Orders
    /\ mode \in Modes /\ period \in Periods
    /\ now = 0 /\ due = TRUE
    /\ stream = NewStream
    /\ files = [f \in {} |-> <<>>]
    /\ result = "NONE"
    /\ run = 1 /\ failures = 0
    /\ found = files
    /\ written = {} /\ masked = {}

-----------------------------------------------------------------------------
(* Operators of a write *)

clobberFiles   == mode # "never_modify"
clobberRecords == mode = "overwrite"
MaySeek        == mode \in {"overwrite", "append"}

Exists(f) == f \in DOMAIN files

\* MPAS_io_open for writing: what the file holds once it is open.  An existing
\* one is kept unless it is truncated.
Opened(f) == IF Exists(f) /\ MaySeek THEN files[f] ELSE <<>>

\* MPAS_seekStream for an exact time: the last record with that time among the
\* records the file had when it was opened (the handle keeps the size of the
\* dimension Time from the first time it is asked for); 0 if there is none.
SeekStream(contents, size, t) ==
    SelectLastInSubSeq(contents, 1, size, LAMBDA x : x = t)

\* Mutants: a file is always written from its first record; the end of the
\* file is taken one record too far.
FirstRecordIgnoringFile(contents, t) == 1
FirstRecordPastEnd(contents, t) ==
    LET record == SeekStream(contents, Len(contents), t)
    IN  IF record # 0 THEN record ELSE Len(contents) + 2

\* The record a newly opened file is written at.
FirstRecord(contents, t) ==
    LET record == SeekStream(contents, Len(contents), t)
    IN  IF record # 0 THEN record ELSE Len(contents) + 1

\* Mutant: the counter is not moved to the next record.
NextRecordStuck(contents, n, size, t) == [record |-> n - 1, counter |-> n - 1]

\* The record an open file is written at next, and where the counter n is left:
\* a write at the record of an exact time borrows the counter and restores it.
NextRecord(contents, n, size, t) ==
    LET record == SeekStream(contents, size, t)
    IN  CASE MaySeek /\ record # 0 /\ n < size -> [record |-> record, counter |-> n]
          [] MaySeek /\ record = 0 /\ n < size -> [record |-> size + 1, counter |-> size + 1]
          [] OTHER -> [record |-> n, counter |-> n]

\* MPAS_writeStream at a record: a gap is filled.
Put(contents, record, t) ==
    [i \in 1 .. IF record > Len(contents) THEN record ELSE Len(contents) |->
        CASE i = record -> t
          [] i # record /\ i <= Len(contents) -> contents[i]
          [] OTHER -> FillValue]

Stored(f, contents) ==
    [g \in DOMAIN files \cup {f} |-> IF g = f THEN contents ELSE files[g]]

\* Mutant: the records of an older run are not looked after.
WouldClobberNothing(record, size) == FALSE

\* MPAS_io_would_clobber_records, for a stream that may not clobber them.
WouldClobber(record, size) == record <= size /\ ~clobberRecords

\* MPAS_io_open refuses a file that exists.
Refuses(f) == Exists(f) /\ ~clobberFiles

-----------------------------------------------------------------------------
(* write_stream *)

\* An output alarm rings; a run whose output failed has stopped.
MayWrite == due /\ result # "ERROR"

\* The stream could not be closed, and no file has been opened since.
CloseFailed == stream.valid /\ stream.handle = "closed"
OpensFile == ~CloseFailed /\ (~stream.valid \/ stream.filename # FileOf(now))

\* The write reaches a file: it opens one, or has one open.
Accepted == IF OpensFile THEN ~Refuses(FileOf(now)) ELSE stream.handle = "open"

WriteRefused ==
    /\ MayWrite /\ OpensFile /\ Refuses(FileOf(now))
    /\ stream' = [stream EXCEPT !.valid = FALSE, !.filename = FileOf(now), !.nRecords = 1]
    /\ result' = "CLOBBER_FILE"
    /\ due' = FALSE
    /\ UNCHANGED <<configuration, now, files, failures, written, masked>>

\* Where a write that is not refused goes: the file's contents once it is open,
\* their number then, the record and the counter.
Target ==
    LET f == FileOf(now)
        contents == Opened(f)
    IN  IF OpensFile
        THEN [contents |-> contents, size |-> Len(contents),
              record |-> FirstRecord(contents, now), counter |-> FirstRecord(contents, now)]
        ELSE LET next == NextRecord(files[f], stream.nRecords + 1, stream.preexisting, now)
             IN  [contents |-> files[f], size |-> stream.preexisting,
                  record |-> next.record, counter |-> next.counter]

\* The stream node once it has written, or tried to.
HandleAfter(target) ==
    [valid |-> TRUE, filename |-> FileOf(now), nRecords |-> target.counter,
     preexisting |-> target.size, handle |-> "open"]

Write ==
    /\ MayWrite /\ Accepted
    /\ LET f == FileOf(now)
           target == Target
       IN  /\ stream' = HandleAfter(target)
           /\ masked' = IF OpensFile /\ FillValue \notin Range(target.contents)
                        THEN masked \ {f} ELSE masked
           /\ IF WouldClobber(target.record, target.size)
              THEN /\ files' = Stored(f, target.contents)
                   /\ result' = "CLOBBER_REC"
                   /\ UNCHANGED written
              ELSE /\ files' = Stored(f, Put(target.contents, target.record, now))
                   /\ result' = "NOERR"
                   /\ written' = written \cup {now}
    /\ due' = FALSE
    /\ UNCHANGED <<configuration, now, failures>>

\* A stream without fields: the counter goes on and nothing is written, which is no
\* error.
WriteNothing ==
    /\ MayWrite /\ ~OpensFile /\ stream.handle = "bare"
    /\ stream' = [stream EXCEPT !.nRecords = Target.counter]
    /\ IF WouldClobber(Target.record, Target.size)
       THEN result' = "CLOBBER_REC" /\ UNCHANGED written
       ELSE result' = "NOERR" /\ written' = written \cup {now}
    /\ due' = FALSE
    /\ UNCHANGED <<configuration, now, files, failures, masked>>

\* What a failing MPAS_writeStream leaves in the file: no record, the record after
\* all, or one without its time.
PartlyWritten ==
    LET f == FileOf(now)
        target == Target
    IN  \/ files' = Stored(f, target.contents)
        \/ /\ ~WouldClobber(target.record, target.size)
           /\ files' = Stored(f, Put(target.contents, target.record, now))
        \/ /\ ~orderly /\ target.record > Len(target.contents)
           /\ files' = Stored(f, Put(target.contents, target.record, TornValue))

\* The file cannot be closed or opened, its definition or the write itself fails, and
\* the driver ends the run, and with it what is left of the stream node.
WriteFails ==
    /\ MayWrite /\ Accepted
    /\ failures < MaxFailures /\ failures' = failures + 1
    /\ UNCHANGED files \/ PartlyWritten
    /\ stream' = NewStream
    /\ result' = "ERROR"
    /\ due' = FALSE
    /\ UNCHANGED <<configuration, now, written, masked>>

\* The same when a stream behind this one in the list is refused: its clobber code
\* replaces the error, and the driver, which tolerates it, goes on with the stream
\* node as the failure left it.
WriteErrorMasked ==
    /\ MayWrite /\ ~orderly
    /\ failures < MaxFailures /\ failures' = failures + 1
    /\ LET f == FileOf(now)
           target == Target
       IN  \/ /\ OpensFile /\ Accepted                   \* MPAS_createStream, build_stream
              /\ files' \in {files, Stored(f, target.contents)}
              /\ stream' = [NewStream EXCEPT !.filename = f]
              /\ UNCHANGED masked
           \/ /\ OpensFile /\ Accepted /\ stream.valid   \* build_stream for the next file
              /\ files' = Stored(f, target.contents)
              /\ stream' = [HandleAfter(target) EXCEPT !.handle = "bare"]
              /\ UNCHANGED masked
           \/ /\ OpensFile /\ stream.valid               \* MPAS_closeStream
              /\ stream' = [NewStream EXCEPT !.valid = TRUE, !.filename = f]
              /\ UNCHANGED <<files, masked>>
           \/ /\ Accepted /\ PartlyWritten               \* MPAS_writeStream
              /\ stream' = HandleAfter(target)
              /\ masked' = masked \cup {f}
    /\ result' = "MASKED"
    /\ due' = FALSE
    /\ UNCHANGED <<configuration, now, written>>

\* Every write of a stream that could not be closed fails.
WriteToClosed ==
    /\ MayWrite /\ CloseFailed
    /\ stream' = [stream EXCEPT !.filename = FileOf(now)]
    /\ result' \in {"ERROR", "MASKED"}
    /\ due' = FALSE
    /\ UNCHANGED <<configuration, now, files, failures, written, masked>>

\* The driver resets the alarms of the stream and takes the next time step.
Tick ==
    /\ ~due /\ result # "ERROR"
    /\ now < MaxTime
    /\ now' = now + 1
    /\ due' = (now' % period = 0)
    /\ UNCHANGED <<configuration, stream, files, result, failures, written, masked>>

\* The run stops, at whatever point, and the next one starts from a time the
\* last one had reached.  A run that starts at a later time than the first skips
\* the output of that time for the streams whose alarm the driver resets, and
\* makes it for the others.
Restart ==
    /\ run < MaxRuns
    /\ run' = run + 1
    /\ mode' \in IF orderly THEN {mode} ELSE Modes
    /\ period' \in IF orderly THEN {period} ELSE Periods
    /\ now' \in 0 .. now
    /\ orderly /\ (due \/ result = "ERROR") => now' < now \/ now' = 0
    /\ due' \in {now' = 0, now' % period' = 0}
    /\ stream' = NewStream
    /\ result' = "NONE"
    /\ found' = files
    /\ written' = {}
    /\ UNCHANGED <<orderly, files, failures, masked>>

Next ==
    \/ WriteRefused \/ Write \/ WriteNothing
    \/ WriteFails \/ WriteErrorMasked \/ WriteToClosed
    \/ Tick \/ Restart

Spec == Init /\ [][Next]_vars

-----------------------------------------------------------------------------
(* Properties *)

\* What an older run left on disk stays there under the two modes that promise
\* it: never_modify keeps its files as they were, append keeps every record.
ExistingDataKept ==
    \A f \in DOMAIN found :
       /\ mode = "never_modify" => files[f] = found[f]
       /\ mode = "append" => IsPrefix(found[f], files[f])

\* A record is skipped, and the record counter runs ahead of the open file, only where
\* a run went on after a failing write: not through swaps, refused records, writes that
\* end the run and restarts.
NoGaps ==
    /\ \A f \in DOMAIN files \ masked : FillValue \notin Range(files[f])
    /\ stream.valid /\ stream.handle = "open" /\ stream.filename \notin masked =>
          stream.nRecords <= Len(files[stream.filename])

\* When every run writes the stream at the same interval, ends at a write that fails and
\* goes on where the output was complete, the records of a file are in the order of their
\* times, none twice.
RecordsInOrder ==
    orderly => \A f \in DOMAIN files : \A i \in 1 .. Len(files[f]) - 1 :
       files[f][i] < files[f][i + 1]

\* What an orderly run has written without an error is still on disk later in it.
NothingLost == orderly => \A t \in written : t \in Range(files[FileOf(t)])

=============================================================================
