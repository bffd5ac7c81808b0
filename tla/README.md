# TLA+ specifications of the MPAS framework in MONAN_Phys_SRF_v1

The repository is MONAN's copy of MPAS: model cores for the atmosphere, ocean,
sea ice and land ice on a common framework, in Fortran with some C. Nearly all
of its lines are floating-point numerics. What goes wrong without anybody
noticing it in a plot lies elsewhere: in the framework's clock and alarms, in
what its output streams do to files that exist, in the run loop that ties them
together, in the messages that keep the halos of the mesh partition current, in
the path from a registry over generated code and a streams file to the streams
of a run, and in the distributed mesh the land ice core makes for its velocity
solver. Those parts are specified here, model-checked with TLC on small
instances and, where the prover reaches, proved with TLAPS for all values of
the parameters.

Paths below are relative to the repository; `framework/` is `src/framework/`
and `core_atmosphere/` is `src/core_atmosphere/`. PROJECT.json lists for every
definition the lines it models, for every property a plausible bug that breaks
it, and for every hazard the properties that look after it.

Contents: 1 the system · 2 modules and code · 3 runs · 4 proofs ·
5 where code and comments disagree · 6 what is left out · 7 plan

## 1. The system

### 1.1 Parts, state, operations

**Clock and alarms** (`framework/mpas_timekeeping.F`). A clock has a current
time, a time step and a direction, and a linked list of alarms. A one-shot alarm
has a ring time and a flag; a recurring alarm has only the *previous* ring time
and an interval, and its next ring time is always derived. Operations: advance
(also by another step), set the time, set the step, set the direction, add,
remove, reset (with an optional look-ahead) and adjust an alarm to a reference
time; queries for ringing and for the next ring time. Setting or reversing the
clock re-derives the previous ring time of every alarm (`mpas_calibrate_alarms`),
and resets use a division of intervals by doubling and halving
(`mpas_interval_division`), since intervals of months cannot be divided.
*Correct if* an alarm rings exactly when a time of its series has been reached
and not dealt with, and no sequence of calls moves the series; and if the two
searches find what the rest relies on.

**Stream manager: one output stream** (`framework/mpas_stream_manager.F`,
`mpas_io_streams.F`, `mpas_io.F`). A stream node keeps an open file handle, the
name of the file, a record counter and a clobber mode; the I/O layer keeps the
size the record dimension of each open file had when it was first asked for.
`write_stream` decides whether to open another file, whether to refuse it, at
which record to write, and whether that record may be replaced. *Correct if*
the modes keep the data they promise to keep, no record is skipped, lost or out
of order, and refusals come from the modes that should refuse.

**Stream manager: its lists** (`mpas_stream_manager.F`, `mpas_stream_list.F`).
Streams and alarms refer to each other: a stream has a list of alarms in each
direction, an alarm has a list of streams, the manager has lists of both. Creating
and destroying streams, adding and removing alarms change several of those lists
and stop at the first error. *Correct if* the references always agree, and the
whole behaves like one relation between streams and alarms.

**Atmosphere run loop** (`core_atmosphere/mpas_atm_core.F`, `atm_core_run`).
Sets alarms up, reads the initial state or a restart record, then at each step
reads boundary and surface input when their alarms ring, steps, advances the
clock, writes the streams whose alarms ring, writes the `restart_timestamp`
file and resets the alarms. *Correct if* every output is made and every input
read on schedule, each once; the boundary states cover the step being taken;
and after a crash at any point the time in `restart_timestamp` has a restart
record.

**Exchange lists** (`framework/mpas_dmpar.F`, `mpas_dmpar_get_exch_list`).
At start-up the tasks find out who sends which elements to whom by passing
lists round a ring; owners replace indices by marks. Sender and receiver number
the elements of a message independently. *Correct if* every needed element
comes in exactly once from its owner, at a place both sides agree on, and the ring
never blocks.

**Halo exchange groups** (`framework/mpas_halo.F`). A group of fields shares one
message per pair of neighbours and per exchange; offsets are computed once, on
both sides apart from each other. An exchange posts receives, packs, posts sends,
unpacks in order of arrival, and waits for its sends. *Correct if* afterwards
each halo element has the value its owner had before the same exchange, whatever
the timing and the order of messages.

**Code generators** (`src/tools/registry/parse.c`, `gen_inc.c`, `utility.c`;
`src/tools/input_gen/streams_gen.c`, `test_functions.c`). At build time two
programs read `Registry.xml`: one cleans it up (attributes are pushed to the
members of structures and arrays, declarations and streams of one name are
merged), validates it and generates the Fortran that defines dimensions, shapes,
packages, the constituents of arrays and the immutable streams; the other writes
the default streams file from the registry as it stands. *Correct if* cleaning up
loses and mixes nothing, dimensions and fields come out as declared, the
constituents of an array are numbered without gaps in their groups, and a
registry that is accepted gives a streams file that is accepted.

**Configuration parsing** (`framework/xml_stream_parser.c`, `stream_inquiry.c`).
At the start of a run every task goes through the streams file three times: it
asks for the mesh stream, checks syntax and attributes and looks the mesh stream
up, and finally builds its streams in the manager. Task 0 reads the file each time
and broadcasts it; it also makes the directories of the streams that write, and
broadcasts whether that worked. *Correct if* what passes the checks cannot break
the parser, the streams are configured as the file says (references between
streams followed), all tasks take part in the same broadcasts and build the same
streams, and a stream is registered only with a directory it can write to.

**Land ice velocity interface** (`core_landice/mode_forward/Interface_velocity_solver.cpp`,
`mpas_li_velocity_external.F`). The finite element solver works on the dual mesh of
the cells with ice. Whenever the mask of dynamic ice changes, the tasks build that
mesh together: they number its triangles, edges and vertices globally, learn what
lies across the borders of their parts, and make lists by which a result comes back
to the owner of a cell that has no triangle there. Then each solve takes its input
from the cells (beyond a floating margin from a neighbour), cuts the prisms of the
extruded mesh into tetrahedra, and brings velocity and heat to all halos. *Correct
if* numbers and neighbours agree between tasks, the tasks at a border give the
solver the same values and cut the prisms alike, every halo has the present
solve's result and nothing older, and nobody waits for ever.

**Others.** The rest of the inventory, with the reason for each part's status, is
in PROJECT.json: input streams, forcing groups, the remaining message passing,
block creation, threading, pools and fields, attribute lists, logging, the driver,
dynamics, physics and diagnostics, the other cores, operators, vendored libraries.

### 1.2 How the parts interact

All calls are synchronous within a task. The driver calls `core_init`, which lets
the XML parser create streams and add their alarms to the core's one clock, and
`core_run`. The run loop advances the clock; the stream manager asks the same
clock which of a stream's alarms ring; the run loop resets them through the
manager. So clock, manager and loop share the alarm list, and the order of the
loop's statements is what makes the three agree. Between tasks there are only
messages; between runs there are only files: the streams' own and
`restart_timestamp`. Between the build and a run there is the generated code, which
creates the immutable streams, and the streams file, which the user may edit.
The velocity interface takes the exchange lists of the framework and keeps its own
state from one solve to the next in global variables.

### 1.3 What is hard

- *Long sequences of legal calls.* Late resets, look-aheads, jumps over several
  ring times, reversals: the remainder arithmetic must hold through all of them.
- *Boundaries.* `now = reference`, an interval that fits exactly, a record
  counter equal to the number of records.
- *Stale values.* The cached size of the record dimension; what a calibration
  forgets; a next ring time in the past.
- *Crashes* between two statements that write files, and reruns on the files of a
  run that went further.
- *Partial failure.* One stream of several fails; an operation on several lists
  stops half way.
- *Two ends that compute the same thing apart from each other*: the lists of a
  message, the numbers of a mesh, the diagonal of a common face.
- *A check here and a use there*: the file is checked in one pass and used in the
  next; the registry is checked by one program, the file made from it by another.
- *Messages.* Arrival in any order, neighbours one exchange apart with the same
  tag, MPI storing everything or nothing, buffers being reused.

PROJECT.json lists these under `hazards` at the lines where they bite.

## 2. Modules and code

| module | models | composed with |
|---|---|---|
| `TimeArithmetic` | what the two searches compute | used by the next three |
| `Timekeeping` | the clock and its alarms | |
| `IntervalDivision` | `mpas_interval_division`, loop by loop | gives the remainder `Timekeeping` uses |
| `AlarmCalibration` | the loops of `mpas_calibrate_alarms` | gives the neighbours `Timekeeping` uses |
| `OutputStream` | `write_stream`, its file, reruns | |
| `AtmRun` | set-up and `atm_core_run`, crashes, restarts | `Timekeeping` as `Clock` |
| `StreamRegistry` | abstract: streams, and who listens to which alarm | |
| `StreamAlarms` | the manager's lists and references | implements `StreamRegistry` |
| `ExchangeLists` | `mpas_dmpar_get_exch_list` | |
| `HaloUpdate` | abstract: what an exchange does to the arrays | |
| `HaloExchange` | a halo exchange group with its messages | implements `HaloUpdate` |
| `RegistryFile` | a registry: cleaning up, validation, the default streams file | used by `FieldCode` |
| `FieldCode` | what the generated code does with dimensions, packages and constituents | used by `StreamConfig` |
| `XmlSyntax` | `xml_syntax_check` | used by `StreamConfig` |
| `StreamPath` | `build_stream_path` on a file system | used by `StreamConfig` |
| `StreamFile` | checks, references and codes of the attributes | used by `RegistryFile` |
| `StreamConfig` | build, edits, and the tasks' three passes over the streams file | composes the five above |
| `PrismSplit` | the cut of a prism into tetrahedra | used by `VelocityGrid` |
| `VelocityGrid` | the solver's mesh and its exchanges, call after call | |
| `SortedSets` | sets of numbers in increasing order | used by `ExchangeLists`, `VelocityGrid` |

`MC*` modules hold instances for TLC, `*Proofs` modules the proofs.

**Timekeeping.** `now`, `timeStep`, `direction` are the ESMF clock's fields and
the direction flag; `alarms` is the linked list as a function from names to
records with the fields of `MPAS_Alarm_type`. One action per routine:
`SetClockDirection` and `SetClockTime` contain the calibration of all alarms,
`AdvanceClock` and `AdvanceClockBy` the two forms of the advance,
`ResetClockAlarm` the test of the envelope and the remainder. Three history
variables say what the code cannot: `origin`, a time of each alarm's series,
`heard`, the time up to which its rings have been dealt with, and `displaced`, the
alarms whose previous ring time an adjustment on a backward clock has put where it
answers for other rings than those still to come (section 5); no action reads
them to decide anything about the other variables. A step is taken as it is given, so that a
positive one moves a clock that runs backward forward. Time is a count of ticks.

**IntervalDivision, AlarmCalibration.** A step is one iteration of a loop; `pc`
says which. `Timekeeping` uses the functions `IntervalRemainder`,
`NegativeNeighbor` and `PositiveNeighbor` where the code calls the searches, and
these two modules show that the searches compute exactly those functions.

**OutputStream.** `stream` is the node: is its handle valid, which file has it
open, `nRecords`, the cached record count (`preexisting`), and whether the open file
has its fields (`handle`). `files` is the
disk: each file the sequence of the times of its records. `WriteRefused` and
`Write` are the whole of `write_stream` with `MPAS_seekStream`, the opening of
the file, the clobber test and the write inlined. A write that fails leaves each of
the disks a failure can leave (`PartlyWritten`: no record, the record after all, or one
whose time is missing). As a rule the run ends there (`WriteFails`), but a refusal of a
stream behind this one in the list takes the place of the error and the run goes on
(`WriteErrorMasked`), with the node as the failure left it: the counter moved, the stream valid
on a file without fields ("bare"), which the next writes leave as it is without an error
(`WriteNothing`), or on none ("closed", `WriteToClosed`). `masked` is the history of it: the files
a run has gone on in after such a failure, until they are opened again. `Tick` and `Restart` are
the driver around it: a restart takes any time reached so far and any mode and interval; when
`orderly` is TRUE, chosen at the start, only the configuration the runs began with, from times
whose output is complete, and a failing write ends the run and leaves no torn record.

**AtmRun.** `pc` names the statement to be executed and `todo` the streams a loop
over streams still has to visit. Each statement that touches the clock is an
action of `Clock`. `restartFile` and `timestamp` are the disk; opening
`restart_timestamp` with `status='replace'` and writing it are two steps, and
`Restart` may come between any two steps. What the write of one stream may do
is abstracted from `OutputStream`: it succeeds, fails with or without the
record on disk, or, if the stream is one of `Refusable`, is refused, with or without the
record on disk: `MPAS_io_open` asks only whether the file is there (`mpas_io.F:397`).

**StreamAlarms.** A list is the sequence of its names, a reference the name of
the node it leads to. `Insert` compares with all items but the last, as
`MPAS_stream_list_insert` does, and the operations test and stop in the order
of the code. `StreamRegistry` has none of this: a set of streams and a relation
`listens`. One asymmetry of the code shows up in it: an alarm whose last
listener is *removed* leaves the manager, an alarm whose last listener is
*destroyed with its stream* stays with the manager, without streams (`kept`),
and goes on answering for "any ringing alarm" and "reset all".

**ExchangeLists.** Each task is at a statement of the loop over hops (`pc`, `i`),
with its two buffers and their lengths. `Mark` is the body after the waits: find
owned indices, note a send list, replace them by marks. `Build` makes receive
and copy lists. `Transmit` and `Deliver` are MPI: a send may complete at any
time once it is posted, but is owed only when the matching receive is posted.

**HaloExchange.** `Layout` is what `mpas_halo_exch_group_complete` works out (`refactor_lists`,
`mpas_halo_compact_halo_info`, `mpas_halo_aggregate_group_info`):
neighbours, counts, slices, and for every slot of a buffer the number that goes
there. A field has at most three active layers (`LayersAssumption`): the lists
`nSendLists` and `nRecvLists` are allocated for three (`mpas_halo.F:1537`, `:1613`), and a
field with more is written out of their bounds. `PostReceives`, `Pack`, `PostSends`, `Unpack`, `Return` are the phases of
`mpas_halo_exch_group_full_halo_exch`; `Compute` is the model between two
exchanges. A value is the pair of a number's name and its version, so a value in
the wrong place or of the wrong exchange is told from the right one. `HaloUpdate`
has no messages: a task that has begun exchange r receives from each neighbour,
which must have begun r too, the values of version r.

**RegistryFile, FieldCode.** Pure operators. A registry is a record of packages,
options, dimensions, structures and blocks of streams. `Clean` is `push_attributes`,
`merge_structs_and_var_arrays` and `merge_streams` in the order `main` calls them;
`ValidateRegistry` is `validate_reg_xml` with its helpers, one operator per kind of
element; `GenerateStreams` is `streams_gen`, which works on the registry *before* it
is cleaned up. `SetupDimensions`, `Shape`, `PackageList` and `Layout` are what
the generated Fortran does when it runs, worked out from the code that prints it.

**XmlSyntax, StreamPath, StreamFile.** A text is the sequence of the marks the check
looks at (brackets, comment marks, quotes, slashes, line ends, words); `SyntaxCheck`
is "ok", "error", or "crash" where the code takes a tag from an empty stack.
A file system says of each directory whether it is absent, writable, read-only or a
file; `BuildParents` is the loop over the directories above the last, `BuildLast` what follows it. `ExtractStreamInterval` and `FilenameInterval` have the code's order of tests.

**StreamConfig.** `stage` is where the registry is between source and run; `task[t].pc`
is the pass or the step of the last pass task t is in, `sent` what task 0 has
broadcast and `heard[t]` how far t has got in it. A task that takes a message of
another kind than it waits for is at "mismatch", one that uses an attribute that is
not there at "crashed". `Edit` changes the file between two passes. `CheckSuffices`
compares `SyntaxCheck` with a definition of well-nestedness that has no stack, and
`GeneratedAccepted` joins build and run: it lists in `Unasked` all that the run asks
for and the build does not.

**VelocityGrid.** `Phases` are the stretches of code between two collective calls;
`phase[p]` is the one task p comes to next. A phase computes and then either gathers
a number (`counts`) or posts an exchange (`AllToAll`), whose messages `Receive` takes
in the order of the list. `field` are the arrays that travel, `grid` what the task
keeps of the mesh. The sends' waits are left out: all receives are posted before
the first wait, so they end when the receives do. The solver's answer is a pair of the
number of the solve and the global number of the vertex, so a result in the wrong
place or of an earlier solve is told from the right one. `NextCall` is
`li_velocity_external_solve` with another extent of the ice; it renews the mesh when it must, and
may do so otherwise, as `config_always_compute_fem_grid` and a changed Dirichlet mask have it.

## 3. Runs

State counts are distinct states of a complete search.

| run | module, bounds | states | shows |
|---|---|---|---|
| `clock` | two alarms, times 0..3, intervals 2 and 3, steps 2 and −2, look-ahead 0 or 2, two additions | 521,456 | `RingsExactlyWhenDue`, `SeriesNeverShifts`, `ResetSilences`, `RingingPersists` |
| `time_searches` | division: −3..70 by 0..5; calibration: ring times −4..5, clock −4..9, intervals 1, 2, 3, 5 | 8,441 | `SearchBrackets`, `Divides`, `SearchStaysClose`, `FindsNeighbors`, `SearchesEnd` |
| `output_stream` | all modes, intervals 1 and 2, files of 4 ticks, times 0..5, up to two failing writes, the run over or going on, 3 runs of any or of one configuration | 2,190,026 | `ExistingDataKept`, `NoGaps`, `RecordsInOrder`, `NothingLost` |
| `atm_run` | three output streams and two input streams, every combination of intervals 2 and 3 and of steps 1, 2, 3, stop time 5, 3 runs, failing writes | 216,592 | `TimestampHasRecord`, `OutputOnSchedule`, `LbcCoversStep`, `SurfaceIsLatest`, `Terminates` |
| `exchange_lists` | 18 meshes of three tasks of one block; three meshes with several blocks on one, two and three tasks | 17,758 | `MessagesMatchReceives`, `EveryNeedIsMet`, `Terminates` |
| `halo_exchange` | three tasks, five elements, two layers, three fields in two groups, three exchanges | 14,432 | `HaloIsCurrent`, `MessagesFitReceives`, `UpdatesHalo` (refinement), `Terminates` |
| `stream_alarms` | two streams, two alarms of the clock and one it has not, three links | 38,528 | `CrossReferenced`, `ImplementsRegistry` (refinement) |
| `stream_config` | two tasks; 18 registries, each with and without the streams left out by default, in two orders, with and without a package; about 470 streams files; 46 file systems; one edit | 38,759 | `RegistryHonoured`, `ConstituentsLaidOut`, `PathBuilt`, `TasksAgree`, `CheckSuffices`, `AsConfigured`, `GeneratedAccepted` |
| `velocity_grid` | three tasks, 13 cells, 14 triangles, 26 edges, two halo layers, three partitions, three extents of the ice, two solves | 24,501 | `NumberingIsGlobal`, `InterfacesAgree`, `ConformingSplit`, `VelocityEverywhere`, `ExitOnlyBesideIce`, `Terminates` |
| `clock_next_ring`, `output_not_found`, `atm_masked_error` | see section 5 | | a comment that the code does not keep |

The type invariants of the clock, the output stream, the run loop, the manager's lists, the ring and
the exchanges are proved for all values of the constants (section 4); the runs spend their time on the
other properties.

**Why the bounds are enough.**
- `clock`: with times 0..3, intervals 2 and 3 and steps and look-aheads of 2, an
  advance jumps over ring times, a reset comes one interval late or early, the
  reversal happens with a ring pending, steps go with and against the direction, and two series get out of phase. Symmetry
  over the two names is sound: no operation compares names other than for
  equality. The invariants are proved for every value of the constants (section 4).
- `time_searches`: 70 by 1 takes the doubling past 64, and every numerator
  at, just below and just above a power of two times the denominator is covered.
- `output_stream`: a file takes up to four records, so a stream goes from one
  file to the next and, in a rerun, comes back to files with no, some and all of
  its records; three runs are needed for a record written by one run, found by
  a second and protected in a third. The end of a file and the end of the run do
  not fall together. Two failing writes are needed for one that goes on with what the
  other left, in the same run or in a later one. `RecordsInOrder` and `NothingLost` speak of runs that keep one
  configuration and end at a write that fails (`orderly`): with a torn record in a file, a rerun in mode overwrite
  does not find its time and replaces the records behind it. The other two speak of all; `NoGaps`
  excepts the files in `masked`, where the next write does skip a record (section 5).
- `atm_run`: steps 1, 2, 3 against intervals 2 and 3 give steps below, at and
  above an interval, and steps that do not divide it; stop time 5 is not a
  multiple of 2 or 3. Three runs allow a restart of a restart run.
  No stream is `Refusable` here: refusals are the subject of
  `atm_masked_error`, where they break the rule.
- `exchange_lists`: the meshes have empty lists, needs that meet several owners,
  an index needed by two tasks and by two blocks, owned indices out of order,
  and one task alone.
- `halo_exchange`: the row's ends are neighbours in one layer and one direction
  only, so neighbour lists differ between fields, sends and receives; fields have
  inner dimensions 2 and 1, so offsets differ; the first group comes twice so that
  its buffers are reused, with another exchange between in which a task may lag.
- `stream_alarms`: two listeners of one alarm and two alarms of one stream in both
  directions; every list reaches its length 0, 1 and 2. `MaxLinks` only bounds how
  many alarms all streams together have. Symmetry over streams and over the two
  alarms of the clock is sound, and the run has no liveness property.
- `stream_config`: the registries are one that has everything the generators tell
  apart (packages on structures, arrays and members, a structure and a stream in
  two places, streams within streams, every kind of dimension) and variants with one
  thing changed each; of the packages of a layout every subset is tried. The files have every
  combination of type, the two intervals and the file interval of a stream that may
  refer to two others; both orders of nested streams; names that are missing,
  unknown or used twice; every file system of three nested directories; and every
  text that comes from a correct one by dropping a mark or adding one or a few.
- `velocity_grid`: with the ice on one, two and one of the three inner cells and the three
  partitions, a task has no triangle, all of them or a few; a cell's owner has no
  triangle at it while one or two other tasks have; edges lie between two tasks; two
  triangles are stored clockwise; the second solve comes with the same ice, so that
  the mesh is kept, or with ice that has advanced, retreated or moved away.

**Deadlock** is checked in `stream_alarms` and `stream_config`. Elsewhere a program comes to its
end, or a bound on time or on runs stops it; for the parallel modules `Terminates`
says that the end is the only place they stop.

In `stream_config` the only ends are a rejected registry, a run all of whose tasks are
through, and one a task has ended with an error.

**Fairness.** `IntervalDivision` and `AlarmCalibration` are sequential
subroutines: weak fairness of their one process. `AtmRun`: weak fairness of the
program's steps; crashes are possible and never owed. `ExchangeLists`,
`HaloExchange`: weak fairness of each task's program, of the delivery of a message
a receive is posted for, and of a transfer *once its receive is posted*: this is
the rendezvous protocol, the least MPI guarantees for a nonblocking send, so the
liveness does not rest on MPI buffering anything. `VelocityGrid`: weak fairness of each
task's steps, the receipt of a message among them, and of the next solve. The other modules have no
fairness: nobody owes a call.

## 4. Proofs

All proofs are checked by tlapm to their last leaf.

| theorem | says |
|---|---|
| `TimekeepingProofs`: `TypeCorrect`, `SeriesKept`, `RingsWhenDue` | `TypeOK`, `SeriesNeverShifts`, `RingsExactlyWhenDue` are invariants of the clock |
| `TimekeepingProofs`: `ResetsSilence`, `RingingKeepsOn` | every step of the clock obeys `ResetSilences` and `RingingPersists` |
| `TimekeepingProofs`: `SearchBracketed`, `DivisionCorrect`, `RemainderAgrees` | the division: its loop invariant, its result, and that its remainder is the function of `TimeArithmetic` |
| `TimekeepingProofs`: `StaysClose`, `CalibrationCorrect` | the calibration: its loop invariant, and that the neighbours are the functions of `TimeArithmetic` |
| `StreamManagerProofs`: `TypeCorrect`, `DataKept`, `NothingSkipped` | `TypeOK`, `ExistingDataKept`, `NoGaps` are invariants of an output stream, failing writes that end the run or not included |
| `StreamManagerProofs`: `InTimeOrder`, `WrittenStays` | so are `RecordsInOrder` and `NothingLost` |
| `AtmRunProofs`: `RestartSafe` | `TimestampHasRecord` is an invariant of the run loop with crashes and restarts, if the restart stream is not refused and no refusal takes the place of its error (`Unmasked`) |
| `AtmRunProofs`: `OnSchedule`, `LbcCovers`, `SurfaceFresh` | so are `OutputOnSchedule`, `LbcCoversStep`, `SurfaceIsLatest`, without that hypothesis |
| `AtmRunProofs`: `TypeCorrect` | `TypeOK` is an invariant of the run loop |
| `StreamManagerProofs`: `ManagerTypeCorrect`, `CrossReferencesKept` | `ManagerTypeOK` and `CrossReferenced` are invariants of the manager's lists |
| `StreamManagerProofs`: `RefinesRegistry` | the lists implement `StreamRegistry`, return codes included |
| `StreamConfigProofs`: `SameStreams` | `TasksAgree` is an invariant of the start of a run |
| `StreamConfigProofs`: `DirectoriesRight` | so is `PathBuilt`, for every file system and every depth of path |
| `OperatorProofs`: `FaceCutByNumbers` | the face between two columns of a prism is cut from the bottom of the column with the smaller number and nowhere else, whatever the third column |
| `VelocityGridProofs`: `PartsKnown`, `EverythingKnown` | the inductive invariants of the velocity interface, `Parts` and `Learnt` |
| `VelocityGridProofs`: `MeshNumbered`, `InterfacesKnown` | `NumberingIsGlobal` and `InterfacesAgree` are invariants, for any mesh, partition, ice and number of solves |
| `VelocityGridProofs`: `PrismsConform` | so is `ConformingSplit` |
| `VelocityGridProofs`: `VelocitiesKnown`, `ExitsBesideIce` | so are `VelocityEverywhere` and `ExitOnlyBesideIce` |
| `ExchangeListsProofs`: `TypeCorrect` | `TypeOK` is an invariant of the ring, and with it that no more messages are under way to a task than there are tasks |
| `ExchangeListsProofs`: `MessagesMatch` | so is `MessagesMatchReceives` |
| `ExchangeListsProofs`: `NeedsAreMet` | so is `EveryNeedIsMet`, for every number of tasks and blocks and every partition |
| `HaloExchangeProofs`: `LayoutsAgree` | what the two sides of a message work out of its layout agrees, for every decomposition and group, up to three active layers a field |
| `HaloExchangeProofs`: `TypeCorrect`, `MessagesFit` | `TypeOK` and `MessagesFitReceives` are invariants of the exchanges |
| `HaloExchangeProofs`: `ExchangesUpdate` | the exchanges implement `HaloUpdate`, fairness left aside |
| `HaloExchangeProofs`: `HaloStaysCurrent` | `HaloIsCurrent` is an invariant of the exchanges, within the same limit |

**Assumptions.** Those on the constants, named in the modules: intervals
are positive, a step of the clock is any integer, look-aheads are natural numbers and 0 is one of them, bounds are
natural numbers, denominators are not negative, clobber modes are among the four
modelled. The run loop's outputs are a list without repetition that has "restart" on
it and neither of the two input streams, its intervals and its time steps are positive, and the
horizon of the model lies at least a step beyond the stop time. The alarms of the clock are
among the names of alarms, and a stream is created with a subset of the two directions.
Exchange lists are of any positive number of tasks, numbered from 0, with any number of blocks each;
indices are positive (0 and below are the marks of tasks), owned at one place only, and what a
block needs is named once and owned somewhere (`MeshesAssumption`): the block decomposition hands out every cell
once, and the halos are grown from the cells, edges and vertices of the mesh as sets. An index that is
needed may be owned by the same block, as for the copies of a block to itself.
Halo exchanges are of any positive number of tasks, each with a finite set of elements of its own,
disjoint from those of the others; halo elements belong to other tasks, the layers of a field
are among those every task has (`useHalo` is indexed with them) and at most three in number
(`MaxHalos`, the bound the code has written into `refactor_lists`; which three does not matter), fields have
positive sizes, and a program is a sequence of groups, a group one of fields. The columns of a prism have different integers for numbers: they
are the global numbers of three cells.

At the start of a run task 0 is one of the tasks (`TasksAssumption`). A file system is a tree: what is in a
directory that is not there is not there either; and it has an answer for every directory that a stream
of a file the run may read asks for (`PathsAssumption`), as a real one has for every path. The model
keeps only as many paths as the files name. That nothing but directories is in the way is not assumed: it is a condition of `PathBuilt`.

The velocity interface has the mesh as a constant, and `VelocityGrid` names what is assumed of it.
`MeshAssumption`: MPAS cells, edges and vertices are numbered from 1, a vertex has three cells and an edge two, the
mesh is the dual of a triangulation (two cells of a vertex are the ends of one edge, and of one
only), no cell is without an edge, and an edge has one or two triangles unless both its cells are on the rim.
The C++ code reads `cellsOnVertex` with stride 3, `cellsOnEdge` with stride 2, and keeps two sides for an edge.
`PartitionsAssumption`: each cell has one owner among the tasks; a task may own none.
`IceAssumption`: the mesh is a window, whose rim cells (`Rim`) have edges and vertices outside it, and the
theorems are about ice that does not reach the rim: what is outside then has no part in a triangle with ice. `HalosAssumption`: two halo layers at least, the default and
the minimum the land ice core's registry asks for (`core_landice/Registry.xml:348-351`); with one, `import2DFields` leaves the block (section 5). `MidpointAssumption`: the midpoint of an edge between two
triangles lies in one of them, which is geometry: `belongToTria` is otherwise free to answer as it likes, and the
error exit stays reachable where one of the two triangles has no ice. The number of tasks, of halo layers beyond
two and of solves is any.

`RestartSafe` has a hypothesis, `Unmasked`, in two parts. The restart stream itself is never refused, as in
mode overwrite or truncate: a refusal would be tolerated and the time stamped, and it takes no more
than a file of that name, whatever is in it. And no other stream is refused, or
"restart" is the last one the manager writes: `atm_masked_error` is a run in which this fails and a
time is stamped that has no record. Both parts are broken by real
configurations, since a stream with clobber_mode never_modify or append is refused
when it meets files of an earlier run. Nothing else is assumed of the streams.

**Arguments.**
- *Clock.* That an alarm rings exactly when due is not inductive: nothing in it
  ties the previous ring time to the series. The inductive invariant is
  `TypeOK /\ SeriesNeverShifts`: the previous ring time of a recurring alarm is
  the last time of its series at or before `heard` (at or after it, when the clock
  runs backward), and a one-shot alarm is set until its time has been heard. Alarms that were
  adjusted while the clock ran backward (`displaced`, section 5) are excepted until a calibration or a reset
  of a ring puts them right; of them only that they stay in their series is claimed. Each
  action moves both together; the arithmetic for resets, adjustments and
  calibrations is in the lemmas of `OperatorProofs`. From the
  invariant, the next ring time is the first of the series not yet heard, so it
  has been reached exactly if some time of the series is due. The two action properties
  follow from the invariant of the state before the step, action by action. No relation between the sign of the
  step and the direction of the clock is used, as the code keeps none.
- *Division.* The bracket `updated <= num < updated + 2*den*m` of the halving
  loop is kept only because `m` is a power of two, or zero: with any other `m`,
  `m \div 2` would give up a part of the range. `PowersOfTwo` is therefore part
  of the invariant, defined without recursion as the least set with 1 that is
  closed under doubling.
- *Calibration.* `TypeOK /\ SearchStaysClose`: the search stays in the series and
  within one interval of the clock once it has turned. Two times of a series
  less than an interval apart are the same, which identifies the results.
- *Output stream.* What the modes promise depends on what the handle knows:
  the invariant adds that no file has a hole (`FilesComplete`) and that the counter
  of an open handle is inside its file (`HandleInside`), both except for files in which a run has
  gone on after a failing write (`masked`), and that, without exception, in a mode that
  protects data the cached size is not below the number of records the run found
  (`HandleGuards`). The last is where a stale size would let data go.
  In runs that go on as they were configured, end at a write that fails and leave no record torn (`orderly`) the order of the records needs
  more (`OrderInv`): under the modes that keep the files they open, the disk holds every
  output up to some time, and all up to the last that can have been made (`DiskComplete`);
  and the counter of the open file separates the records up to that time from those an
  earlier run has left behind it (`CounterAtLatest`). So the record after the counter is
  the one the present time belongs at, whether it is there or not (lemma
  `TargetRight`). That nothing written is lost adds that the files the run has written are not
  opened again, or are open (`WrittenKept`).
- *Run loop.* All four theorems rest on `Base`: the clock stands a whole number of steps
  after the start of the run (`ClockOK`), what is left of a loop over streams is a list
  without repetition (`ControlOK`), and every alarm that is set up is at a place of its
  series (`AlarmsListed`). `RecordInv` follows the error code from the write to the stamp: if the restart
  alarm rings and no error is known, the record is there or its stream is still to be
  written. It is here that masking breaks the rule: `ierr` is the one variable for all
  streams. `ScheduleInv` says at each statement what each stream has been written
  at so far, and that its alarm is behind the clock by exactly what has not been
  written and reset; advance, write and reset move these at three different statements.
  `LbcInv` and `SurfaceInv` say the same of the two input streams, between the statement
  that reads them and the one that resets their alarm.
- *The manager's lists.* The invariant states the references once, between the list of a stream
  and the list of an alarm the manager has (`Linked`), over lists without repetition
  (`ListsOK`); what the insertion overlooks, and each error half way, is then shown not
  to happen: the query before the first change is enough for all lists the operation
  touches. The refinement takes the links, and the alarms that have a node without
  streams, for the relation's state. Every operation is shown to move these as the
  relation's does (lemmas `CreateStep` to `RingStep`): among them that an alarm
  whose last listener is destroyed stays, while one whose last listener is removed
  goes.
- *Streams file.* `TasksAgree` compares tasks that have come equally far; what makes it hold
  is that a task is determined by what it has heard (`Determined`): its place in the
  program says how many messages it has taken, so the next is of the kind it waits for; the
  first message fixes its mesh stream, the third the file it parses. The streams it has built
  are those before the same element of that file in one history for all (`OneHistory`),
  which the task that is furthest extends and the others follow. This needs that registering a
  stream looks at nothing but the file, the registry and the packages (lemma
  `Unchanged`); what a task can read of the file system makes it fail, and with it the run.
- *Directories.* `build_stream_path` goes down the path one `mkdir` at a time and keeps one flag, whether the
  last directory that was there already could be written. An induction over the names of the path (lemma `LoopFinds`)
  shows that, where only directories are in the way, the flag says of the directory just passed
  whether it may be written, because one that was made can be, and that the loop ends early
  only beneath a directory that may not be written. Beneath such a one nothing can be there (the file system is a tree, lemma
  `Hopeless`), so the refusal is right. `PathsKnown` carries this through the run: task 0 makes directories for one
  stream after another, perhaps of a file edited since the checks; each verdict holds of the
  directories as they are then, which are those of the start with some added (`Grown`), and no step
  between the verdict and the registration changes them.
- *Prism.* The least of three numbers and the order of the other two leave six
  cases; in each the three tetrahedra are worked out. The diagonal depends on the two
  numbers at the face only, so two prisms with that face agree about it: what
  `ConformingSplit` checks on the meshes of the tasks.
- *Velocity interface.* The five properties are about the ends of thirteen phases, which the tasks
  come through at their own pace, so none of them is inductive. `Learnt` is, in four parts. `Parts` says
  what each task has worked out by the phase it is at: `GridKnown` gives its triangles, edges, cells,
  lists, corners, sides and sources as functions of the partition and the ice alone (`TrianglesOf`,
  `PartOf`, `SideOf`, `SourceOf`), so whatever two tasks have learnt about the same
  entity can be compared without following the messages. `Messages` says what is under way. A
  task has received no message of a phase its sender has not come through (`SentBefore`), and those sent and not
  taken in stand in the queue in the order of the phases (`Due`); each has for every entity of its
  list the value its phase is to bring (`Carries`, `Right`), and a task's array has that value at every
  entity it owns or has been told of (`ArraysRight`). The lists that go backward are the difficult ones: the sender makes
  its list from the entities it has and the owners of the triangles around them, the receiver from
  the entities of its own that have no triangle there; that both are one set (`ListsFit`),
  and that sorting by global numbers gives it one order on both sides, is where the numbering is needed.
  An entity that several tasks send back has the value once one of them has been heard
  (`Given`). `Known` is what gathers and lists leave: the counts of all tasks are those of the same
  phase (`CountsKnown`), although one task may have gone on to gather the next number; from them every
  offset is the number of entities of the tasks before, and the global numbers are the places in
  the order of task and local number (`NumberOf`), which is a bijection onto an interval. The last part is
  `ExitOnlyBesideIce` itself, from the geometry of midpoints. `ConformingSplit` needs `Parts` only, and
  `FaceCutByNumbers`. With the mesh kept from an earlier solve, a task begins at the solve phase with
  arrays that are right for this solve's numbers, but not yet for its answers: that is why
  `Right` takes the number of the call.
- *Exchange lists.* The ring has no common clock: a task may be hops ahead of the one behind
  it, and it reuses its two buffers at every hop. `IInv` counts for each task the messages it has
  sent and received (`Sent`, `Got`, from the hop and the requests that are not complete) and says
  that the messages under way between two neighbours are those of the difference, count and list in
  turn, each with the list of the task it belongs to as the tasks it has passed have marked
  it (`Underway`, `Seen`). So the one at the head is the one waited for. How far a task
  can be ahead is not a matter of two neighbours: a task is at most one list ahead of what it has received, and round
  the ring this adds up to the number of tasks, which bounds the messages under way (lemma
  `FarAhead`). When a list is home, its marks are the owners of its
  entries, because each index is owned once. Then `EveryNeedIsMet` is about sorted sets only: the sender numbers
  the entries it provides in the order of the list of needs, the receiver the entries with its mark
  in the same list, and these are the same set, so the rank of an index is the same on
  both sides though each side splits it over blocks in its own way. That `Sorted` enumerates a set in order,
  and that ranks are one to one, comes from an induction on the size of the set.
- *Layouts of messages.* Counts and offsets are running sums, and sections and neighbours
  come from two passes over sets in order: what these definitions compute is proved first, by
  induction over numbers (lemma `SetInduction`, from `WFMin`), with the sum as a
  recursive function. Then: a neighbour to send to is a task that has an element in its halo, once
  in the list however many fields and layers are exchanged with it; the counts of both sides are
  the same sum, so the slices are equally long and those of a buffer lie apart
  (`RangesStack`); and the blocks of elements fill a message without gap or overlap (`MessageTiled`),
  so packing gives each place of a slice one number and unpacking finds it there.
- *Halo exchange.* That messages fit is not inductive: all have the same tag, and a task may be
  ahead of its neighbour. `IInv` says which exchanges a sender's messages have left the
  send buffer for (`Sent`) and which its receiver has taken in (`Got`), and that the messages
  under way are those of the difference, oldest first, each with the values of its own exchange
  (`WireFits`). Got is always part of Sent, and a task that waits for a message has got all
  earlier ones, so the head of the queue is the one it waits for
  (`HeadIsOfThisExchange`). What a pending send refers to is not packed again
  before MPI has taken it, because `Return` waits for the sends (`BuffersFit`); the mutant that does not wait
  breaks this.
- *Halo update.* `Compute` is the abstract beginning of an exchange and `Unpack` the abstract
  receipt; the other steps are not seen. `HaloIsCurrent` speaks of the times between
  exchanges only. The invariant of the abstract update says for each halo element at every
  moment that its value is of the last exchange that has brought it: the present one if its
  neighbour has been heard from, an earlier one if it has not.

**How the results join.** The two searches are proved equal to the functions
`Timekeeping` uses, so the clock's theorems cover the loops too; `AtmRun` runs on the
actions of `Timekeeping`, and its proofs use the lemmas of `OperatorProofs` about
them. `StreamRegistry` may stand for the manager's lists wherever only streams and the
alarms they listen to matter.
`HaloExchange` takes sorted, matching exchange lists for granted, which is what
`NeedsAreMet` proves of `ExchangeLists`; from there on the values between exchanges are
proved, and a model of a core that exchanges its halos may use `HaloUpdate` instead.

**Only model-checked.** All liveness (out of the prover's reach), the fairness `UpdatesHalo`
asks for and the termination of `ExchangeLists` included; all of `StreamConfig`
but `TasksAgree` and `PathBuilt`: the other properties say what folds over the registry and the file compute,
which takes induction over data (induction over numbers can be had as a statement about sets,
as in `SetInduction`, which is how the loop of `build_stream_path` is proved; for trees and folds no such theorem is at hand). Of the other modules every
invariant and action property that a run checks is stated by a theorem.

## 5. Where code and comments disagree

Three runs check what a comment says and end in a counterexample; the texts are
quoted in PROJECT.json under `findings`.

- `clock_next_ring`: `mpas_alarm_get_next_ring_time`, called at a ring time of an
  alarm for which an earlier one is still to be dealt with, returns that earlier time, not the
  current time; it is enough to add an alarm whose ring time is an interval old. A caller that subtracts the present time gets a negative interval
  (`core_landice` uses the result for its time step).
- `output_not_found`: when an open file has no record for the present time and the
  counter equals the number of records the file had, the strict comparison leaves
  the counter alone and the last record is replaced (mode `overwrite`) or the
  write refused (mode `append`), although the comment says the record is set to
  the end of the file. It takes a rerun with a finer output interval.
- `atm_masked_error`: the code of a failed restart write is replaced by the refusal
  of a later stream, which the run loop tolerates; it then stamps a time that has
  no restart record. `TimestampHasRecord` holds in `atm_run` because there no
  stream is refused. The run loop tolerates the refusal of the restart stream itself just as well
  (`mpas_atm_core.F:832-834`) and stamps the time (`:862-870`), and `MPAS_io_open` refuses a file because it exists
  (`mpas_io.F:397`), be it without this record. `RestartSafe` proves what is enough: that the restart stream is not
  refused, and that no other is or "restart" is the last stream written.

What the work on the configuration and the generators brought to light is in the
models as the code has it; the properties are stated so that they hold, with these
cases excepted by name:

- A mutable stream nested in another mutable stream that is already created gets no
  fields from it, though the comment (`xml_stream_parser.c:1805-1812`) has it that the
  loop adds them: the order in the file decides (`SubStreamFields`).
- Without `filename_interval`, the default is chosen by the text in the file and
  then taken from the interval it refers to, which may be "initial_only"
  (`:1137-1195`; `AsConfigured` excepts references).
- `create_stream_c` loses its error for a stream named twice when a property is set
  afterwards (`mpas_stream_manager.F:5903-6033`, `ErrorIsLost`).
- `build_stream_path` returns 0 without a directory where an ordinary file or an
  unwritable starting directory is in the way (`PlainStart` in `PathBuilt`).
- `xml_syntax_check` crashes on a closing tag without an opening one, and ends at
  `<>` with the rest unread (`SyntaxChecked` says so); a comment that is not closed,
  and a "$" at the end of a name, pass.
- The inquiry for the mesh stream comes before any check: a stream without a name
  before the one asked for crashes it (`QueryCrashes`).
- `streams` of a `var_array` is validated and never used, and names of streams are
  looked for as parts of the text (`gen_inc.c:1955-1957`); names of arrays are not
  checked to be unique (`parse.c:850`), `runtime_format` only in streams that have
  variables (`parse.c:566`), and the uniqueness of templates takes the type of the
  second stream from the first (`parse.c:707`). The list of what the build accepts and
  the run refuses is `Unasked`.
- `streams_gen` ignores the result of `generate_streams`: on an unknown format it
  leaves a cut-off file behind and reports success (`streams_gen.c:88`).

The clock and the output stream have more such cases:

- Adjusting an alarm on a clock that runs backward does not look at where the clock is
  (`mpas_timekeeping.F:1033-1042`): the interval it divides is not positive and comes back whole, so what is
  stored is the reference time `ref`, or `ref - interval` when the clock has not come past it. In the
  first case the alarm rings at once for times the clock had passed; in the second every
  ring from now down to `ref - interval` is lost. Such an alarm is `displaced`, and `RingsExactlyWhenDue` and the
  second half of `SeriesNeverShifts` leave it out until its next calibration or the reset of a ring. Nothing in `src` turns a clock
  backward outside the routines of the clock.
- `mpas_set_clock_timestep` and `mpas_advance_clock` take the step they are given
  (`:366`, `:410-414`). A positive step on a reversed clock moves it against its direction, back past a
  ring time, and silences a ringing alarm without a reset; `RingingPersists` excepts such a step.
- After a write that failed and was masked (`atm_masked_error`) the stream goes on with its counter already
  advanced (`mpas_stream_manager.F:3321`): the next write skips a record. When the file could not be
  defined, the handle is open without fields, and writes return no error and write nothing; when the old file could not
  be closed, every later write fails. `NoGaps` excepts the files in which a run has gone on in this way (`masked`).
- A write can fail between the record and its `xtime` (`PartlyWritten`). The record has then no time of its own, a rerun
  does not find it, and in mode overwrite writes over the last record instead; `RecordsInOrder` and `NothingLost` are about
  runs without one.
- `refactor_lists` allocates its lists for three halo layers, "MGD fix hard-coded 3 later" (`mpas_halo.F:1537`, `:1613`):
  a field with more active layers is written past their end. `MaxHalos` bounds the layers of a field in the
  model, in the runs and in the theorems.

And in the velocity interface: when task 0 has no triangle with dynamic ice it takes
one without, and the run ends with `exit(1)` if the midpoint of one of its inner edges
lies in no triangle with ice; `ExitOnlyBesideIce` shows that this is the only way to
that exit. `import2DFields` searches one cell beyond the cells it needs, so with one
halo layer (`config_num_halos`) a task would look for neighbours outside its block.

Two more observations that no run rests on. `MPAS_stream_list_insert` "first makes
sure the stream doesn't exist" but never compares with the last item; the lists
stay free of duplicates because every caller asks first, and that is part of what
`CrossReferenced` shows. And adjusting an alarm to an explicit reference time in
the past treats a ring due at this very moment as done, while a reference time
equal to the present leaves it ringing: after a restart, output and input at the
initial time depend on it. `OutputOnSchedule` states exactly what that leads to for
output; the input streams of `AtmRun` refer to the start of the run, as they do by
default.

## 6. What is left out of the modelled parts

- *Calendar.* Intervals of months and years, whose length depends on the date; time
  strings; start and stop times of a clock other than the run loop's stop time.
- *Threads.* All state of the clock is changed by the master thread; the barriers
  around it are planned (section 7).
- *Output.* Forced writes, packages and the active flag (guards the caller sets),
  time levels, blocked writes, attributes and fields. `MPAS_seekStream` first
  guesses the record from the spacing of the first two times in files of more than
  twenty records; the model has the linear search only, which finds the same record
  in files that have no time twice.
- *Run loop.* One block per task, as the atmosphere core is run; the numerics, the
  diagnostics and their alarms.
- *Streams' lists.* Name patterns, properties, the shared cursor of an iteration,
  fields, and finalisation, which destroys every stream.
- *Halo exchange.* One block per task; creating, naming and destroying groups; more
  dimensions and other types than the product of the inner dimensions.
- *Configuration.* The length of paths and names, the Fortran side of the error
  messages, times in file names; `free` of strings that `strsep` has moved.
- *Generators.* The text of the generated Fortran, namelists and their options, missing and
  default values, attributes of fields, packages on the members of streams, `fortprintf.c` (which breaks lines) and `namelist_gen.c`.
- *Velocity interface.* The vertical grid and values, thermodynamics, output of
  meshes and observations as text, the redirection of the log, and the variant for
  LIFEV, whose `MPI_Allreduce` stands in a branch only tasks with triangles take.
- *Not modelled at all*: see `components`; most of it is floating-point numerics,
  or containers used sequentially.

## 7. Plan

In this order; the first items carry the most of the system's behaviour.

1. **Input streams** (`read_stream`, `MPAS_readStream`, the search over files when
   `whence` is not exact): module `InputStream`, with an abstract specification of
   what LATEST_BEFORE and its relatives return. It replaces the operators
   `LatestBefore` and `EarliestStrictlyAfter` of `AtmRun` by something shown.
   Runs: every file layout of two files of up to three records, all values of
   `whence`.
2. **ClockTeam**: the clock's routines as an OpenMP team runs them, master section
   and barriers. The early returns before a barrier (duplicate name in
   `mpas_add_clock_alarm`, unchanged direction in `mpas_set_clock_direction`) are
   hazards already listed. Abstract specification: a barrier. Two or three threads.
3. **StreamAlarms, second part**: iteration with the shared cursor, fields,
   name patterns, finalisation.
4. **Forcing groups** (`mpas_forcing.F`) on top of `Timekeeping`: a clock of its
   own with cycling, forcing times shifted past the clock.
5. **Multi-field halo exchange of `mpas_dmpar.F`**, several blocks per task, as a
   second implementation of `HaloUpdate`; halo growth in `mpas_block_decomp.F` and
   `mpas_block_creator.F` as operators on small meshes.
6. **AdaptiveStep** (land ice: the step cut at the next ring time), **io_units**,
   and the sequential containers (hash, sort, attribute lists) as operators
   checked against reference definitions.
7. **Proofs**: an abstract alarm, a set of times not yet heard, implemented by `Timekeeping`; of
   `StreamConfig` the rest, once the folds over the registry are written as recursions over numbers.

Runs are kept few: a module of the plan brings one passing run, or joins one that
exists.
