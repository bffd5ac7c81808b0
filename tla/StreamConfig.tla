---------------------------- MODULE StreamConfig ----------------------------
(***************************************************************************)
(* The streams of a run, from the registry of the core to the stream       *)
(* manager of every task.                                                  *)
(*                                                                         *)
(* The build validates the registry, generates the immutable streams and   *)
(* writes the default streams file, which the user may edit or replace.    *)
(* At the start of the run every task asks the file for the mesh stream    *)
(* (stream_inquiry.c), checks it (xml_stream_get_attributes) and builds    *)
(* its streams from it (xml_stream_parser).  Task 0 reads the file, each   *)
(* time anew, and makes the directories; the others receive the text and   *)
(* the verdict.  A file may change between two reads.                      *)
(*                                                                         *)
(* A file is [text, doc, fields]: its marks, the streams the XML library   *)
(* makes of them, and the lists of fields in the files its streams name.   *)
(***************************************************************************)
EXTENDS FieldCode, XmlSyntax, StreamPath

CONSTANTS Tasks,        \* the MPI tasks, 0 .. n
          Scenarios,    \* registries with what they are built and run with, by a label
          Files,        \* the files that are put in the place of the default file, by the same label
          Edits,        \* what a file is changed into during the start, by the same label
          MeshDefault,  \* the mesh stream of a cold start
          MaxEdits      \* how often the file may be changed during the start

Root == 0
NoFile == [text |-> <<>>, doc |-> <<>>, fields |-> <<>>]

ASSUME TasksAssumption == Root \in Tasks

\* The streams of the files a run may come to read.
DocsOf(label) ==
    LET w == Scenarios[label]
    IN  {GenerateStreams(w.registry, w.order, w.keyed).streams, NoFile.doc}
            \cup {f.doc : f \in Files[label] \cup Edits[label]}

\* A file system knows of every directory that a stream asks for.
ASSUME PathsAssumption ==
    \A label \in DOMAIN Scenarios :
        /\ IsFileSystem(Scenarios[label].fs)
        /\ \A doc \in DocsOf(label) :
              /\ doc \in Seq(Range(doc))
              /\ \A i \in 1 .. Len(doc) :
                    LET s == InOrder(doc)[i]
                    IN  ~UsesAbsent(s) /\ "output" \in s.type => s.template.dirs \in DOMAIN Scenarios[label].fs

VARIABLES which,    \* the label of the scenario
          world,    \* the scenario
          stage,    \* "source", "built", "rejected" or "run"
          registry, \* the registry, cleaned up by the build
          file,     \* the streams file
          fs,       \* the directories
          edits,    \* how often the file was changed during the start
          task,     \* what every task has done
          sent,     \* what task 0 has broadcast
          heard     \* how much of it each task has received

vars == <<which, world, stage, registry, file, fs, edits, task, sent, heard>>

-----------------------------------------------------------------------------
(* The build                                                               *)

ImmutableNames == Names(SelectSeq(AllStreams(registry), IsImmutable))

\* Which fields can be added to a stream: those of the model, if their packages are enabled.
Available ==
    UNION {{v.name : v \in {w \in Elements(st.vars) : VarActive(w, world.enabled)}} \cup
           {a.name : a \in {b \in Elements(st.arrays) : ArrayActive(b, world.enabled)}}
           : st \in Elements(registry.structs)}

StreamNamed(streams, name) == streams[First(Named(streams, name))]

\* setup_immutable_streams: template and fields, and nothing yet of the streams file.
ImmutableStream(s) ==
    [immutable |-> TRUE, active |-> TRUE, template |-> s.template, interval |-> None,
     clobber |-> "never_modify", io_type |-> "pnetcdf", precision |-> 0,
     in |-> None, out |-> None, packages |-> {},
     fields |-> ImmutableFields(registry, s) \cap Available]

SetupImmutableStreams ==
    [name \in ImmutableNames |-> ImmutableStream(StreamNamed(AllStreams(registry), name))]

\* The text of the file streams_gen writes; an immutable stream is an empty element.
Element(s) ==
    LET start == << "<", s.kind, "name", "=", Quote, s.name, Quote, NewLine >>
    IN  IF s.kind = "immutable_stream" THEN start \o << "/", ">" >>
        ELSE start \o << ">", "<", "/", s.kind, ">" >>

TextOf(doc, whole) ==
    << "<", "streams", ">" >> \o FlattenSeq([i \in DOMAIN doc |-> Element(doc[i])]) \o
    (IF whole THEN << "<", "/", "streams", ">" >> ELSE <<>>)

DefaultFile ==
    LET generated == GenerateStreams(world.registry, world.order, world.keyed)
    IN  [text |-> TextOf(generated.streams, generated.whole),
         doc |-> generated.streams, fields |-> generated.fields]

-----------------------------------------------------------------------------
(* The stream manager, as far as the parser sees it                        *)

\* The settings the parser reads off a stream.
Settings(doc, s) ==
    LET in  == ExtractStreamInterval(doc, s, "input_interval")
        out == ExtractStreamInterval(doc, s, "output_interval")
    IN  [in |-> IF "input" \in s.type THEN in ELSE None,
         out |-> IF "output" \in s.type THEN out ELSE None,
         active |-> s.type # {"none"},
         interval |-> FilenameInterval(s, in, out),
         clobber |-> ClobberMode(ClobberCode(s.clobber)),
         io_type |-> IoType(IoTypeCode(s.io_type)),
         precision |-> PrecisionCode(s.precision)]

Resolves(doc, s) ==
    \A attr \in IntervalAttributes : Value(s, attr) # Absent => ExtractStreamInterval(doc, s, attr) # Bad

\* What is set of a stream that is there: a property that is "none" is left as it is, and a
\* stream without a direction is no longer active.
Apply(r, set) ==
    [r EXCEPT !.active = @ /\ set.active,
              !.interval = IF set.interval = None THEN @ ELSE set.interval,
              !.in = IF set.in = None THEN @ ELSE set.in,
              !.out = IF set.out = None THEN @ ELSE set.out]

\* A package nobody knows is passed over with a warning.
AddPackages(r, s) == [r EXCEPT !.packages = @ \cup (s.packages \cap registry.packages)]

UpdateImmutable(r, doc, s) ==
    LET set == Settings(doc, s)
    IN  AddPackages(Apply([r EXCEPT !.template = s.template, !.clobber = set.clobber,
                                    !.io_type = set.io_type, !.precision = set.precision], set), s)

NewMutable(doc, s) ==
    LET set == Settings(doc, s)
    IN  AddPackages([immutable |-> FALSE, active |-> set.active, template |-> s.template,
                     interval |-> set.interval, clobber |-> set.clobber, io_type |-> set.io_type,
                     precision |-> set.precision, in |-> set.in, out |-> set.out,
                     packages |-> {}, fields |-> {}], s)

\* The error of creating a stream twice is lost when a property is set after it: the
\* reference time or the record interval (timed), the filename interval or the active flag.
ErrorIsLost(doc, s) == s.timed \/ Settings(doc, s).interval # None \/ s.type = {"none"}

-----------------------------------------------------------------------------
(* The members of a mutable stream                                         *)

Lists(s, f) == UNION {IF name \in DOMAIN f.fields THEN f.fields[name] ELSE {} : name \in s.files}

\* All that is named must be in the model, and only what is active is added.
FieldsNamed(s, f) == Lists(s, f) \cup s.vars \cup s.arrays
KnownMembers(fields, structs) == fields \subseteq ModelFields(registry) /\ structs \subseteq Names(registry.structs)
OwnFields(s, f) == FieldsNamed(s, f) \cup StructFields(registry, s.structs)

\* The streams a name stands for where the manager cannot help.
FurtherOn(doc, name) == {r \in Elements(Mutables(doc)) : r.name = name}
Copies(m, s, name) == name \in DOMAIN m /\ m[name].immutable /\ ~m[s.name].immutable
IsCreated(m, name) == name \in DOMAIN m /\ ~m[name].immutable
Sought(m, doc, s) ==
    UNION {FurtherOn(doc, name) : name \in {n \in s.subs : ~Copies(m, s, n) /\ ~IsCreated(m, n)}}

\* A stream within the stream: the fields of an immutable stream; nothing of a mutable one
\* that has been created; of one further on in the file what it names itself.
SubStreamFields(m, doc, s) ==
    UNION {m[name].fields : name \in {n \in s.subs : Copies(m, s, n)}} \cup
    UNION {r.vars \cup r.arrays \cup StructFields(registry, r.structs) : r \in Sought(m, doc, s)}

\* A file that cannot be read, a name that is not known, an immutable stream to add to.
CanAddFields(m, doc, s, f, readable) ==
    /\ s.files \subseteq readable
    /\ KnownMembers(FieldsNamed(s, f), s.structs)
    /\ \A r \in Sought(m, doc, s) : KnownMembers(r.vars \cup r.arrays, r.structs)
    /\ m[s.name].immutable => OwnFields(s, f) \cup SubStreamFields(m, doc, s) = {}

AddFields(m, doc, s, f) ==
    [m EXCEPT ![s.name].fields = @ \cup ((OwnFields(s, f) \cup SubStreamFields(m, doc, s)) \cap Available)]

-----------------------------------------------------------------------------
(* Broadcasts                                                              *)

\* Mutant: every task reads and looks for itself.
EveryTask(t) == TRUE

\* The task that opens files and makes directories for all.
Reader(t) == t = Root

\* It sends its own value; the others take the messages in the order they were sent.
Collective(t, kind, own, Use(_), Mismatch) ==
    \/ /\ Reader(t)
       /\ sent' = Append(sent, [kind |-> kind, value |-> own])
       /\ task' = [task EXCEPT ![t] = Use(own)]
       /\ UNCHANGED heard
    \/ /\ ~Reader(t) /\ heard[t] < Len(sent)
       /\ LET message == sent[heard[t] + 1]
          IN  task' = [task EXCEPT ![t] = IF message.kind = kind THEN Use(message.value) ELSE Mismatch]
       /\ heard' = [heard EXCEPT ![t] = @ + 1]
       /\ UNCHANGED sent

Failed(t) == [task[t] EXCEPT !.pc = "failed"]
Crashed(t) == [task[t] EXCEPT !.pc = "crashed"]
Local(t, result) == task' = [task EXCEPT ![t] = result] /\ UNCHANGED <<sent, heard>>

\* par_read and read_and_broadcast: when task 0 cannot open the file it sends nothing.
ReadFile(t, Use(_)) ==
    IF Reader(t) /\ file = NoFile THEN Local(t, Failed(t))
    ELSE Collective(t, "text", file, Use, [task[t] EXCEPT !.pc = "mismatch"])

-----------------------------------------------------------------------------
(* The actions                                                             *)

Init ==
    /\ which \in DOMAIN Scenarios
    /\ world = Scenarios[which]
    /\ stage = "source"
    /\ registry = world.registry
    /\ file = NoFile
    /\ fs = world.fs
    /\ edits = 0
    /\ task = [t \in Tasks |-> [pc |-> "inquire", file |-> NoFile, mesh |-> NoName,
                              mesh_type |-> NoText, at |-> 0, manager |-> <<>>]]
    /\ sent = <<>>
    /\ heard = [t \in Tasks |-> 0]

\* The registry tool, and the default streams file beside it.
Build ==
    /\ stage = "source"
    /\ registry' = Clean(registry)
    /\ IF ValidateRegistry(Clean(registry))
       THEN stage' = "built" /\ file' = DefaultFile
       ELSE stage' = "rejected" /\ UNCHANGED file
    /\ UNCHANGED <<which, world, fs, edits, task, sent, heard>>

\* The user keeps the default file or puts another in its place.
Provide ==
    /\ stage = "built"
    /\ stage' = "run"
    /\ file' \in {file} \cup Files[which]
    /\ UNCHANGED <<which, world, registry, fs, edits, task, sent, heard>>

\* The file changes while the run starts.
Edit ==
    /\ stage = "run" /\ edits < MaxEdits
    /\ \E t \in Tasks : task[t].pc \in {"attributes", "parse"}
    /\ file' \in Edits[which] \ {file}
    /\ edits' = edits + 1
    /\ UNCHANGED <<which, world, stage, registry, fs, task, sent, heard>>

\* parse_streams_file and the question for the mesh stream, of a file nobody has checked.
Inquire(t) ==
    /\ stage = "run" /\ task[t].pc = "inquire"
    /\ ReadFile(t, LAMBDA f : IF QueryCrashes(f.doc, "invariant") THEN Crashed(t)
                              ELSE [task[t] EXCEPT !.pc = "attributes", !.file = f,
                                                   !.mesh = MeshStream(f.doc, MeshDefault)])
    /\ UNCHANGED <<which, world, stage, registry, file, fs, edits>>

\* xml_stream_get_attributes: the syntax, the attributes, the mesh stream.
GetAttributes(t) ==
    LET Checked(f) ==
          IF SyntaxCheck(f.text) = "crash" THEN [Crashed(t) EXCEPT !.file = f]
          ELSE IF /\ SyntaxCheck(f.text) = "ok"
                  /\ CheckStreams(f.doc, world.readable[t])
                  /\ FindsMesh(f.doc, task[t].mesh)
               THEN [task[t] EXCEPT !.pc = "parse", !.file = f,
                                    !.mesh_type = MeshIoType(StreamNamed(Immutables(f.doc), task[t].mesh).io_type)]
          ELSE [Failed(t) EXCEPT !.file = f]
    IN  /\ stage = "run" /\ task[t].pc = "attributes"
        /\ ReadFile(t, Checked)
        /\ UNCHANGED <<which, world, stage, registry, file, fs, edits>>

\* xml_stream_parser begins: the third read, and no check.
BeginParse(t) ==
    /\ stage = "run" /\ task[t].pc = "parse"
    /\ ReadFile(t, LAMBDA f : [task[t] EXCEPT !.pc = "path", !.file = f, !.at = 1,
                                              !.manager = SetupImmutableStreams])
    /\ UNCHANGED <<which, world, stage, registry, file, fs, edits>>

Doc(t) == task[t].file.doc
Current(t) == InOrder(Doc(t))[task[t].at]
AtStream(t, pc) == stage = "run" /\ task[t].pc = pc /\ task[t].at <= Len(Doc(t))
Writes(s) == "output" \in s.type
Writer(t) == AtStream(t, "path") /\ ~UsesAbsent(Current(t)) /\ Resolves(Doc(t), Current(t)) /\ Writes(Current(t))

\* The attributes of a stream, as far as they can go wrong.
ReadStream(t) ==
    /\ AtStream(t, "path") /\ ~Writer(t)
    /\ Local(t, IF UsesAbsent(Current(t)) THEN Crashed(t)
                ELSE IF ~Resolves(Doc(t), Current(t)) THEN Failed(t)
                ELSE [task[t] EXCEPT !.pc = "register"])
    /\ UNCHANGED <<which, world, stage, registry, file, fs, edits>>

\* The directories of a stream that writes: task 0 makes them and tells the others.
BuildStreamPath(t) ==
    LET built == BuildPath(fs, Current(t).template.dirs)
        Use(ret) == [task[t] EXCEPT !.pc = IF ret = 0 THEN "register" ELSE "unwritable"]
    IN  /\ Writer(t)
        /\ Collective(t, "path", built.ret, Use, [task[t] EXCEPT !.pc = "mismatch"])
        /\ fs' = IF Reader(t) THEN built.fs ELSE fs
        /\ UNCHANGED <<which, world, stage, registry, file, edits>>

NextStream(t, m) == [task[t] EXCEPT !.pc = "path", !.at = @ + 1, !.manager = m]

\* An immutable stream: its settings, alarms and packages.
RegisterImmutable(t) ==
    LET s == Current(t)
        m == task[t].manager
    IN  /\ AtStream(t, "register") /\ s.kind = "immutable_stream"
        /\ Local(t, IF s.name \notin DOMAIN m THEN Failed(t)
                    ELSE NextStream(t, [m EXCEPT ![s.name] = UpdateImmutable(@, Doc(t), s)]))
        /\ UNCHANGED <<which, world, stage, registry, file, fs, edits>>

\* A mutable stream: it is created and gets its alarms, packages and fields.
RegisterMutable(t) ==
    LET s == Current(t)
        old == task[t].manager
        m == IF s.name \in DOMAIN old
             THEN [old EXCEPT ![s.name] = AddPackages(Apply(@, Settings(Doc(t), s)), s)]
             ELSE (s.name :> NewMutable(Doc(t), s)) @@ old
    IN  /\ AtStream(t, "register") /\ s.kind = "stream"
        /\ Local(t, IF \/ s.name \in DOMAIN old /\ ~ErrorIsLost(Doc(t), s)
                       \/ ~CanAddFields(m, Doc(t), s, task[t].file, world.readable[t])
                    THEN Failed(t)
                    ELSE NextStream(t, AddFields(m, Doc(t), s, task[t].file)))
        /\ UNCHANGED <<which, world, stage, registry, file, fs, edits>>

Finish(t) ==
    /\ stage = "run" /\ task[t].pc = "path" /\ task[t].at > Len(Doc(t))
    /\ Local(t, [task[t] EXCEPT !.pc = "done"])
    /\ UNCHANGED <<which, world, stage, registry, file, fs, edits>>

\* A task that fails ends the run for all.
Ends == {"failed", "unwritable", "crashed", "mismatch"}
Aborted == \E t \in Tasks : task[t].pc \in Ends
Started == \A t \in Tasks : task[t].pc = "done"
Over == (stage = "rejected" \/ Aborted \/ Started) /\ UNCHANGED vars

Parse(t) == ReadStream(t) \/ BuildStreamPath(t) \/ RegisterImmutable(t) \/ RegisterMutable(t) \/ Finish(t)
Step(t) == Inquire(t) \/ GetAttributes(t) \/ BeginParse(t) \/ Parse(t)

Next == Build \/ Provide \/ Edit \/ (\E t \in Tasks : Step(t)) \/ Over
Spec == Init /\ [][Next]_vars

-----------------------------------------------------------------------------
(* Properties: the build                                                   *)

\* What a variable or constituent says of itself counts for it and nothing of another
\* declaration: its packages are its own or those of the array or structure it stands in.
Declared ==
    LET Packages(v, within) == IF v.packages # {} THEN v.packages ELSE within
        InStruct(st) ==
          {<<st.vars[i].name, Packages(st.vars[i], st.packages)>> : i \in DOMAIN st.vars} \cup
          UNION {{<<st.arrays[i].vars[j].name,
                    Packages(st.arrays[i].vars[j], Packages(st.arrays[i], st.packages))>>
                  : j \in DOMAIN st.arrays[i].vars} : i \in DOMAIN st.arrays}
    IN  UNION {InStruct(st) : st \in Elements(world.registry.structs)}

\* Every immutable stream has at the start what any of its definitions lists, with what the
\* immutable streams in it list and the variables that ask for it.
HasItsFields(name) ==
    LET definitions == {s \in Elements(AllStreams(world.registry)) : s.name = name}
        within == {s \in Elements(AllStreams(world.registry)) : \E d \in definitions : s.name \in d.subs}
        asked == {w.name : w \in {v \in UNION {Elements(st.vars) : st \in Elements(registry.structs)} :
                                    name \in v.streams}}
    IN  ((UNION {Listed(registry, s) : s \in definitions \cup within} \cup asked) \cap Available)
            \subseteq SetupImmutableStreams[name].fields

\* A dimension defined by one that is read, or stands above it, has in the end the value its
\* definition gives it, whatever is read from the mesh file.
DimensionsFollow(read) ==
    LET dims == registry.dims
        setup == SetupDimensions(dims, read, world.options)
        given == {name \in DOMAIN read : read[name] # MissingDim}
    IN  (\A i \in DOMAIN dims : dims[i].definition = "dimension" =>
            dims[i].of \in given \cup {dims[j].name : j \in 1 .. i - 1})
        => /\ setup.ok
           /\ \A d \in Elements(dims) :
                 /\ d.name \in given => setup.values[d.name] = read[d.name]
                 /\ d.name \notin given /\ d.definition = "dimension" =>
                       setup.values[d.name] = setup.values[d.of] + d.added

\* A field of which one dimension at most is divided among the tasks has the rank and the
\* division of its dimensions, wherever the divided one stands.
ShapeFollows(v) ==
    LET dims == SelectSeq(v.dims, LAMBDA name : name # "Time")
        divided == {DimDecomposition(registry.dims, name) : name \in Elements(dims)} \ {"none"}
        count == Cardinality({i \in DOMAIN dims : DimDecomposition(registry.dims, dims[i]) # "none"})
        shape == Shape(registry.dims, v.dims)
    IN  count <= 1 => /\ ~shape.error /\ shape.ndims = Len(dims)
                      /\ shape.decomp = IF count = 0 THEN "none" ELSE CHOOSE d \in divided : TRUE
                      /\ shape.has_time <=> \E i \in DOMAIN v.dims : v.dims[i] = "Time"
                      /\ Len(dims) <= HighestRank(v.type) => Rank(v.type, shape.ndims) = Len(dims)

\* RegistryHonoured (gen_inc.c push_attributes, merge_*, generate_immutable_streams, and the
\* dimensions it sets up): pushing attributes down and merging declarations of one name loses
\* nothing and mixes nothing; dimensions and fields are what the registry defines.
RegistryHonoured ==
    stage = "built" =>
        /\ \A struct \in Elements(registry.structs) : \A v \in Elements(struct.vars) : ShapeFollows(v)
        /\ Declared = {<<v.name, v.packages>> : v \in Elements(ModelVariables(registry))}
        /\ \A name \in ImmutableNames : HasItsFields(name)
        /\ \A read \in world.read : DimensionsFollow(read)

\* ConstituentsLaidOut (gen_inc.c parse_var_array): the active constituents of an array have
\* the indices 1 .. n, each group is one piece of them, the others have none; and an array
\* is active exactly when one of its constituents is.
ConstituentsLaidOut ==
    stage = "built" =>
        \A enabled \in SUBSET registry.packages :
          \A array \in {a \in UNION {Elements(st.arrays) : st \in Elements(registry.structs)} : a.vars # <<>>} :
            LET lay == Layout(array, enabled)
                on == {v.name : v \in {w \in Elements(array.vars) : IsEnabled(w.packages, enabled)}}
                In(group) == {v.name : v \in {w \in Elements(array.vars) : w.group = group}}
            IN  /\ {lay.index[name] : name \in on} = 1 .. Cardinality(on)
                /\ \A name \in Names(array.vars) \ on : lay.index[name] = -1
                /\ \A group \in DOMAIN lay.bounds :
                      IF In(group) \cap on = {} THEN lay.bounds[group] = <<-1, -1>>
                      ELSE {lay.index[name] : name \in In(group) \cap on} = lay.bounds[group][1] .. lay.bounds[group][2]
                /\ ArrayActive(array, enabled) <=> on # {}

-----------------------------------------------------------------------------
(* Properties: the start of a run                                          *)

\* A text that passes has its tags closed and nested, unless an empty tag ended the check;
\* what crashes the check closes a tag that was not opened.
SyntaxChecked ==
    LET text == task[Root].file.text
        passed == task[Root].pc = "parse"
        crashed == task[Root].pc = "crashed" /\ task[Root].at = 0 /\ text # <<>>
    IN  /\ passed => TagsClosed(text) /\ (EmptyTags(text) = {} => WellNested(text))
        /\ crashed => TagsClosed(text) /\ StrayClosing(text)

\* CheckSuffices (xml_syntax_check, check_streams): the parser that follows the checks uses
\* tags and attributes without a test; it fails on one that is not there only if the file was
\* changed after the checks.
CheckSuffices ==
    /\ SyntaxChecked
    /\ \A t \in Tasks : task[t].pc = "crashed" /\ task[t].at > 0 => edits > 0

\* PathBuilt (build_stream_path): where only directories are in the way and the run may write
\* where it starts, a stream that writes is registered when its directory is there to be
\* written, and refused only when it could not be; and nothing is changed that was there.
PathBuilt ==
    LET dirs == Current(Root).template.dirs
        checked(pc) == AtStream(Root, pc) /\ Writes(Current(Root)) /\ PlainStart(world.fs, dirs)
    IN  /\ checked("register") => Usable(fs, dirs)
        /\ checked("unwritable") => ~Buildable(fs, dirs)
        /\ \A path \in DOMAIN fs : world.fs[path] \in {fs[path], "absent"}

\* TasksAgree: whatever happens to the file between the reads, the tasks take part in the
\* same broadcasts and those that have come equally far have built the same streams.
TasksAgree ==
    /\ \A t \in Tasks : task[t].pc # "mismatch"
    /\ \A t, u \in Tasks : task[t].at = task[u].at /\ task[t].pc = task[u].pc =>
          task[t].manager = task[u].manager /\ task[t].mesh = task[u].mesh

\* AsConfigured (extract_stream_interval and the two loops of xml_stream_parser): a stream has
\* the alarms its intervals name, looked up where they refer to another stream; its files
\* begin anew at an interval and not at "initial_only", unless that comes from another
\* stream; and the file modes are those named, for the reader of the mesh as for the manager.
IntervalOf(doc, interval) ==
    IF IsReference(interval)
    THEN {Value(r, interval.attr) : r \in {q \in Elements(doc) : q.name = interval.stream}}
    ELSE {interval}

ConfiguredAs(r, doc, s) ==
    /\ "input" \in s.type => r.in \in IntervalOf(doc, s.input) /\ ~IsReference(r.in) /\ r.in # Absent
    /\ "output" \in s.type => r.out \in IntervalOf(doc, s.output) /\ ~IsReference(r.out) /\ r.out # Absent
    /\ r.interval.text \in OneShot =>
          s.filename_interval = r.interval \/ \E attr \in IntervalAttributes : IsReference(Value(s, attr))
    /\ s.io_type # NoText => r.io_type = s.io_type
    /\ s.clobber # NoText => r.clobber = s.clobber

AsConfigured ==
    \A t \in Tasks : task[t].pc = "done" =>
        /\ \A s \in Elements(Doc(t)) :
              LET r == task[t].manager[s.name]
              IN  r.immutable = (s.kind = "immutable_stream") => ConfiguredAs(r, Doc(t), s)
        /\ edits = 0 => task[t].manager[task[t].mesh].io_type = task[t].mesh_type

\* What the build does not ask of a registry and the run asks of the streams file.
Unasked(streams) ==
    \/ MeshDefault \notin Names(streams)
    \/ \E i, j \in DOMAIN streams : i # j /\ streams[i].name = streams[j].name
    \/ \E i \in DOMAIN streams :
          LET s == streams[i]
          IN  \/ IsMutable(s) /\ BadFormat(s)
              \/ ~(s.template.variables \subseteq Variables)
              \/ s.filename_interval # Absent
              \/ \E attr \in IntervalAttributes : IsReference(Value(s, attr))
              \/ ~(s.arrays \subseteq ModelFields(registry) /\ s.structs \subseteq Names(registry.structs))
              \/ Writes(s) /\ ~Buildable(world.fs, s.template.dirs)
              \/ s.name = MeshDefault /\ ~(IsImmutable(s) /\ StreamWritten(world.keyed, s))

\* GeneratedAccepted (parse.c, gen_inc.c and streams_gen.c against xml_stream_parser.c): with a
\* registry the build accepts, every task starts on the default file, save for what only
\* the run asks.
GeneratedAccepted ==
    (Aborted /\ edits = 0 /\ file = DefaultFile) => Unasked(AllStreams(world.registry))
=============================================================================
