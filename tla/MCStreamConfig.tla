--------------------------- MODULE MCStreamConfig ---------------------------
(***************************************************************************)
(* Registries, streams files, texts and directories for StreamConfig.      *)
(***************************************************************************)
EXTENDS StreamConfig

MCTasks == {0, 1}
MCNamesWithin == {<<"in", "init">>}

-----------------------------------------------------------------------------
\* Streams.
Template(dirs, name) == [dirs |-> dirs, file |-> name, variables |-> {"Y"}]

BaseStream(kind, name, type) ==
    [kind |-> kind, name |-> name, type |-> type, template |-> Template(<<>>, name),
     input |-> IF "input" \in type THEN Text("initial_only") ELSE Absent,
     output |-> IF "output" \in type THEN Text("6h") ELSE Absent,
     filename_interval |-> Absent, timed |-> FALSE, clobber |-> NoText, io_type |-> NoText,
     precision |-> NoText, packages |-> {}, vars |-> {}, arrays |-> {}, structs |-> {},
     files |-> {}, subs |-> {}]

RegistryStream(name, type, immutable) ==
    BaseStream("stream", name, type) @@
    [immutable |-> immutable, runtime_format |-> "single_file", in_defaults |-> NoText,
     listed |-> {}, unlisted |-> {}]

-----------------------------------------------------------------------------
\* The registry of a small core.
Var(name, dims, packages, streams) ==
    [name |-> name, type |-> "real", dims |-> dims, packages |-> packages, streams |-> streams,
     persistence |-> "persistent", time_levs |-> Unset]

Constituent(name, group, packages) ==
    [name |-> name, group |-> group, packages |-> packages, streams |-> {}]

Array(name, packages, constituents) ==
    [vars |-> constituents] @@ Var(name, <<"nCells", "Time">>, packages, {})

Struct(name, packages, vv, arrays) ==
    [name |-> name, packages |-> packages, time_levs |-> 1, streams |-> {}, vars |-> vv, arrays |-> arrays]

Dim(name, definition, of, added) ==
    [name |-> name, definition |-> definition, of |-> of, added |-> added, decomposition |-> NoText]

Base ==
    [packages |-> {"A", "B"},
     options |-> << [name |-> "config_levels", type |-> "integer", default |-> "4"] >>,
     dims |-> << Dim("nCells", NoText, NoText, 0), Dim("nLevels", "namelist", "config_levels", 0),
                 Dim("nLevelsP1", "dimension", "nLevels", 1),
                [Dim("nSoil", NoText, NoText, 0) EXCEPT !.decomposition = "blocks"] >>,
     structs |->
       << Struct("mesh", {}, << Var("lat", <<"nCells">>, {}, {"init"}),
                                Var("soil", <<"nSoil", "nLevels">>, {}, {}) >>, <<>>),
          Struct("state", {}, << Var("u", <<"nLevelsP1", "nCells", "Time">>, {}, {}),
                                 Var("t", <<"nCells", "Time">>, {"B"}, {"restart"}) >>,
                 << Array("scalars", {}, << Constituent("qv", "moist", {}), Constituent("o3", "chem", {"A"}),
                                            Constituent("qc", "moist", {"B"}) >>) >>),
          Struct("state", {"A"}, << Var("w", <<"nCells", "Time">>, {}, {}) >>,
                 << Array("scalars", {"B"}, << Constituent("qr", "moist", {}), Constituent("co", "chem", {}) >>) >>) >>,
     blocks |->
       << << [RegistryStream("in", {"input"}, "true") EXCEPT !.vars = {"lat"}],
             [RegistryStream("restart", {"input", "output"}, "true") EXCEPT !.subs = {"in"}, !.structs = {"state"}],
             [RegistryStream("out", {"output"}, "false") EXCEPT !.vars = {"u"}, !.arrays = {"scalars"}, !.subs = {"in"}] >>,
          << [RegistryStream("init", {"output"}, "true") EXCEPT !.vars = {"u"}, !.template = Template(<<"d">>, "init")] >> >>]

\* Some other registries, most of them with one thing different.
Streams1(r, i, s) == [r EXCEPT !.blocks[1][i] = s]
Out == Base.blocks[1][3]
Restart == Base.blocks[1][2]

Registries ==
    << Base,
       \* A stream defined in two places.
       [Base EXCEPT !.blocks[2] = Append(@, [Base.blocks[1][1] EXCEPT !.vars = {"u"}])],
       \* Streams of one template.
       Streams1(Base, 3, [Out EXCEPT !.template = Restart.template]),
       \* Lists in a file of their own, and a stream that is left out but for one member.
       Streams1(Base, 3, [Out EXCEPT !.runtime_format = "separate_file", !.in_defaults = "false", !.listed = {"u"}]),
       \* Formats that are not known, with and without a variable.
       Streams1(Base, 3, [Out EXCEPT !.runtime_format = "other"]),
       Streams1(Base, 3, [Out EXCEPT !.runtime_format = "other", !.vars = {}]),
       \* An immutable stream with a mutable one in it.
       Streams1(Base, 2, [Restart EXCEPT !.subs = {"out"}]),
       \* An output stream without an interval, and a package and a variable not known.
       Streams1(Base, 3, [Out EXCEPT !.output = Absent]),
       Streams1(Base, 3, [Out EXCEPT !.packages = {"C"}]),
       Streams1(Base, 3, [Out EXCEPT !.vars = {"v"}]),
       \* An array that is not known, and an immutable mesh stream that is left out.
       Streams1(Base, 3, [Out EXCEPT !.arrays = {"tracers"}]),
       Streams1(Base, 1, [Base.blocks[1][1] EXCEPT !.in_defaults = "false"]),
       \* A name twice, a dimension that is not known, a definition by an option of another type.
       [Base EXCEPT !.structs[1].vars = Append(@, Var("u", <<"nCells">>, {}, {}))],
       [Base EXCEPT !.structs[1].vars = Append(@, Var("h", <<"nEdges">>, {}, {}))],
       [Base EXCEPT !.options[1].type = "real"],
       \* A scratch variable with packages.
       [Base EXCEPT !.structs[2].vars[2].persistence = "scratch"],
       \* Constituents that all need a package, and levels given by a number.
       [Base EXCEPT !.structs[2].packages = {"B"}, !.dims[2] = Dim("nLevels", "number", NoText, 3)],
       \* A dimension before the one it is defined by.
       [Base EXCEPT !.dims = <<@[1], @[3], @[2], @[4]>>] >>

-----------------------------------------------------------------------------
\* Streams files.
In == BaseStream("immutable_stream", "in", {"input"})
RestartEntry == [BaseStream("immutable_stream", "restart", {"input", "output"}) EXCEPT
                    !.input = Text("none"), !.output = Text("1d"), !.io_type = "pnetcdf,cdf5"]
History == [BaseStream("stream", "history", {"output"}) EXCEPT !.vars = {"u"}, !.clobber = "truncate"]
Diag == [BaseStream("stream", "diag", {"output"}) EXCEPT !.structs = {"state"}, !.subs = {"history"}]

FileOf(doc) == [text |-> TextOf(doc, TRUE), doc |-> doc, fields |-> [name \in {"list"} |-> {"lat", "t"}]]

\* A stream with every combination of type and intervals, beside one it may refer to.
Intervals == {Absent, None, Text("initial_only"), Text("1h"), Reference("restart", "output_interval"),
              Reference("diag", "output_interval")}
FileIntervals == {Absent, Text("input_interval"), Text("output_interval"), Text("1d")}

IntervalFiles ==
    {FileOf(<< [In EXCEPT !.io_type = "pnetcdf,cdf5"],
               RestartEntry,
               [History EXCEPT !.type = type, !.input = in, !.output = out, !.filename_interval = f] >>) :
       type \in {{"input"}, {"output"}, {"input", "output"}}, in \in Intervals, out \in Intervals,
       f \in FileIntervals}

\* Streams within streams in both orders, lists, names that are not known, streams that are
\* not immutable in the registry, streams named twice, and references that lead nowhere.
MemberFiles ==
    {FileOf(doc) : doc \in
       { <<In, History, Diag>>, <<Diag, In, History>>,
         <<In, [Diag EXCEPT !.output = Reference("history", "output_interval")], History>>,
         <<In, [Diag EXCEPT !.output = Reference("diag", "output_interval")]>>,
         <<In, [History EXCEPT !.output = Reference("diag", "output_interval")],
               [Diag EXCEPT !.output = Reference("in", "input_interval")]>>,
         <<In, [History EXCEPT !.subs = {"restart"}, !.vars = {}, !.packages = {"A", "C"}]>>,
         <<In, [History EXCEPT !.vars = {"v"}]>>, <<In, [History EXCEPT !.structs = {"tend"}]>>,
         <<In, [History EXCEPT !.files = {"list"}]>>,
         <<In, [History EXCEPT !.name = "restart"]>>,
         <<In, [History EXCEPT !.name = "restart", !.timed = TRUE, !.vars = {}]>>,
         <<In, [History EXCEPT !.type = {"none"}, !.output = Absent]>>,
         <<In, BaseStream("immutable_stream", "history", {"none"})>>,
         <<In, History, History>>, <<History>>, <<>>,
         <<In, [History EXCEPT !.name = NoName]>>, <<[In EXCEPT !.name = NoName]>>,
         <<BaseStream("immutable_stream", "invariant", {"input"}), In>>,
         <<In, [History EXCEPT !.template.variables = {"Q"}]>>,
         <<In, [History EXCEPT !.template.file = NoName]>> }}

\* A file in which something was typed wrongly, or a mark is missing or one too many.
Plainly == FileOf(<<In, History>>).text
TypedWrongly ==
    {RemoveAt(Plainly, i) : i \in DOMAIN Plainly} \cup
    {InsertAt(Plainly, i, mark) : i \in {1, 4, 9, 14, 22, 25}, mark \in {"<", ">", "<!", "-->", "/", Quote}} \cup
    {SubSeq(Plainly, 1, i - 1) \o added \o SubSeq(Plainly, i, Len(Plainly)) :
       i \in {1, 4, 14}, added \in { <<"<", "/", "streams", ">">>, <<"<", ">">>, <<"<!", "<", ">", "-->">>,
                                     <<"<", "stream", ">">> }}
TextFiles == {[FileOf(doc) EXCEPT !.text = text] : text \in {t \in TypedWrongly : Len(t) > 0},
                                                   doc \in {<<In, History>>}}

\* Streams that write into directories.
PathFiles ==
    {FileOf(<< In, [History EXCEPT !.template = Template(dirs, "h")], [Diag EXCEPT !.template = Template(<<"d">>, "g")] >>)
       : dirs \in { <<"d">>, <<"d", "e">>, <<"d", "e", "f">> }}

Paths == { <<>>, <<"d">>, <<"d", "e">>, <<"d", "e", "f">> }
Plain == [path \in Paths |-> IF path = <<>> THEN "writable" ELSE "absent"]

\* What is in a directory that is not there is not there either.
FileSystems ==
    {f \in [Paths -> {"absent", "writable", "readonly", "file"}] :
        /\ f[<<>>] \in {"writable", "readonly"}
        /\ \A path \in Paths \ {<<>>} :
              f[path] # "absent" => f[Front(path)] \in {"writable", "readonly"}}

-----------------------------------------------------------------------------
\* The scenarios: registries on their default file, then files on the first registry.
Readable(t) == {"list", "out"}
Reads == {[name \in {"nCells"} |-> 10], [name \in {"nCells", "nLevels"} |-> 5], <<>>,
          [name \in {"nCells", "nLevels"} |-> IF name = "nLevels" THEN MissingDim ELSE 7]}

Scenario(r, order, keyed, enabled, f, readable) ==
    [registry |-> r, order |-> order, keyed |-> keyed, enabled |-> enabled,
     fs |-> f, readable |-> readable, read |-> Reads,
     options |-> [name \in {"config_levels"} |-> 4]]

OfRegistries == (1 .. Len(Registries)) \X {"listed", "mutable"} \X BOOLEAN \X {{}, {"A"}}
OfFiles == {<<i, "file">> : i \in 1 .. 3}
OfPaths == {<<f>> : f \in FileSystems}

MCScenarios ==
    [id \in OfRegistries |->
        Scenario(Registries[id[1]], id[2], id[3], id[4], Plain, [t \in MCTasks |-> Readable(t)])] @@
    [id \in OfFiles |->
        Scenario(Base, "listed", FALSE, {"A"}, Plain,
                 [t \in MCTasks |-> IF id[1] = 3 /\ t # 0 THEN {} ELSE Readable(t)])] @@
    [id \in OfPaths |-> Scenario(Base, "listed", FALSE, {}, id[1], [t \in MCTasks |-> Readable(t)])]

MCFiles ==
    [id \in OfRegistries |-> {}] @@
    [id \in OfFiles |-> CASE id[1] = 1 -> IntervalFiles \cup MemberFiles \cup TextFiles
                         [] id[1] = 2 -> {FileOf(<<In, [History EXCEPT !.subs = {"in"}], Diag>>)}
                         [] id[1] = 3 -> {FileOf(<<In, [History EXCEPT !.files = {"list"}]>>)}] @@
    [id \in OfPaths |-> PathFiles]

MCEdits ==
    [id \in OfRegistries \cup OfFiles \cup OfPaths |->
        IF id = <<2, "file">>
        THEN {FileOf(<<In, History>>), FileOf(<<[In EXCEPT !.io_type = "netcdf"], [Diag EXCEPT !.output = Absent]>>), NoFile}
        ELSE {}]
=============================================================================
