----------------------------- MODULE StreamFile -----------------------------
(***************************************************************************)
(* What a streams file says and what framework/xml_stream_parser.c and     *)
(* framework/stream_inquiry.c make of it: the checks of the attributes and *)
(* the values the parser hands to the stream manager.                      *)
(*                                                                         *)
(* A document is a sequence of streams.  A stream is a record of its       *)
(* attributes and children; NoName, Absent and NoText stand for attributes *)
(* that are not there.  An interval is a text or a reference to an         *)
(* attribute of a stream ("stream:history:output_interval").  A stream is  *)
(* timed when it gives a reference time or a record interval.              *)
(***************************************************************************)
EXTENDS Integers, Sequences, FiniteSets, SequencesExt

NoName == "no name"
NoText == "no text"
Missing == {"missing"}

Text(text) == [text |-> text, stream |-> "", attr |-> ""]
Reference(stream, attr) == [text |-> "stream:", stream |-> stream, attr |-> attr]
Absent == Text("")
None == Text("none")
Bad == Text("error")

IsReference(interval) == interval.text = "stream:"
Mentions(interval, word) == interval.text = word \/ interval.attr = word
OneShot == {"initial_only", "final_only"}
IntervalAttributes == {"input_interval", "output_interval"}

Streams(doc, kind) == SelectSeq(doc, LAMBDA s : s.kind = kind)
Immutables(doc) == Streams(doc, "immutable_stream")
Mutables(doc) == Streams(doc, "stream")

\* The immutable streams come first wherever they stand in the file.
InOrder(doc) == Immutables(doc) \o Mutables(doc)

Value(s, attr) == IF attr = "input_interval" THEN s.input ELSE s.output

-----------------------------------------------------------------------------
(* attribute_check, uniqueness_check and check_streams                     *)

\* The variables mpas_expand_string knows; a dollar sign at the end passes for one.
Variables == {"Y", "M", "D", "d", "h", "m", "s", "G", "S", "B", "end"}

AttributeCheck(s) ==
    /\ s.name # NoName /\ s.type # Missing /\ s.template.file # NoName
    /\ "input" \in s.type => s.input # Absent
    /\ "output" \in s.type => s.output # Absent
    /\ \A attr \in IntervalAttributes :
          Mentions(s.filename_interval, attr) => /\ Value(s, attr) # Absent
                                                 /\ Value(s, attr).text \notin OneShot
    /\ s.template.variables \subseteq Variables

UniquenessCheck(s, r) ==
    /\ s.name # r.name
    /\ "output" \in s.type \cup r.type => s.template # r.template

\* On one task: whether a file can be read is asked where the file will be read.
CheckStreams(doc, readable) ==
    /\ \A i \in DOMAIN doc : AttributeCheck(doc[i])
    /\ \A i \in DOMAIN doc : doc[i].kind = "immutable_stream" => doc[i].vars = {} /\ doc[i].files = {}
    /\ \A i \in DOMAIN doc : doc[i].kind = "stream" => doc[i].files \subseteq readable
    /\ \A i, j \in DOMAIN doc : i # j => UniquenessCheck(doc[i], doc[j])

-----------------------------------------------------------------------------
(* query_streams_file and the search in xml_stream_get_attributes          *)

Named(streams, name) == {i \in DOMAIN streams : streams[i].name = name}
First(S) == CHOOSE i \in S : \A j \in S : i <= j

\* The value of an interval attribute, Absent for a stream or attribute that is not there.
Query(doc, name, attr) ==
    LET found == Named(InOrder(doc), name)
    IN  IF found = {} THEN Absent ELSE Value(InOrder(doc)[First(found)], attr)

\* The search compares names up to the first that fits, and a stream may have none.
QueryCrashes(doc, name) ==
    \E i \in DOMAIN InOrder(doc) :
        /\ InOrder(doc)[i].name = NoName
        /\ \A j \in 1 .. i : InOrder(doc)[j].name # name

\* Which stream the atmosphere core reads the mesh from.
MeshStream(doc, fallback) ==
    IF Query(doc, "invariant", "input_interval") = Text("initial_only") THEN "invariant" ELSE fallback

\* Only immutable streams are searched for the mesh stream.
FindsMesh(doc, name) == Named(Immutables(doc), name) # {}

-----------------------------------------------------------------------------
(* extract_stream_interval                                                 *)

\* Mutant: the attribute of the stream itself is looked up instead of the one referred to.
ExtractOwn(doc, s, attr) ==
    LET interval == Value(s, attr)
        found == Named(InOrder(doc), interval.stream)
    IN  IF ~IsReference(interval) THEN interval
        ELSE IF found = {} THEN Bad
        ELSE Value(InOrder(doc)[First(found)], attr)

\* One reference is followed, and it must not lead to another.
ExtractStreamInterval(doc, s, attr) ==
    LET interval == Value(s, attr)
        found == Named(InOrder(doc), interval.stream)
        value == Value(InOrder(doc)[First(found)], interval.attr)
    IN  IF ~IsReference(interval) THEN interval
        ELSE IF \/ interval = Reference(s.name, attr)
                \/ interval.attr \notin IntervalAttributes
                \/ found = {}
             THEN Bad
        ELSE IF value = Absent \/ value.text \in IntervalAttributes \/ IsReference(value) THEN Bad
        ELSE value

-----------------------------------------------------------------------------
(* The attributes as xml_stream_parser reads them                          *)

\* Told from the text in the file, before a reference is followed.
Recurs(interval) == interval.text \notin OneShot \cup {"none"}

\* filename_interval: the interval of the input, or of the output, unless another is given.
FilenameInterval(s, interval_in2, interval_out2) ==
    LET in  == IF Recurs(s.input) THEN interval_in2 ELSE None
        out == IF Recurs(s.output) THEN interval_out2 ELSE None
    IN  IF s.filename_interval = Absent
        THEN CASE s.type = {"input", "output"} -> IF Recurs(s.input) THEN in ELSE out
               [] s.type = {"input"}           -> in
               [] s.type = {"output"}          -> out
               [] OTHER                        -> None
        ELSE IF Mentions(s.filename_interval, "input_interval") THEN in
        ELSE IF Mentions(s.filename_interval, "output_interval") THEN out
        ELSE s.filename_interval

\* An attribute that is not there is used as if it were.
UsesAbsent(s) ==
    \/ s.name = NoName \/ s.type = Missing
    \/ "input" \in s.type /\ s.input = Absent
    \/ "output" \in s.type /\ s.output = Absent
    \/ s.template.file = NoName
    \/ Mentions(s.filename_interval, "input_interval") /\ s.input = Absent
    \/ /\ ~Mentions(s.filename_interval, "input_interval")
       /\ Mentions(s.filename_interval, "output_interval") /\ s.output = Absent

\* The words a text holds.
Holds(text) == CASE text = "pnetcdf,cdf5" -> {text, "pnetcdf", "netcdf"}
                 [] text = "pnetcdf"      -> {text, "netcdf"}
                 [] text = "netcdf4"      -> {text, "netcdf"}
                 [] OTHER                 -> {text}

\* Words are looked for one after another, and a text that holds none gets a default.
Code(table, text, default) ==
    LET fits == {i \in DOMAIN table : table[i][1] \in Holds(text)}
    IN  IF fits = {} THEN default ELSE table[First(fits)][2]

ClobberCode(text) ==
    Code(<< <<"never_modify", 0>>, <<"append", 1>>, <<"truncate", 2>>, <<"replace_files", 2>>,
            <<"overwrite", 3>> >>, text, 0)

IoTypeCode(text) ==
    Code(<< <<"pnetcdf,cdf5", 1>>, <<"pnetcdf", 0>>, <<"netcdf4", 3>>, <<"netcdf", 2>> >>, text, 0)

PrecisionCode(text) == Code(<< <<"single", 4>>, <<"double", 8>> >>, text, 0)

\* What the stream manager takes the codes for.
ClobberMode(code) == << "never_modify", "append", "truncate", "overwrite" >>[code + 1]
IoType(code) == << "pnetcdf", "pnetcdf,cdf5", "netcdf", "netcdf4" >>[code + 1]

\* The type the bootstrapping of the mesh gives its file, from the text itself.
MeshIoType(text) == IF Code(<< <<"pnetcdf,cdf5", 1>>, <<"pnetcdf", 0>>, <<"netcdf4", 3>>, <<"netcdf", 2>> >>,
                            text, 4) = 4 THEN "pnetcdf" ELSE text
=============================================================================
