---------------------------- MODULE RegistryFile ----------------------------
(***************************************************************************)
(* The registry of a core and what the build makes of it: the clean-up,    *)
(* the validation and the immutable streams of the registry tool           *)
(* (tools/registry/parse.c, gen_inc.c and utility.c), and the default      *)
(* streams file (tools/input_gen/streams_gen.c).                           *)
(*                                                                         *)
(* A registry holds packages, namelist options, dimensions, structures of  *)
(* variables and arrays of variables, and blocks of streams.  Its streams  *)
(* have the attributes of those of a streams file, and immutable,          *)
(* runtime_format and in_defaults.  A list of packages or streams that is  *)
(* not there is empty; Unset is a number of time levels that is not there. *)
(* Structures within structures are left out.                              *)
(***************************************************************************)
EXTENDS StreamFile

CONSTANT NamesWithin    \* pairs of stream names of which the first is part of the second

Unset == -100

Elements(seq) == {seq[i] : i \in DOMAIN seq}
Names(seq) == {seq[i].name : i \in DOMAIN seq}
IsImmutable(s) == s.immutable = "true"

-----------------------------------------------------------------------------
(* push_attributes: what a variable does not say it has from what it is in *)

Inherit(v, super) ==
    [v EXCEPT !.packages = IF @ = {} THEN super.packages ELSE @,
              !.time_levs = IF @ = Unset THEN super.time_levs ELSE @]

InheritPackages(v, super) == [v EXCEPT !.packages = IF @ = {} THEN super.packages ELSE @]

PushIntoArray(array, struct) ==
    LET a == Inherit(array, struct)
    IN  [a EXCEPT !.vars = [i \in DOMAIN @ |-> InheritPackages(@[i], a)]]

PushAttributes(structs) ==
    [n \in DOMAIN structs |->
        [structs[n] EXCEPT
            !.arrays = [i \in DOMAIN @ |-> PushIntoArray(@[i], structs[n])],
            !.vars = [i \in DOMAIN @ |-> Inherit(@[i], structs[n])]]]

-----------------------------------------------------------------------------
(* merge_structs_and_var_arrays and merge_streams: what has the same name  *)
(* is merged into the first of that name, which keeps its attributes       *)

MergeNamed(seq, Join(_, _)) ==
    FoldLeft(LAMBDA acc, x :
                LET same == Named(acc, x.name)
                IN  IF same = {} THEN Append(acc, x)
                    ELSE [acc EXCEPT ![First(same)] = Join(acc[First(same)], x)],
             <<>>, seq)

MergeStructs(structs) ==
    LET JoinStruct(s, t) == [s EXCEPT !.vars = @ \o t.vars, !.arrays = @ \o t.arrays]
        JoinArray(a, b) == [a EXCEPT !.vars = @ \o b.vars]
        merged == MergeNamed(structs, JoinStruct)
    IN  [n \in DOMAIN merged |->
            [merged[n] EXCEPT !.arrays = MergeNamed(@, JoinArray)]]

JoinStreams(s, t) ==
    [s EXCEPT !.vars = @ \cup t.vars, !.arrays = @ \cup t.arrays,
              !.structs = @ \cup t.structs, !.subs = @ \cup t.subs,
              !.listed = @ \cup t.listed, !.unlisted = @ \cup t.unlisted]

MergeStreams(blocks) == MergeNamed(FlattenSeq(blocks), JoinStreams)

\* Mutant: the structures are merged before the attributes are pushed.
CleanMergedFirst(registry) ==
    [registry EXCEPT !.structs = PushAttributes(MergeStructs(@)),
                     !.blocks = << MergeStreams(@) >>]

\* The registry as main hands it to the validation.
Clean(registry) ==
    [registry EXCEPT !.structs = MergeStructs(PushAttributes(@)),
                     !.blocks = << MergeStreams(@) >>]

-----------------------------------------------------------------------------
(* validate_reg_xml                                                        *)

AllStreams(registry) == FlattenSeq(registry.blocks)
CheckPackages(registry, packages) == packages \subseteq registry.packages
CheckStreamList(registry, streams) == streams \subseteq Names(AllStreams(registry))
CheckDimensions(registry, dims) == dims \subseteq Names(registry.dims) \cup {"Time"}

ValidOptions(registry) ==
    \A o \in Elements(registry.options) :
        o.name # NoName /\ o.type \in {"logical", "real", "integer", "character"} /\ o.default # NoText

\* A dimension may be given by a namelist option, which must be an integer.
ValidDims(registry) ==
    \A d \in Elements(registry.dims) :
        /\ d.name # NoName
        /\ d.definition # NoText => d.decomposition = NoText
        /\ d.definition = "namelist" =>
              /\ d.of \in Names(registry.options)
              /\ \A o \in Elements(registry.options) : o.name = d.of => o.type = "integer"

\* What holds of a variable and of an array alike; only persistent ones have packages and
\* streams.
ValidField(registry, struct, v) ==
    /\ v.name # NoName
    /\ v.time_levs \in {Unset} \cup Nat
    /\ v.type \in {"logical", "real", "integer", "text"}
    /\ CheckDimensions(registry, Elements(v.dims))
    /\ v.persistence \in {"persistent", "scratch"}
    /\ v.persistence = "scratch" =>
          v.packages \cup struct.packages = {} /\ v.streams \cup struct.streams = {}
    /\ CheckPackages(registry, v.packages) /\ CheckStreamList(registry, v.streams)

ValidConstituent(registry, v) ==
    /\ v.name # NoName /\ v.group # NoText
    /\ CheckPackages(registry, v.packages) /\ CheckStreamList(registry, v.streams)

\* An array has dimensions, a variable may have none.
ValidStruct(registry, struct) ==
    /\ struct.name # NoName /\ struct.time_levs \in Nat
    /\ CheckPackages(registry, struct.packages) /\ CheckStreamList(registry, struct.streams)
    /\ \A a \in Elements(struct.arrays) :
          /\ ValidField(registry, struct, a) /\ a.dims # <<>>
          /\ \A v \in Elements(a.vars) : ValidConstituent(registry, v)
    /\ \A v \in Elements(struct.vars) : ValidField(registry, struct, v)

Constituents(struct) == FlattenSeq([i \in DOMAIN struct.arrays |-> struct.arrays[i].vars])
ModelVariables(registry) ==
    FlattenSeq([n \in DOMAIN registry.structs |-> Constituents(registry.structs[n]) \o registry.structs[n].vars])

\* runtime_format is looked at only where a variable is listed.
ValidStream(registry, s) ==
    /\ s.name # NoName /\ s.type # Missing /\ s.template.file # NoName
    /\ "input" \in s.type => s.input # Absent
    /\ "output" \in s.type => s.output # Absent
    /\ ~IsImmutable(s) => s.runtime_format # NoText
    /\ ~IsImmutable(s) /\ s.vars # {} => s.runtime_format \in {"single_file", "separate_file"}
    /\ s.vars \subseteq Names(ModelVariables(registry))
    /\ IsImmutable(s) =>
          \A r \in Elements(AllStreams(registry)) : r.name \in s.subs => IsImmutable(r)
    /\ CheckPackages(registry, s.packages)

\* Mutant: a template may be shared by streams that write.
TemplatesMayBeShared(registry) == TRUE

\* The type of the second stream is read off the first; every pair is tried in both orders.
TemplatesDiffer(registry) ==
    LET streams == AllStreams(registry)
    IN  \A i, j \in DOMAIN streams :
            i # j /\ "output" \in streams[i].type => streams[i].template # streams[j].template

\* check_for_unique_names: structures, constituents and variables, but not arrays.
UniqueNames(registry) ==
    /\ \A i, j \in DOMAIN registry.structs : registry.structs[i].name = registry.structs[j].name => i = j
    /\ \A i, j \in DOMAIN ModelVariables(registry) :
          ModelVariables(registry)[i].name = ModelVariables(registry)[j].name => i = j

ValidateRegistry(registry) ==
    /\ ValidOptions(registry) /\ ValidDims(registry)
    /\ \A struct \in Elements(registry.structs) : ValidStruct(registry, struct)
    /\ \A s \in Elements(AllStreams(registry)) : ValidStream(registry, s)
    /\ TemplatesDiffer(registry)
    /\ UniqueNames(registry)

-----------------------------------------------------------------------------
(* generate_immutable_streams: the streams a core starts with              *)

\* The fields of the model: variables and whole arrays.
StructFields(registry, names) ==
    UNION {Names(st.vars) \cup Names(st.arrays) : st \in {t \in Elements(registry.structs) : t.name \in names}}
ModelFields(registry) == StructFields(registry, Names(registry.structs))

Listed(registry, s) == s.vars \cup s.arrays \cup StructFields(registry, s.structs)

\* generate_immutable_struct_contents asks the variables alone, and twice, whether the name
\* of the stream occurs in their list of streams.
JoiningFields(registry, s) ==
    LET Occurs(streams) == s.name \in streams \/ \E name \in streams : <<s.name, name>> \in NamesWithin
    IN  {v.name : v \in {w \in UNION {Elements(st.vars) : st \in Elements(registry.structs)} : Occurs(w.streams)}}

\* The streams named within one give what they list themselves.
ImmutableFields(registry, s) ==
    (Listed(registry, s)
       \cup UNION {Listed(registry, r) : r \in {q \in Elements(AllStreams(registry)) :
                                                   IsImmutable(q) /\ q.name \in s.subs}}
       \cup JoiningFields(registry, s)) \cap ModelFields(registry)

-----------------------------------------------------------------------------
(* streams_gen                                                             *)

\* is_structure_writable, with in_defaults=true or without a key.
IsWritable(keyed, value) == IF ~keyed \/ value = NoText THEN -1 ELSE IF value = "true" THEN 1 ELSE 0
StreamWritten(keyed, s) == IsWritable(keyed, s.in_defaults) # 0
MemberWritten(keyed, s, m) ==
    LET value == IF m \in s.listed THEN "true" ELSE IF m \in s.unlisted THEN "false" ELSE NoText
        writable == IsWritable(keyed, value)
    IN  writable = 1 \/ (writable = -1 /\ StreamWritten(keyed, s))

Members(s) == s.vars \cup s.arrays \cup s.structs \cup s.subs
Written(keyed, s) == {m \in Members(s) : MemberWritten(keyed, s, m)}

\* A stream that is left out is written all the same for a member that is not.
IsWritten(keyed, s) == StreamWritten(keyed, s) \/ Written(keyed, s) # {}

\* write_stream_header, and the children in a file of their own or in the stream.
Header(s) == [s EXCEPT !.kind = IF IsImmutable(s) THEN "immutable_stream" ELSE "stream",
                       !.vars = {}, !.arrays = {}, !.structs = {}, !.subs = {}, !.files = {}]

Entry(keyed, s) ==
    LET written == Written(keyed, s)
        shared == [Header(s) EXCEPT !.structs = s.structs \cap written, !.subs = s.subs \cap written]
    IN  IF s.runtime_format = "separate_file" THEN [shared EXCEPT !.files = {s.name}]
        ELSE [shared EXCEPT !.vars = s.vars \cap written, !.arrays = s.arrays \cap written]

IsMutable(s) == s.immutable \in {NoText, "false"}
BadFormat(s) == s.runtime_format \notin {"single_file", "separate_file"}

\* generate_streams stops at a mutable stream whose format it does not know.
Stops(streams) == {i \in DOMAIN streams : IsMutable(streams[i]) /\ BadFormat(streams[i])}
UpToStop(streams) == IF Stops(streams) = {} THEN streams ELSE SubSeq(streams, 1, First(Stops(streams)) - 1)

\* The registry is read as it was written: nothing of the clean-up is done here.  The file
\* is whole when the end of the list of streams is written.
GenerateStreams(registry, order, keyed) ==
    LET streams == AllStreams(registry)
        pass == UpToStop(streams)
        shown == SelectSeq(pass, LAMBDA s : \/ IsImmutable(s) /\ order = "listed" /\ StreamWritten(keyed, s)
                                            \/ IsMutable(s) /\ IsWritten(keyed, s))
        first == IF order = "listed" THEN <<>>
                 ELSE SelectSeq(streams, LAMBDA s : IsImmutable(s) /\ StreamWritten(keyed, s))
        Shown(s) == IF IsImmutable(s) THEN Header(s) ELSE Entry(keyed, s)
    IN  [streams |-> [i \in DOMAIN (first \o shown) |-> Shown((first \o shown)[i])],
         whole |-> Stops(streams) = {},
         \* A stream defined twice has its file written twice.
         fields |-> [name \in {s.name : s \in {t \in Elements(shown) : t.runtime_format = "separate_file" /\ IsMutable(t)}} |->
                       LET s == shown[CHOOSE i \in Named(shown, name) : \A j \in Named(shown, name) : j <= i]
                       IN  (s.vars \cup s.arrays) \cap Written(keyed, s)]]
=============================================================================
