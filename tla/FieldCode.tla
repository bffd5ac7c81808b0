------------------------------ MODULE FieldCode ------------------------------
(***************************************************************************)
(* What the code that tools/registry/gen_inc.c writes does when the model  *)
(* starts: the values of the dimensions, the shape of the fields, which of *)
(* them are active and how the constituents of an array are laid out.      *)
(*                                                                         *)
(* A dimension is defined by a number, by a namelist option or as another  *)
(* dimension ("of") and a number added to it.                              *)
(***************************************************************************)
EXTENDS RegistryFile

MissingDim == -999

-----------------------------------------------------------------------------
(* setup_derived_dimensions                                                *)

\* Read or defined before: kept.  The dimension a definition names is used without a test
\* that it has a value.
DefineDim(d, setup, options) ==
    IF ~setup.ok \/ (d.name \in DOMAIN setup.values /\ setup.values[d.name] # MissingDim) THEN setup
    ELSE LET Set(value) == [setup EXCEPT !.values = (d.name :> value) @@ @]
         IN  CASE d.definition = NoText     -> Set(MissingDim)
               [] d.definition = "number"   -> Set(d.added)
               [] d.definition = "namelist" -> Set(options[d.of])
               [] OTHER -> IF d.of \in DOMAIN setup.values THEN Set(setup.values[d.of] + d.added)
                           ELSE [setup EXCEPT !.ok = FALSE]

\* The dimensions in the order of the registry, with the values read from the mesh file.
SetupDimensions(dims, read, options) ==
    FoldLeft(LAMBDA setup, d : DefineDim(d, setup, options), [values |-> read, ok |-> TRUE], dims)

-----------------------------------------------------------------------------
(* The shape of a field                                                    *)

\* get_dimension_information: how a dimension is divided among the tasks.
DimDecomposition(dims, name) ==
    LET found == {d \in Elements(dims) : d.name = name}
    IN  IF name \in {"nCells", "nEdges", "nVertices"} /\ found # {} THEN name
        ELSE IF \E d \in found : d.decomposition \notin {NoText, "none"} THEN "internal"
        ELSE "none"

\* build_dimension_information: the counting ends at a second dimension that is divided, and
\* nobody looks at the error.
CountDim(dims, shape, name) ==
    LET decomp == DimDecomposition(dims, name)
    IN  IF shape.error THEN shape
        ELSE IF name = "Time" THEN [shape EXCEPT !.has_time = TRUE]
        ELSE [shape EXCEPT !.ndims = @ + 1,
                           !.decomp = IF @ = "none" THEN decomp ELSE @,
                           !.error = shape.decomp # "none" /\ decomp # "none"]

Shape(dims, names) ==
    FoldLeft(LAMBDA shape, name : CountDim(dims, shape, name),
             [ndims |-> 0, has_time |-> FALSE, decomp |-> "none", error |-> FALSE], names)

\* set_pointer_name: a rank there is no pointer for gets the pointer of a scalar.
HighestRank(type) == CASE type = "real" -> 5 [] type = "integer" -> 3 [] OTHER -> 1
Rank(type, ndims) == IF ndims \in 0 .. HighestRank(type) THEN ndims ELSE 0

-----------------------------------------------------------------------------
(* Packages                                                                *)

IsEnabled(packages, enabled) == packages = {} \/ packages \cap enabled # {}

\* build_struct_package_lists: none as soon as a constituent has none.
PackageList(vars) ==
    IF vars = <<>> \/ \E i \in DOMAIN vars : vars[i].packages = {} THEN {}
    ELSE UNION {vars[i].packages : i \in DOMAIN vars}

VarActive(v, enabled) == IsEnabled(v.packages, enabled)
ArrayActive(array, enabled) == IsEnabled(PackageList(array.vars), enabled)

-----------------------------------------------------------------------------
(* The constituents of an array: group after group, each in one piece      *)

\* A constituent without packages has those of the array.
AddConstituent(lay, v, array, enabled) ==
    LET packages == IF v.packages = {} THEN array.packages ELSE v.packages
        n == lay.counter + 1
    IN  IF IsEnabled(packages, enabled)
        THEN [lay EXCEPT !.counter = n, !.index = (v.name :> n) @@ @,
                         !.start = IF lay.started THEN @ ELSE n, !.started = TRUE]
        ELSE [lay EXCEPT !.index = (v.name :> -1) @@ @]

\* Mutant: the group that ends is not marked as ended.
EndGroupOpen(lay, group) ==
    IF lay.started THEN [lay EXCEPT !.bounds = (group :> <<lay.start, lay.counter>>) @@ @]
    ELSE [lay EXCEPT !.bounds = (group :> <<-1, -1>>) @@ @]

EndGroup(lay, group) ==
    IF lay.started
    THEN [lay EXCEPT !.bounds = (group :> <<lay.start, lay.counter>>) @@ @, !.started = FALSE]
    ELSE [lay EXCEPT !.bounds = (group :> <<-1, -1>>) @@ @]

\* A group is laid out when its first constituent comes up.
LayGroup(lay, v, array, enabled) ==
    IF v.group \in DOMAIN lay.bounds THEN lay
    ELSE EndGroup(FoldLeft(LAMBDA l, w : AddConstituent(l, w, array, enabled), lay,
                           SelectSeq(array.vars, LAMBDA w : w.group = v.group)),
                  v.group)

Layout(array, enabled) ==
    FoldLeft(LAMBDA lay, v : LayGroup(lay, v, array, enabled),
             [counter |-> 0, index |-> <<>>, bounds |-> <<>>, start |-> -1, started |-> FALSE],
             array.vars)
=============================================================================
