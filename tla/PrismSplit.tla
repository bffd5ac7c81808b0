----------------------------- MODULE PrismSplit -----------------------------
(***************************************************************************)
(* How a prism of the extruded mesh is cut into three tetrahedra           *)
(* (prismType, tetrasFromPrismStructured and setBdFacesOnPrism of          *)
(* core_landice/mode_forward/Interface_velocity_solver.cpp).  Each prism   *)
(* is cut on its own; the global numbers of the cells its columns stand on *)
(* are all that makes the cuts of two neighbours fit.                      *)
(*                                                                         *)
(* The corners of a prism are 0, 1, 2 at the bottom and 3, 4, 5 above      *)
(* them; a corner of the mesh is a pair of a column and a level.           *)
(***************************************************************************)
EXTENDS Integers

Third == 0 .. 2

\* PrismVerticesMap: the corners, counted from the column k and in the same sense.
Corner(k, i) == IF i < 3 THEN (i + k) % 3 ELSE 3 + ((i + k) % 3)

\* Mutant: the first corner is the column that happens to come first.
MinIndexFirst(ids) == 0

\* minIndex: the column with the smallest number.
MinIndex(ids) == CHOOSE k \in Third : \A j \in Third : ids[k] <= ids[j]

\* Whether the diagonal of the face opposite minIndex starts at its second column.
PrismType(ids) == ids[Corner(MinIndex(ids), 1)] > ids[Corner(MinIndex(ids), 2)]

\* tetraOfPrism, for the two types.
TetraOfPrism(type) ==
    IF type THEN {{0, 1, 2, 4}, {0, 4, 2, 5}, {0, 4, 5, 3}}
            ELSE {{0, 1, 2, 5}, {0, 1, 5, 4}, {0, 4, 5, 3}}

\* The tetrahedra as sets of corners of the prism whose columns have these numbers.
TetrasFromPrism(ids) ==
    {{Corner(MinIndex(ids), i) : i \in tetra} : tetra \in TetraOfPrism(PrismType(ids))}

\* The same as corners of the mesh: column[k] stands under the corners k and k + 3.
Tetrahedra(column, ids) ==
    {{<<column[i % 3], i \div 3>> : i \in tetra} : tetra \in TetrasFromPrism(ids)}

\* setBdFacesOnPrism: the triangles in which tetrahedra meet a face of the mesh given by
\* its corners.
FacesOn(tetras, face) == {tetra \cap face : tetra \in {t \in tetras :
                             \E a, b, c \in t \cap face : a # b /\ b # c /\ a # c}}

\* The lateral face of the prisms over the edge between the columns a and b.
LateralFace(a, b) == {a, b} \X {0, 1}
=============================================================================
