--------------------------- MODULE MCVelocityGrid ---------------------------
(***************************************************************************)
(* A strip of thirteen hexagons: 6, 7 and 8 inside, the others around       *)
(* them.                                                                    *)
(*                       1   2   3   4                                      *)
(*                     5   6   7   8   9                                    *)
(*                      10  11  12  13                                      *)
(***************************************************************************)
EXTENDS VelocityGrid

MCCells == 1 .. 13
Inside == {6, 7, 8}
MCRim == MCCells \ Inside

\* The corners between three cells, in a row above and a row below the middle one.
MCcellsOnVertex ==
    << <<5, 6, 1>>, <<6, 2, 1>>, <<7, 2, 6>>, <<7, 3, 2>>, <<7, 3, 8>>, <<8, 4, 3>>, <<8, 9, 4>>,
       <<5, 10, 6>>, <<10, 11, 6>>, <<7, 6, 11>>, <<7, 11, 12>>, <<7, 12, 8>>, <<12, 13, 8>>, <<8, 13, 9>> >>
MCClockwise == {5, 11}

\* Its owner is the owner of the cell named first.
MCcellsOnEdge ==
    << <<5, 6>>, <<6, 7>>, <<8, 7>>, <<8, 9>>,
       <<5, 1>>, <<1, 6>>, <<2, 6>>, <<2, 7>>, <<7, 3>>, <<3, 8>>, <<8, 4>>, <<4, 9>>,
       <<5, 10>>, <<10, 6>>, <<6, 11>>, <<7, 11>>, <<7, 12>>, <<12, 8>>, <<8, 13>>, <<13, 9>>,
       <<1, 2>>, <<2, 3>>, <<3, 4>>, <<10, 11>>, <<11, 12>>, <<12, 13>> >>

\* The corners an edge lies between; all midpoints but two are in both triangles.
Ends(e) == {t \in DOMAIN MCcellsOnVertex : Range(MCcellsOnEdge[e]) \subseteq Range(MCcellsOnVertex[t])}
MCMidpoint == [e \in DOMAIN MCcellsOnEdge |-> IF e = 7 THEN {2} ELSE IF e = 8 THEN {4} ELSE Ends(e)]

MCElevation == [c \in MCCells |-> (5 * c) % 13]
MCBelowSea == {2, 12}

\* The owners of the cells 1 .. 13.
Bands == <<0, 0, 1, 1,  0, 0, 1, 2, 2,  0, 1, 2, 2>>
Far   == <<1, 1, 2, 2,  1, 0, 2, 2, 2,  1, 1, 2, 2>>
Mixed == <<1, 0, 2, 0,  2, 1, 0, 1, 2,  0, 2, 1, 0>>
MCPartitions == {Bands, Far, Mixed}

Sheet(dynamic, floating) == [dynamic |-> dynamic, floating |-> floating]
MCIceSheets == {Sheet({6}, {7}), Sheet({7, 8}, {8, 19, 20}), Sheet({8}, {})}
=============================================================================
