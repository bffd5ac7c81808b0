---------------------------- MODULE VelocityGrid ----------------------------
(***************************************************************************)
(* The interface between the land ice core and its finite element velocity *)
(* solver (core_landice/mode_forward/Interface_velocity_solver.cpp).       *)
(*                                                                         *)
(* The solver works on the dual mesh: an MPAS cell is one of its vertices, *)
(* an MPAS vertex one of its triangles.  At every call the tasks work out  *)
(* which triangles have dynamic ice, number the triangles, edges and       *)
(* vertices of the solver's mesh globally, find the neighbours of their    *)
(* triangles on other tasks, and make the lists by which a result travels  *)
(* back to the owner of a cell or an edge that has no triangle there.      *)
(* Then they solve, and bring the results to all halos.                    *)
(*                                                                         *)
(* A task runs through Phases.  In each it computes something of its own   *)
(* and then either gathers a number from all tasks or exchanges a field    *)
(* with its neighbours; every message carries its sender as its tag.       *)
(***************************************************************************)
EXTENDS Integers, SequencesExt, FiniteSetsExt, SortedSets, PrismSplit

CONSTANTS
    nprocs,         \* tasks are 0 .. nprocs - 1
    Cells,
    cellsOnVertex,  \* for each MPAS vertex with three cells the sequence of them
    cellsOnEdge,    \* for each MPAS edge the sequence of its two cells
    Rim,            \* cells at the end of the mesh, which have other vertices too
    Midpoint,       \* for each edge the vertices whose triangle its midpoint is in
    Clockwise,      \* the vertices the cells of which come clockwise
    Elevation,      \* of the ice surface, for each cell
    BelowSea,       \* cells the bed of which is below sea level
    Partitions,     \* the owners of the cells: functions from Cells to tasks
    IceSheets,      \* [dynamic: cells with dynamic ice, floating: edges of floating ice]
    nHalos,         \* config_num_halos
    MaxCalls        \* bound on the number of velocity solves

Procs == 0 .. nprocs - 1

ASSUME SizesAssumption == nprocs \in Nat \ {0} /\ nHalos \in Nat /\ MaxCalls \in Nat
ASSUME PartitionsAssumption == Partitions \subseteq [Cells -> Procs]
ASSUME IceAssumption ==
    \A ice \in IceSheets : DOMAIN ice = {"dynamic", "floating"} /\ ice.dynamic \subseteq Cells \ Rim

\* With a single layer import2DFields would look for neighbours outside the block.
ASSUME HalosAssumption == nHalos >= 2

-----------------------------------------------------------------------------
(* The blocks of the tasks and the exchange lists of their halos *)

Vertices == DOMAIN cellsOnVertex
Edges    == DOMAIN cellsOnEdge
Entities == [cell |-> Cells, edge |-> Edges, vertex |-> Vertices]

CellsOf(kind, x) ==
    CASE kind = "cell"   -> {x}
      [] kind = "edge"   -> Range(cellsOnEdge[x])
      [] kind = "vertex" -> Range(cellsOnVertex[x])

verticesOnEdge == [e \in Edges |-> {t \in Vertices : CellsOf("edge", e) \subseteq CellsOf("vertex", t)}]
verticesOnCell == [c \in Cells |-> {t \in Vertices : c \in CellsOf("vertex", t)}]
edgesOnCell    == [c \in Cells |-> {e \in Edges : c \in CellsOf("edge", e)}]
Across(e, c)   == CHOOSE d \in CellsOf("edge", e) : d # c

\* Entities have numbers.  A triangle has three cells, any two of them the ends of an edge,
\* and there are no other edges between them.  An edge has at most two triangles, and one at
\* least if the mesh goes on around one of its ends.
ASSUME MeshAssumption ==
    /\ \A kind \in DOMAIN Entities : Entities[kind] \subseteq Nat \ {0} /\ IsFiniteSet(Entities[kind])
    /\ \A t \in Vertices : cellsOnVertex[t] \in [1 .. 3 -> Cells] /\ IsInjective(cellsOnVertex[t])
    /\ \A e \in Edges : cellsOnEdge[e] \in [1 .. 2 -> Cells] /\ IsInjective(cellsOnEdge[e])
    /\ \A t \in Vertices : \A c, d \in CellsOf("vertex", t) :
          c # d => \E e \in Edges : CellsOf("edge", e) = {c, d}
    /\ \A e, f \in Edges : CellsOf("edge", e) = CellsOf("edge", f) => e = f
    /\ \A c \in Cells : edgesOnCell[c] # {}
    /\ \A e \in Edges : /\ Cardinality(verticesOnEdge[e]) <= 2
                        /\ ~(CellsOf("edge", e) \subseteq Rim) => verticesOnEdge[e] # {}

\* The midpoint of an edge between two triangles is in one of them.
ASSUME MidpointAssumption ==
    \A e \in Edges : Cardinality(verticesOnEdge[e]) = 2 => Midpoint[e] \cap verticesOnEdge[e] # {}

\* An edge or a vertex belongs to the owner of its first cell.
Owner == [pt \in Partitions |->
    [cell   |-> pt,
     edge   |-> [e \in Edges |-> pt[cellsOnEdge[e][1]]],
     vertex |-> [t \in Vertices |-> pt[cellsOnVertex[t][1]]]]]

Around(S) == UNION {CellsOf("edge", e) : e \in UNION {edgesOnCell[c] : c \in S}}
Reached(S) ==
    LET near[h \in 0 .. nHalos] == IF h = 0 THEN S ELSE Around(near[h - 1])
    IN  near[nHalos]

\* A block has the cells of its halo layers and all their edges and vertices.
Local == [pt \in Partitions |-> [p \in Procs |->
    LET near == Reached({c \in Cells : pt[c] = p})
    IN  [kind \in DOMAIN Entities |-> {x \in Entities[kind] : CellsOf(kind, x) \cap near # {}}]]]

Owned == [pt \in Partitions |-> [p \in Procs |-> [kind \in DOMAIN Entities |->
    {x \in Entities[kind] : Owner[pt][kind][x] = p}]]]

\* unpackMpiArray: lists of an exchange are kept by the task at the other end.  An
\* entity is sent by its owner to all the halos it is in.
Shared(pt, p, q, kind) == IF q = p THEN {} ELSE Owned[pt][p][kind] \cap Local[pt][q][kind]
SendLists == [pt \in Partitions |-> [p \in Procs |-> [kind \in DOMAIN Entities |->
    [q \in {r \in Procs : Shared(pt, p, r, kind) # {}} |-> Sorted(Shared(pt, p, q, kind))]]]]
RecvLists == [pt \in Partitions |-> [p \in Procs |-> [kind \in DOMAIN Entities |->
    [q \in {r \in Procs : Shared(pt, r, p, kind) # {}} |-> Sorted(Shared(pt, q, p, kind))]]]]

-----------------------------------------------------------------------------
VARIABLES
    partition, ice, call,   \* configuration: owners, masks, number of the call
    phase,      \* the phase each task comes to next
    counts,     \* the numbers each task has given to the gathers of this call
    awaited,    \* the messages it still waits for, in order
    wire,       \* messages under way, by sender and receiver, in order
    field,      \* the arrays that are exchanged, for each task
    grid,       \* what each task knows of its part of the solver's mesh
    exited      \* whether a task has stopped the program with an error

configuration == <<partition, ice, call>>
network == <<counts, awaited, wire>>
vars == <<configuration, phase, network, field, grid, exited>>

Phases == <<"triangles", "triangleIDs", "edges", "edgeIDs", "cells", "cellIDs", "ghosts",
            "neighbours", "heat", "cellsBack", "velocity", "edgesBack", "normal", "mask">>
Solve == 9      \* the first phase of a call that need not renew the mesh

NotAnId == -1
Zero == <<>>    \* a velocity or a heat of zero

NoGrid == [triangles |-> {}, edges |-> {}, cells |-> {},
           cellsBack |-> [send |-> <<>>, recv |-> <<>>],
           edgesBack |-> [send |-> <<>>, recv |-> <<>>],
           verticesOnTria |-> <<>>, trianglesOnEdge |-> <<>>, source |-> <<>>]

Arrays(p, pt) ==
    [triangleIDs |-> [t \in Local[pt][p].vertex |-> NotAnId],
     edgeIDs     |-> [e \in Local[pt][p].edge |-> NotAnId],
     cellIDs     |-> [c \in Local[pt][p].cell |-> NotAnId],
     ghosts      |-> [t \in Local[pt][p].vertex |-> <<>>],
     heat        |-> [t \in Local[pt][p].vertex |-> Zero],
     velocity    |-> [c \in Local[pt][p].cell |-> Zero],
     normal      |-> [e \in Local[pt][p].edge |-> Zero]]

Init ==
    /\ partition \in Partitions
    /\ ice \in IceSheets
    /\ call = 1
    /\ phase = [p \in Procs |-> 1]
    /\ counts = [p \in Procs |-> <<>>]
    /\ awaited = [p \in Procs |-> <<>>]
    /\ wire = [p \in Procs |-> [q \in Procs |-> <<>>]]
    /\ field = [p \in Procs |-> Arrays(p, partition)]
    /\ grid = [p \in Procs |-> NoGrid]
    /\ exited = FALSE

-----------------------------------------------------------------------------
(* Gathers and exchanges *)

\* The gather or exchange task p was in has come to its end.
Through(p) == awaited[p] = <<>> /\ \A q \in Procs : Len(counts[q]) >= Len(counts[p])

At(p, name) == /\ ~exited
               /\ phase[p] \in DOMAIN Phases
               /\ Phases[phase[p]] = name
               /\ Through(p)
               /\ phase' = [phase EXCEPT ![p] = @ + 1]
               /\ UNCHANGED configuration

\* MPI_Allgather of a number, in createReducedMPI and computeLocalOffset.
Gather(p, n) == /\ counts' = [counts EXCEPT ![p] = Append(@, n)]
                /\ UNCHANGED <<awaited, wire>>

\* The sum of the numbers of the tasks before p.
SumBelow(a, p) == LET sum[q \in 0 .. p] == IF q = 0 THEN 0 ELSE sum[q - 1] + a[q - 1] IN sum[p]

\* Mutant: the task's own number is taken for that of each task before it.
OffsetOfOwn(p) == SumBelow([q \in Procs |-> counts[p][Len(counts[p])]], p)

\* computeLocalOffset: the entities of the tasks before p in the last gather.
Offset(p) == SumBelow([q \in Procs |-> counts[q][Len(counts[p])]], p)

\* The entities in S are numbered from the offset on, in the order of the block; nothing
\* else has a number.
Numbered(p, kind, S) ==
    [x \in Local[partition][p][kind] |-> IF x \in S THEN Offset(p) + Rank(S, x) - 1 ELSE NotAnId]

\* allToAll: all sends are posted and then the messages are awaited in the order of the list.
AllToAll(p, array, values, lists) ==
    /\ field' = [field EXCEPT ![p][array] = values]
    /\ wire' = [wire EXCEPT ![p] = [q \in Procs |->
           IF q \in DOMAIN lists.send
           THEN Append(@[q], [i \in DOMAIN lists.send[q] |-> values[lists.send[q][i]]])
           ELSE @[q]]]
    /\ awaited' = [awaited EXCEPT ![p] =
           LET from == Sorted(DOMAIN lists.recv)
           IN  [i \in DOMAIN from |-> [from |-> from[i], array |-> array, to |-> lists.recv[from[i]]]]]
    /\ UNCHANGED counts

Forward(p, kind) == [send |-> SendLists[partition][p][kind], recv |-> RecvLists[partition][p][kind]]

\* The array with the values of a buffer at the entities of a list.
Unpacked(values, list, buffer) ==
    [x \in DOMAIN values |->
        IF x \in Range(list) THEN buffer[CHOOSE i \in DOMAIN list : list[i] = x] ELSE values[x]]

\* MPI_Wait on the next message, which is then put into the array.
Receive(p) ==
    /\ ~exited
    /\ awaited[p] # <<>>
    /\ LET m == Head(awaited[p]) IN
        /\ wire[m.from][p] # <<>>
        /\ field' = [field EXCEPT ![p][m.array] = Unpacked(@, m.to, Head(wire[m.from][p]))]
        /\ wire' = [wire EXCEPT ![m.from][p] = Tail(@)]
    /\ awaited' = [awaited EXCEPT ![p] = Tail(@)]
    /\ UNCHANGED <<configuration, phase, counts, grid, exited>>

-----------------------------------------------------------------------------
(* velocity_solver_compute_2d_grid *)

\* verticesMask_F & dynamic_ice_bit_value
Dynamic(t) == CellsOf("vertex", t) \cap ice.dynamic # {}

\* triangleToFVertex: task 0 always takes a triangle, the first of its block.
Triangles(p) ==
    LET own == Owned[partition][p].vertex
        dynamic == {t \in own : Dynamic(t)}
    IN  IF p = 0 /\ dynamic = {} THEN {t \in own : \A u \in own : t <= u} ELSE dynamic

NumberTriangles(p) ==
    /\ At(p, "triangles")
    /\ grid' = [grid EXCEPT ![p] = [NoGrid EXCEPT !.triangles = Triangles(p)]]
    /\ Gather(p, Cardinality(Triangles(p)))
    /\ UNCHANGED <<field, exited>>

ShareTriangleIDs(p) ==
    /\ At(p, "triangleIDs")
    /\ AllToAll(p, "triangleIDs", Numbered(p, "vertex", grid[p].triangles), Forward(p, "vertex"))
    /\ UNCHANGED <<grid, exited>>

\* The triangles at an edge or cell: those of the whole mesh and those of task p.
AroundIt(kind, x) == IF kind = "edge" THEN verticesOnEdge[x] ELSE verticesOnCell[x]
MeshTriangles(p, kind, x)  == {t \in AroundIt(kind, x) : field[p].triangleIDs[t] # NotAnId}
LocalTriangles(p, kind, x) == AroundIt(kind, x) \cap grid[p].triangles

\* Whether an edge ends the mesh.
IsBoundary(p, e) == Cardinality(MeshTriangles(p, "edge", e)) < 2

\* edgeToFEdge and vertexToFCell: what belongs to a local triangle.
EdgeToFEdge(p) ==
    {e \in Local[partition][p].edge : LocalTriangles(p, "edge", e) # {}}
VertexToFCell(p) ==
    {c \in Local[partition][p].cell : LocalTriangles(p, "cell", c) # {}}

\* edgesToSend and fCellsToSend: what belongs to any triangle is numbered by its owner,
\* who is sent the values of what belongs to no local one.
ToSend(p, kind) ==
    {x \in Owned[partition][p][kind] : MeshTriangles(p, kind, x) # {}}

\* edgesToReceive and fCellsToReceive.
ToReceive(p, kind) == {x \in ToSend(p, kind) : LocalTriangles(p, kind, x) = {}}

NumberEdges(p) ==
    /\ At(p, "edges")
    /\ grid' = [grid EXCEPT ![p].edges = EdgeToFEdge(p)]
    /\ Gather(p, Cardinality(ToSend(p, "edge")))
    /\ UNCHANGED <<field, exited>>

ShareEdgeIDs(p) ==
    /\ At(p, "edgeIDs")
    /\ AllToAll(p, "edgeIDs", Numbered(p, "edge", ToSend(p, "edge")), Forward(p, "edge"))
    /\ UNCHANGED <<grid, exited>>

\* Mutant: only tasks that have triangles take part.
NumberCellsIfAny(p) ==
    /\ At(p, "cells")
    /\ grid' = [grid EXCEPT ![p].cells = VertexToFCell(p)]
    /\ IF grid[p].triangles = {} THEN UNCHANGED network ELSE Gather(p, Cardinality(ToSend(p, "cell")))
    /\ UNCHANGED <<field, exited>>

NumberCells(p) ==
    /\ At(p, "cells")
    /\ grid' = [grid EXCEPT ![p].cells = VertexToFCell(p)]
    /\ Gather(p, Cardinality(ToSend(p, "cell")))
    /\ UNCHANGED <<field, exited>>

ShareCellIDs(p) ==
    /\ At(p, "cellIDs")
    /\ AllToAll(p, "cellIDs", Numbered(p, "cell", ToSend(p, "cell")), Forward(p, "cell"))
    /\ UNCHANGED <<grid, exited>>

\* Entities in the order of their global numbers.
InOrder(S, ids) ==
    LET numbers == Sorted({ids[x] : x \in S})
    IN  [i \in DOMAIN numbers |-> CHOOSE x \in S : ids[x] = numbers[i]]

\* createReverseCellsExchangeLists, createReverseEdgesExchangeLists: a task sends what it
\* has of another's that has no triangle of the mesh there, the other receives it from
\* all the owners of triangles around; both in the order of the global numbers.
TrianglesProcIds(p, kind, x) == {Owner[partition].vertex[t] : t \in MeshTriangles(p, kind, x)}
SendMap(p, kind, mesh, q) ==
    {x \in mesh : q # p /\ Owner[partition][kind][x] = q /\ q \notin TrianglesProcIds(p, kind, x)}
ReceiveMap(p, kind, q) == {x \in ToReceive(p, kind) : q \in TrianglesProcIds(p, kind, x)}
ReverseLists(p, kind, mesh, ids) ==
    [send |-> [q \in {r \in Procs : SendMap(p, kind, mesh, r) # {}} |-> InOrder(SendMap(p, kind, mesh, q), ids)],
     recv |-> [q \in {r \in Procs : ReceiveMap(p, kind, r) # {}} |-> InOrder(ReceiveMap(p, kind, q), ids)]]

\* verticesOnTria: the cells of a triangle, counterclockwise.
VerticesOnTria(t) ==
    LET c == cellsOnVertex[t] IN IF t \in Clockwise THEN <<c[1], c[3], c[2]>> ELSE c

\* The position of an edge in a triangle with these corners.
Position(v, e) ==
    LET ends == CellsOf("edge", e)
    IN  IF ends = {v[2], v[3]} THEN 1 ELSE IF ends = {v[1], v[3]} THEN 2 ELSE 0

\* dataForGhostTria: a triangle and its edges by position, for the tasks that have only
\* the other side of an edge.
EdgeAt(t, k) == CHOOSE e \in Edges : t \in verticesOnEdge[e] /\ Position(VerticesOnTria(t), e) = k
DataForGhostTria(p) ==
    [t \in Local[partition][p].vertex |->
        IF t \in grid[p].triangles
        THEN [tria |-> Rank(grid[p].triangles, t), edge |-> [k \in 0 .. 2 |-> field[p].edgeIDs[EdgeAt(t, k)]]]
        ELSE [tria |-> NotAnId, edge |-> [k \in 0 .. 2 |-> NotAnId]]]

\* trianglesOnEdge and trianglesPositionsOnEdge: the local triangles of each edge.
Side(p, t, e) == [tria |-> Rank(grid[p].triangles, t), position |-> Position(VerticesOnTria(t), e)]

ShareGhosts(p) ==
    /\ At(p, "ghosts")
    /\ grid' = [grid EXCEPT ![p] = [@ EXCEPT
           !.cellsBack = ReverseLists(p, "cell", grid[p].cells, field[p].cellIDs),
           !.edgesBack = ReverseLists(p, "edge", grid[p].edges, field[p].edgeIDs),
           !.verticesOnTria = [t \in grid[p].triangles |-> VerticesOnTria(t)],
           !.trianglesOnEdge = [e \in grid[p].edges |->
               [t \in LocalTriangles(p, "edge", e) |-> Side(p, t, e)]]]]
    /\ AllToAll(p, "ghosts", DataForGhostTria(p), Forward(p, "vertex"))
    /\ UNCHANGED exited

\* procOnInterfaceEdge: edges of two triangles of which one is local.
OnInterface(p, e) == ~IsBoundary(p, e) /\ Cardinality(LocalTriangles(p, "edge", e)) = 1

\* The other triangle of an edge, from the data of its task.
GhostSide(p, t, e) ==
    LET data == field[p].ghosts[t]
        id == field[p].edgeIDs[e]
    IN  [tria |-> data.tria,
         position |-> (IF data.edge[1] = id THEN 1 ELSE 0) + 2 * (IF data.edge[2] = id THEN 1 ELSE 0)]

FindNeighbours(p) ==
    /\ At(p, "neighbours")
    /\ grid' = [grid EXCEPT ![p].trianglesOnEdge = [e \in DOMAIN @ |->
           IF OnInterface(p, e)
           THEN [t \in verticesOnEdge[e] |-> IF t \in DOMAIN @[e] THEN @[e][t] ELSE GhostSide(p, t, e)]
           ELSE @[e]]]
    /\ UNCHANGED <<network, field, exited>>

-----------------------------------------------------------------------------
(* velocity_solver_solve_fo *)

\* isVertexBoundary: some triangle around the cell has no dynamic ice.
IsVertexBoundary(c) == c \in Rim \/ \E t \in verticesOnCell[c] : ~Dynamic(t)

\* import2DFields: where the values of a cell come from.  Beyond a floating margin they
\* are those of the lowest neighbour with dynamic ice, below sea level a thin floating ice.
ThinIce == 0  \* not a cell
SourceAmong(candidates, c) ==
    LET neighbours == {Across(e, c) : e \in edgesOnCell[c]} \cap ice.dynamic \cap candidates
        isFloating == edgesOnCell[c] \cap ice.floating # {}
    IN  IF ~IsVertexBoundary(c) \/ c \in ice.dynamic THEN c
        ELSE IF isFloating /\ neighbours # {}
             THEN CHOOSE d \in neighbours : \A n \in neighbours : Elevation[d] <= Elevation[n]
        ELSE IF c \in BelowSea THEN ThinIce ELSE c

\* Mutant: only cells of the task's own part of the mesh.
SourceInMesh(p, c) == SourceAmong(grid[p].cells, c)

\* All cells of the block.
Source(p, c) == SourceAmong(Local[partition][p].cell, c)

\* The solver's answer, by the number of a vertex or triangle of its mesh.
Answer(id) == <<call, id>>

\* The dissipation heat goes to the halos at once.
SolveAndExportHeat(p) ==
    /\ At(p, "heat")
    /\ grid' = [grid EXCEPT ![p].source = [c \in grid[p].cells |-> Source(p, c)]]
    /\ AllToAll(p, "heat",
           [t \in Local[partition][p].vertex |-> IF t \in grid[p].triangles
               THEN Answer(field[p].triangleIDs[t]) ELSE Zero],
           Forward(p, "vertex"))
    /\ UNCHANGED exited

\* Mutant: cells outside the mesh keep their velocity.
VerticesToCellsKept(p) ==
    [c \in Local[partition][p].cell |-> IF c \in grid[p].cells
        THEN Answer(field[p].cellIDs[c]) ELSE field[p].velocity[c]]

\* mapVerticesToCells: nothing is left from the previous solve where the ice is gone.
VerticesToCells(p) ==
    [c \in Local[partition][p].cell |-> IF c \in grid[p].cells
        THEN Answer(field[p].cellIDs[c]) ELSE Zero]

CellsBack(p) ==
    /\ At(p, "cellsBack")
    /\ AllToAll(p, "velocity", VerticesToCells(p), grid[p].cellsBack)
    /\ UNCHANGED <<grid, exited>>

CellsForward(p) ==
    /\ At(p, "velocity")
    /\ AllToAll(p, "velocity", field[p].velocity, Forward(p, "cell"))
    /\ UNCHANGED <<grid, exited>>

\* Mutant: only the first triangle is tried.
HoldingFirst(e) == {t \in verticesOnEdge[e] : /\ t = Sorted(verticesOnEdge[e])[1]
                                              /\ Dynamic(t) /\ t \in Midpoint[e]}

\* belongToTria, for the triangles with dynamic ice.
Holding(e) == {t \in verticesOnEdge[e] : Dynamic(t) /\ t \in Midpoint[e]}

\* get_prism_velocity_on_FEdges: the triangle in which the velocity at the midpoint of an
\* edge is taken: one with the midpoint in it; at the boundary the one with ice, or the second.
Taken(e) ==
    LET order == Sorted(verticesOnEdge[e])
    IN  IF Holding(e) # {} THEN Sorted(Holding(e))[1]
        ELSE IF Dynamic(order[1]) THEN order[1] ELSE Last(order)

NoTriangleHolds(p) == \E e \in grid[p].edges : Holding(e) = {} /\ ~IsBoundary(p, e)

\* The array has been set to zero at the beginning of the solve.
PrismVelocity(p) ==
    [e \in Local[partition][p].edge |-> IF e \in grid[p].edges
        THEN [c \in CellsOf("vertex", Taken(e)) |-> field[p].velocity[c]] ELSE Zero]

\* exit(1) when the midpoint of an edge inside the mesh is in no triangle with ice.
EdgesBack(p) ==
    /\ At(p, "edgesBack")
    /\ IF NoTriangleHolds(p)
       THEN exited' = TRUE /\ UNCHANGED <<network, field>>
       ELSE AllToAll(p, "normal", PrismVelocity(p), grid[p].edgesBack) /\ UNCHANGED exited
    /\ UNCHANGED grid

EdgesForward(p) ==
    /\ At(p, "normal")
    /\ AllToAll(p, "normal", field[p].normal, Forward(p, "edge"))
    /\ UNCHANGED <<grid, exited>>

\* Edges without dynamic ice get no velocity, those of the mesh included.
DynamicEdge(e) == CellsOf("edge", e) \cap ice.dynamic # {}

MaskEdges(p) ==
    /\ At(p, "mask")
    /\ field' = [field EXCEPT ![p].normal = [e \in DOMAIN @ |-> IF DynamicEdge(e) THEN @[e] ELSE Zero]]
    /\ UNCHANGED <<network, grid, exited>>

-----------------------------------------------------------------------------
Solved == \A p \in Procs : phase[p] > Len(Phases) /\ Through(p)

\* li_velocity_external_solve: the mesh is renewed when a triangle of any task has got or
\* lost its dynamic ice, and may be otherwise: in every call when
\* config_always_compute_fem_grid is set, and when the Dirichlet mask has changed.
NextCall ==
    /\ ~exited /\ Solved /\ call < MaxCalls
    /\ call' = call + 1
    /\ ice' \in IceSheets
    /\ \E renewed \in BOOLEAN :
          /\ (\E t \in Vertices : Dynamic(t) # Dynamic(t)') => renewed
          /\ phase' = [p \in Procs |-> IF renewed THEN 1 ELSE Solve]
    /\ counts' = [p \in Procs |-> <<>>]
    /\ UNCHANGED <<partition, awaited, wire, field, grid, exited>>

Step(p) == \/ NumberTriangles(p) \/ ShareTriangleIDs(p)
           \/ NumberEdges(p) \/ ShareEdgeIDs(p)
           \/ NumberCells(p) \/ ShareCellIDs(p)
           \/ ShareGhosts(p) \/ FindNeighbours(p)
           \/ SolveAndExportHeat(p) \/ CellsBack(p) \/ CellsForward(p)
           \/ EdgesBack(p) \/ EdgesForward(p) \/ MaskEdges(p)
           \/ Receive(p)

Next == (\E p \in Procs : Step(p)) \/ NextCall

\* Every task keeps running, messages arrive, and the core takes its next step.
Spec == Init /\ [][Next]_vars /\ (\A p \in Procs : WF_vars(Step(p))) /\ WF_vars(NextCall)

-----------------------------------------------------------------------------
(* Correctness *)

Index(name) == CHOOSE i \in DOMAIN Phases : Phases[i] = name
AllPast(name) == \A p \in Procs : phase[p] > Index(name) + 1

\* What the tasks' triangles make up.
InMesh(kind, x) ==
    \E p \in Procs : (IF kind = "vertex" THEN {x} ELSE AroundIt(kind, x)) \cap grid[p].triangles # {}

IDs(p, kind) == CASE kind = "vertex" -> field[p].triangleIDs
                  [] kind = "edge"   -> field[p].edgeIDs
                  [] kind = "cell"   -> field[p].cellIDs

\* The triangles, edges and vertices of the solver's mesh are numbered from 0 without a
\* gap, no two alike, and every task that has one in its block knows the same number
\* (computeLocalOffset and the exchanges after it); what is not in the mesh has none.
NumberingIsGlobal ==
    AllPast("cellIDs") => \A kind \in DOMAIN Entities :
        LET mesh == {x \in Entities[kind] : InMesh(kind, x)}
            number == [x \in Entities[kind] |-> IDs(Owner[partition][kind][x], kind)[x]]
        IN  /\ {number[x] : x \in mesh} = 0 .. Cardinality(mesh) - 1
            /\ \A p \in Procs : \A x \in Local[partition][p][kind] :
                   IDs(p, kind)[x] = IF x \in mesh THEN number[x] ELSE NotAnId

\* What a task has learnt of the triangle beyond an interface edge, its number there and
\* the position of the edge in it, is what the triangle's own task has (dataForGhostTria).
NeighboursFound ==
    \A p \in Procs : phase[p] > Index("neighbours") =>
        \A e \in grid[p].edges : OnInterface(p, e) =>
            \A t \in verticesOnEdge[e] :
                grid[p].trianglesOnEdge[e][t] = grid[Owner[partition].vertex[t]].trianglesOnEdge[e][t]

\* Tasks that share a vertex of the mesh give the solver the same values there, at a
\* floating margin too, where they come from a neighbour (import2DFields).
SharedVerticesAgree ==
    \A p, q \in Procs : phase[p] > Index("heat") /\ phase[q] > Index("heat") =>
        \A c \in grid[p].cells \cap grid[q].cells : grid[p].source[c] = grid[q].source[c]

\* InterfacesAgree: the tasks on the two sides of an interface know the same of the triangles
\* beside it and give its vertices the same values (compute_2d_grid, import2DFields).
InterfacesAgree == NeighboursFound /\ SharedVerticesAgree

\* The tetrahedra of the prisms over two triangles with a common edge, on whatever tasks,
\* meet in the same triangles of the face between them (prismType takes the cells' global
\* numbers, and the triangles start at any of their corners).
ConformingSplit ==
    Solved => \A p, q \in Procs : \A t \in grid[p].triangles, u \in grid[q].triangles :
        \A e \in Edges : {t, u} = verticesOnEdge[e] /\ t # u =>
            LET Cut(r, v) == LET corner == grid[r].verticesOnTria[v]
                                 column == [k \in Third |-> corner[k + 1]]
                             IN  FacesOn(Tetrahedra(column, column), LateralFace(cellsOnEdge[e][1], cellsOnEdge[e][2]))
            IN  Cut(p, t) = Cut(q, u)

\* After a solve every task has, on all cells and edges of its block, the solver's answer
\* or the velocity taken from it, and zero where there is no ice: nothing from an earlier
\* extent of the ice, and nothing missing where the owner has no triangle.
VelocityEverywhere ==
    ~exited /\ Solved => \A p \in Procs :
        LET id(c) == field[partition[c]].cellIDs[c]
            answer(c) == IF InMesh("cell", c) THEN Answer(id(c)) ELSE Zero
        IN  /\ \A c \in Local[partition][p].cell : field[p].velocity[c] = answer(c)
            /\ \A e \in Local[partition][p].edge : field[p].normal[e] =
                   IF DynamicEdge(e) THEN [c \in CellsOf("vertex", Taken(e)) |-> answer(c)] ELSE Zero

\* The error exit "edge midpoint does not belong to either triangle" is left for edges the
\* midpoint of which is in the triangle that task 0 takes when it has none with dynamic ice.
ExitOnlyBesideIce ==
    exited => \E e \in Edges : /\ Holding(e) = {}
                               /\ \E t \in Midpoint[e] \cap grid[0].triangles : ~Dynamic(t)

\* No task waits for a message that is not sent or for a gather that others have left out.
Terminates == <>(exited \/ (Solved /\ call = MaxCalls))
=============================================================================
