------------------------ MODULE VelocityGridProofs ------------------------
(* Proofs about the velocity interface, for every number of tasks, every mesh, *)
(* partition and extent of the ice.                                            *)
EXTENDS VelocityGrid, OperatorProofs

-----------------------------------------------------------------------------
(* The mesh and its blocks *)

Kinds == {"cell", "edge", "vertex"}

\* The triangles at an entity of any kind.
Near(kind, x) == IF kind = "vertex" THEN {x} ELSE AroundIt(kind, x)

\* What task p owns under the partition pt, and what its halo reaches.
CellsOfTask(pt, p) == {c \in Cells : pt[c] = p}
HaloOf(pt, p) == Reached(CellsOfTask(pt, p))

\* The kinds of entities of the mesh, each with finitely many numbers.
LEMMA EntitiesAre ==
    /\ DOMAIN Entities = Kinds
    /\ Entities["cell"] = Cells /\ Entities["edge"] = Edges /\ Entities["vertex"] = Vertices
    /\ \A kind \in Kinds : Entities[kind] \in SUBSET Int /\ IsFiniteSet(Entities[kind])
<1>1. DOMAIN Entities = Kinds
  BY DEF Entities, Kinds
<1>2. Entities["cell"] = Cells /\ Entities["edge"] = Edges /\ Entities["vertex"] = Vertices
  BY DEF Entities
<1>3. \A kind \in Kinds : Entities[kind] \subseteq Nat \ {0} /\ IsFiniteSet(Entities[kind])
  BY <1>1, MeshAssumption
<1> QED
  BY <1>1, <1>2, <1>3

\* Every entity has an owner: that of its first cell.
LEMMA OwnersAre ==
    ASSUME NEW pt \in Partitions
    PROVE  /\ \A kind \in Kinds : \A x \in Entities[kind] : Owner[pt][kind][x] \in Procs
           /\ \A c \in Cells : Owner[pt]["cell"][c] = pt[c]
           /\ \A e \in Edges : Owner[pt]["edge"][e] = pt[cellsOnEdge[e][1]]
           /\ \A t \in Vertices : Owner[pt]["vertex"][t] = pt[cellsOnVertex[t][1]]
           /\ Owner[pt].vertex = Owner[pt]["vertex"]
<1>1. /\ Owner[pt]["cell"] = pt
      /\ Owner[pt]["edge"] = [e \in Edges |-> pt[cellsOnEdge[e][1]]]
      /\ Owner[pt]["vertex"] = [t \in Vertices |-> pt[cellsOnVertex[t][1]]]
  BY DEF Owner
<1>2. pt \in [Cells -> Procs]
  BY PartitionsAssumption
<1>3. /\ \A t \in Vertices : cellsOnVertex[t][1] \in Cells
      /\ \A e \in Edges : cellsOnEdge[e][1] \in Cells
  BY MeshAssumption
<1>4. \A c \in Cells : pt[c] \in Procs
  BY <1>2
<1> QED
  BY <1>1, <1>3, <1>4, EntitiesAre DEF Kinds

\* What a task owns, and what is in its block.
LEMMA BlocksAre ==
    ASSUME NEW pt \in Partitions, NEW p \in Procs, NEW kind \in Kinds
    PROVE  /\ Owned[pt][p][kind] = {x \in Entities[kind] : Owner[pt][kind][x] = p}
           /\ Local[pt][p][kind] = {x \in Entities[kind] : CellsOf(kind, x) \cap HaloOf(pt, p) # {}}
           /\ Owned[pt][p].vertex = Owned[pt][p]["vertex"]
           /\ Local[pt][p].vertex = Local[pt][p]["vertex"]
           /\ Local[pt][p].edge = Local[pt][p]["edge"]
           /\ Local[pt][p].cell = Local[pt][p]["cell"]
<1>1. Owned[pt][p][kind] = {x \in Entities[kind] : Owner[pt][kind][x] = p}
  BY EntitiesAre DEF Owned
<1>2. Local[pt][p][kind] = {x \in Entities[kind] : CellsOf(kind, x) \cap HaloOf(pt, p) # {}}
  BY EntitiesAre DEF Local, HaloOf, CellsOfTask
<1> QED
  BY <1>1, <1>2

\* Cells around cells are cells, the same and others.
LEMMA AroundGrows ==
    ASSUME NEW S \in SUBSET Cells
    PROVE  Around(S) \in SUBSET Cells /\ S \subseteq Around(S)
<1>1. \A e \in Edges : CellsOf("edge", e) = Range(cellsOnEdge[e]) /\ cellsOnEdge[e] \in [1 .. 2 -> Cells]
  BY MeshAssumption DEF CellsOf
<1>2. \A c \in Cells : edgesOnCell[c] = {e \in Edges : c \in CellsOf("edge", e)} /\ edgesOnCell[c] # {}
  BY MeshAssumption DEF edgesOnCell
<1>3. \A e \in Edges : CellsOf("edge", e) \in SUBSET Cells
  BY <1>1 DEF Range
<1>4. Around(S) = UNION {CellsOf("edge", e) : e \in UNION {edgesOnCell[c] : c \in S}}
  BY DEF Around
<1>5. \A e \in UNION {edgesOnCell[c] : c \in S} : e \in Edges
  BY <1>2
<1>6. Around(S) \in SUBSET Cells
  BY <1>3, <1>4, <1>5
<1>7. ASSUME NEW c \in S PROVE c \in Around(S)
  <2>1. PICK e \in edgesOnCell[c] : c \in CellsOf("edge", e)
    BY <1>2
  <2> QED
    BY <1>4, <2>1
<1> QED
  BY <1>6, <1>7

\* The halo layers exist,
LEMMA LayersExist ==
    ASSUME NEW S \in SUBSET Cells
    PROVE  LET near[h \in 0 .. nHalos] == IF h = 0 THEN S ELSE Around(near[h - 1])
           IN  /\ near[0] = S /\ \A h \in 1 .. nHalos : near[h] = Around(near[h - 1])
               /\ \A h \in 0 .. nHalos : near[h] \in SUBSET Cells
<1> DEFINE Good(f, j) == f \in [0 .. j -> SUBSET Cells] /\ f[0] = S /\ \A n \in 1 .. j : f[n] = Around(f[n - 1])
           T == {j \in Nat : \E f : Good(f, j)}
           N == nHalos
           near[h \in 0 .. N] == IF h = 0 THEN S ELSE Around(near[h - 1])
<1>1. 0 \in T
  <2>1. Good([n \in 0 .. 0 |-> S], 0)
    OBVIOUS
  <2> QED
    BY <2>1
<1>2. ASSUME NEW j \in Nat, j \in T PROVE j + 1 \in T
  <2>1. PICK f : Good(f, j)
    BY <1>2
  <2> DEFINE g == [n \in 0 .. j + 1 |-> IF n <= j THEN f[n] ELSE Around(f[j])]
  <2>2. f[j] \in SUBSET Cells /\ Around(f[j]) \in SUBSET Cells
    BY <2>1, AroundGrows
  <2>3. g \in [0 .. j + 1 -> SUBSET Cells]
    BY <2>1, <2>2
  <2>4. g[0] = S
    BY <2>1
  <2>5. ASSUME NEW n \in 1 .. j + 1 PROVE g[n] = Around(g[n - 1])
    <3>1. CASE n = j + 1
      BY <3>1
    <3>2. CASE n <= j
      BY <2>1, <3>2
    <3> QED
      BY <3>1, <3>2
  <2> HIDE DEF g
  <2>6. Good(g, j + 1)
    BY <2>3, <2>4, <2>5
  <2> HIDE DEF Good
  <2> QED
    BY <2>6
<1> HIDE DEF T
<1>3. N \in Nat /\ N \in T
  BY <1>1, <1>2, SetInduction, SizesAssumption
<1>4. PICK f : Good(f, N)
  BY <1>3 DEF T
<1> HIDE DEF N
<1>5. f = [h \in 0 .. N |-> IF h = 0 THEN S ELSE Around(f[h - 1])]
  BY <1>4
<1>6. near = [h \in 0 .. N |-> IF h = 0 THEN S ELSE Around(near[h - 1])]
  BY <1>5
<1> HIDE DEF near
<1>7. near[0] = S /\ \A h \in 1 .. N : near[h] = Around(near[h - 1])
  <2>1. \A h \in 0 .. N : near[h] = IF h = 0 THEN S ELSE Around(near[h - 1])
    BY <1>6
  <2>2. 0 \in 0 .. N /\ \A h \in 1 .. N : h \in 0 .. N /\ h # 0
    BY <1>3
  <2> QED
    BY <2>1, <2>2
<1> DEFINE U == {h \in Nat : h <= N => near[h] \in SUBSET Cells}
<1>8. 0 \in U /\ \A h \in Nat : h \in U => h + 1 \in U
  <2>1. \A h \in Nat : h + 1 <= N => near[h + 1] = Around(near[h])
    BY <1>3, <1>7
  <2> QED
    BY <1>3, <1>7, <2>1, AroundGrows
<1> HIDE DEF U
<1>9. Nat \subseteq U
  BY <1>8, SetInduction
<1>10. \A h \in 0 .. N : near[h] \in SUBSET Cells
  BY <1>3, <1>9 DEF U
<1> QED
  BY <1>7, <1>10 DEF near, N

\* and they reach at least two cells far.
LEMMA ReachedTwice ==
    ASSUME NEW S \in SUBSET Cells
    PROVE  /\ S \subseteq Reached(S) /\ Around(S) \subseteq Reached(S)
           /\ Around(Around(S)) \subseteq Reached(S)
<1> DEFINE near[h \in 0 .. nHalos] == IF h = 0 THEN S ELSE Around(near[h - 1])
<1>1. /\ near[0] = S /\ \A h \in 1 .. nHalos : near[h] = Around(near[h - 1])
      /\ \A h \in 0 .. nHalos : near[h] \in SUBSET Cells
  BY LayersExist
<1>2. Reached(S) = near[nHalos]
  BY DEF Reached
<1>3. nHalos \in Nat /\ nHalos >= 2
  BY SizesAssumption, HalosAssumption
<1> HIDE DEF near
<1>4. near[1] = Around(S) /\ near[2] = Around(Around(S))
  <2>1. 1 \in 1 .. nHalos /\ 2 \in 1 .. nHalos /\ 2 - 1 = 1 /\ 1 - 1 = 0
    BY <1>3
  <2> QED
    BY <1>1, <2>1
<1> DEFINE U == {h \in Nat : 2 + h <= nHalos => near[2] \subseteq near[2 + h]}
<1>5. 0 \in U
  OBVIOUS
<1>6. ASSUME NEW h \in Nat, h \in U PROVE h + 1 \in U
  <2> SUFFICES ASSUME 2 + (h + 1) <= nHalos PROVE near[2] \subseteq near[2 + (h + 1)]
    OBVIOUS
  <2>1. 2 + (h + 1) \in 1 .. nHalos /\ (2 + (h + 1)) - 1 = 2 + h /\ 2 + h \in 0 .. nHalos
    BY <1>3
  <2>2. near[2 + (h + 1)] = Around(near[2 + h]) /\ near[2 + h] \in SUBSET Cells
    BY <1>1, <2>1
  <2>3. near[2] \subseteq near[2 + h]
    BY <1>3, <1>6, <2>1
  <2> QED
    BY <2>2, <2>3, AroundGrows
<1> HIDE DEF U
<1>7. nHalos - 2 \in U /\ 2 + (nHalos - 2) = nHalos
  BY <1>3, <1>5, <1>6, SetInduction
<1>8. near[2] \subseteq near[nHalos]
  BY <1>3, <1>7 DEF U
<1>9. S \subseteq Around(S) /\ Around(S) \subseteq Around(Around(S))
  BY AroundGrows
<1> QED
  BY <1>2, <1>4, <1>8, <1>9

\* The cells that decide about the owner of an entity.
FirstCell(kind, x) ==
    CASE kind = "cell" -> x [] kind = "edge" -> cellsOnEdge[x][1] [] kind = "vertex" -> cellsOnVertex[x][1]

\* The cells of an entity are cells of every triangle at it.
LEMMA CornersAre ==
    ASSUME NEW kind \in Kinds, NEW x \in Entities[kind]
    PROVE  /\ CellsOf(kind, x) \in SUBSET Cells /\ FirstCell(kind, x) \in CellsOf(kind, x)
           /\ \A pt \in Partitions : Owner[pt][kind][x] = pt[FirstCell(kind, x)]
           /\ Near(kind, x) = {t \in Vertices : CellsOf(kind, x) \subseteq CellsOf("vertex", t)} \/ kind = "vertex"
           /\ \A t \in Near(kind, x) : t \in Vertices /\ CellsOf(kind, x) \subseteq CellsOf("vertex", t)
<1>1. kind = "cell" \/ kind = "edge" \/ kind = "vertex"
  BY DEF Kinds
<1>2. CASE kind = "cell"
  <2>1. x \in Cells /\ CellsOf(kind, x) = {x} /\ FirstCell(kind, x) = x
    BY <1>2, EntitiesAre DEF CellsOf, FirstCell
  <2>2. Near(kind, x) = {t \in Vertices : x \in CellsOf("vertex", t)}
    BY <1>2, <2>1 DEF Near, AroundIt, verticesOnCell
  <2> QED
    BY <1>2, <2>1, <2>2, OwnersAre
<1>3. CASE kind = "edge"
  <2>1. /\ x \in Edges /\ CellsOf(kind, x) = Range(cellsOnEdge[x]) /\ FirstCell(kind, x) = cellsOnEdge[x][1]
        /\ cellsOnEdge[x] \in [1 .. 2 -> Cells]
    BY <1>3, EntitiesAre, MeshAssumption DEF CellsOf, FirstCell
  <2>2. Near(kind, x) = {t \in Vertices : CellsOf(kind, x) \subseteq CellsOf("vertex", t)}
    BY <1>3, <2>1 DEF Near, AroundIt, verticesOnEdge
  <2>3. Range(cellsOnEdge[x]) \in SUBSET Cells /\ cellsOnEdge[x][1] \in Range(cellsOnEdge[x])
    BY <2>1 DEF Range
  <2> QED
    BY <1>3, <2>1, <2>2, <2>3, OwnersAre
<1>4. CASE kind = "vertex"
  <2>1. /\ x \in Vertices /\ CellsOf(kind, x) = Range(cellsOnVertex[x])
        /\ FirstCell(kind, x) = cellsOnVertex[x][1] /\ cellsOnVertex[x] \in [1 .. 3 -> Cells]
    BY <1>4, EntitiesAre, MeshAssumption DEF CellsOf, FirstCell
  <2>2. Near(kind, x) = {x}
    BY <1>4 DEF Near
  <2>3. Range(cellsOnVertex[x]) \in SUBSET Cells /\ cellsOnVertex[x][1] \in Range(cellsOnVertex[x])
    BY <2>1 DEF Range
  <2> QED
    BY <1>4, <2>1, <2>2, <2>3, OwnersAre
<1> QED
  BY <1>1, <1>2, <1>3, <1>4

\* The cells of a triangle are around each other.
LEMMA AroundTriangle ==
    ASSUME NEW S \in SUBSET Cells, NEW t \in Vertices, CellsOf("vertex", t) \cap S # {}
    PROVE  CellsOf("vertex", t) \subseteq Around(S)
<1> SUFFICES ASSUME NEW d \in CellsOf("vertex", t) PROVE d \in Around(S)
  OBVIOUS
<1>1. PICK c \in S : c \in CellsOf("vertex", t)
  OBVIOUS
<1>2. CASE c = d
  BY <1>1, <1>2, AroundGrows
<1>3. CASE c # d
  <2>1. PICK e \in Edges : CellsOf("edge", e) = {c, d}
    BY <1>1, <1>3, MeshAssumption
  <2>2. e \in edgesOnCell[c]
    BY <1>1, <2>1 DEF edgesOnCell
  <2> QED
    BY <1>1, <2>1, <2>2 DEF Around
<1> QED
  BY <1>2, <1>3

\* So are those of an edge.
LEMMA AroundEdge ==
    ASSUME NEW S \in SUBSET Cells, NEW c \in S, NEW e \in edgesOnCell[c]
    PROVE  CellsOf("edge", e) \subseteq Around(S)
BY DEF Around

\* A block has what its task owns, and with an entity the triangles at it.
LEMMA BlockHasTriangles ==
    ASSUME NEW pt \in Partitions, NEW p \in Procs, NEW kind \in Kinds
    PROVE  /\ Owned[pt][p][kind] \subseteq Local[pt][p][kind]
           /\ \A x \in Local[pt][p][kind] : x \in Entities[kind] /\ Near(kind, x) \subseteq Local[pt][p]["vertex"]
           /\ Owned[pt][p][kind] \in SUBSET Int /\ IsFiniteSet(Owned[pt][p][kind])
           /\ Local[pt][p][kind] \in SUBSET Int /\ IsFiniteSet(Local[pt][p][kind])
<1>1. /\ Owned[pt][p][kind] = {x \in Entities[kind] : Owner[pt][kind][x] = p}
      /\ Local[pt][p][kind] = {x \in Entities[kind] : CellsOf(kind, x) \cap HaloOf(pt, p) # {}}
      /\ Local[pt][p]["vertex"] = {t \in Vertices : CellsOf("vertex", t) \cap HaloOf(pt, p) # {}}
  BY BlocksAre, EntitiesAre DEF Kinds
<1>2. CellsOfTask(pt, p) \subseteq HaloOf(pt, p)
  BY ReachedTwice DEF HaloOf, CellsOfTask
<1>3. ASSUME NEW x \in Owned[pt][p][kind] PROVE x \in Local[pt][p][kind]
  <2>1. x \in Entities[kind] /\ Owner[pt][kind][x] = p
    BY <1>1
  <2>2. FirstCell(kind, x) \in CellsOf(kind, x) /\ FirstCell(kind, x) \in CellsOfTask(pt, p)
    BY <2>1, CornersAre DEF CellsOfTask
  <2> QED
    BY <1>1, <1>2, <2>1, <2>2
<1>4. ASSUME NEW x \in Local[pt][p][kind]
      PROVE  x \in Entities[kind] /\ Near(kind, x) \subseteq Local[pt][p]["vertex"]
  BY <1>1, CornersAre
<1>5. Entities[kind] \in SUBSET Int /\ IsFiniteSet(Entities[kind])
  BY EntitiesAre
<1>6. /\ Owned[pt][p][kind] \in SUBSET Entities[kind]
      /\ Local[pt][p][kind] \in SUBSET Entities[kind]
  BY <1>1
<1>7. IsFiniteSet(Owned[pt][p][kind]) /\ IsFiniteSet(Local[pt][p][kind])
  BY <1>5, <1>6, FS_Subset
<1> QED
  BY <1>3, <1>4, <1>5, <1>6, <1>7

\* A task has in its block all that lies at a triangle of its own; the cells of the triangles
\* on the other side of an edge, and those beyond a cell.
LEMMA BlockReachesFar ==
    ASSUME NEW pt \in Partitions, NEW p \in Procs, NEW t \in Owned[pt][p]["vertex"]
    PROVE  /\ \A kind \in Kinds : \A x \in Entities[kind] : t \in Near(kind, x) => x \in Local[pt][p][kind]
           /\ \A e \in Edges : \A u \in Near("edge", e) :
                 t \in Near("edge", e) => CellsOf("vertex", u) \subseteq Local[pt][p]["cell"]
           /\ \A c \in CellsOf("vertex", t) : \A e \in edgesOnCell[c] :
                 CellsOf("edge", e) \subseteq Local[pt][p]["cell"]
<1> DEFINE S == CellsOfTask(pt, p)
<1>0. S \in SUBSET Cells
  BY DEF CellsOfTask
<1>1. /\ S \subseteq HaloOf(pt, p) /\ Around(S) \subseteq HaloOf(pt, p)
      /\ Around(Around(S)) \subseteq HaloOf(pt, p) /\ Around(S) \in SUBSET Cells
      /\ Around(Around(S)) \in SUBSET Cells
  BY <1>0, ReachedTwice, AroundGrows DEF HaloOf
<1>2. t \in Vertices /\ Owner[pt]["vertex"][t] = p
  BY BlocksAre, EntitiesAre DEF Kinds
<1>3. CellsOf("vertex", t) \cap S # {}
  BY <1>2, CornersAre, EntitiesAre DEF CellsOfTask, Kinds
<1>4. CellsOf("vertex", t) \subseteq Around(S)
  BY <1>0, <1>2, <1>3, AroundTriangle
<1>5. ASSUME NEW kind \in Kinds, NEW x \in Entities[kind], t \in Near(kind, x)
      PROVE  x \in Local[pt][p][kind]
  <2>1. CellsOf(kind, x) \subseteq CellsOf("vertex", t) /\ CellsOf(kind, x) # {}
    BY <1>5, CornersAre
  <2> QED
    BY <1>1, <1>4, <2>1, BlocksAre
<1>6. Local[pt][p]["cell"] = {c \in Cells : c \in HaloOf(pt, p)}
  <2>1. Local[pt][p]["cell"] = {c \in Cells : CellsOf("cell", c) \cap HaloOf(pt, p) # {}}
    BY BlocksAre, EntitiesAre DEF Kinds
  <2> QED
    BY <2>1 DEF CellsOf
<1>7. ASSUME NEW e \in Edges, NEW u \in Near("edge", e), t \in Near("edge", e)
      PROVE  CellsOf("vertex", u) \subseteq Local[pt][p]["cell"]
  <2>1. /\ CellsOf("edge", e) \subseteq CellsOf("vertex", t) /\ CellsOf("edge", e) # {}
        /\ u \in Vertices /\ CellsOf("edge", e) \subseteq CellsOf("vertex", u)
    BY <1>7, CornersAre, EntitiesAre DEF Kinds
  <2>2. CellsOf("vertex", u) \cap Around(S) # {}
    BY <1>4, <2>1
  <2>3. CellsOf("vertex", u) \subseteq Around(Around(S))
    BY <1>1, <2>1, <2>2, AroundTriangle
  <2> QED
    BY <1>1, <1>6, <2>3
<1>8. ASSUME NEW c \in CellsOf("vertex", t), NEW e \in edgesOnCell[c]
      PROVE  CellsOf("edge", e) \subseteq Local[pt][p]["cell"]
  <2>1. CellsOf("edge", e) \subseteq Around(Around(S))
    BY <1>1, <1>4, AroundEdge
  <2> QED
    BY <1>1, <1>6, <2>1
<1> QED
  BY <1>5, <1>7, <1>8

-----------------------------------------------------------------------------
(* The numbers of the mesh *)

\* The sums over the tasks before one are what they are defined to be.
LEMMA SumBelowIs ==
    ASSUME NEW a \in [Procs -> Nat]
    PROVE  /\ SumBelow(a, 0) = 0 /\ \A p \in 0 .. nprocs : SumBelow(a, p) \in Nat
           /\ \A p \in Procs : SumBelow(a, p + 1) = SumBelow(a, p) + a[p]
<1> DEFINE Good(f, j) == f \in [0 .. j -> Nat] /\ f[0] = 0 /\ \A n \in 1 .. j : f[n] = f[n - 1] + a[n - 1]
           T == {j \in Nat : j <= nprocs => \E f : Good(f, j)}
<1>0. nprocs \in Nat \ {0} /\ Procs = 0 .. nprocs - 1
  BY SizesAssumption DEF Procs
<1>1. 0 \in T
  <2>1. Good([n \in 0 .. 0 |-> 0], 0)
    OBVIOUS
  <2> QED
    BY <2>1
<1> HIDE DEF Good
<1>2. ASSUME NEW j \in Nat, j \in T PROVE j + 1 \in T
  <2> SUFFICES ASSUME j + 1 <= nprocs PROVE \E f : Good(f, j + 1)
    BY DEF T
  <2>1. PICK f : Good(f, j)
    BY <1>0, <1>2
  <2> USE DEF Good
  <2> DEFINE g == [n \in 0 .. j + 1 |-> IF n <= j THEN f[n] ELSE f[j] + a[j]]
  <2>2. a[j] \in Nat /\ f[j] \in Nat
    BY <1>0, <2>1
  <2>3. g \in [0 .. j + 1 -> Nat]
    BY <2>1, <2>2
  <2>4. g[0] = 0
    BY <2>1
  <2>5. ASSUME NEW n \in 1 .. j + 1 PROVE g[n] = g[n - 1] + a[n - 1]
    <3>1. CASE n = j + 1
      BY <3>1
    <3>2. CASE n <= j
      BY <2>1, <3>2
    <3> QED
      BY <3>1, <3>2
  <2> HIDE DEF g
  <2>6. Good(g, j + 1)
    BY <2>3, <2>4, <2>5
  <2> HIDE DEF Good
  <2> QED
    BY <2>6
<1> HIDE DEF T
<1>3. Nat \subseteq T
  BY <1>1, <1>2, SetInduction
<1>4. nprocs \in T /\ nprocs <= nprocs
  BY <1>0, <1>3
<1>5. PICK f : Good(f, nprocs)
  BY <1>4 DEF T
<1> USE DEF Good
<1>6. ASSUME NEW p \in 0 .. nprocs PROVE SumBelow(a, p) = f[p]
  <2> DEFINE sum[q \in 0 .. p] == IF q = 0 THEN 0 ELSE sum[q - 1] + a[q - 1]
             g == [q \in 0 .. p |-> f[q]]
  <2>1. g = [q \in 0 .. p |-> IF q = 0 THEN 0 ELSE g[q - 1] + a[q - 1]]
    BY <1>0, <1>5
  <2>2. sum = [q \in 0 .. p |-> IF q = 0 THEN 0 ELSE sum[q - 1] + a[q - 1]]
    BY <2>1
  <2> HIDE DEF sum
  <2>3. \A q \in 0 .. p : sum[q] = IF q = 0 THEN 0 ELSE sum[q - 1] + a[q - 1]
    BY <2>2
  <2> DEFINE U == {q \in Nat : q <= p => sum[q] = f[q]}
  <2>4. 0 \in U
    BY <1>5, <2>3
  <2>5. ASSUME NEW q \in Nat, q \in U PROVE q + 1 \in U
    <3> SUFFICES ASSUME q + 1 <= p PROVE sum[q + 1] = f[q + 1]
      OBVIOUS
    <3>1. q + 1 \in 0 .. p /\ q + 1 # 0 /\ (q + 1) - 1 = q /\ q + 1 \in 1 .. nprocs /\ q <= p
      BY <1>0
    <3>2. sum[q + 1] = sum[q] + a[q]
      BY <2>3, <3>1
    <3>3. f[q + 1] = f[q] + a[q]
      BY <1>5, <3>1
    <3> QED
      BY <2>5, <3>1, <3>2, <3>3
  <2> HIDE DEF U
  <2>8. Nat \subseteq U
    BY <2>4, <2>5, SetInduction
  <2>6. p \in U /\ p <= p
    BY <1>0, <2>8
  <2>7. sum[p] = f[p]
    BY <1>0, <2>6 DEF U
  <2> QED
    BY <2>7 DEF sum, SumBelow
<1>7. \A p \in Procs : p \in 0 .. nprocs /\ p + 1 \in 0 .. nprocs /\ p + 1 \in 1 .. nprocs /\ (p + 1) - 1 = p
  BY <1>0
<1>8. \A p \in Procs : f[p + 1] = f[p] + a[p]
  BY <1>5, <1>7
<1>9. f[0] = 0 /\ 0 \in 0 .. nprocs /\ \A p \in 0 .. nprocs : f[p] \in Nat
  BY <1>0, <1>5
<1> QED
  BY <1>6, <1>7, <1>8, <1>9

\* They grow, and reach every number below the last.
LEMMA SumBelowReaches ==
    ASSUME NEW a \in [Procs -> Nat]
    PROVE  /\ \A p, q \in 0 .. nprocs : p <= q => SumBelow(a, p) <= SumBelow(a, q)
           /\ \A n \in 0 .. SumBelow(a, nprocs) - 1 :
                 \E p \in Procs : SumBelow(a, p) <= n /\ n < SumBelow(a, p) + a[p]
<1> DEFINE s(p) == SumBelow(a, p)
<1>0. nprocs \in Nat \ {0} /\ Procs = 0 .. nprocs - 1
  BY SizesAssumption DEF Procs
<1>1. /\ s(0) = 0 /\ \A p \in 0 .. nprocs : s(p) \in Nat
      /\ \A p \in Procs : s(p + 1) = s(p) + a[p] /\ a[p] \in Nat
  BY SumBelowIs
<1> HIDE DEF s
<1>2. ASSUME NEW p \in 0 .. nprocs, NEW q \in 0 .. nprocs, p <= q PROVE s(p) <= s(q)
  <2> DEFINE U == {d \in Nat : p + d <= nprocs => s(p) <= s(p + d)}
  <2>1. 0 \in U
    BY <1>0, <1>1
  <2>2. ASSUME NEW d \in Nat, d \in U PROVE d + 1 \in U
    <3> SUFFICES ASSUME p + (d + 1) <= nprocs PROVE s(p) <= s(p + (d + 1))
      OBVIOUS
    <3>1. p + d \in Procs /\ p + d \in 0 .. nprocs /\ (p + d) + 1 = p + (d + 1) /\ p + d <= nprocs
      BY <1>0
    <3>2. s(p + (d + 1)) = s(p + d) + a[p + d] /\ a[p + d] \in Nat /\ s(p + d) \in Nat /\ s(p) \in Nat
      BY <1>1, <3>1
    <3> QED
      BY <2>2, <3>1, <3>2
  <2> HIDE DEF U
  <2>4. \A d \in Nat : d \in U
    BY <2>1, <2>2, SetInduction
  <2>3. q - p \in U /\ p + (q - p) = q
    BY <1>0, <1>2, <2>4
  <2> QED
    BY <1>0, <2>3 DEF U
<1>3. ASSUME NEW n \in 0 .. s(nprocs) - 1, \A p \in Procs : ~(s(p) <= n /\ n < s(p) + a[p])
      PROVE  FALSE
  <2> DEFINE U == {p \in Nat : p <= nprocs => s(p) <= n}
  <2>1. 0 \in U
    BY <1>1
  <2>2. ASSUME NEW p \in Nat, p \in U PROVE p + 1 \in U
    <3> SUFFICES ASSUME p + 1 <= nprocs PROVE s(p + 1) <= n
      OBVIOUS
    <3>1. p \in Procs /\ p \in 0 .. nprocs /\ p <= nprocs
      BY <1>0
    <3>2. s(p) <= n /\ s(p + 1) = s(p) + a[p] /\ s(p) \in Nat /\ a[p] \in Nat
      BY <1>1, <2>2, <3>1
    <3> QED
      BY <1>3, <3>1, <3>2
  <2> HIDE DEF U
  <2>3. nprocs \in U
    BY <1>0, <2>1, <2>2, SetInduction
  <2>4. s(nprocs) <= n /\ s(nprocs) \in Nat
    BY <1>0, <1>1, <2>3 DEF U
  <2> QED
    BY <2>4
<1> QED
  BY <1>2, <1>3 DEF s

\* The triangles with dynamic ice of task p under the partition pt, D being those of the whole
\* mesh; task 0 has one at least if it owns any.
TrianglesOf(pt, D, p) ==
    LET own == Owned[pt][p]["vertex"]
        dynamic == {t \in own : t \in D}
    IN  IF p = 0 /\ dynamic = {} THEN {t \in own : \A u \in own : t <= u} ELSE dynamic

\* The triangles of the solver's mesh, what belongs to it, and what of that a task numbers.
MeshOf(pt, D) == UNION {TrianglesOf(pt, D, p) : p \in Procs}
InIt(pt, D, kind, x) == Near(kind, x) \cap MeshOf(pt, D) # {}
Members(pt, D, p, kind) == {x \in Owned[pt][p][kind] : InIt(pt, D, kind, x)}
Amounts(pt, D, kind) == [p \in Procs |-> Cardinality(Members(pt, D, p, kind))]

\* The number of an entity.
NumberOf(pt, D, kind, x) ==
    IF InIt(pt, D, kind, x)
    THEN LET p == Owner[pt][kind][x]
         IN  SumBelow(Amounts(pt, D, kind), p) + Rank(Members(pt, D, p, kind), x) - 1
    ELSE NotAnId

\* A task's triangles are its own ones in the mesh.
LEMMA TrianglesAre ==
    ASSUME NEW pt \in Partitions, NEW D, NEW p \in Procs
    PROVE  /\ TrianglesOf(pt, D, p) \in SUBSET Owned[pt][p]["vertex"]
           /\ Members(pt, D, p, "vertex") = TrianglesOf(pt, D, p)
           /\ \A t \in Owned[pt][p]["vertex"] : t \in MeshOf(pt, D) <=> t \in TrianglesOf(pt, D, p)
           /\ \A t \in TrianglesOf(pt, D, p) : t \in Vertices /\ Owner[pt]["vertex"][t] = p
           /\ \A t \in TrianglesOf(pt, D, p) : t \in D \/ p = 0
           /\ \A t \in Owned[pt][p]["vertex"] : t \in D => t \in TrianglesOf(pt, D, p)
<1>1. \A q \in Procs : TrianglesOf(pt, D, q) \in SUBSET Owned[pt][q]["vertex"]
  BY DEF TrianglesOf
<1>2. \A q \in Procs : Owned[pt][q]["vertex"] = {t \in Vertices : Owner[pt]["vertex"][t] = q}
  BY BlocksAre, EntitiesAre DEF Kinds
<1>3. \A t \in Owned[pt][p]["vertex"] : t \in MeshOf(pt, D) <=> t \in TrianglesOf(pt, D, p)
  BY <1>1, <1>2 DEF MeshOf
<1>4. Members(pt, D, p, "vertex") = {t \in Owned[pt][p]["vertex"] : t \in MeshOf(pt, D)}
  BY DEF Members, InIt, Near
<1>5. Members(pt, D, p, "vertex") = TrianglesOf(pt, D, p)
  BY <1>1, <1>3, <1>4
<1>6. \A t \in TrianglesOf(pt, D, p) : t \in D \/ p = 0
  BY DEF TrianglesOf
<1>7. \A t \in Owned[pt][p]["vertex"] : t \in D => t \in TrianglesOf(pt, D, p)
  BY DEF TrianglesOf
<1> QED
  BY <1>1, <1>2, <1>3, <1>5, <1>6, <1>7

\* The mesh is made of vertices; those with dynamic ice are in it, others belong to task 0.
LEMMA MeshIs ==
    ASSUME NEW pt \in Partitions, NEW D
    PROVE  /\ MeshOf(pt, D) \in SUBSET Vertices
           /\ \A t \in Vertices : t \in D => t \in MeshOf(pt, D)
           /\ \A t \in MeshOf(pt, D) : t \in TrianglesOf(pt, D, Owner[pt]["vertex"][t]) /\ Owner[pt]["vertex"][t] \in Procs
           /\ \A t \in MeshOf(pt, D) : t \notin D => t \in TrianglesOf(pt, D, 0)
<1>1. ASSUME NEW t \in MeshOf(pt, D)
      PROVE  /\ t \in Vertices /\ Owner[pt]["vertex"][t] \in Procs
             /\ t \in TrianglesOf(pt, D, Owner[pt]["vertex"][t])
             /\ t \notin D => t \in TrianglesOf(pt, D, 0)
  <2>1. PICK p \in Procs : t \in TrianglesOf(pt, D, p)
    BY DEF MeshOf
  <2> QED
    BY <2>1, TrianglesAre
<1>2. ASSUME NEW t \in Vertices, t \in D PROVE t \in MeshOf(pt, D)
  <2>1. PICK p \in Procs : p = Owner[pt]["vertex"][t]
    BY OwnersAre, EntitiesAre DEF Kinds
  <2>2. t \in Owned[pt][p]["vertex"]
    BY <2>1, BlocksAre, EntitiesAre DEF Kinds
  <2> QED
    BY <1>2, <2>2, TrianglesAre
<1> QED
  BY <1>1, <1>2

\* What tasks number of a kind is finite.
LEMMA MembersAre ==
    ASSUME NEW pt \in Partitions, NEW D, NEW kind \in Kinds
    PROVE  /\ Amounts(pt, D, kind) \in [Procs -> Nat]
           /\ \A p \in Procs : /\ Members(pt, D, p, kind) \in SUBSET Int /\ IsFiniteSet(Members(pt, D, p, kind))
                               /\ Amounts(pt, D, kind)[p] = Cardinality(Members(pt, D, p, kind))
<1>1. ASSUME NEW p \in Procs
      PROVE  /\ Members(pt, D, p, kind) \in SUBSET Int /\ IsFiniteSet(Members(pt, D, p, kind))
             /\ Cardinality(Members(pt, D, p, kind)) \in Nat
  <2>1. Members(pt, D, p, kind) \in SUBSET Owned[pt][p][kind]
    BY DEF Members
  <2>2. Owned[pt][p][kind] \in SUBSET Int /\ IsFiniteSet(Owned[pt][p][kind])
    BY BlockHasTriangles
  <2>3. IsFiniteSet(Members(pt, D, p, kind))
    BY <2>1, <2>2, FS_Subset
  <2> QED
    BY <2>1, <2>2, <2>3, FS_CardinalityType
<1> QED
  BY <1>1 DEF Amounts

\* The numbers of a task's members follow those of the tasks before it.
LEMMA NumbersOfTask ==
    ASSUME NEW pt \in Partitions, NEW D, NEW kind \in Kinds, NEW x \in Entities[kind],
           NEW p \in Procs, Owner[pt][kind][x] = p, InIt(pt, D, kind, x)
    PROVE  /\ x \in Members(pt, D, p, kind)
           /\ NumberOf(pt, D, kind, x) = SumBelow(Amounts(pt, D, kind), p) + Rank(Members(pt, D, p, kind), x) - 1
           /\ Rank(Members(pt, D, p, kind), x) \in 1 .. Amounts(pt, D, kind)[p]
           /\ NumberOf(pt, D, kind, x) \in Nat
           /\ SumBelow(Amounts(pt, D, kind), p) <= NumberOf(pt, D, kind, x)
           /\ NumberOf(pt, D, kind, x) < SumBelow(Amounts(pt, D, kind), p + 1)
           /\ NumberOf(pt, D, kind, x) < SumBelow(Amounts(pt, D, kind), nprocs)
<1> DEFINE S == Members(pt, D, p, kind)
           s(q) == SumBelow(Amounts(pt, D, kind), q)
<1>1. x \in S
  BY BlocksAre DEF Members
<1>2. NumberOf(pt, D, kind, x) = s(p) + Rank(S, x) - 1
  BY DEF NumberOf
<1>3. Amounts(pt, D, kind) \in [Procs -> Nat] /\ S \in SUBSET Int /\ IsFiniteSet(S)
      /\ Amounts(pt, D, kind)[p] = Cardinality(S) /\ Cardinality(S) \in Nat
  BY MembersAre
<1>4. Rank(S, x) \in 1 .. Cardinality(S)
  BY <1>1, <1>3, RanksDiffer
<1>5. nprocs \in Nat /\ p \in 0 .. nprocs /\ p + 1 \in 0 .. nprocs /\ nprocs \in 0 .. nprocs /\ p + 1 <= nprocs
  BY SizesAssumption DEF Procs
<1>6. s(p) \in Nat /\ s(p + 1) = s(p) + Cardinality(S) /\ s(p + 1) <= s(nprocs) /\ s(nprocs) \in Nat
  BY <1>3, <1>5, SumBelowIs, SumBelowReaches
<1> HIDE DEF S, s
<1>7. Rank(S, x) \in Int /\ 1 <= Rank(S, x) /\ Rank(S, x) <= Cardinality(S)
  BY <1>3, <1>4
<1> QED
  BY <1>1, <1>2, <1>3, <1>4, <1>6, <1>7 DEF S, s

\* The entities of a kind in the mesh are numbered from 0 without a gap, no two alike
\* (computeLocalOffset and the order of each block).
LEMMA NumbersAre ==
    ASSUME NEW pt \in Partitions, NEW D, NEW kind \in Kinds
    PROVE  LET mesh == {x \in Entities[kind] : InIt(pt, D, kind, x)}
           IN  /\ {NumberOf(pt, D, kind, x) : x \in mesh} = 0 .. Cardinality(mesh) - 1
               /\ \A x \in mesh : NumberOf(pt, D, kind, x) \in Nat
               /\ \A x, y \in mesh : NumberOf(pt, D, kind, x) = NumberOf(pt, D, kind, y) => x = y
<1> DEFINE mesh == {x \in Entities[kind] : InIt(pt, D, kind, x)}
           S(p) == Members(pt, D, p, kind)
           a == Amounts(pt, D, kind)
           s(p) == SumBelow(a, p)
           n(x) == NumberOf(pt, D, kind, x)
<1>1. \A x \in mesh : x \in Entities[kind] /\ InIt(pt, D, kind, x) /\ Owner[pt][kind][x] \in Procs
  BY OwnersAre
<1>2. ASSUME NEW x \in mesh, NEW p \in Procs, Owner[pt][kind][x] = p
      PROVE  /\ x \in S(p) /\ n(x) = s(p) + Rank(S(p), x) - 1 /\ Rank(S(p), x) \in 1 .. a[p]
             /\ n(x) \in Nat /\ s(p) <= n(x) /\ n(x) < s(p + 1) /\ n(x) < s(nprocs)
  BY <1>1, <1>2, NumbersOfTask
<1>3. \A p \in Procs : S(p) \in SUBSET Int /\ IsFiniteSet(S(p)) /\ a[p] = Cardinality(S(p)) /\ a[p] \in Nat
  BY MembersAre
<1>4. nprocs \in Nat /\ \A p \in Procs : p \in 0 .. nprocs /\ p + 1 \in 0 .. nprocs
  BY SizesAssumption DEF Procs
<1>5. /\ \A p \in 0 .. nprocs : s(p) \in Nat
      /\ \A p \in Procs : s(p + 1) = s(p) + a[p]
      /\ \A p, q \in 0 .. nprocs : p <= q => s(p) <= s(q)
      /\ \A k \in 0 .. s(nprocs) - 1 : \E p \in Procs : s(p) <= k /\ k < s(p) + a[p]
  BY MembersAre, SumBelowIs, SumBelowReaches
<1>6. \A p \in Procs : \A x \in S(p) : x \in mesh /\ Owner[pt][kind][x] = p
  BY BlocksAre DEF Members
<1>7. IsFiniteSet(mesh)
  BY EntitiesAre, FS_Subset
<1> HIDE DEF mesh, S, a, s, n
<1>8. ASSUME NEW x \in mesh, NEW y \in mesh, n(x) = n(y) PROVE x = y
  <2>1. PICK p \in Procs, q \in Procs : p = Owner[pt][kind][x] /\ q = Owner[pt][kind][y]
    BY <1>1
  <2>2. /\ x \in S(p) /\ n(x) = s(p) + Rank(S(p), x) - 1 /\ Rank(S(p), x) \in 1 .. a[p]
        /\ n(x) \in Nat /\ s(p) <= n(x) /\ n(x) < s(p + 1)
    BY <1>2, <2>1
  <2>3. /\ y \in S(q) /\ n(y) = s(q) + Rank(S(q), y) - 1 /\ Rank(S(q), y) \in 1 .. a[q]
        /\ n(y) \in Nat /\ s(q) <= n(y) /\ n(y) < s(q + 1)
    BY <1>2, <2>1
  <2>4. s(p) \in Nat /\ s(q) \in Nat /\ s(p + 1) \in Nat /\ s(q + 1) \in Nat /\ a[p] \in Nat /\ a[q] \in Nat
    BY <1>3, <1>4, <1>5
  <2>5. p \in Int /\ q \in Int
    BY DEF Procs
  <2>6. CASE p < q
    <3>1. s(p + 1) <= s(q)
      BY <1>4, <1>5, <2>5, <2>6
    <3> QED
      BY <1>8, <2>2, <2>3, <2>4, <3>1
  <2>7. CASE q < p
    <3>1. s(q + 1) <= s(p)
      BY <1>4, <1>5, <2>5, <2>7
    <3> QED
      BY <1>8, <2>2, <2>3, <2>4, <3>1
  <2>8. CASE p = q
    <3>2. y \in S(p) /\ n(y) = s(p) + Rank(S(p), y) - 1 /\ Rank(S(p), y) \in Int
      BY <2>3, <2>8
    <3>3. n(x) = s(p) + Rank(S(p), x) - 1 /\ Rank(S(p), x) \in Int /\ s(p) \in Int
      BY <2>2, <2>4
    <3>4. PICK i, j, k \in Int : i = Rank(S(p), x) /\ j = Rank(S(p), y) /\ k = s(p)
      BY <3>2, <3>3
    <3>5. k + i - 1 = k + j - 1
      BY <1>8, <3>2, <3>3, <3>4
    <3>1. Rank(S(p), x) = Rank(S(p), y) /\ x \in S(p) /\ y \in S(p)
      BY <2>2, <3>2, <3>4, <3>5
    <3> QED
      BY <1>3, <3>1, RanksDiffer
  <2> QED
    BY <2>5, <2>6, <2>7, <2>8
<1>9. ASSUME NEW k \in 0 .. s(nprocs) - 1 PROVE \E x \in mesh : n(x) = k
  <2>1. PICK p \in Procs : s(p) <= k /\ k < s(p) + a[p]
    BY <1>5
  <2>2. s(p) \in Nat /\ a[p] \in Nat /\ k - s(p) + 1 \in 1 .. Cardinality(S(p)) /\ k \in Int
    BY <1>3, <1>4, <1>5, <2>1
  <2>3. PICK x \in S(p) : Rank(S(p), x) = k - s(p) + 1
    BY <1>3, <2>2, RanksFill
  <2>4. x \in mesh /\ n(x) = s(p) + Rank(S(p), x) - 1
    BY <1>2, <1>6
  <2> QED
    BY <2>2, <2>3, <2>4
<1>10. \A x \in mesh : n(x) \in 0 .. s(nprocs) - 1 /\ n(x) \in Nat
  BY <1>1, <1>2, <1>4, <1>5
<1> DEFINE N == s(nprocs)
           f == [x \in mesh |-> n(x)]
<1>11. f \in Bijection(mesh, 0 .. N - 1)
  <2>1. f \in [mesh -> 0 .. N - 1]
    BY <1>10
  <2>2. \A x, y \in mesh : f[x] = f[y] => x = y
    BY <1>8
  <2>3. \A k \in 0 .. N - 1 : \E x \in mesh : f[x] = k
    BY <1>9
  <2> HIDE DEF f, N
  <2> QED
    BY <2>1, <2>2, <2>3, Zenon DEF Bijection, Injection, Surjection, IsInjective
<1>12. Cardinality(0 .. N - 1) = Cardinality(mesh)
  BY <1>7, <1>11, FS_Bijection DEF ExistsBijection
<1>13. N \in Nat /\ Cardinality(0 .. N - 1) = N
  <2>1. N \in Nat /\ 0 \in Int /\ N - 1 \in Int
    BY <1>4, <1>5
  <2>2. Cardinality(0 .. N - 1) = IF 0 > N - 1 THEN 0 ELSE (N - 1) - 0 + 1
    BY <2>1, FS_Interval
  <2> QED
    BY <2>1, <2>2
<1>14. {n(x) : x \in mesh} = 0 .. Cardinality(mesh) - 1
  BY <1>9, <1>10, <1>12, <1>13
<1> QED
  BY <1>8, <1>10, <1>14 DEF n, mesh

-----------------------------------------------------------------------------
(* What every task knows of its own part of the mesh *)

\* The vertices with dynamic ice, when the ice is ic.
DynamicOf(ic) == {t \in Vertices : CellsOf("vertex", t) \cap ic.dynamic # {}}

\* What of a kind is at the triangles of task p.
PartOf(pt, D, p, kind) == {x \in Entities[kind] : Near(kind, x) \cap TrianglesOf(pt, D, p) # {}}

\* What a task knows of the side t of the edge e.
SideOf(pt, D, p, t, e) ==
    [tria |-> Rank(TrianglesOf(pt, D, p), t), position |-> Position(VerticesOnTria(t), e)]

\* Where the values of a cell come from if all its neighbours may be asked.
BoundaryOf(ic, c) == c \in Rim \/ \E t \in verticesOnCell[c] : t \notin DynamicOf(ic)
SourceOf(ic, candidates, c) ==
    LET neighbours == {Across(e, c) : e \in edgesOnCell[c]} \cap ic.dynamic \cap candidates
        isFloating == edgesOnCell[c] \cap ic.floating # {}
    IN  IF ~BoundaryOf(ic, c) \/ c \in ic.dynamic THEN c
        ELSE IF isFloating /\ neighbours # {}
             THEN CHOOSE d \in neighbours : \A n \in neighbours : Elevation[d] <= Elevation[n]
        ELSE IF c \in BelowSea THEN ThinIce ELSE c

\* The grid g of task p when it comes to phase n.
GridParts == {"triangles", "edges", "cells", "cellsBack", "edgesBack", "verticesOnTria", "trianglesOnEdge", "source"}
GridKnown(pt, ic, p, n, g) ==
    LET tri == TrianglesOf(pt, DynamicOf(ic), p)
        edges == PartOf(pt, DynamicOf(ic), p, "edge")
        cells == PartOf(pt, DynamicOf(ic), p, "cell")
    IN  /\ DOMAIN g = GridParts
        /\ n > 1 => g.triangles = tri
        /\ n > 3 => g.edges = edges
        /\ n > 5 => g.cells = cells
        /\ n > 7 => /\ g.verticesOnTria = [t \in tri |-> VerticesOnTria(t)]
                    /\ DOMAIN g.trianglesOnEdge = edges
                    /\ \A e \in edges : \A t \in verticesOnEdge[e] \cap tri :
                          /\ t \in DOMAIN g.trianglesOnEdge[e]
                          /\ g.trianglesOnEdge[e][t] = SideOf(pt, DynamicOf(ic), p, t, e)
        /\ n = 8 => \A e \in edges : DOMAIN g.trianglesOnEdge[e] = verticesOnEdge[e] \cap tri
        /\ n > 9 => g.source = [c \in cells |-> SourceOf(ic, Cells, c)]

\* The arrays, each with the entities of the block it is about.
ArrayNames == {"triangleIDs", "edgeIDs", "cellIDs", "ghosts", "heat", "velocity", "normal"}
KindOf(array) ==
    CASE array \in {"triangleIDs", "ghosts", "heat"} -> "vertex"
      [] array \in {"edgeIDs", "normal"} -> "edge"
      [] array \in {"cellIDs", "velocity"} -> "cell"
ArraysTyped(pt, f) ==
    /\ DOMAIN f = Procs
    /\ \A p \in Procs : /\ DOMAIN f[p] = ArrayNames
                        /\ \A a \in ArrayNames : DOMAIN f[p][a] = Local[pt][p][KindOf(a)]

\* The part of the inductive invariant that tells nothing about messages.
Parts ==
    /\ partition \in Partitions /\ ice \in IceSheets /\ exited \in BOOLEAN
    /\ phase \in [Procs -> 1 .. 15]
    /\ ArraysTyped(partition, field)
    /\ DOMAIN grid = Procs
    /\ \A p \in Procs : GridKnown(partition, ice, p, phase[p], grid[p])

\* The phases have different names.
LEMMA PhaseNames ==
    /\ DOMAIN Phases = 1 .. 14 /\ Len(Phases) = 14
    /\ \A i, j \in 1 .. 14 : Phases[i] = Phases[j] => i = j
    /\ Phases[1] = "triangles" /\ Phases[2] = "triangleIDs" /\ Phases[3] = "edges" /\ Phases[4] = "edgeIDs"
    /\ Phases[5] = "cells" /\ Phases[6] = "cellIDs" /\ Phases[7] = "ghosts" /\ Phases[8] = "neighbours"
    /\ Phases[9] = "heat" /\ Phases[10] = "cellsBack" /\ Phases[11] = "velocity" /\ Phases[12] = "edgesBack"
    /\ Phases[13] = "normal" /\ Phases[14] = "mask"
BY DEF Phases

\* A task at a phase goes on to the next one.
LEMMA AtPhase ==
    ASSUME NEW p \in Procs, phase \in [Procs -> 1 .. 15], NEW k \in 1 .. 14, At(p, Phases[k])
    PROVE  /\ phase[p] = k /\ phase' = [phase EXCEPT ![p] = k + 1]
           /\ ~exited /\ awaited[p] = <<>> /\ \A q \in Procs : Len(counts[q]) >= Len(counts[p])
           /\ partition' = partition /\ ice' = ice /\ call' = call
           /\ phase' \in [Procs -> 1 .. 15] /\ phase'[p] = k + 1
           /\ \A q \in Procs : q # p => phase'[q] = phase[q]
<1>1. phase[p] \in 1 .. 14 /\ Phases[phase[p]] = Phases[k]
  BY PhaseNames DEF At
<1>2. phase[p] = k
  BY <1>1, PhaseNames
<1> QED
  BY <1>2 DEF At, Through, configuration

\* An exchange sets one array of one task.
LEMMA ArraySet ==
    ASSUME NEW p \in Procs, NEW array \in ArrayNames, NEW values,
           ArraysTyped(partition, field), DOMAIN values = Local[partition][p][KindOf(array)],
           field' = [field EXCEPT ![p][array] = values]
    PROVE  /\ ArraysTyped(partition, field')
           /\ field'[p][array] = values
           /\ \A a \in ArrayNames : a # array => field'[p][a] = field[p][a]
           /\ \A q \in Procs : q # p => field'[q] = field[q]
BY DEF ArraysTyped

\* A step of one task that changes its own grid and arrays only.
LEMMA OwnStep ==
    ASSUME Parts, NEW p \in Procs, NEW k \in 1 .. 14, phase' \in [Procs -> 1 .. 15], phase'[p] = k + 1,
           \A q \in Procs : q # p => phase'[q] = phase[q] /\ grid'[q] = grid[q],
           partition' = partition, ice' = ice, exited' \in BOOLEAN, DOMAIN grid' = Procs,
           ArraysTyped(partition, field'), GridKnown(partition, ice, p, k + 1, grid'[p])
    PROVE  Parts'
<1>1. ASSUME NEW q \in Procs PROVE GridKnown(partition, ice, q, phase'[q], grid'[q])
  BY DEF Parts
<1> QED
  BY <1>1 DEF Parts

\* The triangles with dynamic ice, and the choice of each task.
LEMMA DynamicIs ==
    ASSUME partition \in Partitions
    PROVE  /\ \A t \in Vertices : Dynamic(t) <=> t \in DynamicOf(ice)
           /\ \A p \in Procs : Triangles(p) = TrianglesOf(partition, DynamicOf(ice), p)
<1>1. \A t \in Vertices : Dynamic(t) <=> t \in DynamicOf(ice)
  BY DEF Dynamic, DynamicOf
<1>2. ASSUME NEW p \in Procs PROVE Triangles(p) = TrianglesOf(partition, DynamicOf(ice), p)
  <2> DEFINE own == Owned[partition][p]["vertex"]
  <2>1. own \in SUBSET Vertices /\ Owned[partition][p].vertex = own
    BY BlocksAre, EntitiesAre DEF Kinds
  <2>2. {t \in own : Dynamic(t)} = {t \in own : t \in DynamicOf(ice)}
    BY <1>1, <2>1
  <2> QED
    BY <2>1, <2>2 DEF Triangles, TrianglesOf
<1> QED
  BY <1>1, <1>2

\* What is at a task's triangles is in its block: edgeToFEdge and vertexToFCell have it all.
LEMMA PartsAre ==
    ASSUME NEW pt \in Partitions, NEW D, NEW p \in Procs, NEW kind \in Kinds
    PROVE  /\ PartOf(pt, D, p, kind) \in SUBSET Local[pt][p][kind]
           /\ PartOf(pt, D, p, kind) \in SUBSET Entities[kind]
           /\ PartOf(pt, D, p, kind) = {x \in Local[pt][p][kind] : Near(kind, x) \cap TrianglesOf(pt, D, p) # {}}
<1>1. ASSUME NEW x \in PartOf(pt, D, p, kind) PROVE x \in Local[pt][p][kind]
  <2>1. PICK t \in Near(kind, x) : t \in TrianglesOf(pt, D, p)
    BY DEF PartOf
  <2>2. x \in Entities[kind] /\ t \in Owned[pt][p]["vertex"]
    BY <2>1, TrianglesAre DEF PartOf
  <2> QED
    BY <2>1, <2>2, BlockReachesFar
<1>2. \A x \in Local[pt][p][kind] : x \in Entities[kind]
  BY BlockHasTriangles
<1> QED
  BY <1>1, <1>2 DEF PartOf

\* An edge has two cells, and from one it leads to the other.
LEMMA AcrossIs ==
    ASSUME NEW c \in Cells, NEW e \in edgesOnCell[c]
    PROVE  e \in Edges /\ Across(e, c) \in CellsOf("edge", e) /\ Across(e, c) # c
<1>1. e \in Edges /\ c \in CellsOf("edge", e)
  BY DEF edgesOnCell
<1>2. cellsOnEdge[e] \in [1 .. 2 -> Cells] /\ cellsOnEdge[e][1] # cellsOnEdge[e][2]
  <2>1. cellsOnEdge[e] \in [1 .. 2 -> Cells] /\ IsInjective(cellsOnEdge[e])
    BY <1>1, MeshAssumption
  <2> QED
    BY <2>1 DEF IsInjective
<1>3. cellsOnEdge[e][1] \in CellsOf("edge", e) /\ cellsOnEdge[e][2] \in CellsOf("edge", e)
  BY <1>2 DEF CellsOf, Range
<1>4. \E d \in CellsOf("edge", e) : d # c
  BY <1>2, <1>3
<1> QED
  BY <1>1, <1>4 DEF Across

\* The block of a task has all neighbours of the cells of its mesh (import2DFields).
LEMMA SourceIs ==
    ASSUME partition \in Partitions, NEW p \in Procs,
           NEW c \in PartOf(partition, DynamicOf(ice), p, "cell")
    PROVE  Source(p, c) = SourceOf(ice, Cells, c)
<1> DEFINE next == {Across(e, c) : e \in edgesOnCell[c]}
           block == Local[partition][p]["cell"]
<1>1. PICK t \in Near("cell", c) : t \in TrianglesOf(partition, DynamicOf(ice), p)
  BY DEF PartOf
<1>2. c \in Cells /\ t \in Owned[partition][p]["vertex"] /\ c \in CellsOf("vertex", t)
  <2>1. c \in Cells /\ t \in Owned[partition][p]["vertex"]
    BY <1>1, TrianglesAre, EntitiesAre DEF PartOf, Kinds
  <2>2. CellsOf("cell", c) \subseteq CellsOf("vertex", t)
    BY <1>1, <2>1, CornersAre, EntitiesAre DEF Kinds
  <2> QED
    BY <2>1, <2>2 DEF CellsOf
<1>3. ASSUME NEW e \in edgesOnCell[c] PROVE Across(e, c) \in block /\ Across(e, c) \in Cells
  <2>1. CellsOf("edge", e) \subseteq block
    BY <1>2, BlockReachesFar
  <2>2. Across(e, c) \in block
    BY <1>2, <2>1, AcrossIs
  <2> QED
    BY <2>2, BlockHasTriangles, EntitiesAre DEF Kinds
<1>4. next \cap ice.dynamic \cap block = next \cap ice.dynamic \cap Cells
  BY <1>3
<1>5. IsVertexBoundary(c) <=> BoundaryOf(ice, c)
  <2>1. \A u \in verticesOnCell[c] : u \in Vertices
    BY <1>2 DEF verticesOnCell
  <2> QED
    BY <2>1, DynamicIs DEF IsVertexBoundary, BoundaryOf
<1>6. Local[partition][p].cell = block
  OBVIOUS
<1> DEFINE floating == edgesOnCell[c] \cap ice.floating # {}
<1> DEFINE From(S, boundary) ==
             IF ~boundary \/ c \in ice.dynamic THEN c
             ELSE IF floating /\ S # {} THEN CHOOSE d \in S : \A n \in S : Elevation[d] <= Elevation[n]
             ELSE IF c \in BelowSea THEN ThinIce ELSE c
<1>7. SourceAmong(block, c) = From(next \cap ice.dynamic \cap block, IsVertexBoundary(c))
  BY DEF SourceAmong
<1>8. SourceOf(ice, Cells, c) = From(next \cap ice.dynamic \cap Cells, BoundaryOf(ice, c))
  BY DEF SourceOf
<1>10. IsVertexBoundary(c) = BoundaryOf(ice, c)
  BY <1>5 DEF IsVertexBoundary, BoundaryOf
<1> HIDE DEF From, next, block
<1>9. SourceAmong(block, c) = SourceOf(ice, Cells, c)
  BY <1>4, <1>7, <1>8, <1>10
<1> QED
  BY <1>6, <1>9 DEF Source

\* Phases that tell a task nothing new of its grid.
LEMMA GridStays ==
    ASSUME NEW pt, NEW ic, NEW p, NEW k \in {2, 4, 6, 10, 11, 12, 13, 14}, NEW g, GridKnown(pt, ic, p, k, g)
    PROVE  GridKnown(pt, ic, p, k + 1, g)
<1>1. k + 1 # 8
  OBVIOUS
<1>2. (k + 1 > 1 <=> k > 1) /\ (k + 1 > 3 <=> k > 3) /\ (k + 1 > 5 <=> k > 5) /\ (k + 1 > 7 <=> k > 7) /\ (k + 1 > 9 <=> k > 9)
  OBVIOUS
<1> QED
  BY <1>1, <1>2 DEF GridKnown

\* An exchange that tells a task nothing new of its grid, or sets it.
LEMMA ExchangeKeepsParts ==
    ASSUME Parts, NEW p \in Procs, NEW k \in 1 .. 14, At(p, Phases[k]),
           NEW array \in ArrayNames, NEW values, NEW lists, AllToAll(p, array, values, lists),
           DOMAIN values = Local[partition][p][KindOf(array)],
           exited' = exited, DOMAIN grid' = Procs, \A q \in Procs : q # p => grid'[q] = grid[q],
           GridKnown(partition, ice, p, k + 1, grid'[p])
    PROVE  Parts'
<1>1. /\ phase' \in [Procs -> 1 .. 15] /\ phase'[p] = k + 1 /\ partition' = partition /\ ice' = ice
      /\ \A q \in Procs : q # p => phase'[q] = phase[q]
  BY AtPhase DEF Parts
<1>2. field' = [field EXCEPT ![p][array] = values]
  BY DEF AllToAll
<1>3. ArraysTyped(partition, field')
  BY <1>2, ArraySet DEF Parts
<1> QED
  BY <1>1, <1>3, OwnStep DEF Parts

\* At first no task knows anything.
LEMMA PartsInit == Init => Parts
<1> SUFFICES ASSUME Init PROVE Parts
  OBVIOUS
<1>1. ArraysTyped(partition, field)
  <2>1. ASSUME NEW p \in Procs
        PROVE  /\ DOMAIN field[p] = ArrayNames
               /\ \A a \in ArrayNames : DOMAIN field[p][a] = Local[partition][p][KindOf(a)]
    <3>1. field[p] = Arrays(p, partition)
      BY <2>1 DEF Init
    <3>2. DOMAIN Arrays(p, partition) = ArrayNames
      BY DEF Arrays, ArrayNames
    <3>3. \A a \in ArrayNames : DOMAIN Arrays(p, partition)[a] = Local[partition][p][KindOf(a)]
      BY DEF Arrays, ArrayNames, KindOf
    <3> QED
      BY <3>1, <3>2, <3>3
  <2> QED
    BY <2>1 DEF Init, ArraysTyped
<1>2. \A p \in Procs : GridKnown(partition, ice, p, phase[p], grid[p])
  BY DEF Init, GridKnown, NoGrid, GridParts
<1>3. phase \in [Procs -> 1 .. 15] /\ DOMAIN grid = Procs /\ exited \in BOOLEAN
  <2>1. phase = [p \in Procs |-> 1] /\ grid = [p \in Procs |-> NoGrid] /\ exited = FALSE
    BY DEF Init
  <2>2. exited \in BOOLEAN
    BY <2>1, Zenon
  <2> QED
    BY <2>1, <2>2
<1> QED
  BY <1>1, <1>2, <1>3 DEF Init, Parts

\* Setting the parts of a grid.
LEMMA GridSet ==
    ASSUME NEW p \in Procs, NEW g, DOMAIN grid = Procs, grid' = [grid EXCEPT ![p] = g]
    PROVE  /\ DOMAIN grid' = Procs /\ grid'[p] = g /\ \A q \in Procs : q # p => grid'[q] = grid[q]
OBVIOUS

\* A task counts its triangles (triangleToFVertex): a new grid, with nothing else in it yet.
LEMMA NumberTrianglesKeepsParts ==
    ASSUME Parts, NEW p \in Procs, NumberTriangles(p)
    PROVE  Parts'
<1>1. At(p, Phases[1])
  BY PhaseNames DEF NumberTriangles
<1>2. /\ phase[p] = 1 /\ phase' \in [Procs -> 1 .. 15] /\ phase'[p] = 2 /\ partition' = partition /\ ice' = ice
      /\ \A q \in Procs : q # p => phase'[q] = phase[q]
  BY <1>1, AtPhase DEF Parts
<1>3. grid' = [grid EXCEPT ![p] = [NoGrid EXCEPT !.triangles = Triangles(p)]] /\ field' = field /\ exited' = exited
  BY DEF NumberTriangles
<1>4. /\ DOMAIN grid' = Procs /\ grid'[p] = [NoGrid EXCEPT !.triangles = Triangles(p)]
      /\ \A q \in Procs : q # p => grid'[q] = grid[q]
  BY <1>3 DEF Parts
<1>5. GridKnown(partition, ice, p, 2, grid'[p])
  BY <1>4, DynamicIs DEF GridKnown, NoGrid, GridParts, Parts
<1> QED
  BY <1>2, <1>3, <1>4, <1>5, OwnStep DEF Parts

\* edgeToFEdge and vertexToFCell are what is at the task's triangles.
LEMMA FieldsOfPart ==
    ASSUME Parts, NEW p \in Procs, phase[p] > 1
    PROVE  /\ EdgeToFEdge(p) = PartOf(partition, DynamicOf(ice), p, "edge")
           /\ VertexToFCell(p) = PartOf(partition, DynamicOf(ice), p, "cell")
           /\ grid[p].triangles = TrianglesOf(partition, DynamicOf(ice), p)
           /\ \A x : LocalTriangles(p, "edge", x) = Near("edge", x) \cap TrianglesOf(partition, DynamicOf(ice), p)
<1>1. grid[p].triangles = TrianglesOf(partition, DynamicOf(ice), p)
  BY DEF Parts, GridKnown
<1>2. \A x : /\ LocalTriangles(p, "edge", x) = Near("edge", x) \cap TrianglesOf(partition, DynamicOf(ice), p)
             /\ LocalTriangles(p, "cell", x) = Near("cell", x) \cap TrianglesOf(partition, DynamicOf(ice), p)
  BY <1>1 DEF LocalTriangles, Near
<1>3. Local[partition][p].edge = Local[partition][p]["edge"] /\ Local[partition][p].cell = Local[partition][p]["cell"]
  OBVIOUS
<1>4. /\ PartOf(partition, DynamicOf(ice), p, "edge") =
           {x \in Local[partition][p]["edge"] : Near("edge", x) \cap TrianglesOf(partition, DynamicOf(ice), p) # {}}
      /\ PartOf(partition, DynamicOf(ice), p, "cell") =
           {x \in Local[partition][p]["cell"] : Near("cell", x) \cap TrianglesOf(partition, DynamicOf(ice), p) # {}}
  BY PartsAre DEF Parts, Kinds
<1>5. EdgeToFEdge(p) = PartOf(partition, DynamicOf(ice), p, "edge")
  BY <1>2, <1>3, <1>4 DEF EdgeToFEdge
<1>6. VertexToFCell(p) = PartOf(partition, DynamicOf(ice), p, "cell")
  BY <1>2, <1>3, <1>4 DEF VertexToFCell
<1> QED
  BY <1>1, <1>2, <1>5, <1>6

\* It collects the edges at its triangles (edgeToFEdge).
LEMMA NumberEdgesKeepsParts ==
    ASSUME Parts, NEW p \in Procs, NumberEdges(p)
    PROVE  Parts'
<1>1. At(p, Phases[3])
  BY PhaseNames DEF NumberEdges
<1>2. /\ phase[p] = 3 /\ phase' \in [Procs -> 1 .. 15] /\ phase'[p] = 4 /\ partition' = partition /\ ice' = ice
      /\ \A q \in Procs : q # p => phase'[q] = phase[q]
  BY <1>1, AtPhase DEF Parts
<1>3. grid' = [grid EXCEPT ![p].edges = EdgeToFEdge(p)] /\ field' = field /\ exited' = exited
  BY DEF NumberEdges
<1>4. /\ DOMAIN grid' = Procs /\ grid'[p] = [grid[p] EXCEPT !.edges = EdgeToFEdge(p)]
      /\ \A q \in Procs : q # p => grid'[q] = grid[q]
  BY <1>3 DEF Parts
<1>5. GridKnown(partition, ice, p, 4, grid'[p])
  <2>1. GridKnown(partition, ice, p, 3, grid[p]) /\ EdgeToFEdge(p) = PartOf(partition, DynamicOf(ice), p, "edge")
    BY <1>2, FieldsOfPart DEF Parts
  <2> QED
    BY <1>4, <2>1 DEF GridKnown, GridParts
<1> QED
  BY <1>2, <1>3, <1>4, <1>5, OwnStep DEF Parts

\* It collects the cells at its triangles (vertexToFCell).
LEMMA NumberCellsKeepsParts ==
    ASSUME Parts, NEW p \in Procs, NumberCells(p)
    PROVE  Parts'
<1>1. At(p, Phases[5])
  BY PhaseNames DEF NumberCells
<1>2. /\ phase[p] = 5 /\ phase' \in [Procs -> 1 .. 15] /\ phase'[p] = 6 /\ partition' = partition /\ ice' = ice
      /\ \A q \in Procs : q # p => phase'[q] = phase[q]
  BY <1>1, AtPhase DEF Parts
<1>3. grid' = [grid EXCEPT ![p].cells = VertexToFCell(p)] /\ field' = field /\ exited' = exited
  BY DEF NumberCells
<1>4. /\ DOMAIN grid' = Procs /\ grid'[p] = [grid[p] EXCEPT !.cells = VertexToFCell(p)]
      /\ \A q \in Procs : q # p => grid'[q] = grid[q]
  BY <1>3 DEF Parts
<1>5. GridKnown(partition, ice, p, 6, grid'[p])
  <2>1. GridKnown(partition, ice, p, 5, grid[p]) /\ VertexToFCell(p) = PartOf(partition, DynamicOf(ice), p, "cell")
    BY <1>2, FieldsOfPart DEF Parts
  <2> QED
    BY <1>4, <2>1 DEF GridKnown, GridParts
<1> QED
  BY <1>2, <1>3, <1>4, <1>5, OwnStep DEF Parts

\* It gives out numbers: its grid stays.
LEMMA ShareIDsKeepsParts ==
    ASSUME Parts, NEW p \in Procs, ShareTriangleIDs(p) \/ ShareEdgeIDs(p) \/ ShareCellIDs(p)
    PROVE  Parts'
<1>1. /\ DOMAIN Numbered(p, "vertex", grid[p].triangles) = Local[partition][p]["vertex"]
      /\ DOMAIN Numbered(p, "edge", ToSend(p, "edge")) = Local[partition][p]["edge"]
      /\ DOMAIN Numbered(p, "cell", ToSend(p, "cell")) = Local[partition][p]["cell"]
  BY DEF Numbered
<1>2. {"triangleIDs", "edgeIDs", "cellIDs"} \subseteq ArrayNames
      /\ KindOf("triangleIDs") = "vertex" /\ KindOf("edgeIDs") = "edge" /\ KindOf("cellIDs") = "cell"
  BY DEF ArrayNames, KindOf
<1>3. grid' = grid /\ exited' = exited
  BY DEF ShareTriangleIDs, ShareEdgeIDs, ShareCellIDs
<1>4. CASE ShareTriangleIDs(p)
  <2>1. At(p, Phases[2]) /\ AllToAll(p, "triangleIDs", Numbered(p, "vertex", grid[p].triangles), Forward(p, "vertex"))
    BY <1>4, PhaseNames DEF ShareTriangleIDs
  <2>3. phase[p] = 2
    BY <2>1, AtPhase DEF Parts
  <2>4. GridKnown(partition, ice, p, 2, grid'[p])
    BY <1>3, <2>3 DEF Parts
  <2>2. GridKnown(partition, ice, p, 2 + 1, grid'[p])
    BY <2>4, GridStays
  <2> QED
    BY <1>1, <1>2, <1>3, <2>1, <2>2, ExchangeKeepsParts DEF Parts
<1>5. CASE ShareEdgeIDs(p)
  <2>1. At(p, Phases[4]) /\ AllToAll(p, "edgeIDs", Numbered(p, "edge", ToSend(p, "edge")), Forward(p, "edge"))
    BY <1>5, PhaseNames DEF ShareEdgeIDs
  <2>3. phase[p] = 4
    BY <2>1, AtPhase DEF Parts
  <2>4. GridKnown(partition, ice, p, 4, grid'[p])
    BY <1>3, <2>3 DEF Parts
  <2>2. GridKnown(partition, ice, p, 4 + 1, grid'[p])
    BY <2>4, GridStays
  <2> QED
    BY <1>1, <1>2, <1>3, <2>1, <2>2, ExchangeKeepsParts DEF Parts
<1>6. CASE ShareCellIDs(p)
  <2>1. At(p, Phases[6]) /\ AllToAll(p, "cellIDs", Numbered(p, "cell", ToSend(p, "cell")), Forward(p, "cell"))
    BY <1>6, PhaseNames DEF ShareCellIDs
  <2>3. phase[p] = 6
    BY <2>1, AtPhase DEF Parts
  <2>4. GridKnown(partition, ice, p, 6, grid'[p])
    BY <1>3, <2>3 DEF Parts
  <2>2. GridKnown(partition, ice, p, 6 + 1, grid'[p])
    BY <2>4, GridStays
  <2> QED
    BY <1>1, <1>2, <1>3, <2>1, <2>2, ExchangeKeepsParts DEF Parts
<1> QED
  BY <1>4, <1>5, <1>6

\* It makes its lists and turns its triangles; their edges have one side each or both.
LEMMA ShareGhostsKeepsParts ==
    ASSUME Parts, NEW p \in Procs, ShareGhosts(p)
    PROVE  Parts'
<1> DEFINE tri == TrianglesOf(partition, DynamicOf(ice), p)
           edges == PartOf(partition, DynamicOf(ice), p, "edge")
           cellLists == ReverseLists(p, "cell", grid[p].cells, field[p].cellIDs)
           edgeLists == ReverseLists(p, "edge", grid[p].edges, field[p].edgeIDs)
           sides == [e \in grid[p].edges |-> [t \in LocalTriangles(p, "edge", e) |-> Side(p, t, e)]]
           corners == [t \in grid[p].triangles |-> VerticesOnTria(t)]
<1>1. At(p, Phases[7]) /\ AllToAll(p, "ghosts", DataForGhostTria(p), Forward(p, "vertex")) /\ exited' = exited
  BY PhaseNames DEF ShareGhosts
<1>2. phase[p] = 7 /\ GridKnown(partition, ice, p, 7, grid[p])
  BY <1>1, AtPhase DEF Parts
<1>3. grid' = [grid EXCEPT ![p] = [grid[p] EXCEPT !.cellsBack = cellLists, !.edgesBack = edgeLists,
                                                  !.verticesOnTria = corners, !.trianglesOnEdge = sides]]
  BY DEF ShareGhosts
<1> HIDE DEF cellLists, edgeLists
<1>4. /\ DOMAIN grid' = Procs /\ \A q \in Procs : q # p => grid'[q] = grid[q]
      /\ grid'[p] = [grid[p] EXCEPT !.cellsBack = cellLists, !.edgesBack = edgeLists,
                                    !.verticesOnTria = corners, !.trianglesOnEdge = sides]
  BY <1>3 DEF Parts
<1>5. /\ grid[p].triangles = tri /\ grid[p].edges = edges
      /\ \A e \in edges : LocalTriangles(p, "edge", e) = verticesOnEdge[e] \cap tri
  BY <1>2, FieldsOfPart DEF GridKnown, Near, AroundIt
<1>6. \A t, e : Side(p, t, e) = SideOf(partition, DynamicOf(ice), p, t, e)
  BY <1>5 DEF Side, SideOf
<1>7. /\ corners = [t \in tri |-> VerticesOnTria(t)] /\ DOMAIN sides = edges
      /\ \A e \in edges : DOMAIN sides[e] = verticesOnEdge[e] \cap tri
      /\ \A e \in edges : \A t \in verticesOnEdge[e] \cap tri : sides[e][t] = SideOf(partition, DynamicOf(ice), p, t, e)
  BY <1>5, <1>6
<1> HIDE DEF corners, sides, tri, edges
<1>8. GridKnown(partition, ice, p, 8, grid'[p])
  <2>1. /\ DOMAIN grid'[p] = GridParts /\ grid'[p].triangles = grid[p].triangles /\ grid'[p].edges = grid[p].edges
        /\ grid'[p].cells = grid[p].cells /\ grid'[p].verticesOnTria = corners /\ grid'[p].trianglesOnEdge = sides
    BY <1>2, <1>4 DEF GridKnown, GridParts
  <2> QED
    BY <1>2, <1>7, <2>1 DEF GridKnown, tri, edges
<1>9. DOMAIN DataForGhostTria(p) = Local[partition][p][KindOf("ghosts")] /\ "ghosts" \in ArrayNames
  BY DEF DataForGhostTria, KindOf, ArrayNames
<1> QED
  BY <1>1, <1>4, <1>8, <1>9, ExchangeKeepsParts

\* It adds the other sides of its interface: its own are as before.
LEMMA FindNeighboursKeepsParts ==
    ASSUME Parts, NEW p \in Procs, FindNeighbours(p)
    PROVE  Parts'
<1> DEFINE tri == TrianglesOf(partition, DynamicOf(ice), p)
           edges == PartOf(partition, DynamicOf(ice), p, "edge")
           old == grid[p].trianglesOnEdge
           sides == [e \in DOMAIN old |->
               IF OnInterface(p, e)
               THEN [t \in verticesOnEdge[e] |-> IF t \in DOMAIN old[e] THEN old[e][t] ELSE GhostSide(p, t, e)]
               ELSE old[e]]
<1>1. At(p, Phases[8]) /\ field' = field /\ exited' = exited
  BY PhaseNames DEF FindNeighbours
<1>2. /\ phase[p] = 8 /\ phase' \in [Procs -> 1 .. 15] /\ phase'[p] = 9 /\ partition' = partition /\ ice' = ice
      /\ \A q \in Procs : q # p => phase'[q] = phase[q]
  BY <1>1, AtPhase DEF Parts
<1>3. grid' = [grid EXCEPT ![p].trianglesOnEdge = sides]
  BY DEF FindNeighbours
<1>4. GridKnown(partition, ice, p, 8, grid[p])
  BY <1>2 DEF Parts
<1>5. /\ DOMAIN grid' = Procs /\ \A q \in Procs : q # p => grid'[q] = grid[q]
      /\ grid'[p] = [grid[p] EXCEPT !.trianglesOnEdge = sides]
  BY <1>3 DEF Parts
<1>6. /\ DOMAIN old = edges /\ \A e \in edges : DOMAIN old[e] = verticesOnEdge[e] \cap tri
      /\ \A e \in edges : \A t \in verticesOnEdge[e] \cap tri : old[e][t] = SideOf(partition, DynamicOf(ice), p, t, e)
  BY <1>4 DEF GridKnown
<1>7. ASSUME NEW e \in edges, NEW t \in verticesOnEdge[e] \cap tri
      PROVE  t \in DOMAIN sides[e] /\ sides[e][t] = SideOf(partition, DynamicOf(ice), p, t, e)
  <2>1. t \in DOMAIN old[e] /\ e \in DOMAIN old
    BY <1>6
  <2>2. CASE OnInterface(p, e)
    <3>1. sides[e] = [u \in verticesOnEdge[e] |-> IF u \in DOMAIN old[e] THEN old[e][u] ELSE GhostSide(p, u, e)]
      BY <2>1, <2>2
    <3> QED
      BY <1>6, <2>1, <3>1
  <2>3. CASE ~OnInterface(p, e)
    <3>1. sides[e] = old[e]
      BY <2>1, <2>3
    <3> QED
      BY <1>6, <2>1, <3>1
  <2> QED
    BY <2>2, <2>3
<1>8. DOMAIN sides = edges
  BY <1>6
<1> HIDE DEF sides, tri, edges, old
<1>9. GridKnown(partition, ice, p, 9, grid'[p])
  <2>1. /\ DOMAIN grid'[p] = GridParts /\ grid'[p].triangles = grid[p].triangles /\ grid'[p].edges = grid[p].edges
        /\ grid'[p].cells = grid[p].cells /\ grid'[p].verticesOnTria = grid[p].verticesOnTria
        /\ grid'[p].trianglesOnEdge = sides
    BY <1>4, <1>5 DEF GridKnown, GridParts
  <2> QED
    BY <1>4, <1>7, <1>8, <2>1 DEF GridKnown, tri, edges
<1> QED
  BY <1>1, <1>2, <1>5, <1>9, OwnStep DEF Parts

\* It imports the values of its cells (import2DFields), whose neighbours are in its block.
LEMMA SolveAndExportHeatKeepsParts ==
    ASSUME Parts, NEW p \in Procs, SolveAndExportHeat(p)
    PROVE  Parts'
<1> DEFINE values == [t \in Local[partition][p].vertex |->
               IF t \in grid[p].triangles THEN Answer(field[p].triangleIDs[t]) ELSE Zero]
           cells == PartOf(partition, DynamicOf(ice), p, "cell")
           source == [c \in grid[p].cells |-> Source(p, c)]
<1>1. At(p, Phases[9]) /\ AllToAll(p, "heat", values, Forward(p, "vertex")) /\ exited' = exited
  BY PhaseNames DEF SolveAndExportHeat
<1>2. phase[p] = 9 /\ GridKnown(partition, ice, p, 9, grid[p])
  BY <1>1, AtPhase DEF Parts
<1>3. grid' = [grid EXCEPT ![p] = [grid[p] EXCEPT !.source = source]]
  BY DEF SolveAndExportHeat
<1>4. /\ DOMAIN grid' = Procs /\ \A q \in Procs : q # p => grid'[q] = grid[q]
      /\ grid'[p] = [grid[p] EXCEPT !.source = source]
  BY <1>3 DEF Parts
<1>5. source = [c \in cells |-> SourceOf(ice, Cells, c)]
  <2>1. grid[p].cells = cells
    BY <1>2 DEF GridKnown
  <2>2. \A c \in cells : Source(p, c) = SourceOf(ice, Cells, c)
    BY SourceIs DEF Parts
  <2> QED
    BY <2>1, <2>2
<1> HIDE DEF source
<1>6. GridKnown(partition, ice, p, 10, grid'[p])
  <2>1. /\ DOMAIN grid'[p] = GridParts /\ grid'[p].triangles = grid[p].triangles /\ grid'[p].edges = grid[p].edges
        /\ grid'[p].cells = grid[p].cells /\ grid'[p].verticesOnTria = grid[p].verticesOnTria
        /\ grid'[p].trianglesOnEdge = grid[p].trianglesOnEdge /\ grid'[p].source = source
    BY <1>2, <1>4 DEF GridKnown, GridParts
  <2> QED
    BY <1>2, <1>5, <2>1 DEF GridKnown
<1>7. DOMAIN values = Local[partition][p][KindOf("heat")] /\ "heat" \in ArrayNames
  BY DEF KindOf, ArrayNames
<1> QED
  BY <1>1, <1>4, <1>6, <1>7, ExchangeKeepsParts

\* It brings velocities to others: its grid stays.
LEMMA VelocitiesKeepParts ==
    ASSUME Parts, NEW p \in Procs, CellsBack(p) \/ CellsForward(p) \/ EdgesBack(p) \/ EdgesForward(p)
    PROVE  Parts'
<1>1. /\ {"velocity", "normal"} \subseteq ArrayNames /\ KindOf("velocity") = "cell" /\ KindOf("normal") = "edge"
      /\ DOMAIN VerticesToCells(p) = Local[partition][p]["cell"] /\ DOMAIN PrismVelocity(p) = Local[partition][p]["edge"]
      /\ DOMAIN field[p].velocity = Local[partition][p]["cell"] /\ DOMAIN field[p].normal = Local[partition][p]["edge"]
  <2>1. {"velocity", "normal"} \subseteq ArrayNames /\ KindOf("velocity") = "cell" /\ KindOf("normal") = "edge"
    BY DEF ArrayNames, KindOf
  <2>2. DOMAIN field[p].velocity = Local[partition][p]["cell"] /\ DOMAIN field[p].normal = Local[partition][p]["edge"]
    BY <2>1 DEF Parts, ArraysTyped
  <2> QED
    BY <2>1, <2>2 DEF VerticesToCells, PrismVelocity
<1>2. grid' = grid /\ DOMAIN grid' = Procs
  BY DEF CellsBack, CellsForward, EdgesBack, EdgesForward, Parts
<1>3. ASSUME NEW k \in {10, 11, 12, 13}, At(p, Phases[k])
      PROVE  GridKnown(partition, ice, p, k + 1, grid'[p]) /\ k \in 1 .. 14
  <2>1. phase[p] = k
    BY <1>3, AtPhase DEF Parts
  <2> QED
    BY <1>2, <2>1, GridStays DEF Parts
<1>4. CASE CellsBack(p)
  <2>1. At(p, Phases[10]) /\ AllToAll(p, "velocity", VerticesToCells(p), grid[p].cellsBack) /\ exited' = exited
    BY <1>4, PhaseNames DEF CellsBack
  <2>2. GridKnown(partition, ice, p, 10 + 1, grid'[p])
    BY <1>3, <2>1
  <2> QED
    BY <1>1, <1>2, <2>1, <2>2, ExchangeKeepsParts
<1>5. CASE CellsForward(p)
  <2>1. At(p, Phases[11]) /\ AllToAll(p, "velocity", field[p].velocity, Forward(p, "cell")) /\ exited' = exited
    BY <1>5, PhaseNames DEF CellsForward
  <2>2. GridKnown(partition, ice, p, 11 + 1, grid'[p])
    BY <1>3, <2>1
  <2> QED
    BY <1>1, <1>2, <2>1, <2>2, ExchangeKeepsParts
<1>6. CASE EdgesBack(p)
  <2>1. At(p, Phases[12])
    BY <1>6, PhaseNames DEF EdgesBack
  <2>2. GridKnown(partition, ice, p, 12 + 1, grid'[p])
    BY <1>3, <2>1
  <2>3. CASE AllToAll(p, "normal", PrismVelocity(p), grid[p].edgesBack) /\ exited' = exited
    BY <1>1, <1>2, <2>1, <2>2, <2>3, ExchangeKeepsParts
  <2>4. CASE exited' = TRUE /\ field' = field
    <3>1. /\ phase' \in [Procs -> 1 .. 15] /\ phase'[p] = 12 + 1 /\ partition' = partition /\ ice' = ice
          /\ \A q \in Procs : q # p => phase'[q] = phase[q]
      BY <2>1, AtPhase DEF Parts
    <3>2. exited' \in BOOLEAN
      BY <2>4, Zenon
    <3>3. ArraysTyped(partition, field') /\ \A q \in Procs : q # p => grid'[q] = grid[q]
      BY <1>2, <2>4 DEF Parts
    <3> QED
      BY <1>2, <2>2, <3>1, <3>2, <3>3, OwnStep
  <2> QED
    BY <1>6, <2>3, <2>4 DEF EdgesBack
<1>7. CASE EdgesForward(p)
  <2>1. At(p, Phases[13]) /\ AllToAll(p, "normal", field[p].normal, Forward(p, "edge")) /\ exited' = exited
    BY <1>7, PhaseNames DEF EdgesForward
  <2>2. GridKnown(partition, ice, p, 13 + 1, grid'[p])
    BY <1>3, <2>1
  <2> QED
    BY <1>1, <1>2, <2>1, <2>2, ExchangeKeepsParts
<1> QED
  BY <1>4, <1>5, <1>6, <1>7

\* It takes the velocity from edges without ice: its grid stays.
LEMMA MaskEdgesKeepsParts ==
    ASSUME Parts, NEW p \in Procs, MaskEdges(p)
    PROVE  Parts'
<1> DEFINE masked == [e \in DOMAIN field[p].normal |-> IF DynamicEdge(e) THEN field[p].normal[e] ELSE Zero]
<1>1. At(p, Phases[14]) /\ exited' = exited /\ grid' = grid /\ field' = [field EXCEPT ![p].normal = masked]
  BY PhaseNames DEF MaskEdges
<1>2. phase[p] = 14
  BY <1>1, AtPhase DEF Parts
<1>3. "normal" \in ArrayNames /\ DOMAIN masked = Local[partition][p][KindOf("normal")]
  BY DEF Parts, ArraysTyped, ArrayNames
<1>4. ArraysTyped(partition, field')
  BY <1>1, <1>3, ArraySet DEF Parts
<1>5. GridKnown(partition, ice, p, 14, grid'[p])
  BY <1>1, <1>2 DEF Parts
<1>6. GridKnown(partition, ice, p, 14 + 1, grid'[p])
  BY <1>5, GridStays
<1>7. /\ phase' \in [Procs -> 1 .. 15] /\ phase'[p] = 14 + 1 /\ partition' = partition /\ ice' = ice
      /\ \A q \in Procs : q # p => phase'[q] = phase[q]
  BY <1>1, AtPhase DEF Parts
<1> QED
  BY <1>1, <1>4, <1>6, <1>7, OwnStep DEF Parts

\* A message changes the values of one array.
LEMMA ReceiveKeepsParts ==
    ASSUME Parts, NEW p \in Procs, Receive(p)
    PROVE  Parts'
<1>1. PICK q, array, list : field' = [field EXCEPT ![p][array] = Unpacked(@, list, Head(wire[q][p]))]
  BY DEF Receive
<1>2. partition' = partition /\ ice' = ice /\ phase' = phase /\ grid' = grid /\ exited' = exited
  BY DEF Receive, configuration
<1>3. DOMAIN Unpacked(field[p][array], list, Head(wire[q][p])) = DOMAIN field[p][array]
  BY DEF Unpacked
<1>4. ArraysTyped(partition, field')
  BY <1>1, <1>3 DEF ArraysTyped, Parts
<1> QED
  BY <1>2, <1>4 DEF Parts

\* The next call either starts over or has the same triangles with dynamic ice.
LEMMA NextCallPhases ==
    ASSUME NextCall
    PROVE  \/ phase' = [p \in Procs |-> 1]
           \/ phase' = [p \in Procs |-> 9] /\ DynamicOf(ice') = DynamicOf(ice)
<1>1. CASE \E t \in Vertices : Dynamic(t) # Dynamic(t)'
  BY <1>1 DEF NextCall
<1>2. CASE ~(\E t \in Vertices : Dynamic(t) # Dynamic(t)')
  <2>1. DynamicOf(ice') = DynamicOf(ice)
    BY <1>2 DEF DynamicOf, Dynamic
  <2> QED
    BY <2>1 DEF NextCall, Solve
<1> QED
  BY <1>1, <1>2

\* What the tasks know of their parts of the mesh outlasts the call.
LEMMA NextCallKeepsParts ==
    ASSUME Parts, NextCall
    PROVE  Parts'
<1>1. /\ ice' \in IceSheets /\ partition' = partition /\ field' = field /\ grid' = grid /\ exited' = exited
      /\ \A p \in Procs : phase[p] > 14
  BY PhaseNames DEF NextCall, Solved
<1>2. ASSUME NEW p \in Procs PROVE phase'[p] \in 1 .. 15 /\ GridKnown(partition, ice', p, phase'[p], grid[p])
  <2>1. CASE phase' = [q \in Procs |-> 1]
    <3>2. phase'[p] = 1 /\ DOMAIN grid[p] = GridParts
      BY <2>1 DEF Parts, GridKnown
    <3> QED
      BY <3>2 DEF GridKnown
  <2>2. CASE phase' = [q \in Procs |-> 9] /\ DynamicOf(ice') = DynamicOf(ice)
    <3>3. phase[p] = 15
      BY <1>1 DEF Parts
    <3>4. GridKnown(partition, ice, p, 15, grid[p])
      BY <3>3 DEF Parts
    <3> QED
      BY <2>2, <3>4 DEF GridKnown
  <2> QED
    BY <2>1, <2>2, NextCallPhases
<1>3. phase' = [q \in Procs |-> 1] \/ phase' = [q \in Procs |-> 9]
  BY NextCallPhases
<1>4. phase' \in [Procs -> 1 .. 15]
  BY <1>3
<1> QED
  BY <1>1, <1>2, <1>4 DEF Parts

\* No step spoils what the tasks know of their parts of the mesh.
LEMMA PartsStep == Parts /\ [Next]_vars => Parts'
<1> SUFFICES ASSUME Parts, [Next]_vars PROVE Parts'
  OBVIOUS
<1>1. CASE UNCHANGED vars
  BY <1>1 DEF vars, configuration, Parts
<1>2. CASE NextCall
  BY <1>2, NextCallKeepsParts
<1>3. ASSUME NEW p \in Procs, Step(p) PROVE Parts'
  BY <1>3, NumberTrianglesKeepsParts, NumberEdgesKeepsParts, NumberCellsKeepsParts, ShareIDsKeepsParts,
     ShareGhostsKeepsParts, FindNeighboursKeepsParts, SolveAndExportHeatKeepsParts, VelocitiesKeepParts,
     MaskEdgesKeepsParts, ReceiveKeepsParts DEF Step
<1> QED
  BY <1>1, <1>2, <1>3 DEF Next

\* In every state each task knows the triangles, edges and cells it takes part with, the corners
\* and sides of its triangles and where the values of its cells come from, as the phases go on.
THEOREM PartsKnown == Spec => []Parts
<1> QED
  BY PartsInit, PartsStep, PTL DEF Spec

\* The corners of a triangle are its three cells, each once.
LEMMA CornersOfTriangle ==
    ASSUME NEW t \in Vertices
    PROVE  LET corner == VerticesOnTria(t)
               column == [k \in Third |-> corner[k + 1]]
           IN  DistinctNumbers(column) /\ {column[k] : k \in Third} = CellsOf("vertex", t)
<1> DEFINE c == cellsOnVertex[t]
           corner == VerticesOnTria(t)
           column == [k \in Third |-> corner[k + 1]]
<1>1. c \in [1 .. 3 -> Cells] /\ IsInjective(c) /\ \A x \in Cells : x \in Int
  BY MeshAssumption, EntitiesAre DEF Kinds
<1>2. c[1] \in Int /\ c[2] \in Int /\ c[3] \in Int /\ c[1] # c[2] /\ c[1] # c[3] /\ c[2] # c[3]
  <2>1. DOMAIN c = 1 .. 3 /\ \A i, j \in DOMAIN c : c[i] = c[j] => i = j
    BY <1>1 DEF IsInjective
  <2>4. c[1] \in Cells /\ c[2] \in Cells /\ c[3] \in Cells
    BY <1>1
  <2>2. c[1] \in Int /\ c[2] \in Int /\ c[3] \in Int
    BY <1>1, <2>4
  <2>3. 1 \in DOMAIN c /\ 2 \in DOMAIN c /\ 3 \in DOMAIN c /\ 1 # 2 /\ 1 # 3 /\ 2 # 3
    BY <2>1
  <2> HIDE DEF c
  <2> QED
    BY <2>1, <2>2, <2>3
<1>3. CellsOf("vertex", t) = {c[1], c[2], c[3]}
  BY <1>1 DEF CellsOf, Range
<1>4. \/ corner[1] = c[1] /\ corner[2] = c[3] /\ corner[3] = c[2]
      \/ corner[1] = c[1] /\ corner[2] = c[2] /\ corner[3] = c[3]
  <2>1. corner = IF t \in Clockwise THEN <<c[1], c[3], c[2]>> ELSE c
    BY DEF VerticesOnTria
  <2> QED
    BY <2>1
<1> HIDE DEF c, corner
<1>5. column[0] = corner[1] /\ column[1] = corner[2] /\ column[2] = corner[3] /\ DOMAIN column = {0, 1, 2}
      /\ column = [k \in {0, 1, 2} |-> column[k]]
  BY ThirdElements
<1> HIDE DEF column
<1>6. {column[k] : k \in Third} = {column[0], column[1], column[2]}
  BY ThirdElements
<1>7. DistinctNumbers(column)
  BY <1>2, <1>4, <1>5, ThirdElements DEF DistinctNumbers
<1>8. {column[k] : k \in Third} = CellsOf("vertex", t)
  BY <1>3, <1>4, <1>5, <1>6
<1> QED
  BY <1>7, <1>8 DEF column, corner

\* The face over an edge is cut the same way by the prism over each triangle at it.
LEMMA CutOverEdge ==
    ASSUME NEW t \in Vertices, NEW e \in Edges, t \in verticesOnEdge[e]
    PROVE  LET corner == VerticesOnTria(t)
               column == [k \in Third |-> corner[k + 1]]
               a == cellsOnEdge[e][1]
               b == cellsOnEdge[e][2]
           IN  FacesOn(Tetrahedra(column, column), LateralFace(a, b)) = IF a < b THEN Halves(a, b) ELSE Halves(b, a)
<1> DEFINE corner == VerticesOnTria(t)
           column == [k \in Third |-> corner[k + 1]]
           a == cellsOnEdge[e][1]
           b == cellsOnEdge[e][2]
<1>1. DistinctNumbers(column) /\ {column[k] : k \in Third} = CellsOf("vertex", t)
  BY CornersOfTriangle
<1>2. cellsOnEdge[e] \in [1 .. 2 -> Cells] /\ IsInjective(cellsOnEdge[e]) /\ \A x \in Cells : x \in Int
  BY MeshAssumption, EntitiesAre DEF Kinds
<1>3. a \in Int /\ b \in Int /\ a # b
  <2>1. DOMAIN cellsOnEdge[e] = 1 .. 2 /\ \A i, j \in DOMAIN cellsOnEdge[e] : cellsOnEdge[e][i] = cellsOnEdge[e][j] => i = j
    BY <1>2 DEF IsInjective
  <2>4. a \in Cells /\ b \in Cells
    BY <1>2
  <2>2. a \in Int /\ b \in Int
    BY <1>2, <2>4
  <2>3. 1 \in DOMAIN cellsOnEdge[e] /\ 2 \in DOMAIN cellsOnEdge[e] /\ 1 # 2
    BY <2>1
  <2> QED
    BY <2>1, <2>2, <2>3
<1>4. a \in CellsOf("edge", e) /\ b \in CellsOf("edge", e)
  BY <1>2 DEF CellsOf, Range
<1>5. CellsOf("edge", e) \subseteq CellsOf("vertex", t)
  BY DEF verticesOnEdge
<1> HIDE DEF column, a, b
<1>8. a \in {column[k] : k \in Third} /\ b \in {column[k] : k \in Third}
  BY <1>1, <1>4, <1>5
<1>6. CASE a < b
  <2>1. FacesOn(Tetrahedra(column, column), LateralFace(a, b)) = Halves(a, b)
    BY <1>1, <1>3, <1>6, <1>8, FaceCutByNumbers
  <2> QED
    BY <1>6, <2>1 DEF column, a, b
<1>7. CASE ~(a < b)
  <2>1. b < a
    BY <1>3, <1>7
  <2>2. FacesOn(Tetrahedra(column, column), LateralFace(b, a)) = Halves(b, a)
    BY <1>1, <1>3, <1>8, <2>1, FaceCutByNumbers
  <2>3. LateralFace(a, b) = LateralFace(b, a)
    BY DEF LateralFace
  <2> QED
    BY <1>7, <2>2, <2>3 DEF column, a, b
<1> QED
  BY <1>3, <1>6, <1>7

\* The tetrahedra of two prisms side by side, on whatever tasks, meet in the same triangles: each
\* cuts the face between them by the numbers of its two cells (prismType, tetrasFromPrismStructured).
THEOREM PrismsConform == Spec => []ConformingSplit
<1>1. Parts => ConformingSplit
  <2> SUFFICES ASSUME Parts, Solved, NEW p \in Procs, NEW q \in Procs, NEW t \in grid[p].triangles,
                      NEW u \in grid[q].triangles, NEW e \in Edges, {t, u} = verticesOnEdge[e], t # u
               PROVE  LET Cut(r, v) == LET corner == grid[r].verticesOnTria[v]
                                           column == [k \in Third |-> corner[k + 1]]
                                       IN  FacesOn(Tetrahedra(column, column), LateralFace(cellsOnEdge[e][1], cellsOnEdge[e][2]))
                      IN  Cut(p, t) = Cut(q, u)
    BY DEF ConformingSplit
  <2>1. ASSUME NEW r \in Procs, NEW v \in grid[r].triangles
        PROVE  grid[r].verticesOnTria[v] = VerticesOnTria(v) /\ v \in Vertices
    <3>1. phase[r] > 14 /\ phase[r] \in Int
      BY PhaseNames DEF Solved, Parts
    <3>2. GridKnown(partition, ice, r, phase[r], grid[r]) /\ phase[r] > 1 /\ phase[r] > 7
      BY <3>1 DEF Parts
    <3>3. /\ grid[r].triangles = TrianglesOf(partition, DynamicOf(ice), r)
          /\ grid[r].verticesOnTria = [w \in TrianglesOf(partition, DynamicOf(ice), r) |-> VerticesOnTria(w)]
      BY <3>2 DEF GridKnown
    <3> QED
      BY <3>3, TrianglesAre DEF Parts
  <2> DEFINE Face == LateralFace(cellsOnEdge[e][1], cellsOnEdge[e][2])
             Column(corner) == [k \in Third |-> corner[k + 1]]
             CutOf(v) == FacesOn(Tetrahedra(Column(VerticesOnTria(v)), Column(VerticesOnTria(v))), Face)
  <2>2. CutOf(t) = CutOf(u)
    BY <2>1, CutOverEdge
  <2>3. grid[p].verticesOnTria[t] = VerticesOnTria(t) /\ grid[q].verticesOnTria[u] = VerticesOnTria(u)
    BY <2>1
  <2> QED
    BY <2>2, <2>3
<1> QED
  BY <1>1, PartsKnown, PTL

\* Tasks that share a vertex of the mesh take its values from the same cell (import2DFields).
LEMMA VerticesAgree == Parts => SharedVerticesAgree
<1> SUFFICES ASSUME Parts, NEW p \in Procs, NEW q \in Procs, phase[p] > 9, phase[q] > 9,
                    NEW c \in grid[p].cells \cap grid[q].cells
             PROVE  grid[p].source[c] = grid[q].source[c]
  <2>1. Index("heat") = 9
    BY PhaseNames DEF Index
  <2> QED
    BY <2>1 DEF SharedVerticesAgree
<1>1. ASSUME NEW r \in Procs, phase[r] > 9, c \in grid[r].cells PROVE grid[r].source[c] = SourceOf(ice, Cells, c)
  <2>1. GridKnown(partition, ice, r, phase[r], grid[r]) /\ phase[r] \in Int
    BY DEF Parts
  <2>2. /\ grid[r].cells = PartOf(partition, DynamicOf(ice), r, "cell")
        /\ grid[r].source = [d \in PartOf(partition, DynamicOf(ice), r, "cell") |-> SourceOf(ice, Cells, d)]
    BY <1>1, <2>1 DEF GridKnown
  <2> QED
    BY <1>1, <2>2
<1> QED
  BY <1>1

-----------------------------------------------------------------------------
(* The messages of a call *)

\* The phases that end with an exchange, and what they exchange.
Exchanges == {2, 4, 6, 7, 9, 10, 11, 12, 13}
Backwards == {10, 12}
KindAt(k) ==
    CASE k \in {2, 7, 9} -> "vertex" [] k \in {4, 12, 13} -> "edge" [] k \in {6, 10, 11} -> "cell"
ArrayAt(k) ==
    CASE k = 2 -> "triangleIDs" [] k = 4 -> "edgeIDs" [] k = 6 -> "cellIDs" [] k = 7 -> "ghosts"
      [] k = 9 -> "heat" [] k \in {10, 11} -> "velocity" [] k \in {12, 13} -> "normal"

\* The owners of the triangles of the mesh at an entity.
OwnersAt(pt, D, kind, x) == {Owner[pt]["vertex"][t] : t \in Near(kind, x) \cap MeshOf(pt, D)}

\* What task q sends task p in phase k: forward what it owns in the block of p, backward what
\* p owns but has no triangle at. The lists have the order of the blocks and of the numbers.
SentSet(pt, D, k, q, p) ==
    IF k \in Backwards
    THEN {x \in Entities[KindAt(k)] : /\ Owner[pt][KindAt(k)][x] = p
                                      /\ q \in OwnersAt(pt, D, KindAt(k), x)
                                      /\ p \notin OwnersAt(pt, D, KindAt(k), x)}
    ELSE Shared(pt, q, p, KindAt(k))

ByNumber(pt, D, kind, S) ==
    LET numbers == Sorted({NumberOf(pt, D, kind, x) : x \in S})
    IN  [i \in DOMAIN numbers |-> CHOOSE x \in S : NumberOf(pt, D, kind, x) = numbers[i]]

ListOf(pt, D, k, q, p) ==
    IF k \in Backwards THEN ByNumber(pt, D, KindAt(k), SentSet(pt, D, k, q, p))
                       ELSE Sorted(SentSet(pt, D, k, q, p))

\* Exchange lists of task p that send and await just that.
ListsFit(pt, D, k, p, lists) ==
    /\ DOMAIN lists.send = {q \in Procs : SentSet(pt, D, k, p, q) # {}}
    /\ \A q \in DOMAIN lists.send : lists.send[q] = ListOf(pt, D, k, p, q)
    /\ DOMAIN lists.recv = {q \in Procs : SentSet(pt, D, k, q, p) # {}}
    /\ \A q \in DOMAIN lists.recv : lists.recv[q] = ListOf(pt, D, k, q, p)

\* What the kinds and arrays of the exchanges are.
LEMMA ExchangesAre ==
    ASSUME NEW k \in Exchanges
    PROVE  /\ k \in 1 .. 14 /\ k \in Nat /\ KindAt(k) \in Kinds
           /\ ArrayAt(k) \in ArrayNames /\ KindOf(ArrayAt(k)) = KindAt(k)
           /\ \A j \in Exchanges : ArrayAt(j) = ArrayAt(k) <=> j = k \/ {j, k} = {10, 11} \/ {j, k} = {12, 13}
<1>1. k \in {2, 4, 6, 7, 9, 10, 11, 12, 13}
  BY DEF Exchanges
<1>2. k \in 1 .. 14 /\ k \in Nat
  BY <1>1
<1>3. KindAt(k) \in Kinds /\ ArrayAt(k) \in ArrayNames /\ KindOf(ArrayAt(k)) = KindAt(k)
  BY <1>1 DEF KindAt, ArrayAt, KindOf, Kinds, ArrayNames
<1>4. ASSUME NEW j \in Exchanges
      PROVE  ArrayAt(j) = ArrayAt(k) <=> j = k \/ {j, k} = {10, 11} \/ {j, k} = {12, 13}
  <2>1. j \in {2, 4, 6, 7, 9, 10, 11, 12, 13}
    BY DEF Exchanges
  <2>2. ArrayAt(j) = ArrayAt(k) <=> j = k \/ (j \in {10, 11} /\ k \in {10, 11}) \/ (j \in {12, 13} /\ k \in {12, 13})
    BY <1>1, <2>1 DEF ArrayAt
  <2> QED
    BY <2>2
<1> QED
  BY <1>2, <1>3, <1>4

\* An entity with an owner of a triangle at it is in the mesh.
LEMMA OwnersAtAre ==
    ASSUME NEW pt \in Partitions, NEW D, NEW kind \in Kinds, NEW x \in Entities[kind]
    PROVE  /\ OwnersAt(pt, D, kind, x) \in SUBSET Procs
           /\ OwnersAt(pt, D, kind, x) # {} <=> InIt(pt, D, kind, x)
           /\ \A p \in Procs : p \in OwnersAt(pt, D, kind, x) <=> x \in PartOf(pt, D, p, kind)
<1>1. \A t \in MeshOf(pt, D) : t \in Vertices /\ Owner[pt]["vertex"][t] \in Procs /\ t \in TrianglesOf(pt, D, Owner[pt]["vertex"][t])
  BY MeshIs
<1>2. OwnersAt(pt, D, kind, x) \in SUBSET Procs
  BY <1>1 DEF OwnersAt
<1>3. OwnersAt(pt, D, kind, x) # {} <=> InIt(pt, D, kind, x)
  BY DEF OwnersAt, InIt
<1>4. ASSUME NEW p \in Procs PROVE p \in OwnersAt(pt, D, kind, x) <=> x \in PartOf(pt, D, p, kind)
  <2>1. ASSUME p \in OwnersAt(pt, D, kind, x) PROVE x \in PartOf(pt, D, p, kind)
    <3>1. PICK t \in Near(kind, x) \cap MeshOf(pt, D) : Owner[pt]["vertex"][t] = p
      BY <2>1 DEF OwnersAt
    <3> QED
      BY <1>1, <3>1 DEF PartOf
  <2>2. ASSUME x \in PartOf(pt, D, p, kind) PROVE p \in OwnersAt(pt, D, kind, x)
    <3>1. PICK t \in Near(kind, x) : t \in TrianglesOf(pt, D, p)
      BY <2>2 DEF PartOf
    <3>2. t \in MeshOf(pt, D) /\ Owner[pt]["vertex"][t] = p
      BY <3>1, TrianglesAre DEF MeshOf
    <3> QED
      BY <3>1, <3>2 DEF OwnersAt
  <2> QED
    BY <2>1, <2>2
<1> QED
  BY <1>2, <1>3, <1>4

\* What is sent has a place at both ends.
LEMMA SentIs ==
    ASSUME NEW pt \in Partitions, NEW D, NEW k \in Exchanges, NEW q \in Procs, NEW p \in Procs
    PROVE  /\ \A x \in SentSet(pt, D, k, q, p) :
                 /\ x \in Entities[KindAt(k)] /\ x \in Local[pt][p][KindAt(k)] /\ x \in Local[pt][q][KindAt(k)]
                 /\ IF k \in Backwards
                    THEN /\ Owner[pt][KindAt(k)][x] = p
                         /\ q \in OwnersAt(pt, D, KindAt(k), x) /\ p \notin OwnersAt(pt, D, KindAt(k), x)
                    ELSE Owner[pt][KindAt(k)][x] = q
           /\ q = p => SentSet(pt, D, k, q, p) = {}
<1> DEFINE kind == KindAt(k)
           S == SentSet(pt, D, k, q, p)
<1>1. kind \in Kinds
  BY ExchangesAre
<1>2. CASE k \in Backwards
  <2>1. S = {x \in Entities[kind] : /\ Owner[pt][kind][x] = p /\ q \in OwnersAt(pt, D, kind, x)
                                    /\ p \notin OwnersAt(pt, D, kind, x)}
    BY <1>2 DEF SentSet
  <2>2. ASSUME NEW x \in S PROVE x \in Local[pt][p][kind] /\ x \in Local[pt][q][kind]
    <3>1. x \in Owned[pt][p][kind]
      BY <1>1, <2>1, BlocksAre
    <3>2. x \in PartOf(pt, D, q, kind)
      BY <1>1, <2>1, OwnersAtAre
    <3> QED
      BY <1>1, <3>1, <3>2, BlockHasTriangles, PartsAre
  <2> QED
    BY <1>2, <2>1, <2>2
<1>3. CASE k \notin Backwards
  <2>1. S = IF p = q THEN {} ELSE Owned[pt][q][kind] \cap Local[pt][p][kind]
    BY <1>3 DEF SentSet, Shared
  <2>2. ASSUME NEW x \in S
        PROVE  x \in Entities[kind] /\ x \in Local[pt][p][kind] /\ x \in Local[pt][q][kind] /\ Owner[pt][kind][x] = q
    <3>1. x \in Owned[pt][q][kind] /\ x \in Local[pt][p][kind]
      BY <2>1
    <3> QED
      BY <1>1, <3>1, BlocksAre, BlockHasTriangles
  <2> QED
    BY <1>3, <2>1, <2>2
<1> QED
  BY <1>2, <1>3

\* A list has just what is sent.
LEMMA ListsAre ==
    ASSUME NEW pt \in Partitions, NEW k \in Exchanges, NEW q \in Procs, NEW p \in Procs, NEW D
    PROVE  /\ \A i \in DOMAIN ListOf(pt, D, k, q, p) : ListOf(pt, D, k, q, p)[i] \in SentSet(pt, D, k, q, p)
           /\ \A x \in SentSet(pt, D, k, q, p) :
                 \E i \in DOMAIN ListOf(pt, D, k, q, p) : ListOf(pt, D, k, q, p)[i] = x
<1> DEFINE kind == KindAt(k)
           S == SentSet(pt, D, k, q, p)
           n(x) == NumberOf(pt, D, kind, x)
           N == {n(x) : x \in S}
<1>1. kind \in Kinds /\ Entities[kind] \in SUBSET Int /\ IsFiniteSet(Entities[kind])
  BY ExchangesAre, EntitiesAre
<1>2. S \in SUBSET Entities[kind]
  BY SentIs
<1>3. CASE k \in Backwards
  <2> DEFINE mesh == {x \in Entities[kind] : InIt(pt, D, kind, x)}
  <2>1. \A x \in S : x \in mesh
    BY <1>1, <1>2, <1>3, SentIs, OwnersAtAre
  <2>2. /\ {n(x) : x \in mesh} = 0 .. Cardinality(mesh) - 1 /\ \A x \in mesh : n(x) \in Nat
        /\ \A x, y \in mesh : n(x) = n(y) => x = y
    BY <1>1, NumbersAre
  <2>3. IsFiniteSet(mesh) /\ Cardinality(mesh) \in Nat
    BY <1>1, FS_Subset, FS_CardinalityType
  <2> HIDE DEF S, n, mesh, N
  <2>4. N \in SUBSET Int /\ IsFiniteSet(N)
    <3>1. N \in SUBSET (0 .. Cardinality(mesh) - 1)
      BY <2>1, <2>2 DEF N
    <3>2. IsFiniteSet(0 .. Cardinality(mesh) - 1)
      BY <2>3, FS_Interval
    <3>3. IsFiniteSet(N)
      BY <3>1, <3>2, FS_Subset
    <3> QED
      BY <2>3, <3>1, <3>3
  <2>5. /\ \A i \in DOMAIN Sorted(N) : Sorted(N)[i] \in N
        /\ \A m \in N : \E i \in DOMAIN Sorted(N) : Sorted(N)[i] = m
    BY <2>4, OverSorted
  <2>6. ListOf(pt, D, k, q, p) = [i \in DOMAIN Sorted(N) |-> CHOOSE x \in S : n(x) = Sorted(N)[i]]
    BY <1>3 DEF ListOf, ByNumber, S, n, N
  <2>7. ASSUME NEW i \in DOMAIN Sorted(N)
        PROVE  LET x == CHOOSE x \in S : n(x) = Sorted(N)[i] IN x \in S /\ n(x) = Sorted(N)[i]
    <3>1. \E x \in S : n(x) = Sorted(N)[i]
      BY <2>5 DEF N
    <3> QED
      BY <3>1
  <2>8. ASSUME NEW x \in S PROVE \E i \in DOMAIN Sorted(N) : (CHOOSE y \in S : n(y) = Sorted(N)[i]) = x
    <3>1. PICK i \in DOMAIN Sorted(N) : Sorted(N)[i] = n(x)
      BY <2>5 DEF N
    <3> QED
      BY <2>1, <2>2, <2>7, <3>1
  <2> QED
    BY <2>6, <2>7, <2>8 DEF S
<1>4. CASE k \notin Backwards
  <2>1. ListOf(pt, D, k, q, p) = Sorted(S)
    BY <1>4 DEF ListOf
  <2>2. S \in SUBSET Int /\ IsFiniteSet(S)
    BY <1>1, <1>2, FS_Subset
  <2> HIDE DEF S
  <2>3. /\ \A i \in DOMAIN Sorted(S) : Sorted(S)[i] \in S
        /\ \A x \in S : \E i \in DOMAIN Sorted(S) : Sorted(S)[i] = x
    BY <2>2, OverSorted
  <2> QED
    BY <2>1, <2>3 DEF S
<1> QED
  BY <1>3, <1>4

\* In short: its range is the set of what is sent.
LEMMA ListRange ==
    ASSUME NEW pt \in Partitions, NEW k \in Exchanges, NEW q \in Procs, NEW p \in Procs, NEW D
    PROVE  Range(ListOf(pt, D, k, q, p)) = SentSet(pt, D, k, q, p)
BY ListsAre DEF Range

\* The exchange lists of the halos.
LEMMA ForwardFits ==
    ASSUME partition \in Partitions, NEW D, NEW k \in Exchanges \ Backwards, NEW p \in Procs
    PROVE  ListsFit(partition, D, k, p, Forward(p, KindAt(k)))
<1> DEFINE kind == KindAt(k)
<1>1. kind \in DOMAIN Entities
  BY ExchangesAre, EntitiesAre
<1>2. \A q, r \in Procs : /\ SentSet(partition, D, k, q, r) = Shared(partition, q, r, kind)
                          /\ ListOf(partition, D, k, q, r) = Sorted(Shared(partition, q, r, kind))
  BY DEF SentSet, ListOf
<1>3. SendLists[partition][p][kind] = [q \in {r \in Procs : Shared(partition, p, r, kind) # {}} |-> Sorted(Shared(partition, p, q, kind))]
  BY <1>1 DEF SendLists
<1>4. RecvLists[partition][p][kind] = [q \in {r \in Procs : Shared(partition, r, p, kind) # {}} |-> Sorted(Shared(partition, q, p, kind))]
  BY <1>1 DEF RecvLists
<1>5. /\ Forward(p, kind).send = SendLists[partition][p][kind]
      /\ Forward(p, kind).recv = RecvLists[partition][p][kind]
  BY DEF Forward
<1> HIDE DEF kind
<1>6. /\ DOMAIN Forward(p, kind).send = {q \in Procs : SentSet(partition, D, k, p, q) # {}}
      /\ \A q \in DOMAIN Forward(p, kind).send : Forward(p, kind).send[q] = ListOf(partition, D, k, p, q)
  BY <1>2, <1>3, <1>5
<1>7. /\ DOMAIN Forward(p, kind).recv = {q \in Procs : SentSet(partition, D, k, q, p) # {}}
      /\ \A q \in DOMAIN Forward(p, kind).recv : Forward(p, kind).recv[q] = ListOf(partition, D, k, q, p)
  BY <1>2, <1>4, <1>5
<1> QED
  BY <1>6, <1>7 DEF ListsFit, kind

-----------------------------------------------------------------------------
(* What an exchange is to bring *)

\* The triangle t and its edges, as its owner knows them.
GhostOf(pt, D, t) ==
    [tria |-> Rank(TrianglesOf(pt, D, Owner[pt]["vertex"][t]), t),
     edge |-> [j \in 0 .. 2 |-> NumberOf(pt, D, "edge", EdgeAt(t, j))]]

\* The triangle an edge takes its velocity from, when the ice is ic.
HoldingOf(ic, e) == {t \in verticesOnEdge[e] : t \in DynamicOf(ic) /\ t \in Midpoint[e]}
TakenOf(ic, e) ==
    LET order == Sorted(verticesOnEdge[e])
    IN  IF HoldingOf(ic, e) # {} THEN Sorted(HoldingOf(ic, e))[1]
        ELSE IF order[1] \in DynamicOf(ic) THEN order[1] ELSE Last(order)

\* The velocities of cells and edges after solve cl.
VelocityOf(pt, D, cl, c) == IF InIt(pt, D, "cell", c) THEN <<cl, NumberOf(pt, D, "cell", c)>> ELSE Zero
NormalOf(pt, ic, cl, e) == [c \in CellsOf("vertex", TakenOf(ic, e)) |-> VelocityOf(pt, DynamicOf(ic), cl, c)]
HasIce(ic, e) == CellsOf("edge", e) \cap ic.dynamic # {}

\* The value v is what an entity x is to get from the exchange of phase k.
Right(pt, ic, cl, k, x, v) ==
    /\ k \in {2, 4, 6} => v = NumberOf(pt, DynamicOf(ic), KindAt(k), x)
    /\ k = 7 => (x \in MeshOf(pt, DynamicOf(ic)) => v = GhostOf(pt, DynamicOf(ic), x))
    /\ k \in {10, 11} => v = VelocityOf(pt, DynamicOf(ic), cl, x)
    /\ k \in {12, 13} => (HasIce(ic, x) => v = NormalOf(pt, ic, cl, x))

\* The entities a task is told about, and the tasks it has their values from.
Told(pt, k, p) == IF k \in Backwards THEN Owned[pt][p][KindAt(k)] ELSE Local[pt][p][KindAt(k)]
Givers(pt, D, k, x) ==
    IF k \in Backwards THEN OwnersAt(pt, D, KindAt(k), x) ELSE {Owner[pt][KindAt(k)][x]}

\* Nobody gives the value, or somebody who is not waited for any more.
Given(pt, D, k, x, waits) == Givers(pt, D, k, x) = {} \/ \E q \in Givers(pt, D, k, x) : q \notin waits

-----------------------------------------------------------------------------
(* The messages under way, and what has come *)

WaitsFor(list) == {list[i].from : i \in DOMAIN list}

\* What task p waits for when it comes to phase n next: each message of the exchange of the phase
\* before that has not come.
AwaitedRight(pt, D, p, n, list) ==
    /\ IsList(list)
    /\ list # <<>> => n - 1 \in Exchanges
    /\ \A i \in DOMAIN list : /\ list[i].from \in Procs
                              /\ SentSet(pt, D, n - 1, list[i].from, p) # {}
                              /\ list[i].array = ArrayAt(n - 1)
                              /\ list[i].to = ListOf(pt, D, n - 1, list[i].from, p)
    /\ \A i, j \in DOMAIN list : list[i].from = list[j].from => i = j

\* The phases of which a message is on its way from q, which comes to phase n, to p, which comes
\* to phase m and waits for those in waits.
Due(pt, D, n, m, waits, q, p) ==
    {k \in Exchanges : /\ k < n /\ SentSet(pt, D, k, q, p) # {}
                       /\ k >= m \/ (k = m - 1 /\ q \in waits)}

\* A message of phase k with the right values, and a channel with just the messages due.
Carries(pt, ic, cl, k, q, p, buffer) ==
    \A i \in DOMAIN ListOf(pt, DynamicOf(ic), k, q, p) :
        Right(pt, ic, cl, k, ListOf(pt, DynamicOf(ic), k, q, p)[i], buffer[i])
ChannelRight(pt, ic, cl, due, q, p, s) ==
    /\ IsList(s) /\ Len(s) = Cardinality(due)
    /\ \A k \in due : Carries(pt, ic, cl, k, q, p, s[Rank(due, k)])

\* What task p, coming to phase n, has in its arrays f; of a call that is given up only the
\* phases before the one that does it.
Holds(pt, ic, cl, k, p, f) == \A x \in Told(pt, k, p) : Right(pt, ic, cl, k, x, f[ArrayAt(k)][x])
HoldsGiven(pt, ic, cl, k, p, waits, f) ==
    \A x \in Told(pt, k, p) : Given(pt, DynamicOf(ic), k, x, waits) => Right(pt, ic, cl, k, x, f[ArrayAt(k)][x])
ArraysRight(pt, ic, cl, p, n, waits, ex, f) ==
    \A k \in Exchanges : k < n /\ (ex => k < 12) =>
        /\ k < n - 1 => Holds(pt, ic, cl, k, p, f)
        /\ k = n - 1 => HoldsGiven(pt, ic, cl, k, p, waits, f)

\* Nobody has a message that was not sent: p comes to phase m, q to phase n.
SentBefore(pt, D, n, m, waits, ex, q, p) ==
    \A k \in Exchanges : /\ SentSet(pt, D, k, q, p) # {} /\ (ex => k < 12)
                         /\ k < m - 1 \/ (k = m - 1 /\ q \notin waits)
                         => k < n

\* The part of the inductive invariant about messages and what they bring.
Messages ==
    /\ DOMAIN awaited = Procs /\ DOMAIN wire = Procs /\ \A q \in Procs : DOMAIN wire[q] = Procs
    /\ \A p \in Procs : AwaitedRight(partition, DynamicOf(ice), p, phase[p], awaited[p])
    /\ \A q, p \in Procs : SentBefore(partition, DynamicOf(ice), phase[q], phase[p], WaitsFor(awaited[p]), exited, q, p)
    /\ \A p \in Procs : ArraysRight(partition, ice, call, p, phase[p], WaitsFor(awaited[p]), exited, field[p])
    /\ ~exited => \A q, p \in Procs :
          ChannelRight(partition, ice, call,
                       Due(partition, DynamicOf(ice), phase[q], phase[p], WaitsFor(awaited[p]), q, p), q, p, wire[q][p])

\* An exchange and the one that passes its values on bring the same.
LEMMA SameValues ==
    ASSUME NEW pt, NEW ic, NEW cl, NEW x, NEW v
    PROVE  /\ Right(pt, ic, cl, 10, x, v) <=> Right(pt, ic, cl, 11, x, v)
           /\ Right(pt, ic, cl, 12, x, v) <=> Right(pt, ic, cl, 13, x, v)
BY DEF Right

\* With nobody to wait for everything is given.
LEMMA AllGiven ==
    ASSUME NEW pt, NEW D, NEW k, NEW x
    PROVE  Given(pt, D, k, x, {})
BY DEF Given

\* A task never waits for itself.
LEMMA NotForItself ==
    ASSUME NEW pt \in Partitions, NEW D, NEW p \in Procs, NEW n \in 1 .. 15, NEW list, AwaitedRight(pt, D, p, n, list)
    PROVE  /\ p \notin WaitsFor(list)
           /\ \A q \in WaitsFor(list) : q \in Procs /\ n - 1 \in Exchanges /\ SentSet(pt, D, n - 1, q, p) # {}
           /\ n - 1 \notin Exchanges => list = <<>> /\ WaitsFor(list) = {}
<1>1. ASSUME NEW q \in WaitsFor(list) PROVE q \in Procs /\ n - 1 \in Exchanges /\ SentSet(pt, D, n - 1, q, p) # {}
  <2>1. PICK i \in DOMAIN list : list[i].from = q
    BY DEF WaitsFor
  <2>2. list # <<>>
    BY <2>1
  <2> QED
    BY <2>1, <2>2 DEF AwaitedRight
<1>2. p \notin WaitsFor(list)
  BY <1>1, SentIs
<1> QED
  BY <1>1, <1>2 DEF AwaitedRight

\* A task that has nothing to wait for.
LEMMA NobodyAwaited ==
    ASSUME NEW pt, NEW D, NEW p, NEW n
    PROVE  AwaitedRight(pt, D, p, n, <<>>) /\ WaitsFor(<<>>) = {}
BY ListedFunctions DEF AwaitedRight, WaitsFor

\* The phases of the messages due are numbers, and few.
LEMMA DueAre ==
    ASSUME NEW pt, NEW D, NEW n, NEW m, NEW waits, NEW q, NEW p
    PROVE  /\ Due(pt, D, n, m, waits, q, p) \in SUBSET Exchanges
           /\ Due(pt, D, n, m, waits, q, p) \in SUBSET Int /\ IsFiniteSet(Due(pt, D, n, m, waits, q, p))
<1>1. Due(pt, D, n, m, waits, q, p) \in SUBSET Exchanges
  BY DEF Due
<1>2. Exchanges \in SUBSET (0 .. 14)
  BY DEF Exchanges
<1>3. Due(pt, D, n, m, waits, q, p) \in SUBSET (0 .. 14) /\ 14 \in Nat
  BY <1>1, <1>2
<1> QED
  BY <1>1, <1>3, NumbersTo

\* A task that passes phase k leaves a message for those it sends something, after all others.
LEMMA DueOnSend ==
    ASSUME NEW k \in Int, NEW m \in Int, NEW pt, NEW D, NEW waits, NEW ex, NEW p, NEW q, NEW l, l = k + 1, ~ex,
           SentBefore(pt, D, k, m, waits, ex, p, q)
    PROVE  /\ \A j \in Due(pt, D, k, m, waits, p, q) : j < k
           /\ k \in Exchanges /\ SentSet(pt, D, k, p, q) # {} =>
                 Due(pt, D, l, m, waits, p, q) = Due(pt, D, k, m, waits, p, q) \cup {k}
           /\ ~(k \in Exchanges /\ SentSet(pt, D, k, p, q) # {}) =>
                 Due(pt, D, l, m, waits, p, q) = Due(pt, D, k, m, waits, p, q)
<1> DEFINE Old == Due(pt, D, k, m, waits, p, q)
           New == Due(pt, D, l, m, waits, p, q)
           Open(j) == j >= m \/ (j = m - 1 /\ p \in waits)
<1>1. \A j \in Exchanges : j \in Int
  BY DEF Exchanges
<1>2. \A j : j \in Old <=> j \in Exchanges /\ j < k /\ SentSet(pt, D, j, p, q) # {} /\ Open(j)
  BY DEF Due
<1>3. \A j : j \in New <=> j \in Exchanges /\ j < k + 1 /\ SentSet(pt, D, j, p, q) # {} /\ Open(j)
  BY DEF Due
<1>4. k \in Exchanges /\ SentSet(pt, D, k, p, q) # {} => Open(k)
  <2> SUFFICES ASSUME k \in Exchanges, SentSet(pt, D, k, p, q) # {}, ~Open(k) PROVE FALSE
    OBVIOUS
  <2>1. k < m - 1 \/ (k = m - 1 /\ p \notin waits)
    OBVIOUS
  <2>2. k < k
    BY <2>1 DEF SentBefore
  <2> QED
    BY <2>2
<1> HIDE DEF Old, New, Open
<1>5. \A j \in Exchanges : j < k + 1 <=> j < k \/ j = k
  BY <1>1
<1>6. ~(k < k)
  OBVIOUS
<1>7. k \in Exchanges /\ SentSet(pt, D, k, p, q) # {} => New = Old \cup {k}
  <2> SUFFICES ASSUME k \in Exchanges, SentSet(pt, D, k, p, q) # {} PROVE New = Old \cup {k}
    OBVIOUS
  <2>1. \A j : j \in New <=> j \in Old \/ j = k
    BY <1>2, <1>3, <1>4, <1>5
  <2> QED
    BY <2>1
<1>8. ~(k \in Exchanges /\ SentSet(pt, D, k, p, q) # {}) => New = Old
  <2> SUFFICES ASSUME ~(k \in Exchanges /\ SentSet(pt, D, k, p, q) # {}) PROVE New = Old
    OBVIOUS
  <2>1. \A j : j \in New <=> j \in Old
    BY <1>2, <1>3, <1>5
  <2> QED
    BY <2>1
<1> QED
  BY <1>2, <1>7, <1>8 DEF Old, New

\* What is due to a task that passes phase k and then waits for all that send it something.
LEMMA DueOnWait ==
    ASSUME NEW q \in Procs, NEW k \in Int, NEW pt, NEW D, NEW n, NEW waits, NEW p, NEW l, l = k + 1,
           k \in Exchanges => waits = {r \in Procs : SentSet(pt, D, k, r, p) # {}}
    PROVE  Due(pt, D, n, l, waits, q, p) = Due(pt, D, n, k, {}, q, p)
<1> DEFINE Old == Due(pt, D, n, k, {}, q, p)
           New == Due(pt, D, n, l, waits, q, p)
<1>1. \A j \in Exchanges : j \in Int
  BY DEF Exchanges
<1>2. \A j : j \in Old <=> j \in Exchanges /\ j < n /\ SentSet(pt, D, j, q, p) # {} /\ j >= k
  BY DEF Due
<1>3. \A j : j \in New <=> j \in Exchanges /\ j < n /\ SentSet(pt, D, j, q, p) # {} /\ (j >= k + 1 \/ (j = k /\ q \in waits))
  <2>1. (k + 1) - 1 = k
    OBVIOUS
  <2> QED
    BY <2>1 DEF Due
<1>4. \A j \in Exchanges : j >= k <=> j >= k + 1 \/ j = k
  BY <1>1
<1>5. \A j \in Exchanges : SentSet(pt, D, j, q, p) # {} /\ j = k => q \in waits
  OBVIOUS
<1> HIDE DEF Old, New
<1>6. \A j : j \in New <=> j \in Old
  BY <1>2, <1>3, <1>4, <1>5
<1>7. New = Old
  BY <1>6
<1> QED
  BY <1>7 DEF Old, New

\* A message that is sent.
LEMMA ChannelGrows ==
    ASSUME NEW pt, NEW ic, NEW cl, NEW due \in SUBSET Int, NEW q, NEW p, NEW s, NEW buffer, NEW k \in Int,
           IsFiniteSet(due), ChannelRight(pt, ic, cl, due, q, p, s), \A j \in due : j < k,
           Carries(pt, ic, cl, k, q, p, buffer)
    PROVE  ChannelRight(pt, ic, cl, due \cup {k}, q, p, Append(s, buffer))
<1>1. IsList(s) /\ Len(s) = Cardinality(due) /\ \A j \in due : Carries(pt, ic, cl, j, q, p, s[Rank(due, j)])
  BY DEF ChannelRight
<1>2. /\ IsList(Append(s, buffer)) /\ Len(Append(s, buffer)) = Len(s) + 1
      /\ Append(s, buffer)[Len(s) + 1] = buffer /\ \A i \in 1 .. Len(s) : Append(s, buffer)[i] = s[i]
  BY <1>1, AppendedLast
<1>3. /\ Cardinality(due \cup {k}) = Cardinality(due) + 1 /\ Rank(due \cup {k}, k) = Cardinality(due) + 1
      /\ \A j \in due : Rank(due \cup {k}, j) = Rank(due, j)
  BY RankOfLast
<1>4. \A j \in due : Rank(due, j) \in 1 .. Cardinality(due)
  BY RanksDiffer
<1>5. ASSUME NEW j \in due \cup {k} PROVE Carries(pt, ic, cl, j, q, p, Append(s, buffer)[Rank(due \cup {k}, j)])
  <2>1. CASE j = k
    BY <1>1, <1>2, <1>3, <2>1
  <2>2. CASE j \in due
    <3>1. PICK i \in 1 .. Len(s) : i = Rank(due, j)
      BY <1>1, <1>4, <2>2
    <3>2. Append(s, buffer)[Rank(due \cup {k}, j)] = s[Rank(due, j)]
      BY <1>2, <1>3, <2>2, <3>1
    <3> QED
      BY <1>1, <2>2, <3>2
  <2> QED
    BY <2>1, <2>2
<1> QED
  BY <1>1, <1>2, <1>3, <1>5 DEF ChannelRight

\* A message that is received, the first.
LEMMA ChannelShrinks ==
    ASSUME NEW pt, NEW ic, NEW cl, NEW due \in SUBSET Int, NEW q, NEW p, NEW s, NEW k \in due,
           IsFiniteSet(due), ChannelRight(pt, ic, cl, due, q, p, s), \A j \in due : k <= j
    PROVE  /\ s # <<>> => Carries(pt, ic, cl, k, q, p, Head(s))
           /\ s # <<>> => ChannelRight(pt, ic, cl, due \ {k}, q, p, Tail(s))
<1> SUFFICES ASSUME s # <<>>
             PROVE  Carries(pt, ic, cl, k, q, p, Head(s)) /\ ChannelRight(pt, ic, cl, due \ {k}, q, p, Tail(s))
  OBVIOUS
<1>1. IsList(s) /\ Len(s) = Cardinality(due) /\ \A j \in due : Carries(pt, ic, cl, j, q, p, s[Rank(due, j)])
  BY DEF ChannelRight
<1>2. /\ IsList(Tail(s)) /\ Len(s) \in Nat \ {0} /\ Len(Tail(s)) = Len(s) - 1 /\ Head(s) = s[1]
      /\ \A i \in 1 .. Len(s) - 1 : Tail(s)[i] = s[i + 1]
  BY <1>1, FirstTaken
<1>3. /\ Rank(due, k) = 1 /\ Cardinality(due \ {k}) = Cardinality(due) - 1
      /\ \A j \in due \ {k} : Rank(due \ {k}, j) = Rank(due, j) - 1
  BY RankAfterFirst
<1>4. /\ \A j \in due : Rank(due, j) \in 1 .. Cardinality(due)
      /\ \A i, j \in due : Rank(due, i) = Rank(due, j) => i = j
  BY RanksDiffer
<1>5. ASSUME NEW j \in due \ {k} PROVE Carries(pt, ic, cl, j, q, p, Tail(s)[Rank(due \ {k}, j)])
  <2>1. PICK i \in Int : i = Rank(due, j)
    BY <1>4
  <2>2. i # 1 /\ i \in 1 .. Len(s)
    BY <1>1, <1>3, <1>4, <2>1
  <2>3. i - 1 \in 1 .. Len(s) - 1 /\ (i - 1) + 1 = i
    BY <1>2, <2>2
  <2>4. Tail(s)[i - 1] = s[i]
    BY <1>2, <2>3
  <2>5. Rank(due \ {k}, j) = i - 1
    BY <1>3, <2>1
  <2> QED
    BY <1>1, <2>1, <2>4, <2>5
<1> QED
  BY <1>1, <1>2, <1>3, <1>5 DEF ChannelRight

\* A task sends itself nothing.
LEMMA NothingToItself ==
    ASSUME NEW pt \in Partitions, NEW D, NEW n, NEW m, NEW waits, NEW p \in Procs
    PROVE  Due(pt, D, n, m, waits, p, p) = {}
BY SentIs DEF Due

\* The messages an exchange makes a task wait for.
AwaitedList(array, recv) ==
    LET from == Sorted(DOMAIN recv)
    IN  [i \in DOMAIN from |-> [from |-> from[i], array |-> array, to |-> recv[from[i]]]]

\* They are what the others send it.
LEMMA AwaitedSet ==
    ASSUME NEW pt \in Partitions, NEW k \in Exchanges, NEW p \in Procs, NEW D, NEW lists, ListsFit(pt, D, k, p, lists)
    PROVE  /\ AwaitedRight(pt, D, p, k + 1, AwaitedList(ArrayAt(k), lists.recv))
           /\ WaitsFor(AwaitedList(ArrayAt(k), lists.recv)) = {q \in Procs : SentSet(pt, D, k, q, p) # {}}
<1> DEFINE S == DOMAIN lists.recv
           from == Sorted(S)
           list == [i \in DOMAIN from |-> [from |-> from[i], array |-> ArrayAt(k), to |-> lists.recv[from[i]]]]
           N == Cardinality(S)
<1>1. S = {q \in Procs : SentSet(pt, D, k, q, p) # {}} /\ \A q \in S : lists.recv[q] = ListOf(pt, D, k, q, p)
  BY DEF ListsFit
<1>2. S \in SUBSET Int /\ IsFiniteSet(S)
  <2>1. IsFiniteSet(0 .. nprocs - 1)
    BY SizesAssumption, FS_Interval
  <2>2. S \in SUBSET (0 .. nprocs - 1)
    BY <1>1 DEF Procs
  <2>3. IsFiniteSet(S)
    BY <2>1, <2>2, FS_Subset
  <2> QED
    BY <2>2, <2>3
<1> HIDE DEF S
<1>3. /\ N \in Nat /\ from \in [1 .. N -> S] /\ \A q \in S : \E i \in 1 .. N : from[i] = q
      /\ \A i, j \in 1 .. N : from[i] = from[j] => i = j
  BY <1>2, SortedEnumerates
<1> HIDE DEF N, from
<1>4. DOMAIN from = 1 .. N /\ \A i \in 1 .. N : from[i] \in S
  BY <1>3
<1>5. DOMAIN list = 1 .. N /\ \A i \in 1 .. N : list[i] = [from |-> from[i], array |-> ArrayAt(k), to |-> lists.recv[from[i]]]
  BY <1>4
<1>6. IsList(list)
  <2>1. list \in [1 .. N -> {list[i] : i \in 1 .. N}]
    BY <1>4
  <2> HIDE DEF list
  <2> QED
    BY <1>3, <2>1, ListedFunctions
<1> HIDE DEF list
<1>7. \A i \in DOMAIN list : /\ list[i].from = from[i] /\ list[i].from \in S
                             /\ list[i].array = ArrayAt(k) /\ list[i].to = lists.recv[from[i]]
  BY <1>4, <1>5
<1>8. AwaitedRight(pt, D, p, k + 1, list)
  <2>1. (k + 1) - 1 = k
    BY ExchangesAre
  <2>2. \A i \in DOMAIN list : /\ list[i].from \in Procs /\ SentSet(pt, D, k, list[i].from, p) # {}
                               /\ list[i].array = ArrayAt(k) /\ list[i].to = ListOf(pt, D, k, list[i].from, p)
    BY <1>1, <1>7
  <2>3. \A i, j \in DOMAIN list : list[i].from = list[j].from => i = j
    BY <1>3, <1>5, <1>7
  <2> QED
    BY <1>6, <2>1, <2>2, <2>3 DEF AwaitedRight
<1>9. WaitsFor(list) = S
  <2>1. \A i \in DOMAIN list : list[i].from \in S
    BY <1>7
  <2>2. ASSUME NEW q \in S PROVE \E i \in DOMAIN list : list[i].from = q
    <3>1. PICK i \in 1 .. N : from[i] = q
      BY <1>3
    <3> QED
      BY <1>5, <1>7, <3>1
  <2> QED
    BY <2>1, <2>2 DEF WaitsFor
<1> QED
  BY <1>1, <1>8, <1>9 DEF list, from, S, AwaitedList

\* A call that is given up asks for less.
LEMMA LessWhenGivenUp ==
    ASSUME NEW pt, NEW ic, NEW cl, NEW p, NEW q, NEW n, NEW m, NEW waits, NEW f, NEW ex \in BOOLEAN
    PROVE  /\ ArraysRight(pt, ic, cl, p, n, waits, FALSE, f) => ArraysRight(pt, ic, cl, p, n, waits, ex, f)
           /\ SentBefore(pt, DynamicOf(ic), n, m, waits, FALSE, q, p) => SentBefore(pt, DynamicOf(ic), n, m, waits, ex, q, p)
BY DEF ArraysRight, SentBefore

\* A step of one task: what is to be shown of it.
LEMMA StepOfOne ==
    ASSUME Parts, Messages, exited = FALSE, NEW p \in Procs,
           partition' = partition, ice' = ice, call' = call, exited' \in BOOLEAN, phase'[p] \in 1 .. 15,
           phase'[p] >= phase[p], DOMAIN awaited' = Procs, DOMAIN wire' = Procs, \A q \in Procs : DOMAIN wire'[q] = Procs,
           \A q \in Procs : q # p => phase'[q] = phase[q] /\ awaited'[q] = awaited[q] /\ field'[q] = field[q],
           AwaitedRight(partition, DynamicOf(ice), p, phase'[p], awaited'[p]),
           ArraysRight(partition, ice, call, p, phase'[p], WaitsFor(awaited'[p]), exited', field'[p]),
           \A q \in Procs : q # p =>
              SentBefore(partition, DynamicOf(ice), phase[q], phase'[p], WaitsFor(awaited'[p]), exited', q, p),
           ~exited' => /\ \A q \in Procs : q # p =>
                             /\ ChannelRight(partition, ice, call,
                                    Due(partition, DynamicOf(ice), phase[q], phase'[p], WaitsFor(awaited'[p]), q, p), q, p, wire'[q][p])
                             /\ ChannelRight(partition, ice, call,
                                    Due(partition, DynamicOf(ice), phase'[p], phase[q], WaitsFor(awaited[q]), p, q), p, q, wire'[p][q])
                       /\ \A q, r \in Procs : (q # p /\ r # p) \/ q = r => wire'[q][r] = wire[q][r]
    PROVE  Messages'
<1>1. ASSUME NEW q \in Procs
      PROVE  /\ AwaitedRight(partition, DynamicOf(ice), q, phase'[q], awaited'[q])
             /\ ArraysRight(partition, ice, call, q, phase'[q], WaitsFor(awaited'[q]), exited', field'[q])
  <2>1. CASE q = p
    BY <2>1
  <2>2. CASE q # p
    <3>1. /\ AwaitedRight(partition, DynamicOf(ice), q, phase[q], awaited[q])
          /\ ArraysRight(partition, ice, call, q, phase[q], WaitsFor(awaited[q]), FALSE, field[q])
      BY DEF Messages
    <3> QED
      BY <2>2, <3>1, LessWhenGivenUp
  <2> QED
    BY <2>1, <2>2
<1>2. ASSUME NEW q \in Procs, NEW r \in Procs
      PROVE  SentBefore(partition, DynamicOf(ice), phase'[q], phase'[r], WaitsFor(awaited'[r]), exited', q, r)
  <2>1. SentBefore(partition, DynamicOf(ice), phase[q], phase[r], WaitsFor(awaited[r]), exited', q, r)
    <3>1. SentBefore(partition, DynamicOf(ice), phase[q], phase[r], WaitsFor(awaited[r]), FALSE, q, r)
      BY DEF Messages
    <3> QED
      BY <3>1, LessWhenGivenUp
  <2>2. CASE q = r
    BY <2>2, SentIs DEF SentBefore, Parts
  <2>3. CASE q # r /\ r = p
    BY <2>3
  <2>4. CASE q # r /\ r # p /\ q # p
    BY <2>1, <2>4
  <2>5. CASE q = p /\ r # p
    <3>1. phase'[r] = phase[r] /\ awaited'[r] = awaited[r]
      BY <2>5
    <3>2. SentBefore(partition, DynamicOf(ice), phase[p], phase[r], WaitsFor(awaited[r]), exited', p, r)
      BY <2>1, <2>5
    <3>3. \A j \in Exchanges : j < phase[p] => j < phase'[p]
      BY ExchangesAre DEF Parts
    <3>4. SentBefore(partition, DynamicOf(ice), phase'[p], phase[r], WaitsFor(awaited[r]), exited', p, r)
      BY <3>2, <3>3 DEF SentBefore
    <3> QED
      BY <2>5, <3>1, <3>4
  <2> QED
    BY <2>2, <2>3, <2>4, <2>5
<1>3. ASSUME ~exited', NEW q \in Procs, NEW r \in Procs
      PROVE  ChannelRight(partition, ice, call,
                 Due(partition, DynamicOf(ice), phase'[q], phase'[r], WaitsFor(awaited'[r]), q, r), q, r, wire'[q][r])
  <2>1. ChannelRight(partition, ice, call,
            Due(partition, DynamicOf(ice), phase[q], phase[r], WaitsFor(awaited[r]), q, r), q, r, wire[q][r])
    BY DEF Messages
  <2>2. CASE q = r
    <3>1. /\ Due(partition, DynamicOf(ice), phase[q], phase[r], WaitsFor(awaited[r]), q, r) = {}
          /\ Due(partition, DynamicOf(ice), phase'[q], phase'[r], WaitsFor(awaited'[r]), q, r) = {}
      BY <2>2, NothingToItself DEF Parts
    <3> QED
      BY <1>3, <2>1, <2>2, <3>1
  <2>3. CASE q # r /\ r = p
    BY <1>3, <2>3
  <2>4. CASE q # r /\ q = p
    BY <1>3, <2>4
  <2>5. CASE q # p /\ r # p
    BY <1>3, <2>1, <2>5
  <2> QED
    BY <2>2, <2>3, <2>4, <2>5
<1> QED
  BY <1>1, <1>2, <1>3 DEF Messages

\* A task that waits for nobody has all of the exchanges it has been through.
LEMMA AllHeld ==
    ASSUME Parts, Messages, exited = FALSE, NEW p \in Procs, awaited[p] = <<>>
    PROVE  \A j \in Exchanges : j < phase[p] => Holds(partition, ice, call, j, p, field[p])
<1> SUFFICES ASSUME NEW j \in Exchanges, j < phase[p] PROVE Holds(partition, ice, call, j, p, field[p])
  OBVIOUS
<1>1. ArraysRight(partition, ice, call, p, phase[p], {}, FALSE, field[p])
  BY NobodyAwaited DEF Messages
<1>2. phase[p] \in 1 .. 15 /\ j \in Nat
  BY ExchangesAre DEF Parts
<1>3. CASE j < phase[p] - 1
  BY <1>1, <1>3 DEF ArraysRight
<1>4. CASE j = phase[p] - 1
  BY <1>1, <1>4, AllGiven DEF ArraysRight, HoldsGiven, Holds
<1> QED
  BY <1>2, <1>3, <1>4

\* A phase without an exchange leaves no message and takes none.
LEMMA DueStays ==
    ASSUME NEW pt, NEW D, NEW k \in Int, NEW l, NEW q, NEW p, NEW n, NEW waits, k \notin Exchanges, l = k + 1
    PROVE  /\ waits = {} => Due(pt, D, n, l, waits, q, p) = Due(pt, D, n, k, waits, q, p)
           /\ Due(pt, D, l, n, waits, q, p) = Due(pt, D, k, n, waits, q, p)
<1>1. \A j \in Exchanges : j \in Int /\ j # k
  BY ExchangesAre
<1>2. \A j \in Exchanges : (j >= k + 1 <=> j >= k) /\ (j < k + 1 <=> j < k)
  BY <1>1
<1> QED
  BY <1>2 DEF Due

\* So it leaves the channels as they are.
LEMMA ChannelsStay ==
    ASSUME Messages, exited = FALSE, NEW p \in Procs, NEW k \in 1 .. 14, k \notin Exchanges,
           phase[p] = k, awaited[p] = <<>>, NEW q \in Procs, NEW l, l = k + 1
    PROVE  /\ ChannelRight(partition, ice, call, Due(partition, DynamicOf(ice), phase[q], l, {}, q, p), q, p, wire[q][p])
           /\ ChannelRight(partition, ice, call,
                  Due(partition, DynamicOf(ice), l, phase[q], WaitsFor(awaited[q]), p, q), p, q, wire[p][q])
<1>1. /\ ChannelRight(partition, ice, call, Due(partition, DynamicOf(ice), phase[q], k, {}, q, p), q, p, wire[q][p])
      /\ ChannelRight(partition, ice, call,
             Due(partition, DynamicOf(ice), k, phase[q], WaitsFor(awaited[q]), p, q), p, q, wire[p][q])
  BY NobodyAwaited DEF Messages
<1>2. /\ Due(partition, DynamicOf(ice), phase[q], l, {}, q, p) = Due(partition, DynamicOf(ice), phase[q], k, {}, q, p)
      /\ Due(partition, DynamicOf(ice), l, phase[q], WaitsFor(awaited[q]), p, q) =
            Due(partition, DynamicOf(ice), k, phase[q], WaitsFor(awaited[q]), p, q)
  BY DueStays
<1> QED
  BY <1>1, <1>2

\* A phase without an exchange, or one that gives the call up.
LEMMA LocalStep ==
    ASSUME Parts, Messages, NEW p \in Procs, NEW k \in 1 .. 14, At(p, Phases[k]),
           awaited' = awaited, wire' = wire, exited' \in BOOLEAN, k \in Exchanges => k = 12 /\ exited',
           \A q \in Procs : q # p => field'[q] = field[q],
           \A j \in Exchanges : j < k /\ Holds(partition, ice, call, j, p, field[p]) => Holds(partition, ice, call, j, p, field'[p])
    PROVE  Messages'
<1> DEFINE D == DynamicOf(ice)
<1>1. /\ phase[p] = k /\ phase'[p] = k + 1 /\ exited = FALSE /\ awaited[p] = <<>>
      /\ partition' = partition /\ ice' = ice /\ call' = call
      /\ \A q \in Procs : q # p => phase'[q] = phase[q]
  BY AtPhase DEF Parts
<1>2. partition \in Partitions /\ \A q \in Procs : phase[q] \in 1 .. 15
  BY DEF Parts
<1>3. phase'[p] \in 1 .. 15 /\ phase'[p] >= phase[p] /\ (k + 1) - 1 = k
  BY <1>1
<1>4. awaited'[p] = <<>> /\ WaitsFor(awaited'[p]) = {} /\ AwaitedRight(partition, D, p, phase'[p], awaited'[p])
  BY <1>1, NobodyAwaited
<1>5. ArraysRight(partition, ice, call, p, phase'[p], {}, exited', field'[p])
  <2>1. ASSUME NEW j \in Exchanges, j < k + 1, exited' => j < 12 PROVE Holds(partition, ice, call, j, p, field'[p])
    <3>1. j < k
      BY <2>1, ExchangesAre
    <3> QED
      BY <1>1, <2>1, <3>1, AllHeld
  <2>2. \A j \in Exchanges : j < k + 1 /\ (exited' => j < 12) => Holds(partition, ice, call, j, p, field'[p])
    BY <2>1
  <2>3. \A j \in Exchanges : Holds(partition, ice, call, j, p, field'[p]) => HoldsGiven(partition, ice, call, j, p, {}, field'[p])
    BY DEF Holds, HoldsGiven
  <2> QED
    BY <1>1, <2>2, <2>3 DEF ArraysRight
<1>6. ASSUME NEW q \in Procs
      PROVE  SentBefore(partition, D, phase[q], phase'[p], {}, exited', q, p)
  <2>1. SentBefore(partition, D, phase[q], k, {}, FALSE, q, p)
    BY <1>1, NobodyAwaited DEF Messages
  <2>2. \A j \in Exchanges : (exited' => j < 12) /\ (j < (k + 1) - 1 \/ j = (k + 1) - 1) => j < k - 1 \/ j = k - 1
    BY ExchangesAre
  <2> QED
    BY <1>1, <2>1, <2>2 DEF SentBefore
<1>7. ASSUME ~exited', NEW q \in Procs, q # p
      PROVE  /\ ChannelRight(partition, ice, call, Due(partition, D, phase[q], phase'[p], {}, q, p), q, p, wire'[q][p])
             /\ ChannelRight(partition, ice, call, Due(partition, D, phase'[p], phase[q], WaitsFor(awaited[q]), p, q), p, q, wire'[p][q])
  <2>1. k \notin Exchanges
    BY <1>7
  <2> QED
    BY <1>1, <1>7, <2>1, ChannelsStay
<1>8. DOMAIN awaited' = Procs /\ DOMAIN wire' = Procs /\ \A q \in Procs : DOMAIN wire'[q] = Procs
  BY DEF Messages
<1>9. \A q \in Procs : q # p => phase'[q] = phase[q] /\ awaited'[q] = awaited[q] /\ field'[q] = field[q]
  BY <1>1
<1>10. /\ ArraysRight(partition, ice, call, p, phase'[p], WaitsFor(awaited'[p]), exited', field'[p])
       /\ \A q \in Procs : SentBefore(partition, D, phase[q], phase'[p], WaitsFor(awaited'[p]), exited', q, p)
  BY <1>4, <1>5, <1>6
<1>11. ~exited' =>
         /\ \A q \in Procs : q # p =>
               /\ ChannelRight(partition, ice, call, Due(partition, D, phase[q], phase'[p], WaitsFor(awaited'[p]), q, p), q, p, wire'[q][p])
               /\ ChannelRight(partition, ice, call, Due(partition, D, phase'[p], phase[q], WaitsFor(awaited[q]), p, q), p, q, wire'[p][q])
         /\ \A q, r \in Procs : (q # p /\ r # p) \/ q = r => wire'[q][r] = wire[q][r]
  BY <1>4, <1>7
<1> QED
  BY <1>1, <1>3, <1>4, <1>8, <1>9, <1>10, <1>11, StepOfOne

\* What a task gives in phase k: its own, backward what it has triangles at, and what nobody has.
Mine(pt, D, k, p, x) ==
    IF k \in Backwards
    THEN p \in OwnersAt(pt, D, KindAt(k), x) \/ (Owner[pt][KindAt(k)][x] = p /\ OwnersAt(pt, D, KindAt(k), x) = {})
    ELSE Owner[pt][KindAt(k)][x] = p

\* The values of a task's block, what is its to give being right.
Gives(pt, ic, cl, k, p, values) ==
    /\ DOMAIN values = Local[pt][p][KindAt(k)]
    /\ \A x \in Local[pt][p][KindAt(k)] : Mine(pt, DynamicOf(ic), k, p, x) => Right(pt, ic, cl, k, x, values[x])

\* A message of right values.
LEMMA SentRight ==
    ASSUME NEW pt \in Partitions, NEW ic, NEW cl, NEW k \in Exchanges, NEW p \in Procs, NEW q \in Procs, NEW values, NEW buffer, Gives(pt, ic, cl, k, p, values),
           buffer = [i \in DOMAIN ListOf(pt, DynamicOf(ic), k, p, q) |-> values[ListOf(pt, DynamicOf(ic), k, p, q)[i]]]
    PROVE  Carries(pt, ic, cl, k, p, q, buffer)
<1> DEFINE list == ListOf(pt, DynamicOf(ic), k, p, q)
<1>1. ASSUME NEW i \in DOMAIN list PROVE Right(pt, ic, cl, k, list[i], values[list[i]])
  <2>1. list[i] \in SentSet(pt, DynamicOf(ic), k, p, q)
    BY ListsAre
  <2> DEFINE x == list[i]
  <2> HIDE DEF list, x
  <2>2. x \in Local[pt][p][KindAt(k)] /\ Mine(pt, DynamicOf(ic), k, p, x)
    BY <2>1, SentIs DEF Mine, x
  <2>3. Right(pt, ic, cl, k, x, values[x])
    BY <2>2 DEF Gives
  <2> QED
    BY <2>3 DEF x
<1>2. \A i \in DOMAIN list : buffer[i] = values[list[i]]
  OBVIOUS
<1> QED
  BY <1>1, <1>2 DEF Carries

\* What nobody else gives a task it has of its own.
LEMMA NotGivenIsMine ==
    ASSUME NEW pt \in Partitions, NEW D, NEW k \in Exchanges, NEW p \in Procs, NEW x \in Told(pt, k, p), NEW waits,
           waits = {q \in Procs : SentSet(pt, D, k, q, p) # {}}, Given(pt, D, k, x, waits)
    PROVE  x \in Local[pt][p][KindAt(k)] /\ Mine(pt, D, k, p, x)
<1> DEFINE kind == KindAt(k)
<1>1. kind \in Kinds
  BY ExchangesAre
<1>2. CASE k \in Backwards
  <2>1. x \in Owned[pt][p][kind] /\ x \in Entities[kind] /\ Owner[pt][kind][x] = p /\ x \in Local[pt][p][kind]
    BY <1>1, <1>2, BlocksAre, BlockHasTriangles DEF Told
  <2>2. CASE OwnersAt(pt, D, kind, x) = {}
    BY <1>2, <2>1, <2>2 DEF Mine
  <2>3. CASE OwnersAt(pt, D, kind, x) # {}
    <3>1. PICK q \in OwnersAt(pt, D, kind, x) : q \notin waits
      BY <1>2, <2>3 DEF Given, Givers
    <3>2. q \in Procs
      BY <1>1, <2>1, <3>1, OwnersAtAre
    <3>3. SentSet(pt, D, k, q, p) = {}
      BY <3>1, <3>2
    <3>4. p \in OwnersAt(pt, D, kind, x)
      BY <1>2, <2>1, <3>1, <3>3 DEF SentSet
    <3> QED
      BY <1>2, <2>1, <3>4 DEF Mine
  <2> QED
    BY <2>2, <2>3
<1>3. CASE k \notin Backwards
  <2>1. x \in Local[pt][p][kind] /\ x \in Entities[kind] /\ Owner[pt][kind][x] \in Procs
    BY <1>1, <1>3, BlockHasTriangles, OwnersAre DEF Told
  <2>2. Owner[pt][kind][x] \notin waits
    BY <1>3 DEF Given, Givers
  <2>3. SentSet(pt, D, k, Owner[pt][kind][x], p) = {}
    BY <2>1, <2>2
  <2>4. Shared(pt, Owner[pt][kind][x], p, kind) = {}
    BY <1>3, <2>3 DEF SentSet
  <2>5. x \in Owned[pt][Owner[pt][kind][x]][kind]
    BY <1>1, <2>1, BlocksAre
  <2>6. Owner[pt][kind][x] = p
    BY <2>1, <2>4, <2>5 DEF Shared
  <2> QED
    BY <1>3, <2>1, <2>6 DEF Mine
<1> QED
  BY <1>2, <1>3

\* The arrays of a task after it has sent its values.
LEMMA ArraysAfterExchange ==
    ASSUME Parts, Messages, exited = FALSE,
           NEW p \in Procs, NEW k \in Exchanges, NEW values, NEW f, NEW waits, NEW l,
           phase[p] = k, awaited[p] = <<>>, l = k + 1, f[ArrayAt(k)] = values,
           \A a \in ArrayNames : a # ArrayAt(k) => f[a] = field[p][a],
           waits = {q \in Procs : SentSet(partition, DynamicOf(ice), k, q, p) # {}},
           Gives(partition, ice, call, k, p, values)
    PROVE  ArraysRight(partition, ice, call, p, l, waits, FALSE, f)
<1>1. partition \in Partitions /\ KindAt(k) \in Kinds /\ k \in Nat
  BY ExchangesAre DEF Parts
<1>2. HoldsGiven(partition, ice, call, k, p, waits, f)
  BY <1>1, NotGivenIsMine DEF HoldsGiven, Gives
<1>3. ASSUME NEW j \in Exchanges, j < k PROVE Holds(partition, ice, call, j, p, f)
  <2>1. Holds(partition, ice, call, j, p, field[p])
    BY <1>3, AllHeld
  <2>2. CASE ArrayAt(j) # ArrayAt(k)
    <3>1. f[ArrayAt(j)] = field[p][ArrayAt(j)]
      BY <2>2, ExchangesAre
    <3> QED
      BY <2>1, <3>1 DEF Holds
  <2>3. CASE ArrayAt(j) = ArrayAt(k)
    <3>1. j = k \/ {j, k} = {10, 11} \/ {j, k} = {12, 13}
      BY <2>3, ExchangesAre
    <3>2. (j = 10 /\ k = 11) \/ (j = 12 /\ k = 13)
      <4>1. j # k /\ j < k /\ j \in Nat /\ k \in Nat
        BY <1>3, ExchangesAre
      <4>2. (j \in {10, 11} /\ k \in {10, 11}) \/ (j \in {12, 13} /\ k \in {12, 13})
        BY <3>1, <4>1
      <4> QED
        BY <4>1, <4>2
    <3>3. j \in Backwards /\ k \notin Backwards /\ KindAt(j) = KindAt(k)
      BY <3>2 DEF Backwards, KindAt
    <3>4. \A x \in Told(partition, j, p) : x \in Owned[partition][p][KindAt(k)]
      BY <3>3 DEF Told
    <3>5. \A x \in Told(partition, j, p) : x \in Local[partition][p][KindAt(k)] /\ Owner[partition][KindAt(k)][x] = p
      BY <1>1, <3>4, BlocksAre, BlockHasTriangles
    <3>6. \A x \in Told(partition, j, p) : Right(partition, ice, call, k, x, f[ArrayAt(j)][x])
      BY <2>3, <3>3, <3>5 DEF Mine, Gives
    <3>7. \A x \in Told(partition, j, p) : Right(partition, ice, call, j, x, f[ArrayAt(j)][x])
      BY <3>2, <3>6, SameValues
    <3> QED
      BY <3>7 DEF Holds
  <2> QED
    BY <2>2, <2>3
<1>4. ASSUME NEW j \in Exchanges, j < l
      PROVE  /\ j < l - 1 => Holds(partition, ice, call, j, p, f)
             /\ j = l - 1 => HoldsGiven(partition, ice, call, j, p, waits, f)
  <2>1. l - 1 = k
    BY <1>1
  <2> QED
    BY <1>2, <1>3, <2>1
<1> QED
  BY <1>4 DEF ArraysRight

\* What an exchange posts.
LEMMA Posted ==
    ASSUME NEW p \in Procs, NEW array, NEW values, NEW lists, AllToAll(p, array, values, lists),
           DOMAIN awaited = Procs, DOMAIN wire = Procs, \A q \in Procs : DOMAIN wire[q] = Procs
    PROVE  /\ DOMAIN awaited' = Procs /\ DOMAIN wire' = Procs /\ \A q \in Procs : DOMAIN wire'[q] = Procs
           /\ \A q \in Procs : q # p => awaited'[q] = awaited[q] /\ wire'[q] = wire[q]
           /\ \A q \in Procs : wire'[p][q] =
                 IF q \in DOMAIN lists.send
                 THEN Append(wire[p][q], [i \in DOMAIN lists.send[q] |-> values[lists.send[q][i]]]) ELSE wire[p][q]
           /\ awaited'[p] = AwaitedList(array, lists.recv)
<1> DEFINE posted == [q \in Procs |->
           IF q \in DOMAIN lists.send
           THEN Append(wire[p][q], [i \in DOMAIN lists.send[q] |-> values[lists.send[q][i]]]) ELSE wire[p][q]]
           list == AwaitedList(array, lists.recv)
<1>1. wire' = [wire EXCEPT ![p] = posted] /\ awaited' = [awaited EXCEPT ![p] = list]
  BY DEF AllToAll, AwaitedList
<1>2. DOMAIN posted = Procs
  OBVIOUS
<1>3. \A q \in Procs : posted[q] =
         IF q \in DOMAIN lists.send
         THEN Append(wire[p][q], [i \in DOMAIN lists.send[q] |-> values[lists.send[q][i]]]) ELSE wire[p][q]
  OBVIOUS
<1> HIDE DEF posted, list
<1>4. /\ DOMAIN awaited' = Procs /\ DOMAIN wire' = Procs /\ \A q \in Procs : DOMAIN wire'[q] = Procs
      /\ \A q \in Procs : q # p => awaited'[q] = awaited[q] /\ wire'[q] = wire[q]
      /\ wire'[p] = posted /\ awaited'[p] = list
  BY <1>1, <1>2
<1> QED
  BY <1>3, <1>4 DEF list

\* It puts the values into the task's array.
LEMMA ArrayPosted ==
    ASSUME NEW p \in Procs, NEW array \in ArrayNames, NEW values, NEW lists, AllToAll(p, array, values, lists),
           ArraysTyped(partition, field), DOMAIN values = Local[partition][p][KindOf(array)]
    PROVE  /\ field'[p][array] = values
           /\ \A a \in ArrayNames : a # array => field'[p][a] = field[p][a]
           /\ \A q \in Procs : q # p => field'[q] = field[q]
<1>1. field' = [field EXCEPT ![p][array] = values]
  BY DEF AllToAll
<1> QED
  BY <1>1 DEF ArraysTyped

\* A phase that ends with an exchange, in which the task has the right values to give.
LEMMA ExchangeStep ==
    ASSUME Parts, Messages, NEW p \in Procs, NEW k \in Exchanges, NEW values, NEW lists,
           At(p, Phases[k]), AllToAll(p, ArrayAt(k), values, lists), ListsFit(partition, DynamicOf(ice), k, p, lists),
           Gives(partition, ice, call, k, p, values), exited' = exited
    PROVE  Messages'
<1>1. /\ phase[p] = k /\ phase'[p] = k + 1 /\ exited = FALSE /\ awaited[p] = <<>>
      /\ partition' = partition /\ ice' = ice /\ call' = call
      /\ \A q \in Procs : q # p => phase'[q] = phase[q]
  BY AtPhase, ExchangesAre DEF Parts
<1>2. partition \in Partitions /\ k \in Int /\ KindAt(k) \in Kinds /\ \A q \in Procs : phase[q] \in Int
  <2>1. \A q \in Procs : phase[q] \in 1 .. 15
    BY DEF Parts
  <2> QED
    BY <2>1, ExchangesAre DEF Parts
<1>3. phase'[p] \in 1 .. 15 /\ phase'[p] >= phase[p] /\ (k + 1) - 1 = k
  BY <1>1, <1>2, ExchangesAre
<1>4. /\ DOMAIN awaited' = Procs /\ DOMAIN wire' = Procs /\ \A q \in Procs : DOMAIN wire'[q] = Procs
      /\ \A q \in Procs : q # p => awaited'[q] = awaited[q] /\ wire'[q] = wire[q]
      /\ \A q \in Procs : wire'[p][q] =
            IF q \in DOMAIN lists.send
            THEN Append(wire[p][q], [i \in DOMAIN lists.send[q] |-> values[lists.send[q][i]]]) ELSE wire[p][q]
      /\ awaited'[p] = AwaitedList(ArrayAt(k), lists.recv)
  BY Posted DEF Messages
<1>5. PICK w : w = WaitsFor(awaited'[p])
  OBVIOUS
<1>6. w = {q \in Procs : SentSet(partition, DynamicOf(ice), k, q, p) # {}} /\ AwaitedRight(partition, DynamicOf(ice), p, k + 1, awaited'[p])
  BY <1>2, <1>4, <1>5, AwaitedSet
<1>7. ArraysRight(partition, ice, call, p, k + 1, w, FALSE, field'[p]) /\ \A q \in Procs : q # p => field'[q] = field[q]
  <2>1. ArrayAt(k) \in ArrayNames /\ KindOf(ArrayAt(k)) = KindAt(k) /\ field' = [field EXCEPT ![p][ArrayAt(k)] = values]
    BY ExchangesAre DEF AllToAll
  <2>0. DOMAIN values = Local[partition][p][KindOf(ArrayAt(k))] /\ ArraysTyped(partition, field)
    BY <2>1 DEF Parts, Gives
  <2>2. /\ field'[p][ArrayAt(k)] = values
        /\ \A a \in ArrayNames : a # ArrayAt(k) => field'[p][a] = field[p][a]
        /\ \A q \in Procs : q # p => field'[q] = field[q]
    <3>1. PICK array \in ArrayNames : array = ArrayAt(k)
      BY <2>1
    <3>2. AllToAll(p, array, values, lists) /\ DOMAIN values = Local[partition][p][KindOf(array)]
      BY <2>0, <3>1
    <3>3. /\ field'[p][array] = values
          /\ \A a \in ArrayNames : a # array => field'[p][a] = field[p][a]
          /\ \A q \in Procs : q # p => field'[q] = field[q]
      BY <2>0, <3>2, ArrayPosted
    <3> QED
      BY <3>1, <3>3
  <2>3. PICK f, l : f = field'[p] /\ l = k + 1
    OBVIOUS
  <2>4. f[ArrayAt(k)] = values /\ \A a \in ArrayNames : a # ArrayAt(k) => f[a] = field[p][a]
    BY <2>2, <2>3
  <2>5. ArraysRight(partition, ice, call, p, l, w, FALSE, f)
    BY <1>1, <1>6, <2>3, <2>4, ArraysAfterExchange
  <2> QED
    BY <2>2, <2>3, <2>5
<1>8. ASSUME NEW q \in Procs
      PROVE  SentBefore(partition, DynamicOf(ice), phase[q], k + 1, w, FALSE, q, p)
  <2>1. SentBefore(partition, DynamicOf(ice), phase[q], k, {}, FALSE, q, p)
    BY <1>1, NobodyAwaited DEF Messages
  <2>2. \A j \in Exchanges : j < k => j < k - 1 \/ j = k - 1
    BY <1>2, ExchangesAre
  <2>3. SentSet(partition, DynamicOf(ice), k, q, p) # {} => q \in w
    BY <1>6
  <2> QED
    BY <1>3, <2>1, <2>2, <2>3 DEF SentBefore
<1>9. ASSUME NEW q \in Procs, q # p
      PROVE  /\ ChannelRight(partition, ice, call, Due(partition, DynamicOf(ice), phase[q], k + 1, w, q, p), q, p, wire'[q][p])
             /\ ChannelRight(partition, ice, call,
                    Due(partition, DynamicOf(ice), k + 1, phase[q], WaitsFor(awaited[q]), p, q), p, q, wire'[p][q])
  <2>1. PICK n, D, l, v : n \in Int /\ D = DynamicOf(ice) /\ l = k + 1 /\ n = phase[q] /\ v = WaitsFor(awaited[q])
    BY <1>2
  <2>2. /\ ChannelRight(partition, ice, call, Due(partition, D, n, k, {}, q, p), q, p, wire[q][p])
        /\ ChannelRight(partition, ice, call, Due(partition, D, k, n, v, p, q), p, q, wire[p][q])
        /\ SentBefore(partition, D, k, n, v, exited, p, q)
    BY <1>1, <2>1, NobodyAwaited DEF Messages
  <2>3. Due(partition, D, n, l, w, q, p) = Due(partition, D, n, k, {}, q, p)
    BY <1>2, <1>6, <2>1, DueOnWait
  <2>4. /\ \A j \in Due(partition, D, k, n, v, p, q) : j < k
        /\ SentSet(partition, D, k, p, q) # {} => Due(partition, D, l, n, v, p, q) = Due(partition, D, k, n, v, p, q) \cup {k}
        /\ SentSet(partition, D, k, p, q) = {} => Due(partition, D, l, n, v, p, q) = Due(partition, D, k, n, v, p, q)
    <3>1. k \in Int /\ n \in Int /\ l = k + 1 /\ SentBefore(partition, D, k, n, v, exited, p, q) /\ ~exited
      BY <1>1, <1>2, <2>1, <2>2
    <3>2. /\ \A j \in Due(partition, D, k, n, v, p, q) : j < k
          /\ k \in Exchanges /\ SentSet(partition, D, k, p, q) # {} =>
                Due(partition, D, l, n, v, p, q) = Due(partition, D, k, n, v, p, q) \cup {k}
          /\ ~(k \in Exchanges /\ SentSet(partition, D, k, p, q) # {}) =>
                Due(partition, D, l, n, v, p, q) = Due(partition, D, k, n, v, p, q)
      BY <3>1, DueOnSend
    <3> QED
      BY <3>2
  <2>5. wire'[q][p] = wire[q][p]
    BY <1>4, <1>9
  <2>6. DOMAIN lists.send = {r \in Procs : SentSet(partition, D, k, p, r) # {}} /\ \A r \in DOMAIN lists.send : lists.send[r] = ListOf(partition, D, k, p, r)
    BY <2>1 DEF ListsFit
  <2>7. CASE SentSet(partition, D, k, p, q) = {}
    BY <1>4, <2>1, <2>2, <2>3, <2>4, <2>5, <2>6, <2>7
  <2>8. CASE SentSet(partition, D, k, p, q) # {}
    <3>1. PICK buffer : buffer = [i \in DOMAIN ListOf(partition, D, k, p, q) |-> values[ListOf(partition, D, k, p, q)[i]]]
      OBVIOUS
    <3>2. wire'[p][q] = Append(wire[p][q], buffer)
      BY <1>4, <2>6, <2>8, <3>1
    <3>3. Carries(partition, ice, call, k, p, q, buffer)
      BY <1>2, <2>1, <3>1, SentRight
    <3>4. Due(partition, D, k, n, v, p, q) \in SUBSET Int /\ IsFiniteSet(Due(partition, D, k, n, v, p, q))
      BY DueAre
    <3>5. ChannelRight(partition, ice, call, Due(partition, D, k, n, v, p, q) \cup {k}, p, q, Append(wire[p][q], buffer))
      BY <1>2, <2>2, <2>4, <3>3, <3>4, ChannelGrows
    <3> QED
      BY <2>1, <2>2, <2>3, <2>4, <2>5, <2>8, <3>2, <3>5
  <2> QED
    BY <2>7, <2>8
<1>10. \A q, r \in Procs : (q # p /\ r # p) \/ q = r => wire'[q][r] = wire[q][r]
  <2>1. p \notin DOMAIN lists.send
    BY <1>2, SentIs DEF ListsFit
  <2> QED
    BY <1>4, <2>1
<1>11. /\ AwaitedRight(partition, DynamicOf(ice), p, phase'[p], awaited'[p])
       /\ ArraysRight(partition, ice, call, p, phase'[p], WaitsFor(awaited'[p]), exited', field'[p])
       /\ \A q \in Procs : q # p =>
             SentBefore(partition, DynamicOf(ice), phase[q], phase'[p], WaitsFor(awaited'[p]), exited', q, p)
  BY <1>1, <1>5, <1>6, <1>7, <1>8
<1>12. \A q \in Procs : q # p =>
          /\ ChannelRight(partition, ice, call,
                 Due(partition, DynamicOf(ice), phase[q], phase'[p], WaitsFor(awaited'[p]), q, p), q, p, wire'[q][p])
          /\ ChannelRight(partition, ice, call,
                 Due(partition, DynamicOf(ice), phase'[p], phase[q], WaitsFor(awaited[q]), p, q), p, q, wire'[p][q])
  BY <1>1, <1>5, <1>9
<1>13. /\ exited' \in BOOLEAN /\ phase'[p] \in 1 .. 15 /\ phase'[p] >= phase[p]
       /\ \A q \in Procs : q # p => phase'[q] = phase[q] /\ awaited'[q] = awaited[q] /\ field'[q] = field[q]
  BY <1>1, <1>3, <1>4, <1>7 DEF Parts
<1> QED
  BY <1>1, <1>4, <1>10, <1>11, <1>12, <1>13, StepOfOne

\* The next message: from task q, for these entities of an array.
IsNext(list, q, array, to) == LET m == Head(list) IN m.from = q /\ m.array = array /\ m.to = to

\* What is left to wait for.
LEMMA AwaitedLess ==
    ASSUME NEW pt, NEW D, NEW p, NEW n, NEW list, NEW q, NEW array, NEW to,
           AwaitedRight(pt, D, p, n, list), list # <<>>, IsNext(list, q, array, to)
    PROVE  /\ AwaitedRight(pt, D, p, n, Tail(list)) /\ WaitsFor(Tail(list)) = WaitsFor(list) \ {q}
           /\ q \in Procs /\ q \in WaitsFor(list) /\ n - 1 \in Exchanges
           /\ array = ArrayAt(n - 1) /\ to = ListOf(pt, D, n - 1, q, p) /\ SentSet(pt, D, n - 1, q, p) # {}
<1>0. Head(list).from = q /\ Head(list).array = array /\ Head(list).to = to
  BY DEF IsNext
<1>1. /\ IsList(list) /\ n - 1 \in Exchanges
      /\ \A i \in DOMAIN list : /\ list[i].from \in Procs /\ SentSet(pt, D, n - 1, list[i].from, p) # {}
                                /\ list[i].array = ArrayAt(n - 1) /\ list[i].to = ListOf(pt, D, n - 1, list[i].from, p)
      /\ \A i, j \in DOMAIN list : list[i].from = list[j].from => i = j
  BY DEF AwaitedRight
<1>2. /\ IsList(Tail(list)) /\ Len(list) \in Nat \ {0} /\ Head(list) = list[1]
      /\ DOMAIN list = 1 .. Len(list) /\ DOMAIN Tail(list) = 1 .. Len(list) - 1
      /\ \A i \in 1 .. Len(list) - 1 : Tail(list)[i] = list[i + 1]
  BY <1>1, FirstTaken
<1>3. PICK N \in Nat \ {0} : N = Len(list)
  BY <1>2
<1>4. 1 \in 1 .. N /\ \A i \in 1 .. N - 1 : i + 1 \in 1 .. N /\ i + 1 # 1
  BY <1>3
<1>5. \A i \in 1 .. N - 1 : i \in Int
  BY <1>3
<1>6. \A i \in 1 .. N : i = 1 \/ (i - 1 \in 1 .. N - 1 /\ (i - 1) + 1 = i)
  BY <1>3
<1>7. AwaitedRight(pt, D, p, n, Tail(list))
  <2>1. \A i \in DOMAIN Tail(list) : Tail(list)[i] = list[i + 1] /\ i + 1 \in DOMAIN list /\ i \in Int
    BY <1>2, <1>3, <1>4, <1>5
  <2>2. \A i, j \in DOMAIN Tail(list) : Tail(list)[i].from = Tail(list)[j].from => i = j
    <3> SUFFICES ASSUME NEW i \in DOMAIN Tail(list), NEW j \in DOMAIN Tail(list), Tail(list)[i].from = Tail(list)[j].from
                 PROVE  i = j
      OBVIOUS
    <3>1. i + 1 = j + 1
      BY <1>1, <2>1
    <3> QED
      BY <2>1, <3>1
  <2> QED
    BY <1>1, <1>2, <2>1, <2>2 DEF AwaitedRight
<1>8. WaitsFor(Tail(list)) = WaitsFor(list) \ {q}
  <2>1. ASSUME NEW r \in WaitsFor(Tail(list)) PROVE r \in WaitsFor(list) /\ r # q
    <3>1. PICK i \in 1 .. N - 1 : Tail(list)[i].from = r
      BY <1>2, <1>3 DEF WaitsFor
    <3>2. list[i + 1].from = r /\ i + 1 \in DOMAIN list /\ i + 1 # 1 /\ 1 \in DOMAIN list
      BY <1>2, <1>3, <1>4, <3>1
    <3> QED
      BY <1>0, <1>1, <1>2, <3>2 DEF WaitsFor
  <2>2. ASSUME NEW r \in WaitsFor(list), r # q PROVE r \in WaitsFor(Tail(list))
    <3>1. PICK i \in 1 .. N : list[i].from = r
      BY <1>2, <1>3 DEF WaitsFor
    <3>2. i # 1
      BY <1>0, <1>2, <2>2, <3>1
    <3>3. PICK j \in 1 .. N - 1 : j + 1 = i
      BY <1>6, <3>2
    <3>4. Tail(list)[j].from = r /\ j \in DOMAIN Tail(list)
      BY <1>2, <1>3, <3>1, <3>3
    <3> QED
      BY <3>4 DEF WaitsFor
  <2> QED
    BY <2>1, <2>2
<1>9. 1 \in DOMAIN list /\ list[1].from = q /\ list[1].array = array /\ list[1].to = to
  BY <1>0, <1>2, <1>3, <1>4
<1>10. q \in WaitsFor(list)
  BY <1>9 DEF WaitsFor
<1>11. q \in Procs /\ array = ArrayAt(n - 1) /\ to = ListOf(pt, D, n - 1, q, p) /\ SentSet(pt, D, n - 1, q, p) # {}
  BY <1>1, <1>9
<1> QED
  BY <1>1, <1>7, <1>8, <1>10, <1>11

\* An array over the block S after a message has been put into it.
TakenIn(S, list, buffer, old, new) ==
    \A x \in S : new[x] = IF x \in Range(list) THEN buffer[CHOOSE i \in DOMAIN list : list[i] = x] ELSE old[x]

\* A message changes one array, at the entities of its list.
LEMMA ArrayReceived ==
    ASSUME NEW p \in Procs, NEW array \in ArrayNames, NEW list, NEW buffer, ArraysTyped(partition, field),
           field' = [field EXCEPT ![p][array] = Unpacked(@, list, buffer)]
    PROVE  /\ \A q \in Procs : q # p => field'[q] = field[q]
           /\ \A a \in ArrayNames : a # array => field'[p][a] = field[p][a]
           /\ TakenIn(Local[partition][p][KindOf(array)], list, buffer, field[p][array], field'[p][array])
<1>1. DOMAIN field[p][array] = Local[partition][p][KindOf(array)]
  BY DEF ArraysTyped
<1>2. TakenIn(Local[partition][p][KindOf(array)], list, buffer, field[p][array], Unpacked(field[p][array], list, buffer))
  BY <1>1 DEF Unpacked, TakenIn
<1>3. /\ field'[p][array] = Unpacked(field[p][array], list, buffer)
      /\ \A q \in Procs : q # p => field'[q] = field[q]
      /\ \A a \in ArrayNames : a # array => field'[p][a] = field[p][a]
  BY DEF ArraysTyped
<1> QED
  BY <1>2, <1>3

\* What is given when q need not be waited for was so before, but for what q sends.
LEMMA GivenBefore ==
    ASSUME NEW pt \in Partitions, NEW k \in Exchanges, NEW p \in Procs, NEW q \in Procs, NEW D, NEW waits, NEW x,
           p \notin waits, q # p, x \in Told(pt, k, p), x \notin SentSet(pt, D, k, q, p), Given(pt, D, k, x, waits \ {q})
    PROVE  Given(pt, D, k, x, waits)
<1> DEFINE kind == KindAt(k)
<1>1. kind \in Kinds
  BY ExchangesAre
<1>2. CASE Givers(pt, D, k, x) = {}
  BY <1>2 DEF Given
<1>3. CASE Givers(pt, D, k, x) # {}
  <2>1. PICK r \in Givers(pt, D, k, x) : r \notin waits \/ r = q
    BY <1>3 DEF Given
  <2>2. CASE r \notin waits
    BY <2>2 DEF Given
  <2>3. CASE r = q /\ k \in Backwards
    <3>1. q \in OwnersAt(pt, D, kind, x) /\ x \in Owned[pt][p][kind]
      BY <2>3 DEF Givers, Told
    <3>2. x \in Entities[kind] /\ Owner[pt][kind][x] = p
      BY <1>1, <3>1, BlocksAre
    <3>3. p \in OwnersAt(pt, D, kind, x)
      BY <2>3, <3>1, <3>2 DEF SentSet
    <3> QED
      BY <2>3, <3>3 DEF Given, Givers
  <2>4. CASE r = q /\ k \notin Backwards
    <3>1. q = Owner[pt][kind][x] /\ x \in Local[pt][p][kind]
      BY <2>4 DEF Givers, Told
    <3>2. x \in Owned[pt][q][kind]
      BY <1>1, <3>1, BlocksAre, BlockHasTriangles
    <3>3. x \in SentSet(pt, D, k, q, p)
      BY <2>4, <3>1, <3>2 DEF SentSet, Shared
    <3> QED
      BY <3>3
  <2> QED
    BY <2>1, <2>2, <2>3, <2>4
<1> QED
  BY <1>2, <1>3

\* The arrays of a task after the message of task q.
LEMMA ArraysAfterReceive ==
    ASSUME Parts, Messages, exited = FALSE, NEW p \in Procs, NEW q \in Procs, NEW k \in Exchanges,
           NEW f, NEW waits, NEW list, NEW buffer,
           phase[p] - 1 = k, waits = WaitsFor(awaited[p]), q # p, p \notin waits,
           list = ListOf(partition, DynamicOf(ice), k, q, p), Carries(partition, ice, call, k, q, p, buffer),
           \A a \in ArrayNames : a # ArrayAt(k) => f[a] = field[p][a],
           TakenIn(Local[partition][p][KindAt(k)], list, buffer, field[p][ArrayAt(k)], f[ArrayAt(k)])
    PROVE  ArraysRight(partition, ice, call, p, phase[p], waits \ {q}, FALSE, f)
<1> DEFINE S == SentSet(partition, DynamicOf(ice), k, q, p)
<1>1. /\ partition \in Partitions /\ KindAt(k) \in Kinds /\ k \in Nat /\ phase[p] \in Int
      /\ ArraysRight(partition, ice, call, p, phase[p], waits, FALSE, field[p])
  <2>1. phase[p] \in 1 .. 15 /\ partition \in Partitions
    BY DEF Parts
  <2>2. ArraysRight(partition, ice, call, p, phase[p], waits, FALSE, field[p])
    BY DEF Messages
  <2>3. phase[p] \in Int
    BY <2>1
  <2> QED
    BY <2>1, <2>2, <2>3, ExchangesAre
<1>2. \A i \in DOMAIN list : list[i] \in S /\ Right(partition, ice, call, k, list[i], buffer[i])
  BY <1>1, ListsAre DEF Carries
<1>3. Range(list) = S
  BY <1>1, ListRange
<1> HIDE DEF S
<1>4. \A x : x \in Range(list) <=> x \in S
  BY <1>3
<1>5. \A x \in Told(partition, k, p) : x \in Local[partition][p][KindAt(k)]
  BY <1>1, BlockHasTriangles DEF Told
<1>6. HoldsGiven(partition, ice, call, k, p, waits \ {q}, f)
  <2> SUFFICES ASSUME NEW x \in Told(partition, k, p), Given(partition, DynamicOf(ice), k, x, waits \ {q})
               PROVE  Right(partition, ice, call, k, x, f[ArrayAt(k)][x])
    BY DEF HoldsGiven
  <2>1. CASE x \in S
    <3>1. \E i \in DOMAIN list : list[i] = x
      BY <1>3, <2>1 DEF Range
    <3>2. PICK i : i = CHOOSE j \in DOMAIN list : list[j] = x
      OBVIOUS
    <3>3. i \in DOMAIN list /\ list[i] = x
      BY <3>1, <3>2
    <3>4. f[ArrayAt(k)][x] = buffer[i]
      BY <1>4, <1>5, <2>1, <3>2 DEF TakenIn
    <3> QED
      BY <1>2, <3>3, <3>4
  <2>2. CASE x \notin S
    <3>1. f[ArrayAt(k)][x] = field[p][ArrayAt(k)][x]
      BY <1>4, <1>5, <2>2 DEF TakenIn
    <3>2. Given(partition, DynamicOf(ice), k, x, waits)
      BY <1>1, <2>2, GivenBefore DEF S
    <3>3. HoldsGiven(partition, ice, call, k, p, waits, field[p])
      BY <1>1, ExchangesAre DEF ArraysRight
    <3> QED
      BY <3>1, <3>2, <3>3 DEF HoldsGiven
  <2> QED
    BY <2>1, <2>2
<1>7. ASSUME NEW j \in Exchanges, j < k PROVE Holds(partition, ice, call, j, p, f)
  <2>1. Holds(partition, ice, call, j, p, field[p])
    <3>1. j < phase[p] /\ j < phase[p] - 1
      <4>1. j \in Int
        BY ExchangesAre
      <4> QED
        BY <1>1, <1>7, <4>1
    <3> QED
      BY <1>1, <3>1 DEF ArraysRight
  <2>2. CASE ArrayAt(j) # ArrayAt(k)
    <3>1. f[ArrayAt(j)] = field[p][ArrayAt(j)]
      BY <2>2, ExchangesAre
    <3> QED
      BY <2>1, <3>1 DEF Holds
  <2>3. CASE ArrayAt(j) = ArrayAt(k)
    <3>1. j = k \/ {j, k} = {10, 11} \/ {j, k} = {12, 13}
      BY <2>3, ExchangesAre
    <3>2. (j = 10 /\ k = 11) \/ (j = 12 /\ k = 13)
      <4>1. j # k /\ j < k /\ j \in Nat /\ k \in Nat
        BY <1>7, ExchangesAre
      <4>2. (j \in {10, 11} /\ k \in {10, 11}) \/ (j \in {12, 13} /\ k \in {12, 13})
        BY <3>1, <4>1
      <4> QED
        BY <4>1, <4>2
    <3>3. j \in Backwards /\ k \notin Backwards /\ KindAt(j) = KindAt(k)
      BY <3>2 DEF Backwards, KindAt
    <3>4. ASSUME NEW x \in Told(partition, j, p) PROVE f[ArrayAt(j)][x] = field[p][ArrayAt(j)][x]
      <4>1. x \in Owned[partition][p][KindAt(k)]
        BY <3>3 DEF Told
      <4>2. x \in Local[partition][p][KindAt(k)] /\ Owner[partition][KindAt(k)][x] = p
        BY <1>1, <4>1, BlocksAre, BlockHasTriangles
      <4>3. x \notin S
        BY <1>1, <3>3, <4>2, SentIs DEF S
      <4> QED
        BY <1>4, <2>3, <4>2, <4>3 DEF TakenIn
    <3> QED
      BY <2>1, <3>4 DEF Holds
  <2> QED
    BY <2>2, <2>3
<1>8. \A j \in Exchanges : j < phase[p] - 1 <=> j < k
  BY <1>1
<1> QED
  BY <1>6, <1>7, <1>8 DEF ArraysRight

\* The message that has come is the oldest that is due.
LEMMA NextMessage ==
    ASSUME NEW q \in Procs, NEW n \in Int, NEW m \in Int, NEW k \in Exchanges, NEW pt, NEW ic, NEW cl, NEW waits, NEW p, NEW s,
           k = m - 1, q \in waits, SentSet(pt, DynamicOf(ic), k, q, p) # {}, s # <<>>,
           ChannelRight(pt, ic, cl, Due(pt, DynamicOf(ic), n, m, waits, q, p), q, p, s)
    PROVE  /\ k < n /\ Carries(pt, ic, cl, k, q, p, Head(s))
           /\ ChannelRight(pt, ic, cl, Due(pt, DynamicOf(ic), n, m, waits \ {q}, q, p), q, p, Tail(s))
<1> DEFINE Old == Due(pt, DynamicOf(ic), n, m, waits, q, p)
           New == Due(pt, DynamicOf(ic), n, m, waits \ {q}, q, p)
<1>1. Old \in SUBSET Exchanges /\ Old \in SUBSET Int /\ IsFiniteSet(Old)
  BY DueAre
<1>2. Old # {}
  <2>1. IsList(s) /\ Len(s) = Cardinality(Old)
    BY DEF ChannelRight
  <2>2. Len(s) # 0
    BY <2>1, FirstTaken
  <2> QED
    BY <2>1, <2>2, FS_EmptySet
<1>3. \A j \in Exchanges : j \in Int
  BY ExchangesAre
<1>4. \A j : j \in Old <=> j \in Exchanges /\ j < n /\ SentSet(pt, DynamicOf(ic), j, q, p) # {} /\ (j >= m \/ j = k)
  BY DEF Due
<1>5. \A j : j \in New <=> j \in Exchanges /\ j < n /\ SentSet(pt, DynamicOf(ic), j, q, p) # {} /\ j >= m
  BY DEF Due
<1> HIDE DEF Old, New
<1>6. k < n
  <2>1. PICK j \in Old : TRUE
    BY <1>2
  <2>2. j \in Int /\ j < n /\ (j >= m \/ j = k)
    BY <1>3, <1>4
  <2> QED
    BY <1>3, <2>2
<1>7. k \in Old /\ \A j \in Old : k <= j
  <2>1. \A j \in Old : j \in Int /\ (j >= m \/ j = k)
    BY <1>3, <1>4
  <2>2. \A j \in Old : k <= j
    BY <1>3, <2>1
  <2> QED
    BY <1>4, <1>6, <2>2
<1>8. New = Old \ {k}
  <2>1. \A j \in Exchanges : j >= m => j # k
    BY <1>3
  <2>2. \A j : j \in New <=> j \in Old /\ j # k
    BY <1>4, <1>5, <2>1
  <2> QED
    BY <2>2
<1>9. ChannelRight(pt, ic, cl, Old, q, p, s)
  BY DEF Old
<1>10. Carries(pt, ic, cl, k, q, p, Head(s)) /\ ChannelRight(pt, ic, cl, Old \ {k}, q, p, Tail(s))
  BY <1>1, <1>7, <1>9, ChannelShrinks
<1> QED
  BY <1>6, <1>8, <1>10 DEF New

\* A message that comes brings right values.
LEMMA ReceiveKeepsMessages ==
    ASSUME Parts, Messages, NEW p \in Procs, Receive(p)
    PROVE  Messages'
<1> DEFINE D == DynamicOf(ice)
<1>1. PICK q, array, list, buffer :
         IsNext(awaited[p], q, array, list) /\ buffer = Head(wire[q][p])
  BY DEF IsNext
<1>2. PICK k : k = phase[p] - 1
  OBVIOUS
<1>3. /\ ~exited /\ awaited[p] # <<>> /\ wire[q][p] # <<>>
      /\ field' = [field EXCEPT ![p][array] = Unpacked(@, list, buffer)]
      /\ wire' = [wire EXCEPT ![q][p] = Tail(@)] /\ awaited' = [awaited EXCEPT ![p] = Tail(@)]
      /\ partition' = partition /\ ice' = ice /\ call' = call /\ phase' = phase /\ exited' = exited
  BY <1>1 DEF Receive, IsNext, configuration
<1>4. exited = FALSE
  BY <1>3 DEF Parts
<1>5. /\ AwaitedRight(partition, D, p, phase[p], Tail(awaited[p]))
      /\ WaitsFor(Tail(awaited[p])) = WaitsFor(awaited[p]) \ {q}
      /\ q \in Procs /\ q \in WaitsFor(awaited[p]) /\ k \in Exchanges /\ array = ArrayAt(k)
      /\ list = ListOf(partition, D, k, q, p) /\ SentSet(partition, D, k, q, p) # {}
  <2>1. PICK n, waiting : n = phase[p] /\ waiting = awaited[p]
    OBVIOUS
  <2>2. AwaitedRight(partition, D, p, n, waiting) /\ waiting # <<>> /\ IsNext(waiting, q, array, list)
    BY <1>1, <1>3, <2>1 DEF Messages
  <2> HIDE DEF D
  <2>3. /\ AwaitedRight(partition, D, p, n, Tail(waiting)) /\ WaitsFor(Tail(waiting)) = WaitsFor(waiting) \ {q}
        /\ q \in Procs /\ q \in WaitsFor(waiting) /\ n - 1 \in Exchanges
        /\ array = ArrayAt(n - 1) /\ list = ListOf(partition, D, n - 1, q, p)
        /\ SentSet(partition, D, n - 1, q, p) # {}
    BY <2>2, AwaitedLess
  <2> QED
    BY <1>2, <2>1, <2>3
<1>6. partition \in Partitions /\ (\A r \in Procs : phase[r] \in Int) /\ ArraysTyped(partition, field)
  <2>1. \A r \in Procs : phase[r] \in 1 .. 15
    BY DEF Parts
  <2> QED
    BY <2>1 DEF Parts
<1>7. p \notin WaitsFor(awaited[p]) /\ q # p
  <2>1. AwaitedRight(partition, D, p, phase[p], awaited[p]) /\ phase[p] \in 1 .. 15
    BY DEF Messages, Parts
  <2>2. p \notin WaitsFor(awaited[p])
    BY <1>6, <2>1, NotForItself
  <2> QED
    BY <1>5, <2>2
<1>8. /\ DOMAIN awaited' = Procs /\ DOMAIN wire' = Procs /\ \A r \in Procs : DOMAIN wire'[r] = Procs
      /\ awaited'[p] = Tail(awaited[p]) /\ \A r \in Procs : r # p => awaited'[r] = awaited[r]
      /\ wire'[q][p] = Tail(wire[q][p])
      /\ \A r, t \in Procs : r # q \/ t # p => wire'[r][t] = wire[r][t]
  BY <1>3, <1>5 DEF Messages
<1>9. /\ k < phase[q] /\ Carries(partition, ice, call, k, q, p, buffer)
      /\ ChannelRight(partition, ice, call,
             Due(partition, D, phase[q], phase[p], WaitsFor(awaited[p]) \ {q}, q, p), q, p, Tail(wire[q][p]))
  <2>1. PICK n, l, w, s : n \in Int /\ l \in Int /\ n = phase[q] /\ l = phase[p] /\ w = WaitsFor(awaited[p]) /\ s = wire[q][p]
    BY <1>5, <1>6
  <2>2. ChannelRight(partition, ice, call, Due(partition, D, n, l, w, q, p), q, p, s)
    BY <1>4, <1>5, <2>1 DEF Messages
  <2>3. /\ k < n /\ Carries(partition, ice, call, k, q, p, Head(s))
        /\ ChannelRight(partition, ice, call, Due(partition, D, n, l, w \ {q}, q, p), q, p, Tail(s))
    BY <1>2, <1>3, <1>5, <2>1, <2>2, NextMessage
  <2> QED
    BY <1>1, <2>1, <2>3
<1>10. /\ \A r \in Procs : r # p => field'[r] = field[r]
       /\ ArraysRight(partition, ice, call, p, phase[p], WaitsFor(awaited[p]) \ {q}, FALSE, field'[p])
  <2>1. array \in ArrayNames /\ array = ArrayAt(k) /\ KindOf(array) = KindAt(k)
    BY <1>5, ExchangesAre
  <2>2. PICK f, w : f = field'[p] /\ w = WaitsFor(awaited[p])
    OBVIOUS
  <2>3. /\ \A r \in Procs : r # p => field'[r] = field[r]
        /\ \A a \in ArrayNames : a # array => field'[p][a] = field[p][a]
        /\ TakenIn(Local[partition][p][KindOf(array)], list, buffer, field[p][array], field'[p][array])
    BY <1>3, <1>6, <2>1, ArrayReceived
  <2>4. /\ \A a \in ArrayNames : a # ArrayAt(k) => f[a] = field[p][a]
        /\ TakenIn(Local[partition][p][KindAt(k)], list, buffer, field[p][ArrayAt(k)], f[ArrayAt(k)])
    BY <2>1, <2>2, <2>3
  <2>5. phase[p] - 1 = k /\ w = WaitsFor(awaited[p]) /\ q # p /\ p \notin w
    BY <1>2, <1>7, <2>2
  <2>6. ArraysRight(partition, ice, call, p, phase[p], w \ {q}, FALSE, f)
    BY <1>4, <1>5, <1>9, <2>4, <2>5, ArraysAfterReceive
  <2> QED
    BY <2>2, <2>3, <2>6
<1>11. ASSUME NEW r \in Procs, r # p
       PROVE  SentBefore(partition, D, phase[r], phase[p], WaitsFor(awaited[p]) \ {q}, FALSE, r, p)
  <2>1. SentBefore(partition, D, phase[r], phase[p], WaitsFor(awaited[p]), FALSE, r, p)
    BY <1>4 DEF Messages
  <2> QED
    BY <1>2, <1>9, <2>1 DEF SentBefore
<1>12. ASSUME NEW r \in Procs, r # p
       PROVE  /\ ChannelRight(partition, ice, call,
                     Due(partition, D, phase[r], phase[p], WaitsFor(awaited[p]) \ {q}, r, p), r, p, wire'[r][p])
              /\ ChannelRight(partition, ice, call,
                     Due(partition, D, phase[p], phase[r], WaitsFor(awaited[r]), p, r), p, r, wire'[p][r])
  <2>1. /\ ChannelRight(partition, ice, call, Due(partition, D, phase[r], phase[p], WaitsFor(awaited[p]), r, p), r, p, wire[r][p])
        /\ ChannelRight(partition, ice, call, Due(partition, D, phase[p], phase[r], WaitsFor(awaited[r]), p, r), p, r, wire[p][r])
    BY <1>4 DEF Messages
  <2>2. wire'[p][r] = wire[p][r]
    BY <1>8, <1>12
  <2>3. CASE r = q
    BY <1>8, <1>9, <2>1, <2>2, <2>3
  <2>4. CASE r # q
    <3>1. r \in WaitsFor(awaited[p]) \ {q} <=> r \in WaitsFor(awaited[p])
      BY <2>4
    <3>2. Due(partition, D, phase[r], phase[p], WaitsFor(awaited[p]) \ {q}, r, p) =
            Due(partition, D, phase[r], phase[p], WaitsFor(awaited[p]), r, p)
      BY <3>1 DEF Due
    <3>3. wire'[r][p] = wire[r][p]
      BY <1>8, <2>4
    <3> QED
      BY <2>1, <2>2, <3>2, <3>3
  <2> QED
    BY <2>3, <2>4
<1>13. /\ AwaitedRight(partition, D, p, phase'[p], awaited'[p])
       /\ ArraysRight(partition, ice, call, p, phase'[p], WaitsFor(awaited'[p]), exited', field'[p])
       /\ \A r \in Procs : r # p =>
             SentBefore(partition, D, phase[r], phase'[p], WaitsFor(awaited'[p]), exited', r, p)
  <2> HIDE DEF D
  <2>1. PICK w : w = WaitsFor(awaited[p]) \ {q}
    OBVIOUS
  <2>2. WaitsFor(awaited'[p]) = w
    BY <1>5, <1>8, <2>1
  <2>3. AwaitedRight(partition, D, p, phase'[p], awaited'[p])
    BY <1>3, <1>5, <1>8
  <2>4. ArraysRight(partition, ice, call, p, phase'[p], w, exited', field'[p])
    BY <1>3, <1>4, <1>10, <2>1
  <2>5. \A r \in Procs : r # p => SentBefore(partition, D, phase[r], phase'[p], w, exited', r, p)
    BY <1>3, <1>4, <1>11, <2>1
  <2> QED
    BY <2>2, <2>3, <2>4, <2>5
<1>14. /\ \A r \in Procs : r # p =>
             /\ ChannelRight(partition, ice, call,
                    Due(partition, D, phase[r], phase'[p], WaitsFor(awaited'[p]), r, p), r, p, wire'[r][p])
             /\ ChannelRight(partition, ice, call,
                    Due(partition, D, phase'[p], phase[r], WaitsFor(awaited[r]), p, r), p, r, wire'[p][r])
       /\ \A r, t \in Procs : (r # p /\ t # p) \/ r = t => wire'[r][t] = wire[r][t]
  BY <1>3, <1>5, <1>7, <1>8, <1>12
<1>15. /\ exited' \in BOOLEAN /\ phase'[p] \in 1 .. 15 /\ phase'[p] >= phase[p]
       /\ \A r \in Procs : r # p => phase'[r] = phase[r] /\ awaited'[r] = awaited[r] /\ field'[r] = field[r]
  BY <1>3, <1>6, <1>8, <1>10 DEF Parts
<1> QED
  BY <1>3, <1>4, <1>8, <1>13, <1>14, <1>15, StepOfOne

\* At first there are no messages.
LEMMA MessagesInit == Init => Messages
<1> SUFFICES ASSUME Init PROVE Messages
  OBVIOUS
<1>1. /\ phase = [p \in Procs |-> 1] /\ awaited = [p \in Procs |-> <<>>] /\ exited = FALSE
      /\ wire = [p \in Procs |-> [q \in Procs |-> <<>>]]
  BY DEF Init
<1>2. \A p \in Procs : awaited[p] = <<>> /\ phase[p] = 1
  BY <1>1
<1>3. \A j \in Exchanges : j \in Int /\ j > 1
  BY DEF Exchanges
<1>4. \A p \in Procs : AwaitedRight(partition, DynamicOf(ice), p, phase[p], awaited[p]) /\ WaitsFor(awaited[p]) = {}
  BY <1>2, NobodyAwaited
<1>5. \A q, p \in Procs : SentBefore(partition, DynamicOf(ice), phase[q], phase[p], WaitsFor(awaited[p]), exited, q, p)
  BY <1>2, <1>3 DEF SentBefore
<1>6. \A p \in Procs : ArraysRight(partition, ice, call, p, phase[p], WaitsFor(awaited[p]), exited, field[p])
  BY <1>2, <1>3 DEF ArraysRight
<1>7. ASSUME NEW q \in Procs, NEW p \in Procs
      PROVE  ChannelRight(partition, ice, call,
                 Due(partition, DynamicOf(ice), phase[q], phase[p], WaitsFor(awaited[p]), q, p), q, p, wire[q][p])
  <2>1. Due(partition, DynamicOf(ice), phase[q], phase[p], WaitsFor(awaited[p]), q, p) = {}
    BY <1>2, <1>3 DEF Due
  <2>2. wire[q][p] = <<>>
    BY <1>1
  <2> QED
    BY <2>1, <2>2, ListedFunctions, FS_EmptySet DEF ChannelRight
<1> QED
  BY <1>1, <1>4, <1>5, <1>6, <1>7 DEF Messages

\* What the first exchanges bring is the same for every solve on the same mesh.
LEMMA SameMesh ==
    ASSUME NEW pt, NEW ic, NEW cl, NEW ic2, NEW cl2, NEW k, NEW p, NEW f, k \in {2, 4, 6, 7}, DynamicOf(ic2) = DynamicOf(ic),
           Holds(pt, ic, cl, k, p, f)
    PROVE  Holds(pt, ic2, cl2, k, p, f)
<1>1. k \notin {10, 11} /\ k \notin {12, 13}
  OBVIOUS
<1> QED
  BY <1>1 DEF Holds, Right

\* No message is left over from the solve before.
LEMMA NextCallKeepsMessages ==
    ASSUME Parts, Messages, NextCall
    PROVE  Messages'
<1>1. /\ exited = FALSE /\ exited' = exited /\ partition' = partition /\ field' = field /\ awaited' = awaited /\ wire' = wire
      /\ \A p \in Procs : phase[p] = 15 /\ awaited[p] = <<>>
  <2>1. ~exited /\ \A p \in Procs : phase[p] > 14 /\ awaited[p] = <<>>
    BY PhaseNames DEF NextCall, Solved, Through
  <2>2. \A p \in Procs : phase[p] \in 1 .. 15
    BY DEF Parts
  <2>3. \A p \in Procs : phase[p] = 15
    BY <2>1, <2>2
  <2> QED
    BY <2>1, <2>3 DEF NextCall, Parts
<1>2. PICK m \in {1, 9} : /\ \A p \in Procs : phase'[p] = m
                          /\ m = 9 => DynamicOf(ice') = DynamicOf(ice)
  BY NextCallPhases
<1>3. \A j \in Exchanges : j \in Int /\ j < 15 /\ (j < m => m = 9 /\ j \in {2, 4, 6, 7} /\ j # m - 1)
  BY DEF Exchanges
<1>4. \A p \in Procs : /\ AwaitedRight(partition, DynamicOf(ice'), p, phase'[p], awaited'[p])
                       /\ WaitsFor(awaited[p]) = {} /\ WaitsFor(awaited'[p]) = {}
  BY <1>1, NobodyAwaited
<1>5. \A q, p \in Procs : SentBefore(partition, DynamicOf(ice'), phase'[q], phase'[p], WaitsFor(awaited'[p]), exited, q, p)
  <2>1. m \in Int /\ \A j \in Exchanges : j < m - 1 \/ j = m - 1 => j < m
    BY <1>3
  <2> QED
    BY <1>2, <2>1 DEF SentBefore
<1>6. ASSUME NEW p \in Procs PROVE ArraysRight(partition, ice', call', p, phase'[p], {}, FALSE, field[p])
  <2>1. ASSUME NEW j \in Exchanges, j < m PROVE Holds(partition, ice', call', j, p, field[p]) /\ j # m - 1
    <3>1. Holds(partition, ice, call, j, p, field[p])
      BY <1>1, <1>3, AllHeld
    <3> QED
      BY <1>2, <1>3, <2>1, <3>1, SameMesh
  <2> QED
    BY <1>2, <2>1 DEF ArraysRight
<1>7. ASSUME NEW q \in Procs, NEW p \in Procs
      PROVE  ChannelRight(partition, ice', call',
                 Due(partition, DynamicOf(ice'), phase'[q], phase'[p], {}, q, p), q, p, wire[q][p])
  <2>1. ChannelRight(partition, ice, call, Due(partition, DynamicOf(ice), 15, 15, {}, q, p), q, p, wire[q][p])
    BY <1>1, <1>4 DEF Messages
  <2>2. Due(partition, DynamicOf(ice), 15, 15, {}, q, p) = {}
    BY <1>3 DEF Due
  <2>3. Due(partition, DynamicOf(ice'), m, m, {}, q, p) = {}
    BY <1>3 DEF Due
  <2> QED
    BY <1>2, <2>1, <2>2, <2>3 DEF ChannelRight
<1> QED
  BY <1>1, <1>4, <1>5, <1>6, <1>7 DEF Messages

-----------------------------------------------------------------------------
(* What a task has learnt besides *)

\* What is counted in the gathers of a call.
Gathered == <<"vertex", "edge", "cell">>

\* The numbers task p has given when it comes to phase n; a call that keeps the mesh asks for none.
CountsKnown(pt, D, p, n, list) ==
    /\ IsList(list)
    /\ \A i \in {1, 2, 3} : i <= Len(list) => list[i] = Amounts(pt, D, Gathered[i])[p]
    /\ n = 1 => Len(list) = 0
    /\ n \in {2, 3} => Len(list) = 1
    /\ n \in {4, 5} => Len(list) = 2
    /\ n \in {6, 7} => Len(list) = 3

\* The lists by which results travel back.
BackKnown(pt, D, p, n, g) ==
    n > 7 => ListsFit(pt, D, 10, p, g.cellsBack) /\ ListsFit(pt, D, 12, p, g.edgesBack)

\* Both sides of the edges between two triangles.
SidesKnown(pt, D, p, n, g) ==
    n > 8 => \A e \in PartOf(pt, D, p, "edge") :
        Cardinality(verticesOnEdge[e]) = 2 /\ verticesOnEdge[e] \subseteq MeshOf(pt, D) =>
            \A t \in verticesOnEdge[e] : g.trianglesOnEdge[e][t] = SideOf(pt, D, Owner[pt]["vertex"][t], t, e)

\* Edges without ice.
MaskKnown(pt, ic, p, n, f) ==
    n > 14 => \A e \in Local[pt][p]["edge"] : ~HasIce(ic, e) => f["normal"][e] = Zero

\* All a task has learnt.
KnownOf(pt, ic, p, n, list, g, f) ==
    /\ CountsKnown(pt, DynamicOf(ic), p, n, list) /\ BackKnown(pt, DynamicOf(ic), p, n, g)
    /\ SidesKnown(pt, DynamicOf(ic), p, n, g) /\ MaskKnown(pt, ic, p, n, f)
Known ==
    /\ DOMAIN counts = Procs
    /\ \A p \in Procs : KnownOf(partition, ice, p, phase[p], counts[p], grid[p], field[p])

\* A step of one task.
LEMMA KnownStep ==
    ASSUME Known, NEW p \in Procs, DOMAIN counts' = Procs, partition' = partition, ice' = ice,
           \A q \in Procs : q # p => phase'[q] = phase[q] /\ counts'[q] = counts[q] /\ grid'[q] = grid[q] /\ field'[q] = field[q],
           KnownOf(partition, ice, p, phase'[p], counts'[p], grid'[p], field'[p])
    PROVE  Known'
<1>1. ASSUME NEW q \in Procs PROVE KnownOf(partition, ice, q, phase'[q], counts'[q], grid'[q], field'[q])
  BY DEF Known
<1> QED
  BY <1>1 DEF Known

\* Phases in which a task learns nothing of this.
LEMMA KnownStays ==
    ASSUME NEW pt, NEW ic, NEW p, NEW k \in {2, 4, 6, 9, 10, 11, 12, 13}, NEW list, NEW g, NEW g2, NEW f, NEW f2,
           KnownOf(pt, ic, p, k, list, g, f),
           g2.cellsBack = g.cellsBack, g2.edgesBack = g.edgesBack, g2.trianglesOnEdge = g.trianglesOnEdge
    PROVE  KnownOf(pt, ic, p, k + 1, list, g2, f2)
<1>1. CountsKnown(pt, DynamicOf(ic), p, k + 1, list)
  BY DEF KnownOf, CountsKnown
<1>2. (k + 1 > 7 => k > 7) /\ (k + 1 > 8 => k > 8) /\ ~(k + 1 > 14)
  OBVIOUS
<1>3. BackKnown(pt, DynamicOf(ic), p, k + 1, g2)
  BY <1>2 DEF KnownOf, BackKnown
<1>4. SidesKnown(pt, DynamicOf(ic), p, k + 1, g2)
  BY <1>2 DEF KnownOf, SidesKnown
<1>5. MaskKnown(pt, ic, p, k + 1, f2)
  BY <1>2 DEF MaskKnown
<1> QED
  BY <1>1, <1>3, <1>4, <1>5 DEF KnownOf

\* With the numbers of its block's triangles a task knows which are in the mesh.
LEMMA MeshTrianglesAre ==
    ASSUME partition \in Partitions, NEW p \in Procs, Holds(partition, ice, call, 2, p, field[p])
    PROVE  /\ \A kind \in {"edge", "cell"} : \A x \in Local[partition][p][kind] :
                 MeshTriangles(p, kind, x) = Near(kind, x) \cap MeshOf(partition, DynamicOf(ice))
           /\ \A kind \in {"edge", "cell"} :
                 ToSend(p, kind) = Members(partition, DynamicOf(ice), p, kind)
<1> DEFINE D == DynamicOf(ice)
<1>1. ASSUME NEW t \in Local[partition][p]["vertex"]
      PROVE  field[p].triangleIDs[t] # NotAnId <=> t \in MeshOf(partition, D)
  <2>1. KindAt(2) = "vertex" /\ ArrayAt(2) = "triangleIDs" /\ 2 \notin Backwards
    BY DEF KindAt, ArrayAt, Backwards
  <2>2. field[p]["triangleIDs"][t] = NumberOf(partition, D, "vertex", t)
    BY <2>1 DEF Holds, Told, Right
  <2>3. t \in Vertices /\ Owner[partition]["vertex"][t] \in Procs
    BY BlockHasTriangles, OwnersAre, EntitiesAre DEF Kinds
  <2>4. InIt(partition, D, "vertex", t) <=> t \in MeshOf(partition, D)
    BY DEF InIt, Near
  <2>5. CASE t \in MeshOf(partition, D)
    <3>1. NumberOf(partition, D, "vertex", t) \in Nat
      BY <2>3, <2>4, <2>5, NumbersOfTask, EntitiesAre DEF Kinds
    <3> QED
      BY <2>2, <2>5, <3>1 DEF NotAnId
  <2>6. CASE t \notin MeshOf(partition, D)
    BY <2>2, <2>4, <2>6 DEF NumberOf
  <2> QED
    BY <2>5, <2>6
<1>2. ASSUME NEW kind \in {"edge", "cell"}, NEW x \in Local[partition][p][kind]
      PROVE  MeshTriangles(p, kind, x) = Near(kind, x) \cap MeshOf(partition, D)
  <2>1. Near(kind, x) = AroundIt(kind, x) /\ Near(kind, x) \subseteq Local[partition][p]["vertex"]
    BY BlockHasTriangles DEF Near, Kinds
  <2> QED
    BY <1>1, <2>1 DEF MeshTriangles
<1>3. ASSUME NEW kind \in {"edge", "cell"} PROVE ToSend(p, kind) = Members(partition, D, p, kind)
  <2>1. \A x \in Owned[partition][p][kind] : x \in Local[partition][p][kind]
    BY BlockHasTriangles DEF Kinds
  <2> QED
    BY <1>2, <2>1 DEF ToSend, Members, InIt
<1> QED
  BY <1>2, <1>3

\* computeLocalOffset: with the numbers of all tasks a task knows where its own begin.
LEMMA OffsetIs ==
    ASSUME Known, NEW p \in Procs, NEW i \in {1, 2, 3}, Len(counts[p]) = i, \A q \in Procs : Len(counts[q]) >= i
    PROVE  Offset(p) = SumBelow(Amounts(partition, DynamicOf(ice), Gathered[i]), p)
<1> DEFINE a == Amounts(partition, DynamicOf(ice), Gathered[i])
<1>1. a = [q \in Procs |-> a[q]]
  BY DEF Amounts
<1> HIDE DEF a
<1>2. \A q \in Procs : counts[q][i] = a[q]
  BY DEF Known, KnownOf, CountsKnown, a
<1>3. [q \in Procs |-> counts[q][Len(counts[p])]] = a
  BY <1>1, <1>2
<1> QED
  BY <1>3 DEF Offset, a

\* The numbers a task gives out are those of the mesh.
LEMMA NumberedRight ==
    ASSUME Known, partition \in Partitions, NEW p \in Procs, NEW i \in {1, 2, 3}, NEW k \in {2, 4, 6}, NEW S,
           k = 2 * i, Len(counts[p]) = i, \A q \in Procs : Len(counts[q]) >= i,
           S = Members(partition, DynamicOf(ice), p, KindAt(k))
    PROVE  Gives(partition, ice, call, k, p, Numbered(p, KindAt(k), S))
<1> DEFINE D == DynamicOf(ice)
           kind == KindAt(k)
<1>1. kind \in Kinds /\ kind = Gathered[i] /\ k \notin Backwards
  BY DEF KindAt, Kinds, Gathered, Backwards
<1>2. Offset(p) = SumBelow(Amounts(partition, D, kind), p)
  BY <1>1, OffsetIs
<1>3. DOMAIN Numbered(p, kind, S) = Local[partition][p][kind]
  BY DEF Numbered
<1>4. ASSUME NEW x \in Local[partition][p][kind], Owner[partition][kind][x] = p
      PROVE  Right(partition, ice, call, k, x, Numbered(p, kind, S)[x])
  <2>1. x \in S <=> InIt(partition, D, kind, x)
    BY <1>1, <1>4, BlockHasTriangles, BlocksAre DEF Members
  <2>2. Numbered(p, kind, S)[x] = IF x \in S THEN Offset(p) + Rank(S, x) - 1 ELSE NotAnId
    BY DEF Numbered
  <2>3. Numbered(p, kind, S)[x] = NumberOf(partition, D, kind, x)
    BY <1>2, <1>4, <2>1, <2>2 DEF NumberOf
  <2>4. k \notin {10, 11} /\ k \notin {12, 13} /\ k # 7
    OBVIOUS
  <2> QED
    BY <2>3, <2>4 DEF Right
<1> QED
  BY <1>1, <1>3, <1>4 DEF Gives, Mine

\* A task gives its number to a gather.
LEMMA GatherKnown ==
    ASSUME Known, NEW p \in Procs, NEW i \in {1, 2, 3}, NEW n, phase[p] = 2 * i - 1, Gather(p, n),
           n = Amounts(partition, DynamicOf(ice), Gathered[i])[p]
    PROVE  /\ DOMAIN counts' = Procs /\ \A q \in Procs : q # p => counts'[q] = counts[q]
           /\ CountsKnown(partition, DynamicOf(ice), p, 2 * i, counts'[p])
           /\ awaited' = awaited /\ wire' = wire
<1>1. /\ DOMAIN counts' = Procs /\ (\A q \in Procs : q # p => counts'[q] = counts[q])
      /\ counts'[p] = Append(counts[p], n) /\ awaited' = awaited /\ wire' = wire
  BY DEF Gather, Known
<1>2. CountsKnown(partition, DynamicOf(ice), p, 2 * i - 1, counts[p])
  BY DEF Known, KnownOf
<1>3. IsList(counts[p]) /\ Len(counts[p]) = i - 1
  <2>1. \A l : CountsKnown(partition, DynamicOf(ice), p, 2 * i - 1, l) => IsList(l) /\ Len(l) = i - 1
    <3> SUFFICES ASSUME NEW l, CountsKnown(partition, DynamicOf(ice), p, 2 * i - 1, l) PROVE IsList(l) /\ Len(l) = i - 1
      OBVIOUS
    <3>1. PICK m : m = 2 * i - 1
      OBVIOUS
    <3>2. IsList(l) /\ (m = 1 => Len(l) = 0) /\ (m \in {2, 3} => Len(l) = 1) /\ (m \in {4, 5} => Len(l) = 2)
      BY <3>1 DEF CountsKnown
    <3>3. (i = 1 /\ m = 1) \/ (i = 2 /\ m = 3) \/ (i = 3 /\ m = 5)
      BY <3>1
    <3>4. CASE i = 1 /\ m = 1
      BY <3>2, <3>4
    <3>5. CASE i = 2 /\ m = 3
      BY <3>2, <3>5
    <3>6. CASE i = 3 /\ m = 5
      BY <3>2, <3>6
    <3> QED
      BY <3>3, <3>4, <3>5, <3>6
  <2> QED
    BY <1>2, <2>1
<1>4. PICK list, new : list = counts[p] /\ new = Append(list, n)
  OBVIOUS
<1>5. /\ IsList(new) /\ Len(new) = i /\ new[i] = n
      /\ \A j \in 1 .. i - 1 : new[j] = list[j]
  <2>1. IsList(list) /\ Len(list) = i - 1 /\ Len(list) + 1 = i
    BY <1>3, <1>4
  <2>2. /\ IsList(new) /\ Len(new) = Len(list) + 1 /\ new[Len(list) + 1] = n
        /\ \A j \in 1 .. Len(list) : new[j] = list[j]
    BY <1>4, <2>1, AppendedLast
  <2> QED
    BY <2>1, <2>2
<1>6. \A j \in {1, 2, 3} : j <= i => new[j] = Amounts(partition, DynamicOf(ice), Gathered[j])[p]
  <2> SUFFICES ASSUME NEW j \in {1, 2, 3}, j <= i PROVE new[j] = Amounts(partition, DynamicOf(ice), Gathered[j])[p]
    OBVIOUS
  <2>1. CASE j = i
    BY <1>5, <2>1
  <2>2. CASE j # i
    <3>1. j \in 1 .. i - 1 /\ j <= Len(list)
      BY <1>3, <1>4, <2>2
    <3> QED
      BY <1>2, <1>4, <1>5, <3>1 DEF CountsKnown
  <2> QED
    BY <2>1, <2>2
<1>7. CountsKnown(partition, DynamicOf(ice), p, 2 * i, new)
  BY <1>5, <1>6 DEF CountsKnown
<1> QED
  BY <1>1, <1>4, <1>7

\* A phase before the eighth asks for no more than the numbers.
LEMMA EarlyKnown ==
    ASSUME NEW pt, NEW ic, NEW p, NEW n \in {2, 4, 6}, NEW list, NEW g, NEW f, CountsKnown(pt, DynamicOf(ic), p, n, list)
    PROVE  KnownOf(pt, ic, p, n, list, g, f)
BY DEF KnownOf, BackKnown, SidesKnown, MaskKnown

\* The three phases that count.
LEMMA CountsLearnt ==
    ASSUME Parts, Messages, Known, NEW p \in Procs, NumberTriangles(p) \/ NumberEdges(p) \/ NumberCells(p)
    PROVE  Messages' /\ Known'
<1> DEFINE D == DynamicOf(ice)
<1>1. field' = field /\ exited' = exited /\ DOMAIN grid' = Procs /\ \A q \in Procs : q # p => grid'[q] = grid[q]
  BY DEF NumberTriangles, NumberEdges, NumberCells, Parts
<1>2. ASSUME NEW i \in {1, 2, 3}, NEW kind, kind = Gathered[i], NEW n, At(p, Phases[2 * i - 1]), Gather(p, n), n = Amounts(partition, D, kind)[p]
      PROVE  Messages' /\ Known'
  <2>1. PICK k \in 1 .. 14 : k = 2 * i - 1 /\ k + 1 = 2 * i /\ k \notin Exchanges
    BY DEF Exchanges
  <2>2. /\ phase[p] = k /\ phase'[p] = k + 1 /\ exited = FALSE
        /\ partition' = partition /\ ice' = ice /\ \A q \in Procs : q # p => phase'[q] = phase[q]
    BY <1>2, <2>1, AtPhase DEF Parts
  <2>3. /\ DOMAIN counts' = Procs /\ \A q \in Procs : q # p => counts'[q] = counts[q]
        /\ CountsKnown(partition, D, p, 2 * i, counts'[p])
        /\ awaited' = awaited /\ wire' = wire
    BY <1>2, <2>1, <2>2, GatherKnown
  <2>4. Messages'
    BY <1>1, <1>2, <2>1, <2>2, <2>3, LocalStep DEF Parts
  <2>5. 2 * i \in {2, 4, 6}
    OBVIOUS
  <2>6. KnownOf(partition, ice, p, 2 * i, counts'[p], grid'[p], field'[p])
    BY <2>3, <2>5, EarlyKnown
  <2> QED
    BY <1>1, <2>1, <2>2, <2>3, <2>4, <2>6, KnownStep
<1>3. CASE NumberTriangles(p)
  <2>1. At(p, Phases[2 * 1 - 1]) /\ Gather(p, Cardinality(Triangles(p)))
    BY <1>3, PhaseNames DEF NumberTriangles
  <2>2. Triangles(p) = Members(partition, D, p, "vertex") /\ Gathered[1] = "vertex"
    BY DynamicIs, TrianglesAre DEF Parts, Gathered
  <2>3. Cardinality(Triangles(p)) = Amounts(partition, D, "vertex")[p]
    BY <2>2 DEF Amounts
  <2> QED
    BY <1>2, <2>1, <2>2, <2>3
<1>4. CASE NumberEdges(p) \/ NumberCells(p)
  <2>1. PICK i \in {2, 3} : At(p, Phases[2 * i - 1]) /\ Gather(p, Cardinality(ToSend(p, Gathered[i])))
    <3>1. CASE NumberEdges(p)
      <4>1. At(p, Phases[2 * 2 - 1]) /\ Gather(p, Cardinality(ToSend(p, "edge"))) /\ Gathered[2] = "edge"
        BY <3>1, PhaseNames DEF NumberEdges, Gathered
      <4> QED
        BY <4>1
    <3>2. CASE NumberCells(p)
      <4>1. At(p, Phases[2 * 3 - 1]) /\ Gather(p, Cardinality(ToSend(p, "cell"))) /\ Gathered[3] = "cell"
        BY <3>2, PhaseNames DEF NumberCells, Gathered
      <4> QED
        BY <4>1
    <3> QED
      BY <1>4, <3>1, <3>2
  <2>2. PICK k \in 1 .. 14 : k = 2 * i - 1 /\ 2 < k
    OBVIOUS
  <2>3. phase[p] = k /\ exited = FALSE /\ awaited[p] = <<>>
    BY <2>1, <2>2, AtPhase DEF Parts
  <2>4. Holds(partition, ice, call, 2, p, field[p])
    <3>1. 2 \in Exchanges
      BY DEF Exchanges
    <3> QED
      BY <2>2, <2>3, <3>1, AllHeld
  <2>5. Gathered[i] \in {"edge", "cell"}
    BY DEF Gathered
  <2>6. ToSend(p, Gathered[i]) = Members(partition, D, p, Gathered[i])
    BY <2>4, <2>5, MeshTrianglesAre DEF Parts
  <2>7. Cardinality(ToSend(p, Gathered[i])) = Amounts(partition, D, Gathered[i])[p]
    BY <2>6 DEF Amounts
  <2> QED
    BY <1>2, <2>1, <2>7
<1> QED
  BY <1>3, <1>4

\* The three phases that give out numbers.
LEMMA NumbersLearnt ==
    ASSUME Parts, Messages, Known, NEW p \in Procs, ShareTriangleIDs(p) \/ ShareEdgeIDs(p) \/ ShareCellIDs(p)
    PROVE  Messages' /\ Known'
<1> DEFINE D == DynamicOf(ice)
           own(k) == IF k = 2 THEN grid[p].triangles ELSE ToSend(p, KindAt(k))
<1>1. PICK k \in {2, 4, 6} :
         /\ At(p, Phases[k]) /\ AllToAll(p, ArrayAt(k), Numbered(p, KindAt(k), own(k)), Forward(p, KindAt(k)))
         /\ grid' = grid /\ exited' = exited
  <2>1. CASE ShareTriangleIDs(p)
    <3>1. KindAt(2) = "vertex" /\ ArrayAt(2) = "triangleIDs"
      BY DEF KindAt, ArrayAt
    <3> QED
      BY <2>1, <3>1, PhaseNames DEF ShareTriangleIDs
  <2>2. CASE ShareEdgeIDs(p)
    <3>1. KindAt(4) = "edge" /\ ArrayAt(4) = "edgeIDs"
      BY DEF KindAt, ArrayAt
    <3> QED
      BY <2>2, <3>1, PhaseNames DEF ShareEdgeIDs
  <2>3. CASE ShareCellIDs(p)
    <3>1. KindAt(6) = "cell" /\ ArrayAt(6) = "cellIDs"
      BY DEF KindAt, ArrayAt
    <3> QED
      BY <2>3, <3>1, PhaseNames DEF ShareCellIDs
  <2> QED
    BY <2>1, <2>2, <2>3
<1>2. k \in Exchanges /\ k \notin Backwards /\ k \in 1 .. 14 /\ k > 1
  BY DEF Exchanges, Backwards
<1>3. /\ phase[p] = k /\ phase'[p] = k + 1 /\ exited = FALSE /\ awaited[p] = <<>>
      /\ \A q \in Procs : Len(counts[q]) >= Len(counts[p])
      /\ partition' = partition /\ ice' = ice /\ \A q \in Procs : q # p => phase'[q] = phase[q]
  BY <1>1, <1>2, AtPhase DEF Parts
<1>4. own(k) = Members(partition, D, p, KindAt(k))
  <2>1. CASE k = 2
    <3>1. grid[p].triangles = TrianglesOf(partition, D, p)
      BY <1>2, <1>3, FieldsOfPart
    <3> QED
      BY <2>1, <3>1, TrianglesAre DEF KindAt, Parts
  <2>2. CASE k # 2
    <3>1. KindAt(k) \in {"edge", "cell"} /\ 2 < k /\ 2 \in Exchanges
      BY <2>2 DEF KindAt, Exchanges
    <3>2. Holds(partition, ice, call, 2, p, field[p])
      BY <1>3, <3>1, AllHeld
    <3> QED
      BY <2>2, <3>1, <3>2, MeshTrianglesAre DEF Parts
  <2> QED
    BY <2>1, <2>2
<1>5. PICK S : S = own(k)
  OBVIOUS
<1> HIDE DEF own
<1>6. Gives(partition, ice, call, k, p, Numbered(p, KindAt(k), S))
  <2>1. PICK i \in {1, 2, 3} : k = 2 * i
    OBVIOUS
  <2>2. CountsKnown(partition, D, p, k, counts[p])
    BY <1>3 DEF Known, KnownOf
  <2>4. /\ k = 2 => Len(counts[p]) = 1
        /\ k = 4 => Len(counts[p]) = 2
        /\ k = 6 => Len(counts[p]) = 3
    <3> HIDE DEF D
    <3> QED
      BY <2>2 DEF CountsKnown
  <2>5. (k = 2 /\ i = 1) \/ (k = 4 /\ i = 2) \/ (k = 6 /\ i = 3)
    BY <2>1
  <2>3. Len(counts[p]) = i
    BY <2>4, <2>5
  <2> QED
    BY <1>3, <1>4, <1>5, <2>1, <2>3, NumberedRight DEF Parts
<1>7. ListsFit(partition, D, k, p, Forward(p, KindAt(k)))
  BY <1>2, ForwardFits DEF Parts
<1>8. Messages'
  BY <1>1, <1>2, <1>5, <1>6, <1>7, ExchangeStep
<1>9. KnownOf(partition, ice, p, k + 1, counts[p], grid[p], field'[p])
  <2>1. KnownOf(partition, ice, p, k, counts[p], grid[p], field[p])
    BY <1>3 DEF Known
  <2> QED
    BY <2>1, KnownStays
<1>10. counts' = counts /\ \A q \in Procs : q # p => field'[q] = field[q]
  BY <1>1 DEF AllToAll, Parts, ArraysTyped
<1>11. DOMAIN counts = Procs
  BY DEF Known
<1> QED
  BY <1>1, <1>3, <1>8, <1>9, <1>10, <1>11, KnownStep

-----------------------------------------------------------------------------
(* The lists backward, and the neighbours *)

\* A task's array of numbers over its block.
NumbersIn(pt, D, kind, p, ids) == \A x \in Local[pt][p][kind] : ids[x] = NumberOf(pt, D, kind, x)

\* The numbers a task has been told.
LEMMA NumbersHeld ==
    ASSUME NEW ic, NEW cl, NEW p \in Procs, NEW f, NEW pt
    PROVE  /\ Holds(pt, ic, cl, 2, p, f) => NumbersIn(pt, DynamicOf(ic), "vertex", p, f.triangleIDs)
           /\ Holds(pt, ic, cl, 4, p, f) => NumbersIn(pt, DynamicOf(ic), "edge", p, f.edgeIDs)
           /\ Holds(pt, ic, cl, 6, p, f) => NumbersIn(pt, DynamicOf(ic), "cell", p, f.cellIDs)
<1>1. /\ KindAt(2) = "vertex" /\ ArrayAt(2) = "triangleIDs" /\ KindAt(4) = "edge" /\ ArrayAt(4) = "edgeIDs"
      /\ KindAt(6) = "cell" /\ ArrayAt(6) = "cellIDs" /\ 2 \notin Backwards /\ 4 \notin Backwards /\ 6 \notin Backwards
  BY DEF KindAt, ArrayAt, Backwards
<1>2. \A k \in {2, 4, 6} : Holds(pt, ic, cl, k, p, f) =>
         \A x \in Local[pt][p][KindAt(k)] : f[ArrayAt(k)][x] = NumberOf(pt, DynamicOf(ic), KindAt(k), x)
  BY <1>1 DEF Holds, Told, Right
<1> QED
  BY <1>1, <1>2 DEF NumbersIn

\* With the right numbers the order of an array of numbers is that of the mesh.
LEMMA OrdersAgree ==
    ASSUME NEW pt \in Partitions, NEW p \in Procs, NEW kind \in Kinds, NEW D, NEW ids, NEW S, NumbersIn(pt, D, kind, p, ids),
           \A x \in S : x \in Local[pt][p][kind] /\ InIt(pt, D, kind, x)
    PROVE  InOrder(S, ids) = ByNumber(pt, D, kind, S)
<1> DEFINE n(x) == NumberOf(pt, D, kind, x)
           N == {n(x) : x \in S}
<1>1. \A x \in S : ids[x] = n(x)
  BY DEF NumbersIn
<1>2. {ids[x] : x \in S} = N
  BY <1>1
<1>3. \A x, y \in S : n(x) = n(y) => x = y
  <2>1. \A x \in S : x \in Entities[kind] /\ InIt(pt, D, kind, x)
    BY BlockHasTriangles
  <2> QED
    BY <2>1, NumbersAre
<1>4. N \in SUBSET Int /\ IsFiniteSet(N)
  <2> DEFINE mesh == {x \in Entities[kind] : InIt(pt, D, kind, x)}
  <2>1. S \in SUBSET mesh
    BY BlockHasTriangles
  <2>2. {n(x) : x \in mesh} = 0 .. Cardinality(mesh) - 1
    BY NumbersAre
  <2>3. IsFiniteSet(mesh) /\ Cardinality(mesh) \in Nat
    BY EntitiesAre, FS_Subset, FS_CardinalityType
  <2> HIDE DEF mesh, n
  <2>4. N \in SUBSET (0 .. Cardinality(mesh) - 1)
    BY <2>1, <2>2
  <2>5. IsFiniteSet(0 .. Cardinality(mesh) - 1)
    BY <2>3, FS_Interval
  <2>6. IsFiniteSet(N)
    BY <2>4, <2>5, FS_Subset
  <2> QED
    BY <2>3, <2>4, <2>6
<1> HIDE DEF n
<1>5. \A i \in DOMAIN Sorted(N) : Sorted(N)[i] \in N
  <2> HIDE DEF N
  <2> QED
    BY <1>4, OverSorted
<1>6. ASSUME NEW i \in DOMAIN Sorted(N)
      PROVE  (CHOOSE x \in S : ids[x] = Sorted(N)[i]) = (CHOOSE x \in S : n(x) = Sorted(N)[i])
  <2>1. PICK y \in S : n(y) = Sorted(N)[i]
    BY <1>5
  <2>2. /\ (CHOOSE x \in S : ids[x] = Sorted(N)[i]) \in S
        /\ n(CHOOSE x \in S : ids[x] = Sorted(N)[i]) = Sorted(N)[i]
    BY <1>1, <2>1
  <2>3. /\ (CHOOSE x \in S : n(x) = Sorted(N)[i]) \in S
        /\ n(CHOOSE x \in S : n(x) = Sorted(N)[i]) = Sorted(N)[i]
    BY <2>1
  <2> QED
    BY <1>3, <2>2, <2>3
<1>7. InOrder(S, ids) = [i \in DOMAIN Sorted(N) |-> CHOOSE x \in S : ids[x] = Sorted(N)[i]]
  <2> DEFINE M == {ids[x] : x \in S}
  <2>1. InOrder(S, ids) = [i \in DOMAIN Sorted(M) |-> CHOOSE x \in S : ids[x] = Sorted(M)[i]]
    BY Zenon DEF InOrder
  <2>2. M = N
    BY <1>2
  <2> HIDE DEF M, N
  <2> QED
    BY <2>1, <2>2, Zenon
<1>8. ByNumber(pt, D, kind, S) = [i \in DOMAIN Sorted(N) |-> CHOOSE x \in S : n(x) = Sorted(N)[i]]
  BY DEF ByNumber, n
<1> HIDE DEF N
<1>9. [i \in DOMAIN Sorted(N) |-> CHOOSE x \in S : ids[x] = Sorted(N)[i]] =
         [i \in DOMAIN Sorted(N) |-> CHOOSE x \in S : n(x) = Sorted(N)[i]]
  BY <1>6
<1> QED
  BY <1>7, <1>8, <1>9

\* createReverseCellsExchangeLists and createReverseEdgesExchangeLists make lists that fit.
LEMMA ReverseFits ==
    ASSUME partition \in Partitions, NEW k \in Exchanges, k \in Backwards, NEW p \in Procs, NEW kind \in {"edge", "cell"},
           NEW D, NEW mesh, NEW ids,
           D = DynamicOf(ice), kind = KindAt(k), mesh = PartOf(partition, D, p, kind), grid[p].triangles = TrianglesOf(partition, D, p),
           NumbersIn(partition, D, kind, p, ids), Holds(partition, ice, call, 2, p, field[p])
    PROVE  ListsFit(partition, D, k, p, ReverseLists(p, kind, mesh, ids))
<1>1. kind \in Kinds
  BY DEF Kinds
<1>2. ASSUME NEW x \in Local[partition][p][kind]
      PROVE  TrianglesProcIds(p, kind, x) = OwnersAt(partition, D, kind, x) /\ x \in Entities[kind]
  <2>1. MeshTriangles(p, kind, x) = Near(kind, x) \cap MeshOf(partition, D)
    BY MeshTrianglesAre
  <2>2. Owner[partition].vertex = Owner[partition]["vertex"]
    OBVIOUS
  <2> QED
    BY <1>1, <2>1, BlockHasTriangles DEF TrianglesProcIds, OwnersAt
<1>3. \A x \in Entities[kind] : /\ \A q \in Procs : q \in OwnersAt(partition, D, kind, x) <=> x \in PartOf(partition, D, q, kind)
                                /\ OwnersAt(partition, D, kind, x) # {} <=> InIt(partition, D, kind, x)
  BY <1>1, OwnersAtAre
<1>4. mesh \in SUBSET Local[partition][p][kind]
  BY <1>1, PartsAre
<1>5. ASSUME NEW q \in Procs PROVE SendMap(p, kind, mesh, q) = SentSet(partition, D, k, p, q)
  <2>1. SentSet(partition, D, k, p, q) = {x \in Entities[kind] : /\ Owner[partition][kind][x] = q
                                                                 /\ p \in OwnersAt(partition, D, kind, x)
                                                                 /\ q \notin OwnersAt(partition, D, kind, x)}
    BY DEF SentSet
  <2>2. \A x : x \in SendMap(p, kind, mesh, q) <=> x \in mesh /\ q # p /\ Owner[partition][kind][x] = q /\ q \notin TrianglesProcIds(p, kind, x)
    BY DEF SendMap
  <2>3. \A x \in mesh : x \in Entities[kind] /\ TrianglesProcIds(p, kind, x) = OwnersAt(partition, D, kind, x) /\ p \in OwnersAt(partition, D, kind, x)
    BY <1>2, <1>3, <1>4
  <2>4. \A x \in Entities[kind] : p \in OwnersAt(partition, D, kind, x) => x \in mesh
    BY <1>3
  <2>5. \A x : x \in SendMap(p, kind, mesh, q) <=> x \in SentSet(partition, D, k, p, q)
    BY <2>1, <2>2, <2>3, <2>4
  <2> QED
    BY <2>5
<1>6. ASSUME NEW q \in Procs PROVE ReceiveMap(p, kind, q) = SentSet(partition, D, k, q, p)
  <2>1. SentSet(partition, D, k, q, p) = {x \in Entities[kind] : /\ Owner[partition][kind][x] = p
                                                                 /\ q \in OwnersAt(partition, D, kind, x)
                                                                 /\ p \notin OwnersAt(partition, D, kind, x)}
    BY DEF SentSet
  <2>2. ToSend(p, kind) = Members(partition, D, p, kind)
    BY MeshTrianglesAre
  <2>3. Owned[partition][p][kind] = {x \in Entities[kind] : Owner[partition][kind][x] = p}
        /\ Owned[partition][p][kind] \subseteq Local[partition][p][kind]
    BY <1>1, BlocksAre, BlockHasTriangles
  <2>4. \A x \in Entities[kind] : LocalTriangles(p, kind, x) = {} <=> p \notin OwnersAt(partition, D, kind, x)
    <3>1. \A x \in Entities[kind] : LocalTriangles(p, kind, x) = Near(kind, x) \cap TrianglesOf(partition, D, p)
      BY DEF LocalTriangles, Near
    <3>2. \A x \in Entities[kind] : x \in PartOf(partition, D, p, kind) <=> Near(kind, x) \cap TrianglesOf(partition, D, p) # {}
      BY DEF PartOf
    <3> QED
      BY <1>3, <3>1, <3>2
  <2>5. \A x : x \in ReceiveMap(p, kind, q) <=>
            x \in Members(partition, D, p, kind) /\ LocalTriangles(p, kind, x) = {} /\ q \in TrianglesProcIds(p, kind, x)
    BY <2>2 DEF ReceiveMap, ToReceive
  <2>6. \A x : x \in Members(partition, D, p, kind) <=>
            x \in Entities[kind] /\ Owner[partition][kind][x] = p /\ InIt(partition, D, kind, x)
    BY <2>3 DEF Members
  <2>7. \A x \in Entities[kind] : Owner[partition][kind][x] = p =>
            TrianglesProcIds(p, kind, x) = OwnersAt(partition, D, kind, x)
    BY <1>2, <2>3
  <2>8. \A x : x \in ReceiveMap(p, kind, q) <=> x \in SentSet(partition, D, k, q, p)
    BY <1>3, <2>1, <2>4, <2>5, <2>6, <2>7
  <2> QED
    BY <2>8
<1>7. ASSUME NEW q \in Procs, NEW r \in Procs, p \in {q, r}
      PROVE  InOrder(SentSet(partition, D, k, q, r), ids) = ListOf(partition, D, k, q, r)
  <2>1. PICK S : S = SentSet(partition, D, k, q, r)
    OBVIOUS
  <2>2. \A x \in S : x \in Local[partition][p][kind] /\ InIt(partition, D, kind, x)
    BY <1>1, <1>3, <1>7, <2>1, SentIs
  <2>3. InOrder(S, ids) = ByNumber(partition, D, kind, S)
    BY <1>1, <2>2, OrdersAgree
  <2> QED
    BY <2>1, <2>3 DEF ListOf
<1>8. /\ ReverseLists(p, kind, mesh, ids).send =
            [q \in {r \in Procs : SendMap(p, kind, mesh, r) # {}} |-> InOrder(SendMap(p, kind, mesh, q), ids)]
      /\ ReverseLists(p, kind, mesh, ids).recv =
            [q \in {r \in Procs : ReceiveMap(p, kind, r) # {}} |-> InOrder(ReceiveMap(p, kind, q), ids)]
  BY DEF ReverseLists
<1> QED
  BY <1>5, <1>6, <1>7, <1>8 DEF ListsFit

\* A triangle has three different corners, its cells.
LEMMA CornersDiffer ==
    ASSUME NEW t \in Vertices, NEW v, v = VerticesOnTria(t)
    PROVE  CellsOf("vertex", t) = {v[1], v[2], v[3]} /\ v[1] # v[2] /\ v[1] # v[3] /\ v[2] # v[3]
<1> DEFINE c == cellsOnVertex[t]
<1>1. c \in [1 .. 3 -> Cells] /\ IsInjective(c)
  BY MeshAssumption
<1>2. CellsOf("vertex", t) = {c[1], c[2], c[3]} /\ c[1] # c[2] /\ c[1] # c[3] /\ c[2] # c[3]
  <2>1. CellsOf("vertex", t) = {c[1], c[2], c[3]}
    BY <1>1 DEF CellsOf, Range
  <2>2. DOMAIN c = 1 .. 3 /\ \A i, j \in DOMAIN c : c[i] = c[j] => i = j
    BY <1>1 DEF IsInjective
  <2>3. 1 \in DOMAIN c /\ 2 \in DOMAIN c /\ 3 \in DOMAIN c /\ 1 # 2 /\ 1 # 3 /\ 2 # 3
    BY <2>2
  <2> HIDE DEF c
  <2> QED
    BY <2>1, <2>2, <2>3
<1>3. v = IF t \in Clockwise THEN <<c[1], c[3], c[2]>> ELSE c
  BY DEF VerticesOnTria
<1> HIDE DEF c
<1>4. \/ v[1] = c[1] /\ v[2] = c[3] /\ v[3] = c[2]
      \/ v[1] = c[1] /\ v[2] = c[2] /\ v[3] = c[3]
  BY <1>3
<1> QED
  BY <1>2, <1>4

\* The ends of an edge of a triangle tell its position, and a position the ends.
LEMMA PositionIs ==
    ASSUME NEW t \in Vertices, NEW e \in Edges, NEW v, v = VerticesOnTria(t), t \in verticesOnEdge[e]
    PROVE  /\ Position(v, e) \in {0, 1, 2}
           /\ Position(v, e) = 0 => CellsOf("edge", e) = {v[1], v[2]}
           /\ Position(v, e) = 1 => CellsOf("edge", e) = {v[2], v[3]}
           /\ Position(v, e) = 2 => CellsOf("edge", e) = {v[1], v[3]}
<1>1. PICK c, d : CellsOf("edge", e) = {c, d} /\ c # d
  <2>1. cellsOnEdge[e] \in [1 .. 2 -> Cells] /\ IsInjective(cellsOnEdge[e])
    BY MeshAssumption
  <2>2. CellsOf("edge", e) = {cellsOnEdge[e][1], cellsOnEdge[e][2]} /\ cellsOnEdge[e][1] # cellsOnEdge[e][2]
    BY <2>1 DEF CellsOf, Range, IsInjective
  <2> QED
    BY <2>2
<1>2. c \in CellsOf("vertex", t) /\ d \in CellsOf("vertex", t)
  BY <1>1 DEF verticesOnEdge
<1>3. CellsOf("vertex", t) = {v[1], v[2], v[3]} /\ v[1] # v[2] /\ v[1] # v[3] /\ v[2] # v[3]
  BY CornersDiffer
<1>4. PICK u1, u2, u3 : u1 = v[1] /\ u2 = v[2] /\ u3 = v[3]
  OBVIOUS
<1>5. Position(v, e) = IF {c, d} = {u2, u3} THEN 1 ELSE IF {c, d} = {u1, u3} THEN 2 ELSE 0
  BY <1>1, <1>4 DEF Position
<1>6. \/ {c, d} = {u1, u2} /\ {c, d} # {u2, u3} /\ {c, d} # {u1, u3}
      \/ {c, d} = {u2, u3}
      \/ {c, d} = {u1, u3} /\ {c, d} # {u2, u3}
  <2>1. c \in {u1, u2, u3} /\ d \in {u1, u2, u3} /\ c # d /\ u1 # u2 /\ u1 # u3 /\ u2 # u3
    BY <1>1, <1>2, <1>3, <1>4
  <2> QED
    BY <2>1
<1>7. \/ Position(v, e) = 0 /\ {c, d} = {u1, u2}
      \/ Position(v, e) = 1 /\ {c, d} = {u2, u3}
      \/ Position(v, e) = 2 /\ {c, d} = {u1, u3}
  BY <1>5, <1>6
<1> QED
  BY <1>1, <1>4, <1>7

\* A triangle has one edge at each position.
LEMMA EdgeAtIs ==
    ASSUME NEW t \in Vertices, NEW j \in {0, 1, 2}
    PROVE  /\ EdgeAt(t, j) \in Edges /\ t \in verticesOnEdge[EdgeAt(t, j)]
           /\ \A e \in Edges : t \in verticesOnEdge[e] => (Position(VerticesOnTria(t), e) = j <=> e = EdgeAt(t, j))
<1>1. PICK v : v = VerticesOnTria(t)
  OBVIOUS
<1>2. CellsOf("vertex", t) = {v[1], v[2], v[3]} /\ v[1] # v[2] /\ v[1] # v[3] /\ v[2] # v[3]
  BY <1>1, CornersDiffer
<1>3. PICK c, d : c # d /\ {c, d} \subseteq CellsOf("vertex", t) /\ {c, d} = IF j = 0 THEN {v[1], v[2]} ELSE IF j = 1 THEN {v[2], v[3]} ELSE {v[1], v[3]}
  <2>1. CASE j = 0
    <3>1. v[1] # v[2] /\ {v[1], v[2]} \subseteq CellsOf("vertex", t)
      BY <1>2
    <3> QED
      BY <2>1, <3>1
  <2>2. CASE j = 1
    <3>1. v[2] # v[3] /\ {v[2], v[3]} \subseteq CellsOf("vertex", t)
      BY <1>2
    <3> QED
      BY <2>2, <3>1
  <2>3. CASE j = 2
    <3>1. v[1] # v[3] /\ {v[1], v[3]} \subseteq CellsOf("vertex", t)
      BY <1>2
    <3> QED
      BY <2>3, <3>1
  <2> QED
    BY <2>1, <2>2, <2>3
<1>4. PICK f \in Edges : CellsOf("edge", f) = {c, d}
  BY <1>3, MeshAssumption
<1>5. t \in verticesOnEdge[f]
  BY <1>3, <1>4 DEF verticesOnEdge
<1>6. Position(v, f) = j
  <2>1. PICK u1, u2, u3 : u1 = v[1] /\ u2 = v[2] /\ u3 = v[3]
    OBVIOUS
  <2>2. Position(v, f) = IF {c, d} = {u2, u3} THEN 1 ELSE IF {c, d} = {u1, u3} THEN 2 ELSE 0
    BY <1>4, <2>1 DEF Position
  <2>3. u1 # u2 /\ u1 # u3 /\ u2 # u3
    BY <1>2, <2>1
  <2>4. {u1, u2} # {u2, u3} /\ {u1, u2} # {u1, u3} /\ {u1, u3} # {u2, u3}
    BY <2>3
  <2>5. \/ j = 0 /\ {c, d} = {u1, u2}
        \/ j = 1 /\ {c, d} = {u2, u3}
        \/ j = 2 /\ {c, d} = {u1, u3}
    BY <1>3, <2>1
  <2> QED
    BY <2>2, <2>4, <2>5
<1>7. ASSUME NEW e \in Edges, t \in verticesOnEdge[e], Position(v, e) = j PROVE e = f
  <2>1. \/ j = 0 /\ CellsOf("edge", e) = {v[1], v[2]}
        \/ j = 1 /\ CellsOf("edge", e) = {v[2], v[3]}
        \/ j = 2 /\ CellsOf("edge", e) = {v[1], v[3]}
    BY <1>1, <1>7, PositionIs
  <2>2. CellsOf("edge", e) = {c, d}
    BY <1>3, <2>1
  <2> QED
    BY <1>4, <2>2, MeshAssumption
<1>8. EdgeAt(t, j) \in Edges /\ t \in verticesOnEdge[EdgeAt(t, j)] /\ Position(v, EdgeAt(t, j)) = j
  BY <1>1, <1>5, <1>6 DEF EdgeAt
<1>9. EdgeAt(t, j) = f
  BY <1>7, <1>8
<1> QED
  BY <1>1, <1>6, <1>7, <1>8, <1>9

\* A task tells of its triangles what is so.
LEMMA GhostsGiven ==
    ASSUME partition \in Partitions, NEW p \in Procs, NEW D, D = DynamicOf(ice),
           grid[p].triangles = TrianglesOf(partition, D, p), NumbersIn(partition, D, "edge", p, field[p].edgeIDs)
    PROVE  Gives(partition, ice, call, 7, p, DataForGhostTria(p))
<1>1. KindAt(7) = "vertex" /\ 7 \notin Backwards
  BY DEF KindAt, Backwards
<1>2. DOMAIN DataForGhostTria(p) = Local[partition][p]["vertex"]
  BY DEF DataForGhostTria
<1>3. ASSUME NEW t \in Local[partition][p]["vertex"], Owner[partition]["vertex"][t] = p, t \in MeshOf(partition, D)
      PROVE  DataForGhostTria(p)[t] = GhostOf(partition, D, t)
  <2>1. t \in Vertices /\ t \in Owned[partition][p]["vertex"]
    BY <1>3, BlockHasTriangles, BlocksAre, EntitiesAre DEF Kinds
  <2>2. t \in TrianglesOf(partition, D, p)
    BY <1>3, <2>1, TrianglesAre
  <2>3. DataForGhostTria(p)[t] = [tria |-> Rank(grid[p].triangles, t), edge |-> [j \in 0 .. 2 |-> field[p].edgeIDs[EdgeAt(t, j)]]]
    BY <2>2 DEF DataForGhostTria
  <2>4. ASSUME NEW j \in 0 .. 2 PROVE field[p].edgeIDs[EdgeAt(t, j)] = NumberOf(partition, D, "edge", EdgeAt(t, j))
    <3>1. j \in {0, 1, 2}
      OBVIOUS
    <3>2. EdgeAt(t, j) \in Edges /\ t \in Near("edge", EdgeAt(t, j))
      BY <2>1, <3>1, EdgeAtIs DEF Near, AroundIt
    <3>3. EdgeAt(t, j) \in Local[partition][p]["edge"]
      BY <2>1, <3>2, BlockReachesFar, EntitiesAre DEF Kinds
    <3> QED
      BY <3>3 DEF NumbersIn
  <2> QED
    BY <1>3, <2>3, <2>4 DEF GhostOf
<1>4. ASSUME NEW t \in Local[partition][p]["vertex"], Owner[partition]["vertex"][t] = p
      PROVE  Right(partition, ice, call, 7, t, DataForGhostTria(p)[t])
  BY <1>3, <1>4 DEF Right
<1> QED
  BY <1>1, <1>2, <1>4 DEF Gives, Mine

\* A task that makes its lists backward and tells of its triangles.
LEMMA GhostsLearnt ==
    ASSUME Parts, Messages, Known, NEW p \in Procs, ShareGhosts(p)
    PROVE  Messages' /\ Known'
<1> DEFINE D == DynamicOf(ice)
           cellLists == ReverseLists(p, "cell", grid[p].cells, field[p].cellIDs)
           edgeLists == ReverseLists(p, "edge", grid[p].edges, field[p].edgeIDs)
           corners == [t \in grid[p].triangles |-> VerticesOnTria(t)]
           sides == [e \in grid[p].edges |-> [t \in LocalTriangles(p, "edge", e) |-> Side(p, t, e)]]
<1>1. /\ At(p, Phases[7]) /\ AllToAll(p, ArrayAt(7), DataForGhostTria(p), Forward(p, KindAt(7))) /\ exited' = exited
      /\ grid' = [grid EXCEPT ![p] = [grid[p] EXCEPT !.cellsBack = cellLists, !.edgesBack = edgeLists,
                                                     !.verticesOnTria = corners, !.trianglesOnEdge = sides]]
  <2>1. KindAt(7) = "vertex" /\ ArrayAt(7) = "ghosts"
    BY DEF KindAt, ArrayAt
  <2> QED
    BY <2>1, PhaseNames DEF ShareGhosts
<1>2. 7 \in Exchanges /\ 7 \notin Backwards /\ 7 \in 1 .. 14 /\ {2, 4, 6, 10, 12} \subseteq Exchanges /\ 10 \in Backwards /\ 12 \in Backwards
  BY DEF Exchanges, Backwards
<1>3. /\ phase[p] = 7 /\ phase'[p] = 8 /\ exited = FALSE /\ awaited[p] = <<>>
      /\ partition' = partition /\ ice' = ice /\ \A q \in Procs : q # p => phase'[q] = phase[q]
  BY <1>1, <1>2, AtPhase DEF Parts
<1>4. /\ grid[p].triangles = TrianglesOf(partition, D, p) /\ DOMAIN grid[p] = GridParts
      /\ grid[p].cells = PartOf(partition, D, p, "cell") /\ grid[p].edges = PartOf(partition, D, p, "edge")
  <2>1. GridKnown(partition, ice, p, 7, grid[p])
    BY <1>3 DEF Parts
  <2> QED
    BY <2>1 DEF GridKnown
<1>5. /\ Holds(partition, ice, call, 2, p, field[p])
      /\ NumbersIn(partition, D, "edge", p, field[p].edgeIDs) /\ NumbersIn(partition, D, "cell", p, field[p].cellIDs)
  <2>1. \A j \in {2, 4, 6} : Holds(partition, ice, call, j, p, field[p])
    <3>1. \A j \in Exchanges : j < 7 => Holds(partition, ice, call, j, p, field[p])
      BY <1>3, AllHeld
    <3>2. \A j \in {2, 4, 6} : j \in Exchanges /\ j < 7
      BY <1>2
    <3> QED
      BY <3>1, <3>2
  <2> QED
    BY <2>1, NumbersHeld
<1>6. Gives(partition, ice, call, 7, p, DataForGhostTria(p))
  BY <1>4, <1>5, GhostsGiven DEF Parts
<1>7. ListsFit(partition, D, 7, p, Forward(p, KindAt(7)))
  BY <1>2, ForwardFits DEF Parts
<1>8. Messages'
  BY <1>1, <1>2, <1>6, <1>7, ExchangeStep
<1>9. ListsFit(partition, D, 10, p, cellLists) /\ ListsFit(partition, D, 12, p, edgeLists)
  <2>1. KindAt(10) = "cell" /\ KindAt(12) = "edge"
    BY DEF KindAt
  <2> QED
    BY <1>2, <1>4, <1>5, <2>1, ReverseFits DEF Parts
<1> HIDE DEF cellLists, edgeLists, corners, sides
<1>10. /\ DOMAIN grid' = Procs /\ \A q \in Procs : q # p => grid'[q] = grid[q]
       /\ grid'[p] = [grid[p] EXCEPT !.cellsBack = cellLists, !.edgesBack = edgeLists,
                                     !.verticesOnTria = corners, !.trianglesOnEdge = sides]
  BY <1>1 DEF Parts
<1>11. grid'[p].cellsBack = cellLists /\ grid'[p].edgesBack = edgeLists
  BY <1>4, <1>10 DEF GridParts
<1>12. KnownOf(partition, ice, p, 8, counts[p], grid'[p], field'[p])
  <2>1. CountsKnown(partition, D, p, 7, counts[p])
    BY <1>3 DEF Known, KnownOf
  <2>2. CountsKnown(partition, D, p, 8, counts[p])
    BY <2>1 DEF CountsKnown
  <2>3. BackKnown(partition, D, p, 8, grid'[p])
    BY <1>9, <1>11 DEF BackKnown
  <2> QED
    BY <2>2, <2>3 DEF KnownOf, SidesKnown, MaskKnown
<1>13. counts' = counts /\ \A q \in Procs : q # p => field'[q] = field[q]
  BY <1>1 DEF AllToAll, Parts, ArraysTyped
<1>14. DOMAIN counts = Procs
  BY DEF Known
<1> QED
  BY <1>3, <1>8, <1>10, <1>12, <1>13, <1>14, KnownStep

\* Of the two triangles of an edge a task has one, or both.
LEMMA OneOfTwo ==
    ASSUME NEW S, NEW T, IsFiniteSet(S), Cardinality(S) = 2, NEW u \in S, u \notin T, S \cap T # {}
    PROVE  Cardinality(S \cap T) = 1
<1>1. PICK t \in S : t \in T
  OBVIOUS
<1>2. Cardinality(S \ {u}) = 1 /\ IsFiniteSet(S \ {u})
  BY FS_RemoveElement
<1>3. t \in S \ {u} /\ S \cap T \in SUBSET (S \ {u})
  BY <1>1
<1>4. PICK w : S \ {u} = {w}
  BY <1>2, FS_Singleton
<1>5. S \cap T = {t}
  BY <1>1, <1>3, <1>4
<1> QED
  BY <1>5, FS_Singleton

\* The triangles at an edge are few enough to count.
LEMMA EdgeTriangles ==
    ASSUME NEW e \in Edges
    PROVE  /\ verticesOnEdge[e] \in SUBSET Vertices /\ IsFiniteSet(verticesOnEdge[e])
           /\ Cardinality(verticesOnEdge[e]) \in Nat /\ Cardinality(verticesOnEdge[e]) <= 2
           /\ Near("edge", e) = verticesOnEdge[e]
<1>1. verticesOnEdge[e] \in SUBSET Vertices /\ Near("edge", e) = verticesOnEdge[e]
  BY DEF verticesOnEdge, Near, AroundIt
<1>2. IsFiniteSet(Vertices)
  BY EntitiesAre DEF Kinds
<1>3. IsFiniteSet(verticesOnEdge[e])
  BY <1>1, <1>2, FS_Subset
<1> QED
  BY <1>1, <1>3, FS_CardinalityType, MeshAssumption

\* An edge is inside the mesh if it has two triangles and both are in it.
LEMMA InsideIs ==
    ASSUME partition \in Partitions, NEW p \in Procs, Holds(partition, ice, call, 2, p, field[p]),
           NEW e \in Local[partition][p]["edge"]
    PROVE  ~IsBoundary(p, e) <=>
              Cardinality(verticesOnEdge[e]) = 2 /\ verticesOnEdge[e] \subseteq MeshOf(partition, DynamicOf(ice))
<1> DEFINE S == verticesOnEdge[e]
           T == S \cap MeshOf(partition, DynamicOf(ice))
<1>1. e \in Edges
  BY BlockHasTriangles, EntitiesAre DEF Kinds
<1>2. MeshTriangles(p, "edge", e) = T
  BY <1>1, MeshTrianglesAre, EdgeTriangles
<1>3. IsFiniteSet(S) /\ Cardinality(S) \in Nat /\ Cardinality(S) <= 2
  BY <1>1, EdgeTriangles
<1>4. IsFiniteSet(T) /\ Cardinality(T) \in Nat /\ Cardinality(T) <= Cardinality(S) /\ (Cardinality(T) = Cardinality(S) => T = S)
  <2>1. T \in SUBSET S
    OBVIOUS
  <2> HIDE DEF S, T
  <2> QED
    BY <1>3, <2>1, FS_Subset, FS_CardinalityType
<1>5. ~IsBoundary(p, e) <=> ~(Cardinality(T) < 2)
  BY <1>2 DEF IsBoundary
<1>6. T = S <=> S \subseteq MeshOf(partition, DynamicOf(ice))
  OBVIOUS
<1> HIDE DEF S, T
<1>7. ~(Cardinality(T) < 2) <=> Cardinality(S) = 2 /\ T = S
  BY <1>3, <1>4
<1> QED
  BY <1>5, <1>6, <1>7 DEF S

\* What a task makes of its neighbour's data is what the neighbour has itself.
LEMMA GhostSideIs ==
    ASSUME partition \in Partitions, NEW p \in Procs, NEW e \in Local[partition][p]["edge"], NEW t \in verticesOnEdge[e], NEW D,
           D = DynamicOf(ice), t \in MeshOf(partition, D), Holds(partition, ice, call, 7, p, field[p]),
           NumbersIn(partition, D, "edge", p, field[p].edgeIDs)
    PROVE  GhostSide(p, t, e) = SideOf(partition, D, Owner[partition]["vertex"][t], t, e)
<1>1. e \in Edges /\ t \in Vertices
  BY BlockHasTriangles, EntitiesAre DEF Kinds, verticesOnEdge
<1>2. field[p].ghosts[t] = GhostOf(partition, D, t)
  <2>1. KindAt(7) = "vertex" /\ ArrayAt(7) = "ghosts" /\ 7 \notin Backwards
    BY DEF KindAt, ArrayAt, Backwards
  <2>2. t \in Local[partition][p]["vertex"]
    BY <1>1, BlockHasTriangles, EdgeTriangles DEF Kinds
  <2>3. Right(partition, ice, call, 7, t, field[p]["ghosts"][t])
    BY <2>1, <2>2 DEF Holds, Told
  <2> QED
    BY <2>3 DEF Right
<1>3. PICK v, n : v = VerticesOnTria(t) /\ n = NumberOf(partition, D, "edge", e)
  OBVIOUS
<1>4. field[p].edgeIDs[e] = n
  BY <1>3 DEF NumbersIn
<1>5. ASSUME NEW j \in {1, 2}
      PROVE  GhostOf(partition, D, t).edge[j] = n <=> Position(v, e) = j
  <2>1. PICK f : f = EdgeAt(t, j)
    OBVIOUS
  <2>2. f \in Edges /\ t \in verticesOnEdge[f] /\ (Position(v, e) = j <=> e = f)
    BY <1>1, <1>3, <2>1, EdgeAtIs
  <2>3. GhostOf(partition, D, t).edge[j] = NumberOf(partition, D, "edge", f)
    <3>1. j \in 0 .. 2
      OBVIOUS
    <3> QED
      BY <2>1, <3>1 DEF GhostOf
  <2>4. InIt(partition, D, "edge", e) /\ InIt(partition, D, "edge", f)
    BY <1>1, <2>2, EdgeTriangles DEF InIt
  <2>5. NumberOf(partition, D, "edge", f) = n => f = e
    BY <1>1, <1>3, <2>2, <2>4, NumbersAre, EntitiesAre DEF Kinds
  <2> QED
    BY <1>3, <2>2, <2>3, <2>5
<1>6. Position(v, e) \in {0, 1, 2}
  BY <1>1, <1>3, PositionIs
<1>7. GhostSide(p, t, e) =
         [tria |-> GhostOf(partition, D, t).tria,
          position |-> (IF GhostOf(partition, D, t).edge[1] = n THEN 1 ELSE 0)
                       + 2 * (IF GhostOf(partition, D, t).edge[2] = n THEN 1 ELSE 0)]
  BY <1>2, <1>4 DEF GhostSide
<1>8. (IF GhostOf(partition, D, t).edge[1] = n THEN 1 ELSE 0) + 2 * (IF GhostOf(partition, D, t).edge[2] = n THEN 1 ELSE 0) = Position(v, e)
  <2>1. PICK x, y : x = GhostOf(partition, D, t).edge[1] /\ y = GhostOf(partition, D, t).edge[2]
    OBVIOUS
  <2>2. (x = n <=> Position(v, e) = 1) /\ (y = n <=> Position(v, e) = 2)
    BY <1>5, <2>1
  <2>3. (IF x = n THEN 1 ELSE 0) + 2 * (IF y = n THEN 1 ELSE 0) = Position(v, e)
    BY <1>6, <2>2
  <2> QED
    BY <2>1, <2>3
<1>9. GhostOf(partition, D, t).tria = Rank(TrianglesOf(partition, D, Owner[partition]["vertex"][t]), t)
  BY DEF GhostOf
<1> QED
  BY <1>3, <1>7, <1>8, <1>9 DEF SideOf

\* A task that finds its neighbours.
LEMMA NeighboursLearnt ==
    ASSUME Parts, Messages, Known, NEW p \in Procs, FindNeighbours(p)
    PROVE  Messages' /\ Known'
<1> DEFINE D == DynamicOf(ice)
           tri == TrianglesOf(partition, D, p)
           edges == PartOf(partition, D, p, "edge")
           old == grid[p].trianglesOnEdge
           sides == [e \in DOMAIN old |->
               IF OnInterface(p, e)
               THEN [t \in verticesOnEdge[e] |-> IF t \in DOMAIN old[e] THEN old[e][t] ELSE GhostSide(p, t, e)]
               ELSE old[e]]
<1>1. /\ At(p, Phases[8]) /\ field' = field /\ exited' = exited /\ counts' = counts /\ awaited' = awaited /\ wire' = wire
      /\ grid' = [grid EXCEPT ![p].trianglesOnEdge = sides]
  BY PhaseNames DEF FindNeighbours, network
<1>2. 8 \notin Exchanges /\ 8 \in 1 .. 14 /\ {2, 4, 7} \subseteq Exchanges
  BY DEF Exchanges
<1>3. /\ phase[p] = 8 /\ phase'[p] = 9 /\ exited = FALSE /\ awaited[p] = <<>>
      /\ partition' = partition /\ ice' = ice /\ \A q \in Procs : q # p => phase'[q] = phase[q]
  BY <1>1, <1>2, AtPhase DEF Parts
<1>4. exited' \in BOOLEAN
  BY <1>1 DEF Parts
<1>5. Messages'
  BY <1>1, <1>2, <1>4, LocalStep
<1>6. GridKnown(partition, ice, p, 8, grid[p])
  BY <1>3 DEF Parts
<1>7. /\ DOMAIN grid' = Procs /\ \A q \in Procs : q # p => grid'[q] = grid[q]
      /\ grid'[p] = [grid[p] EXCEPT !.trianglesOnEdge = sides]
  BY <1>1 DEF Parts
<1>8. /\ DOMAIN grid[p] = GridParts /\ grid[p].triangles = tri
      /\ DOMAIN old = edges /\ \A e \in edges : DOMAIN old[e] = verticesOnEdge[e] \cap tri
      /\ \A e \in edges : \A t \in verticesOnEdge[e] \cap tri : old[e][t] = SideOf(partition, D, p, t, e)
  BY <1>6 DEF GridKnown
<1>9. /\ Holds(partition, ice, call, 2, p, field[p]) /\ Holds(partition, ice, call, 7, p, field[p])
      /\ NumbersIn(partition, D, "edge", p, field[p].edgeIDs)
  <2>1. \A j \in Exchanges : j < 8 => Holds(partition, ice, call, j, p, field[p])
    BY <1>3, AllHeld
  <2>2. \A j \in {2, 4, 7} : j \in Exchanges /\ j < 8
    BY <1>2
  <2>3. \A j \in {2, 4, 7} : Holds(partition, ice, call, j, p, field[p])
    BY <2>1, <2>2
  <2> QED
    BY <2>3, NumbersHeld
<1>10. ASSUME NEW e \in edges, Cardinality(verticesOnEdge[e]) = 2, verticesOnEdge[e] \subseteq MeshOf(partition, D),
              NEW t \in verticesOnEdge[e]
       PROVE  sides[e][t] = SideOf(partition, D, Owner[partition]["vertex"][t], t, e)
  <2>1. e \in Local[partition][p]["edge"] /\ e \in Edges /\ verticesOnEdge[e] \cap tri # {}
    BY PartsAre, EntitiesAre, EdgeTriangles DEF Kinds, Parts, PartOf
  <2>2. CASE t \in tri
    <3>1. Owner[partition]["vertex"][t] = p
      BY <2>2, TrianglesAre DEF Parts
    <3>2. t \in DOMAIN old[e] /\ old[e][t] = SideOf(partition, D, p, t, e)
      BY <1>8, <2>2
    <3>3. sides[e][t] = old[e][t]
      <4>1. CASE OnInterface(p, e)
        BY <1>8, <3>2, <4>1
      <4>2. CASE ~OnInterface(p, e)
        BY <1>8, <4>2
      <4> QED
        BY <4>1, <4>2
    <3> QED
      BY <3>1, <3>2, <3>3
  <2>3. CASE t \notin tri
    <3>1. LocalTriangles(p, "edge", e) = verticesOnEdge[e] \cap tri
      BY <1>8 DEF LocalTriangles, AroundIt
    <3>2. Cardinality(LocalTriangles(p, "edge", e)) = 1
      BY <1>10, <2>1, <2>3, <3>1, EdgeTriangles, OneOfTwo
    <3>3. ~IsBoundary(p, e)
      BY <1>9, <1>10, <2>1, InsideIs DEF Parts
    <3>4. OnInterface(p, e)
      BY <3>2, <3>3 DEF OnInterface
    <3>5. t \notin DOMAIN old[e]
      BY <1>8, <2>3
    <3>6. sides[e][t] = GhostSide(p, t, e)
      BY <1>8, <3>4, <3>5
    <3> QED
      BY <1>9, <1>10, <2>1, <3>6, GhostSideIs DEF Parts
  <2> QED
    BY <2>2, <2>3
<1> HIDE DEF sides, old
<1>11. /\ grid'[p].trianglesOnEdge = sides /\ grid'[p].cellsBack = grid[p].cellsBack
       /\ grid'[p].edgesBack = grid[p].edgesBack
  BY <1>7, <1>8 DEF GridParts
<1>12. KnownOf(partition, ice, p, 9, counts[p], grid'[p], field'[p])
  <2>1. CountsKnown(partition, D, p, 8, counts[p]) /\ BackKnown(partition, D, p, 8, grid[p])
    BY <1>3 DEF Known, KnownOf
  <2>2. CountsKnown(partition, D, p, 9, counts[p])
    BY <2>1 DEF CountsKnown
  <2>3. BackKnown(partition, D, p, 9, grid'[p])
    BY <1>11, <2>1 DEF BackKnown
  <2>4. SidesKnown(partition, D, p, 9, grid'[p])
    BY <1>10, <1>11 DEF SidesKnown
  <2> QED
    BY <2>2, <2>3, <2>4 DEF KnownOf, MaskKnown
<1>13. DOMAIN counts = Procs
  BY DEF Known
<1> QED
  BY <1>1, <1>3, <1>5, <1>7, <1>12, <1>13, KnownStep

-----------------------------------------------------------------------------
(* The solve and its results *)

\* An exchange after which a task knows its grid as before.
LEMMA SolveStep ==
    ASSUME Parts, Messages, Known, NEW p \in Procs, NEW k \in {9, 10, 11, 12, 13}, NEW values, NEW lists,
           At(p, Phases[k]), AllToAll(p, ArrayAt(k), values, lists), ListsFit(partition, DynamicOf(ice), k, p, lists),
           Gives(partition, ice, call, k, p, values), exited' = exited,
           DOMAIN grid' = Procs, \A q \in Procs : q # p => grid'[q] = grid[q],
           grid'[p].cellsBack = grid[p].cellsBack, grid'[p].edgesBack = grid[p].edgesBack,
           grid'[p].trianglesOnEdge = grid[p].trianglesOnEdge
    PROVE  Messages' /\ Known'
<1>1. k \in Exchanges /\ k \in 1 .. 14
  BY DEF Exchanges
<1>2. /\ phase[p] = k /\ phase'[p] = k + 1
      /\ partition' = partition /\ ice' = ice /\ \A q \in Procs : q # p => phase'[q] = phase[q]
  BY <1>1, AtPhase DEF Parts
<1>3. Messages'
  BY <1>1, ExchangeStep
<1>4. KnownOf(partition, ice, p, k + 1, counts[p], grid'[p], field'[p])
  <2>1. KnownOf(partition, ice, p, k, counts[p], grid[p], field[p])
    BY <1>2 DEF Known
  <2> QED
    BY <2>1, KnownStays
<1>5. counts' = counts /\ \A q \in Procs : q # p => field'[q] = field[q]
  BY DEF AllToAll, Parts, ArraysTyped
<1>6. DOMAIN counts = Procs
  BY DEF Known
<1> QED
  BY <1>2, <1>3, <1>4, <1>5, <1>6, KnownStep

\* Nothing is asked of the heat.
LEMMA HeatLearnt ==
    ASSUME Parts, Messages, Known, NEW p \in Procs, SolveAndExportHeat(p)
    PROVE  Messages' /\ Known'
<1> DEFINE values == [t \in Local[partition][p].vertex |->
               IF t \in grid[p].triangles THEN Answer(field[p].triangleIDs[t]) ELSE Zero]
           source == [c \in grid[p].cells |-> Source(p, c)]
<1>0. KindAt(9) = "vertex" /\ ArrayAt(9) = "heat" /\ 9 \in Exchanges /\ 9 \notin Backwards
  BY DEF KindAt, ArrayAt, Exchanges, Backwards
<1>1. At(p, Phases[9]) /\ AllToAll(p, ArrayAt(9), values, Forward(p, KindAt(9))) /\ exited' = exited
  BY <1>0, PhaseNames DEF SolveAndExportHeat
<1>2. grid' = [grid EXCEPT ![p] = [grid[p] EXCEPT !.source = source]]
  BY DEF SolveAndExportHeat
<1> HIDE DEF source
<1>3. /\ DOMAIN grid' = Procs /\ \A q \in Procs : q # p => grid'[q] = grid[q]
      /\ grid'[p] = [grid[p] EXCEPT !.source = source]
  BY <1>2 DEF Parts
<1>4. /\ grid'[p].cellsBack = grid[p].cellsBack /\ grid'[p].edgesBack = grid[p].edgesBack
      /\ grid'[p].trianglesOnEdge = grid[p].trianglesOnEdge
  <2>1. DOMAIN grid[p] = GridParts
    BY DEF Parts, GridKnown
  <2> QED
    BY <1>3, <2>1 DEF GridParts
<1>5. DOMAIN values = Local[partition][p]["vertex"]
  OBVIOUS
<1> HIDE DEF values
<1>6. Gives(partition, ice, call, 9, p, values)
  <2>1. \A x, v : Right(partition, ice, call, 9, x, v)
    BY DEF Right
  <2> QED
    BY <1>0, <1>5, <2>1 DEF Gives
<1>7. ListsFit(partition, DynamicOf(ice), 9, p, Forward(p, KindAt(9)))
  BY <1>0, ForwardFits DEF Parts
<1>8. 9 \in {9, 10, 11, 12, 13}
  OBVIOUS
<1> QED
  BY <1>1, <1>3, <1>4, <1>6, <1>7, <1>8, SolveStep

\* The velocities of the cells at the task's triangles, and zero where there is no mesh.
LEMMA CellsLearnt ==
    ASSUME Parts, Messages, Known, NEW p \in Procs, CellsBack(p)
    PROVE  Messages' /\ Known'
<1> DEFINE D == DynamicOf(ice)
<1>0. KindAt(10) = "cell" /\ ArrayAt(10) = "velocity" /\ 10 \in Exchanges /\ 10 \in Backwards /\ 6 \in Exchanges
  BY DEF KindAt, ArrayAt, Exchanges, Backwards
<1>1. At(p, Phases[10]) /\ AllToAll(p, ArrayAt(10), VerticesToCells(p), grid[p].cellsBack) /\ exited' = exited /\ grid' = grid
  BY <1>0, PhaseNames DEF CellsBack
<1>2. phase[p] = 10 /\ exited = FALSE /\ awaited[p] = <<>>
  BY <1>1, AtPhase DEF Parts
<1>3. grid[p].cells = PartOf(partition, D, p, "cell")
  <2>1. GridKnown(partition, ice, p, 10, grid[p])
    BY <1>2 DEF Parts
  <2> QED
    BY <2>1 DEF GridKnown
<1>4. NumbersIn(partition, D, "cell", p, field[p].cellIDs)
  <2>1. \A j \in Exchanges : j < 10 => Holds(partition, ice, call, j, p, field[p])
    BY <1>2, AllHeld
  <2>2. Holds(partition, ice, call, 6, p, field[p])
    BY <1>0, <2>1
  <2> QED
    BY <2>2, NumbersHeld
<1>5. Gives(partition, ice, call, 10, p, VerticesToCells(p))
  <2>1. DOMAIN VerticesToCells(p) = Local[partition][p]["cell"]
    BY DEF VerticesToCells
  <2>2. ASSUME NEW c \in Local[partition][p]["cell"], Mine(partition, D, 10, p, c)
        PROVE  Right(partition, ice, call, 10, c, VerticesToCells(p)[c])
    <3>1. c \in Entities["cell"] /\ "cell" \in Kinds
      BY BlockHasTriangles DEF Parts, Kinds
    <3>2. c \in grid[p].cells <=> p \in OwnersAt(partition, D, "cell", c)
      BY <1>3, <3>1, OwnersAtAre DEF Parts
    <3>3. InIt(partition, D, "cell", c) <=> p \in OwnersAt(partition, D, "cell", c)
      <4>1. OwnersAt(partition, D, "cell", c) # {} <=> InIt(partition, D, "cell", c)
        BY <3>1, OwnersAtAre DEF Parts
      <4> QED
        BY <1>0, <2>2, <4>1 DEF Mine
    <3>4. VerticesToCells(p)[c] = VelocityOf(partition, D, call, c)
      <4>1. VerticesToCells(p)[c] = IF c \in grid[p].cells THEN <<call, field[p].cellIDs[c]>> ELSE Zero
        BY DEF VerticesToCells, Answer
      <4>2. field[p].cellIDs[c] = NumberOf(partition, D, "cell", c)
        BY <1>4 DEF NumbersIn
      <4> QED
        BY <3>2, <3>3, <4>1, <4>2 DEF VelocityOf
    <3> QED
      BY <3>4 DEF Right
  <2> QED
    BY <1>0, <2>1, <2>2 DEF Gives
<1>6. ListsFit(partition, D, 10, p, grid[p].cellsBack)
  BY <1>2 DEF Known, KnownOf, BackKnown
<1>7. DOMAIN grid = Procs /\ 10 \in {9, 10, 11, 12, 13}
  BY DEF Parts
<1> QED
  BY <1>1, <1>5, <1>6, <1>7, SolveStep

\* What has come back to the owners of cells and edges goes to all halos.
LEMMA ForwardLearnt ==
    ASSUME Parts, Messages, Known, NEW p \in Procs, CellsForward(p) \/ EdgesForward(p)
    PROVE  Messages' /\ Known'
<1>1. PICK k \in {11, 13} :
         /\ At(p, Phases[k]) /\ AllToAll(p, ArrayAt(k), field[p][ArrayAt(k)], Forward(p, KindAt(k))) /\ exited' = exited /\ grid' = grid
  <2>1. KindAt(11) = "cell" /\ ArrayAt(11) = "velocity" /\ KindAt(13) = "edge" /\ ArrayAt(13) = "normal"
    BY DEF KindAt, ArrayAt
  <2>2. CASE CellsForward(p)
    <3>1. At(p, Phases[11]) /\ AllToAll(p, ArrayAt(11), field[p][ArrayAt(11)], Forward(p, KindAt(11))) /\ exited' = exited /\ grid' = grid
      BY <2>1, <2>2, PhaseNames DEF CellsForward
    <3> QED
      BY <3>1
  <2>3. CASE EdgesForward(p)
    <3>1. At(p, Phases[13]) /\ AllToAll(p, ArrayAt(13), field[p][ArrayAt(13)], Forward(p, KindAt(13))) /\ exited' = exited /\ grid' = grid
      BY <2>1, <2>3, PhaseNames DEF EdgesForward
    <3> QED
      BY <3>1
  <2> QED
    BY <2>2, <2>3
<1>2. PICK j : (k = 11 /\ j = 10) \/ (k = 13 /\ j = 12)
  OBVIOUS
<1>3. /\ k \in Exchanges /\ k \notin Backwards /\ k \in 1 .. 14 /\ j \in Exchanges /\ j \in Backwards /\ j < k
      /\ ArrayAt(j) = ArrayAt(k) /\ KindAt(j) = KindAt(k) /\ k \in {9, 10, 11, 12, 13}
  BY <1>2 DEF Exchanges, Backwards, ArrayAt, KindAt
<1>4. phase[p] = k /\ exited = FALSE /\ awaited[p] = <<>> /\ partition \in Partitions
  BY <1>1, <1>3, AtPhase DEF Parts
<1>5. Holds(partition, ice, call, j, p, field[p])
  BY <1>3, <1>4, AllHeld
<1>6. PICK kind \in Kinds, array \in ArrayNames : kind = KindAt(k) /\ array = ArrayAt(k) /\ KindOf(array) = kind
  BY <1>3, ExchangesAre
<1>7. Gives(partition, ice, call, k, p, field[p][array])
  <2>1. DOMAIN field[p][array] = Local[partition][p][kind]
    BY <1>6 DEF Parts, ArraysTyped
  <2>2. ASSUME NEW x \in Local[partition][p][kind], Owner[partition][kind][x] = p
        PROVE  Right(partition, ice, call, k, x, field[p][array][x])
    <3>1. x \in Owned[partition][p][kind]
      BY <1>4, <2>2, BlocksAre, BlockHasTriangles
    <3>2. Right(partition, ice, call, j, x, field[p][array][x])
      BY <1>3, <1>5, <1>6, <3>1 DEF Holds, Told
    <3> QED
      BY <1>2, <3>2, SameValues
  <2> QED
    BY <1>3, <1>6, <2>1, <2>2 DEF Gives, Mine
<1>8. ListsFit(partition, DynamicOf(ice), k, p, Forward(p, KindAt(k)))
  BY <1>3, <1>4, ForwardFits
<1>9. DOMAIN grid = Procs
  BY DEF Parts
<1> QED
  BY <1>1, <1>3, <1>6, <1>7, <1>8, <1>9, SolveStep

\* The first and the last of a sorted set are in it.
LEMMA EndsOfSorted ==
    ASSUME NEW S \in SUBSET Int, IsFiniteSet(S), S # {}
    PROVE  Sorted(S)[1] \in S /\ Last(Sorted(S)) \in S
<1>1. Cardinality(S) \in Nat /\ Cardinality(S) # 0
  BY FS_CardinalityType, FS_EmptySet
<1>2. DOMAIN Sorted(S) = 1 .. Cardinality(S) /\ \A k \in DOMAIN Sorted(S) : Sorted(S)[k] \in S
  BY OverSorted
<1>3. Sorted(S) \in [1 .. Cardinality(S) -> S]
  BY <1>2 DEF Sorted
<1>4. Len(Sorted(S)) = Cardinality(S)
  BY <1>1, <1>3
<1> QED
  BY <1>1, <1>2, <1>4 DEF Last

\* The triangle of an edge is one at it, and the same for every task.
LEMMA TakenIs ==
    ASSUME partition \in Partitions, NEW e \in Edges, verticesOnEdge[e] # {}
    PROVE  /\ Holding(e) = HoldingOf(ice, e)
           /\ Taken(e) = TakenOf(ice, e) /\ Taken(e) \in verticesOnEdge[e]
<1> DEFINE S == verticesOnEdge[e]
           H == Holding(e)
<1>1. S \in SUBSET Vertices /\ S \in SUBSET Int /\ IsFiniteSet(S) /\ Vertices \in SUBSET Int
  BY EdgeTriangles, EntitiesAre DEF Kinds
<1>2. Holding(e) = HoldingOf(ice, e) /\ H \in SUBSET S
  BY <1>1, DynamicIs DEF Holding, HoldingOf
<1>3. Sorted(S)[1] \in S /\ Last(Sorted(S)) \in S
  BY <1>1, EndsOfSorted
<1>4. H # {} => Sorted(H)[1] \in S
  <2>1. IsFiniteSet(H) /\ H \in SUBSET Int
    BY <1>1, <1>2, FS_Subset
  <2> QED
    BY <1>2, <2>1, EndsOfSorted
<1>5. Dynamic(Sorted(S)[1]) <=> Sorted(S)[1] \in DynamicOf(ice)
  BY <1>1, <1>3, DynamicIs
<1>6. CASE H # {}
  BY <1>2, <1>4, <1>6 DEF Taken, TakenOf
<1>7. CASE H = {} /\ Dynamic(Sorted(S)[1])
  BY <1>2, <1>3, <1>5, <1>7 DEF Taken, TakenOf
<1>8. CASE H = {} /\ ~Dynamic(Sorted(S)[1])
  BY <1>2, <1>3, <1>5, <1>8 DEF Taken, TakenOf
<1> QED
  BY <1>2, <1>6, <1>7, <1>8

\* An edge with ice has triangles, and they are in the mesh.
LEMMA IceHasMesh ==
    ASSUME partition \in Partitions, ice \in IceSheets, NEW e \in Edges, HasIce(ice, e)
    PROVE  verticesOnEdge[e] # {} /\ InIt(partition, DynamicOf(ice), "edge", e)
<1>1. PICK c \in CellsOf("edge", e) : c \in ice.dynamic
  BY DEF HasIce
<1>2. c \notin Rim
  BY <1>1, IceAssumption
<1>3. verticesOnEdge[e] # {}
  BY <1>1, <1>2, MeshAssumption
<1>4. PICK t \in verticesOnEdge[e] : t \in Vertices /\ CellsOf("edge", e) \subseteq CellsOf("vertex", t)
  BY <1>3 DEF verticesOnEdge
<1>5. t \in DynamicOf(ice)
  BY <1>1, <1>4 DEF DynamicOf
<1>6. t \in MeshOf(partition, DynamicOf(ice))
  BY <1>4, <1>5, MeshIs
<1> QED
  BY <1>3, <1>4, <1>6, EdgeTriangles DEF InIt

\* A task that takes the velocities of its edges from their triangles, or gives the call up.
LEMMA EdgesLearnt ==
    ASSUME Parts, Messages, Known, NEW p \in Procs, EdgesBack(p)
    PROVE  Messages' /\ Known'
<1> DEFINE D == DynamicOf(ice)
<1>0. /\ KindAt(12) = "edge" /\ ArrayAt(12) = "normal" /\ 12 \in Exchanges /\ 12 \in Backwards /\ 11 \in Exchanges
      /\ KindAt(11) = "cell" /\ ArrayAt(11) = "velocity" /\ 11 \notin Backwards /\ 12 \in 1 .. 14
  BY DEF KindAt, ArrayAt, Exchanges, Backwards
<1>1. At(p, Phases[12]) /\ grid' = grid
  BY PhaseNames DEF EdgesBack
<1>2. /\ phase[p] = 12 /\ exited = FALSE /\ awaited[p] = <<>> /\ phase'[p] = 13 /\ partition \in Partitions /\ ice \in IceSheets
      /\ partition' = partition /\ ice' = ice /\ \A q \in Procs : q # p => phase'[q] = phase[q]
  BY <1>0, <1>1, AtPhase DEF Parts
<1>3. KnownOf(partition, ice, p, 12, counts[p], grid[p], field[p])
  BY <1>2 DEF Known
<1>4. DOMAIN grid = Procs /\ 12 \in {9, 10, 11, 12, 13}
  BY DEF Parts
<1>5. CASE NoTriangleHolds(p)
  <2>1. exited' = TRUE /\ awaited' = awaited /\ wire' = wire /\ counts' = counts /\ field' = field
    BY <1>5 DEF EdgesBack, network
  <2>2. exited' \in BOOLEAN
    BY <2>1, Zenon
  <2>3. Messages'
    BY <1>0, <1>1, <2>1, <2>2, LocalStep
  <2>4. KnownOf(partition, ice, p, 12 + 1, counts[p], grid'[p], field'[p])
    BY <1>1, <1>3, KnownStays
  <2>5. DOMAIN counts = Procs
    BY DEF Known
  <2> QED
    BY <1>1, <1>2, <2>1, <2>3, <2>4, <2>5, KnownStep
<1>6. CASE ~NoTriangleHolds(p)
  <2>1. AllToAll(p, ArrayAt(12), PrismVelocity(p), grid[p].edgesBack) /\ exited' = exited
    BY <1>0, <1>6 DEF EdgesBack
  <2>2. grid[p].edges = PartOf(partition, D, p, "edge")
    <3>1. GridKnown(partition, ice, p, 12, grid[p])
      BY <1>2 DEF Parts
    <3> QED
      BY <3>1 DEF GridKnown
  <2>3. \A c \in Local[partition][p]["cell"] : field[p].velocity[c] = VelocityOf(partition, D, call, c)
    <3>1. \A j \in Exchanges : j < 12 => Holds(partition, ice, call, j, p, field[p])
      BY <1>2, AllHeld
    <3>2. Holds(partition, ice, call, 11, p, field[p])
      BY <1>0, <3>1
    <3> QED
      BY <1>0, <3>2 DEF Holds, Told, Right
  <2>4. Gives(partition, ice, call, 12, p, PrismVelocity(p))
    <3>1. DOMAIN PrismVelocity(p) = Local[partition][p]["edge"]
      BY DEF PrismVelocity
    <3>2. ASSUME NEW e \in Local[partition][p]["edge"], Mine(partition, D, 12, p, e), HasIce(ice, e)
          PROVE  PrismVelocity(p)[e] = NormalOf(partition, ice, call, e)
      <4>1. e \in Edges /\ e \in Entities["edge"] /\ "edge" \in Kinds
        BY <1>2, BlockHasTriangles, EntitiesAre DEF Kinds
      <4>2. verticesOnEdge[e] # {} /\ InIt(partition, D, "edge", e)
        BY <1>2, <3>2, <4>1, IceHasMesh
      <4>3. p \in OwnersAt(partition, D, "edge", e)
        <5>1. OwnersAt(partition, D, "edge", e) # {}
          BY <1>2, <4>1, <4>2, OwnersAtAre
        <5> QED
          BY <1>0, <3>2, <5>1 DEF Mine
      <4>4. e \in PartOf(partition, D, p, "edge")
        BY <1>2, <4>1, <4>3, OwnersAtAre
      <4>5. PICK t \in Near("edge", e) : t \in Owned[partition][p]["vertex"]
        BY <1>2, <4>4, TrianglesAre DEF PartOf
      <4>6. PICK u : u = Taken(e)
        OBVIOUS
      <4>7. u = TakenOf(ice, e) /\ u \in Near("edge", e)
        BY <1>2, <4>1, <4>2, <4>6, TakenIs, EdgeTriangles
      <4>8. CellsOf("vertex", u) \subseteq Local[partition][p]["cell"]
        BY <1>2, <4>1, <4>5, <4>7, BlockReachesFar
      <4>9. PrismVelocity(p)[e] = [c \in CellsOf("vertex", u) |-> field[p].velocity[c]]
        BY <2>2, <4>4, <4>6 DEF PrismVelocity
      <4>10. NormalOf(partition, ice, call, e) = [c \in CellsOf("vertex", u) |-> VelocityOf(partition, D, call, c)]
        BY <4>7 DEF NormalOf
      <4> QED
        BY <2>3, <4>8, <4>9, <4>10
    <3>3. ASSUME NEW e \in Local[partition][p]["edge"], Mine(partition, D, 12, p, e)
          PROVE  Right(partition, ice, call, 12, e, PrismVelocity(p)[e])
      BY <3>2, <3>3 DEF Right
    <3> QED
      BY <1>0, <3>1, <3>3 DEF Gives
  <2>5. ListsFit(partition, D, 12, p, grid[p].edgesBack)
    BY <1>3 DEF KnownOf, BackKnown
  <2> QED
    BY <1>1, <1>4, <2>1, <2>4, <2>5, SolveStep
<1> QED
  BY <1>5, <1>6

\* Edges without ice lose what was left on them.
LEMMA MaskLearnt ==
    ASSUME Parts, Messages, Known, NEW p \in Procs, MaskEdges(p)
    PROVE  Messages' /\ Known'
<1> DEFINE masked == [e \in DOMAIN field[p].normal |-> IF DynamicEdge(e) THEN field[p].normal[e] ELSE Zero]
<1>1. /\ At(p, Phases[14]) /\ exited' = exited /\ grid' = grid /\ field' = [field EXCEPT ![p].normal = masked]
      /\ counts' = counts /\ awaited' = awaited /\ wire' = wire
  BY PhaseNames DEF MaskEdges, network
<1>2. 14 \notin Exchanges /\ 14 \in 1 .. 14 /\ exited' \in BOOLEAN
  BY <1>1 DEF Exchanges, Parts
<1>3. /\ phase[p] = 14 /\ phase'[p] = 15 /\ partition \in Partitions
      /\ partition' = partition /\ ice' = ice /\ \A q \in Procs : q # p => phase'[q] = phase[q]
  BY <1>1, <1>2, AtPhase DEF Parts
<1>4. \A e : DynamicEdge(e) <=> HasIce(ice, e)
  BY DEF DynamicEdge, HasIce
<1>5. DOMAIN field = Procs /\ DOMAIN field[p] = ArrayNames /\ DOMAIN field[p].normal = Local[partition][p]["edge"]
  <2>1. "normal" \in ArrayNames /\ KindOf("normal") = "edge"
    BY DEF ArrayNames, KindOf
  <2> QED
    BY <2>1 DEF Parts, ArraysTyped
<1>6. /\ field'[p]["normal"] = masked /\ \A a \in ArrayNames : a # "normal" => field'[p][a] = field[p][a]
      /\ \A q \in Procs : q # p => field'[q] = field[q]
  BY <1>1, <1>5 DEF ArrayNames
<1>7. \A e \in Local[partition][p]["edge"] :
         masked[e] = IF HasIce(ice, e) THEN field[p]["normal"][e] ELSE Zero
  BY <1>4, <1>5
<1> HIDE DEF masked
<1>8. ASSUME NEW j \in Exchanges, Holds(partition, ice, call, j, p, field[p])
      PROVE  Holds(partition, ice, call, j, p, field'[p])
  <2>1. ArrayAt(j) \in ArrayNames /\ KindAt(j) \in Kinds
    BY ExchangesAre
  <2>2. CASE j \notin {12, 13}
    <3>1. ArrayAt(j) # "normal"
      BY <2>2 DEF ArrayAt, Exchanges
    <3>2. field'[p][ArrayAt(j)] = field[p][ArrayAt(j)]
      BY <1>6, <2>1, <3>1
    <3> QED
      BY <1>8, <3>2 DEF Holds
  <2>3. CASE j \in {12, 13}
    <3>1. ArrayAt(j) = "normal" /\ KindAt(j) = "edge" /\ j \notin {2, 4, 6} /\ j # 7 /\ j \notin {10, 11}
      BY <2>3 DEF ArrayAt, KindAt
    <3>2. \A x \in Told(partition, j, p) : x \in Local[partition][p]["edge"]
      BY <1>3, <3>1, BlockHasTriangles DEF Told, Kinds
    <3>3. \A x \in Told(partition, j, p) : HasIce(ice, x) => field'[p]["normal"][x] = field[p]["normal"][x]
      BY <1>6, <1>7, <3>2
    <3>4. \A x \in Told(partition, j, p) : Right(partition, ice, call, j, x, field[p]["normal"][x])
      BY <1>8, <3>1 DEF Holds
    <3>5. ASSUME NEW x \in Told(partition, j, p) PROVE Right(partition, ice, call, j, x, field'[p]["normal"][x])
      BY <3>1, <3>3, <3>4 DEF Right
    <3> QED
      BY <3>1, <3>5 DEF Holds
  <2> QED
    BY <2>2, <2>3
<1>9. Messages'
  BY <1>1, <1>2, <1>6, <1>8, LocalStep
<1>10. KnownOf(partition, ice, p, 15, counts[p], grid'[p], field'[p])
  <2>1. KnownOf(partition, ice, p, 14, counts[p], grid[p], field[p])
    BY <1>3 DEF Known
  <2>2. CountsKnown(partition, DynamicOf(ice), p, 15, counts[p])
    BY <2>1 DEF KnownOf, CountsKnown
  <2>3. BackKnown(partition, DynamicOf(ice), p, 15, grid'[p]) /\ SidesKnown(partition, DynamicOf(ice), p, 15, grid'[p])
    BY <1>1, <2>1 DEF KnownOf, BackKnown, SidesKnown
  <2>4. MaskKnown(partition, ice, p, 15, field'[p])
    BY <1>6, <1>7 DEF MaskKnown
  <2> QED
    BY <2>2, <2>3, <2>4 DEF KnownOf
<1>11. DOMAIN counts = Procs /\ DOMAIN counts' = Procs
  BY <1>1 DEF Known
<1> QED
  BY <1>1, <1>3, <1>6, <1>9, <1>10, <1>11, KnownStep

\* A message changes nothing of what a task has learnt besides: none comes after the last exchange.
LEMMA ReceiveKeepsKnown ==
    ASSUME Parts, Messages, Known, NEW p \in Procs, Receive(p)
    PROVE  Known'
<1>1. /\ awaited[p] # <<>> /\ partition' = partition /\ ice' = ice /\ phase' = phase /\ counts' = counts /\ grid' = grid
      /\ \A q \in Procs : q # p => field'[q] = field[q]
  <2>1. PICK q, array, list : field' = [field EXCEPT ![p][array] = Unpacked(@, list, Head(wire[q][p]))]
    BY DEF Receive
  <2>2. \A r \in Procs : r # p => field'[r] = field[r]
    BY <2>1 DEF Parts, ArraysTyped
  <2> QED
    BY <2>2 DEF Receive, configuration
<1>2. phase[p] # 15
  <2>1. AwaitedRight(partition, DynamicOf(ice), p, phase[p], awaited[p])
    BY DEF Messages
  <2>2. phase[p] - 1 \in Exchanges
    BY <1>1, <2>1 DEF AwaitedRight
  <2> QED
    BY <2>2 DEF Exchanges
<1>3. KnownOf(partition, ice, p, phase[p], counts[p], grid[p], field[p])
  BY DEF Known
<1>4. phase[p] \in 1 .. 15
  BY DEF Parts
<1>5. ~(phase[p] > 14)
  BY <1>2, <1>4
<1>6. KnownOf(partition, ice, p, phase'[p], counts'[p], grid'[p], field'[p])
  BY <1>1, <1>3, <1>5 DEF KnownOf, MaskKnown
<1>7. DOMAIN counts' = Procs
  BY <1>1 DEF Known
<1> QED
  BY <1>1, <1>6, <1>7, KnownStep

\* A new call asks for nothing yet, or for what is known of the mesh it keeps.
LEMMA NextCallKeepsKnown ==
    ASSUME Parts, Known, NextCall
    PROVE  Known'
<1>1. /\ partition' = partition /\ field' = field /\ grid' = grid /\ counts' = [p \in Procs |-> <<>>]
      /\ \A p \in Procs : phase[p] = 15
  <2>1. \A p \in Procs : phase[p] > 14
    BY PhaseNames DEF NextCall, Solved
  <2>2. \A p \in Procs : phase[p] \in 1 .. 15
    BY DEF Parts
  <2> QED
    BY <2>1, <2>2 DEF NextCall
<1>2. PICK m \in {1, 9} : /\ \A p \in Procs : phase'[p] = m
                          /\ m = 9 => DynamicOf(ice') = DynamicOf(ice)
  BY NextCallPhases
<1>3. ASSUME NEW p \in Procs PROVE KnownOf(partition, ice', p, phase'[p], counts'[p], grid[p], field[p])
  <2>1. counts'[p] = <<>> /\ phase'[p] = m
    BY <1>1, <1>2
  <2>2. CountsKnown(partition, DynamicOf(ice'), p, m, <<>>)
    BY ListedFunctions DEF CountsKnown
  <2>3. MaskKnown(partition, ice', p, m, field[p])
    BY DEF MaskKnown
  <2>4. CASE m = 1
    BY <2>1, <2>2, <2>3, <2>4 DEF KnownOf, BackKnown, SidesKnown
  <2>5. CASE m = 9
    <3>1. KnownOf(partition, ice, p, 15, counts[p], grid[p], field[p])
      BY <1>1 DEF Known
    <3>2. DynamicOf(ice') = DynamicOf(ice)
      BY <1>2, <2>5
    <3>3. BackKnown(partition, DynamicOf(ice'), p, 9, grid[p]) /\ SidesKnown(partition, DynamicOf(ice'), p, 9, grid[p])
      BY <3>1, <3>2 DEF KnownOf, BackKnown, SidesKnown
    <3> QED
      BY <2>1, <2>2, <2>3, <2>5, <3>3 DEF KnownOf
  <2> QED
    BY <2>4, <2>5
<1> QED
  BY <1>1, <1>3 DEF Known

\* At first a task has learnt nothing, and has to.
LEMMA KnownInit == Init => Known
<1> SUFFICES ASSUME Init PROVE Known
  OBVIOUS
<1>1. counts = [p \in Procs |-> <<>>] /\ phase = [p \in Procs |-> 1]
  BY DEF Init
<1>2. \A p \in Procs : counts[p] = <<>> /\ phase[p] = 1
  BY <1>1
<1>3. \A p \in Procs : KnownOf(partition, ice, p, 1, <<>>, grid[p], field[p])
  BY ListedFunctions DEF KnownOf, CountsKnown, BackKnown, SidesKnown, MaskKnown
<1> QED
  BY <1>1, <1>2, <1>3 DEF Known

\* A task that gives the call up has an edge between two triangles of the mesh of which the one
\* with the midpoint has no dynamic ice: task 0 has taken it.
LEMMA ExitJustified ==
    ASSUME Parts, Messages, NEW p \in Procs, EdgesBack(p)
    PROVE  ExitOnlyBesideIce'
<1> DEFINE D == DynamicOf(ice)
<1>0. 12 \in 1 .. 14 /\ 2 \in Exchanges
  BY DEF Exchanges
<1>1. At(p, Phases[12]) /\ grid' = grid
  BY PhaseNames DEF EdgesBack
<1>2. /\ phase[p] = 12 /\ exited = FALSE /\ awaited[p] = <<>> /\ partition \in Partitions /\ ice' = ice
  BY <1>0, <1>1, AtPhase DEF Parts
<1>3. CASE ~NoTriangleHolds(p)
  BY <1>2, <1>3 DEF EdgesBack, ExitOnlyBesideIce
<1>4. CASE NoTriangleHolds(p)
  <2>1. PICK e \in grid[p].edges : Holding(e) = {} /\ ~IsBoundary(p, e)
    BY <1>4 DEF NoTriangleHolds
  <2>2. grid[p].edges = PartOf(partition, D, p, "edge")
    <3>1. GridKnown(partition, ice, p, 12, grid[p])
      BY <1>2 DEF Parts
    <3> QED
      BY <3>1 DEF GridKnown
  <2>3. e \in Local[partition][p]["edge"] /\ e \in Edges
    BY <1>2, <2>2, PartsAre, EntitiesAre DEF Kinds
  <2>4. Holds(partition, ice, call, 2, p, field[p])
    <3>1. \A j \in Exchanges : j < 12 => Holds(partition, ice, call, j, p, field[p])
      BY <1>2, AllHeld
    <3> QED
      BY <1>0, <3>1
  <2>5. Cardinality(verticesOnEdge[e]) = 2 /\ verticesOnEdge[e] \subseteq MeshOf(partition, D)
    BY <1>2, <2>1, <2>3, <2>4, InsideIs
  <2>6. PICK t \in verticesOnEdge[e] : t \in Midpoint[e]
    BY <2>3, <2>5, MidpointAssumption
  <2>7. t \in Vertices /\ t \in MeshOf(partition, D) /\ t \in Local[partition][p]["vertex"]
    BY <1>2, <2>3, <2>5, EdgeTriangles, BlockHasTriangles DEF Kinds
  <2>8. ~Dynamic(t)
    BY <2>1, <2>6 DEF Holding
  <2>9. t \in TrianglesOf(partition, D, 0)
    BY <1>2, <2>7, <2>8, DynamicIs, MeshIs
  <2>10. grid[0].triangles = TrianglesOf(partition, D, 0)
    <3>1. 0 \in Procs
      BY SizesAssumption DEF Procs
    <3>2. phase[0] > 1
      <4>1. CASE p = 0
        BY <1>2, <4>1
      <4>2. CASE p # 0
        <5>1. SentBefore(partition, D, phase[0], 12, {}, FALSE, 0, p)
          BY <1>2, <3>1, NobodyAwaited DEF Messages
        <5>2. Owner[partition]["vertex"][t] = 0
          BY <1>2, <2>9, <3>1, TrianglesAre
        <5>3. t \in Owned[partition][0]["vertex"]
          BY <1>2, <2>9, <3>1, TrianglesAre
        <5>4. t \in SentSet(partition, D, 2, 0, p)
          BY <2>7, <4>2, <5>3 DEF SentSet, Backwards, Shared, KindAt
        <5>5. 2 < phase[0]
          BY <1>0, <5>1, <5>4 DEF SentBefore
        <5>6. phase[0] \in 1 .. 15
          BY <3>1 DEF Parts
        <5> QED
          BY <5>5, <5>6
      <4> QED
        BY <4>1, <4>2
    <3>3. GridKnown(partition, ice, 0, phase[0], grid[0])
      BY <3>1 DEF Parts
    <3> QED
      BY <3>2, <3>3 DEF GridKnown
  <2>11. Holding(e)' = {} /\ ~Dynamic(t)'
    BY <1>2, <2>1, <2>8 DEF Holding, Dynamic
  <2>12. t \in Midpoint[e] \cap grid'[0].triangles
    BY <1>1, <2>6, <2>9, <2>10
  <2> QED
    BY <2>3, <2>11, <2>12 DEF ExitOnlyBesideIce
<1> QED
  BY <1>3, <1>4

-----------------------------------------------------------------------------
(* Every state *)

\* The inductive invariant.
Learnt == Parts /\ Messages /\ Known /\ ExitOnlyBesideIce

\* A task's step keeps what is known, and only edgesBack gives a call up.
LEMMA TaskLearns ==
    ASSUME Learnt, NEW p \in Procs, Step(p)
    PROVE  Messages' /\ Known' /\ ExitOnlyBesideIce'
<1>0. Parts /\ Messages /\ Known /\ exited \in BOOLEAN
  BY DEF Learnt, Parts
<1>1. CASE EdgesBack(p)
  BY <1>0, <1>1, EdgesLearnt, ExitJustified
<1>2. CASE ~EdgesBack(p)
  <2>1. exited = FALSE /\ exited' = exited
    BY <1>0, <1>2 DEF Step, At, Receive, NumberTriangles, ShareTriangleIDs, NumberEdges, ShareEdgeIDs, NumberCells,
       ShareCellIDs, ShareGhosts, FindNeighbours, SolveAndExportHeat, CellsBack, CellsForward, EdgesForward, MaskEdges
  <2>2. ExitOnlyBesideIce'
    BY <2>1 DEF ExitOnlyBesideIce
  <2>3. Messages' /\ Known'
    BY <1>0, <1>2, CountsLearnt, NumbersLearnt, GhostsLearnt, NeighboursLearnt, HeatLearnt, CellsLearnt, ForwardLearnt,
       MaskLearnt, ReceiveKeepsMessages, ReceiveKeepsKnown DEF Step
  <2> QED
    BY <2>2, <2>3
<1> QED
  BY <1>1, <1>2

\* No step spoils what the tasks have learnt.
LEMMA LearntStep == Learnt /\ [Next]_vars => Learnt'
<1> SUFFICES ASSUME Learnt, [Next]_vars PROVE Learnt'
  OBVIOUS
<1>1. Parts'
  BY PartsStep DEF Learnt
<1>2. CASE UNCHANGED vars
  <2>1. /\ partition' = partition /\ ice' = ice /\ call' = call /\ phase' = phase /\ counts' = counts
        /\ awaited' = awaited /\ wire' = wire /\ field' = field /\ grid' = grid /\ exited' = exited
    BY <1>2 DEF vars, configuration, network
  <2>2. Messages'
    BY <2>1 DEF Learnt, Messages
  <2>3. Known'
    BY <2>1 DEF Learnt, Known
  <2>4. ExitOnlyBesideIce'
    BY <2>1 DEF Learnt, ExitOnlyBesideIce, Holding, Dynamic
  <2> QED
    BY <1>1, <2>2, <2>3, <2>4 DEF Learnt
<1>3. CASE NextCall
  <2>1. Messages' /\ Known'
    BY <1>3, NextCallKeepsMessages, NextCallKeepsKnown DEF Learnt
  <2>2. exited' = FALSE
    BY <1>3 DEF NextCall, Learnt, Parts
  <2> QED
    BY <1>1, <2>1, <2>2 DEF Learnt, ExitOnlyBesideIce
<1>4. ASSUME NEW p \in Procs, Step(p) PROVE Learnt'
  BY <1>1, <1>4, TaskLearns DEF Learnt
<1> QED
  BY <1>2, <1>3, <1>4 DEF Next

\* In every state each task knows its part of the mesh, waits for the messages of its exchange that
\* have not come and for no others, every message under way has the values its phase is to bring, and
\* each array has what has been brought.
THEOREM EverythingKnown == Spec => []Learnt
<1>1. Init => Learnt
  BY PartsInit, MessagesInit, KnownInit DEF Learnt, ExitOnlyBesideIce, Init
<1> QED
  BY <1>1, LearntStep, PTL DEF Spec

\* The error exit is left for edges beside the triangle without dynamic ice that task 0 takes.
THEOREM ExitsBesideIce == Spec => []ExitOnlyBesideIce
<1>1. Learnt => ExitOnlyBesideIce
  BY DEF Learnt
<1> QED
  BY <1>1, EverythingKnown, PTL

\* A task that has come further than the phase after an exchange has all of it.
LEMMA HeldSince ==
    ASSUME Parts, Messages, NEW p \in Procs, NEW j \in Exchanges, j < 12, j < phase[p] - 1
    PROVE  Holds(partition, ice, call, j, p, field[p])
<1>1. ArraysRight(partition, ice, call, p, phase[p], WaitsFor(awaited[p]), exited, field[p])
  BY DEF Messages
<1>2. phase[p] \in 1 .. 15 /\ j \in Int
  BY ExchangesAre DEF Parts
<1>3. j < phase[p]
  BY <1>2
<1> QED
  BY <1>1, <1>3 DEF ArraysRight

\* The triangles, edges and cells of the mesh, as the tasks have them and as the numbers say.
LEMMA InMeshIs ==
    ASSUME Parts, \A p \in Procs : phase[p] > 1, NEW kind \in Kinds, NEW x
    PROVE  InMesh(kind, x) <=> InIt(partition, DynamicOf(ice), kind, x)
<1>1. ASSUME NEW p \in Procs PROVE grid[p].triangles = TrianglesOf(partition, DynamicOf(ice), p)
  <2>1. GridKnown(partition, ice, p, phase[p], grid[p])
    BY DEF Parts
  <2> QED
    BY <2>1 DEF GridKnown
<1>2. InMesh(kind, x) <=> \E p \in Procs : Near(kind, x) \cap grid[p].triangles # {}
  BY DEF InMesh, Near
<1> QED
  BY <1>1, <1>2 DEF InIt, MeshOf

\* Once the cells are numbered every task has the numbers of all that is in its block.
LEMMA NumbersKnown ==
    ASSUME Parts, Messages, NEW p \in Procs, phase[p] > 7, NEW kind \in Kinds
    PROVE  \A x \in Local[partition][p][kind] : IDs(p, kind)[x] = NumberOf(partition, DynamicOf(ice), kind, x)
<1>1. phase[p] \in 1 .. 15
  BY DEF Parts
<1>2. \A j \in {2, 4, 6} : j \in Exchanges /\ j < 12 /\ j < phase[p] - 1
  BY <1>1 DEF Exchanges
<1>3. \A j \in {2, 4, 6} : Holds(partition, ice, call, j, p, field[p])
  BY <1>2, HeldSince
<1>4. /\ NumbersIn(partition, DynamicOf(ice), "vertex", p, field[p].triangleIDs)
      /\ NumbersIn(partition, DynamicOf(ice), "edge", p, field[p].edgeIDs)
      /\ NumbersIn(partition, DynamicOf(ice), "cell", p, field[p].cellIDs)
  BY <1>3, NumbersHeld
<1> QED
  BY <1>4 DEF NumbersIn, IDs, Kinds

\* The mesh is numbered from 0 without a gap, no two alike, and every task knows the numbers of
\* what is in its block.
THEOREM MeshNumbered == Spec => []NumberingIsGlobal
<1>1. Learnt => NumberingIsGlobal
  <2> DEFINE D == DynamicOf(ice)
             mesh(kind) == {x \in Entities[kind] : InMesh(kind, x)}
             number(kind) == [x \in Entities[kind] |-> IDs(Owner[partition][kind][x], kind)[x]]
  <2> SUFFICES ASSUME Parts, Messages, AllPast("cellIDs"), NEW kind \in Kinds
               PROVE  /\ {number(kind)[x] : x \in mesh(kind)} = 0 .. Cardinality(mesh(kind)) - 1
                      /\ \A p \in Procs : \A x \in Local[partition][p][kind] :
                            IDs(p, kind)[x] = IF x \in mesh(kind) THEN number(kind)[x] ELSE NotAnId
    BY EntitiesAre DEF NumberingIsGlobal, Learnt
  <2>1. \A p \in Procs : phase[p] > 7
    <3>1. Index("cellIDs") = 6
      BY PhaseNames DEF Index
    <3> QED
      BY <3>1 DEF AllPast
  <2>2. partition \in Partitions /\ \A p \in Procs : phase[p] > 1
    BY <2>1 DEF Parts
  <2>3. mesh(kind) = {x \in Entities[kind] : InIt(partition, D, kind, x)}
    BY <2>2, InMeshIs
  <2>4. \A p \in Procs : \A x \in Local[partition][p][kind] : IDs(p, kind)[x] = NumberOf(partition, D, kind, x)
    BY <2>1, NumbersKnown
  <2>5. ASSUME NEW x \in Entities[kind] PROVE number(kind)[x] = NumberOf(partition, D, kind, x)
    <3>1. PICK p \in Procs : p = Owner[partition][kind][x]
      BY <2>2, OwnersAre
    <3>2. x \in Local[partition][p][kind]
      BY <2>2, <3>1, BlocksAre, BlockHasTriangles
    <3> QED
      BY <2>4, <3>1, <3>2
  <2>6. \A p \in Procs : \A x \in Local[partition][p][kind] : x \in Entities[kind]
    BY <2>2, BlockHasTriangles
  <2>7. {NumberOf(partition, D, kind, x) : x \in mesh(kind)} = 0 .. Cardinality(mesh(kind)) - 1
    BY <2>2, <2>3, NumbersAre
  <2>8. \A x \in mesh(kind) : x \in Entities[kind]
    OBVIOUS
  <2>9. \A x \in Entities[kind] : x \notin mesh(kind) => NumberOf(partition, D, kind, x) = NotAnId
    BY <2>3 DEF NumberOf
  <2> HIDE DEF mesh, number
  <2>10. {number(kind)[x] : x \in mesh(kind)} = {NumberOf(partition, D, kind, x) : x \in mesh(kind)}
    BY <2>5, <2>8
  <2>11. \A p \in Procs : \A x \in Local[partition][p][kind] :
            IDs(p, kind)[x] = IF x \in mesh(kind) THEN number(kind)[x] ELSE NotAnId
    BY <2>4, <2>5, <2>6, <2>9
  <2> QED
    BY <2>7, <2>10, <2>11
<1> QED
  BY <1>1, EverythingKnown, PTL

\* What a task knows of both sides of an edge its neighbour knows as well.
LEMMA NeighboursAgree == Learnt => NeighboursFound
<1> DEFINE D == DynamicOf(ice)
<1> SUFFICES ASSUME Parts, Messages, Known, NEW p \in Procs, phase[p] > 8, NEW e \in grid[p].edges, OnInterface(p, e),
                    NEW t \in verticesOnEdge[e]
             PROVE  grid[p].trianglesOnEdge[e][t] = grid[Owner[partition].vertex[t]].trianglesOnEdge[e][t]
  <2>1. Index("neighbours") = 8
    BY PhaseNames DEF Index
  <2> QED
    BY <2>1 DEF NeighboursFound, Learnt
<1>1. partition \in Partitions /\ phase[p] \in 1 .. 15 /\ \A q \in Procs : phase[q] \in 1 .. 15
  BY DEF Parts
<1>2. grid[p].edges = PartOf(partition, D, p, "edge")
  <2>1. GridKnown(partition, ice, p, phase[p], grid[p]) /\ phase[p] > 3
    BY <1>1 DEF Parts
  <2> QED
    BY <2>1 DEF GridKnown
<1>3. e \in Local[partition][p]["edge"] /\ e \in Edges
  BY <1>1, <1>2, PartsAre, EntitiesAre DEF Kinds
<1>4. Cardinality(verticesOnEdge[e]) = 2 /\ verticesOnEdge[e] \subseteq MeshOf(partition, D)
  <2>1. 2 \in Exchanges /\ 2 < 12 /\ 2 < phase[p] - 1
    BY <1>1 DEF Exchanges
  <2>2. Holds(partition, ice, call, 2, p, field[p])
    BY <2>1, HeldSince
  <2> QED
    BY <1>1, <1>3, <2>2, InsideIs DEF OnInterface
<1>5. PICK q \in Procs : q = Owner[partition]["vertex"][t]
  BY <1>1, <1>4, MeshIs
<1>6. t \in verticesOnEdge[e] /\ t \in TrianglesOf(partition, D, q) /\ t \in Vertices
  BY <1>1, <1>4, <1>5, MeshIs
<1>7. grid[p].trianglesOnEdge[e][t] = SideOf(partition, D, q, t, e)
  <2>1. SidesKnown(partition, D, p, phase[p], grid[p])
    BY DEF Known, KnownOf
  <2> QED
    BY <1>2, <1>4, <1>5, <2>1 DEF SidesKnown
<1>8. phase[q] > 7
  <2>1. CASE q = p
    BY <1>1, <2>1
  <2>2. CASE q # p
    <3>1. t \in Owned[partition][q]["vertex"] /\ t \in Local[partition][p]["vertex"]
      BY <1>1, <1>3, <1>6, TrianglesAre, BlockHasTriangles, EdgeTriangles DEF Kinds
    <3>2. t \in SentSet(partition, D, 7, q, p)
      BY <2>2, <3>1 DEF SentSet, Backwards, Shared, KindAt
    <3>4. SentBefore(partition, D, phase[q], phase[p], WaitsFor(awaited[p]), exited, q, p)
      BY DEF Messages
    <3>3. 7 \in Exchanges /\ 7 < phase[p] - 1
      BY <1>1 DEF Exchanges
    <3>5. 7 < phase[q]
      BY <3>2, <3>3, <3>4 DEF SentBefore
    <3> QED
      BY <1>1, <3>5
  <2> QED
    BY <2>1, <2>2
<1>9. grid[q].trianglesOnEdge[e][t] = SideOf(partition, D, q, t, e)
  <2>1. GridKnown(partition, ice, q, phase[q], grid[q])
    BY DEF Parts
  <2>2. e \in PartOf(partition, D, q, "edge")
    BY <1>3, <1>6, EdgeTriangles, EntitiesAre DEF PartOf
  <2> QED
    BY <1>6, <1>8, <2>1, <2>2 DEF GridKnown
<1> QED
  BY <1>5, <1>7, <1>9

\* The tasks on the two sides of an interface know the same of the triangles beside it and take the
\* values of its vertices from the same cells.
THEOREM InterfacesKnown == Spec => []InterfacesAgree
<1>1. Learnt => InterfacesAgree
  BY NeighboursAgree, VerticesAgree DEF Learnt, InterfacesAgree
<1> QED
  BY <1>1, EverythingKnown, PTL

\* After a solve every task has the velocities of all cells and edges of its block, and zero where
\* there is no ice.
THEOREM VelocitiesKnown == Spec => []VelocityEverywhere
<1>1. Learnt => VelocityEverywhere
  <2> DEFINE D == DynamicOf(ice)
             answer(c) == IF InMesh("cell", c) THEN Answer(field[partition[c]].cellIDs[c]) ELSE Zero
  <2> SUFFICES ASSUME Parts, Messages, Known, ~exited, Solved, NEW p \in Procs
               PROVE  /\ \A c \in Local[partition][p].cell : field[p].velocity[c] = answer(c)
                      /\ \A e \in Local[partition][p].edge : field[p].normal[e] =
                            IF DynamicEdge(e) THEN [c \in CellsOf("vertex", Taken(e)) |-> answer(c)] ELSE Zero
    BY DEF VelocityEverywhere, Learnt
  <2>1. exited = FALSE /\ partition \in Partitions /\ ice \in IceSheets
    BY DEF Parts
  <2>2. \A q \in Procs : phase[q] = 15 /\ awaited[q] = <<>> /\ phase[q] > 1 /\ phase[q] > 7
    <3>1. \A q \in Procs : phase[q] > 14 /\ awaited[q] = <<>>
      BY PhaseNames DEF Solved, Through
    <3>2. \A q \in Procs : phase[q] \in 1 .. 15
      BY DEF Parts
    <3> QED
      BY <3>1, <3>2
  <2>3. ASSUME NEW c \in Cells PROVE answer(c) = VelocityOf(partition, D, call, c)
    <3>1. "cell" \in Kinds /\ c \in Entities["cell"]
      BY EntitiesAre DEF Kinds
    <3>2. InMesh("cell", c) <=> InIt(partition, D, "cell", c)
      BY <2>2, <3>1, InMeshIs
    <3>3. PICK q \in Procs : q = partition[c] /\ q = Owner[partition]["cell"][c]
      BY <2>1, <3>1, OwnersAre
    <3>4. c \in Local[partition][q]["cell"]
      BY <2>1, <3>1, <3>3, BlocksAre, BlockHasTriangles
    <3>5. field[q].cellIDs[c] = NumberOf(partition, D, "cell", c)
      <4>1. IDs(q, "cell")[c] = NumberOf(partition, D, "cell", c)
        BY <2>2, <3>1, <3>4, NumbersKnown
      <4> QED
        BY <4>1 DEF IDs
    <3> QED
      BY <3>2, <3>3, <3>5 DEF VelocityOf, Answer
  <2>4. /\ \A x \in Local[partition][p]["cell"] : Right(partition, ice, call, 11, x, field[p]["velocity"][x])
        /\ \A x \in Local[partition][p]["edge"] : Right(partition, ice, call, 13, x, field[p]["normal"][x])
    <3>1. \A j \in Exchanges : j < 15 => Holds(partition, ice, call, j, p, field[p])
      BY <2>1, <2>2, AllHeld
    <3>2. Holds(partition, ice, call, 11, p, field[p]) /\ Holds(partition, ice, call, 13, p, field[p])
      BY <3>1 DEF Exchanges
    <3>3. /\ KindAt(11) = "cell" /\ ArrayAt(11) = "velocity" /\ 11 \notin Backwards
          /\ KindAt(13) = "edge" /\ ArrayAt(13) = "normal" /\ 13 \notin Backwards
      BY DEF KindAt, ArrayAt, Backwards
    <3> QED
      BY <3>2, <3>3 DEF Holds, Told
  <2>5. /\ \A x \in Local[partition][p]["cell"] : x \in Cells
        /\ \A x \in Local[partition][p]["edge"] : x \in Edges
    BY <2>1, BlockHasTriangles, EntitiesAre DEF Kinds
  <2> HIDE DEF answer
  <2>6. ASSUME NEW c \in Local[partition][p]["cell"] PROVE field[p].velocity[c] = answer(c)
    BY <2>3, <2>4, <2>5 DEF Right
  <2>7. ASSUME NEW e \in Local[partition][p]["edge"]
        PROVE  field[p].normal[e] = IF DynamicEdge(e) THEN [c \in CellsOf("vertex", Taken(e)) |-> answer(c)] ELSE Zero
    <3>1. DynamicEdge(e) <=> HasIce(ice, e)
      BY DEF DynamicEdge, HasIce
    <3>2. CASE HasIce(ice, e)
      <4>1. PICK u : u = Taken(e)
        OBVIOUS
      <4>2. verticesOnEdge[e] # {}
        BY <2>1, <2>5, <3>2, IceHasMesh
      <4>3. u = TakenOf(ice, e) /\ u \in verticesOnEdge[e]
        BY <2>1, <2>5, <4>1, <4>2, TakenIs
      <4>4. u \in Vertices
        BY <2>5, <4>3, EdgeTriangles
      <4>5. \A c \in CellsOf("vertex", u) : c \in Cells
        BY <4>4, CornersAre, EntitiesAre DEF Kinds
      <4>6. field[p].normal[e] = NormalOf(partition, ice, call, e)
        BY <2>4, <3>2 DEF Right
      <4>7. NormalOf(partition, ice, call, e) = [c \in CellsOf("vertex", u) |-> VelocityOf(partition, D, call, c)]
        BY <4>3 DEF NormalOf
      <4>8. field[p].normal[e] = [c \in CellsOf("vertex", u) |-> answer(c)]
        BY <2>3, <4>5, <4>6, <4>7
      <4> QED
        BY <3>1, <3>2, <4>1, <4>8
    <3>3. CASE ~HasIce(ice, e)
      <4>1. MaskKnown(partition, ice, p, 15, field[p])
        BY <2>2 DEF Known, KnownOf
      <4> QED
        BY <3>1, <3>3, <4>1 DEF MaskKnown
    <3> QED
      BY <3>2, <3>3
  <2> QED
    BY <2>6, <2>7
<1> QED
  BY <1>1, EverythingKnown, PTL
=============================================================================
