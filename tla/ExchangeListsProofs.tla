------------------------ MODULE ExchangeListsProofs ------------------------
(* Proofs about the exchange lists, for every number of tasks and blocks and  *)
(* every partitioned mesh: what goes round the ring is received as what it    *)
(* was sent, and every needed element has one sender, who puts it where its   *)
(* receiver looks for it.                                                     *)
EXTENDS ExchangeLists, OperatorProofs, SequenceTheorems

-----------------------------------------------------------------------------
(* The lists of a mesh *)

\* The definitions of ExchangeLists that depend on the mesh alone, of a given mesh.
TasksOf(m) == DOMAIN m.owned
Size(m) == Cardinality(TasksOf(m))
BlocksOf(m, p) == DOMAIN m.owned[p]
OwnedBy(m, p)  == UNION {Range(m.owned[p][b]) : b \in BlocksOf(m, p)}
NeededBy(m, p) == UNION {Range(m.needed[p][b]) : b \in BlocksOf(m, p)}
Wanted(m, p) == Sorted(NeededBy(m, p))
Owner(m, g) == CHOOSE q \in TasksOf(m) : g \in OwnedBy(m, q)

\* The task k places before p on the ring, and how many places q comes after p.
Before(m, p, k) == IF k <= p THEN p - k ELSE p - k + Size(m)
Places(m, p, q) == IF p <= q THEN q - p ELSE q - p + Size(m)

\* The list of task p when the h tasks behind it have seen it.
Seen(m, p, h) ==
    [k \in 1 .. Cardinality(NeededBy(m, p)) |->
        LET q == Owner(m, Wanted(m, p)[k])
        IN  IF Places(m, p, q) \in 1 .. h THEN MarkOf(q) ELSE Wanted(m, p)[k]]

\* Which entries of the list of p task q provides, and its block b; how b packs them.
Provides(m, q, p) ==
    {k \in 1 .. Cardinality(NeededBy(m, p)) : Wanted(m, p)[k] \in OwnedBy(m, q)}
BlockProvides(m, q, b, p) ==
    {k \in Provides(m, q, p) : Wanted(m, p)[k] \in Range(m.owned[q][b])}
PackedFor(m, q, b, p) ==
    LET js == Sorted(BlockProvides(m, q, b, p))
    IN  [x \in DOMAIN js |-> [src  |-> Position(m.owned[q][b], Wanted(m, p)[js[x]]),
                              dest |-> Rank(Provides(m, q, p), js[x])]]

\* The send lists block b of task q has when it has seen the lists of h other tasks.
Served(m, q, b, h) ==
    {[endPointID |-> Before(m, q, k), elements |-> PackedFor(m, q, b, Before(m, q, k))] :
       k \in {x \in 1 .. h : BlockProvides(m, q, b, Before(m, q, x)) # {}}}

\* What block b of task p unpacks from the message of q, and all its receive lists.
UnpackedFor(m, p, b, q) ==
    LET needs == m.needed[p][b]
        place(g) == Position(Wanted(m, p), g)
        js == Sorted({j \in DOMAIN needs : place(needs[j]) \in Provides(m, q, p)})
    IN  [x \in DOMAIN js |-> [src  |-> Rank(Provides(m, q, p), place(needs[js[x]])),
                              dest |-> js[x] + Len(m.owned[p][b])]]
CopiedTo(m, p, b, c) ==
    LET owns == m.owned[p][b]
        needs == m.needed[p][c]
        js == Sorted({j \in DOMAIN owns : owns[j] \in Range(needs)})
    IN  [x \in DOMAIN js |-> [src  |-> js[x],
                              dest |-> Position(needs, owns[js[x]]) + Len(m.owned[p][c])]]
RecvListOf(m, p) ==
    [b \in BlocksOf(m, p) |-> ListsOver([q \in TasksOf(m) \ {p} |-> UnpackedFor(m, p, b, q)])]
CopyListOf(m, p) ==
    [b \in BlocksOf(m, p) |-> ListsOver([c \in BlocksOf(m, p) |-> CopiedTo(m, p, b, c)])]

\* The two messages task p sends in its hop h.
CountMessage(m, p, h) ==
    [kind |-> "count", data |-> Cardinality(NeededBy(m, Before(m, p, h - 1)))]
ListMessage(m, p, h) == [kind |-> "list", data |-> Seen(m, Before(m, p, h - 1), h - 1)]
MessagesOf(m, p) ==
    {CountMessage(m, p, h) : h \in 1 .. Size(m)} \cup {ListMessage(m, p, h) : h \in 1 .. Size(m)}

-----------------------------------------------------------------------------
(* The invariant *)

\* How many messages a task has sent, or received, if r is its request for the one it
\* is at.
Progress(p, r) ==
    2 * (i[p] - 1) + CASE pc[p] = "list" -> 1
                       [] pc[p] = "wait_count" -> IF r = "none" THEN 1 ELSE 0
                       [] pc[p] = "wait_list" -> IF r = "none" THEN 2 ELSE 1
                       [] OTHER -> 0
Sent(p) == Progress(p, sending[p])
Got(p) == Progress(p, receiving[p])

\* How many lists of others task p has seen.
ListsSeen(p) ==
    CASE pc[p] = "mark" -> i[p] - 2
      [] pc[p] \in {"build", "done"} -> Size(mesh) - 1
      [] OTHER -> i[p] - 1

Exchanging == {"count", "wait_count", "list", "wait_list"}

\* Where a task can be, and the requests it can have there.
Phase(p) ==
    /\ pc[p] \in Exchanging \cup {"mark", "build", "done"}
    /\ pc[p] \in Exchanging => Size(mesh) > 1 /\ i[p] \in 1 .. Size(mesh)
    /\ pc[p] = "mark" => i[p] \in 2 .. Size(mesh)
    /\ pc[p] \in {"build", "done"} => i[p] = IF Size(mesh) = 1 THEN 1 ELSE Size(mesh) + 1
    /\ {sending[p], receiving[p]} \subseteq
          CASE pc[p] = "wait_count" -> {"none", "count"}
            [] pc[p] = "wait_list" -> {"none", "list"}
            [] OTHER -> {"none"}

\* What is in the buffers of a task while it matters.
Buffers(p) ==
    /\ pc[p] \in Exchanging =>
          /\ nMesgSend[p] = Cardinality(NeededBy(mesh, Before(mesh, p, i[p] - 1)))
          /\ ownerListOut[p] = Seen(mesh, Before(mesh, p, i[p] - 1), i[p] - 1)
    /\ pc[p] \in {"list", "wait_list"} \/ (pc[p] = "wait_count" /\ receiving[p] = "none") =>
          nMesgRecv[p] = Cardinality(NeededBy(mesh, Before(mesh, p, i[p])))
    /\ pc[p] = "wait_list" /\ receiving[p] = "none" =>
          ownerListIn[p] = Seen(mesh, Before(mesh, p, i[p]), i[p] - 1)
    /\ pc[p] = "mark" =>
          /\ nMesgRecv[p] = Cardinality(NeededBy(mesh, Before(mesh, p, i[p] - 1)))
          /\ ownerListIn[p] = Seen(mesh, Before(mesh, p, i[p] - 1), i[p] - 2)
    /\ pc[p] = "build" => ownerListIn[p] = Seen(mesh, p, Size(mesh) - 1)

\* Which lists a task has made.
ListsMade(p) ==
    /\ DOMAIN sendList[p] = BlocksOf(mesh, p)
    /\ \A b \in BlocksOf(mesh, p) :
          /\ sendList[p][b] \in Seq(Served(mesh, p, b, ListsSeen(p)))
          /\ Range(sendList[p][b]) = Served(mesh, p, b, ListsSeen(p))
    /\ pc[p] = "done" => recvList[p] = RecvListOf(mesh, p) /\ copyList[p] = CopyListOf(mesh, p)

\* The messages under way from q to p are the ones q has sent and p has not received.
Underway(q, p) ==
    /\ wire[q] \in Seq(MessagesOf(mesh, q))
    /\ Len(wire[q]) = Sent(q) - Got(p)
    /\ \A x \in 1 .. Len(wire[q]), h \in 1 .. Size(mesh) :
          /\ Got(p) + x = 2 * h - 1 => wire[q][x] = CountMessage(mesh, q, h)
          /\ Got(p) + x = 2 * h => wire[q][x] = ListMessage(mesh, q, h)

OnTasks ==
    LET T == TasksOf(mesh)
    IN  /\ DOMAIN pc = T /\ DOMAIN i = T
        /\ DOMAIN nMesgSend = T /\ DOMAIN nMesgRecv = T
        /\ DOMAIN ownerListOut = T /\ DOMAIN ownerListIn = T
        /\ DOMAIN sending = T /\ DOMAIN receiving = T /\ DOMAIN wire = T
        /\ DOMAIN sendList = T /\ DOMAIN recvList = T /\ DOMAIN copyList = T

TaskInv(p) == Phase(p) /\ Buffers(p) /\ ListsMade(p)

IInv ==
    /\ mesh \in Meshes
    /\ OnTasks
    /\ \A p \in TasksOf(mesh) : TaskInv(p)
    /\ \A p \in TasksOf(mesh) : Underway(Before(mesh, p, 1), p)

-----------------------------------------------------------------------------
(* Lists over endpoints *)

\* Two numbers are the same if they are so with an offset.
LEMMA SameOffset ==
    ASSUME NEW a \in Int, NEW c \in Int, NEW o \in Int
    PROVE  a + o = c + o <=> a = c
OBVIOUS

\* The position of an element of a list is one where it stands, and the only one if the
\* list has it once.
LEMMA PositionIs ==
    ASSUME NEW s, NEW j \in DOMAIN s
    PROVE  /\ Position(s, s[j]) \in DOMAIN s /\ s[Position(s, s[j])] = s[j]
           /\ (\A k \in DOMAIN s : s[k] = s[j] => k = j) => Position(s, s[j]) = j
BY DEF Position

\* The entries of the lists over the endpoints in a finite set.
LEMMA ListsOverEntries ==
    ASSUME NEW D \in SUBSET Int, IsFiniteSet(D), NEW E, DOMAIN E = D,
           NEW e, NEW f, NEW v
    PROVE  Entries(ListsOver(E), e, f, v) = IF e \in D THEN {x \in Range(E[e]) : x[f] = v} ELSE {}
<1> DEFINE U == {d \in DOMAIN E : E[d] # <<>>}
           L == ListsOver(E)
<1>1. IsFiniteSet(U) /\ U \in SUBSET Int /\ U \in SUBSET D
  BY FS_Subset
<1>2. /\ DOMAIN Sorted(U) = 1 .. Cardinality(U) /\ \A k \in DOMAIN Sorted(U) : Sorted(U)[k] \in U
      /\ \A x \in U : \E k \in DOMAIN Sorted(U) : Sorted(U)[k] = x
  BY <1>1, OverSorted
<1> HIDE DEF U
<1>3. L = [k \in DOMAIN Sorted(U) |-> [endPointID |-> Sorted(U)[k], elements |-> E[Sorted(U)[k]]]]
  BY DEF ListsOver, U
<1>4. Range(L) = {[endPointID |-> d, elements |-> E[d]] : d \in U}
  BY <1>2, <1>3 DEF Range
<1> HIDE DEF L
<1>5. {l \in Range(L) : l.endPointID = e} =
        IF e \in U THEN {[endPointID |-> e, elements |-> E[e]]} ELSE {}
  BY <1>4
<1>6. Entries(L, e, f, v) = IF e \in U THEN {x \in Range(E[e]) : x[f] = v} ELSE {}
  <2>1. Entries(L, e, f, v) =
          UNION {{x \in Range(l.elements) : x[f] = v} : l \in {k \in Range(L) : k.endPointID = e}}
    BY DEF Entries
  <2>2. CASE e \in U
    <3> PICK r : r = [endPointID |-> e, elements |-> E[e]]
      OBVIOUS
    <3>1. {k \in Range(L) : k.endPointID = e} = {r} /\ r.elements = E[e]
      BY <1>5, <2>2
    <3> QED
      BY <2>1, <2>2, <3>1
  <2>3. CASE e \notin U
    BY <1>5, <2>1, <2>3
  <2> QED
    BY <2>2, <2>3
<1>7. CASE e \in U
  BY <1>1, <1>6, <1>7 DEF L
<1>8. CASE e \notin U /\ e \in D
  <2>1. E[e] = <<>> /\ DOMAIN E[e] = {}
    BY <1>8 DEF U
  <2>2. Range(E[e]) = {}
    BY <2>1 DEF Range
  <2> QED
    BY <1>6, <1>8, <2>2 DEF L
<1>9. CASE e \notin D
  BY <1>1, <1>6, <1>9 DEF L
<1> QED
  BY <1>7, <1>8, <1>9

-----------------------------------------------------------------------------
(* Tasks and indices of a mesh *)

\* Tasks count from 0.
LEMMA TasksAre ==
    ASSUME NEW m \in Meshes
    PROVE  Size(m) \in Nat \ {0} /\ TasksOf(m) = 0 .. Size(m) - 1
<1>1. IsFiniteSet(TasksOf(m)) /\ TasksOf(m) # {} /\ TasksOf(m) = 0 .. Size(m) - 1
  BY MeshesAssumption DEF TasksOf, Size
<1>2. Size(m) \in Nat
  BY <1>1, FS_CardinalityType DEF Size
<1> QED
  BY <1>1, <1>2

\* Blocks have two lists, of which the one of needed indices has no index twice.
LEMMA BlocksAre ==
    ASSUME NEW m \in Meshes, NEW p \in TasksOf(m)
    PROVE  /\ m.owned[p] \in Seq(Seq(Nat \ {0})) /\ m.needed[p] \in Seq(Seq(Nat \ {0}))
           /\ BlocksOf(m, p) = 1 .. Len(m.owned[p]) /\ DOMAIN m.needed[p] = BlocksOf(m, p)
           /\ \A b \in BlocksOf(m, p) :
                 /\ m.owned[p][b] \in Seq(Nat \ {0}) /\ m.needed[p][b] \in Seq(Nat \ {0})
                 /\ IsInjective(m.needed[p][b])
<1>1. /\ m.owned[p] \in Seq(Seq(Nat \ {0})) /\ m.needed[p] \in Seq(Seq(Nat \ {0}))
      /\ Len(m.needed[p]) = Len(m.owned[p])
      /\ \A b \in DOMAIN m.needed[p] : IsInjective(m.needed[p][b])
  BY MeshesAssumption DEF TasksOf
<1>2. BlocksOf(m, p) = 1 .. Len(m.owned[p]) /\ DOMAIN m.needed[p] = BlocksOf(m, p)
  BY <1>1 DEF BlocksOf
<1>3. \A b \in BlocksOf(m, p) :
         m.owned[p][b] \in Seq(Nat \ {0}) /\ m.needed[p][b] \in Seq(Nat \ {0})
  BY <1>1, <1>2, ElementOfSeq
<1> QED
  BY <1>1, <1>2, <1>3

IndicesIn(s) == UNION {Range(s[b]) : b \in DOMAIN s}

\* The elements of a sequence of sequences are finite in number.
LEMMA UnionFinite ==
    ASSUME NEW A, NEW s \in Seq(Seq(A))
    PROVE  IsFiniteSet(IndicesIn(s)) /\ IndicesIn(s) \subseteq A
<1>1. DOMAIN s = 1 .. Len(s) /\ Len(s) \in Nat /\ \A b \in DOMAIN s : s[b] \in Seq(A)
  BY ElementOfSeq
<1>2. \A b \in DOMAIN s : /\ DOMAIN s[b] = 1 .. Len(s[b]) /\ Len(s[b]) \in Nat
                          /\ \A j \in DOMAIN s[b] : s[b][j] \in A
  BY <1>1, ElementOfSeq
<1> DEFINE T == {Range(s[b]) : b \in DOMAIN s}
<1>3. ASSUME NEW b \in DOMAIN s PROVE IsFiniteSet(Range(s[b])) /\ Range(s[b]) \subseteq A
  <2> DEFINE f == [j \in DOMAIN s[b] |-> s[b][j]]
  <2>1. f \in Surjection(DOMAIN s[b], Range(s[b]))
    BY DEF Surjection, Range
  <2>2. IsFiniteSet(DOMAIN s[b])
    BY <1>2, FS_Interval
  <2> QED
    BY <1>2, <2>1, <2>2, FS_Surjection DEF Range
<1>4. IsFiniteSet(T)
  <2> DEFINE f == [b \in DOMAIN s |-> Range(s[b])]
  <2>1. f \in Surjection(DOMAIN s, T)
    BY DEF Surjection
  <2>2. IsFiniteSet(DOMAIN s)
    BY <1>1, FS_Interval
  <2> QED
    BY <2>1, <2>2, FS_Surjection
<1>5. \A t \in T : IsFiniteSet(t) /\ t \subseteq A
  BY <1>3
<1> HIDE DEF T
<1>6. IsFiniteSet(UNION T) /\ UNION T \subseteq A
  BY <1>4, <1>5, FS_UNION
<1> QED
  BY <1>6 DEF T, IndicesIn

\* A task needs finitely many indices, so its list has each of them once.
LEMMA WantedAre ==
    ASSUME NEW m \in Meshes, NEW p \in TasksOf(m)
    PROVE  /\ IsFiniteSet(NeededBy(m, p)) /\ NeededBy(m, p) \subseteq Nat \ {0}
           /\ Cardinality(NeededBy(m, p)) \in Nat
           /\ Wanted(m, p) \in [1 .. Cardinality(NeededBy(m, p)) -> NeededBy(m, p)]
           /\ \A g \in NeededBy(m, p) :
                 \E k \in 1 .. Cardinality(NeededBy(m, p)) : Wanted(m, p)[k] = g
           /\ \A j, k \in 1 .. Cardinality(NeededBy(m, p)) :
                 Wanted(m, p)[j] = Wanted(m, p)[k] => j = k
<1>1. m.needed[p] \in Seq(Seq(Nat \ {0})) /\ DOMAIN m.needed[p] = BlocksOf(m, p)
  BY BlocksAre
<1>2. IsFiniteSet(NeededBy(m, p)) /\ NeededBy(m, p) \subseteq Nat \ {0}
  <2>1. NeededBy(m, p) = IndicesIn(m.needed[p])
    BY <1>1 DEF NeededBy, IndicesIn
  <2> QED
    BY <1>1, <2>1, UnionFinite
<1>3. NeededBy(m, p) \in SUBSET Int
  BY <1>2
<1> QED
  BY <1>2, <1>3, SortedEnumerates DEF Wanted

\* An index is owned at one place, by its owner,
LEMMA OwnersAre ==
    ASSUME NEW m \in Meshes
    PROVE  /\ \A q \in TasksOf(m) : \A g \in OwnedBy(m, q) : Owner(m, g) = q
           /\ \A p \in TasksOf(m) : \A g \in NeededBy(m, p) :
                 Owner(m, g) \in TasksOf(m) /\ g \in OwnedBy(m, Owner(m, g))
<1>1. ASSUME NEW p \in TasksOf(m), NEW q \in TasksOf(m), NEW g \in OwnedBy(m, p),
             g \in OwnedBy(m, q)
      PROVE  p = q
  <2>1. PICK b \in BlocksOf(m, p), c \in BlocksOf(m, q) :
           g \in Range(m.owned[p][b]) /\ g \in Range(m.owned[q][c])
    BY <1>1 DEF OwnedBy
  <2>2. PICK j \in DOMAIN m.owned[p][b], k \in DOMAIN m.owned[q][c] :
           m.owned[p][b][j] = g /\ m.owned[q][c][k] = g
    BY <2>1 DEF Range
  <2> QED
    BY <2>1, <2>2, MeshesAssumption DEF TasksOf, BlocksOf
<1>2. ASSUME NEW p \in TasksOf(m), NEW g \in NeededBy(m, p)
      PROVE  \E q \in TasksOf(m) : g \in OwnedBy(m, q)
  <2>1. PICK b \in BlocksOf(m, p) : g \in Range(m.needed[p][b])
    BY DEF NeededBy
  <2>2. PICK j \in DOMAIN m.needed[p][b] : m.needed[p][b][j] = g
    BY <2>1 DEF Range
  <2>3. b \in DOMAIN m.needed[p]
    BY BlocksAre
  <2>4. \E q \in TasksOf(m) : \E c \in BlocksOf(m, q) : g \in Range(m.owned[q][c])
    BY <2>2, <2>3, MeshesAssumption DEF TasksOf, BlocksOf
  <2> QED
    BY <2>4 DEF OwnedBy
<1>3. ASSUME NEW q \in TasksOf(m), NEW g \in OwnedBy(m, q) PROVE Owner(m, g) = q
  BY <1>1, <1>3 DEF Owner
<1> QED
  BY <1>2, <1>3

\* and every list of owned indices has it once.
LEMMA OwnedOnce ==
    ASSUME NEW m \in Meshes, NEW p \in TasksOf(m), NEW b \in BlocksOf(m, p),
           NEW j \in DOMAIN m.owned[p][b],
           NEW c \in BlocksOf(m, p), NEW k \in DOMAIN m.owned[p][c],
           m.owned[p][b][j] = m.owned[p][c][k]
    PROVE  b = c /\ j = k
BY MeshesAssumption DEF TasksOf, BlocksOf

\* The places on the ring.
LEMMA RingIs ==
    ASSUME NEW m \in Meshes, NEW p \in TasksOf(m)
    PROVE  /\ \A k \in 0 .. Size(m) :
                 /\ Before(m, p, k) \in TasksOf(m)
                 /\ (p + Size(m) - k) % Size(m) = Before(m, p, k)
           /\ Before(m, p, 0) = p /\ Before(m, p, Size(m)) = p
           /\ \A k \in 0 .. Size(m) - 1 :
                 /\ Before(m, Before(m, p, 1), k) = Before(m, p, k + 1)
                 /\ Places(m, Before(m, p, k), p) = k
           /\ \A q \in TasksOf(m) :
                 /\ Places(m, p, q) \in 0 .. Size(m) - 1
                 /\ Before(m, q, Places(m, p, q)) = p
                 /\ Before(m, p, 1) = Before(m, q, 1) => p = q
<1> PICK N : N = Size(m)
  OBVIOUS
<1>1. N \in Nat \ {0} /\ TasksOf(m) = 0 .. N - 1
  BY TasksAre
<1>2. \A x \in 0 .. N - 1 : x % N = x /\ (x + N) % N = x
  BY <1>1, SMTT(30)
<1>3. ASSUME NEW k \in 0 .. N
      PROVE  Before(m, p, k) \in 0 .. N - 1 /\ (p + N - k) % N = Before(m, p, k)
  <2>1. CASE k <= p
    <3>1. p - k \in 0 .. N - 1 /\ p + N - k = (p - k) + N
      BY <1>1, <2>1
    <3> QED
      BY <1>2, <2>1, <3>1 DEF Before
  <2>2. CASE k > p
    <3>1. p - k + N \in 0 .. N - 1 /\ p + N - k = p - k + N /\ ~(k <= p)
      BY <1>1, <2>2
    <3> QED
      BY <1>2, <2>2, <3>1 DEF Before
  <2> QED
    BY <1>1, <2>1, <2>2
<1>4. Before(m, p, 0) = p /\ Before(m, p, N) = p
  BY <1>1 DEF Before
<1>5. ASSUME NEW k \in 0 .. N - 1
      PROVE  /\ Before(m, Before(m, p, 1), k) = Before(m, p, k + 1)
             /\ Places(m, Before(m, p, k), p) = k
  BY <1>1 DEF Before, Places
<1>6. ASSUME NEW q \in TasksOf(m)
      PROVE  /\ Places(m, p, q) \in 0 .. N - 1
             /\ Before(m, q, Places(m, p, q)) = p
             /\ Before(m, p, 1) = Before(m, q, 1) => p = q
  BY <1>1 DEF Before, Places
<1> QED
  BY <1>1, <1>3, <1>4, <1>5, <1>6

-----------------------------------------------------------------------------
(* What a list goes through on its way round *)

\* At home a list has no marks.
LEMMA SeenAtFirst ==
    ASSUME NEW m \in Meshes, NEW p \in TasksOf(m)
    PROVE  Seen(m, p, 0) = Wanted(m, p)
<1>1. /\ Wanted(m, p) = [k \in 1 .. Cardinality(NeededBy(m, p)) |-> Wanted(m, p)[k]]
  BY WantedAre
<1>2. \A x : x \notin 1 .. 0
  OBVIOUS
<1> QED
  BY <1>1, <1>2 DEF Seen

\* An index somebody needs is provided by its owner only.
LEMMA ProvidedByOwner ==
    ASSUME NEW m \in Meshes, NEW p \in TasksOf(m), NEW k \in 1 .. Cardinality(NeededBy(m, p))
    PROVE  /\ Wanted(m, p)[k] \in NeededBy(m, p) /\ Wanted(m, p)[k] \in Nat \ {0}
           /\ Owner(m, Wanted(m, p)[k]) \in TasksOf(m)
           /\ \A q \in TasksOf(m) : k \in Provides(m, q, p) <=> Owner(m, Wanted(m, p)[k]) = q
<1>1. Wanted(m, p)[k] \in NeededBy(m, p) /\ Wanted(m, p)[k] \in Nat \ {0}
  BY WantedAre
<1>2. Owner(m, Wanted(m, p)[k]) \in TasksOf(m)
  BY <1>1, OwnersAre
<1>3. ASSUME NEW q \in TasksOf(m)
      PROVE  k \in Provides(m, q, p) <=> Owner(m, Wanted(m, p)[k]) = q
  BY <1>1, OwnersAre DEF Provides
<1> QED
  BY <1>1, <1>2, <1>3

\* In the list of p the task h places behind it finds the indices it owns unmarked, and
\* no others of them, and its marks make the list the h tasks have seen.
LEMMA MarkIs ==
    ASSUME NEW m \in Meshes, NEW q \in TasksOf(m), NEW h \in 1 .. Size(m) - 1, NEW p,
           p = Before(m, q, h)
    PROVE  /\ {k \in 1 .. Cardinality(NeededBy(m, p)) :
                  Seen(m, p, h - 1)[k] > 0 /\ Seen(m, p, h - 1)[k] \in OwnedBy(m, q)}
                = Provides(m, q, p)
           /\ \A k \in Provides(m, q, p) : Seen(m, p, h - 1)[k] = Wanted(m, p)[k]
           /\ [k \in 1 .. Cardinality(NeededBy(m, p)) |->
                  IF k \in Provides(m, q, p) THEN MarkOf(q) ELSE Seen(m, p, h - 1)[k]]
                = Seen(m, p, h)
<1>1. Size(m) \in Nat \ {0} /\ TasksOf(m) = 0 .. Size(m) - 1
  BY TasksAre
<1>2. p \in TasksOf(m) /\ Places(m, p, q) = h
  <2>1. h \in 0 .. Size(m) /\ h \in 0 .. Size(m) - 1
    BY <1>1
  <2> QED
    BY <2>1, RingIs
<1> DEFINE K == 1 .. Cardinality(NeededBy(m, p))
           own(k) == Owner(m, Wanted(m, p)[k])
<1>3. ASSUME NEW k \in K
      PROVE  /\ Wanted(m, p)[k] \in Nat \ {0} /\ own(k) \in 0 .. Size(m) - 1
             /\ k \in Provides(m, q, p) <=> own(k) = q
             /\ Places(m, p, own(k)) \in 0 .. Size(m) - 1
             /\ Places(m, p, own(k)) = h => own(k) = q
             /\ Wanted(m, p)[k] \in OwnedBy(m, q) <=> own(k) = q
  <2>1. /\ Wanted(m, p)[k] \in Nat \ {0} /\ own(k) \in TasksOf(m)
        /\ k \in Provides(m, q, p) <=> own(k) = q
    BY <1>2, ProvidedByOwner
  <2>2. /\ Places(m, p, own(k)) \in 0 .. Size(m) - 1
        /\ Before(m, own(k), Places(m, p, own(k))) = p
    BY <1>2, <2>1, RingIs
  <2>3. Places(m, p, own(k)) = h => own(k) = q
    BY <1>1, <1>2, <2>1 DEF Places
  <2>4. k \in Provides(m, q, p) <=> Wanted(m, p)[k] \in OwnedBy(m, q)
    BY DEF Provides
  <2> QED
    BY <1>1, <2>1, <2>2, <2>3, <2>4
<1>4. ASSUME NEW k \in K, NEW x \in Nat
      PROVE  Seen(m, p, x)[k] = IF Places(m, p, own(k)) \in 1 .. x THEN MarkOf(own(k)) ELSE Wanted(m, p)[k]
  BY DEF Seen
<1>5. \A x : DOMAIN Seen(m, p, x) = K /\ Seen(m, p, x) = [k \in K |-> Seen(m, p, x)[k]]
  BY DEF Seen
<1>6. Provides(m, q, p) \subseteq K
  BY DEF Provides
<1> HIDE DEF own, K
<1>7. ASSUME NEW k \in K, own(k) = q
      PROVE  Seen(m, p, h - 1)[k] = Wanted(m, p)[k] /\ Seen(m, p, h)[k] = MarkOf(q)
  <2>1. h - 1 \in Nat /\ h \in Nat /\ h \notin 1 .. h - 1 /\ h \in 1 .. h
    BY <1>1
  <2> QED
    BY <1>2, <1>4, <1>7, <2>1
<1>8. ASSUME NEW k \in K, own(k) # q
      PROVE  Seen(m, p, h)[k] = Seen(m, p, h - 1)[k]
  <2>1. h - 1 \in Nat /\ h \in Nat
    BY <1>1
  <2>2. Places(m, p, own(k)) # h /\ Places(m, p, own(k)) \in Nat
    BY <1>1, <1>3, <1>8
  <2>3. Places(m, p, own(k)) \in 1 .. h <=> Places(m, p, own(k)) \in 1 .. h - 1
    BY <2>1, <2>2
  <2> QED
    BY <1>4, <2>1, <2>3
<1>9. ASSUME NEW k \in K
      PROVE  Seen(m, p, h - 1)[k] > 0 /\ Seen(m, p, h - 1)[k] \in OwnedBy(m, q) <=> own(k) = q
  <2>1. CASE own(k) = q
    BY <1>3, <1>7, <2>1
  <2>2. CASE own(k) # q
    <3>1. h - 1 \in Nat
      BY <1>1
    <3>2. ~(MarkOf(own(k)) > 0)
      BY <1>1, <1>3 DEF MarkOf
    <3>3. Wanted(m, p)[k] \notin OwnedBy(m, q)
      BY <1>3, <2>2
    <3> QED
      BY <1>4, <2>2, <3>1, <3>2, <3>3
  <2> QED
    BY <2>1, <2>2
<1>10. {k \in K : Seen(m, p, h - 1)[k] > 0 /\ Seen(m, p, h - 1)[k] \in OwnedBy(m, q)}
         = Provides(m, q, p)
  BY <1>3, <1>6, <1>9
<1>11. \A k \in Provides(m, q, p) : Seen(m, p, h - 1)[k] = Wanted(m, p)[k]
  BY <1>3, <1>6, <1>7
<1>12. [k \in K |-> IF k \in Provides(m, q, p) THEN MarkOf(q) ELSE Seen(m, p, h - 1)[k]]
         = Seen(m, p, h)
  <2>1. \A k \in K : (IF k \in Provides(m, q, p) THEN MarkOf(q) ELSE Seen(m, p, h - 1)[k])
                       = Seen(m, p, h)[k]
    BY <1>3, <1>7, <1>8
  <2> QED
    BY <1>5, <2>1
<1> QED
  BY <1>10, <1>11, <1>12 DEF K

\* Back home the list has the mark of each other task where that task provides.
LEMMA MarkedAre ==
    ASSUME NEW m \in Meshes, NEW p \in TasksOf(m), NEW q \in TasksOf(m), q # p
    PROVE  {k \in DOMAIN Wanted(m, p) : Seen(m, p, Size(m) - 1)[k] = -1 * q} = Provides(m, q, p)
<1>1. Size(m) \in Nat \ {0} /\ TasksOf(m) = 0 .. Size(m) - 1 /\ Size(m) - 1 \in Nat
  BY TasksAre
<1> DEFINE K == 1 .. Cardinality(NeededBy(m, p))
           own(k) == Owner(m, Wanted(m, p)[k])
<1>2. DOMAIN Wanted(m, p) = K /\ Provides(m, q, p) \subseteq K
  BY WantedAre DEF Provides
<1>3. ASSUME NEW k \in K
      PROVE  Seen(m, p, Size(m) - 1)[k] = -1 * q <=> k \in Provides(m, q, p)
  <2>1. /\ Wanted(m, p)[k] \in Nat \ {0} /\ own(k) \in 0 .. Size(m) - 1
        /\ k \in Provides(m, q, p) <=> own(k) = q
    BY <1>1, ProvidedByOwner
  <2>2. Places(m, p, own(k)) \in 0 .. Size(m) - 1
    BY <1>1, <2>1, RingIs
  <2>3. Places(m, p, own(k)) = 0 <=> own(k) = p
    BY <1>1, <2>1 DEF Places
  <2>4. Seen(m, p, Size(m) - 1)[k] =
          IF Places(m, p, own(k)) \in 1 .. Size(m) - 1 THEN MarkOf(own(k)) ELSE Wanted(m, p)[k]
    BY DEF Seen
  <2> HIDE DEF own, K
  <2>5. CASE own(k) = p
    <3>1. Seen(m, p, Size(m) - 1)[k] = Wanted(m, p)[k]
      BY <2>3, <2>4, <2>5
    <3> QED
      BY <1>1, <2>1, <2>5, <3>1
  <2>6. CASE own(k) # p
    <3>1. Places(m, p, own(k)) \in 1 .. Size(m) - 1
      BY <1>1, <2>2, <2>3, <2>6
    <3>2. Seen(m, p, Size(m) - 1)[k] = -1 * own(k)
      BY <2>4, <3>1 DEF MarkOf
    <3> QED
      BY <1>1, <2>1, <3>2
  <2> QED
    BY <2>5, <2>6
<1> HIDE DEF K
<1> QED
  BY <1>2, <1>3

-----------------------------------------------------------------------------
(* What the lists say *)

\* What a block packs for another task: the indices of that task's list it owns, each
\* where its rank among those its task provides puts it.
LEMMA PackedAre ==
    ASSUME NEW m \in Meshes, NEW p \in TasksOf(m), NEW q \in TasksOf(m), NEW b \in BlocksOf(m, q)
    PROVE  Range(PackedFor(m, q, b, p)) =
              {[src  |-> Position(m.owned[q][b], Wanted(m, p)[k]),
                dest |-> Rank(Provides(m, q, p), k)] : k \in BlockProvides(m, q, b, p)}
<1> DEFINE B == BlockProvides(m, q, b, p)
           js == Sorted(B)
           e(k) == [src  |-> Position(m.owned[q][b], Wanted(m, p)[k]),
                    dest |-> Rank(Provides(m, q, p), k)]
<1>1. B \in SUBSET (1 .. Cardinality(NeededBy(m, p))) /\ B \in SUBSET Int
  BY DEF BlockProvides, Provides
<1>2. IsFiniteSet(B)
  <2>1. Cardinality(NeededBy(m, p)) \in Nat
    BY WantedAre
  <2>2. B \in SUBSET (0 .. Cardinality(NeededBy(m, p)))
    BY <1>1, <2>1
  <2> QED
    BY <2>1, <2>2, NumbersTo
<1>3. /\ \A x \in DOMAIN js : js[x] \in B
      /\ \A k \in B : \E x \in DOMAIN js : js[x] = k
  BY <1>1, <1>2, OverSorted
<1>4. PackedFor(m, q, b, p) = [x \in DOMAIN js |-> e(js[x])]
  BY DEF PackedFor
<1> HIDE DEF e, js, B
<1>5. Range(PackedFor(m, q, b, p)) = {e(k) : k \in B}
  BY <1>3, <1>4 DEF Range
<1> QED
  BY <1>5 DEF e, B

\* The entries for a task in the send lists of a block that has seen all other lists.
LEMMA ServedAre ==
    ASSUME NEW m \in Meshes, NEW p \in TasksOf(m), NEW q \in TasksOf(m), p # q,
           NEW b \in BlocksOf(m, q), NEW s, Range(s) = Served(m, q, b, Size(m) - 1), NEW f, NEW v
    PROVE  Entries(s, p, f, v) = {x \in Range(PackedFor(m, q, b, p)) : x[f] = v}
<1> DEFINE l(k) == [endPointID |-> Before(m, q, k), elements |-> PackedFor(m, q, b, Before(m, q, k))]
           h == Places(m, p, q)
           P == {x \in Range(PackedFor(m, q, b, p)) : x[f] = v}
           empty(k) == BlockProvides(m, q, b, Before(m, q, k)) = {}
<1>1. Size(m) \in Nat \ {0} /\ TasksOf(m) = 0 .. Size(m) - 1
  BY TasksAre
<1>2. h \in 1 .. Size(m) - 1 /\ Before(m, q, h) = p
  <2>1. h \in 0 .. Size(m) - 1 /\ Before(m, q, h) = p
    BY RingIs
  <2>2. h # 0
    BY <1>1 DEF Places
  <2> QED
    BY <1>1, <2>1, <2>2
<1>3. ASSUME NEW k \in 1 .. Size(m) - 1, Before(m, q, k) = p PROVE k = h
  <2>1. k \in 0 .. Size(m) - 1
    BY <1>1
  <2> QED
    BY <1>3, <2>1, RingIs
<1>4. Range(s) = {l(k) : k \in {x \in 1 .. Size(m) - 1 : ~empty(x)}}
  BY DEF Served
<1>5. \A k : l(k).endPointID = Before(m, q, k)
  OBVIOUS
<1>6. l(h).elements = PackedFor(m, q, b, p)
  BY <1>2
<1>7. Entries(s, p, f, v) =
        UNION {{x \in Range(r.elements) : x[f] = v} : r \in {k \in Range(s) : k.endPointID = p}}
  BY DEF Entries
<1>8. empty(h) => P = {}
  BY <1>2, PackedAre
<1> HIDE DEF l, h, empty
<1>9. CASE empty(h)
  <2>1. {k \in Range(s) : k.endPointID = p} = {}
    BY <1>3, <1>4, <1>5, <1>9
  <2> QED
    BY <1>7, <1>8, <1>9, <2>1
<1>10. CASE ~empty(h)
  <2>1. {k \in Range(s) : k.endPointID = p} = {l(h)}
    BY <1>2, <1>3, <1>4, <1>5, <1>10
  <2> PICK r : r = l(h)
    OBVIOUS
  <2> QED
    BY <1>6, <1>7, <2>1
<1> QED
  BY <1>9, <1>10

\* What the send lists s of the blocks of q put at a place of the message to p, and what
\* the copy lists of the blocks of p put at a place of its block b.
SentIn(m, s, q, p, at) ==
    UNION {{m.owned[q][b][x.src] : x \in Entries(s[b], p, "dest", at)} : b \in BlocksOf(m, q)}
CopiedIn(m, p, b, at) ==
    UNION {{m.owned[p][c][x.src] : x \in Entries(CopyListOf(m, p)[c], b, "dest", at)} :
           c \in BlocksOf(m, p)}

\* At the rank of an entry of the list of p the message of q holds its index and no other.
LEMMA SentIs ==
    ASSUME NEW m \in Meshes, NEW p \in TasksOf(m), NEW q \in TasksOf(m), p # q,
           NEW k \in Provides(m, q, p), NEW s,
           \A b \in BlocksOf(m, q) : Range(s[b]) = Served(m, q, b, Size(m) - 1)
    PROVE  SentIn(m, s, q, p, Rank(Provides(m, q, p), k)) = {Wanted(m, p)[k]}
<1> DEFINE P == Provides(m, q, p)
           at(b) == Entries(s[b], p, "dest", Rank(P, k))
           g == Wanted(m, p)[k]
<1>1. P \in SUBSET (1 .. Cardinality(NeededBy(m, p))) /\ P \in SUBSET Int /\ IsFiniteSet(P)
  <2>1. P \in SUBSET (1 .. Cardinality(NeededBy(m, p))) /\ P \in SUBSET Int
    BY DEF Provides
  <2>2. Cardinality(NeededBy(m, p)) \in Nat
    BY WantedAre
  <2>3. P \in SUBSET (0 .. Cardinality(NeededBy(m, p)))
    BY <2>1, <2>2
  <2> QED
    BY <2>1, <2>2, <2>3, NumbersTo
<1>2. \A j \in P : Rank(P, j) = Rank(P, k) => j = k
  BY <1>1, RanksDiffer
<1>3. ASSUME NEW b \in BlocksOf(m, q), NEW x \in at(b)
      PROVE  m.owned[q][b][x.src] = g
  <2>1. x \in Range(PackedFor(m, q, b, p)) /\ x["dest"] = Rank(P, k)
    BY ServedAre
  <2>2. PICK j \in BlockProvides(m, q, b, p) :
           x = [src |-> Position(m.owned[q][b], Wanted(m, p)[j]), dest |-> Rank(P, j)]
    BY <2>1, PackedAre
  <2>3. j = k
    BY <1>2, <2>1, <2>2 DEF BlockProvides
  <2>4. PICK y \in DOMAIN m.owned[q][b] : m.owned[q][b][y] = g
    BY <2>2, <2>3 DEF BlockProvides, Range
  <2>5. m.owned[q][b][Position(m.owned[q][b], g)] = g
    BY <2>4, PositionIs
  <2> QED
    BY <2>2, <2>3, <2>5
<1>4. \E b \in BlocksOf(m, q) : at(b) # {}
  <2>1. PICK b \in BlocksOf(m, q) : g \in Range(m.owned[q][b])
    BY DEF Provides, OwnedBy
  <2>2. k \in BlockProvides(m, q, b, p)
    BY <2>1 DEF BlockProvides
  <2> DEFINE r == [src |-> Position(m.owned[q][b], g), dest |-> Rank(P, k)]
  <2>3. r \in Range(PackedFor(m, q, b, p)) /\ r["dest"] = Rank(P, k)
    BY <2>2, PackedAre
  <2> HIDE DEF r
  <2>4. r \in at(b)
    BY <2>3, ServedAre
  <2> QED
    BY <2>4
<1> HIDE DEF at, g
<1>5. UNION {{m.owned[q][b][x.src] : x \in at(b)} : b \in BlocksOf(m, q)} = {g}
  BY <1>3, <1>4
<1> QED
  BY <1>5 DEF at, g, SentIn

\* Task p receives an index of another task at its place, and finds it in the message by
\* the rank of that index among those the other task provides.
LEMMA ReceivedIs ==
    ASSUME NEW m \in Meshes, NEW p \in TasksOf(m), NEW b \in BlocksOf(m, p),
           NEW j \in DOMAIN m.needed[p][b], NEW q
    PROVE  Entries(RecvListOf(m, p)[b], q, "dest", j + Len(m.owned[p][b])) =
             LET g == m.needed[p][b][j]
             IN  IF q \in TasksOf(m) \ {p} /\ g \in OwnedBy(m, q)
                 THEN {[src  |-> Rank(Provides(m, q, p), Position(Wanted(m, p), g)),
                        dest |-> j + Len(m.owned[p][b])]}
                 ELSE {}
<1> DEFINE needs == m.needed[p][b]
           off == Len(m.owned[p][b])
           place(g) == Position(Wanted(m, p), g)
           E == [x \in TasksOf(m) \ {p} |-> UnpackedFor(m, p, b, x)]
<1>1. /\ needs \in Seq(Nat \ {0}) /\ DOMAIN needs = 1 .. Len(needs) /\ Len(needs) \in Nat
      /\ off \in Nat
  <2>1. needs \in Seq(Nat \ {0}) /\ m.owned[p][b] \in Seq(Nat \ {0})
    BY BlocksAre
  <2> HIDE DEF needs
  <2>2. DOMAIN needs = 1 .. Len(needs) /\ Len(needs) \in Nat
    BY <2>1, LenProperties
  <2>3. off \in Nat
    BY <2>1, LenProperties
  <2> QED
    BY <2>1, <2>2, <2>3
<1>2. IsFiniteSet(DOMAIN needs)
  <2>1. DOMAIN needs \in SUBSET (0 .. Len(needs))
    BY <1>1
  <2> QED
    BY <1>1, <2>1, NumbersTo
<1>3. TasksOf(m) \ {p} \in SUBSET Int /\ IsFiniteSet(TasksOf(m) \ {p})
  <2>1. Size(m) \in Nat /\ TasksOf(m) \ {p} \in SUBSET (0 .. Size(m))
    BY TasksAre
  <2> QED
    BY <2>1, NumbersTo
<1>4. RecvListOf(m, p)[b] = ListsOver(E)
  BY DEF RecvListOf
<1>5. Entries(ListsOver(E), q, "dest", j + off) =
        IF q \in TasksOf(m) \ {p} THEN {x \in Range(E[q]) : x["dest"] = j + off} ELSE {}
  <2>1. DOMAIN E = TasksOf(m) \ {p}
    OBVIOUS
  <2> HIDE DEF E, off
  <2> PICK v, D, EE : v = j + off /\ D = TasksOf(m) \ {p} /\ EE = E
    OBVIOUS
  <2>2. D \in SUBSET Int /\ IsFiniteSet(D) /\ DOMAIN EE = D
    BY <1>3, <2>1
  <2>3. Entries(ListsOver(EE), q, "dest", v) =
          IF q \in D THEN {x \in Range(EE[q]) : x["dest"] = v} ELSE {}
    <3>1. CASE q \in D
      BY <2>2, <3>1, ListsOverEntries
    <3>2. CASE q \notin D
      BY <2>2, <3>2, ListsOverEntries
    <3> QED
      BY <3>1, <3>2
  <2> QED
    BY <2>3
<1>6. ASSUME NEW k \in DOMAIN needs, q \in TasksOf(m)
      PROVE  place(needs[k]) \in Provides(m, q, p) <=> needs[k] \in OwnedBy(m, q)
  <2>1. needs[k] \in NeededBy(m, p)
    BY DEF NeededBy, Range
  <2>2. PICK x \in 1 .. Cardinality(NeededBy(m, p)) : Wanted(m, p)[x] = needs[k]
    BY <2>1, WantedAre
  <2>3. DOMAIN Wanted(m, p) = 1 .. Cardinality(NeededBy(m, p))
    BY WantedAre
  <2>4. place(needs[k]) \in DOMAIN Wanted(m, p) /\ Wanted(m, p)[place(needs[k])] = needs[k]
    <3> PICK s : s = Wanted(m, p)
      OBVIOUS
    <3>1. x \in DOMAIN s /\ s[x] = needs[k]
      BY <2>2, <2>3
    <3>2. Position(s, s[x]) \in DOMAIN s /\ s[Position(s, s[x])] = s[x]
      BY <3>1, PositionIs
    <3> QED
      BY <3>1, <3>2
  <2> QED
    BY <2>3, <2>4 DEF Provides
<1>7. CASE q \in TasksOf(m) \ {p}
  <2> DEFINE J == {k \in DOMAIN needs : place(needs[k]) \in Provides(m, q, p)}
             js == Sorted(J)
             e(k) == [src |-> Rank(Provides(m, q, p), place(needs[k])), dest |-> k + off]
  <2>1. J \in SUBSET DOMAIN needs /\ J \in SUBSET Int /\ IsFiniteSet(J)
    BY <1>1, <1>2, FS_Subset
  <2>2. /\ \A x \in DOMAIN js : js[x] \in J
        /\ \A k \in J : \E x \in DOMAIN js : js[x] = k
    BY <2>1, OverSorted
  <2>3. UnpackedFor(m, p, b, q) = [x \in DOMAIN js |-> e(js[x])]
    BY DEF UnpackedFor
  <2>4. j \in J <=> needs[j] \in OwnedBy(m, q)
    BY <1>6, <1>7
  <2>5. \A k \in J : e(k)["dest"] = k + off
    OBVIOUS
  <2> HIDE DEF e, J, js
  <2>6. Range(UnpackedFor(m, p, b, q)) = {e(k) : k \in J}
    BY <2>2, <2>3 DEF Range
  <2>7. \A k \in J : k + off = j + off <=> k = j
    <3>1. \A k \in J : k \in Int
      BY <2>1
    <3>2. j \in Int /\ off \in Int
      BY <1>1
    <3> HIDE DEF J, off
    <3> QED
      BY <3>1, <3>2, SameOffset
  <2>8. {x \in Range(UnpackedFor(m, p, b, q)) : x["dest"] = j + off} =
           IF j \in J THEN {e(j)} ELSE {}
    BY <2>5, <2>6, <2>7
  <2>9. E[q] = UnpackedFor(m, p, b, q)
    BY <1>7
  <2> HIDE DEF E, needs, off
  <2>10. Entries(RecvListOf(m, p)[b], q, "dest", j + off) = IF j \in J THEN {e(j)} ELSE {}
    BY <1>4, <1>5, <1>7, <2>8, <2>9
  <2> QED
    BY <1>7, <2>4, <2>10 DEF e, off, needs
<1>8. CASE q \notin TasksOf(m) \ {p}
  BY <1>4, <1>5, <1>8
<1> QED
  BY <1>7, <1>8

\* Block b of task p copies an index of its own task to its place, and no other there.
LEMMA CopiedIs ==
    ASSUME NEW m \in Meshes, NEW p \in TasksOf(m), NEW b \in BlocksOf(m, p),
           NEW j \in DOMAIN m.needed[p][b]
    PROVE  CopiedIn(m, p, b, j + Len(m.owned[p][b])) =
             IF m.needed[p][b][j] \in OwnedBy(m, p) THEN {m.needed[p][b][j]} ELSE {}
<1> DEFINE needs == m.needed[p][b]
           off == Len(m.owned[p][b])
           g == m.needed[p][b][j]
           at(c) == Entries(CopyListOf(m, p)[c], b, "dest", j + off)
<1>1. /\ DOMAIN needs = 1 .. Len(needs) /\ Len(needs) \in Nat /\ off \in Nat
      /\ \A k \in DOMAIN needs : needs[k] = g => k = j
      /\ BlocksOf(m, p) \in SUBSET Int /\ IsFiniteSet(BlocksOf(m, p))
  <2>1. /\ needs \in Seq(Nat \ {0}) /\ m.owned[p][b] \in Seq(Nat \ {0}) /\ IsInjective(needs)
        /\ m.owned[p] \in Seq(Seq(Nat \ {0})) /\ BlocksOf(m, p) = 1 .. Len(m.owned[p])
    BY BlocksAre
  <2>2. Len(m.owned[p]) \in Nat
    BY <2>1
  <2>3. BlocksOf(m, p) \in SUBSET (0 .. Len(m.owned[p]))
    BY <2>1, <2>2
  <2>4. \A k \in DOMAIN needs : needs[k] = g => k = j
    BY <2>1 DEF IsInjective
  <2>5. DOMAIN needs = 1 .. Len(needs) /\ Len(needs) \in Nat
    <3> HIDE DEF needs
    <3> QED
      BY <2>1, LenProperties
  <2>6. off \in Nat
    BY <2>1, LenProperties
  <2>7. BlocksOf(m, p) \in SUBSET Int /\ IsFiniteSet(BlocksOf(m, p))
    BY <2>2, <2>3, NumbersTo
  <2> QED
    BY <2>4, <2>5, <2>6, <2>7
<1>2. ASSUME NEW c \in BlocksOf(m, p)
      PROVE  {m.owned[p][c][x.src] : x \in at(c)} = IF g \in Range(m.owned[p][c]) THEN {g} ELSE {}
  <2> DEFINE owns == m.owned[p][c]
             J == {k \in DOMAIN owns : owns[k] \in Range(needs)}
             js == Sorted(J)
             e(k) == [src |-> k, dest |-> Position(needs, owns[k]) + off]
             E == [x \in BlocksOf(m, p) |-> CopiedTo(m, p, c, x)]
  <2>1. DOMAIN owns \in SUBSET Int /\ IsFiniteSet(DOMAIN owns)
    <3>1. owns \in Seq(Nat \ {0})
      BY BlocksAre
    <3>2. Len(owns) \in Nat /\ DOMAIN owns \in SUBSET (0 .. Len(owns))
      BY <3>1
    <3> QED
      BY <3>2, NumbersTo
  <2>2. J \in SUBSET DOMAIN owns /\ J \in SUBSET Int /\ IsFiniteSet(J)
    BY <2>1, FS_Subset
  <2>3. /\ \A x \in DOMAIN js : js[x] \in J
        /\ \A k \in J : \E x \in DOMAIN js : js[x] = k
    BY <2>2, OverSorted
  <2>4. CopiedTo(m, p, c, b) = [x \in DOMAIN js |-> e(js[x])]
    BY DEF CopiedTo
  <2>5. ASSUME NEW k \in J PROVE e(k)["dest"] = j + off <=> owns[k] = g
    <3>1. PICK y \in DOMAIN needs : needs[y] = owns[k]
      BY DEF Range
    <3>2. Position(needs, owns[k]) \in DOMAIN needs /\ needs[Position(needs, owns[k])] = owns[k]
      BY <3>1, PositionIs
    <3>3. e(k)["dest"] = Position(needs, owns[k]) + off
      OBVIOUS
    <3> QED
      BY <1>1, <3>2, <3>3
  <2>6. \A k \in J : e(k).src = k
    OBVIOUS
  <2>7. Entries(ListsOver(E), b, "dest", j + off) = {x \in Range(E[b]) : x["dest"] = j + off}
    BY <1>1, ListsOverEntries
  <2>8. CopyListOf(m, p)[c] = ListsOver(E) /\ E[b] = CopiedTo(m, p, c, b)
    BY DEF CopyListOf
  <2>9. \A k \in DOMAIN owns : owns[k] = g => k \in J
    BY DEF Range
  <2> HIDE DEF e, J, js, E
  <2>10. Range(CopiedTo(m, p, c, b)) = {e(k) : k \in J}
    BY <2>3, <2>4 DEF Range
  <2>11. at(c) = {e(k) : k \in {x \in J : owns[x] = g}}
    BY <2>5, <2>7, <2>8, <2>10
  <2>12. {owns[x.src] : x \in at(c)} = {owns[k] : k \in {x \in J : owns[x] = g}}
    BY <2>6, <2>11
  <2>13. {owns[k] : k \in {x \in J : owns[x] = g}} = IF g \in Range(owns) THEN {g} ELSE {}
    BY <2>2, <2>9 DEF Range
  <2> QED
    BY <2>12, <2>13
<1>3. g \in OwnedBy(m, p) <=> \E c \in BlocksOf(m, p) : g \in Range(m.owned[p][c])
  BY DEF OwnedBy
<1> HIDE DEF g, at
<1>4. UNION {{m.owned[p][c][x.src] : x \in at(c)} : c \in BlocksOf(m, p)} =
        IF g \in OwnedBy(m, p) THEN {g} ELSE {}
  BY <1>2, <1>3
<1> QED
  BY <1>4 DEF g, at, CopiedIn

-----------------------------------------------------------------------------
(* Steps *)

\* The definitions of ExchangeLists are those of the mesh.
LEMMA OfTheMesh ==
    /\ Procs = TasksOf(mesh) /\ nprocs = Size(mesh)
    /\ \A p : /\ Blocks(p) = BlocksOf(mesh, p)
              /\ Owned(p) = OwnedBy(mesh, p) /\ Needed(p) = NeededBy(mesh, p)
              /\ uniqueSortedNeededList(p) = Wanted(mesh, p)
    /\ \A p, b, c : Copied(p, b, c) = CopiedTo(mesh, p, b, c)
<1>1. Procs = TasksOf(mesh) /\ nprocs = Size(mesh)
  BY DEF Procs, nprocs, TasksOf, Size
<1>2. \A p : /\ Blocks(p) = BlocksOf(mesh, p)
             /\ Owned(p) = OwnedBy(mesh, p) /\ Needed(p) = NeededBy(mesh, p)
             /\ uniqueSortedNeededList(p) = Wanted(mesh, p)
  BY DEF Blocks, BlocksOf, Owned, OwnedBy, Needed, NeededBy, uniqueSortedNeededList, Wanted
<1>3. ASSUME NEW p, NEW b, NEW c PROVE Copied(p, b, c) = CopiedTo(mesh, p, b, c)
  BY DEF Copied, CopiedTo, offset
<1> QED
  BY <1>1, <1>2, <1>3

\* The neighbour a task receives from, and the task whose list it has in hand.
LEMMA NeighborsAre ==
    ASSUME mesh \in Meshes, NEW p \in TasksOf(mesh)
    PROVE  /\ recvNeighbor(p) = Before(mesh, p, 1) /\ recvNeighbor(p) \in TasksOf(mesh)
           /\ i[p] \in 1 .. Size(mesh) + 1 => currentProc(p) = Before(mesh, p, i[p] - 1)
<1> PICK N, k : N = Size(mesh) /\ k = i[p]
  OBVIOUS
<1>1. N \in Nat \ {0} /\ nprocs = N /\ p \in Int
  BY TasksAre, OfTheMesh
<1>2. \A x \in 0 .. N : Before(mesh, p, x) \in TasksOf(mesh) /\ (p + N - x) % N = Before(mesh, p, x)
  BY RingIs
<1>3. 1 \in 0 .. N
  BY <1>1
<1>4. ASSUME k \in 1 .. N + 1 PROVE currentProc(p) = Before(mesh, p, k - 1)
  <2>1. k - 1 \in 0 .. N /\ p + N - k + 1 = p + N - (k - 1)
    BY <1>1, <1>4
  <2>2. currentProc(p) = (p + N - k + 1) % N
    BY <1>1 DEF currentProc
  <2> QED
    BY <1>2, <2>1, <2>2
<1> QED
  BY <1>1, <1>2, <1>3, <1>4 DEF recvNeighbor

\* A step that leaves alone what is at another task.
OthersSame(p) ==
    /\ mesh' = mesh /\ OnTasks'
    /\ \A x \in TasksOf(mesh) \ {p} :
          /\ pc'[x] = pc[x] /\ i'[x] = i[x]
          /\ nMesgSend'[x] = nMesgSend[x] /\ nMesgRecv'[x] = nMesgRecv[x]
          /\ ownerListOut'[x] = ownerListOut[x] /\ ownerListIn'[x] = ownerListIn[x]
          /\ sending'[x] = sending[x] /\ receiving'[x] = receiving[x]
          /\ sendList'[x] = sendList[x] /\ recvList'[x] = recvList[x]
          /\ copyList'[x] = copyList[x]

\* Such a step leaves the invariant of the other tasks alone,
LEMMA OthersKeep ==
    ASSUME NEW p, OthersSame(p), NEW x \in TasksOf(mesh) \ {p}, TaskInv(x)
    PROVE  TaskInv(x)' /\ Sent(x)' = Sent(x) /\ Got(x)' = Got(x)
<1>1. Sent(x)' = Sent(x) /\ Got(x)' = Got(x)
  BY DEF OthersSame, Sent, Got, Progress
<1>2. Phase(x)'
  BY DEF OthersSame, TaskInv, Phase, Exchanging
<1>3. Buffers(x)'
  BY DEF OthersSame, TaskInv, Buffers, Exchanging
<1>4. ListsSeen(x)' = ListsSeen(x)
  BY DEF OthersSame, ListsSeen
<1>5. ListsMade(x)'
  BY <1>4 DEF OthersSame, TaskInv, ListsMade
<1> QED
  BY <1>1, <1>2, <1>3, <1>5 DEF TaskInv

\* and the messages between two tasks, if they are where they were.
LEMMA UnderwayKept ==
    ASSUME NEW q, NEW p, mesh' = mesh, wire'[q] = wire[q], Sent(q)' = Sent(q), Got(p)' = Got(p),
           Underway(q, p)
    PROVE  Underway(q, p)'
BY DEF Underway

\* A step of one task that sends and receives nothing.
LEMMA LocalStep ==
    ASSUME IInv, NEW p \in TasksOf(mesh), OthersSame(p), wire' = wire,
           Sent(p)' = Sent(p), Got(p)' = Got(p), TaskInv(p)'
    PROVE  IInv'
<1>1. mesh' = mesh /\ TasksOf(mesh)' = TasksOf(mesh) /\ mesh \in Meshes /\ OnTasks'
  BY DEF IInv, OthersSame
<1>2. \A x \in TasksOf(mesh) : TaskInv(x)' /\ Sent(x)' = Sent(x) /\ Got(x)' = Got(x)
  BY OthersKeep DEF IInv
<1>3. ASSUME NEW x \in TasksOf(mesh) PROVE Underway(Before(mesh, x, 1), x)'
  <2> PICK q \in TasksOf(mesh) : q = Before(mesh, x, 1)
    BY <1>1, NeighborsAre
  <2>1. Underway(q, x)
    BY DEF IInv
  <2>2. Underway(q, x)'
    BY <1>1, <1>2, <2>1, UnderwayKept
  <2> QED
    BY <1>1, <2>2
<1> QED
  BY <1>1, <1>2, <1>3 DEF IInv

\* What is known of a task before a step.
LEMMA TaskFacts ==
    ASSUME IInv, NEW p \in Procs
    PROVE  /\ mesh \in Meshes /\ p \in TasksOf(mesh) /\ Procs = TasksOf(mesh)
           /\ nprocs = Size(mesh) /\ Size(mesh) \in Nat \ {0} /\ p \in 0 .. Size(mesh) - 1
           /\ Phase(p) /\ Buffers(p) /\ ListsMade(p) /\ OnTasks
           /\ i[p] \in 1 .. Size(mesh) + 1
<1>1. mesh \in Meshes /\ p \in TasksOf(mesh) /\ Procs = TasksOf(mesh) /\ nprocs = Size(mesh)
  BY OfTheMesh DEF IInv
<1>2. Phase(p) /\ Buffers(p) /\ ListsMade(p) /\ OnTasks
  BY <1>1 DEF IInv, TaskInv
<1>3. Size(mesh) \in Nat \ {0} /\ TasksOf(mesh) = 0 .. Size(mesh) - 1
  BY <1>1, TasksAre
<1>4. i[p] \in 1 .. Size(mesh) + 1
  <2> PICK N : N = Size(mesh)
    OBVIOUS
  <2>1. N \in Nat \ {0}
    BY <1>3
  <2>2. \/ i[p] \in 1 .. N \/ i[p] \in 2 .. N \/ i[p] = 1 \/ i[p] = N + 1
    BY <1>2 DEF Phase
  <2> QED
    BY <2>1, <2>2
<1> QED
  BY <1>1, <1>2, <1>3, <1>4

\* The lists start at home.
LEMMA InitInv == Init => IInv
<1> SUFFICES ASSUME Init PROVE IInv
  OBVIOUS
<1>1. /\ mesh \in Meshes /\ Procs = TasksOf(mesh) /\ nprocs = Size(mesh)
      /\ Size(mesh) \in Nat \ {0} /\ TasksOf(mesh) = 0 .. Size(mesh) - 1
  BY OfTheMesh, TasksAre DEF Init
<1>2. OnTasks
  BY <1>1 DEF Init, OnTasks
<1>3. ASSUME NEW p \in TasksOf(mesh)
      PROVE  /\ wire[p] = <<>> /\ nMesgSend[p] = Cardinality(NeededBy(mesh, p))
             /\ ownerListOut[p] = Wanted(mesh, p)
             /\ Size(mesh) = 1 => ownerListIn[p] = Wanted(mesh, p)
             /\ sendList[p] = [b \in BlocksOf(mesh, p) |-> <<>>]
  BY <1>1, OfTheMesh DEF Init
<1>4. ASSUME NEW p \in TasksOf(mesh)
      PROVE  /\ i[p] = 1 /\ sending[p] = "none" /\ receiving[p] = "none"
             /\ \/ Size(mesh) = 1 /\ pc[p] = "build"
                \/ Size(mesh) > 1 /\ pc[p] = "count"
  BY <1>1 DEF Init
<1>5. ASSUME NEW p \in TasksOf(mesh) PROVE TaskInv(p)
  <2>1. Before(mesh, p, 0) = p /\ Seen(mesh, p, 0) = Wanted(mesh, p)
    BY <1>1, RingIs, SeenAtFirst
  <2>2. Phase(p)
    BY <1>1, <1>4 DEF Phase, Exchanging
  <2>3. Buffers(p)
    <3>1. i[p] - 1 = 0
      BY <1>4
    <3>2. CASE Size(mesh) = 1
      <4>1. pc[p] = "build" /\ Size(mesh) - 1 = 0
        BY <1>4, <3>2
      <4> QED
        BY <1>3, <2>1, <3>2, <4>1 DEF Buffers, Exchanging
    <3>3. CASE Size(mesh) > 1
      <4>1. pc[p] = "count"
        BY <1>4, <3>3
      <4> QED
        BY <1>3, <2>1, <3>1, <4>1 DEF Buffers, Exchanging
    <3> QED
      BY <1>4, <3>2, <3>3
  <2>4. ListsSeen(p) = 0
    BY <1>1, <1>4 DEF ListsSeen
  <2>5. \A b : Served(mesh, p, b, 0) = {}
    BY DEF Served
  <2>6. Range(<<>>) = {} /\ <<>> \in Seq({})
    BY DEF Range
  <2>7. ListsMade(p)
    BY <1>3, <1>4, <2>4, <2>5, <2>6 DEF ListsMade
  <2> QED
    BY <2>2, <2>3, <2>7 DEF TaskInv
<1>6. ASSUME NEW p \in TasksOf(mesh) PROVE Sent(p) = 0 /\ Got(p) = 0
  BY <1>4 DEF Sent, Got, Progress
<1>7. ASSUME NEW p \in TasksOf(mesh) PROVE Underway(Before(mesh, p, 1), p)
  <2> PICK q \in TasksOf(mesh) : q = Before(mesh, p, 1)
    BY <1>1, NeighborsAre
  <2>1. wire[q] = <<>> /\ Sent(q) = 0 /\ Got(p) = 0
    BY <1>3, <1>6
  <2>2. Underway(q, p)
    BY <2>1 DEF Underway
  <2> QED
    BY <2>2
<1> QED
  BY <1>1, <1>2, <1>5, <1>7 DEF IInv

\* Posting a message moves nothing yet.
LEMMA PostStep ==
    ASSUME IInv, NEW p \in Procs, PostCount(p) \/ PostList(p)
    PROVE  IInv'
<1> USE TaskFacts
<1>1. OthersSame(p) /\ wire' = wire /\ i'[p] = i[p]
  BY DEF PostCount, PostList, Post, Goto, OthersSame, OnTasks, buffers, lists
<1>2. /\ nMesgSend' = nMesgSend /\ nMesgRecv' = nMesgRecv /\ mesh' = mesh
      /\ ownerListOut' = ownerListOut /\ ownerListIn' = ownerListIn
      /\ sendList' = sendList /\ recvList' = recvList /\ copyList' = copyList
  BY DEF PostCount, PostList, buffers, lists
<1>3. \/ /\ pc[p] = "count" /\ pc'[p] = "wait_count"
         /\ sending'[p] = "count" /\ receiving'[p] = "count"
      \/ /\ pc[p] = "list" /\ pc'[p] = "wait_list"
         /\ sending'[p] = "list" /\ receiving'[p] = "list"
  BY DEF PostCount, PostList, Post, Goto, OnTasks
<1>4. Sent(p)' = Sent(p) /\ Got(p)' = Got(p)
  BY <1>1, <1>3 DEF Sent, Got, Progress
<1>5. Phase(p)'
  BY <1>1, <1>2, <1>3 DEF Phase, Exchanging
<1>6. Buffers(p)'
  BY <1>1, <1>2, <1>3 DEF Buffers, Exchanging
<1>7. ListsSeen(p)' = ListsSeen(p)
  BY <1>1, <1>2, <1>3 DEF ListsSeen
<1>8. ListsMade(p)'
  BY <1>2, <1>3, <1>7 DEF ListsMade
<1> QED
  BY <1>1, <1>4, <1>5, <1>6, <1>8, LocalStep DEF TaskInv

\* A task waits until its message is sent and the other received.
LEMMA WaitStep ==
    ASSUME IInv, NEW p \in Procs, Wait(p)
    PROVE  IInv'
<1>1. OthersSame(p) /\ wire' = wire
  BY TaskFacts DEF Wait, Goto, OthersSame, OnTasks, buffers, lists, network
<1>2. /\ nMesgSend' = nMesgSend /\ nMesgRecv' = nMesgRecv /\ mesh' = mesh
      /\ ownerListOut' = ownerListOut /\ ownerListIn' = ownerListIn
      /\ sendList' = sendList /\ recvList' = recvList /\ copyList' = copyList
      /\ sending' = sending /\ receiving' = receiving
      /\ sending[p] = "none" /\ receiving[p] = "none"
  BY DEF Wait, buffers, lists, network
<1>3. \/ pc[p] = "wait_count" /\ pc'[p] = "list" /\ i'[p] = i[p]
      \/ /\ pc[p] = "wait_list" /\ i'[p] = i[p] + 1
         /\ pc'[p] = IF i[p] = Size(mesh) THEN "build" ELSE "mark"
  BY TaskFacts DEF Wait, Goto, OnTasks
<1>4. /\ p \in TasksOf(mesh) /\ mesh \in Meshes /\ Size(mesh) \in Nat \ {0}
      /\ i[p] \in 1 .. Size(mesh) /\ Size(mesh) > 1
      /\ Phase(p) /\ Buffers(p) /\ ListsMade(p)
  BY <1>3, TaskFacts DEF Phase, Exchanging
<1>5. Sent(p)' = Sent(p) /\ Got(p)' = Got(p)
  BY <1>2, <1>3, <1>4 DEF Sent, Got, Progress
<1>6. Phase(p)'
  BY <1>2, <1>3, <1>4 DEF Phase, Exchanging
<1>7. Buffers(p)'
  <2>1. CASE pc[p] = "wait_count"
    BY <1>2, <1>3, <1>4, <2>1 DEF Buffers, Exchanging
  <2>2. CASE pc[p] = "wait_list" /\ i[p] # Size(mesh)
    <3>1. i'[p] - 1 = i[p] /\ i'[p] - 2 = i[p] - 1 /\ pc'[p] = "mark"
      BY <1>3, <1>4, <2>2
    <3> QED
      BY <1>2, <1>4, <2>2, <3>1 DEF Buffers, Exchanging
  <2>3. CASE pc[p] = "wait_list" /\ i[p] = Size(mesh)
    <3>1. Before(mesh, p, Size(mesh)) = p
      BY <1>4, RingIs
    <3> QED
      BY <1>2, <1>3, <1>4, <2>3, <3>1 DEF Buffers, Exchanging
  <2> QED
    BY <1>3, <2>1, <2>2, <2>3
<1>8. ListsSeen(p)' = ListsSeen(p)
  BY <1>2, <1>3, <1>4 DEF ListsSeen
<1>9. ListsMade(p)'
  BY <1>2, <1>3, <1>4, <1>8 DEF ListsMade
<1> QED
  BY <1>1, <1>4, <1>5, <1>6, <1>7, <1>9, LocalStep DEF TaskInv

\* The list in hand is marked, and what the task is to send of it noted.
LEMMA MarkStep ==
    ASSUME IInv, NEW p \in Procs, Mark(p)
    PROVE  IInv'
<1> DEFINE h == i[p] - 1
           o == Before(mesh, p, h)
           K == Cardinality(NeededBy(mesh, o))
<1>1. OthersSame(p) /\ wire' = wire /\ mesh' = mesh
  BY TaskFacts DEF Mark, Goto, OthersSame, OnTasks, network
<1>2. /\ mesh' = mesh /\ i' = i /\ nMesgRecv' = nMesgRecv /\ ownerListIn' = ownerListIn
      /\ recvList' = recvList /\ copyList' = copyList
      /\ sending' = sending /\ receiving' = receiving
      /\ pc[p] = "mark" /\ pc'[p] = "count"
  BY TaskFacts DEF Mark, Goto, OnTasks, network
<1>3. /\ p \in TasksOf(mesh) /\ mesh \in Meshes /\ Size(mesh) \in Nat \ {0}
      /\ i[p] \in 2 .. Size(mesh) /\ Size(mesh) > 1 /\ h \in 1 .. Size(mesh) - 1
      /\ Phase(p) /\ Buffers(p) /\ ListsMade(p) /\ p \in 0 .. Size(mesh) - 1
      /\ i[p] \in 1 .. Size(mesh) + 1 /\ i[p] - 2 = h - 1
  <2>1. /\ p \in TasksOf(mesh) /\ mesh \in Meshes /\ Size(mesh) \in Nat \ {0}
        /\ Phase(p) /\ Buffers(p) /\ ListsMade(p) /\ p \in 0 .. Size(mesh) - 1
        /\ i[p] \in 1 .. Size(mesh) + 1
    BY TaskFacts
  <2>2. i[p] \in 2 .. Size(mesh)
    BY <1>2, <2>1 DEF Phase
  <2> QED
    BY <2>1, <2>2
<1>4. nMesgRecv[p] = K /\ ownerListIn[p] = Seen(mesh, o, h - 1) /\ currentProc(p) = o
  BY <1>2, <1>3, NeighborsAre DEF Buffers
<1>5. Provided(p) = Provides(mesh, p, o)
  <2>1. Provided(p) = {k \in 1 .. K : Seen(mesh, o, h - 1)[k] > 0
                                       /\ Seen(mesh, o, h - 1)[k] \in OwnedBy(mesh, p)}
    BY <1>4, OfTheMesh DEF Provided
  <2> HIDE DEF h, o
  <2>2. o = Before(mesh, p, h)
    BY DEF o
  <2> QED
    BY <1>3, <2>1, <2>2, MarkIs
<1>6. \A k \in Provides(mesh, p, o) : Seen(mesh, o, h - 1)[k] = Wanted(mesh, o)[k]
  <2> HIDE DEF h, o
  <2>1. o = Before(mesh, p, h)
    BY DEF o
  <2> QED
    BY <1>3, <2>1, MarkIs
<1>7. [k \in 1 .. K |-> IF k \in Provides(mesh, p, o) THEN MarkOf(p) ELSE Seen(mesh, o, h - 1)[k]]
        = Seen(mesh, o, h)
  <2> HIDE DEF h, o
  <2>1. o = Before(mesh, p, h)
    BY DEF o
  <2> QED
    BY <1>3, <2>1, MarkIs
<1> HIDE DEF h, o, K
<1>8. ownerListOut'[p] = Seen(mesh, o, h) /\ nMesgSend'[p] = K
  <2>1. ownerListOut'[p] = [j \in 1 .. nMesgRecv[p] |->
                               IF j \in Provided(p) THEN MarkOf(p) ELSE ownerListIn[p][j]]
        /\ nMesgSend'[p] = nMesgRecv[p]
    BY <1>3, TaskFacts DEF Mark, OnTasks
  <2> QED
    BY <1>4, <1>5, <1>7, <2>1
<1>9. ASSUME NEW b \in BlocksOf(mesh, p)
      PROVE  ProvidedBy(p, b) = BlockProvides(mesh, p, b, o)
  BY <1>4, <1>5, <1>6 DEF ProvidedBy, BlockProvides
<1>10. ASSUME NEW b \in BlocksOf(mesh, p)
       PROVE  Packed(p, b) = PackedFor(mesh, p, b, o)
  <2> DEFINE B == BlockProvides(mesh, p, b, o)
  <2>1. B \in SUBSET Provides(mesh, p, o) /\ B \in SUBSET Int /\ IsFiniteSet(B)
    <3>1. o \in TasksOf(mesh)
      <4>1. h \in 0 .. Size(mesh)
        BY <1>3
      <4> QED
        BY <1>3, <4>1, RingIs DEF o
    <3>2. Cardinality(NeededBy(mesh, o)) \in Nat
      BY <1>3, <3>1, WantedAre
    <3>3. B \in SUBSET Provides(mesh, p, o) /\ B \in SUBSET (0 .. Cardinality(NeededBy(mesh, o)))
      BY <3>2 DEF BlockProvides, Provides
    <3> QED
      BY <3>2, <3>3, NumbersTo
  <2>2. \A x \in DOMAIN Sorted(B) : Sorted(B)[x] \in B
    BY <2>1, OverSorted
  <2>3. \A x \in DOMAIN Sorted(B) : ownerListIn[p][Sorted(B)[x]] = Wanted(mesh, o)[Sorted(B)[x]]
    BY <1>4, <1>6, <2>1, <2>2
  <2>4. Packed(p, b) = [x \in DOMAIN Sorted(B) |->
           [src |-> Position(mesh.owned[p][b], ownerListIn[p][Sorted(B)[x]]),
            dest |-> Rank(Provides(mesh, p, o), Sorted(B)[x])]]
    BY <1>5, <1>9 DEF Packed
  <2>5. PackedFor(mesh, p, b, o) = [x \in DOMAIN Sorted(B) |->
           [src |-> Position(mesh.owned[p][b], Wanted(mesh, o)[Sorted(B)[x]]),
            dest |-> Rank(Provides(mesh, p, o), Sorted(B)[x])]]
    BY DEF PackedFor
  <2> HIDE DEF B
  <2> QED
    BY <2>3, <2>4, <2>5
<1> DEFINE l(b) == [endPointID |-> o, elements |-> PackedFor(mesh, p, b, o)]
<1>11. sendList'[p] = [b \in BlocksOf(mesh, p) |->
          IF BlockProvides(mesh, p, b, o) = {} THEN sendList[p][b] ELSE Append(sendList[p][b], l(b))]
  <2>1. sendList'[p] = [b \in Blocks(p) |->
           IF ProvidedBy(p, b) = {} THEN sendList[p][b]
           ELSE Append(sendList[p][b], [endPointID |-> currentProc(p), elements |-> Packed(p, b)])]
    BY <1>3, TaskFacts DEF Mark, OnTasks
  <2>2. Blocks(p) = BlocksOf(mesh, p)
    BY OfTheMesh
  <2> QED
    BY <1>4, <1>9, <1>10, <2>1, <2>2
<1>12. ASSUME NEW b
       PROVE  Served(mesh, p, b, h) = Served(mesh, p, b, h - 1) \cup
                 IF BlockProvides(mesh, p, b, o) = {} THEN {} ELSE {l(b)}
  <2>1. \A x : x \in 1 .. h <=> x \in 1 .. h - 1 \/ x = h
    BY <1>3
  <2>2. o = Before(mesh, p, h)
    BY DEF o
  <2> DEFINE full(x) == BlockProvides(mesh, p, b, Before(mesh, p, x)) # {}
             r(x) == [endPointID |-> Before(mesh, p, x),
                      elements |-> PackedFor(mesh, p, b, Before(mesh, p, x))]
  <2>3. full(h) <=> BlockProvides(mesh, p, b, o) # {}
    BY <2>2
  <2>4. r(h) = l(b)
    BY <2>2
  <2>5. /\ Served(mesh, p, b, h) = {r(k) : k \in {x \in 1 .. h : full(x)}}
        /\ Served(mesh, p, b, h - 1) = {r(k) : k \in {x \in 1 .. h - 1 : full(x)}}
    BY DEF Served
  <2> HIDE DEF full, r, l
  <2> QED
    BY <2>1, <2>3, <2>4, <2>5
<1>13. Sent(p)' = Sent(p) /\ Got(p)' = Got(p)
  BY <1>2, <1>3 DEF Sent, Got, Progress
<1>14. Phase(p)'
  BY <1>2, <1>3 DEF Phase, Exchanging
<1>15. Buffers(p)'
  <2>1. /\ nMesgSend'[p] = Cardinality(NeededBy(mesh, Before(mesh, p, i[p] - 1)))
        /\ ownerListOut'[p] = Seen(mesh, Before(mesh, p, i[p] - 1), i[p] - 1)
    BY <1>8 DEF h, o, K
  <2> QED
    BY <1>2, <2>1 DEF Buffers, Exchanging
<1>16. ListsSeen(p) = h - 1 /\ ListsSeen(p)' = h
  BY <1>2, <1>3 DEF ListsSeen, h
<1>17. ASSUME NEW b \in BlocksOf(mesh, p)
       PROVE  /\ sendList'[p][b] \in Seq(Served(mesh, p, b, h))
              /\ Range(sendList'[p][b]) = Served(mesh, p, b, h)
  <2> HIDE DEF l
  <2> PICK s : s = sendList[p][b]
    OBVIOUS
  <2>1. s \in Seq(Served(mesh, p, b, h - 1)) /\ Range(s) = Served(mesh, p, b, h - 1)
    BY <1>3, <1>16 DEF ListsMade
  <2>2. CASE BlockProvides(mesh, p, b, o) = {}
    BY <1>11, <1>12, <2>1, <2>2
  <2>3. CASE BlockProvides(mesh, p, b, o) # {}
    <3>1. sendList'[p][b] = Append(s, l(b))
      BY <1>11, <2>3
    <3>2. Served(mesh, p, b, h) = Served(mesh, p, b, h - 1) \cup {l(b)}
      BY <1>12, <2>3
    <3>3. s \in Seq(Served(mesh, p, b, h)) /\ l(b) \in Served(mesh, p, b, h)
      BY <2>1, <3>2
    <3>4. Append(s, l(b)) \in Seq(Served(mesh, p, b, h))
      BY <3>3, AppendProperties
    <3>5. Range(Append(s, l(b))) = Range(s) \cup {l(b)}
      <4>1. /\ DOMAIN s = 1 .. Len(s) /\ Len(s) \in Nat
            /\ DOMAIN Append(s, l(b)) = 1 .. Len(s) + 1
            /\ \A x \in 1 .. Len(s) : Append(s, l(b))[x] = s[x]
            /\ Append(s, l(b))[Len(s) + 1] = l(b)
        BY <3>3, AppendProperties
      <4>2. \A x : x \in 1 .. Len(s) + 1 <=> x \in 1 .. Len(s) \/ x = Len(s) + 1
        BY <4>1
      <4> QED
        BY <4>1, <4>2 DEF Range
    <3> QED
      BY <2>1, <3>1, <3>2, <3>4, <3>5
  <2> QED
    BY <2>2, <2>3
<1>18. ListsMade(p)'
  BY <1>2, <1>11, <1>16, <1>17 DEF ListsMade
<1> QED
  BY <1>1, <1>3, <1>13, <1>14, <1>15, <1>18, LocalStep DEF TaskInv

\* The lists to receive and to copy are made of the list that came back.
LEMMA BuildStep ==
    ASSUME IInv, NEW p \in Procs, Build(p)
    PROVE  IInv'
<1>1. OthersSame(p) /\ wire' = wire
  BY TaskFacts DEF Build, Goto, OthersSame, OnTasks, buffers, network
<1>2. /\ mesh' = mesh /\ i' = i /\ nMesgSend' = nMesgSend /\ nMesgRecv' = nMesgRecv
      /\ ownerListOut' = ownerListOut /\ ownerListIn' = ownerListIn
      /\ sending' = sending /\ receiving' = receiving /\ sendList' = sendList
      /\ pc[p] = "build" /\ pc'[p] = "done"
  BY TaskFacts DEF Build, Goto, OnTasks, buffers, network
<1>3. /\ p \in TasksOf(mesh) /\ mesh \in Meshes /\ Procs = TasksOf(mesh)
      /\ Phase(p) /\ Buffers(p) /\ ListsMade(p) /\ OnTasks
  BY TaskFacts
<1>4. ASSUME NEW b \in BlocksOf(mesh, p), NEW q \in TasksOf(mesh) \ {p}
      PROVE  Unpacked(p, b, q) = UnpackedFor(mesh, p, b, q)
  <2>1. ownerListIn[p] = Seen(mesh, p, Size(mesh) - 1)
    BY <1>2, <1>3 DEF Buffers
  <2>2. {k \in DOMAIN uniqueSortedNeededList(p) : ownerListIn[p][k] = -1 * q}
          = Provides(mesh, q, p)
    BY <1>3, <2>1, MarkedAre, OfTheMesh
  <2> PICK P : P = Provides(mesh, q, p)
    OBVIOUS
  <2>3. Unpacked(p, b, q) =
          LET needs == mesh.needed[p][b]
              place(g) == Position(uniqueSortedNeededList(p), g)
              js == Sorted({j \in DOMAIN needs : place(needs[j]) \in P})
          IN  [x \in DOMAIN js |-> [src  |-> Rank(P, place(needs[js[x]])),
                                    dest |-> js[x] + offset(p, b)]]
    BY <2>2 DEF Unpacked
  <2> QED
    BY <2>3, OfTheMesh DEF UnpackedFor, offset
<1>5. recvList'[p] = RecvListOf(mesh, p)
  <2>1. recvList'[p] = [b \in Blocks(p) |-> ListsOver([q \in Procs \ {p} |-> Unpacked(p, b, q)])]
    BY <1>3 DEF Build, OnTasks
  <2>2. \A b \in BlocksOf(mesh, p) :
           [q \in TasksOf(mesh) \ {p} |-> Unpacked(p, b, q)]
             = [q \in TasksOf(mesh) \ {p} |-> UnpackedFor(mesh, p, b, q)]
    BY <1>4
  <2> QED
    BY <1>3, <2>1, <2>2, OfTheMesh DEF RecvListOf
<1>6. copyList'[p] = CopyListOf(mesh, p)
  <2>1. copyList'[p] = [b \in Blocks(p) |-> ListsOver([c \in Blocks(p) |-> Copied(p, b, c)])]
    BY <1>3 DEF Build, OnTasks
  <2>2. Blocks(p) = BlocksOf(mesh, p)
    BY OfTheMesh
  <2>3. \A b : [c \in BlocksOf(mesh, p) |-> Copied(p, b, c)]
                 = [c \in BlocksOf(mesh, p) |-> CopiedTo(mesh, p, b, c)]
    BY OfTheMesh
  <2> QED
    BY <2>1, <2>2, <2>3 DEF CopyListOf
<1>7. Sent(p)' = Sent(p) /\ Got(p)' = Got(p)
  BY <1>2 DEF Sent, Got, Progress
<1>8. Phase(p)'
  BY <1>2, <1>3 DEF Phase, Exchanging
<1>9. Buffers(p)'
  BY <1>2, <1>3 DEF Buffers, Exchanging
<1>10. ListsSeen(p)' = ListsSeen(p)
  BY <1>2 DEF ListsSeen
<1>11. ListsMade(p)'
  BY <1>2, <1>3, <1>5, <1>6, <1>10 DEF ListsMade
<1> QED
  BY <1>1, <1>3, <1>7, <1>8, <1>9, <1>11, LocalStep DEF TaskInv

\* The next message of a task goes on the wire.
LEMMA TransmitStep ==
    ASSUME IInv, NEW p \in Procs, Transmit(p)
    PROVE  IInv'
<1>1. OthersSame(p)
  BY TaskFacts DEF Transmit, OthersSame, OnTasks, control, buffers, lists
<1>2. /\ mesh' = mesh /\ pc' = pc /\ i' = i /\ nMesgSend' = nMesgSend /\ nMesgRecv' = nMesgRecv
      /\ ownerListOut' = ownerListOut /\ ownerListIn' = ownerListIn
      /\ receiving' = receiving /\ sendList' = sendList /\ recvList' = recvList
      /\ copyList' = copyList /\ sending[p] # "none" /\ sending'[p] = "none"
  BY TaskFacts DEF Transmit, OnTasks, control, buffers, lists
<1>3. /\ p \in TasksOf(mesh) /\ mesh \in Meshes /\ Procs = TasksOf(mesh)
      /\ Size(mesh) \in Nat \ {0} /\ Phase(p) /\ Buffers(p) /\ ListsMade(p) /\ OnTasks
  BY TaskFacts
<1>4. /\ \/ pc[p] = "wait_count" /\ sending[p] = "count"
         \/ pc[p] = "wait_list" /\ sending[p] = "list"
      /\ i[p] \in 1 .. Size(mesh)
  BY <1>2, <1>3 DEF Phase, Exchanging
<1> PICK h : h = i[p]
  OBVIOUS
<1> DEFINE msg == IF sending[p] = "count" THEN CountMessage(mesh, p, h) ELSE ListMessage(mesh, p, h)
<1>5. wire'[p] = Append(wire[p], msg)
  <2>1. wire'[p] = Append(wire[p], IF sending[p] = "count"
                                   THEN [kind |-> "count", data |-> nMesgSend[p]]
                                   ELSE [kind |-> "list", data |-> ownerListOut[p]])
    BY <1>3 DEF Transmit, OnTasks, SentCount
  <2>2. /\ nMesgSend[p] = Cardinality(NeededBy(mesh, Before(mesh, p, h - 1)))
        /\ ownerListOut[p] = Seen(mesh, Before(mesh, p, h - 1), h - 1)
    BY <1>3, <1>4 DEF Buffers, Exchanging
  <2> QED
    BY <2>1, <2>2 DEF CountMessage, ListMessage
<1>6. \A q \in TasksOf(mesh) \ {p} : wire'[q] = wire[q]
  BY <1>3 DEF Transmit, OnTasks
<1>7. /\ Sent(p)' = Sent(p) + 1 /\ Got(p)' = Got(p) /\ Sent(p) \in Int
      /\ Sent(p) + 1 = IF sending[p] = "count" THEN 2 * h - 1 ELSE 2 * h
  BY <1>2, <1>4 DEF Sent, Got, Progress
<1>8. TaskInv(p)'
  <2>1. Phase(p)'
    BY <1>2, <1>3, <1>4 DEF Phase, Exchanging
  <2>2. Buffers(p)'
    BY <1>2, <1>3 DEF Buffers, Exchanging
  <2>3. ListsSeen(p)' = ListsSeen(p)
    BY <1>2 DEF ListsSeen
  <2>4. ListsMade(p)'
    BY <1>2, <1>3, <2>3 DEF ListsMade
  <2> QED
    BY <2>1, <2>2, <2>4 DEF TaskInv
<1>9. \A x \in TasksOf(mesh) \ {p} : TaskInv(x)' /\ Sent(x)' = Sent(x) /\ Got(x)' = Got(x)
  BY <1>1, OthersKeep DEF IInv
<1>10. \A x \in TasksOf(mesh) : TaskInv(x)' /\ Got(x)' = Got(x)
  BY <1>7, <1>8, <1>9
<1>11. ASSUME NEW x \in TasksOf(mesh), Before(mesh, x, 1) = p PROVE Underway(p, x)'
  <2>1. Underway(p, x)
    BY <1>11 DEF IInv
  <2> PICK w, M, g : w = wire[p] /\ M = MessagesOf(mesh, p) /\ g = Got(x)
    OBVIOUS
  <2>2. /\ w \in Seq(M) /\ Len(w) \in Nat /\ Len(w) = Sent(p) - g
        /\ \A y \in 1 .. Len(w), k \in 1 .. Size(mesh) :
              /\ g + y = 2 * k - 1 => w[y] = CountMessage(mesh, p, k)
              /\ g + y = 2 * k => w[y] = ListMessage(mesh, p, k)
    BY <2>1, LenProperties DEF Underway
  <2>3. msg \in M
    BY <1>4 DEF MessagesOf
  <2> PICK v : v = Append(w, msg)
    OBVIOUS
  <2>4. /\ v \in Seq(M) /\ Len(v) = Len(w) + 1 /\ v[Len(w) + 1] = msg
        /\ \A y \in 1 .. Len(w) : v[y] = w[y]
    BY <2>2, <2>3, AppendProperties
  <2>5. g \in Int /\ g + Len(w) + 1 = Sent(p) + 1
    <3>1. g \in Int
      BY <1>10, TaskFacts, <1>3 DEF Got, Progress
    <3> QED
      BY <1>7, <2>2, <3>1
  <2>6. ASSUME NEW y \in 1 .. Len(v), NEW k \in 1 .. Size(mesh)
        PROVE  /\ g + y = 2 * k - 1 => v[y] = CountMessage(mesh, p, k)
               /\ g + y = 2 * k => v[y] = ListMessage(mesh, p, k)
    <3>1. CASE y \in 1 .. Len(w)
      BY <2>2, <2>4, <3>1
    <3>2. CASE y = Len(w) + 1
      <4>1. v[y] = msg /\ g + y = Sent(p) + 1
        BY <2>2, <2>4, <2>5, <3>2
      <4>2. h \in Int /\ k \in Int
        BY <1>4
      <4>3. CASE sending[p] = "count"
        <5>1. g + y = 2 * h - 1
          BY <1>7, <4>1, <4>3
        <5>2. (g + y = 2 * k - 1 => k = h) /\ g + y # 2 * k
          BY <4>2, <5>1
        <5> QED
          BY <4>1, <4>3, <5>2
      <4>4. CASE sending[p] # "count"
        <5>1. g + y = 2 * h
          BY <1>7, <4>1, <4>4
        <5>2. (g + y = 2 * k => k = h) /\ g + y # 2 * k - 1
          BY <4>2, <5>1
        <5> QED
          BY <4>1, <4>4, <5>2
      <4> QED
        BY <4>3, <4>4
    <3> QED
      BY <2>2, <2>4, <3>1, <3>2
  <2>7. wire'[p] = v /\ Sent(p)' - Got(x)' = Len(v) /\ mesh' = mesh /\ Got(x)' = g
    <3>1. wire'[p] = v
      BY <1>5
    <3> QED
      BY <1>2, <1>7, <1>10, <2>2, <2>4, <2>5, <3>1
  <2> HIDE DEF msg
  <2> QED
    BY <2>4, <2>6, <2>7 DEF Underway
<1>12. ASSUME NEW x \in TasksOf(mesh) PROVE Underway(Before(mesh, x, 1), x)'
  <2> PICK q \in TasksOf(mesh) : q = Before(mesh, x, 1)
    BY <1>3, NeighborsAre
  <2>1. CASE q = p
    BY <1>2, <1>11, <2>1
  <2>2. CASE q # p
    <3>1. Underway(q, x)
      BY DEF IInv
    <3>2. Underway(q, x)'
      BY <1>2, <1>6, <1>9, <1>10, <2>2, <3>1, UnderwayKept
    <3> QED
      BY <1>2, <3>2
  <2> QED
    BY <2>1, <2>2
<1> QED
  BY <1>1, <1>2, <1>3, <1>10, <1>12 DEF IInv, OthersSame

\* The message at the head of the wire to a task is the one its receive is posted for.
LEMMA HeadIs ==
    ASSUME IInv, NEW p \in Procs, receiving[p] # "none", NEW q, q = recvNeighbor(p), wire[q] # <<>>
    PROVE  /\ q \in TasksOf(mesh) /\ q = Before(mesh, p, 1) /\ i[p] \in 1 .. Size(mesh)
           /\ Underway(q, p) /\ Len(wire[q]) \in Nat \ {0}
           /\ \/ /\ pc[p] = "wait_count" /\ receiving[p] = "count"
                 /\ Head(wire[q]) = [kind |-> "count",
                                     data |-> Cardinality(NeededBy(mesh, Before(mesh, p, i[p])))]
              \/ /\ pc[p] = "wait_list" /\ receiving[p] = "list"
                 /\ Head(wire[q]) = [kind |-> "list",
                                     data |-> Seen(mesh, Before(mesh, p, i[p]), i[p] - 1)]
<1>1. /\ p \in TasksOf(mesh) /\ mesh \in Meshes /\ Size(mesh) \in Nat \ {0} /\ Phase(p)
  BY TaskFacts
<1>2. q = Before(mesh, p, 1) /\ q \in TasksOf(mesh) /\ Underway(q, p)
  BY <1>1, NeighborsAre DEF IInv
<1>3. /\ \/ pc[p] = "wait_count" /\ receiving[p] = "count"
         \/ pc[p] = "wait_list" /\ receiving[p] = "list"
      /\ i[p] \in 1 .. Size(mesh)
  BY <1>1 DEF Phase, Exchanging
<1> PICK h, w : h = i[p] /\ w = wire[q]
  OBVIOUS
<1>4. Len(w) \in Nat \ {0} /\ Head(w) = w[1]
  <2>1. w \in Seq(MessagesOf(mesh, q)) /\ w # <<>>
    BY <1>2 DEF Underway
  <2> QED
    BY <2>1, EmptySeq, LenProperties
<1>5. h \in 1 .. Size(mesh) /\ 1 \in 1 .. Len(w)
  BY <1>3, <1>4
<1>6. Before(mesh, q, h - 1) = Before(mesh, p, h)
  <2>1. h - 1 \in 0 .. Size(mesh) - 1 /\ (h - 1) + 1 = h
    BY <1>1, <1>5
  <2> QED
    BY <1>1, <1>2, <2>1, RingIs
<1>7. CASE pc[p] = "wait_count" /\ receiving[p] = "count"
  <2>1. Got(p) + 1 = 2 * h - 1
    BY <1>5, <1>7 DEF Got, Progress
  <2>2. w[1] = CountMessage(mesh, q, h)
    BY <1>2, <1>5, <2>1 DEF Underway
  <2> QED
    BY <1>2, <1>3, <1>4, <1>6, <1>7, <2>2 DEF CountMessage
<1>8. CASE pc[p] = "wait_list" /\ receiving[p] = "list"
  <2>1. Got(p) + 1 = 2 * h
    BY <1>5, <1>8 DEF Got, Progress
  <2>2. w[1] = ListMessage(mesh, q, h)
    BY <1>2, <1>5, <2>1 DEF Underway
  <2> QED
    BY <1>2, <1>3, <1>4, <1>6, <1>8, <2>2 DEF ListMessage
<1> QED
  BY <1>3, <1>7, <1>8

\* A message arrives where it is awaited.
LEMMA DeliverStep ==
    ASSUME IInv, NEW p \in Procs, Deliver(p)
    PROVE  IInv'
<1> PICK q : q = recvNeighbor(p)
  OBVIOUS
<1>1. OthersSame(p)
  BY TaskFacts DEF Deliver, OthersSame, OnTasks, control, lists
<1>2. /\ mesh' = mesh /\ pc' = pc /\ i' = i /\ nMesgSend' = nMesgSend
      /\ ownerListOut' = ownerListOut /\ sending' = sending
      /\ sendList' = sendList /\ recvList' = recvList /\ copyList' = copyList
      /\ receiving[p] # "none" /\ receiving'[p] = "none" /\ wire[q] # <<>>
  BY TaskFacts DEF Deliver, OnTasks, control, lists
<1>3. /\ p \in TasksOf(mesh) /\ mesh \in Meshes /\ Procs = TasksOf(mesh)
      /\ Size(mesh) \in Nat \ {0} /\ Phase(p) /\ Buffers(p) /\ ListsMade(p) /\ OnTasks
  BY TaskFacts
<1>4. /\ q \in TasksOf(mesh) /\ q = Before(mesh, p, 1) /\ i[p] \in 1 .. Size(mesh)
      /\ Underway(q, p) /\ Len(wire[q]) \in Nat \ {0}
      /\ \/ /\ pc[p] = "wait_count" /\ receiving[p] = "count"
            /\ Head(wire[q]) = [kind |-> "count",
                                data |-> Cardinality(NeededBy(mesh, Before(mesh, p, i[p])))]
         \/ /\ pc[p] = "wait_list" /\ receiving[p] = "list"
            /\ Head(wire[q]) = [kind |-> "list",
                                data |-> Seen(mesh, Before(mesh, p, i[p]), i[p] - 1)]
  BY <1>2, HeadIs
<1>5. wire'[q] = Tail(wire[q]) /\ \A x \in TasksOf(mesh) \ {q} : wire'[x] = wire[x]
  BY <1>3, <1>4 DEF Deliver, OnTasks
<1>6. Sent(p)' = Sent(p) /\ Got(p)' = Got(p) + 1 /\ Got(p) \in Int
  BY <1>2, <1>4 DEF Sent, Got, Progress
<1>7. TaskInv(p)'
  <2>1. Phase(p)'
    BY <1>2, <1>3, <1>4 DEF Phase, Exchanging
  <2>2. Buffers(p)'
    <3>1. CASE receiving[p] = "count"
      <4>1. /\ nMesgRecv'[p] = Cardinality(NeededBy(mesh, Before(mesh, p, i[p])))
            /\ ownerListIn' = ownerListIn
        BY <1>3, <1>4, <3>1 DEF Deliver, OnTasks
      <4> QED
        BY <1>2, <1>3, <1>4, <3>1, <4>1 DEF Buffers, Exchanging
    <3>2. CASE receiving[p] = "list"
      <4>1. /\ ownerListIn'[p] = Seen(mesh, Before(mesh, p, i[p]), i[p] - 1)
            /\ nMesgRecv' = nMesgRecv
        BY <1>3, <1>4, <3>2 DEF Deliver, OnTasks
      <4> QED
        BY <1>2, <1>3, <1>4, <3>2, <4>1 DEF Buffers, Exchanging
    <3> QED
      BY <1>4, <3>1, <3>2
  <2>3. ListsSeen(p)' = ListsSeen(p)
    BY <1>2 DEF ListsSeen
  <2>4. ListsMade(p)'
    BY <1>2, <1>3, <2>3 DEF ListsMade
  <2> QED
    BY <2>1, <2>2, <2>4 DEF TaskInv
<1>8. \A x \in TasksOf(mesh) \ {p} : TaskInv(x)' /\ Sent(x)' = Sent(x) /\ Got(x)' = Got(x)
  BY <1>1, OthersKeep DEF IInv
<1>9. \A x \in TasksOf(mesh) : TaskInv(x)' /\ Sent(x)' = Sent(x)
  BY <1>6, <1>7, <1>8
<1>10. Underway(q, p)'
  <2> PICK w, M, g : w = wire[q] /\ M = MessagesOf(mesh, q) /\ g = Got(p)
    OBVIOUS
  <2>1. /\ w \in Seq(M) /\ Len(w) \in Nat \ {0} /\ Len(w) = Sent(q) - g
        /\ \A y \in 1 .. Len(w), k \in 1 .. Size(mesh) :
              /\ g + y = 2 * k - 1 => w[y] = CountMessage(mesh, q, k)
              /\ g + y = 2 * k => w[y] = ListMessage(mesh, q, k)
    BY <1>4 DEF Underway
  <2> PICK v : v = Tail(w)
    OBVIOUS
  <2>2. /\ v \in Seq(M) /\ Len(v) = Len(w) - 1 /\ \A y \in 1 .. Len(v) : v[y] = w[y + 1]
    <3>1. w # <<>>
      BY <2>1, EmptySeq
    <3> QED
      BY <2>1, <3>1, HeadTailProperties
  <2>3. g \in Int
    BY <1>6
  <2>4. ASSUME NEW y \in 1 .. Len(v), NEW k \in 1 .. Size(mesh)
        PROVE  /\ (g + 1) + y = 2 * k - 1 => v[y] = CountMessage(mesh, q, k)
               /\ (g + 1) + y = 2 * k => v[y] = ListMessage(mesh, q, k)
    <3>1. y + 1 \in 1 .. Len(w) /\ (g + 1) + y = g + (y + 1) /\ v[y] = w[y + 1]
      BY <2>1, <2>2, <2>3
    <3> QED
      BY <2>1, <3>1
  <2>5. wire'[q] = v /\ Got(p)' = g + 1 /\ mesh' = mesh /\ Sent(q)' = Sent(q)
    BY <1>2, <1>4, <1>5, <1>6, <1>9
  <2>6. Len(v) = Sent(q) - (g + 1)
    <3>1. Sent(q) \in Int
      BY <1>4, TaskFacts, <1>3 DEF Sent, Progress
    <3> QED
      BY <2>1, <2>2, <2>3, <3>1
  <2> QED
    BY <2>2, <2>4, <2>5, <2>6 DEF Underway
<1>11. ASSUME NEW x \in TasksOf(mesh) PROVE Underway(Before(mesh, x, 1), x)'
  <2> PICK y \in TasksOf(mesh) : y = Before(mesh, x, 1)
    BY <1>3, NeighborsAre
  <2>1. CASE x = p
    BY <1>2, <1>4, <1>10, <2>1
  <2>2. CASE x # p
    <3>1. y # q
      BY <1>3, <1>4, <2>2, RingIs
    <3>2. Underway(y, x)
      BY DEF IInv
    <3>3. Underway(y, x)'
      BY <1>2, <1>5, <1>8, <1>9, <2>2, <3>1, <3>2, UnderwayKept
    <3> QED
      BY <1>2, <3>3
  <2> QED
    BY <2>1, <2>2
<1> QED
  BY <1>1, <1>2, <1>3, <1>9, <1>11 DEF IInv, OthersSame

\* The invariant is inductive.
LEMMA NextInv == IInv /\ [Next]_vars => IInv'
<1> SUFFICES ASSUME IInv, [Next]_vars PROVE IInv'
  OBVIOUS
<1>1. ASSUME NEW p \in Procs, PostCount(p) \/ PostList(p) PROVE IInv'
  BY <1>1, PostStep
<1>2. ASSUME NEW p \in Procs, Wait(p) PROVE IInv'
  BY <1>2, WaitStep
<1>3. ASSUME NEW p \in Procs, Mark(p) PROVE IInv'
  BY <1>3, MarkStep
<1>4. ASSUME NEW p \in Procs, Build(p) PROVE IInv'
  BY <1>4, BuildStep
<1>5. ASSUME NEW p \in Procs, Transmit(p) PROVE IInv'
  BY <1>5, TransmitStep
<1>6. ASSUME NEW p \in Procs, Deliver(p) PROVE IInv'
  BY <1>6, DeliverStep
<1>7. CASE UNCHANGED vars
  BY <1>7 DEF vars, control, buffers, network, lists, IInv, OnTasks, TaskInv, Phase, Buffers,
              ListsMade, ListsSeen, Underway, Sent, Got, Progress
<1> QED
  BY <1>1, <1>2, <1>3, <1>4, <1>5, <1>6, <1>7 DEF Next, Task

-----------------------------------------------------------------------------
(* The properties *)

\* A task has sent at most one message more than it has received, and received none that
\* is not sent.
LEMMA OneAhead ==
    ASSUME IInv, NEW p \in TasksOf(mesh)
    PROVE  /\ Sent(p) \in Int /\ Got(p) \in Int /\ Sent(p) <= Got(p) + 1
           /\ Got(p) <= Sent(Before(mesh, p, 1))
<1>1. i[p] \in Int /\ Phase(p)
  BY TaskFacts, OfTheMesh
<1>2. Sent(p) \in Int /\ Got(p) \in Int /\ Sent(p) <= Got(p) + 1
  BY <1>1 DEF Sent, Got, Progress, Phase, Exchanging
<1> PICK q \in TasksOf(mesh) : q = Before(mesh, p, 1)
  BY NeighborsAre DEF IInv
<1>3. Sent(q) \in Int
  BY TaskFacts, OfTheMesh DEF Sent, Progress
<1>4. Len(wire[q]) = Sent(q) - Got(p) /\ Len(wire[q]) \in Nat
  BY LenProperties DEF IInv, Underway
<1> QED
  BY <1>2, <1>3, <1>4

\* So it is at most k messages ahead of the task k places before it.
LEMMA FarAhead ==
    ASSUME IInv, NEW p \in TasksOf(mesh), NEW k \in 0 .. Size(mesh) - 1
    PROVE  Sent(p) <= Sent(Before(mesh, p, k)) + k
<1> DEFINE T == {x \in Nat : x <= Size(mesh) - 1 => Sent(p) <= Sent(Before(mesh, p, x)) + x}
<1>1. mesh \in Meshes /\ Size(mesh) \in Nat \ {0}
  BY TaskFacts, OfTheMesh
<1>2. 0 \in T
  <2>1. Before(mesh, p, 0) = p /\ Sent(p) \in Int
    BY <1>1, RingIs, OneAhead
  <2> QED
    BY <2>1
<1>3. ASSUME NEW x \in Nat, x \in T PROVE x + 1 \in T
  <2> SUFFICES ASSUME x + 1 <= Size(mesh) - 1
               PROVE  Sent(p) <= Sent(Before(mesh, p, x + 1)) + (x + 1)
    OBVIOUS
  <2> PICK q, r : q = Before(mesh, p, x) /\ r = Before(mesh, q, 1)
    OBVIOUS
  <2>1. q \in TasksOf(mesh) /\ r \in TasksOf(mesh)
    <3>1. x \in 0 .. Size(mesh) /\ 1 \in 0 .. Size(mesh)
      BY <1>1
    <3> QED
      BY <1>1, <3>1, RingIs
  <2>2. r = Before(mesh, p, x + 1)
    BY <1>1, TasksAre DEF Before
  <2>3. Sent(q) <= Got(q) + 1 /\ Got(q) <= Sent(r) /\ Sent(q) \in Int /\ Got(q) \in Int
        /\ Sent(r) \in Int /\ Sent(p) \in Int
    BY <2>1, OneAhead
  <2>4. Sent(p) <= Sent(q) + x
    BY <1>1, <1>3
  <2> QED
    BY <2>2, <2>3, <2>4
<1> HIDE DEF T
<1>4. k \in T
  BY <1>1, <1>2, <1>3, SetInduction
<1> QED
  BY <1>1, <1>4 DEF T

\* At most nprocs messages are under way from a task to the next.
LEMMA WireBounded ==
    ASSUME IInv, NEW q \in TasksOf(mesh)
    PROVE  Len(wire[q]) <= Size(mesh)
<1> PICK N : N = Size(mesh)
  OBVIOUS
<1>1. mesh \in Meshes /\ N \in Nat \ {0} /\ TasksOf(mesh) = 0 .. N - 1
  BY TaskFacts, TasksAre, OfTheMesh
<1> PICK p : p = IF q = N - 1 THEN 0 ELSE q + 1
  OBVIOUS
<1>2. p \in TasksOf(mesh) /\ Before(mesh, p, 1) = q /\ Before(mesh, q, N - 1) = p
  BY <1>1 DEF Before
<1>3. Sent(q) <= Sent(p) + (N - 1)
  <2>1. N - 1 \in 0 .. N - 1
    BY <1>1
  <2> QED
    BY <1>2, <2>1, FarAhead
<1>4. Sent(p) \in Int /\ Got(p) \in Int /\ Sent(p) <= Got(p) + 1 /\ Sent(q) \in Int
  BY <1>2, OneAhead
<1>5. Len(wire[q]) = Sent(q) - Got(p)
  BY <1>2 DEF IInv, Underway
<1> QED
  BY <1>1, <1>3, <1>4, <1>5

\* Types.
LEMMA TypesFit == IInv => TypeOK
<1> SUFFICES ASSUME IInv, NEW p \in Procs
             PROVE  /\ pc[p] \in {"count", "wait_count", "list", "wait_list", "mark", "build", "done"}
                    /\ i[p] \in 1 .. nprocs + 1
                    /\ {sending[p], receiving[p]} \subseteq {"none", "count", "list"}
                    /\ Len(wire[p]) <= nprocs
  BY DEF TypeOK
<1>1. p \in TasksOf(mesh) /\ nprocs = Size(mesh) /\ Phase(p) /\ i[p] \in 1 .. nprocs + 1
  BY TaskFacts
<1>2. Len(wire[p]) <= nprocs
  BY <1>1, WireBounded
<1>3. /\ pc[p] \in {"count", "wait_count", "list", "wait_list", "mark", "build", "done"}
      /\ {sending[p], receiving[p]} \subseteq {"none", "count", "list"}
  BY <1>1 DEF Phase, Exchanging
<1> QED
  BY <1>1, <1>2, <1>3

\* Messages and receives match.
LEMMA MessagesFit == IInv => MessagesMatchReceives
<1> SUFFICES ASSUME IInv, NEW p \in Procs, NEW q, q = recvNeighbor(p),
                    receiving[p] # "none", wire[q] # <<>>
             PROVE  /\ Head(wire[q]).kind = receiving[p]
                    /\ receiving[p] = "list" => Len(Head(wire[q]).data) = nMesgRecv[p]
  BY DEF MessagesMatchReceives
<1>1. \/ /\ pc[p] = "wait_count" /\ receiving[p] = "count"
         /\ Head(wire[q]) = [kind |-> "count",
                             data |-> Cardinality(NeededBy(mesh, Before(mesh, p, i[p])))]
      \/ /\ pc[p] = "wait_list" /\ receiving[p] = "list"
         /\ Head(wire[q]) = [kind |-> "list",
                             data |-> Seen(mesh, Before(mesh, p, i[p]), i[p] - 1)]
  BY HeadIs
<1>2. CASE receiving[p] = "count"
  BY <1>1, <1>2
<1>3. CASE receiving[p] = "list"
  <2> PICK o, h : o = Before(mesh, p, i[p]) /\ h = i[p] - 1
    OBVIOUS
  <2>1. Head(wire[q]).kind = "list" /\ Head(wire[q]).data = Seen(mesh, o, h) /\ pc[p] = "wait_list"
    BY <1>1, <1>3
  <2>2. nMesgRecv[p] = Cardinality(NeededBy(mesh, o))
    BY <2>1, TaskFacts DEF Buffers
  <2>3. o \in TasksOf(mesh) /\ mesh \in Meshes
    <3>1. i[p] \in 1 .. Size(mesh) /\ mesh \in Meshes /\ p \in TasksOf(mesh)
      BY HeadIs, TaskFacts
    <3>2. i[p] \in 0 .. Size(mesh)
      BY <3>1
    <3> QED
      BY <3>1, <3>2, RingIs
  <2>4. Cardinality(NeededBy(mesh, o)) \in Nat
    BY <2>3, WantedAre
  <2> PICK s : s = Seen(mesh, o, h)
    OBVIOUS
  <2>5. Len(s) = Cardinality(NeededBy(mesh, o))
    BY <2>4 DEF Seen
  <2> QED
    BY <1>3, <2>1, <2>2, <2>5
<1> QED
  BY <1>1, <1>2, <1>3

\* Complete lists meet every need.
LEMMA NeedsMet == IInv => EveryNeedIsMet
<1> SUFFICES ASSUME IInv, \A p \in Procs : pc[p] = "done",
                    NEW p \in Procs, NEW b \in Blocks(p), NEW j \in DOMAIN mesh.needed[p][b],
                    NEW g, g = mesh.needed[p][b][j]
             PROVE  IF g \in Owned(p)
                    THEN ReceivedAt(p, b, j + offset(p, b)) = {} /\ CopiedAt(p, b, j + offset(p, b)) = {g}
                    ELSE /\ CopiedAt(p, b, j + offset(p, b)) = {}
                         /\ Cardinality(ReceivedAt(p, b, j + offset(p, b))) = 1
                         /\ \A r \in ReceivedAt(p, b, j + offset(p, b)) : SentAt(r[1], p, r[2]) = {g}
  BY DEF EveryNeedIsMet
<1>1. /\ mesh \in Meshes /\ p \in TasksOf(mesh) /\ Procs = TasksOf(mesh)
      /\ b \in BlocksOf(mesh, p) /\ Owned(p) = OwnedBy(mesh, p)
      /\ offset(p, b) = Len(mesh.owned[p][b])
  BY TaskFacts, OfTheMesh DEF offset
<1> PICK at : at = j + offset(p, b)
  OBVIOUS
<1>2. recvList[p] = RecvListOf(mesh, p) /\ copyList[p] = CopyListOf(mesh, p)
  BY TaskFacts DEF ListsMade
<1>3. CopiedAt(p, b, at) = IF g \in OwnedBy(mesh, p) THEN {g} ELSE {}
  <2>1. CopiedIn(mesh, p, b, at) = IF g \in OwnedBy(mesh, p) THEN {g} ELSE {}
    BY <1>1, CopiedIs
  <2>2. Blocks(p) = BlocksOf(mesh, p)
    BY OfTheMesh
  <2>3. CopiedAt(p, b, at) = CopiedIn(mesh, p, b, at)
    BY <1>2, <2>2 DEF CopiedAt, CopiedIn
  <2> QED
    BY <2>1, <2>3
<1> DEFINE e(q) == [src  |-> Rank(Provides(mesh, q, p), Position(Wanted(mesh, p), g)),
                    dest |-> at]
           from(q) == q \in TasksOf(mesh) \ {p} /\ g \in OwnedBy(mesh, q)
<1>4. ASSUME NEW q
      PROVE  Entries(recvList[p][b], q, "dest", at) = IF from(q) THEN {e(q)} ELSE {}
  BY <1>1, <1>2, ReceivedIs
<1>5. /\ g \in NeededBy(mesh, p) /\ Owner(mesh, g) \in TasksOf(mesh)
      /\ g \in OwnedBy(mesh, Owner(mesh, g))
      /\ \A q \in TasksOf(mesh) : g \in OwnedBy(mesh, q) => q = Owner(mesh, g)
  <2>1. g \in NeededBy(mesh, p)
    BY <1>1 DEF NeededBy, Range
  <2> QED
    BY <1>1, <2>1, OwnersAre
<1>6. ReceivedAt(p, b, at) =
        UNION {{<<q, x.src>> : x \in Entries(recvList[p][b], q, "dest", at)} : q \in TasksOf(mesh)}
  BY <1>1 DEF ReceivedAt
<1>7. CASE g \in OwnedBy(mesh, p)
  <2>1. \A q \in TasksOf(mesh) : Entries(recvList[p][b], q, "dest", at) = {}
    BY <1>1, <1>4, <1>5, <1>7
  <2>2. ReceivedAt(p, b, at) = {}
    BY <1>6, <2>1
  <2> QED
    BY <1>1, <1>3, <1>7, <2>2
<1>8. CASE g \notin OwnedBy(mesh, p)
  <2> PICK o : o = Owner(mesh, g)
    OBVIOUS
  <2> PICK k : k = Position(Wanted(mesh, p), g)
    OBVIOUS
  <2> PICK r : r = Rank(Provides(mesh, o, p), k)
    OBVIOUS
  <2>1. o \in TasksOf(mesh) /\ o # p /\ from(o) /\ \A q \in TasksOf(mesh) : from(q) => q = o
    BY <1>5, <1>8
  <2>2. e(o).src = r
    OBVIOUS
  <2> HIDE DEF e, from
  <2>3. \A q \in TasksOf(mesh) : Entries(recvList[p][b], q, "dest", at)
                                   = IF q = o THEN {e(o)} ELSE {}
    BY <1>4, <2>1
  <2>4. ReceivedAt(p, b, at) = {<<o, r>>}
    <3> DEFINE entries(q) == Entries(recvList[p][b], q, "dest", at)
               found(q) == {<<q, x.src>> : x \in entries(q)}
    <3>1. found(o) = {<<o, r>>}
      BY <2>1, <2>2, <2>3
    <3>2. \A q \in TasksOf(mesh) : q # o => found(q) = {}
      BY <2>3
    <3>3. ReceivedAt(p, b, at) = UNION {found(q) : q \in TasksOf(mesh)}
      BY <1>6
    <3> HIDE DEF found
    <3> QED
      BY <2>1, <3>1, <3>2, <3>3
  <2>5. k \in Provides(mesh, o, p) /\ Wanted(mesh, p)[k] = g
    <3> PICK s : s = Wanted(mesh, p)
      OBVIOUS
    <3>1. PICK x \in DOMAIN s : s[x] = g
      BY <1>1, <1>5, WantedAre
    <3>2. k \in DOMAIN s /\ s[k] = g
      BY <3>1, PositionIs
    <3>3. DOMAIN s = 1 .. Cardinality(NeededBy(mesh, p))
      BY <1>1, WantedAre
    <3> QED
      BY <1>5, <3>2, <3>3 DEF Provides
  <2>6. SentAt(o, p, r) = {g}
    <3>1. \A c \in BlocksOf(mesh, o) : Range(sendList[o][c]) = Served(mesh, o, c, Size(mesh) - 1)
      <4>1. o \in Procs /\ pc[o] = "done"
        BY <1>1, <2>1
      <4>2. ListsMade(o) /\ ListsSeen(o) = Size(mesh) - 1
        BY <4>1, TaskFacts DEF ListsSeen
      <4> QED
        BY <4>2 DEF ListsMade
    <3> PICK s : s = sendList[o]
      OBVIOUS
    <3>2. SentIn(mesh, s, o, p, r) = {Wanted(mesh, p)[k]}
      BY <1>1, <2>1, <2>5, <3>1, SentIs
    <3>3. Blocks(o) = BlocksOf(mesh, o)
      BY OfTheMesh
    <3>4. SentAt(o, p, r) = SentIn(mesh, s, o, p, r)
      BY <3>3 DEF SentAt, SentIn
    <3> QED
      BY <2>5, <3>2, <3>4
  <2>7. Cardinality({<<o, r>>}) = 1
    BY FS_Singleton
  <2>8. <<o, r>>[1] = o /\ <<o, r>>[2] = r
    OBVIOUS
  <2> QED
    BY <1>1, <1>3, <1>8, <2>4, <2>6, <2>7, <2>8
<1> QED
  BY <1>7, <1>8

-----------------------------------------------------------------------------
(* Theorems *)

\* The invariant holds in every state.
LEMMA Invariant == Spec => []IInv
<1>1. Init => IInv
  BY InitInv
<1>2. IInv /\ [Next]_vars => IInv'
  BY NextInv
<1> QED
  BY <1>1, <1>2, PTL DEF Spec

\* A task is always at one of its statements, with requests that belong there, and a
\* neighbour that is not waited for is at most nprocs messages ahead.
THEOREM TypeCorrect == Spec => []TypeOK
BY Invariant, TypesFit, PTL

\* However far its neighbour is ahead, a task is never handed a message of the other kind
\* or a list of another length than announced (the two pairs of messages of a hop in
\* mpas_dmpar_get_exch_list).
THEOREM MessagesMatch == Spec => []MessagesMatchReceives
BY Invariant, MessagesFit, PTL

\* With complete lists every needed element is copied or received once, from the block
\* that owns it, where its sender puts it.
THEOREM NeedsAreMet == Spec => []EveryNeedIsMet
BY Invariant, NeedsMet, PTL
=============================================================================
