------------------------ MODULE HaloExchangeProofs -------------------------
(* Proofs about halo exchanges, for every number of tasks, every choice of    *)
(* owned and halo elements, fields, layers, groups and programs.  In four     *)
(* parts: what a layout is to be like; that it is; the invariant of the       *)
(* exchanges, which rests on it; and that the exchanges are those of module   *)
(* HaloUpdate, from which HaloIsCurrent follows.                              *)
EXTENDS HaloExchange, SequenceTheorems, FiniteSetTheorems, WellFoundedInduction, TLAPS

-----------------------------------------------------------------------------
(* What a layout is to be like *)

\* The parts of the layout of a group.
Sends(p, g)    == Layout[p][g].sends
Receives(p, g) == Layout[p][g].receives
Packed(p, g)   == Layout[p][g].packed
Unpacked(p, g) == Layout[p][g].unpacked

Slices(p, g, size) ==
    {s \in [peer : Procs \ {p}, group : {g}, before : 0 .. size, count : 0 .. size] :
        s.before + s.count <= size}

\* The slices lie in the buffers; each neighbour has one, and those of the receive
\* buffer lie apart.
SlicesFit ==
    \A p \in Procs, g \in Groups :
       /\ groupSendBufSize(p, g) \in Nat /\ groupRecvBufSize(p, g) \in Nat
       /\ \A s \in Sends(p, g) : s \in Slices(p, g, groupSendBufSize(p, g))
       /\ \A r \in Receives(p, g) : r \in Slices(p, g, groupRecvBufSize(p, g))
       /\ \A s, t \in Sends(p, g) : s # t => s.peer # t.peer
       /\ \A r, s \in Receives(p, g) :
             r # s => /\ r.peer # s.peer
                      /\ \/ r.before + r.count <= s.before
                         \/ s.before + s.count <= r.before

\* Whom p sends to receives from p, as many numbers as p sends, and the other way round.
PeersMatch ==
    \A p, q \in Procs, g \in Groups :
       /\ \A s \in Sends(p, g) :
             s.peer = q => \E r \in Receives(q, g) : r.peer = p /\ r.count = s.count
       /\ \A r \in Receives(q, g) : r.peer = p => \E s \in Sends(p, g) : s.peer = q

\* Every place of a slice that is sent is packed, each with one number of the sender's.
PackedFits ==
    \A p \in Procs, g \in Groups :
       /\ \A t \in Packed(p, g) :
             /\ t.at \in 1 .. groupSendBufSize(p, g)
             /\ t.number \in Numbers /\ t.number[2] \in Owned[p]
       /\ \A t, u \in Packed(p, g) : t.at = u.at => t.number = u.number
       /\ \A s \in Sends(p, g) : \A x \in 1 .. s.count :
             \E t \in Packed(p, g) : t.at = s.before + x

\* A number is unpacked from where the sender has packed it, and those that are
\* unpacked are the ones the exchange is to bring.
UnpackedFits ==
    \A p, q \in Procs, g \in Groups :
       /\ DOMAIN Unpacked(p, g) \subseteq Procs
       /\ q \in DOMAIN Unpacked(p, g) <=> \E r \in Receives(p, g) : r.peer = q
       /\ q \in DOMAIN Unpacked(p, g) <=> Brought(p, g, q) # {}
       /\ \A r \in Receives(p, g) : r.peer = q =>
             /\ \A n : n \in Brought(p, g, q) <=> \E t \in Unpacked(p, g)[q] : t.number = n
             /\ \A t \in Unpacked(p, g)[q] :
                   /\ t.at \in r.before + 1 .. r.before + r.count
                   /\ \E s \in Sends(q, g), u \in Packed(q, g) :
                         /\ s.peer = p /\ u.number = t.number
                         /\ u.at - s.before = t.at - r.before

LayoutsFit == SlicesFit /\ PeersMatch /\ PackedFits /\ UnpackedFits

-----------------------------------------------------------------------------
(* Sums, and the order of pairs *)

\* What holds of 0, and of n + 1 whenever it holds of n, holds of all numbers.
LEMMA SetInduction ==
    ASSUME NEW T, 0 \in T, \A n \in Nat : n \in T => n + 1 \in T
    PROVE  Nat \subseteq T
<1> DEFINE Less == OpToRel(<, Nat)
<1>1. IsWellFoundedOn(Less, Nat)
  BY NatLessThanWellFounded
<1>2. \A x, y \in Nat : y < x => <<y, x>> \in Less
  BY DEF OpToRel
<1> HIDE DEF Less
<1>3. SUFFICES ASSUME Nat \ T # {} PROVE FALSE
  OBVIOUS
<1>4. PICK x \in Nat \ T : \A y \in Nat \ T : ~(<<y, x>> \in Less)
  BY <1>1, <1>3, WFMin
<1>5. x # 0 /\ x - 1 \in Nat /\ x - 1 < x /\ (x - 1) + 1 = x
  BY <1>4
<1>6. x - 1 \in T
  BY <1>2, <1>4, <1>5
<1> QED
  BY <1>4, <1>5, <1>6

\* The sums of a sequence exist,
LEMMA SumExists ==
    ASSUME NEW N \in Nat, NEW a \in [1 .. N -> Nat], NEW k \in 0 .. N
    PROVE  \E f \in [0 .. k -> Nat] : f[0] = 0 /\ \A n \in 1 .. k : f[n] = f[n - 1] + a[n]
<1> DEFINE Good(f, j) == f \in [0 .. j -> Nat] /\ f[0] = 0 /\ \A n \in 1 .. j : f[n] = f[n - 1] + a[n]
           T == {j \in Nat : j <= N => \E f : Good(f, j)}
<1>1. 0 \in T
  <2>1. Good([n \in 0 .. 0 |-> 0], 0)
    OBVIOUS
  <2> QED
    BY <2>1
<1>2. ASSUME NEW j \in Nat, j \in T PROVE j + 1 \in T
  <2> SUFFICES ASSUME j + 1 <= N PROVE \E f : Good(f, j + 1)
    OBVIOUS
  <2>1. PICK f : Good(f, j)
    BY <1>2
  <2> DEFINE g == [n \in 0 .. j + 1 |-> IF n <= j THEN f[n] ELSE f[j] + a[j + 1]]
  <2>2. a[j + 1] \in Nat /\ f[j] \in Nat
    BY <2>1
  <2>3. g \in [0 .. j + 1 -> Nat]
    BY <2>1, <2>2
  <2>4. g[0] = 0
    BY <2>1
  <2>5. ASSUME NEW n \in 1 .. j + 1 PROVE g[n] = g[n - 1] + a[n]
    <3>1. CASE n = j + 1
      BY <3>1
    <3>2. CASE n <= j
      BY <2>1, <3>2
    <3> QED
      BY <3>1, <3>2
  <2> QED
    BY <2>3, <2>4, <2>5
<1> HIDE DEF T
<1>3. Nat \subseteq T
  BY <1>1, <1>2, SetInduction
<1>4. k \in T
  BY <1>3
<1> QED
  BY <1>4 DEF T

\* and are what they are defined to be.
LEMMA SumsAre ==
    ASSUME NEW a \in Seq(Nat)
    PROVE  /\ Sums(a) \in [0 .. Len(a) -> Nat]
           /\ Sums(a)[0] = 0 /\ \A n \in 1 .. Len(a) : Sums(a)[n] = Sums(a)[n - 1] + a[n]
<1>1. PICK f \in [0 .. Len(a) -> Nat] : f[0] = 0 /\ \A n \in 1 .. Len(a) : f[n] = f[n - 1] + a[n]
  BY SumExists
<1>2. f = [n \in 0 .. Len(a) |-> IF n = 0 THEN 0 ELSE f[n - 1] + a[n]]
  BY <1>1
<1> PICK g : g = Sums(a)
  OBVIOUS
<1>3. g = [n \in 0 .. Len(a) |-> IF n = 0 THEN 0 ELSE g[n - 1] + a[n]]
  BY <1>2 DEF Sums
<1>4. g[0] = 0 /\ \A n \in 1 .. Len(a) : g[n] = g[n - 1] + a[n]
  <2>1. \A n \in 0 .. Len(a) : g[n] = IF n = 0 THEN 0 ELSE g[n - 1] + a[n]
    BY <1>3
  <2>2. 0 \in 0 .. Len(a) /\ \A n \in 1 .. Len(a) : n \in 0 .. Len(a) /\ n # 0
    OBVIOUS
  <2> QED
    BY <2>1, <2>2
<1> DEFINE T == {j \in Nat : j <= Len(a) => g[j] \in Nat}
<1>5. 0 \in T /\ \A j \in Nat : j \in T => j + 1 \in T
  <2>1. \A j \in Nat : j + 1 <= Len(a) => g[j + 1] = g[j] + a[j + 1] /\ a[j + 1] \in Nat
    BY <1>4
  <2> QED
    BY <1>4, <2>1
<1> HIDE DEF T
<1>6. Nat \subseteq T
  BY <1>5, SetInduction
<1>7. \A n \in 0 .. Len(a) : g[n] \in Nat
  BY <1>6 DEF T
<1>8. g \in [0 .. Len(a) -> Nat]
  <2>1. DOMAIN g = 0 .. Len(a) /\ g = [n \in 0 .. Len(a) |-> g[n]]
    BY <1>3
  <2> QED
    BY <1>7, <2>1
<1> QED
  BY <1>4, <1>8

\* The sums grow, so the ranges between them do not overlap,
LEMMA SumsGrow ==
    ASSUME NEW a \in Seq(Nat)
    PROVE  \A i, j \in 0 .. Len(a) : i <= j => Sums(a)[i] <= Sums(a)[j]
<1> PICK s : s = Sums(a)
  OBVIOUS
<1>1. s \in [0 .. Len(a) -> Nat] /\ \A n \in 1 .. Len(a) : s[n] = s[n - 1] + a[n] /\ a[n] \in Nat
  BY SumsAre, ElementOfSeq
<1> DEFINE T == {d \in Nat : \A i, j \in 0 .. Len(a) : j = i + d => s[i] <= s[j]}
<1>2. 0 \in T
  BY <1>1
<1>3. ASSUME NEW d \in Nat, d \in T PROVE d + 1 \in T
  <2> SUFFICES ASSUME NEW i \in 0 .. Len(a), NEW j \in 0 .. Len(a), j = i + (d + 1)
               PROVE  s[i] <= s[j]
    OBVIOUS
  <2>1. j - 1 \in 0 .. Len(a) /\ j - 1 = i + d /\ j \in 1 .. Len(a)
    OBVIOUS
  <2>2. s[i] <= s[j - 1] /\ s[j] = s[j - 1] + a[j] /\ s[j - 1] \in Nat /\ s[i] \in Nat
        /\ a[j] \in Nat
    BY <1>1, <1>3, <2>1
  <2> QED
    BY <2>2
<1> HIDE DEF T
<1>4. Nat \subseteq T
  BY <1>2, <1>3, SetInduction
<1>5. ASSUME NEW i \in 0 .. Len(a), NEW j \in 0 .. Len(a), i <= j PROVE s[i] <= s[j]
  <2>1. Len(a) \in Nat
    BY LenProperties
  <2>2. j - i \in T /\ j = i + (j - i)
    BY <1>4, <1>5, <2>1
  <2> QED
    BY <2>2 DEF T
<1> QED
  BY <1>5

\* and together they reach from 1 to the last sum.
LEMMA SumsReach ==
    ASSUME NEW a \in Seq(Nat), NEW x \in 1 .. Sums(a)[Len(a)]
    PROVE  \E n \in 1 .. Len(a) : x \in Sums(a)[n - 1] + 1 .. Sums(a)[n]
<1> PICK s : s = Sums(a)
  OBVIOUS
<1>1. s \in [0 .. Len(a) -> Nat] /\ s[0] = 0 /\ Len(a) \in Nat
  BY SumsAre, LenProperties
<1> DEFINE T == {n \in Nat : n <= Len(a) => s[n] < x}
<1>2. SUFFICES ASSUME \A n \in 1 .. Len(a) : ~(x \in s[n - 1] + 1 .. s[n])
               PROVE  FALSE
  OBVIOUS
<1>3. 0 \in T
  BY <1>1
<1>4. ASSUME NEW n \in Nat, n \in T PROVE n + 1 \in T
  <2> SUFFICES ASSUME n + 1 <= Len(a) PROVE s[n + 1] < x
    OBVIOUS
  <2>1. n + 1 \in 1 .. Len(a) /\ (n + 1) - 1 = n /\ n \in 0 .. Len(a) /\ n + 1 \in 0 .. Len(a)
    BY <1>1
  <2>2. s[n] < x /\ s[n] \in Nat /\ s[n + 1] \in Nat
    BY <1>1, <1>4, <2>1
  <2>3. ~(x \in s[(n + 1) - 1] + 1 .. s[n + 1])
    BY <1>2, <2>1
  <2> QED
    BY <1>1, <2>1, <2>2, <2>3
<1> HIDE DEF T
<1>5. Len(a) \in T
  BY <1>1, <1>3, <1>4, SetInduction
<1> QED
  BY <1>1, <1>5 DEF T

Pairs == Int \X Int

\* Pairs are in one order.
LEMMA PairsOrdered ==
    /\ \A x \in Pairs : Precedes(x, x)
    /\ \A x, y \in Pairs : Precedes(x, y) \/ Precedes(y, x)
    /\ \A x, y \in Pairs : Precedes(x, y) /\ Precedes(y, x) => x = y
    /\ \A x, y, z \in Pairs : Precedes(x, y) /\ Precedes(y, z) => Precedes(x, z)
<1>1. \A x \in Pairs : x[1] \in Int /\ x[2] \in Int /\ x = <<x[1], x[2]>>
  BY DEF Pairs
<1>2. \A x \in Pairs : Precedes(x, x)
  BY <1>1 DEF Precedes
<1>3. \A x, y \in Pairs : Precedes(x, y) \/ Precedes(y, x)
  BY <1>1 DEF Precedes
<1>4. ASSUME NEW x \in Pairs, NEW y \in Pairs, Precedes(x, y), Precedes(y, x) PROVE x = y
  <2>1. x[1] = y[1] /\ x[2] = y[2]
    BY <1>1, <1>4 DEF Precedes
  <2> QED
    BY <1>1, <2>1
<1>5. ASSUME NEW x \in Pairs, NEW y \in Pairs, NEW z \in Pairs, Precedes(x, y), Precedes(y, z)
      PROVE  Precedes(x, z)
  BY <1>1, <1>5 DEF Precedes
<1> QED
  BY <1>2, <1>3, <1>4, <1>5

\* Every element of a finite set has a place of its own,
LEMMA PlacesDiffer ==
    ASSUME NEW S \in SUBSET Pairs, IsFiniteSet(S)
    PROVE  /\ \A x \in S : Place(S, x) \in 1 .. Cardinality(S)
           /\ \A x, y \in S : Place(S, x) = Place(S, y) => x = y
<1> DEFINE Up(x) == {y \in S : Precedes(y, x)}
<1>0. \A x \in S : x \in Pairs
  OBVIOUS
<1>1. \A x \in S : IsFiniteSet(Up(x)) /\ Cardinality(Up(x)) <= Cardinality(S) /\ Cardinality(Up(x)) \in Nat
                   /\ x \in Up(x)
  <2> SUFFICES ASSUME NEW x \in S
               PROVE  IsFiniteSet(Up(x)) /\ Cardinality(Up(x)) <= Cardinality(S) /\ Cardinality(Up(x)) \in Nat
                      /\ x \in Up(x)
    OBVIOUS
  <2>1. Up(x) \in SUBSET S
    OBVIOUS
  <2>2. IsFiniteSet(Up(x)) /\ Cardinality(Up(x)) <= Cardinality(S)
    BY <2>1, FS_Subset
  <2>3. x \in Up(x)
    BY <1>0, PairsOrdered
  <2> QED
    BY <2>2, <2>3, FS_CardinalityType
<1>2. \A x \in S : Cardinality(Up(x)) # 0
  BY <1>1, FS_EmptySet
<1>3. ASSUME NEW x \in S, NEW y \in S, Precedes(x, y), Cardinality(Up(x)) = Cardinality(Up(y)) PROVE x = y
  <2>1. Up(x) \in SUBSET Up(y)
    BY <1>0, <1>3, PairsOrdered
  <2>2. Up(y) = Up(x)
    BY <1>1, <1>3, <2>1, FS_Subset
  <2>3. Precedes(y, x)
    BY <1>1, <2>2
  <2> QED
    BY <1>0, <1>3, <2>3, PairsOrdered
<1> HIDE DEF Up
<1>4. \A x : Place(S, x) = Cardinality(Up(x))
  BY DEF Place, Up
<1>5. Cardinality(S) \in Nat
  BY FS_CardinalityType
<1>6. \A x \in S : Place(S, x) \in 1 .. Cardinality(S)
  BY <1>1, <1>2, <1>4, <1>5
<1>7. ASSUME NEW x \in S, NEW y \in S, Place(S, x) = Place(S, y) PROVE x = y
  <2>1. Cardinality(Up(x)) = Cardinality(Up(y))
    BY <1>4, <1>7
  <2>2. Precedes(x, y) \/ Precedes(y, x)
    BY <1>0, PairsOrdered
  <2> QED
    BY <1>3, <2>1, <2>2
<1> QED
  BY <1>6, <1>7

\* so InOrder has every element once.
LEMMA InOrderEnumerates ==
    ASSUME NEW S \in SUBSET Pairs, IsFiniteSet(S)
    PROVE  /\ Cardinality(S) \in Nat /\ InOrder(S) \in [1 .. Cardinality(S) -> S]
           /\ \A x \in S : \E n \in 1 .. Cardinality(S) : InOrder(S)[n] = x
           /\ \A m, n \in 1 .. Cardinality(S) : InOrder(S)[m] = InOrder(S)[n] => m = n
<1> DEFINE f == [x \in S |-> Place(S, x)]
           N == Cardinality(S)
<1>1. N \in Nat /\ IsFiniteSet(1 .. N) /\ Cardinality(1 .. N) = N
  BY FS_CardinalityType, FS_Interval
<1>2. f \in Injection(S, 1 .. N)
  BY PlacesDiffer DEF Injection, IsInjective
<1>3. f \in Surjection(S, 1 .. N)
  BY <1>1, <1>2, FS_Injection
<1>4. \A n \in 1 .. N : \E x \in S : Place(S, x) = n
  BY <1>3 DEF Surjection
<1>5. \A n \in 1 .. N : InOrder(S)[n] \in S /\ Place(S, InOrder(S)[n]) = n
  BY <1>4 DEF InOrder
<1>6. InOrder(S) \in [1 .. N -> S]
  BY <1>5 DEF InOrder
<1>7. \A x \in S : Place(S, x) \in 1 .. N /\ InOrder(S)[Place(S, x)] = x
  BY <1>5, PlacesDiffer
<1> HIDE DEF N
<1>8. \A m, n \in 1 .. N : InOrder(S)[m] = InOrder(S)[n] => m = n
  BY <1>5
<1> QED
  BY <1>1, <1>6, <1>7, <1>8 DEF N

\* Unique has every value once.
LEMMA UniqueEnumerates ==
    ASSUME NEW T \in SUBSET Pairs, IsFiniteSet(T), NEW s, DOMAIN s = T
    PROVE  \E N \in Nat :
              /\ DOMAIN Unique(s) = 1 .. N
              /\ \A n \in 1 .. N : \E x \in T : Unique(s)[n] = s[x]
              /\ \A x \in T : \E n \in 1 .. N : Unique(s)[n] = s[x]
              /\ \A m, n \in 1 .. N : Unique(s)[m] = Unique(s)[n] => m = n
<1> DEFINE first == {x \in T : \A y \in T : s[y] = s[x] => Precedes(x, y)}
           N == Cardinality(first)
<1>1. first \in SUBSET T /\ first \in SUBSET Pairs /\ IsFiniteSet(first)
  BY FS_Subset
<1>2. \A x \in first : x \in T /\ x \in Pairs /\ \A y \in T : s[y] = s[x] => Precedes(x, y)
  OBVIOUS
<1>3. Unique(s) = [n \in 1 .. N |-> s[InOrder(first)[n]]]
  BY DEF Unique
<1>4. ASSUME NEW x \in T PROVE \E z \in first : s[z] = s[x]
  <2> DEFINE C == {y \in T : s[y] = s[x]}
  <2>1. C \in SUBSET T /\ C \in SUBSET Pairs /\ IsFiniteSet(C) /\ x \in C
    BY FS_Subset
  <2>3. PICK z \in C : \A y \in C : Place(C, z) <= Place(C, y)
    <3>1. \A y \in C : Place(C, y) \in Nat
      BY <2>1, PlacesDiffer
    <3>2. PICK z \in C : TRUE
      BY <2>1
    <3> DEFINE P == {Place(C, y) : y \in C}
               Less == OpToRel(<, Nat)
    <3>3. IsWellFoundedOn(Less, Nat) /\ P \subseteq Nat /\ P # {}
      BY <3>1, <3>2, NatLessThanWellFounded
    <3>4. \A i, j \in Nat : i < j => <<i, j>> \in Less
      BY DEF OpToRel
    <3> HIDE DEF Less, P
    <3>5. PICK i \in P : \A j \in P : ~(<<j, i>> \in Less)
      BY <3>3, WFMin
    <3>6. ASSUME NEW j \in P PROVE i <= j
      <4>1. i \in Nat /\ j \in Nat /\ ~(<<j, i>> \in Less)
        BY <3>3, <3>5
      <4>2. ~(j < i)
        BY <3>4, <4>1
      <4> QED
        BY <4>1, <4>2
    <3>7. PICK w \in C : i = Place(C, w)
      BY <3>5 DEF P
    <3>8. \A y \in C : Place(C, y) \in P
      BY DEF P
    <3>9. \A y \in C : Place(C, w) <= Place(C, y)
      BY <3>6, <3>7, <3>8
    <3> HIDE DEF C
    <3> QED
      BY <3>9
  <2>4. ASSUME NEW y \in C PROVE Precedes(z, y)
    <3>1. CASE Precedes(y, z)
      <4> DEFINE Up(v) == {u \in C : Precedes(u, v)}
      <4>1. Up(y) \in SUBSET Up(z) /\ Up(z) \in SUBSET C
        BY <2>1, <3>1, PairsOrdered
      <4>2. IsFiniteSet(Up(z))
        BY <2>1, <4>1, FS_Subset
      <4>3. Cardinality(Up(y)) <= Cardinality(Up(z)) /\ (Cardinality(Up(y)) = Cardinality(Up(z)) => Up(y) = Up(z))
        BY <4>1, <4>2, FS_Subset
      <4>4. Place(C, y) = Cardinality(Up(y)) /\ Place(C, z) = Cardinality(Up(z))
        BY DEF Place
      <4>5. Place(C, y) \in Nat /\ Place(C, z) \in Nat /\ Place(C, z) <= Place(C, y)
        BY <2>1, <2>3, PlacesDiffer
      <4> HIDE DEF Up
      <4>6. Place(C, y) = Place(C, z)
        BY <4>3, <4>4, <4>5
      <4>7. y = z
        BY <2>1, <4>6, PlacesDiffer
      <4> QED
        BY <3>1, <4>7
    <3>2. CASE ~Precedes(y, z)
      BY <2>1, <3>2, PairsOrdered
    <3> QED
      BY <3>1, <3>2
  <2>5. z \in first /\ s[z] = s[x]
    BY <2>4
  <2> QED
    BY <2>5
<1>5. /\ N \in Nat /\ InOrder(first) \in [1 .. N -> first]
      /\ \A x \in first : \E n \in 1 .. N : InOrder(first)[n] = x
      /\ \A m, n \in 1 .. N : InOrder(first)[m] = InOrder(first)[n] => m = n
  BY <1>1, InOrderEnumerates
<1>6. ASSUME NEW x \in first, NEW y \in first, s[x] = s[y] PROVE x = y
  <2>1. Precedes(x, y) /\ Precedes(y, x)
    BY <1>2, <1>6
  <2> QED
    BY <1>2, <2>1, PairsOrdered
<1> HIDE DEF first, N
<1>7. \A n \in 1 .. N : InOrder(first)[n] \in first /\ Unique(s)[n] = s[InOrder(first)[n]]
  BY <1>3, <1>5
<1>8. \A m, n \in 1 .. N : Unique(s)[m] = Unique(s)[n] => m = n
  BY <1>5, <1>6, <1>7
<1>9. \A n \in 1 .. N : \E x \in T : Unique(s)[n] = s[x]
  BY <1>2, <1>7
<1>10. \A x \in T : \E n \in 1 .. N : Unique(s)[n] = s[x]
  BY <1>4, <1>5, <1>7
<1> QED
  BY <1>3, <1>5, <1>8, <1>9, <1>10

-----------------------------------------------------------------------------
(* Neighbours *)

\* What is assumed of the tasks, groups and fields.
LEMMA SizeFacts ==
    /\ nprocs \in Nat \ {0} /\ \A p \in Procs : p \in Nat /\ p < nprocs
    /\ \A g \in Groups : /\ g \in Seq(Fields) /\ Len(g) \in Nat /\ DOMAIN g = 1 .. Len(g)
                         /\ \A m \in DOMAIN g : g[m] \in Fields
    /\ \A f \in Fields : Inner[f] \in Nat \ {0}
<1>1. nprocs \in Nat \ {0} /\ \A p \in Procs : p \in Nat /\ p < nprocs
  BY SizesAssumption DEF Procs
<1>2. ASSUME NEW g \in Groups
      PROVE  /\ g \in Seq(Fields) /\ Len(g) \in Nat /\ DOMAIN g = 1 .. Len(g)
             /\ \A m \in DOMAIN g : g[m] \in Fields
  <2>1. g \in Seq(Fields)
    <3>1. PICK r \in DOMAIN Program : g = Program[r]
      BY DEF Groups, Range
    <3>2. Program \in Seq(Seq(Fields)) /\ r \in 1 .. Len(Program)
      BY <3>1, SizesAssumption, LenProperties
    <3> QED
      BY <3>1, <3>2, ElementOfSeq
  <2>2. Len(g) \in Nat /\ DOMAIN g = 1 .. Len(g)
    BY <2>1, LenProperties
  <2>3. \A m \in DOMAIN g : g[m] \in Fields
    BY <2>1, <2>2, ElementOfSeq
  <2> QED
    BY <2>1, <2>2, <2>3
<1> QED
  BY <1>1, <1>2, SizesAssumption

\* The elements p has for q of the field f, by layer.
Lists(p, q, f) == {x \in Layers[f] \X Owned[p] : x[2] \in Halo[q][x[1]]}

\* A section has each of them once.
LEMMA SectionIs ==
    ASSUME NEW p \in Procs, NEW q \in Procs, NEW f \in Fields
    PROVE  /\ Len(Section(p, q, f)) \in Nat
           /\ DOMAIN Section(p, q, f) = 1 .. Len(Section(p, q, f))
           /\ \A e \in DOMAIN Section(p, q, f) : Section(p, q, f)[e] \in Lists(p, q, f)
           /\ \A x \in Lists(p, q, f) : \E e \in DOMAIN Section(p, q, f) : Section(p, q, f)[e] = x
           /\ Lists(p, q, f) # {} <=> Len(Section(p, q, f)) # 0
<1> DEFINE S == Lists(p, q, f)
           N == Cardinality(S)
<1>1. S \in SUBSET Pairs /\ IsFiniteSet(S)
  <2>1. IsFiniteSet(Layers[f] \X Owned[p])
    BY ElementsAssumption, FS_Product
  <2>2. IsFiniteSet(S)
    BY <2>1, FS_Subset DEF Lists
  <2> QED
    BY <2>2, ElementsAssumption DEF Lists, Pairs
<1>2. Section(p, q, f) = InOrder(S)
  <2>1. S = {x \in Layers[f] \X Owned[p] : x[2] \in ExchList(p, q, x[1])}
    BY DEF Lists, ExchList
  <2> QED
    BY <2>1 DEF Section
<1> HIDE DEF S
<1>3. /\ N \in Nat /\ InOrder(S) \in [1 .. N -> S]
      /\ \A x \in S : \E n \in 1 .. N : InOrder(S)[n] = x
  BY <1>1, InOrderEnumerates
<1> HIDE DEF N
<1>4. InOrder(S) \in Seq(S) /\ Len(InOrder(S)) = N /\ DOMAIN InOrder(S) = 1 .. N
  <2>1. InOrder(S) \in Seq(S)
    BY <1>3, SeqDef
  <2> QED
    BY <1>3, <2>1, LenProperties
<1>5. \A e \in 1 .. N : InOrder(S)[e] \in S
  BY <1>3
<1>6. S # {} <=> N # 0
  BY <1>3, <1>5
<1> QED
  BY <1>2, <1>3, <1>4, <1>5, <1>6 DEF S

\* The lists of a task are those of the other tasks, each once.
LEMMA OrdersReachAll ==
    ASSUME NEW p \in Procs
    PROVE  /\ DOMAIN SendOrder(p) = 1 .. nprocs - 1 /\ DOMAIN RecvOrder(p) = 1 .. nprocs - 1
           /\ \A n \in 1 .. nprocs - 1 : /\ SendOrder(p)[n] \in Procs \ {p}
                                         /\ RecvOrder(p)[n] \in Procs \ {p}
           /\ \A q \in Procs \ {p} : /\ \E n \in 1 .. nprocs - 1 : SendOrder(p)[n] = q
                                     /\ \E n \in 1 .. nprocs - 1 : RecvOrder(p)[n] = q
<1>1. nprocs \in Nat \ {0} /\ p \in Nat /\ p < nprocs /\ Procs = 0 .. nprocs - 1
  BY SizeFacts DEF Procs
<1>2. ASSUME NEW d \in Nat, d < nprocs PROVE d % nprocs = d /\ (d + nprocs) % nprocs = d
  BY <1>1, <1>2
<1>3. ASSUME NEW n \in 1 .. nprocs - 1 PROVE SendOrder(p)[n] = IF n <= p THEN p - n ELSE p - n + nprocs
  <2>1. SendOrder(p)[n] = (p + nprocs - n) % nprocs
    BY DEF SendOrder
  <2>2. CASE n <= p
    <3>1. p - n \in Nat /\ p - n < nprocs /\ p + nprocs - n = (p - n) + nprocs
      BY <1>1, <2>2
    <3> QED
      BY <1>2, <2>1, <2>2, <3>1
  <2>3. CASE ~(n <= p)
    <3>1. p + nprocs - n \in Nat /\ p + nprocs - n < nprocs /\ p + nprocs - n = p - n + nprocs
      BY <1>1, <2>3
    <3> QED
      BY <1>2, <2>1, <2>3, <3>1
  <2> QED
    BY <2>2, <2>3
<1>4. \A n \in 1 .. nprocs - 1 : SendOrder(p)[n] \in Procs \ {p}
  BY <1>1, <1>3
<1>5. \A n \in 1 .. nprocs - 1 : RecvOrder(p)[n] \in Procs \ {p}
  BY <1>1 DEF RecvOrder
<1>6. ASSUME NEW q \in Procs \ {p} PROVE \E n \in 1 .. nprocs - 1 : SendOrder(p)[n] = q
  <2>1. CASE q < p
    <3>1. p - q \in 1 .. nprocs - 1 /\ p - q <= p /\ p - (p - q) = q
      BY <1>1, <2>1
    <3> QED
      BY <1>3, <3>1
  <2>2. CASE q > p
    <3>1. /\ p - q + nprocs \in 1 .. nprocs - 1 /\ ~(p - q + nprocs <= p)
          /\ p - (p - q + nprocs) + nprocs = q
      BY <1>1, <2>2
    <3> QED
      BY <1>3, <3>1
  <2> QED
    BY <1>1, <2>1, <2>2
<1>7. ASSUME NEW q \in Procs \ {p} PROVE \E n \in 1 .. nprocs - 1 : RecvOrder(p)[n] = q
  <2>1. CASE q < p
    <3>1. q + 1 \in 1 .. nprocs - 1 /\ q + 1 <= p /\ (q + 1) - 1 = q
      BY <1>1, <2>1
    <3> QED
      BY <3>1 DEF RecvOrder
  <2>2. CASE q > p
    <3>1. q \in 1 .. nprocs - 1 /\ ~(q <= p)
      BY <1>1, <2>2
    <3> QED
      BY <3>1 DEF RecvOrder
  <2> QED
    BY <1>1, <2>1, <2>2
<1> QED
  BY <1>4, <1>5, <1>6, <1>7 DEF SendOrder, RecvOrder

\* A sequence that has every member of S once.
Enumerates(s, S) ==
    /\ \E N \in Nat : DOMAIN s = 1 .. N
    /\ \A n \in DOMAIN s : s[n] \in S
    /\ \A x \in S : \E n \in DOMAIN s : s[n] = x
    /\ \A m, n \in DOMAIN s : s[m] = s[n] => m = n

\* A field is sent to the tasks that have one of its elements in their halo,
LEMMA SendEndpointsAre ==
    ASSUME NEW p \in Procs, NEW f \in Fields
    PROVE  Enumerates(SendEndpoints(p, f), {q \in Procs \ {p} : Lists(p, q, f) # {}})
<1> DEFINE T == {x \in Layers[f] \X DOMAIN SendOrder(p) : ExchList(p, SendOrder(p)[x[2]], x[1]) # {}}
           s == [x \in T |-> SendOrder(p)[x[2]]]
           S == {q \in Procs \ {p} : Lists(p, q, f) # {}}
<1>1. T \in SUBSET Pairs /\ IsFiniteSet(T)
  <2>1. nprocs - 1 \in Int /\ DOMAIN SendOrder(p) = 1 .. nprocs - 1
    BY SizeFacts, OrdersReachAll
  <2>2. IsFiniteSet(Layers[f] \X DOMAIN SendOrder(p))
    <3>1. IsFiniteSet(DOMAIN SendOrder(p)) /\ IsFiniteSet(Layers[f])
      BY <2>1, ElementsAssumption, FS_Interval
    <3> QED
      BY <3>1, FS_Product
  <2>3. IsFiniteSet(T)
    BY <2>2, FS_Subset
  <2> QED
    BY <2>1, <2>3, ElementsAssumption DEF Pairs
<1>2. SendEndpoints(p, f) = Unique(s) /\ DOMAIN s = T
  BY DEF SendEndpoints
<1>3. ASSUME NEW x \in T PROVE s[x] \in S
  <2>1. x[1] \in Layers[f] /\ x[2] \in 1 .. nprocs - 1 /\ ExchList(p, SendOrder(p)[x[2]], x[1]) # {}
    BY <1>3, OrdersReachAll
  <2>2. PICK c : c \in Owned[p] /\ c \in Halo[SendOrder(p)[x[2]]][x[1]]
    BY <2>1 DEF ExchList
  <2>3. <<x[1], c>> \in Lists(p, SendOrder(p)[x[2]], f)
    BY <2>1, <2>2 DEF Lists
  <2>4. SendOrder(p)[x[2]] \in Procs \ {p}
    BY <2>1, OrdersReachAll
  <2> QED
    BY <2>3, <2>4
<1>4. ASSUME NEW q \in S PROVE \E x \in T : s[x] = q
  <2>1. PICK y \in Lists(p, q, f) : TRUE
    OBVIOUS
  <2>2. y[1] \in Layers[f] /\ y[2] \in ExchList(p, q, y[1])
    BY <2>1 DEF Lists, ExchList
  <2>3. PICK n \in 1 .. nprocs - 1 : SendOrder(p)[n] = q
    BY OrdersReachAll
  <2>4. <<y[1], n>> \in T
    BY <2>2, <2>3, OrdersReachAll
  <2> QED
    BY <2>3, <2>4
<1> HIDE DEF T, s, S
<1>5. \E N \in Nat :
         /\ DOMAIN Unique(s) = 1 .. N
         /\ \A n \in 1 .. N : \E x \in T : Unique(s)[n] = s[x]
         /\ \A x \in T : \E n \in 1 .. N : Unique(s)[n] = s[x]
         /\ \A m, n \in 1 .. N : Unique(s)[m] = Unique(s)[n] => m = n
  BY <1>1, <1>2, UniqueEnumerates
<1>6. Enumerates(Unique(s), S)
  BY <1>3, <1>4, <1>5 DEF Enumerates
<1> QED
  BY <1>2, <1>6 DEF S

\* and received from the tasks that own one of its halo elements.
LEMMA RecvEndpointsAre ==
    ASSUME NEW p \in Procs, NEW f \in Fields
    PROVE  Enumerates(RecvEndpoints(p, f), {q \in Procs \ {p} : Lists(q, p, f) # {}})
<1> DEFINE T == {x \in Layers[f] \X DOMAIN RecvOrder(p) : ExchList(RecvOrder(p)[x[2]], p, x[1]) # {}}
           s == [x \in T |-> RecvOrder(p)[x[2]]]
           S == {q \in Procs \ {p} : Lists(q, p, f) # {}}
<1>1. T \in SUBSET Pairs /\ IsFiniteSet(T)
  <2>1. nprocs - 1 \in Int /\ DOMAIN RecvOrder(p) = 1 .. nprocs - 1
    BY SizeFacts, OrdersReachAll
  <2>2. IsFiniteSet(Layers[f] \X DOMAIN RecvOrder(p))
    <3>1. IsFiniteSet(DOMAIN RecvOrder(p)) /\ IsFiniteSet(Layers[f])
      BY <2>1, ElementsAssumption, FS_Interval
    <3> QED
      BY <3>1, FS_Product
  <2>3. IsFiniteSet(T)
    BY <2>2, FS_Subset
  <2> QED
    BY <2>1, <2>3, ElementsAssumption DEF Pairs
<1>2. RecvEndpoints(p, f) = Unique(s) /\ DOMAIN s = T
  BY DEF RecvEndpoints
<1>3. ASSUME NEW x \in T PROVE s[x] \in S
  <2>1. x[1] \in Layers[f] /\ x[2] \in 1 .. nprocs - 1 /\ ExchList(RecvOrder(p)[x[2]], p, x[1]) # {}
    BY <1>3, OrdersReachAll
  <2>2. PICK c : c \in Owned[RecvOrder(p)[x[2]]] /\ c \in Halo[p][x[1]]
    BY <2>1 DEF ExchList
  <2>3. <<x[1], c>> \in Lists(RecvOrder(p)[x[2]], p, f)
    BY <2>1, <2>2 DEF Lists
  <2>4. RecvOrder(p)[x[2]] \in Procs \ {p}
    BY <2>1, OrdersReachAll
  <2> QED
    BY <2>3, <2>4
<1>4. ASSUME NEW q \in S PROVE \E x \in T : s[x] = q
  <2>1. PICK y \in Lists(q, p, f) : TRUE
    OBVIOUS
  <2>2. y[1] \in Layers[f] /\ y[2] \in ExchList(q, p, y[1])
    BY <2>1 DEF Lists, ExchList
  <2>3. PICK n \in 1 .. nprocs - 1 : RecvOrder(p)[n] = q
    BY OrdersReachAll
  <2>4. <<y[1], n>> \in T
    BY <2>2, <2>3, OrdersReachAll
  <2> QED
    BY <2>3, <2>4
<1> HIDE DEF T, s, S
<1>5. \E N \in Nat :
         /\ DOMAIN Unique(s) = 1 .. N
         /\ \A n \in 1 .. N : \E x \in T : Unique(s)[n] = s[x]
         /\ \A x \in T : \E n \in 1 .. N : Unique(s)[n] = s[x]
         /\ \A m, n \in 1 .. N : Unique(s)[m] = Unique(s)[n] => m = n
  BY <1>1, <1>2, UniqueEnumerates
<1>6. Enumerates(Unique(s), S)
  BY <1>3, <1>4, <1>5 DEF Enumerates
<1> QED
  BY <1>2, <1>6 DEF S

\* The members of several sequences, each once.
LEMMA AggregateEnumerates ==
    ASSUME NEW n \in Nat, NEW ss, DOMAIN ss = 1 .. n, NEW S,
           \A m \in 1 .. n : Enumerates(ss[m], S[m])
    PROVE  Enumerates(Aggregate(ss), UNION {S[m] : m \in 1 .. n})
<1> DEFINE places == UNION {{m} \X DOMAIN ss[m] : m \in DOMAIN ss}
           s == [x \in places |-> ss[x[1]][x[2]]]
           all == UNION {S[m] : m \in 1 .. n}
           row == [m \in 1 .. n |-> {m} \X DOMAIN ss[m]]
           rows == {row[m] : m \in 1 .. n}
<1>1. ASSUME NEW m \in 1 .. n PROVE IsFiniteSet(row[m]) /\ row[m] \subseteq Pairs
  <2>1. PICK N \in Nat : DOMAIN ss[m] = 1 .. N
    BY DEF Enumerates
  <2>2. IsFiniteSet(DOMAIN ss[m]) /\ IsFiniteSet({m})
    <3>1. IsFiniteSet(1 .. N)
      BY FS_Interval
    <3> QED
      BY <2>1, <3>1, FS_Singleton
  <2>3. IsFiniteSet({m} \X DOMAIN ss[m])
    BY <2>2, FS_Product
  <2>4. row[m] = {m} \X DOMAIN ss[m]
    OBVIOUS
  <2>5. {m} \X DOMAIN ss[m] \subseteq Pairs
    BY <2>1 DEF Pairs
  <2> QED
    BY <2>3, <2>4, <2>5
<1>2. places = UNION rows
  OBVIOUS
<1>3. IsFiniteSet(rows)
  <2>1. row \in Surjection(1 .. n, rows)
    BY DEF Surjection
  <2>2. IsFiniteSet(1 .. n)
    BY FS_Interval
  <2> HIDE DEF row, rows
  <2> QED
    BY <2>1, <2>2, FS_Surjection
<1>4. places \in SUBSET Pairs /\ IsFiniteSet(places)
  <2>1. \A T \in rows : IsFiniteSet(T) /\ T \subseteq Pairs
    BY <1>1
  <2> HIDE DEF row, rows, places
  <2> QED
    BY <1>2, <1>3, <2>1, FS_UNION
<1>5. \A x \in places : /\ x[1] \in 1 .. n /\ x[2] \in DOMAIN ss[x[1]]
                        /\ s[x] = ss[x[1]][x[2]]
  OBVIOUS
<1>6. \A m \in 1 .. n : \A i \in DOMAIN ss[m] : <<m, i>> \in places /\ s[<<m, i>>] = ss[m][i]
  OBVIOUS
<1>7. DOMAIN s = places /\ Aggregate(ss) = Unique(s)
  BY DEF Aggregate
<1> HIDE DEF places, s, row, rows
<1>8. \A x \in places : s[x] \in all
  BY <1>5 DEF Enumerates
<1>9. ASSUME NEW v \in all PROVE \E x \in places : s[x] = v
  <2>1. PICK m \in 1 .. n : v \in S[m]
    OBVIOUS
  <2>2. PICK i \in DOMAIN ss[m] : ss[m][i] = v
    BY <2>1 DEF Enumerates
  <2> QED
    BY <1>6, <2>2
<1> HIDE DEF all
<1>10. \E N \in Nat :
         /\ DOMAIN Unique(s) = 1 .. N
         /\ \A i \in 1 .. N : \E x \in places : Unique(s)[i] = s[x]
         /\ \A x \in places : \E i \in 1 .. N : Unique(s)[i] = s[x]
         /\ \A i, j \in 1 .. N : Unique(s)[i] = Unique(s)[j] => i = j
  BY <1>4, <1>7, UniqueEnumerates
<1>11. Enumerates(Unique(s), all)
  <2>1. PICK N \in Nat :
         /\ DOMAIN Unique(s) = 1 .. N
         /\ \A i \in 1 .. N : \E x \in places : Unique(s)[i] = s[x]
         /\ \A x \in places : \E i \in 1 .. N : Unique(s)[i] = s[x]
         /\ \A i, j \in 1 .. N : Unique(s)[i] = Unique(s)[j] => i = j
    BY <1>10
  <2>2. \A i \in DOMAIN Unique(s) : Unique(s)[i] \in all
    BY <1>8, <2>1
  <2>3. \A v \in all : \E i \in DOMAIN Unique(s) : Unique(s)[i] = v
    BY <1>9, <2>1
  <2> QED
    BY <2>1, <2>2, <2>3 DEF Enumerates
<1> QED
  BY <1>7, <1>11 DEF all

\* The tasks p has a message for, or from, in an exchange of the group g.
To(p, g)   == {q \in Procs \ {p} : \E m \in DOMAIN g : Lists(p, q, g[m]) # {}}
From(p, g) == {q \in Procs \ {p} : \E m \in DOMAIN g : Lists(q, p, g[m]) # {}}

\* The neighbours a group is sent to, each once,
LEMMA SendNeighborsAre ==
    ASSUME NEW p \in Procs, NEW g \in Groups
    PROVE  Enumerates(groupSendNeighbors(p, g), To(p, g))
<1> DEFINE ss == [m \in DOMAIN g |-> SendEndpoints(p, g[m])]
           S == [m \in DOMAIN g |-> {q \in Procs \ {p} : Lists(p, q, g[m]) # {}}]
<1>1. Len(g) \in Nat /\ DOMAIN g = 1 .. Len(g) /\ \A m \in DOMAIN g : g[m] \in Fields
  BY SizeFacts
<1>2. \A m \in 1 .. Len(g) : Enumerates(ss[m], S[m])
  BY <1>1, SendEndpointsAre
<1>3. DOMAIN ss = 1 .. Len(g)
  BY <1>1
<1>4. groupSendNeighbors(p, g) = Aggregate(ss)
  BY DEF groupSendNeighbors
<1>5. UNION {S[m] : m \in 1 .. Len(g)} = To(p, g)
  <2>1. ASSUME NEW q PROVE q \in To(p, g) <=> \E m \in 1 .. Len(g) : q \in S[m]
    BY <1>1 DEF To
  <2>2. ASSUME NEW q PROVE q \in UNION {S[m] : m \in 1 .. Len(g)} <=> \E m \in 1 .. Len(g) : q \in S[m]
    OBVIOUS
  <2> QED
    BY <2>1, <2>2
<1> HIDE DEF ss, S
<1> QED
  BY <1>1, <1>2, <1>3, <1>4, <1>5, AggregateEnumerates

\* and those it is received from.
LEMMA RecvNeighborsAre ==
    ASSUME NEW p \in Procs, NEW g \in Groups
    PROVE  Enumerates(groupRecvNeighbors(p, g), From(p, g))
<1> DEFINE ss == [m \in DOMAIN g |-> RecvEndpoints(p, g[m])]
           S == [m \in DOMAIN g |-> {q \in Procs \ {p} : Lists(q, p, g[m]) # {}}]
<1>1. Len(g) \in Nat /\ DOMAIN g = 1 .. Len(g) /\ \A m \in DOMAIN g : g[m] \in Fields
  BY SizeFacts
<1>2. \A m \in 1 .. Len(g) : Enumerates(ss[m], S[m])
  BY <1>1, RecvEndpointsAre
<1>3. DOMAIN ss = 1 .. Len(g)
  BY <1>1
<1>4. groupRecvNeighbors(p, g) = Aggregate(ss)
  BY DEF groupRecvNeighbors
<1>5. UNION {S[m] : m \in 1 .. Len(g)} = From(p, g)
  <2>1. ASSUME NEW q PROVE q \in From(p, g) <=> \E m \in 1 .. Len(g) : q \in S[m]
    BY <1>1 DEF From
  <2>2. ASSUME NEW q PROVE q \in UNION {S[m] : m \in 1 .. Len(g)} <=> \E m \in 1 .. Len(g) : q \in S[m]
    OBVIOUS
  <2> QED
    BY <2>1, <2>2
<1> HIDE DEF ss, S
<1> QED
  BY <1>1, <1>2, <1>3, <1>4, <1>5, AggregateEnumerates

-----------------------------------------------------------------------------
(* Places in a message and in a buffer *)

\* A block of size I for each of L elements: the places of different blocks differ, and
\* together they are all places there are.
Tiles(I, L) ==
    /\ \A e \in 1 .. L, k \in 1 .. I : I * (e - 1) + k \in 1 .. I * L
    /\ \A e, d \in 1 .. L, k, l \in 1 .. I :
          I * (e - 1) + k = I * (d - 1) + l => e = d /\ k = l
    /\ \A x \in 1 .. I * L : \E e \in 1 .. L, k \in 1 .. I : x = I * (e - 1) + k

\* This is so for every size.
LEMMA BlocksTile == ASSUME NEW I \in Nat \ {0}, NEW L \in Nat PROVE Tiles(I, L)
<1>0. \A a, b \in Int : I * a \in Int /\ (a <= b => I * a <= I * b) /\ I * (a + 1) = I * a + I
  BY SMT
<1>1. ASSUME NEW e \in 1 .. L, NEW k \in 1 .. I PROVE I * (e - 1) + k \in 1 .. I * L
  <2>1. e - 1 \in Int /\ e \in Int /\ L \in Int /\ 0 <= e - 1 /\ e <= L /\ (e - 1) + 1 = e
    OBVIOUS
  <2>2. I * 0 <= I * (e - 1) /\ I * e <= I * L /\ I * e = I * (e - 1) + I /\ I * (e - 1) \in Int
        /\ I * L \in Int
    BY <1>0, <2>1
  <2>3. I * 0 = 0
    OBVIOUS
  <2> QED
    BY <2>2, <2>3
<1>2. ASSUME NEW e \in 1 .. L, NEW d \in 1 .. L, NEW k \in 1 .. I, NEW l \in 1 .. I,
             I * (e - 1) + k = I * (d - 1) + l
      PROVE  e = d /\ k = l
  <2>1. ASSUME NEW i \in Int, NEW j \in Int, i < j PROVE I * i + I <= I * j
    BY <1>0, <2>1
  <2>2. I * (e - 1) \in Int /\ I * (d - 1) \in Int
    BY <1>0
  <2>3. ~(e - 1 < d - 1)
    BY <1>2, <2>1, <2>2
  <2>4. ~(d - 1 < e - 1)
    BY <1>2, <2>1, <2>2
  <2>5. e = d
    BY <2>3, <2>4
  <2> QED
    BY <1>2, <2>2, <2>5
<1>3. ASSUME NEW x \in 1 .. I * L PROVE \E e \in 1 .. L, k \in 1 .. I : x = I * (e - 1) + k
  <2> DEFINE y == x - 1
             e == y \div I + 1
             k == (y % I) + 1
  <2>1. I * L \in Int
    BY <1>0
  <2>2. y \in Nat /\ y < I * L
    BY <2>1
  <2>3. y \div I \in Int /\ y % I \in 0 .. I - 1 /\ y = I * (y \div I) + (y % I)
    BY <2>2
  <2>4. PICK d \in Int, r \in 0 .. I - 1 : d = y \div I /\ r = y % I /\ y = I * d + r
    BY <2>3
  <2>5. 0 <= d
    <3>1. CASE d <= -1
      <4>1. I * d <= I * (-1) /\ I * (-1) = -I
        BY <1>0, <3>1
      <4> QED
        BY <1>0, <2>2, <2>4, <4>1
    <3> QED
      BY <3>1
  <2>6. d < L
    <3>1. CASE L <= d
      <4>1. I * L <= I * d
        BY <1>0, <3>1
      <4> QED
        BY <1>0, <2>1, <2>2, <2>4, <4>1
    <3> QED
      BY <3>1
  <2>7. d + 1 \in 1 .. L /\ r + 1 \in 1 .. I /\ (d + 1) - 1 = d
    BY <2>5, <2>6
  <2>8. x = I * ((d + 1) - 1) + (r + 1)
    BY <1>0, <2>1, <2>2, <2>4, <2>7
  <2> QED
    BY <2>7, <2>8
<1> QED
  BY <1>1, <1>2, <1>3 DEF Tiles

\* The counts of the fields of a message.
LEMMA CountsAre ==
    ASSUME NEW p \in Procs, NEW q \in Procs, NEW g \in Groups
    PROVE  /\ CountUpTo(p, q, g, 0) = 0
           /\ \A m \in 0 .. Len(g) : CountUpTo(p, q, g, m) \in Nat
           /\ \A m \in 1 .. Len(g) :
                 CountUpTo(p, q, g, m) = CountUpTo(p, q, g, m - 1)
                                         + Inner[g[m]] * Len(Section(p, q, g[m]))
           /\ \A l, m \in 0 .. Len(g) : l <= m => CountUpTo(p, q, g, l) <= CountUpTo(p, q, g, m)
           /\ \A x \in 1 .. CountUpTo(p, q, g, Len(g)) : \E m \in 1 .. Len(g) :
                 x \in CountUpTo(p, q, g, m - 1) + 1 .. CountUpTo(p, q, g, m)
<1> PICK a : a = [i \in DOMAIN g |-> Inner[g[i]] * Len(Section(p, q, g[i]))]
  OBVIOUS
<1>1. /\ Len(g) \in Nat /\ DOMAIN g = 1 .. Len(g)
      /\ \A i \in DOMAIN g : Inner[g[i]] \in Nat \ {0} /\ Len(Section(p, q, g[i])) \in Nat
  BY SizeFacts, SectionIs
<1>2. \A i, j \in Nat : i * j \in Nat
  BY SMT
<1>3. a \in [1 .. Len(g) -> Nat]
  BY <1>1, <1>2
<1>4. a \in Seq(Nat) /\ Len(a) = Len(g)
  <2>1. a \in Seq(Nat)
    BY <1>1, <1>3, SeqDef
  <2> QED
    BY <1>1, <1>3, <2>1, LenProperties
<1>5. \A m : CountUpTo(p, q, g, m) = Sums(a)[m]
  BY DEF CountUpTo
<1>6. /\ Sums(a) \in [0 .. Len(a) -> Nat] /\ Sums(a)[0] = 0
      /\ \A n \in 1 .. Len(a) : Sums(a)[n] = Sums(a)[n - 1] + a[n]
  BY <1>4, SumsAre
<1>7. \A i, j \in 0 .. Len(a) : i <= j => Sums(a)[i] <= Sums(a)[j]
  BY <1>4, SumsGrow
<1>8. \A x \in 1 .. Sums(a)[Len(a)] : \E n \in 1 .. Len(a) : x \in Sums(a)[n - 1] + 1 .. Sums(a)[n]
  BY <1>4, SumsReach
<1>9. \A m \in 1 .. Len(g) : a[m] = Inner[g[m]] * Len(Section(p, q, g[m]))
  BY <1>1
<1>10. /\ CountUpTo(p, q, g, 0) = 0 /\ \A m \in 0 .. Len(g) : CountUpTo(p, q, g, m) \in Nat
  BY <1>4, <1>5, <1>6
<1>11. \A m \in 1 .. Len(g) :
          CountUpTo(p, q, g, m) = CountUpTo(p, q, g, m - 1) + Inner[g[m]] * Len(Section(p, q, g[m]))
  <2> SUFFICES ASSUME NEW m \in 1 .. Len(g)
               PROVE  CountUpTo(p, q, g, m) = CountUpTo(p, q, g, m - 1)
                                              + Inner[g[m]] * Len(Section(p, q, g[m]))
    OBVIOUS
  <2>1. CountUpTo(p, q, g, m) = CountUpTo(p, q, g, m - 1) + a[m]
    BY <1>4, <1>5, <1>6
  <2> QED
    BY <1>9, <2>1
<1>12. \A l, m \in 0 .. Len(g) : l <= m => CountUpTo(p, q, g, l) <= CountUpTo(p, q, g, m)
  BY <1>4, <1>5, <1>7
<1>13. \A x \in 1 .. CountUpTo(p, q, g, Len(g)) : \E m \in 1 .. Len(g) :
          x \in CountUpTo(p, q, g, m - 1) + 1 .. CountUpTo(p, q, g, m)
  <2> SUFFICES ASSUME NEW x \in 1 .. CountUpTo(p, q, g, Len(g))
               PROVE  \E m \in 1 .. Len(g) :
                         x \in CountUpTo(p, q, g, m - 1) + 1 .. CountUpTo(p, q, g, m)
    OBVIOUS
  <2>1. x \in 1 .. Sums(a)[Len(a)]
    BY <1>4, <1>5
  <2>2. PICK m \in 1 .. Len(a) : x \in Sums(a)[m - 1] + 1 .. Sums(a)[m]
    BY <1>8, <2>1
  <2> QED
    BY <1>4, <1>5, <2>2
<1> QED
  BY <1>10, <1>11, <1>12, <1>13

\* Where the k-th number of the e-th element of the m-th field is in the message.
At(p, q, g, m, e, k) == CountUpTo(p, q, g, m - 1) + Inner[g[m]] * (e - 1) + k

Entries(p, q, g) ==
    {i \in (1 .. Len(g)) \X Nat \X Nat : /\ i[2] \in DOMAIN Section(p, q, g[i[1]])
                                         /\ i[3] \in 1 .. Inner[g[i[1]]]}

\* Every place of a message has one number.
LEMMA MessageTiled ==
    ASSUME NEW p \in Procs, NEW q \in Procs, NEW g \in Groups
    PROVE  /\ \A i \in Entries(p, q, g) :
                 At(p, q, g, i[1], i[2], i[3]) \in 1 .. CountUpTo(p, q, g, Len(g))
           /\ \A i, j \in Entries(p, q, g) :
                 At(p, q, g, i[1], i[2], i[3]) = At(p, q, g, j[1], j[2], j[3]) => i = j
           /\ \A x \in 1 .. CountUpTo(p, q, g, Len(g)) :
                 \E i \in Entries(p, q, g) : x = At(p, q, g, i[1], i[2], i[3])
<1> DEFINE C(m) == CountUpTo(p, q, g, m)
           L(m) == Len(Section(p, q, g[m]))
           I(m) == Inner[g[m]]
           B(i) == I(i[1]) * (i[2] - 1) + i[3]
<1>1. /\ Len(g) \in Nat
      /\ \A m \in 1 .. Len(g) : /\ I(m) \in Nat \ {0} /\ L(m) \in Nat
                                /\ DOMAIN Section(p, q, g[m]) = 1 .. L(m)
  <2>1. Len(g) \in Nat /\ \A m \in 1 .. Len(g) : g[m] \in Fields /\ Inner[g[m]] \in Nat \ {0}
    BY SizeFacts
  <2>2. \A f \in Fields : /\ Len(Section(p, q, f)) \in Nat
                          /\ DOMAIN Section(p, q, f) = 1 .. Len(Section(p, q, f))
    BY SectionIs
  <2> QED
    BY <2>1, <2>2
<1>2. \A i \in Entries(p, q, g) : /\ i[1] \in 1 .. Len(g) /\ i[2] \in 1 .. L(i[1]) /\ i[3] \in 1 .. I(i[1])
                                  /\ i = <<i[1], i[2], i[3]>>
  BY <1>1 DEF Entries
<1>3. \A m \in 1 .. Len(g), e, k \in Nat : e \in 1 .. L(m) /\ k \in 1 .. I(m) => <<m, e, k>> \in Entries(p, q, g)
  BY <1>1 DEF Entries
<1>4. /\ \A m \in 0 .. Len(g) : C(m) \in Nat
      /\ \A m \in 1 .. Len(g) : C(m) = C(m - 1) + I(m) * L(m)
      /\ \A l, m \in 0 .. Len(g) : l <= m => C(l) <= C(m)
      /\ \A x \in 1 .. C(Len(g)) : \E m \in 1 .. Len(g) : x \in C(m - 1) + 1 .. C(m)
  BY CountsAre
<1>5. \A i : At(p, q, g, i[1], i[2], i[3]) = C(i[1] - 1) + I(i[1]) * (i[2] - 1) + i[3]
  BY DEF At
<1> HIDE DEF C, L, I
<1>6. ASSUME NEW m \in 1 .. Len(g)
      PROVE  /\ Tiles(I(m), L(m))
             /\ \A e \in 1 .. L(m) : I(m) * (e - 1) \in Int
             /\ I(m) * L(m) \in Nat
             /\ C(m - 1) \in Nat /\ C(m) \in Nat /\ C(m) = C(m - 1) + I(m) * L(m)
  <2> PICK i0, l0 : i0 = I(m) /\ l0 = L(m)
    OBVIOUS
  <2>1. i0 \in Nat \ {0} /\ l0 \in Nat
    BY <1>1
  <2>2. Tiles(i0, l0)
    BY <2>1, BlocksTile
  <2>3. (\A e \in 1 .. l0 : i0 * (e - 1) \in Int) /\ i0 * l0 \in Nat
    BY <2>1, SMT
  <2>4. C(m - 1) \in Nat /\ C(m) \in Nat
    BY <1>1, <1>4
  <2>5. C(m) = C(m - 1) + i0 * l0
    BY <1>4
  <2> QED
    BY <2>2, <2>3, <2>4, <2>5
<1>7. ASSUME NEW i \in Entries(p, q, g)
      PROVE  /\ At(p, q, g, i[1], i[2], i[3]) = C(i[1] - 1) + B(i)
             /\ B(i) \in Int /\ C(i[1] - 1) \in Nat /\ C(i[1]) \in Nat
             /\ 1 <= B(i) /\ C(i[1] - 1) + B(i) <= C(i[1])
  <2> PICK m, e, k : m = i[1] /\ e = i[2] /\ k = i[3]
    OBVIOUS
  <2>1. m \in 1 .. Len(g) /\ e \in 1 .. L(m) /\ k \in 1 .. I(m)
    BY <1>2
  <2>2. /\ C(m - 1) \in Nat /\ C(m) \in Nat /\ C(m) = C(m - 1) + I(m) * L(m)
        /\ I(m) * (e - 1) + k \in 1 .. I(m) * L(m) /\ I(m) * (e - 1) \in Int /\ I(m) * L(m) \in Nat
    BY <1>6, <2>1 DEF Tiles
  <2>3. k \in Int
    BY <1>1, <2>1
  <2> PICK z, w : z = I(m) * (e - 1) /\ w = I(m) * L(m)
    OBVIOUS
  <2>4. At(p, q, g, i[1], i[2], i[3]) = C(m - 1) + z + k /\ B(i) = z + k
    BY <1>5
  <2> HIDE DEF B
  <2>5. C(m) = C(m - 1) + w /\ z + k \in 1 .. w /\ z \in Int /\ w \in Nat
    BY <2>2
  <2>6. C(m - 1) + z + k = C(m - 1) + (z + k)
    BY <2>2, <2>3, <2>5
  <2> QED
    BY <2>2, <2>3, <2>4, <2>5, <2>6
<1>8. ASSUME NEW i \in Entries(p, q, g) PROVE At(p, q, g, i[1], i[2], i[3]) \in 1 .. C(Len(g))
  <2>1. i[1] \in 0 .. Len(g) /\ Len(g) \in 0 .. Len(g) /\ i[1] <= Len(g)
    BY <1>1, <1>2
  <2>2. C(i[1]) <= C(Len(g)) /\ C(Len(g)) \in Nat
    BY <1>4, <2>1
  <2> HIDE DEF B
  <2> QED
    BY <1>7, <2>2
<1>9. ASSUME NEW i \in Entries(p, q, g), NEW j \in Entries(p, q, g),
             At(p, q, g, i[1], i[2], i[3]) = At(p, q, g, j[1], j[2], j[3])
      PROVE  i = j
  <2>1. ASSUME NEW u \in Entries(p, q, g), NEW v \in Entries(p, q, g), u[1] < v[1]
        PROVE  C(u[1] - 1) + B(u) # C(v[1] - 1) + B(v)
    <3>1. u[1] \in 0 .. Len(g) /\ v[1] - 1 \in 0 .. Len(g) /\ u[1] <= v[1] - 1
      <4> PICK a, b : a = u[1] /\ b = v[1]
        OBVIOUS
      <4>1. a \in 1 .. Len(g) /\ b \in 1 .. Len(g) /\ a < b
        BY <1>2, <2>1
      <4>2. a \in 0 .. Len(g) /\ b - 1 \in 0 .. Len(g) /\ a <= b - 1
        BY <1>1, <4>1
      <4> QED
        BY <4>2
    <3>2. C(u[1]) <= C(v[1] - 1)
      BY <1>4, <3>1
    <3> HIDE DEF B
    <3> QED
      BY <1>7, <3>2
  <2>2. i[1] = j[1]
    <3>1. ~(i[1] < j[1]) /\ ~(j[1] < i[1])
      BY <1>7, <1>9, <2>1
    <3> QED
      BY <1>1, <1>2, <3>1
  <2>3. B(i) = B(j)
    <3> HIDE DEF B
    <3> QED
      BY <1>7, <1>9, <2>2
  <2> PICK m : m = i[1]
    OBVIOUS
  <2>4. I(m) * (i[2] - 1) + i[3] = I(m) * (j[2] - 1) + j[3]
    BY <2>2, <2>3
  <2>5. /\ m \in 1 .. Len(g) /\ i[2] \in 1 .. L(m) /\ j[2] \in 1 .. L(m)
        /\ i[3] \in 1 .. I(m) /\ j[3] \in 1 .. I(m)
    BY <1>2, <2>2
  <2>6. i[2] = j[2] /\ i[3] = j[3]
    <3> PICK i0, l0, e, d, k, l : /\ i0 = I(m) /\ l0 = L(m) /\ e = i[2] /\ d = j[2]
                                  /\ k = i[3] /\ l = j[3]
      OBVIOUS
    <3>1. Tiles(i0, l0) /\ e \in 1 .. l0 /\ d \in 1 .. l0 /\ k \in 1 .. i0 /\ l \in 1 .. i0
          /\ i0 * (e - 1) + k = i0 * (d - 1) + l
      BY <1>6, <2>4, <2>5
    <3>2. e = d /\ k = l
      BY <3>1 DEF Tiles
    <3> QED
      BY <3>2
  <2> QED
    BY <1>2, <2>2, <2>6
<1>10. ASSUME NEW x \in 1 .. C(Len(g))
       PROVE  \E i \in Entries(p, q, g) : x = At(p, q, g, i[1], i[2], i[3])
  <2>1. PICK m \in 1 .. Len(g) : x \in C(m - 1) + 1 .. C(m)
    BY <1>4
  <2> PICK w : w = I(m) * L(m)
    OBVIOUS
  <2>2. C(m - 1) \in Nat /\ C(m) \in Nat /\ C(m) = C(m - 1) + w /\ w \in Nat
    BY <1>6
  <2>3. x - C(m - 1) \in 1 .. w
    BY <2>1, <2>2
  <2>4. PICK e \in 1 .. L(m), k \in 1 .. I(m) : x - C(m - 1) = I(m) * (e - 1) + k
    BY <1>6, <2>3 DEF Tiles
  <2>5. e \in Nat /\ k \in Nat /\ <<m, e, k>> \in Entries(p, q, g)
    BY <1>1, <1>3
  <2> PICK z : z = I(m) * (e - 1)
    OBVIOUS
  <2>6. x = C(m - 1) + z + k
    <3>1. z \in Int /\ x - C(m - 1) = z + k
      BY <1>6, <2>4
    <3>2. PICK c : c = C(m - 1)
      OBVIOUS
    <3>3. c \in Nat /\ x \in Int /\ k \in Nat /\ z \in Int /\ x - c = z + k
      BY <2>1, <2>2, <2>5, <3>1, <3>2
    <3>4. x = c + z + k
      BY <3>3
    <3> QED
      BY <3>2, <3>4
  <2>7. x = At(p, q, g, m, e, k)
    BY <2>6 DEF At, C, I
  <2> QED
    BY <2>5, <2>7
<1> QED
  BY <1>8, <1>9, <1>10 DEF C
-----------------------------------------------------------------------------
(* Buffers *)

\* Ranges as long as the members of a sequence, one after the other, do not overlap.
LEMMA RangesStack ==
    ASSUME NEW b \in Seq(Nat)
    PROVE  /\ Sums(b)[Len(b)] \in Nat
           /\ \A j \in 1 .. Len(b) : /\ b[j] \in Nat /\ Sums(b)[j - 1] \in Nat
                                     /\ Sums(b)[j - 1] + b[j] <= Sums(b)[Len(b)]
           /\ \A i, j \in 1 .. Len(b) : i # j =>
                 \/ Sums(b)[i - 1] + b[i] <= Sums(b)[j - 1]
                 \/ Sums(b)[j - 1] + b[j] <= Sums(b)[i - 1]
<1> PICK s : s = Sums(b)
  OBVIOUS
<1>1. /\ s \in [0 .. Len(b) -> Nat] /\ Len(b) \in Nat
      /\ \A n \in 1 .. Len(b) : s[n] = s[n - 1] + b[n] /\ b[n] \in Nat
  BY SumsAre, ElementOfSeq, LenProperties
<1>2. \A i, j \in 0 .. Len(b) : i <= j => s[i] <= s[j]
  BY SumsGrow
<1>3. \A j \in 1 .. Len(b) : j - 1 \in 0 .. Len(b) /\ j \in 0 .. Len(b)
  BY <1>1
<1>4. \A j \in 1 .. Len(b) : s[j - 1] \in Nat /\ s[j - 1] + b[j] <= s[Len(b)]
  BY <1>1, <1>2, <1>3
<1>5. ASSUME NEW i \in 1 .. Len(b), NEW j \in 1 .. Len(b), i < j PROVE s[i - 1] + b[i] <= s[j - 1]
  <2>1. i \in 0 .. Len(b) /\ j - 1 \in 0 .. Len(b) /\ i <= j - 1
    BY <1>1, <1>5
  <2> QED
    BY <1>1, <1>2, <2>1
<1>6. \A i, j \in 1 .. Len(b) : i # j => i < j \/ j < i
  BY <1>1
<1> QED
  BY <1>1, <1>4, <1>5, <1>6

\* The slices of the messages p sends lie apart in its send buffer,
LEMMA SendBufferStacks ==
    ASSUME NEW p \in Procs, NEW g \in Groups, NEW to, to = groupSendNeighbors(p, g)
    PROVE  /\ groupSendBufSize(p, g) \in Nat
           /\ \A j \in DOMAIN to : /\ groupSendCount(p, to[j], g) \in Nat /\ SendBefore(p, g, j) \in Nat
                                   /\ SendBefore(p, g, j) + groupSendCount(p, to[j], g)
                                         <= groupSendBufSize(p, g)
           /\ \A i, j \in DOMAIN to : i # j =>
                 \/ SendBefore(p, g, i) + groupSendCount(p, to[i], g) <= SendBefore(p, g, j)
                 \/ SendBefore(p, g, j) + groupSendCount(p, to[j], g) <= SendBefore(p, g, i)
<1> PICK b : b = [i \in DOMAIN to |-> groupSendCount(p, to[i], g)]
  OBVIOUS
<1>1. Enumerates(to, To(p, g))
  BY SendNeighborsAre
<1>2. PICK N \in Nat : DOMAIN to = 1 .. N
  BY <1>1 DEF Enumerates
<1>3. \A j \in DOMAIN to : to[j] \in Procs
  BY <1>1 DEF Enumerates, To
<1>4. \A j \in DOMAIN to : groupSendCount(p, to[j], g) \in Nat /\ b[j] = groupSendCount(p, to[j], g)
  <2>1. Len(g) \in 0 .. Len(g)
    BY SizeFacts
  <2> QED
    BY <1>3, <2>1, CountsAre DEF groupSendCount
<1>5. b \in Seq(Nat) /\ Len(b) = N
  <2>1. b \in [1 .. N -> Nat]
    BY <1>2, <1>4
  <2>2. b \in Seq(Nat)
    BY <2>1, SeqDef
  <2> QED
    BY <2>1, <2>2, LenProperties
<1>6. Len(to) = N /\ (N + 1) - 1 = N
  BY <1>2
<1>7. \A j : SendBefore(p, g, j) = Sums(b)[j - 1]
  BY DEF SendBefore
<1>8. groupSendBufSize(p, g) = Sums(b)[N]
  BY <1>6, <1>7 DEF groupSendBufSize
<1>9. /\ Sums(b)[N] \in Nat
      /\ \A j \in 1 .. N : /\ b[j] \in Nat /\ Sums(b)[j - 1] \in Nat
                           /\ Sums(b)[j - 1] + b[j] <= Sums(b)[N]
      /\ \A i, j \in 1 .. N : i # j => \/ Sums(b)[i - 1] + b[i] <= Sums(b)[j - 1]
                                       \/ Sums(b)[j - 1] + b[j] <= Sums(b)[i - 1]
  BY <1>5, RangesStack
<1>10. \A j \in 1 .. N : SendBefore(p, g, j) = Sums(b)[j - 1] /\ groupSendCount(p, to[j], g) = b[j]
  BY <1>2, <1>4, <1>7
<1> HIDE DEF groupSendCount, SendBefore
<1>11. \A j \in DOMAIN to : /\ groupSendCount(p, to[j], g) \in Nat /\ SendBefore(p, g, j) \in Nat
                           /\ SendBefore(p, g, j) + groupSendCount(p, to[j], g) <= Sums(b)[N]
  <2> SUFFICES ASSUME NEW j \in 1 .. N
               PROVE  /\ groupSendCount(p, to[j], g) \in Nat /\ SendBefore(p, g, j) \in Nat
                      /\ SendBefore(p, g, j) + groupSendCount(p, to[j], g) <= Sums(b)[N]
    BY <1>2
  <2>1. /\ SendBefore(p, g, j) = Sums(b)[j - 1] /\ groupSendCount(p, to[j], g) = b[j]
        /\ b[j] \in Nat /\ Sums(b)[j - 1] \in Nat /\ Sums(b)[j - 1] + b[j] <= Sums(b)[N]
    BY <1>9, <1>10
  <2> QED
    BY <2>1
<1>12. \A i, j \in DOMAIN to : i # j =>
          \/ SendBefore(p, g, i) + groupSendCount(p, to[i], g) <= SendBefore(p, g, j)
          \/ SendBefore(p, g, j) + groupSendCount(p, to[j], g) <= SendBefore(p, g, i)
  <2> SUFFICES ASSUME NEW i \in 1 .. N, NEW j \in 1 .. N, i # j
               PROVE  \/ SendBefore(p, g, i) + groupSendCount(p, to[i], g) <= SendBefore(p, g, j)
                      \/ SendBefore(p, g, j) + groupSendCount(p, to[j], g) <= SendBefore(p, g, i)
    BY <1>2
  <2>1. /\ SendBefore(p, g, i) = Sums(b)[i - 1] /\ groupSendCount(p, to[i], g) = b[i]
        /\ SendBefore(p, g, j) = Sums(b)[j - 1] /\ groupSendCount(p, to[j], g) = b[j]
    BY <1>10
  <2>2. Sums(b)[i - 1] + b[i] <= Sums(b)[j - 1] \/ Sums(b)[j - 1] + b[j] <= Sums(b)[i - 1]
    BY <1>9
  <2> QED
    BY <2>1, <2>2
<1> QED
  BY <1>8, <1>9, <1>11, <1>12

\* and those of the messages it receives in its receive buffer.
LEMMA RecvBufferStacks ==
    ASSUME NEW p \in Procs, NEW g \in Groups, NEW from, from = groupRecvNeighbors(p, g)
    PROVE  /\ groupRecvBufSize(p, g) \in Nat
           /\ \A j \in DOMAIN from : /\ groupRecvCount(p, from[j], g) \in Nat /\ RecvBefore(p, g, j) \in Nat
                                     /\ RecvBefore(p, g, j) + groupRecvCount(p, from[j], g)
                                           <= groupRecvBufSize(p, g)
           /\ \A i, j \in DOMAIN from : i # j =>
                 \/ RecvBefore(p, g, i) + groupRecvCount(p, from[i], g) <= RecvBefore(p, g, j)
                 \/ RecvBefore(p, g, j) + groupRecvCount(p, from[j], g) <= RecvBefore(p, g, i)
<1> PICK b : b = [i \in DOMAIN from |-> groupRecvCount(p, from[i], g)]
  OBVIOUS
<1>1. Enumerates(from, From(p, g))
  BY RecvNeighborsAre
<1>2. PICK N \in Nat : DOMAIN from = 1 .. N
  BY <1>1 DEF Enumerates
<1>3. \A j \in DOMAIN from : from[j] \in Procs
  BY <1>1 DEF Enumerates, From
<1>4. \A j \in DOMAIN from : groupRecvCount(p, from[j], g) \in Nat /\ b[j] = groupRecvCount(p, from[j], g)
  <2>1. Len(g) \in 0 .. Len(g)
    BY SizeFacts
  <2> QED
    BY <1>3, <2>1, CountsAre DEF groupRecvCount
<1>5. b \in Seq(Nat) /\ Len(b) = N
  <2>1. b \in [1 .. N -> Nat]
    BY <1>2, <1>4
  <2>2. b \in Seq(Nat)
    BY <2>1, SeqDef
  <2> QED
    BY <2>1, <2>2, LenProperties
<1>6. Len(from) = N /\ (N + 1) - 1 = N
  BY <1>2
<1>7. \A j : RecvBefore(p, g, j) = Sums(b)[j - 1]
  BY DEF RecvBefore
<1>8. groupRecvBufSize(p, g) = Sums(b)[N]
  BY <1>6, <1>7 DEF groupRecvBufSize
<1>9. /\ Sums(b)[N] \in Nat
      /\ \A j \in 1 .. N : /\ b[j] \in Nat /\ Sums(b)[j - 1] \in Nat
                           /\ Sums(b)[j - 1] + b[j] <= Sums(b)[N]
      /\ \A i, j \in 1 .. N : i # j => \/ Sums(b)[i - 1] + b[i] <= Sums(b)[j - 1]
                                       \/ Sums(b)[j - 1] + b[j] <= Sums(b)[i - 1]
  BY <1>5, RangesStack
<1>10. \A j \in 1 .. N : RecvBefore(p, g, j) = Sums(b)[j - 1] /\ groupRecvCount(p, from[j], g) = b[j]
  BY <1>2, <1>4, <1>7
<1> HIDE DEF groupRecvCount, RecvBefore
<1>11. \A j \in DOMAIN from : /\ groupRecvCount(p, from[j], g) \in Nat /\ RecvBefore(p, g, j) \in Nat
                           /\ RecvBefore(p, g, j) + groupRecvCount(p, from[j], g) <= Sums(b)[N]
  <2> SUFFICES ASSUME NEW j \in 1 .. N
               PROVE  /\ groupRecvCount(p, from[j], g) \in Nat /\ RecvBefore(p, g, j) \in Nat
                      /\ RecvBefore(p, g, j) + groupRecvCount(p, from[j], g) <= Sums(b)[N]
    BY <1>2
  <2>1. /\ RecvBefore(p, g, j) = Sums(b)[j - 1] /\ groupRecvCount(p, from[j], g) = b[j]
        /\ b[j] \in Nat /\ Sums(b)[j - 1] \in Nat /\ Sums(b)[j - 1] + b[j] <= Sums(b)[N]
    BY <1>9, <1>10
  <2> QED
    BY <2>1
<1>12. \A i, j \in DOMAIN from : i # j =>
          \/ RecvBefore(p, g, i) + groupRecvCount(p, from[i], g) <= RecvBefore(p, g, j)
          \/ RecvBefore(p, g, j) + groupRecvCount(p, from[j], g) <= RecvBefore(p, g, i)
  <2> SUFFICES ASSUME NEW i \in 1 .. N, NEW j \in 1 .. N, i # j
               PROVE  \/ RecvBefore(p, g, i) + groupRecvCount(p, from[i], g) <= RecvBefore(p, g, j)
                      \/ RecvBefore(p, g, j) + groupRecvCount(p, from[j], g) <= RecvBefore(p, g, i)
    BY <1>2
  <2>1. /\ RecvBefore(p, g, i) = Sums(b)[i - 1] /\ groupRecvCount(p, from[i], g) = b[i]
        /\ RecvBefore(p, g, j) = Sums(b)[j - 1] /\ groupRecvCount(p, from[j], g) = b[j]
    BY <1>10
  <2>2. Sums(b)[i - 1] + b[i] <= Sums(b)[j - 1] \/ Sums(b)[j - 1] + b[j] <= Sums(b)[i - 1]
    BY <1>9
  <2> QED
    BY <2>1, <2>2
<1> QED
  BY <1>8, <1>9, <1>11, <1>12

\* What the layouts of a group are.
LEMMA LayoutIs ==
    ASSUME NEW p \in Procs, NEW g \in Groups
    PROVE  /\ Sends(p, g) = SendSlices(p, g) /\ Receives(p, g) = RecvSlices(p, g)
           /\ Packed(p, g) = PackSlots(p, g)
           /\ Unpacked(p, g) = [q \in Range(groupRecvNeighbors(p, g)) |-> UnpackSlots(p, g, q)]
<1> DEFINE U(a, b) == [q \in Range(groupRecvNeighbors(a, b)) |-> UnpackSlots(a, b, q)]
           R(a, b) == [sends |-> SendSlices(a, b), receives |-> RecvSlices(a, b),
                       packed |-> PackSlots(a, b), unpacked |-> U(a, b)]
<1>1. Layout = [a \in Procs |-> [b \in Groups |-> R(a, b)]]
  BY DEF Layout
<1> HIDE DEF R
<1>2. Layout[p][g] = R(p, g)
  BY <1>1
<1> HIDE DEF U
<1>3. /\ R(p, g).sends = SendSlices(p, g) /\ R(p, g).receives = RecvSlices(p, g)
      /\ R(p, g).packed = PackSlots(p, g) /\ R(p, g).unpacked = U(p, g)
  BY DEF R
<1> USE DEF U
<1> QED
  BY <1>2, <1>3 DEF Sends, Receives, Packed, Unpacked

\* The slices are as they are to be, and those of a sender and its receiver agree.
LEMMA SlicesAgree == SlicesFit /\ PeersMatch
<1>1. ASSUME NEW p \in Procs, NEW g \in Groups
      PROVE  /\ groupSendBufSize(p, g) \in Nat
             /\ \A s \in Sends(p, g) : s \in Slices(p, g, groupSendBufSize(p, g))
             /\ \A s, t \in Sends(p, g) : s # t => s.peer # t.peer
             /\ \A q : (\E s \in Sends(p, g) : s.peer = q) <=> q \in To(p, g)
             /\ \A s \in Sends(p, g) : s.count = CountUpTo(p, s.peer, g, Len(g))
  <2> PICK to : to = groupSendNeighbors(p, g)
    OBVIOUS
  <2> PICK size : size = groupSendBufSize(p, g)
    OBVIOUS
  <2>1. /\ \A j \in DOMAIN to : to[j] \in To(p, g)
        /\ \A q \in To(p, g) : \E j \in DOMAIN to : to[j] = q
        /\ \A i, j \in DOMAIN to : to[i] = to[j] => i = j
    BY SendNeighborsAre DEF Enumerates
  <2>2. /\ size \in Nat
        /\ \A j \in DOMAIN to : /\ groupSendCount(p, to[j], g) \in Nat /\ SendBefore(p, g, j) \in Nat
                                /\ SendBefore(p, g, j) + groupSendCount(p, to[j], g) <= size
    BY SendBufferStacks
  <2>3. Sends(p, g) = {[peer |-> to[j], group |-> g, before |-> SendBefore(p, g, j),
                        count |-> groupSendCount(p, to[j], g)] : j \in DOMAIN to}
    <3>1. Sends(p, g) = SendSlices(p, g)
      BY LayoutIs
    <3> QED
      BY <3>1 DEF SendSlices
  <2>4. ASSUME NEW s \in Sends(p, g)
        PROVE  s \in Slices(p, g, size) /\ s.peer \in To(p, g)
               /\ s.count = CountUpTo(p, s.peer, g, Len(g))
    <3>1. PICK j \in DOMAIN to :
             s = [peer |-> to[j], group |-> g, before |-> SendBefore(p, g, j),
                  count |-> groupSendCount(p, to[j], g)]
      BY <2>3
    <3>2. to[j] \in Procs \ {p}
      BY <2>1 DEF To
    <3> PICK b, c : b = SendBefore(p, g, j) /\ c = groupSendCount(p, to[j], g)
      OBVIOUS
    <3>3. b \in 0 .. size /\ c \in 0 .. size /\ b + c <= size
      BY <2>2
    <3>4. s \in Slices(p, g, size)
      BY <3>1, <3>2, <3>3 DEF Slices
    <3> QED
      BY <2>1, <3>1, <3>4 DEF groupSendCount
  <2>5. ASSUME NEW s \in Sends(p, g), NEW t \in Sends(p, g), s.peer = t.peer PROVE s = t
    <3>1. PICK i \in DOMAIN to :
             s = [peer |-> to[i], group |-> g, before |-> SendBefore(p, g, i),
                  count |-> groupSendCount(p, to[i], g)]
      BY <2>3
    <3>2. PICK j \in DOMAIN to :
             t = [peer |-> to[j], group |-> g, before |-> SendBefore(p, g, j),
                  count |-> groupSendCount(p, to[j], g)]
      BY <2>3
    <3>3. i = j
      BY <2>1, <2>5, <3>1, <3>2
    <3> QED
      BY <3>1, <3>2, <3>3
  <2>6. ASSUME NEW q \in To(p, g) PROVE \E s \in Sends(p, g) : s.peer = q
    <3>1. PICK j \in DOMAIN to : to[j] = q
      BY <2>1
    <3> DEFINE s == [peer |-> to[j], group |-> g, before |-> SendBefore(p, g, j),
                     count |-> groupSendCount(p, to[j], g)]
    <3>2. s \in Sends(p, g) /\ s.peer = q
      BY <2>3, <3>1
    <3> QED
      BY <3>2
  <2> QED
    BY <2>2, <2>4, <2>5, <2>6
<1>2. ASSUME NEW p \in Procs, NEW g \in Groups
      PROVE  /\ groupRecvBufSize(p, g) \in Nat
             /\ \A r \in Receives(p, g) : r \in Slices(p, g, groupRecvBufSize(p, g))
             /\ \A r, s \in Receives(p, g) :
                   r # s => /\ r.peer # s.peer
                            /\ r.before + r.count <= s.before \/ s.before + s.count <= r.before
             /\ \A q : (\E r \in Receives(p, g) : r.peer = q) <=> q \in From(p, g)
             /\ \A r \in Receives(p, g) : r.count = CountUpTo(r.peer, p, g, Len(g))
  <2> PICK from : from = groupRecvNeighbors(p, g)
    OBVIOUS
  <2> PICK size : size = groupRecvBufSize(p, g)
    OBVIOUS
  <2>1. /\ \A j \in DOMAIN from : from[j] \in From(p, g)
        /\ \A q \in From(p, g) : \E j \in DOMAIN from : from[j] = q
        /\ \A i, j \in DOMAIN from : from[i] = from[j] => i = j
    BY RecvNeighborsAre DEF Enumerates
  <2>2. /\ size \in Nat
        /\ \A j \in DOMAIN from : /\ groupRecvCount(p, from[j], g) \in Nat /\ RecvBefore(p, g, j) \in Nat
                                  /\ RecvBefore(p, g, j) + groupRecvCount(p, from[j], g) <= size
        /\ \A i, j \in DOMAIN from : i # j =>
              \/ RecvBefore(p, g, i) + groupRecvCount(p, from[i], g) <= RecvBefore(p, g, j)
              \/ RecvBefore(p, g, j) + groupRecvCount(p, from[j], g) <= RecvBefore(p, g, i)
    BY RecvBufferStacks
  <2>3. Receives(p, g) = {[peer |-> from[j], group |-> g, before |-> RecvBefore(p, g, j),
                           count |-> groupRecvCount(p, from[j], g)] : j \in DOMAIN from}
    <3>1. Receives(p, g) = RecvSlices(p, g)
      BY LayoutIs
    <3> QED
      BY <3>1 DEF RecvSlices
  <2>4. ASSUME NEW s \in Receives(p, g)
        PROVE  s \in Slices(p, g, size) /\ s.peer \in From(p, g)
               /\ s.count = CountUpTo(s.peer, p, g, Len(g))
    <3>1. PICK j \in DOMAIN from :
             s = [peer |-> from[j], group |-> g, before |-> RecvBefore(p, g, j),
                  count |-> groupRecvCount(p, from[j], g)]
      BY <2>3
    <3>2. from[j] \in Procs \ {p}
      BY <2>1 DEF From
    <3> PICK b, c : b = RecvBefore(p, g, j) /\ c = groupRecvCount(p, from[j], g)
      OBVIOUS
    <3>3. b \in 0 .. size /\ c \in 0 .. size /\ b + c <= size
      BY <2>2
    <3>4. s \in Slices(p, g, size)
      BY <3>1, <3>2, <3>3 DEF Slices
    <3> QED
      BY <2>1, <3>1, <3>4 DEF groupRecvCount
  <2>5. ASSUME NEW r \in Receives(p, g), NEW s \in Receives(p, g), r # s
        PROVE  /\ r.peer # s.peer
               /\ r.before + r.count <= s.before \/ s.before + s.count <= r.before
    <3>1. PICK i \in DOMAIN from :
             r = [peer |-> from[i], group |-> g, before |-> RecvBefore(p, g, i),
                  count |-> groupRecvCount(p, from[i], g)]
      BY <2>3
    <3>2. PICK j \in DOMAIN from :
             s = [peer |-> from[j], group |-> g, before |-> RecvBefore(p, g, j),
                  count |-> groupRecvCount(p, from[j], g)]
      BY <2>3
    <3>3. i # j
      BY <2>5, <3>1, <3>2
    <3>4. from[i] # from[j]
      BY <2>1, <3>3
    <3> QED
      BY <2>2, <3>1, <3>2, <3>3, <3>4
  <2>6. ASSUME NEW q \in From(p, g) PROVE \E r \in Receives(p, g) : r.peer = q
    <3>1. PICK j \in DOMAIN from : from[j] = q
      BY <2>1
    <3> DEFINE r == [peer |-> from[j], group |-> g, before |-> RecvBefore(p, g, j),
                     count |-> groupRecvCount(p, from[j], g)]
    <3>2. r \in Receives(p, g) /\ r.peer = q
      BY <2>3, <3>1
    <3> QED
      BY <3>2
  <2> QED
    BY <2>2, <2>4, <2>5, <2>6
<1>3. SlicesFit
  BY <1>1, <1>2 DEF SlicesFit
<1>4. \A p, q \in Procs, g \in Groups : q \in To(p, g) <=> p \in From(q, g)
  BY DEF To, From
<1>5. ASSUME NEW p \in Procs, NEW q \in Procs, NEW g \in Groups
      PROVE  /\ \A s \in Sends(p, g) :
                   s.peer = q => \E r \in Receives(q, g) : r.peer = p /\ r.count = s.count
             /\ \A r \in Receives(q, g) : r.peer = p => \E s \in Sends(p, g) : s.peer = q
  <2>1. ASSUME NEW s \in Sends(p, g), s.peer = q
        PROVE  \E r \in Receives(q, g) : r.peer = p /\ r.count = s.count
    <3>1. p \in From(q, g)
      BY <1>1, <1>4, <2>1
    <3>2. PICK r \in Receives(q, g) : r.peer = p
      BY <1>2, <3>1
    <3> QED
      BY <1>1, <1>2, <2>1, <3>2
  <2>2. ASSUME NEW r \in Receives(q, g), r.peer = p PROVE \E s \in Sends(p, g) : s.peer = q
    BY <1>1, <1>2, <1>4, <2>2
  <2> QED
    BY <2>1, <2>2
<1> QED
  BY <1>3, <1>5 DEF PeersMatch

-----------------------------------------------------------------------------
(* What is packed and unpacked *)

\* The k-th number of the e-th element of the m-th field of a message from p to q, in a
\* buffer where the message starts behind place b.
Slot(p, q, g, b, m, e, k) ==
    [at |-> b + At(p, q, g, m, e, k), number |-> <<g[m], Section(p, q, g[m])[e][2], k>>]

\* What the loop over one field packs or unpacks.
LEMMA SlotsAre ==
    ASSUME NEW p \in Procs, NEW q \in Procs, NEW g \in Groups, NEW m \in DOMAIN g, NEW b \in Nat,
           NEW t
    PROVE  t \in Slots(Section(p, q, g[m]), g[m], CountUpTo(p, q, g, m - 1) + b)
              <=> \E e \in DOMAIN Section(p, q, g[m]), k \in 1 .. Inner[g[m]] :
                     t = Slot(p, q, g, b, m, e, k)
<1> PICK s, f, c : s = Section(p, q, g[m]) /\ f = g[m] /\ c = CountUpTo(p, q, g, m - 1)
  OBVIOUS
<1>1. c \in Nat
  <2>1. m - 1 \in 0 .. Len(g)
    BY SizeFacts
  <2> QED
    BY <2>1, CountsAre
<1>2. Inner[f] \in Nat \ {0} /\ DOMAIN s \subseteq Int
  BY SizeFacts, SectionIs
<1>3. ASSUME NEW e \in DOMAIN s, NEW k \in 1 .. Inner[f]
      PROVE  c + b + Inner[f] * (e - 1) + k = b + (c + Inner[f] * (e - 1) + k)
  <2> PICK w : w = Inner[f] * (e - 1)
    OBVIOUS
  <2>1. w \in Int
    BY <1>2, SMT
  <2>2. c + b + w + k = b + (c + w + k)
    BY <1>1, <1>2, <2>1
  <2> QED
    BY <2>2
<1>4. ASSUME NEW e \in DOMAIN s, NEW k \in 1 .. Inner[f]
      PROVE  [at |-> c + b + Inner[f] * (e - 1) + k, number |-> <<f, s[e][2], k>>]
                = Slot(p, q, g, b, m, e, k)
  BY <1>3 DEF Slot, At
<1>5. Slots(s, f, c + b) =
         {[at |-> c + b + Inner[f] * (e - 1) + k, number |-> <<f, s[e][2], k>>] :
            e \in DOMAIN s, k \in 1 .. Inner[f]}
  BY DEF Slots
<1>6. t \in Slots(s, f, c + b)
         <=> \E e \in DOMAIN s, k \in 1 .. Inner[f] :
                t = [at |-> c + b + Inner[f] * (e - 1) + k, number |-> <<f, s[e][2], k>>]
  BY <1>5
<1> QED
  BY <1>4, <1>6

\* It is a number of the sender, and has its place in the message.
SlotFits(p, q, g, b, m, e, k) ==
    /\ Slot(p, q, g, b, m, e, k).number \in Brought(q, g, p)
    /\ Slot(p, q, g, b, m, e, k).number[2] \in Owned[p]
    /\ At(p, q, g, m, e, k) \in 1 .. CountUpTo(p, q, g, Len(g))
    /\ Slot(p, q, g, b, m, e, k).at = b + At(p, q, g, m, e, k)
    /\ <<m, e, k>> \in Entries(p, q, g)

\* They are among what its neighbour is to have.
LEMMA SlotFacts ==
    ASSUME NEW p \in Procs, NEW q \in Procs, NEW g \in Groups, NEW b \in Nat,
           NEW m \in DOMAIN g, NEW e \in DOMAIN Section(p, q, g[m]), NEW k \in 1 .. Inner[g[m]]
    PROVE  SlotFits(p, q, g, b, m, e, k)
<1> PICK x, f : x = Section(p, q, g[m])[e] /\ f = g[m]
  OBVIOUS
<1>1. f \in Fields /\ x \in Lists(p, q, f)
  BY SizeFacts, SectionIs
<1>2. x[1] \in Layers[f] /\ x[2] \in Owned[p] /\ x[2] \in Halo[q][x[1]]
  BY <1>1 DEF Lists
<1>3. Slot(p, q, g, b, m, e, k).number = <<f, x[2], k>>
      /\ Slot(p, q, g, b, m, e, k).at = b + At(p, q, g, m, e, k)
  BY DEF Slot
<1>4. <<f, x[2], k>> \in {f} \X Elements \X (1 .. Inner[f])
  BY <1>2 DEF Elements
<1>5. <<f, x[2], k>> \in Numbers
  BY <1>1, <1>4 DEF Numbers
<1>6. <<f, x[2], k>> \in Brought(q, g, p)
  BY <1>2, <1>5 DEF Brought, Range
<1>7. <<m, e, k>> \in Entries(p, q, g)
  <2>1. m \in 1 .. Len(g) /\ g[m] \in Fields
    BY SizeFacts
  <2>2. e \in Nat
    BY <2>1, SectionIs
  <2>3. k \in Nat
    BY <2>1, SizeFacts
  <2> QED
    BY <2>1, <2>2, <2>3 DEF Entries
<1>8. At(p, q, g, m, e, k) \in 1 .. CountUpTo(p, q, g, Len(g))
  <2>1. <<m, e, k>>[1] = m /\ <<m, e, k>>[2] = e /\ <<m, e, k>>[3] = k
    OBVIOUS
  <2>2. At(p, q, g, <<m, e, k>>[1], <<m, e, k>>[2], <<m, e, k>>[3]) \in 1 .. CountUpTo(p, q, g, Len(g))
    BY <1>7, MessageTiled
  <2> QED
    BY <2>1, <2>2
<1> QED
  BY <1>2, <1>3, <1>6, <1>7, <1>8 DEF SlotFits

\* All its neighbour is to have is among them.
LEMMA BroughtAreSlots ==
    ASSUME NEW p \in Procs, NEW q \in Procs, NEW g \in Groups, NEW b \in Nat,
           NEW n \in Brought(q, g, p)
    PROVE  \E m \in DOMAIN g : \E e \in DOMAIN Section(p, q, g[m]), k \in 1 .. Inner[g[m]] :
              n = Slot(p, q, g, b, m, e, k).number
<1>1. /\ n \in Numbers /\ n[1] \in Range(g) /\ n[2] \in Owned[p]
      /\ \E h \in Layers[n[1]] : n[2] \in Halo[q][h]
  BY DEF Brought
<1>2. PICK f \in Fields : n \in {f} \X Elements \X (1 .. Inner[f])
  BY <1>1 DEF Numbers
<1>3. n[1] = f /\ n[3] \in 1 .. Inner[f] /\ n = <<n[1], n[2], n[3]>>
  BY <1>2
<1>4. PICK m \in DOMAIN g : g[m] = n[1]
  BY <1>1 DEF Range
<1>5. PICK h \in Layers[f] : n[2] \in Halo[q][h]
  BY <1>1, <1>3
<1>6. <<h, n[2]>> \in Lists(p, q, f)
  BY <1>1, <1>5 DEF Lists
<1>7. PICK e \in DOMAIN Section(p, q, f) : Section(p, q, f)[e] = <<h, n[2]>>
  BY <1>6, SectionIs
<1>8. e \in DOMAIN Section(p, q, g[m]) /\ n[3] \in 1 .. Inner[g[m]]
  BY <1>3, <1>4, <1>7
<1>9. n = Slot(p, q, g, b, m, e, n[3]).number
  <2>1. Section(p, q, g[m])[e][2] = n[2] /\ g[m] = n[1]
    BY <1>3, <1>4, <1>7
  <2>2. Slot(p, q, g, b, m, e, n[3]).number = <<g[m], Section(p, q, g[m])[e][2], n[3]>>
    BY DEF Slot
  <2> QED
    BY <1>3, <2>1, <2>2
<1> QED
  BY <1>8, <1>9

\* A number of a message has a place of its own in it, and every place one.
LEMMA EntryPlaces ==
    ASSUME NEW p \in Procs, NEW q \in Procs, NEW g \in Groups
    PROVE  /\ \A m, n \in DOMAIN g :
                 \A e \in DOMAIN Section(p, q, g[m]), k \in 1 .. Inner[g[m]],
                    d \in DOMAIN Section(p, q, g[n]), l \in 1 .. Inner[g[n]] :
                    At(p, q, g, m, e, k) = At(p, q, g, n, d, l) => m = n /\ e = d /\ k = l
           /\ \A x \in 1 .. CountUpTo(p, q, g, Len(g)) :
                 \E m \in DOMAIN g : \E e \in DOMAIN Section(p, q, g[m]), k \in 1 .. Inner[g[m]] :
                    x = At(p, q, g, m, e, k)
<1>1. ASSUME NEW m \in DOMAIN g, NEW n \in DOMAIN g,
             NEW e \in DOMAIN Section(p, q, g[m]), NEW k \in 1 .. Inner[g[m]],
             NEW d \in DOMAIN Section(p, q, g[n]), NEW l \in 1 .. Inner[g[n]],
             At(p, q, g, m, e, k) = At(p, q, g, n, d, l)
      PROVE  m = n /\ e = d /\ k = l
  <2>1. <<m, e, k>> \in Entries(p, q, g) /\ <<n, d, l>> \in Entries(p, q, g)
    <3>1. SlotFits(p, q, g, 0, m, e, k) /\ SlotFits(p, q, g, 0, n, d, l)
      BY SlotFacts
    <3> QED
      BY <3>1 DEF SlotFits
  <2> PICK i, j : i = <<m, e, k>> /\ j = <<n, d, l>>
    OBVIOUS
  <2>2. At(p, q, g, i[1], i[2], i[3]) = At(p, q, g, j[1], j[2], j[3])
    BY <1>1
  <2>3. i = j
    BY <2>1, <2>2, MessageTiled
  <2> QED
    BY <2>3
<1>2. ASSUME NEW x \in 1 .. CountUpTo(p, q, g, Len(g))
      PROVE  \E m \in DOMAIN g : \E e \in DOMAIN Section(p, q, g[m]), k \in 1 .. Inner[g[m]] :
                x = At(p, q, g, m, e, k)
  <2>1. PICK i \in Entries(p, q, g) : x = At(p, q, g, i[1], i[2], i[3])
    BY MessageTiled
  <2>2. i[1] \in DOMAIN g /\ i[2] \in DOMAIN Section(p, q, g[i[1]]) /\ i[3] \in 1 .. Inner[g[i[1]]]
    BY <2>1, SizeFacts DEF Entries
  <2> QED
    BY <2>1, <2>2
<1> QED
  BY <1>1, <1>2

\* What p packs for its j-th neighbour.
LEMMA PackedAre ==
    ASSUME NEW p \in Procs, NEW g \in Groups, NEW to, to = groupSendNeighbors(p, g), NEW t
    PROVE  t \in Packed(p, g)
              <=> \E j \in DOMAIN to, m \in DOMAIN g :
                     \E e \in DOMAIN Section(p, to[j], g[m]), k \in 1 .. Inner[g[m]] :
                        t = Slot(p, to[j], g, SendBefore(p, g, j), m, e, k)
<1>1. \A j \in DOMAIN to : to[j] \in Procs /\ SendBefore(p, g, j) \in Nat
  BY SendNeighborsAre, SendBufferStacks DEF Enumerates, To
<1>2. Packed(p, g) = UNION {Slots(Section(p, to[j], g[m]), g[m], groupPackOffset(p, g, j, m)) :
                            j \in DOMAIN to, m \in DOMAIN g}
  <2>1. Packed(p, g) = PackSlots(p, g)
    BY LayoutIs
  <2> QED
    BY <2>1 DEF PackSlots
<1>3. t \in Packed(p, g) <=> \E j \in DOMAIN to, m \in DOMAIN g :
         t \in Slots(Section(p, to[j], g[m]), g[m], groupPackOffset(p, g, j, m))
  BY <1>2
<1>4. \A j \in DOMAIN to, m \in DOMAIN g :
         t \in Slots(Section(p, to[j], g[m]), g[m], groupPackOffset(p, g, j, m))
            <=> \E e \in DOMAIN Section(p, to[j], g[m]), k \in 1 .. Inner[g[m]] :
                   t = Slot(p, to[j], g, SendBefore(p, g, j), m, e, k)
  BY <1>1, SlotsAre DEF groupPackOffset
<1> QED
  BY <1>3, <1>4

\* Packing fills the slices of the messages, every place of them with one number.
LEMMA PackingFits == PackedFits
<1> SUFFICES ASSUME NEW p \in Procs, NEW g \in Groups
             PROVE  /\ \A t \in Packed(p, g) :
                          /\ t.at \in 1 .. groupSendBufSize(p, g)
                          /\ t.number \in Numbers /\ t.number[2] \in Owned[p]
                    /\ \A t, u \in Packed(p, g) : t.at = u.at => t.number = u.number
                    /\ \A s \in Sends(p, g) : \A x \in 1 .. s.count :
                          \E t \in Packed(p, g) : t.at = s.before + x
  BY DEF PackedFits
<1> PICK to : to = groupSendNeighbors(p, g)
  OBVIOUS
<1> PICK size : size = groupSendBufSize(p, g)
  OBVIOUS
<1> DEFINE count(j) == groupSendCount(p, to[j], g)
           before(j) == SendBefore(p, g, j)
<1>1. /\ size \in Nat
      /\ \A j \in DOMAIN to : /\ count(j) \in Nat /\ before(j) \in Nat
                              /\ before(j) + count(j) <= size
      /\ \A i, j \in DOMAIN to : i # j => \/ before(i) + count(i) <= before(j)
                                          \/ before(j) + count(j) <= before(i)
  BY SendBufferStacks
<1>2. \A j \in DOMAIN to : to[j] \in Procs /\ count(j) = CountUpTo(p, to[j], g, Len(g))
  BY SendNeighborsAre DEF Enumerates, To, groupSendCount
<1> HIDE DEF count, before
<1>3. ASSUME NEW t \in Packed(p, g)
      PROVE  \E j \in DOMAIN to, m \in DOMAIN g :
                \E e \in DOMAIN Section(p, to[j], g[m]), k \in 1 .. Inner[g[m]] :
                   /\ t = Slot(p, to[j], g, before(j), m, e, k)
                   /\ t.at = before(j) + At(p, to[j], g, m, e, k)
                   /\ At(p, to[j], g, m, e, k) \in 1 .. count(j)
                   /\ t.number \in Numbers /\ t.number[2] \in Owned[p]
  <2>1. PICK j \in DOMAIN to, m \in DOMAIN g :
           \E e \in DOMAIN Section(p, to[j], g[m]), k \in 1 .. Inner[g[m]] :
              t = Slot(p, to[j], g, before(j), m, e, k)
    BY PackedAre DEF before
  <2>2. PICK e \in DOMAIN Section(p, to[j], g[m]), k \in 1 .. Inner[g[m]] :
           t = Slot(p, to[j], g, before(j), m, e, k)
    BY <2>1
  <2>3. to[j] \in Procs /\ before(j) \in Nat
    BY <1>1, <1>2
  <2>4. /\ t.number \in Brought(to[j], g, p) /\ t.number[2] \in Owned[p]
        /\ At(p, to[j], g, m, e, k) \in 1 .. count(j) /\ t.at = before(j) + At(p, to[j], g, m, e, k)
    <3> PICK q, b : q = to[j] /\ b = before(j)
      OBVIOUS
    <3>1. q \in Procs /\ b \in Nat /\ e \in DOMAIN Section(p, q, g[m])
      BY <2>3
    <3>2. SlotFits(p, q, g, b, m, e, k)
      BY <3>1, SlotFacts
    <3>3. /\ Slot(p, q, g, b, m, e, k).number \in Brought(q, g, p)
          /\ Slot(p, q, g, b, m, e, k).number[2] \in Owned[p]
          /\ At(p, q, g, m, e, k) \in 1 .. CountUpTo(p, q, g, Len(g))
          /\ Slot(p, q, g, b, m, e, k).at = b + At(p, q, g, m, e, k)
      BY <3>2 DEF SlotFits
    <3> QED
      BY <1>2, <2>2, <3>3
  <2>5. t.number \in Numbers
    BY <2>4 DEF Brought
  <2> QED
    BY <2>2, <2>4, <2>5
<1>4. ASSUME NEW t \in Packed(p, g)
      PROVE  t.at \in 1 .. size /\ t.number \in Numbers /\ t.number[2] \in Owned[p]
  <2>1. PICK j \in DOMAIN to, a \in Int : /\ t.at = before(j) + a /\ a \in 1 .. count(j)
                                          /\ t.number \in Numbers /\ t.number[2] \in Owned[p]
    BY <1>1, <1>3
  <2> QED
    BY <1>1, <2>1
<1>5. ASSUME NEW t \in Packed(p, g), NEW u \in Packed(p, g), t.at = u.at
      PROVE  t.number = u.number
  <2>1. PICK i \in DOMAIN to, m \in DOMAIN g :
           \E e \in DOMAIN Section(p, to[i], g[m]), k \in 1 .. Inner[g[m]] :
              /\ t = Slot(p, to[i], g, before(i), m, e, k)
              /\ t.at = before(i) + At(p, to[i], g, m, e, k)
              /\ At(p, to[i], g, m, e, k) \in 1 .. count(i)
    BY <1>3
  <2>2. PICK e \in DOMAIN Section(p, to[i], g[m]), k \in 1 .. Inner[g[m]] :
           /\ t = Slot(p, to[i], g, before(i), m, e, k)
           /\ t.at = before(i) + At(p, to[i], g, m, e, k)
           /\ At(p, to[i], g, m, e, k) \in 1 .. count(i)
    BY <2>1
  <2>3. PICK j \in DOMAIN to, n \in DOMAIN g :
           \E d \in DOMAIN Section(p, to[j], g[n]), l \in 1 .. Inner[g[n]] :
              /\ u = Slot(p, to[j], g, before(j), n, d, l)
              /\ u.at = before(j) + At(p, to[j], g, n, d, l)
              /\ At(p, to[j], g, n, d, l) \in 1 .. count(j)
    BY <1>3
  <2>4. PICK d \in DOMAIN Section(p, to[j], g[n]), l \in 1 .. Inner[g[n]] :
           /\ u = Slot(p, to[j], g, before(j), n, d, l)
           /\ u.at = before(j) + At(p, to[j], g, n, d, l)
           /\ At(p, to[j], g, n, d, l) \in 1 .. count(j)
    BY <2>3
  <2> PICK a, b : a = At(p, to[i], g, m, e, k) /\ b = At(p, to[j], g, n, d, l)
    OBVIOUS
  <2>5. before(i) + a = before(j) + b /\ a \in 1 .. count(i) /\ b \in 1 .. count(j)
    BY <1>5, <2>2, <2>4
  <2>6. i = j
    BY <1>1, <2>5
  <2>7. a = b
    BY <1>1, <2>5, <2>6
  <2>8. m = n /\ e = d /\ k = l
    <3> PICK q : q = to[i]
      OBVIOUS
    <3>1. q \in Procs /\ At(p, q, g, m, e, k) = At(p, q, g, n, d, l)
      BY <1>2, <2>6, <2>7
    <3>2. e \in DOMAIN Section(p, q, g[m]) /\ d \in DOMAIN Section(p, q, g[n])
      BY <2>6
    <3> QED
      BY <3>1, <3>2, EntryPlaces
  <2> QED
    BY <2>2, <2>4, <2>6, <2>8
<1>6. ASSUME NEW s \in Sends(p, g), NEW x \in 1 .. s.count
      PROVE  \E t \in Packed(p, g) : t.at = s.before + x
  <2>1. PICK j \in DOMAIN to :
           s = [peer |-> to[j], group |-> g, before |-> SendBefore(p, g, j),
                count |-> groupSendCount(p, to[j], g)]
    <3>1. Sends(p, g) = SendSlices(p, g)
      BY LayoutIs
    <3> QED
      BY <3>1 DEF SendSlices
  <2>2. s.before = before(j) /\ s.count = count(j)
    BY <2>1 DEF before, count
  <2>3. PICK m \in DOMAIN g : \E e \in DOMAIN Section(p, to[j], g[m]), k \in 1 .. Inner[g[m]] :
           x = At(p, to[j], g, m, e, k)
    BY <1>2, <2>2, EntryPlaces
  <2>4. PICK e \in DOMAIN Section(p, to[j], g[m]), k \in 1 .. Inner[g[m]] :
           x = At(p, to[j], g, m, e, k)
    BY <2>3
  <2> PICK t : t = Slot(p, to[j], g, before(j), m, e, k)
    OBVIOUS
  <2>5. t \in Packed(p, g)
    BY PackedAre DEF before
  <2>6. t.at = s.before + x
    <3> PICK q, b : q = to[j] /\ b = before(j)
      OBVIOUS
    <3>1. q \in Procs /\ b \in Nat /\ e \in DOMAIN Section(p, q, g[m])
      BY <1>1, <1>2
    <3>2. SlotFits(p, q, g, b, m, e, k)
      BY <3>1, SlotFacts
    <3>3. Slot(p, q, g, b, m, e, k).at = b + At(p, q, g, m, e, k)
      BY <3>2 DEF SlotFits
    <3> QED
      BY <2>2, <2>4, <3>3
  <2> QED
    BY <2>5, <2>6
<1> QED
  BY <1>4, <1>5, <1>6

\* What p unpacks of the message of its j-th neighbour.
LEMMA UnpackedAre ==
    ASSUME NEW p \in Procs, NEW g \in Groups, NEW from, from = groupRecvNeighbors(p, g),
           NEW j \in DOMAIN from, NEW q, q = from[j], NEW t
    PROVE  t \in Unpacked(p, g)[q]
              <=> \E m \in DOMAIN g :
                     \E e \in DOMAIN Section(q, p, g[m]), k \in 1 .. Inner[g[m]] :
                        t = Slot(q, p, g, RecvBefore(p, g, j), m, e, k)
<1>1. Enumerates(from, From(p, g)) /\ q \in Procs \ {p} /\ RecvBefore(p, g, j) \in Nat
  BY RecvNeighborsAre, RecvBufferStacks DEF Enumerates, From
<1> DEFINE fields == {n \in DOMAIN g : q \in Range(RecvEndpoints(p, g[n]))}
<1>2. Unpacked(p, g)[q] = UnpackSlots(p, g, q)
  <2>1. q \in Range(groupRecvNeighbors(p, g))
    BY DEF Range
  <2> QED
    BY <2>1, LayoutIs
<1>3. j = CHOOSE k \in DOMAIN from : from[k] = q
  BY <1>1 DEF Enumerates
<1>4. UnpackSlots(p, g, q) =
         UNION {Slots(Section(q, p, g[m]), g[m], groupUnpackOffset(p, g, j, m)) : m \in fields}
  BY <1>3 DEF UnpackSlots
<1>5. ASSUME NEW m \in DOMAIN g
      PROVE  t \in Slots(Section(q, p, g[m]), g[m], groupUnpackOffset(p, g, j, m))
                <=> \E e \in DOMAIN Section(q, p, g[m]), k \in 1 .. Inner[g[m]] :
                       t = Slot(q, p, g, RecvBefore(p, g, j), m, e, k)
  BY <1>1, SlotsAre DEF groupUnpackOffset
<1>6. ASSUME NEW m \in DOMAIN g, NEW e \in DOMAIN Section(q, p, g[m]) PROVE m \in fields
  <2>1. g[m] \in Fields
    BY SizeFacts
  <2>2. Lists(q, p, g[m]) # {}
    BY <1>1, <2>1, SectionIs
  <2>3. Enumerates(RecvEndpoints(p, g[m]), {r \in Procs \ {p} : Lists(r, p, g[m]) # {}})
    BY <2>1, RecvEndpointsAre
  <2>4. q \in Range(RecvEndpoints(p, g[m]))
    BY <1>1, <2>2, <2>3 DEF Enumerates, Range
  <2> QED
    BY <2>4
<1>7. t \in Unpacked(p, g)[q]
         <=> \E m \in fields : t \in Slots(Section(q, p, g[m]), g[m], groupUnpackOffset(p, g, j, m))
  BY <1>2, <1>4
<1>8. fields \subseteq DOMAIN g
  OBVIOUS
<1> HIDE DEF fields
<1> QED
  BY <1>5, <1>6, <1>7, <1>8

\* A task has nothing for itself.
LEMMA OwnListsEmpty == \A p \in Procs : \A f \in Fields : Lists(p, p, f) = {}
<1> SUFFICES ASSUME NEW p \in Procs, NEW f \in Fields, NEW x \in Lists(p, p, f) PROVE FALSE
  OBVIOUS
<1>1. x[1] \in Layers[f] /\ x[2] \in Owned[p] /\ x[2] \in Halo[p][x[1]]
  BY DEF Lists
<1>2. x[1] \in DOMAIN Halo[p]
  BY <1>1, HaloAssumption
<1> QED
  BY <1>1, <1>2, HaloAssumption

\* Unpacking takes every number from where its sender has packed it.
LEMMA UnpackingFits == UnpackedFits
<1> SUFFICES ASSUME NEW p \in Procs, NEW q \in Procs, NEW g \in Groups
    PROVE  /\ DOMAIN Unpacked(p, g) \subseteq Procs
           /\ q \in DOMAIN Unpacked(p, g) <=> \E r \in Receives(p, g) : r.peer = q
           /\ q \in DOMAIN Unpacked(p, g) <=> Brought(p, g, q) # {}
           /\ \A r \in Receives(p, g) : r.peer = q =>
                 /\ \A n : n \in Brought(p, g, q) <=> \E t \in Unpacked(p, g)[q] : t.number = n
                 /\ \A t \in Unpacked(p, g)[q] :
                       /\ t.at \in r.before + 1 .. r.before + r.count
                       /\ \E s \in Sends(q, g), u \in Packed(q, g) :
                             /\ s.peer = p /\ u.number = t.number
                             /\ u.at - s.before = t.at - r.before
  BY DEF UnpackedFits
<1> PICK from, to : from = groupRecvNeighbors(p, g) /\ to = groupSendNeighbors(q, g)
  OBVIOUS
<1>1. Enumerates(from, From(p, g)) /\ Enumerates(to, To(q, g))
  BY RecvNeighborsAre, SendNeighborsAre
<1>2. DOMAIN Unpacked(p, g) = From(p, g)
  <2>1. DOMAIN Unpacked(p, g) = Range(from)
    BY LayoutIs
  <2> QED
    BY <1>1, <2>1 DEF Enumerates, Range
<1>3. Receives(p, g) = {[peer |-> from[j], group |-> g, before |-> RecvBefore(p, g, j),
                         count |-> groupRecvCount(p, from[j], g)] : j \in DOMAIN from}
  <2>1. Receives(p, g) = RecvSlices(p, g)
    BY LayoutIs
  <2> QED
    BY <2>1 DEF RecvSlices
<1>4. ASSUME NEW r \in Receives(p, g)
      PROVE  \E j \in DOMAIN from : /\ r.peer = from[j] /\ r.before = RecvBefore(p, g, j)
                                    /\ r.count = groupRecvCount(p, from[j], g)
  <2>1. PICK j \in DOMAIN from : r = [peer |-> from[j], group |-> g, before |-> RecvBefore(p, g, j),
                                      count |-> groupRecvCount(p, from[j], g)]
    BY <1>3
  <2> QED
    BY <2>1
<1>5. q \in From(p, g) <=> \E r \in Receives(p, g) : r.peer = q
  <2>1. ASSUME NEW r \in Receives(p, g), r.peer = q PROVE q \in From(p, g)
    BY <1>1, <1>4, <2>1 DEF Enumerates
  <2>2. ASSUME q \in From(p, g) PROVE \E r \in Receives(p, g) : r.peer = q
    <3>1. PICK j \in DOMAIN from : from[j] = q
      BY <1>1, <2>2 DEF Enumerates
    <3> DEFINE r == [peer |-> from[j], group |-> g, before |-> RecvBefore(p, g, j),
                     count |-> groupRecvCount(p, from[j], g)]
    <3>2. r \in Receives(p, g) /\ r.peer = q
      BY <1>3, <3>1
    <3> QED
      BY <3>2
  <2> QED
    BY <2>1, <2>2
<1>6. q \in From(p, g) <=> Brought(p, g, q) # {}
  <2>1. ASSUME q \in From(p, g) PROVE Brought(p, g, q) # {}
    <3>1. PICK m \in DOMAIN g : Lists(q, p, g[m]) # {}
      BY <2>1 DEF From
    <3>2. g[m] \in Fields /\ Inner[g[m]] \in Nat \ {0}
      BY SizeFacts
    <3>3. PICK x \in Lists(q, p, g[m]) : TRUE
      BY <3>1
    <3>4. PICK e \in DOMAIN Section(q, p, g[m]) : TRUE
      BY <3>2, <3>3, SectionIs
    <3>5. 1 \in 1 .. Inner[g[m]]
      BY <3>2
    <3>6. SlotFits(q, p, g, 0, m, e, 1)
      BY <3>5, SlotFacts
    <3> QED
      BY <3>6 DEF SlotFits
  <2>2. ASSUME NEW n \in Brought(p, g, q) PROVE q \in From(p, g)
    <3>1. PICK m \in DOMAIN g : \E e \in DOMAIN Section(q, p, g[m]), k \in 1 .. Inner[g[m]] :
             n = Slot(q, p, g, 0, m, e, k).number
      BY BroughtAreSlots
    <3>2. g[m] \in Fields
      BY SizeFacts
    <3>3. Lists(q, p, g[m]) # {}
      BY <3>1, <3>2, SectionIs
    <3>4. q # p
      BY <3>2, <3>3, OwnListsEmpty
    <3> QED
      BY <3>3, <3>4 DEF From
  <2> QED
    BY <2>1, <2>2
<1>7. ASSUME NEW r \in Receives(p, g), r.peer = q
      PROVE  /\ \A n : n \in Brought(p, g, q) <=> \E t \in Unpacked(p, g)[q] : t.number = n
             /\ \A t \in Unpacked(p, g)[q] :
                   /\ t.at \in r.before + 1 .. r.before + r.count
                   /\ \E s \in Sends(q, g), u \in Packed(q, g) :
                         /\ s.peer = p /\ u.number = t.number
                         /\ u.at - s.before = t.at - r.before
  <2>1. PICK j \in DOMAIN from : /\ q = from[j] /\ r.before = RecvBefore(p, g, j)
                                 /\ r.count = groupRecvCount(p, from[j], g)
    BY <1>4, <1>7
  <2> PICK b : b = RecvBefore(p, g, j)
    OBVIOUS
  <2>2. b \in Nat /\ r.before = b /\ r.count = CountUpTo(q, p, g, Len(g)) /\ r.count \in Nat
    BY <2>1, RecvBufferStacks DEF groupRecvCount
  <2>3. \A t : t \in Unpacked(p, g)[q]
                  <=> \E m \in DOMAIN g :
                         \E e \in DOMAIN Section(q, p, g[m]), k \in 1 .. Inner[g[m]] :
                            t = Slot(q, p, g, b, m, e, k)
    BY <2>1, UnpackedAre
  <2>4. ASSUME NEW n \in Brought(p, g, q) PROVE \E t \in Unpacked(p, g)[q] : t.number = n
    <3>1. PICK m \in DOMAIN g : \E e \in DOMAIN Section(q, p, g[m]), k \in 1 .. Inner[g[m]] :
             n = Slot(q, p, g, b, m, e, k).number
      BY <2>2, BroughtAreSlots
    <3> QED
      BY <2>3, <3>1
  <2>5. PICK i \in DOMAIN to : to[i] = p
    <3>1. q \in From(p, g)
      BY <1>5, <1>7
    <3>2. p \in To(q, g)
      BY <3>1 DEF From, To
    <3> QED
      BY <1>1, <3>2 DEF Enumerates
  <2> PICK c : c = SendBefore(q, g, i)
    OBVIOUS
  <2>6. c \in Nat
    BY SendBufferStacks
  <2>7. PICK s \in Sends(q, g) : s.peer = p /\ s.before = c
    <3>1. Sends(q, g) = SendSlices(q, g)
      BY LayoutIs
    <3>2. Sends(q, g) = {[peer |-> to[l], group |-> g, before |-> SendBefore(q, g, l),
                          count |-> groupSendCount(q, to[l], g)] : l \in DOMAIN to}
      BY <3>1 DEF SendSlices
    <3> DEFINE s == [peer |-> to[i], group |-> g, before |-> SendBefore(q, g, i),
                     count |-> groupSendCount(q, to[i], g)]
    <3>3. s \in Sends(q, g) /\ s.peer = p /\ s.before = c
      BY <2>5, <3>2
    <3> QED
      BY <3>3
  <2>8. ASSUME NEW t \in Unpacked(p, g)[q]
        PROVE  /\ t.number \in Brought(p, g, q)
               /\ t.at \in r.before + 1 .. r.before + r.count
               /\ \E u \in Packed(q, g) : u.number = t.number /\ u.at - s.before = t.at - r.before
    <3>1. PICK m \in DOMAIN g : \E e \in DOMAIN Section(q, p, g[m]), k \in 1 .. Inner[g[m]] :
             t = Slot(q, p, g, b, m, e, k)
      BY <2>3
    <3>2. PICK e \in DOMAIN Section(q, p, g[m]), k \in 1 .. Inner[g[m]] :
             t = Slot(q, p, g, b, m, e, k)
      BY <3>1
    <3> PICK a : a = At(q, p, g, m, e, k)
      OBVIOUS
    <3> PICK u : u = Slot(q, p, g, c, m, e, k)
      OBVIOUS
    <3>3. SlotFits(q, p, g, b, m, e, k) /\ SlotFits(q, p, g, c, m, e, k)
      BY <2>2, <2>6, SlotFacts
    <3>4. /\ t.number \in Brought(p, g, q) /\ a \in 1 .. r.count /\ t.at = b + a /\ u.at = c + a
      BY <2>2, <3>2, <3>3 DEF SlotFits
    <3>5. u.number = t.number
      BY <3>2 DEF Slot
    <3>6. u \in Packed(q, g)
      <4>1. e \in DOMAIN Section(q, to[i], g[m]) /\ u = Slot(q, to[i], g, SendBefore(q, g, i), m, e, k)
        BY <2>5
      <4> QED
        BY <4>1, PackedAre
    <3>7. t.at \in r.before + 1 .. r.before + r.count /\ u.at - s.before = t.at - r.before
      BY <2>2, <2>6, <2>7, <3>4
    <3> QED
      BY <3>4, <3>5, <3>6, <3>7
  <2> QED
    BY <2>4, <2>7, <2>8
<1>8. DOMAIN Unpacked(p, g) \subseteq Procs
  BY <1>2 DEF From
<1> QED
  BY <1>2, <1>5, <1>6, <1>7, <1>8

\* The two sides of every message, which mpas_halo_aggregate_group_info lays out on each
\* task for itself, agree, for every decomposition and every group of fields of up to
\* three active layers.
LEMMA LayoutsAgree == LayoutsFit
BY SlicesAgree, PackingFits, UnpackingFits DEF LayoutsFit

-----------------------------------------------------------------------------
(* The invariant *)

\* The values a number may have.
Values == Numbers \X (0 .. Len(Program))

\* The exchanges p has a message for q in.
Involved(p, q) ==
    {k \in 1 .. Len(Program) : \E s \in Sends(p, Program[k]) : s.peer = q}

\* Those MPI has taken the message of out of the send buffer, and those it has put the
\* message of into the receive buffer.
Sent(p, q) ==
    {k \in Involved(p, q) :
        \/ k < round[p]
        \/ /\ k = round[p] /\ pc[p] \in {"compute", "unpack"}
           /\ \A s \in sendRequests[p] : s.peer # q}
Got(q, p) ==
    {k \in Involved(p, q) :
        \/ k < round[q]
        \/ /\ k = round[q] /\ pc[q] # "receive"
           /\ \A r \in recvRequests[q] : r.peer # p}

Carries(p, q, k, m) ==
    \E s \in Sends(p, Program[k]) :
       /\ s.peer = q /\ m \in Seq(Values) /\ Len(m) = s.count
       /\ \A t \in Packed(p, Program[k]) :
             t.at - s.before \in 1 .. s.count => m[t.at - s.before] = <<t.number, k>>

\* The messages w are those of the exchanges S, in the order of the exchanges.
Queue(p, q, w, S) ==
    \E f \in [1 .. Len(w) -> 1 .. Len(Program)] :
       /\ \A i, j \in DOMAIN f : i < j => f[i] < f[j]
       /\ \A k \in 1 .. Len(Program) : k \in S <=> \E i \in DOMAIN f : f[i] = k
       /\ \A i \in DOMAIN f : Carries(p, q, f[i], w[i])

\* The messages under way are those sent and not got, the oldest first.
WireFits(p, q) ==
    /\ Got(q, p) \subseteq Sent(p, q)
    /\ Queue(p, q, wire[p][q], Sent(p, q) \ Got(q, p))

Typed ==
    /\ pc \in [Procs -> {"compute", "receive", "pack", "send", "unpack"}]
    /\ round \in [Procs -> 0 .. Len(Program)]
    /\ array \in [Procs -> [Numbers -> Values \cup {Never}]]
    /\ \A b \in {sendBuf, recvBuf} : DOMAIN b = Procs
    /\ \A p \in Procs : DOMAIN sendBuf[p] = Groups /\ DOMAIN recvBuf[p] = Groups
    /\ \A p \in Procs, g \in Groups :
          /\ sendBuf[p][g] \in [1 .. groupSendBufSize(p, g) -> Values \cup {Never}]
          /\ recvBuf[p][g] \in [1 .. groupRecvBufSize(p, g) -> Values \cup {Never}]
    /\ DOMAIN sendRequests = Procs /\ DOMAIN recvRequests = Procs /\ DOMAIN completed = Procs
    /\ wire \in [Procs -> [Procs -> Seq(Seq(Values))]]

RequestsFit(p) ==
    /\ pc[p] # "unpack" => sendRequests[p] = {}
    /\ pc[p] \in {"compute", "receive"} => recvRequests[p] = {} /\ completed[p] = {}
    /\ pc[p] # "compute" =>
          /\ round[p] >= 1
          /\ sendRequests[p] \subseteq Sends(p, Group(p))
          /\ recvRequests[p] \cup completed[p] \subseteq Receives(p, Group(p))
          /\ recvRequests[p] \cap completed[p] = {}

BuffersFit(p) ==
    /\ pc[p] \in {"send", "unpack"} =>
          \A t \in Packed(p, Group(p)) : sendBuf[p][Group(p)][t.at] = <<t.number, round[p]>>
    /\ \A r \in completed[p] :
          \A t \in Unpacked(p, Group(p))[r.peer] : recvBuf[p][Group(p)][t.at] = <<t.number, round[p]>>
    /\ \A n \in Numbers : n[2] \in Owned[p] => array[p][n] = <<n, round[p]>>

IInv ==
    /\ Typed
    /\ \A p \in Procs : RequestsFit(p) /\ BuffersFit(p)
    /\ \A p, q \in Procs : WireFits(p, q)
-----------------------------------------------------------------------------
\* What a task has of its own.
Mine(p) == <<pc[p], round[p], array[p], sendBuf[p], recvBuf[p], sendRequests[p],
             recvRequests[p], completed[p]>>

\* A task that has nothing changed keeps its requests and buffers as they are to be.
LEMMA TaskFramed ==
    ASSUME NEW p, RequestsFit(p), BuffersFit(p), UNCHANGED Mine(p)
    PROVE  RequestsFit(p)' /\ BuffersFit(p)'
<1>1. /\ pc'[p] = pc[p] /\ round'[p] = round[p] /\ array'[p] = array[p]
      /\ sendBuf'[p] = sendBuf[p] /\ recvBuf'[p] = recvBuf[p]
      /\ sendRequests'[p] = sendRequests[p] /\ recvRequests'[p] = recvRequests[p]
      /\ completed'[p] = completed[p]
  BY DEF Mine
<1>2. Group(p)' = Group(p)
  BY <1>1 DEF Group
<1> QED
  BY <1>1, <1>2 DEF RequestsFit, BuffersFit

\* The messages taken out of a send buffer and those put into a receive buffer depend on
\* the place and the requests of one task.
LEMMA SentFramed ==
    ASSUME NEW p, NEW q, pc'[p] = pc[p], round'[p] = round[p],
           sendRequests'[p] = sendRequests[p]
    PROVE  Sent(p, q)' = Sent(p, q)
  BY DEF Sent

\* (See SentFramed.)
LEMMA GotFramed ==
    ASSUME NEW p, NEW q, pc'[p] = pc[p], round'[p] = round[p],
           recvRequests'[p] = recvRequests[p]
    PROVE  Got(p, q)' = Got(p, q)
  BY DEF Got

\* The messages under way stay as they are to be when no message is taken or put.
LEMMA WireFramed ==
    ASSUME NEW p, NEW q, WireFits(p, q), wire'[p][q] = wire[p][q],
           Sent(p, q)' = Sent(p, q), Got(q, p)' = Got(q, p)
    PROVE  WireFits(p, q)'
  BY DEF WireFits

-----------------------------------------------------------------------------
\* Nothing is under way of no exchange.
LEMMA QueueEmpty == ASSUME NEW p, NEW q PROVE Queue(p, q, <<>>, {})
<1> DEFINE f == [i \in 1 .. 0 |-> 1]
<1>1. f \in [1 .. Len(<<>>) -> 1 .. Len(Program)] /\ DOMAIN f = {}
  OBVIOUS
<1> HIDE DEF f
<1> QED
  BY <1>1 DEF Queue

\* The message of a later exchange goes behind the others.
LEMMA QueueAppend ==
    ASSUME NEW p, NEW q, NEW w \in Seq(Seq(Values)), NEW m \in Seq(Values),
           NEW S, Queue(p, q, w, S), NEW k \in 1 .. Len(Program),
           \A j \in S \cap (1 .. Len(Program)) : j < k, Carries(p, q, k, m)
    PROVE  Queue(p, q, Append(w, m), S \cup {k})
<1>1. PICK f \in [1 .. Len(w) -> 1 .. Len(Program)] :
         /\ \A i, j \in DOMAIN f : i < j => f[i] < f[j]
         /\ \A l \in 1 .. Len(Program) : l \in S <=> \E i \in DOMAIN f : f[i] = l
         /\ \A i \in DOMAIN f : Carries(p, q, f[i], w[i])
  BY DEF Queue
<1> DEFINE n == Len(w) + 1
           g == [i \in 1 .. n |-> IF i = n THEN k ELSE f[i]]
<1>2. /\ Len(Append(w, m)) = n /\ n \in Nat
      /\ Append(w, m)[n] = m /\ \A i \in 1 .. Len(w) : Append(w, m)[i] = w[i]
  BY AppendProperties, LenProperties
<1>3. 1 .. n = (1 .. Len(w)) \cup {n} /\ n \notin 1 .. Len(w) /\ DOMAIN f = 1 .. Len(w)
  BY <1>1, LenProperties
<1>4. g \in [1 .. n -> 1 .. Len(Program)]
  BY <1>1, <1>3
<1>5. g[n] = k /\ \A i \in DOMAIN f : g[i] = f[i] /\ f[i] \in 1 .. Len(Program)
  BY <1>1, <1>3
<1> HIDE DEF g
<1>6. ASSUME NEW i \in DOMAIN g, NEW j \in DOMAIN g, i < j PROVE g[i] < g[j]
  <2>1. i \in DOMAIN f
    BY <1>3, <1>4, <1>6, LenProperties
  <2>2. CASE j = n
    BY <1>1, <1>5, <2>1, <2>2
  <2>3. CASE j # n
    BY <1>1, <1>3, <1>4, <1>5, <1>6, <2>1, <2>3
  <2> QED
    BY <2>2, <2>3
<1>7. \A l \in 1 .. Len(Program) : l \in S \cup {k} <=> \E i \in DOMAIN g : g[i] = l
  BY <1>1, <1>3, <1>4, <1>5
<1>8. \A i \in DOMAIN g : Carries(p, q, g[i], Append(w, m)[i])
  BY <1>1, <1>2, <1>3, <1>4, <1>5
<1> QED
  BY <1>2, <1>4, <1>6, <1>7, <1>8 DEF Queue

\* The oldest message is that of the first exchange there is one of.
LEMMA QueueHead ==
    ASSUME NEW p, NEW q, NEW w \in Seq(Seq(Values)), w # <<>>, NEW S, Queue(p, q, w, S)
    PROVE  \E k \in S \cap (1 .. Len(Program)) :
              /\ \A j \in S \cap (1 .. Len(Program)) : k <= j
              /\ Carries(p, q, k, Head(w))
              /\ Queue(p, q, Tail(w), S \ {k})
<1>1. PICK f \in [1 .. Len(w) -> 1 .. Len(Program)] :
         /\ \A i, j \in DOMAIN f : i < j => f[i] < f[j]
         /\ \A l \in 1 .. Len(Program) : l \in S <=> \E i \in DOMAIN f : f[i] = l
         /\ \A i \in DOMAIN f : Carries(p, q, f[i], w[i])
  BY DEF Queue
<1>2. /\ Len(w) \in Nat \ {0} /\ Head(w) = w[1] /\ Tail(w) \in Seq(Seq(Values))
      /\ Len(Tail(w)) = Len(w) - 1
      /\ \A i \in 1 .. Len(w) - 1 : Tail(w)[i] = w[i + 1]
  BY HeadTailProperties, LenProperties, EmptySeq
<1> DEFINE k == f[1]
           g == [i \in 1 .. Len(w) - 1 |-> f[i + 1]]
<1>3. /\ DOMAIN f = 1 .. Len(w) /\ 1 \in DOMAIN f
      /\ \A i \in 1 .. Len(w) - 1 : i + 1 \in DOMAIN f /\ 1 < i + 1
      /\ \A i \in DOMAIN f : i # 1 => i - 1 \in 1 .. Len(w) - 1 /\ (i - 1) + 1 = i
  BY <1>1, <1>2
<1>4. \A i \in DOMAIN f : f[i] \in 1 .. Len(Program)
  BY <1>1
<1>5. k \in S \cap (1 .. Len(Program))
  BY <1>1, <1>3, <1>4
<1>6. \A j \in S \cap (1 .. Len(Program)) : k <= j
  <2> SUFFICES ASSUME NEW j \in S \cap (1 .. Len(Program)) PROVE k <= j
    OBVIOUS
  <2>1. PICK i \in DOMAIN f : f[i] = j
    BY <1>1
  <2>2. i = 1 \/ 1 < i
    BY <1>3
  <2> QED
    BY <1>1, <1>3, <1>4, <2>1, <2>2
<1>7. Carries(p, q, k, Head(w))
  BY <1>1, <1>2, <1>3
<1>8. g \in [1 .. Len(Tail(w)) -> 1 .. Len(Program)]
  BY <1>2, <1>3, <1>4
<1>9. \A i \in DOMAIN g : g[i] = f[i + 1] /\ i \in 1 .. Len(w) - 1
  OBVIOUS
<1> HIDE DEF g
<1>10. \A i, j \in DOMAIN g : i < j => g[i] < g[j]
  <2> SUFFICES ASSUME NEW i \in DOMAIN g, NEW j \in DOMAIN g, i < j PROVE g[i] < g[j]
    OBVIOUS
  <2>1. i + 1 \in DOMAIN f /\ j + 1 \in DOMAIN f /\ i + 1 < j + 1
    BY <1>2, <1>3, <1>9
  <2> QED
    BY <1>1, <1>9, <2>1
<1>11. ASSUME NEW l \in 1 .. Len(Program)
       PROVE  l \in S \ {k} <=> \E i \in DOMAIN g : g[i] = l
  <2>1. ASSUME l \in S \ {k} PROVE \E i \in DOMAIN g : g[i] = l
    <3>1. PICK i \in DOMAIN f : f[i] = l
      BY <1>1, <2>1
    <3>2. i - 1 \in DOMAIN g /\ (i - 1) + 1 = i
      BY <1>2, <1>3, <1>8, <2>1, <3>1
    <3> QED
      BY <1>9, <3>1, <3>2
  <2>2. ASSUME NEW i \in DOMAIN g, g[i] = l PROVE l \in S \ {k}
    <3>1. i + 1 \in DOMAIN f /\ f[i + 1] = l /\ 1 < i + 1
      BY <1>3, <1>9, <2>2
    <3>2. k < l
      BY <1>1, <1>3, <3>1
    <3> QED
      BY <1>1, <1>4, <1>3, <3>1, <3>2
  <2> QED
    BY <2>1, <2>2
<1>12. \A i \in DOMAIN g : Carries(p, q, g[i], Tail(w)[i])
  BY <1>1, <1>2, <1>3, <1>9
<1>13. Queue(p, q, Tail(w), S \ {k})
  BY <1>8, <1>10, <1>11, <1>12 DEF Queue
<1> QED
  BY <1>5, <1>6, <1>7, <1>13

-----------------------------------------------------------------------------
\* Every exchange of the program is for one of the groups.
LEMMA ProgramFacts ==
    /\ Len(Program) \in Nat
    /\ \A k \in 1 .. Len(Program) : Program[k] \in Groups
<1>1. Len(Program) \in Nat /\ DOMAIN Program = 1 .. Len(Program)
  BY SizesAssumption, LenProperties
<1> QED
  BY <1>1 DEF Groups, Range

\* Before the first exchange nothing is requested or under way.
LEMMA InitInv == LayoutsFit /\ Init => IInv
<1> SUFFICES ASSUME LayoutsFit, Init PROVE IInv
  OBVIOUS
<1>1. /\ pc = [p \in Procs |-> "compute"] /\ round = [p \in Procs |-> 0]
      /\ array = [p \in Procs |-> [n \in Numbers |-> IF n[2] \in Owned[p] THEN <<n, 0>> ELSE Never]]
      /\ sendBuf = [p \in Procs |-> [g \in Groups |-> [x \in 1 .. groupSendBufSize(p, g) |-> Never]]]
      /\ recvBuf = [p \in Procs |-> [g \in Groups |-> [x \in 1 .. groupRecvBufSize(p, g) |-> Never]]]
      /\ sendRequests = [p \in Procs |-> {}]
      /\ recvRequests = sendRequests /\ completed = sendRequests
      /\ wire = [p \in Procs |-> [q \in Procs |-> <<>>]]
  BY DEF Init
<1>2. Typed
  <2>1. 0 \in 0 .. Len(Program)
    BY ProgramFacts
  <2>2. array \in [Procs -> [Numbers -> Values \cup {Never}]]
    BY <1>1, <2>1 DEF Values
  <2>3. round \in [Procs -> 0 .. Len(Program)]
    BY <1>1, <2>1
  <2>4. wire \in [Procs -> [Procs -> Seq(Seq(Values))]]
    <3>1. <<>> \in Seq(Seq(Values))
      BY EmptySeq
    <3> QED
      BY <1>1, <3>1
  <2> QED
    BY <1>1, <2>2, <2>3, <2>4 DEF Typed
<1>3. ASSUME NEW p \in Procs PROVE RequestsFit(p) /\ BuffersFit(p)
  <2>1. \A n \in Numbers : n[2] \in Owned[p] => array[p][n] = <<n, round[p]>>
    BY <1>1
  <2> QED
    BY <1>1, <2>1 DEF RequestsFit, BuffersFit
<1>4. ASSUME NEW p \in Procs, NEW q \in Procs PROVE WireFits(p, q)
  <2>1. Sent(p, q) = {} /\ Got(q, p) = {}
    BY <1>1, ProgramFacts DEF Sent, Got, Involved
  <2> QED
    BY <1>1, <2>1, QueueEmpty DEF WireFits
<1> QED
  BY <1>2, <1>3, <1>4 DEF IInv

-----------------------------------------------------------------------------
\* A step that neither takes nor puts a message changes nothing for the other tasks.
LEMMA OwnStep ==
    ASSUME IInv, NEW p \in Procs, Typed', RequestsFit(p)', BuffersFit(p)', wire' = wire,
           \A x \in Procs \ {p} : UNCHANGED Mine(x),
           \A q \in Procs : Sent(p, q)' = Sent(p, q) /\ Got(p, q)' = Got(p, q)
    PROVE  IInv'
<1>1. ASSUME NEW x \in Procs PROVE RequestsFit(x)' /\ BuffersFit(x)'
  BY TaskFramed DEF IInv
<1>2. ASSUME NEW x \in Procs, NEW q \in Procs
      PROVE  Sent(x, q)' = Sent(x, q) /\ Got(x, q)' = Got(x, q)
  <2>1. CASE x = p
    BY <2>1
  <2>2. CASE x # p
    BY <2>2, SentFramed, GotFramed DEF Mine
  <2> QED
    BY <2>1, <2>2
<1>3. ASSUME NEW x \in Procs, NEW q \in Procs PROVE WireFits(x, q)'
  <2>1. Sent(x, q)' = Sent(x, q) /\ Got(q, x)' = Got(q, x) /\ WireFits(x, q)
    BY <1>2 DEF IInv
  <2> QED
    BY <2>1, WireFramed
<1> QED
  BY <1>1, <1>3 DEF IInv

\* What is known of a task that is in an exchange.
LEMMA InExchange ==
    ASSUME LayoutsFit, IInv, NEW p \in Procs
    PROVE  /\ round[p] \in Nat /\ round[p] <= Len(Program) /\ Len(Program) \in Nat
           /\ pc[p] # "compute" => /\ round[p] \in 1 .. Len(Program)
                                   /\ Group(p) \in Groups
  BY ProgramFacts DEF IInv, Typed, RequestsFit, Group

\* Beginning an exchange: the requests of the last one are all complete.
LEMMA ComputeStep ==
    ASSUME LayoutsFit, IInv, NEW p \in Procs, Compute(p)
    PROVE  IInv'
<1>1. /\ pc[p] = "compute" /\ pc' = [pc EXCEPT ![p] = "receive"]
      /\ round[p] < Len(Program) /\ round' = [round EXCEPT ![p] = @ + 1]
      /\ array' = [array EXCEPT ![p] = [n \in Numbers |->
                      IF n[2] \in Owned[p] THEN <<n, round[p] + 1>> ELSE @[n]]]
      /\ UNCHANGED <<sendBuf, recvBuf, sendRequests, recvRequests, completed, wire>>
  BY DEF Compute, Goto, requests
<1>2. /\ round[p] \in Nat /\ Len(Program) \in Nat
      /\ sendRequests[p] = {} /\ recvRequests[p] = {} /\ completed[p] = {}
  BY <1>1, InExchange DEF IInv, RequestsFit
<1>3. round[p] + 1 \in 1 .. Len(Program) /\ round[p] + 1 \in 0 .. Len(Program)
  BY <1>1, <1>2
<1>4. /\ pc'[p] = "receive" /\ round'[p] = round[p] + 1
      /\ \A n \in Numbers : n[2] \in Owned[p] => array'[p][n] = <<n, round[p] + 1>>
  BY <1>1 DEF IInv, Typed
<1>5. Typed'
  <2>1. pc' \in [Procs -> {"compute", "receive", "pack", "send", "unpack"}]
        /\ round' \in [Procs -> 0 .. Len(Program)]
    BY <1>1, <1>3 DEF IInv, Typed
  <2>2. array' \in [Procs -> [Numbers -> Values \cup {Never}]]
    <3>1. \A n \in Numbers : array[p][n] \in Values \cup {Never}
      BY DEF IInv, Typed
    <3>2. \A n \in Numbers : <<n, round[p] + 1>> \in Values
      BY <1>3 DEF Values
    <3>3. [n \in Numbers |-> IF n[2] \in Owned[p] THEN <<n, round[p] + 1>> ELSE array[p][n]]
             \in [Numbers -> Values \cup {Never}]
      BY <3>1, <3>2
    <3> QED
      BY <1>1, <3>3 DEF IInv, Typed
  <2> QED
    BY <1>1, <2>1, <2>2 DEF IInv, Typed
<1>6. RequestsFit(p)' /\ BuffersFit(p)'
  BY <1>1, <1>2, <1>3, <1>4 DEF RequestsFit, BuffersFit
<1>7. ASSUME NEW q \in Procs PROVE Sent(p, q)' = Sent(p, q) /\ Got(p, q)' = Got(p, q)
  <2>1. \A k \in 1 .. Len(Program) : k < round[p] + 1 <=> k < round[p] \/ k = round[p]
    BY <1>2
  <2> QED
    BY <1>1, <1>2, <1>4, <2>1 DEF Sent, Got, Involved
<1>8. \A x \in Procs \ {p} : UNCHANGED Mine(x)
  BY <1>1 DEF IInv, Typed, Mine
<1> QED
  BY <1>1, <1>5, <1>6, <1>7, <1>8, OwnStep

\* Posting the receives of the exchange under way.
LEMMA PostReceivesStep ==
    ASSUME LayoutsFit, IInv, NEW p \in Procs, PostReceives(p)
    PROVE  IInv'
<1> DEFINE g == Group(p)
<1>1. /\ pc[p] = "receive" /\ pc' = [pc EXCEPT ![p] = "pack"]
      /\ recvRequests' = [recvRequests EXCEPT ![p] = @ \cup Receives(p, g)]
      /\ UNCHANGED <<round, array, sendBuf, recvBuf, sendRequests, completed, wire>>
  BY DEF PostReceives, Goto, Receives
<1>2. /\ round[p] \in 1 .. Len(Program) /\ g \in Groups /\ round[p] \in Nat
      /\ sendRequests[p] = {} /\ recvRequests[p] = {} /\ completed[p] = {}
  BY <1>1, InExchange DEF IInv, RequestsFit
<1>3. pc'[p] = "pack" /\ round'[p] = round[p] /\ recvRequests'[p] = Receives(p, g) /\ Group(p)' = g
  BY <1>1, <1>2 DEF IInv, Typed, Group
<1>4. Typed'
  BY <1>1 DEF IInv, Typed
<1>5. RequestsFit(p)' /\ BuffersFit(p)'
  <2>1. RequestsFit(p) /\ BuffersFit(p)
    BY DEF IInv
  <2> QED
    BY <1>1, <1>2, <1>3, <2>1 DEF RequestsFit, BuffersFit
<1>6. ASSUME NEW q \in Procs PROVE Sent(p, q)' = Sent(p, q) /\ Got(p, q)' = Got(p, q)
  <2>1. \A k \in Involved(q, p) : k = round[p] => \E r \in Receives(p, g) : r.peer = q
    BY <1>2 DEF LayoutsFit, PeersMatch, Involved, Group
  <2> QED
    BY <1>1, <1>3, <2>1 DEF Sent, Got
<1>7. \A x \in Procs \ {p} : UNCHANGED Mine(x)
  BY <1>1 DEF IInv, Typed, Mine
<1> QED
  BY <1>1, <1>4, <1>5, <1>6, <1>7, OwnStep

\* Packing: no send of an earlier exchange refers to the buffer any more.
LEMMA PackStep ==
    ASSUME LayoutsFit, IInv, NEW p \in Procs, Pack(p)
    PROVE  IInv'
<1> DEFINE g == Group(p)
           Here(x) == {s \in Packed(p, g) : s.at = x}
           new == [x \in DOMAIN sendBuf[p][g] |->
                     IF Here(x) = {} THEN sendBuf[p][g][x]
                     ELSE array[p][(CHOOSE s \in Here(x) : TRUE).number]]
<1>1. /\ pc[p] = "pack" /\ pc' = [pc EXCEPT ![p] = "send"]
      /\ sendBuf' = [sendBuf EXCEPT ![p][g] = new]
      /\ UNCHANGED <<round, array, recvBuf, sendRequests, recvRequests, completed, wire>>
  BY DEF Pack, Goto, requests, Packed
<1>2. /\ round[p] \in 1 .. Len(Program) /\ g \in Groups /\ round[p] \in Nat
      /\ sendRequests[p] = {}
      /\ round[p] \in 0 .. Len(Program)
  BY <1>1, InExchange DEF IInv, RequestsFit
<1>3. DOMAIN sendBuf = Procs /\ DOMAIN sendBuf[p] = Groups
      /\ sendBuf[p][g] \in [1 .. groupSendBufSize(p, g) -> Values \cup {Never}]
  BY <1>2 DEF IInv, Typed
<1>4. ASSUME NEW x \in DOMAIN sendBuf[p][g], NEW t \in Packed(p, g), t.at = x
      PROVE  new[x] = <<t.number, round[p]>>
  <2>1. PICK s : s = CHOOSE c \in Here(x) : TRUE
    OBVIOUS
  <2>2. s \in Here(x) /\ Here(x) # {}
    BY <1>4, <2>1
  <2>3. s.number = t.number /\ t.number \in Numbers /\ t.number[2] \in Owned[p]
    BY <1>2, <1>4, <2>2 DEF LayoutsFit, PackedFits
  <2>4. array[p][t.number] = <<t.number, round[p]>>
    BY <2>3 DEF IInv, BuffersFit
  <2> QED
    BY <2>1, <2>2, <2>3, <2>4
<1>5. new \in [1 .. groupSendBufSize(p, g) -> Values \cup {Never}]
  <2>1. ASSUME NEW x \in DOMAIN sendBuf[p][g] PROVE new[x] \in Values \cup {Never}
    <3>1. CASE Here(x) = {}
      BY <1>3, <3>1
    <3>2. CASE Here(x) # {}
      <4>1. PICK t \in Packed(p, g) : t.at = x
        BY <3>2
      <4>2. t.number \in Numbers
        BY <1>2, <4>1 DEF LayoutsFit, PackedFits
      <4>3. <<t.number, round[p]>> \in Values
        BY <1>2, <4>2 DEF Values
      <4>4. new[x] = <<t.number, round[p]>>
        BY <1>4, <4>1
      <4> HIDE DEF new
      <4> QED
        BY <4>3, <4>4
    <3> QED
      BY <3>1, <3>2
  <2> QED
    BY <1>3, <2>1
<1>6. /\ pc'[p] = "send" /\ round'[p] = round[p] /\ Group(p)' = g
      /\ sendBuf'[p][g] = new
  BY <1>1, <1>3, <1>2 DEF IInv, Typed, Group
<1>7. \A t \in Packed(p, g) : new[t.at] = <<t.number, round[p]>>
  BY <1>2, <1>3, <1>4 DEF LayoutsFit, PackedFits
<1> HIDE DEF new
<1>8. Typed'
  <2>1. DOMAIN sendBuf' = Procs /\ \A x \in Procs : DOMAIN sendBuf'[x] = Groups
    BY <1>1 DEF IInv, Typed
  <2>2. ASSUME NEW x \in Procs, NEW h \in Groups
        PROVE  sendBuf'[x][h] \in [1 .. groupSendBufSize(x, h) -> Values \cup {Never}]
    <3>1. CASE x = p /\ h = g
      BY <1>5, <1>6, <3>1
    <3>2. CASE ~(x = p /\ h = g)
      <4>1. sendBuf'[x][h] = sendBuf[x][h]
        BY <1>1, <1>3, <3>2 DEF IInv, Typed
      <4> QED
        BY <4>1 DEF IInv, Typed
    <3> QED
      BY <3>1, <3>2
  <2> QED
    BY <1>1, <2>1, <2>2 DEF IInv, Typed
<1>9. RequestsFit(p)' /\ BuffersFit(p)'
  <2>1. RequestsFit(p) /\ BuffersFit(p)
    BY DEF IInv
  <2>2. RequestsFit(p)'
    BY <1>1, <1>2, <1>6, <2>1 DEF RequestsFit
  <2>3. BuffersFit(p)'
    BY <1>1, <1>6, <1>7, <2>1 DEF BuffersFit
  <2> QED
    BY <2>2, <2>3
<1>10. ASSUME NEW q \in Procs PROVE Sent(p, q)' = Sent(p, q) /\ Got(p, q)' = Got(p, q)
  BY <1>1, <1>6 DEF Sent, Got
<1>11. \A x \in Procs \ {p} : UNCHANGED Mine(x)
  BY <1>1 DEF IInv, Typed, Mine
<1> QED
  BY <1>1, <1>8, <1>9, <1>10, <1>11, OwnStep

\* Posting the sends of what has just been packed.
LEMMA PostSendsStep ==
    ASSUME LayoutsFit, IInv, NEW p \in Procs, PostSends(p)
    PROVE  IInv'
<1> DEFINE g == Group(p)
<1>1. /\ pc[p] = "send" /\ pc' = [pc EXCEPT ![p] = "unpack"]
      /\ sendRequests' = [sendRequests EXCEPT ![p] = @ \cup Sends(p, g)]
      /\ UNCHANGED <<round, array, sendBuf, recvBuf, recvRequests, completed, wire>>
  BY DEF PostSends, Goto, Sends
<1>2. /\ round[p] \in 1 .. Len(Program) /\ g \in Groups /\ round[p] \in Nat
      /\ sendRequests[p] = {}
  BY <1>1, InExchange DEF IInv, RequestsFit
<1>3. pc'[p] = "unpack" /\ round'[p] = round[p] /\ sendRequests'[p] = Sends(p, g) /\ Group(p)' = g
  BY <1>1, <1>2 DEF IInv, Typed, Group
<1>4. Typed'
  BY <1>1 DEF IInv, Typed
<1>5. RequestsFit(p)' /\ BuffersFit(p)'
  <2>1. RequestsFit(p) /\ BuffersFit(p)
    BY DEF IInv
  <2> QED
    BY <1>1, <1>2, <1>3, <2>1 DEF RequestsFit, BuffersFit
<1>6. ASSUME NEW q \in Procs PROVE Sent(p, q)' = Sent(p, q) /\ Got(p, q)' = Got(p, q)
  <2>1. \A k \in Involved(p, q) : k = round[p] => \E s \in Sends(p, g) : s.peer = q
    BY DEF Involved, Group
  <2> QED
    BY <1>1, <1>3, <2>1 DEF Sent, Got
<1>7. \A x \in Procs \ {p} : UNCHANGED Mine(x)
  BY <1>1 DEF IInv, Typed, Mine
<1> QED
  BY <1>1, <1>4, <1>5, <1>6, <1>7, OwnStep

\* Returning: every message of the exchange is sent and got.
LEMMA ReturnStep ==
    ASSUME LayoutsFit, IInv, NEW p \in Procs, Return(p)
    PROVE  IInv'
<1>1. /\ pc[p] = "unpack" /\ pc' = [pc EXCEPT ![p] = "compute"]
      /\ recvRequests[p] = {} /\ completed[p] = {} /\ sendRequests[p] = {}
      /\ UNCHANGED <<round, array, sendBuf, recvBuf, sendRequests, recvRequests, completed, wire>>
  BY DEF Return, Goto, requests
<1>2. pc'[p] = "compute" /\ round'[p] = round[p]
  BY <1>1 DEF IInv, Typed
<1>3. Typed'
  BY <1>1 DEF IInv, Typed
<1>4. RequestsFit(p)' /\ BuffersFit(p)'
  <2>1. RequestsFit(p) /\ BuffersFit(p)
    BY DEF IInv
  <2> QED
    BY <1>1, <1>2, <2>1 DEF RequestsFit, BuffersFit
<1>5. ASSUME NEW q \in Procs PROVE Sent(p, q)' = Sent(p, q) /\ Got(p, q)' = Got(p, q)
  BY <1>1, <1>2 DEF Sent, Got
<1>6. \A x \in Procs \ {p} : UNCHANGED Mine(x)
  BY <1>1 DEF IInv, Typed, Mine
<1> QED
  BY <1>1, <1>3, <1>4, <1>5, <1>6, OwnStep

\* What the exchange brings p from a neighbour belongs to the neighbour.
LEMMA BroughtIsForeign ==
    ASSUME LayoutsFit, NEW p \in Procs, NEW g \in Groups, NEW r \in Receives(p, g),
           NEW n \in Brought(p, g, r.peer)
    PROVE  n \in Numbers /\ n[2] \notin Owned[p] /\ r.peer \in Procs /\ r.peer # p
<1>1. r.peer \in Procs \ {p}
  BY DEF LayoutsFit, SlicesFit, Slices
<1> QED
  BY <1>1, OwnersAssumption DEF Brought

\* A message has been put into the receive buffer only if its exchange had begun on
\* the other side.
LEMMA PeerHasBegun ==
    ASSUME LayoutsFit, IInv, NEW p \in Procs, NEW r \in completed[p]
    PROVE  /\ pc[p] \notin {"compute", "receive"}
           /\ r \in Receives(p, Group(p)) /\ r.peer \in Procs \ {p}
           /\ round[r.peer] >= round[p]
<1>1. pc[p] \notin {"compute", "receive"} /\ r \in Receives(p, Group(p))
      /\ round[p] \in 1 .. Len(Program) /\ Group(p) \in Groups
      /\ recvRequests[p] \subseteq Receives(p, Group(p)) /\ r \notin recvRequests[p]
  BY InExchange DEF IInv, RequestsFit
<1>2. r.peer \in Procs \ {p}
  BY <1>1 DEF LayoutsFit, SlicesFit, Slices
<1>3. \A s \in recvRequests[p] : s.peer # r.peer
  BY <1>1 DEF LayoutsFit, SlicesFit
<1>4. round[p] \in Involved(r.peer, p)
  <2>1. \E s \in Sends(r.peer, Group(p)) : s.peer = p
    BY <1>1, <1>2 DEF LayoutsFit, PeersMatch
  <2> QED
    BY <1>1, <2>1 DEF Involved, Group
<1>5. round[p] \in Got(p, r.peer)
  BY <1>1, <1>3, <1>4 DEF Got
<1>6. round[p] \in Sent(r.peer, p)
  BY <1>2, <1>5 DEF IInv, WireFits
<1>7. round[r.peer] \in Nat /\ round[p] \in Nat
  BY <1>1, <1>2, InExchange
<1> QED
  BY <1>1, <1>2, <1>6, <1>7 DEF Sent

\* The numbers of p when the message of the receive r is unpacked, and as they are to be.
AsUnpacked(p, r) ==
    [n \in Numbers |->
        LET here == {s \in Layout[p][Group(p)].unpacked[r.peer] : s.number = n}
        IN  IF here = {} THEN array[p][n]
            ELSE recvBuf[p][r.group][(CHOOSE s \in here : TRUE).at]]
AsBrought(p, q) ==
    [n \in Numbers |-> IF n \in Brought(p, Group(p), q) THEN <<n, round[p]>> ELSE array[p][n]]

\* Unpacking a message puts the values its sender has given it where they belong.
LEMMA UnpackedAsBrought ==
    ASSUME LayoutsFit, IInv, NEW p \in Procs, NEW r \in completed[p]
    PROVE  /\ AsUnpacked(p, r) = AsBrought(p, r.peer)
           /\ AsBrought(p, r.peer) \in [Numbers -> Values \cup {Never}]
<1> DEFINE g == Group(p)
           Here(n) == {s \in Unpacked(p, g)[r.peer] : s.number = n}
<1>2. /\ r \in Receives(p, g) /\ g \in Groups /\ r.peer \in Procs
      /\ round[p] \in 0 .. Len(Program)
  <2>1. /\ pc[p] # "compute" /\ r \in Receives(p, g) /\ r.peer \in Procs
    BY PeerHasBegun
  <2>2. g \in Groups /\ round[p] \in 1 .. Len(Program)
    BY <2>1, InExchange
  <2> QED
    BY <2>1, <2>2
<1>3. r.group = g
  BY <1>2 DEF LayoutsFit, SlicesFit, Slices
<1> HIDE DEF g
<1>4. \A n : n \in Brought(p, g, r.peer) <=> Here(n) # {}
  <2>1. \A n : n \in Brought(p, g, r.peer) <=> \E t \in Unpacked(p, g)[r.peer] : t.number = n
    BY <1>2 DEF LayoutsFit, UnpackedFits
  <2> QED
    BY <2>1
<1>5. \A t \in Unpacked(p, g)[r.peer] : recvBuf[p][g][t.at] = <<t.number, round[p]>>
  BY DEF IInv, BuffersFit, g
<1>6. ASSUME NEW n \in Numbers PROVE AsUnpacked(p, r)[n] = AsBrought(p, r.peer)[n]
  <2>1. /\ AsUnpacked(p, r)[n] = IF Here(n) = {} THEN array[p][n]
                                  ELSE recvBuf[p][r.group][(CHOOSE s \in Here(n) : TRUE).at]
        /\ AsBrought(p, r.peer)[n] = IF n \in Brought(p, g, r.peer) THEN <<n, round[p]>>
                                      ELSE array[p][n]
    BY DEF AsUnpacked, AsBrought, Unpacked, g
  <2>2. CASE Here(n) = {}
    BY <1>4, <2>1, <2>2
  <2>3. CASE Here(n) # {}
    <3>1. PICK s : s = CHOOSE c \in Here(n) : TRUE
      OBVIOUS
    <3>2. s \in Here(n)
      BY <2>3, <3>1
    <3>3. recvBuf[p][r.group][s.at] = <<n, round[p]>>
      BY <1>3, <1>5, <3>2
    <3> HIDE DEF Here
    <3> QED
      BY <1>4, <2>1, <2>3, <3>1, <3>3
  <2> QED
    BY <2>2, <2>3
<1>7. /\ AsUnpacked(p, r) = [n \in Numbers |-> AsUnpacked(p, r)[n]]
      /\ AsBrought(p, r.peer) = [n \in Numbers |-> AsBrought(p, r.peer)[n]]
  <2>1. AsUnpacked(p, r) = [n \in Numbers |-> AsUnpacked(p, r)[n]]
    <3> DEFINE E(n) == LET here == {s \in Layout[p][Group(p)].unpacked[r.peer] : s.number = n}
                       IN  IF here = {} THEN array[p][n]
                           ELSE recvBuf[p][r.group][(CHOOSE s \in here : TRUE).at]
    <3>1. AsUnpacked(p, r) = [n \in Numbers |-> E(n)]
      BY DEF AsUnpacked
    <3> HIDE DEF E
    <3> QED
      BY <3>1
  <2>2. AsBrought(p, r.peer) = [n \in Numbers |-> AsBrought(p, r.peer)[n]]
    BY DEF AsBrought
  <2> QED
    BY <2>1, <2>2
<1>8. AsUnpacked(p, r) = AsBrought(p, r.peer)
  BY <1>6, <1>7
<1>9. ASSUME NEW n \in Numbers PROVE AsBrought(p, r.peer)[n] \in Values \cup {Never}
  <2>1. array[p][n] \in Values \cup {Never}
    BY DEF IInv, Typed
  <2>2. <<n, round[p]>> \in Values
    BY <1>2 DEF Values
  <2> QED
    BY <2>1, <2>2 DEF AsBrought
<1> QED
  BY <1>7, <1>8, <1>9

\* Unpacking changes halo elements only.
LEMMA UnpackStep ==
    ASSUME LayoutsFit, IInv, NEW p \in Procs, Unpack(p)
    PROVE  IInv'
<1> DEFINE g == Group(p)
<1>1. PICK r \in completed[p] :
        /\ array' = [array EXCEPT ![p] = AsUnpacked(p, r)]
        /\ completed' = [completed EXCEPT ![p] = @ \ {r}]
  BY DEF Unpack, AsUnpacked
<1>2. /\ pc[p] = "unpack"
      /\ UNCHANGED <<pc, round, sendBuf, recvBuf, sendRequests, recvRequests, wire>>
  BY DEF Unpack
<1>3. /\ array' = [array EXCEPT ![p] = AsBrought(p, r.peer)]
      /\ AsBrought(p, r.peer) \in [Numbers -> Values \cup {Never}]
  BY <1>1, UnpackedAsBrought
<1>4. Typed'
  BY <1>1, <1>2, <1>3 DEF IInv, Typed
<1>5. completed'[p] = completed[p] \ {r} /\ Group(p)' = g
  BY <1>1, <1>2 DEF IInv, Typed, Group
<1>6. \A n \in Numbers : n[2] \in Owned[p] => array'[p][n] = <<n, round[p]>>
  <2>1. \A n \in Brought(p, g, r.peer) : n[2] \notin Owned[p]
    BY PeerHasBegun, InExchange, BroughtIsForeign
  <2>2. \A n \in Numbers : n \notin Brought(p, g, r.peer) => array'[p][n] = array[p][n]
    BY <1>3 DEF IInv, Typed, AsBrought
  <2> QED
    BY <2>1, <2>2 DEF IInv, BuffersFit
<1>7. RequestsFit(p)' /\ BuffersFit(p)'
  <2>1. RequestsFit(p) /\ BuffersFit(p)
    BY DEF IInv
  <2> QED
    BY <1>2, <1>5, <1>6, <2>1 DEF RequestsFit, BuffersFit
<1>8. ASSUME NEW q \in Procs PROVE Sent(p, q)' = Sent(p, q) /\ Got(p, q)' = Got(p, q)
  BY <1>2 DEF Sent, Got
<1>9. \A x \in Procs \ {p} : UNCHANGED Mine(x)
  BY <1>1, <1>2, <1>3 DEF IInv, Typed, Mine
<1> QED
  BY <1>2, <1>4, <1>7, <1>8, <1>9, OwnStep

-----------------------------------------------------------------------------
\* A slice of c numbers behind place o of a buffer.
LEMMA SliceOf ==
    ASSUME NEW S, NEW size \in Nat, NEW b \in [1 .. size -> S],
           NEW o \in Nat, NEW c \in Nat, o + c <= size
    PROVE  /\ SubSeq(b, o + 1, o + c) \in Seq(S)
           /\ Len(SubSeq(b, o + 1, o + c)) = c
           /\ \A x \in 1 .. c : SubSeq(b, o + 1, o + c)[x] = b[o + x]
<1> PICK lo \in Int, hi \in Int : lo = o + 1 /\ hi = o + c
  OBVIOUS
<1>1. \A i \in lo .. hi : b[i] \in S
  OBVIOUS
<1>2. /\ SubSeq(b, lo, hi) \in Seq(S)
      /\ Len(SubSeq(b, lo, hi)) = IF lo <= hi THEN hi - lo + 1 ELSE 0
      /\ \A i \in 1 .. hi - lo + 1 : SubSeq(b, lo, hi)[i] = b[lo + i - 1]
  BY <1>1, SubSeqProperties
<1>3. hi - lo + 1 = c /\ (lo <= hi <=> c # 0) /\ \A i \in 1 .. c : lo + i - 1 = o + i
  OBVIOUS
<1> QED
  BY <1>2, <1>3

\* What MPI takes out of the send buffer is the message of the exchange under way.
LEMMA MessageCarries ==
    ASSUME LayoutsFit, IInv, NEW p \in Procs, NEW r \in sendRequests[p],
           NEW m, m = SubSeq(sendBuf[p][r.group], r.before + 1, r.before + r.count)
    PROVE  /\ pc[p] = "unpack" /\ r \in Sends(p, Group(p))
           /\ m \in Seq(Values) /\ Carries(p, r.peer, round[p], m)
<1> DEFINE g == Group(p)
           size == groupSendBufSize(p, g)
           buf == sendBuf[p][g]
<1>1. pc[p] = "unpack" /\ r \in Sends(p, g) /\ g \in Groups
  BY InExchange DEF IInv, RequestsFit
<1>2. r.group = g /\ r.before \in Nat /\ r.count \in Nat /\ r.before + r.count <= size /\ size \in Nat
  BY <1>1 DEF LayoutsFit, SlicesFit, Slices
<1>3. \A t \in Packed(p, g) : t.at \in Int /\ buf[t.at] = <<t.number, round[p]>>
  BY <1>1 DEF IInv, BuffersFit, LayoutsFit, PackedFits
<1>4. buf \in [1 .. size -> Values \cup {Never}]
  BY <1>1 DEF IInv, Typed
<1>5. /\ m \in Seq(Values \cup {Never}) /\ Len(m) = r.count
      /\ \A x \in 1 .. r.count : m[x] = buf[r.before + x]
  <2>1. m = SubSeq(buf, r.before + 1, r.before + r.count)
    BY <1>2
  <2> HIDE DEF buf, size
  <2>2. PICK o \in Nat, c \in Nat, n \in Nat : o = r.before /\ c = r.count /\ n = size
    BY <1>2
  <2> PICK V : V = Values \cup {Never}
    OBVIOUS
  <2>3. buf \in [1 .. n -> V] /\ o + c <= n
    BY <1>2, <1>4, <2>2
  <2>4. /\ SubSeq(buf, o + 1, o + c) \in Seq(V) /\ Len(SubSeq(buf, o + 1, o + c)) = c
        /\ \A x \in 1 .. c : SubSeq(buf, o + 1, o + c)[x] = buf[o + x]
    BY <2>3, SliceOf
  <2> QED
    BY <2>1, <2>2, <2>4
<1> HIDE DEF buf, size
<1>6. ASSUME NEW x \in 1 .. r.count PROVE m[x] \in Values
  <2>1. PICK t \in Packed(p, g) : t.at = r.before + x
    BY <1>1 DEF LayoutsFit, PackedFits
  <2>2. t.number \in Numbers /\ round[p] \in 0 .. Len(Program)
    BY <1>1, InExchange DEF LayoutsFit, PackedFits
  <2>3. <<t.number, round[p]>> \in Values
    BY <2>2 DEF Values
  <2> QED
    BY <1>3, <1>5, <2>1, <2>3
<1>7. m \in Seq(Values)
  <2>1. m \in [1 .. r.count -> Values]
    BY <1>5, <1>6, LenProperties
  <2> QED
    BY <1>2, <2>1, SeqDef
<1>8. ASSUME NEW t \in Packed(p, g), t.at - r.before \in 1 .. r.count
      PROVE  m[t.at - r.before] = <<t.number, round[p]>>
  <2>1. r.before + (t.at - r.before) = t.at
    BY <1>2, <1>3
  <2> QED
    BY <1>3, <1>5, <1>8, <2>1
<1>9. Carries(p, r.peer, round[p], m)
  <2>1. Program[round[p]] = g
    BY DEF Group
  <2> HIDE DEF g
  <2> QED
    BY <1>1, <1>5, <1>7, <1>8, <2>1 DEF Carries
<1> QED
  BY <1>1, <1>7, <1>9

\* The message goes behind those of the earlier exchanges.
LEMMA TransmitStep ==
    ASSUME LayoutsFit, IInv, NEW p \in Procs, NEW r \in sendRequests[p], Transmit(p, r)
    PROVE  IInv'
<1> DEFINE q == r.peer
           k == round[p]
           S == Sent(p, q) \ Got(q, p)
<1> PICK m : m = SubSeq(sendBuf[p][r.group], r.before + 1, r.before + r.count)
  OBVIOUS
<1>1. /\ wire' = [wire EXCEPT ![p][q] = Append(@, m)]
      /\ sendRequests' = [sendRequests EXCEPT ![p] = @ \ {r}]
      /\ UNCHANGED <<pc, round, array, sendBuf, recvBuf, recvRequests, completed>>
  BY DEF Transmit
<1>2. /\ pc[p] = "unpack" /\ r \in Sends(p, Group(p))
      /\ m \in Seq(Values) /\ Carries(p, q, k, m)
  BY MessageCarries
<1>3. /\ k \in 1 .. Len(Program) /\ Group(p) \in Groups
      /\ \A s \in sendRequests[p] : s \in Sends(p, Group(p))
  BY <1>2, InExchange DEF IInv, RequestsFit
<1>4. /\ q \in Procs /\ wire[p][q] \in Seq(Seq(Values)) /\ wire'[p][q] = Append(wire[p][q], m)
      /\ sendRequests'[p] = sendRequests[p] \ {r}
  <2>1. q \in Procs
    BY <1>2, <1>3 DEF LayoutsFit, SlicesFit, Slices
  <2> QED
    BY <1>1, <2>1 DEF IInv, Typed
<1>5. \A x \in Procs, y \in Procs : ~(x = p /\ y = q) => wire'[x][y] = wire[x][y]
  BY <1>1 DEF IInv, Typed
<1>6. \A x \in Procs : x # p => UNCHANGED Mine(x)
  BY <1>1 DEF IInv, Typed, Mine
<1>7. \A s \in sendRequests[p] : s # r => s.peer # q
  BY <1>2, <1>3 DEF LayoutsFit, SlicesFit
<1>8. k \in Involved(p, q)
  BY <1>2, <1>3 DEF Involved, Group
<1>9. k \notin Sent(p, q) /\ Sent(p, q)' = Sent(p, q) \cup {k}
  BY <1>1, <1>2, <1>3, <1>4, <1>7, <1>8 DEF Sent
<1>10. \A j \in Sent(p, q) : j < k
  BY <1>3 DEF Sent
<1>11. Typed'
  <2>1. Append(wire[p][q], m) \in Seq(Seq(Values))
    BY <1>2, <1>4, AppendProperties
  <2> QED
    BY <1>1, <1>4, <2>1 DEF IInv, Typed
<1>12. ASSUME NEW x \in Procs PROVE RequestsFit(x)' /\ BuffersFit(x)'
  <2>1. RequestsFit(x) /\ BuffersFit(x)
    BY DEF IInv
  <2>2. CASE x = p
    <3>1. Group(p)' = Group(p)
      BY <1>1 DEF Group
    <3>2. RequestsFit(p)'
      BY <1>1, <1>2, <1>4, <2>1, <2>2, <3>1 DEF RequestsFit
    <3>3. BuffersFit(p)'
      <4>1. /\ pc'[p] = pc[p] /\ round'[p] = round[p] /\ array'[p] = array[p]
            /\ sendBuf'[p] = sendBuf[p] /\ recvBuf'[p] = recvBuf[p] /\ completed'[p] = completed[p]
        BY <1>1
      <4>2. BuffersFit(p)
        BY <2>1, <2>2
      <4> QED
        BY <3>1, <4>1, <4>2 DEF BuffersFit
    <3> QED
      BY <2>2, <3>2, <3>3
  <2>3. CASE x # p
    BY <1>6, <2>1, <2>3, TaskFramed
  <2> QED
    BY <2>2, <2>3
<1>13. \A x \in Procs, y \in Procs : Got(x, y)' = Got(x, y)
  BY <1>1 DEF Got
<1>14. ASSUME NEW x \in Procs, NEW y \in Procs, ~(x = p /\ y = q)
       PROVE  Sent(x, y)' = Sent(x, y)
  <2>1. CASE x = p
    <3>1. (\A s \in sendRequests[p] \ {r} : s.peer # y) <=> (\A s \in sendRequests[p] : s.peer # y)
      BY <1>14, <2>1
    <3> QED
      BY <1>1, <1>4, <2>1, <3>1 DEF Sent
  <2>2. CASE x # p
    BY <1>6, <2>2, SentFramed DEF Mine
  <2> QED
    BY <2>1, <2>2
<1>15. ASSUME NEW x \in Procs, NEW y \in Procs PROVE WireFits(x, y)'
  <2>1. WireFits(x, y)
    BY DEF IInv
  <2>2. CASE x = p /\ y = q
    <3>1. Got(q, p) \subseteq Sent(p, q) /\ Queue(p, q, wire[p][q], S)
      BY <2>1, <2>2 DEF WireFits
    <3>2. Got(q, p)' = Got(q, p)
      BY <1>4, <1>13
    <3>3. (Sent(p, q) \cup {k}) \ Got(q, p) = S \cup {k}
      BY <1>9, <3>1
    <3>4. \A j \in S \cap (1 .. Len(Program)) : j < k
      BY <1>10
    <3> HIDE DEF S
    <3>5. Queue(p, q, Append(wire[p][q], m), S \cup {k})
      BY <1>2, <1>3, <1>4, <3>1, <3>4, QueueAppend
    <3>6. Queue(p, q, wire'[p][q], Sent(p, q)' \ Got(q, p)')
      BY <1>4, <1>9, <3>2, <3>3, <3>5
    <3>7. Got(q, p)' \subseteq Sent(p, q)'
      BY <1>9, <3>1, <3>2
    <3> QED
      BY <2>2, <3>6, <3>7 DEF WireFits
  <2>3. CASE ~(x = p /\ y = q)
    BY <1>5, <1>13, <1>14, <2>1, <2>3, WireFramed
  <2> QED
    BY <2>2, <2>3
<1> QED
  BY <1>11, <1>12, <1>15 DEF IInv

\* The oldest message of a neighbour a task has a receive for is the one of the
\* exchange the task is in, with as many numbers as the receive is for.
LEMMA HeadIsOfThisExchange ==
    ASSUME LayoutsFit, IInv, NEW p \in Procs, NEW r \in recvRequests[p],
           wire[r.peer][p] # <<>>
    PROVE  LET q == r.peer  k == round[p]  w == wire[q][p]
           IN  /\ r \in Receives(p, Group(p)) /\ Group(p) \in Groups /\ q \in Procs \ {p}
               /\ pc[p] \notin {"compute", "receive"}
               /\ k \in Sent(q, p) /\ k \notin Got(p, q) /\ k \in Involved(q, p)
               /\ Carries(q, p, k, Head(w))
               /\ Head(w) \in Seq(Values) /\ Len(Head(w)) = r.count
               /\ Queue(q, p, Tail(w), (Sent(q, p) \ Got(p, q)) \ {k})
<1> DEFINE q == r.peer
           k == round[p]
           w == wire[q][p]
           S == Sent(q, p) \ Got(p, q)
<1>1. /\ pc[p] \notin {"compute", "receive"} /\ r \in Receives(p, Group(p))
      /\ Group(p) \in Groups /\ k \in 1 .. Len(Program)
  BY InExchange DEF IInv, RequestsFit
<1>2. q \in Procs \ {p} /\ w \in Seq(Seq(Values)) /\ round[q] \in Nat
  <2>1. q \in Procs \ {p}
    BY <1>1 DEF LayoutsFit, SlicesFit, Slices
  <2> QED
    BY <2>1, InExchange DEF IInv, Typed
<1>3. k \in Involved(q, p)
  <2>1. \E s \in Sends(q, Group(p)) : s.peer = p
    BY <1>1, <1>2 DEF LayoutsFit, PeersMatch
  <2> QED
    BY <1>1, <2>1 DEF Involved, Group
<1>4. k \notin Got(p, q)
  BY <1>1 DEF Got
<1>5. \A j \in Involved(q, p) : j < k => j \in Got(p, q)
  BY DEF Got
<1>6. S \subseteq Involved(q, p) /\ \A j \in Involved(q, p) : j \in 1 .. Len(Program)
  BY DEF Sent, Involved
<1>7. Queue(q, p, w, S)
  BY <1>2 DEF IInv, WireFits
<1>8. PICK j \in S \cap (1 .. Len(Program)) :
         /\ \A i \in S \cap (1 .. Len(Program)) : j <= i
         /\ Carries(q, p, j, Head(w))
         /\ Queue(q, p, Tail(w), S \ {j})
  <2> HIDE DEF S
  <2> QED
    BY <1>2, <1>7, QueueHead
<1>9. j \in Sent(q, p) /\ k <= j
  BY <1>1, <1>5, <1>6, <1>8
<1>10. k \in Sent(q, p)
  BY <1>1, <1>2, <1>3, <1>8, <1>9 DEF Sent
<1>11. j = k
  BY <1>1, <1>4, <1>8, <1>9, <1>10
<1>12. Head(w) \in Seq(Values) /\ Len(Head(w)) = r.count
  <2>1. PICK s \in Sends(q, Program[k]) : s.peer = p /\ Head(w) \in Seq(Values) /\ Len(Head(w)) = s.count
    BY <1>8, <1>11 DEF Carries
  <2>2. Program[k] = Group(p)
    BY DEF Group
  <2>3. PICK t \in Receives(p, Group(p)) : t.peer = q /\ t.count = s.count
    <3>1. \A g \in Groups : \A u \in Sends(q, g) :
             u.peer = p => \E t \in Receives(p, g) : t.peer = q /\ t.count = u.count
      BY <1>2 DEF LayoutsFit, PeersMatch
    <3> QED
      BY <1>1, <2>1, <2>2, <3>1
  <2>4. t = r
    BY <1>1, <2>3 DEF LayoutsFit, SlicesFit
  <2> QED
    BY <2>1, <2>3, <2>4
<1> QED
  BY <1>1, <1>2, <1>3, <1>4, <1>8, <1>10, <1>11, <1>12

\* A receive puts the message of the exchange into its slice.
LEMMA DeliverStep ==
    ASSUME LayoutsFit, IInv, NEW p \in Procs, Deliver(p)
    PROVE  IInv'
<1>1. PICK r \in recvRequests[p] :
         /\ wire[r.peer][p] # <<>>
         /\ recvBuf' = [recvBuf EXCEPT ![p][r.group] = [x \in DOMAIN @ |->
               IF x - r.before \in DOMAIN Head(wire[r.peer][p])
               THEN Head(wire[r.peer][p])[x - r.before] ELSE @[x]]]
         /\ wire' = [wire EXCEPT ![r.peer][p] = Tail(@)]
         /\ recvRequests' = [recvRequests EXCEPT ![p] = @ \ {r}]
         /\ completed' = [completed EXCEPT ![p] = @ \cup {r}]
         /\ UNCHANGED <<pc, round, array, sendBuf, sendRequests>>
  BY DEF Deliver
<1> PICK q, k, g, m, size : q = r.peer /\ k = round[p] /\ g = Group(p) /\ m = Head(wire[q][p])
                            /\ size = groupRecvBufSize(p, g)
  OBVIOUS
<1> PICK new : new = [x \in DOMAIN recvBuf[p][g] |->
                        IF x - r.before \in DOMAIN m THEN m[x - r.before] ELSE recvBuf[p][g][x]]
  OBVIOUS
<1>2. /\ r \in Receives(p, g) /\ g \in Groups /\ q \in Procs \ {p}
      /\ pc[p] \notin {"compute", "receive"}
      /\ k \in Sent(q, p) /\ k \notin Got(p, q) /\ k \in Involved(q, p)
      /\ Carries(q, p, k, m)
      /\ m \in Seq(Values) /\ Len(m) = r.count
      /\ Queue(q, p, Tail(wire[q][p]), (Sent(q, p) \ Got(p, q)) \ {k})
  BY <1>1, HeadIsOfThisExchange
<1>3. /\ r.group = g /\ r.before \in Nat /\ r.count \in Nat /\ size \in Nat
      /\ r.before + r.count <= size
  BY <1>2 DEF LayoutsFit, SlicesFit, Slices
<1>4. /\ wire[q][p] \in Seq(Seq(Values)) /\ wire[q][p] # <<>>
      /\ recvBuf[p][g] \in [1 .. size -> Values \cup {Never}]
      /\ DOMAIN recvBuf = Procs /\ DOMAIN recvBuf[p] = Groups
  BY <1>1, <1>2 DEF IInv, Typed
<1>5. /\ recvBuf' = [recvBuf EXCEPT ![p][g] = new]
      /\ wire' = [wire EXCEPT ![q][p] = Tail(@)]
  BY <1>1, <1>3
<1>6. /\ recvBuf'[p][g] = new /\ wire'[q][p] = Tail(wire[q][p])
      /\ recvRequests'[p] = recvRequests[p] \ {r} /\ completed'[p] = completed[p] \cup {r}
  <2>1. recvBuf'[p][g] = new
    BY <1>2, <1>4, <1>5
  <2>2. wire'[q][p] = Tail(wire[q][p])
    BY <1>2, <1>5 DEF IInv, Typed
  <2>3. recvRequests'[p] = recvRequests[p] \ {r} /\ completed'[p] = completed[p] \cup {r}
    BY <1>1 DEF IInv, Typed
  <2> QED
    BY <2>1, <2>2, <2>3
<1>7. \A x \in Procs, y \in Procs : ~(x = q /\ y = p) => wire'[x][y] = wire[x][y]
  <2> SUFFICES ASSUME NEW x \in Procs, NEW y \in Procs, ~(x = q /\ y = p)
               PROVE  wire'[x][y] = wire[x][y]
    OBVIOUS
  <2>1. wire' = [wire EXCEPT ![q][p] = Tail(@)] /\ wire \in [Procs -> [Procs -> Seq(Seq(Values))]]
    BY <1>5 DEF IInv, Typed
  <2>2. CASE x = q
    BY <2>1, <2>2
  <2>3. CASE x # q
    BY <2>1, <2>3
  <2> QED
    BY <2>2, <2>3
<1>8. \A x \in Procs : x # p => UNCHANGED Mine(x)
  BY <1>1, <1>5 DEF IInv, Typed, Mine
<1>9. DOMAIN m = 1 .. r.count /\ \A x \in DOMAIN m : m[x] \in Values
  BY <1>2, LenProperties, ElementOfSeq
<1>10. Group(p)' = g
  BY <1>1 DEF Group
<1>11. /\ RequestsFit(p) /\ BuffersFit(p)
       /\ recvRequests[p] \cup completed[p] \subseteq Receives(p, g)
       /\ recvRequests[p] \cap completed[p] = {}
  BY <1>2 DEF IInv, RequestsFit
<1>12. new \in [1 .. size -> Values \cup {Never}]
  BY <1>4, <1>9
<1>13. \A t \in Unpacked(p, g)[q] : new[t.at] = <<t.number, k>>
  <2> SUFFICES ASSUME NEW t \in Unpacked(p, g)[q] PROVE new[t.at] = <<t.number, k>>
    OBVIOUS
  <2>1. /\ t.at \in r.before + 1 .. r.before + r.count
        /\ \E s \in Sends(q, g), u \in Packed(q, g) :
              s.peer = p /\ u.number = t.number /\ u.at - s.before = t.at - r.before
    BY <1>2 DEF LayoutsFit, UnpackedFits
  <2>2. PICK s \in Sends(q, g), u \in Packed(q, g) :
              s.peer = p /\ u.number = t.number /\ u.at - s.before = t.at - r.before
    BY <2>1
  <2> PICK h : h = Program[k]
    OBVIOUS
  <2>0. h = g
    BY DEF Group
  <2>3. PICK s2 \in Sends(q, h) :
           /\ s2.peer = p /\ m \in Seq(Values) /\ Len(m) = s2.count
           /\ \A v \in Packed(q, h) :
                 v.at - s2.before \in 1 .. s2.count => m[v.at - s2.before] = <<v.number, k>>
    BY <1>2 DEF Carries
  <2>4. s2 = s
    BY <1>2, <2>0, <2>2, <2>3 DEF LayoutsFit, SlicesFit
  <2>5. t.at - r.before \in 1 .. r.count /\ t.at \in 1 .. size
    BY <1>3, <2>1
  <2>6. m[t.at - r.before] = <<t.number, k>>
    BY <1>2, <2>0, <2>2, <2>3, <2>4, <2>5
  <2> QED
    BY <1>4, <1>9, <2>5, <2>6
<1>14. ASSUME NEW c \in completed[p], NEW t \in Unpacked(p, g)[c.peer]
       PROVE  new[t.at] = <<t.number, k>>
  <2>1. c \in Receives(p, g) /\ c # r /\ c.peer \in Procs
    BY <1>2, <1>11 DEF LayoutsFit, SlicesFit, Slices
  <2>2. t.at \in c.before + 1 .. c.before + c.count
    BY <1>2, <2>1 DEF LayoutsFit, UnpackedFits
  <2>3. /\ c.before \in Nat /\ c.count \in Nat /\ c.before + c.count <= size
        /\ \/ c.before + c.count <= r.before
           \/ r.before + r.count <= c.before
    BY <1>2, <2>1 DEF LayoutsFit, SlicesFit, Slices
  <2>4. t.at \in 1 .. size /\ ~(t.at - r.before \in 1 .. r.count)
    BY <1>3, <2>2, <2>3
  <2>5. new[t.at] = recvBuf[p][g][t.at]
    BY <1>4, <1>9, <2>4
  <2> QED
    BY <1>11, <2>5 DEF BuffersFit
<1>15. Typed'
  <2>1. ASSUME NEW x \in Procs, NEW h \in Groups
        PROVE  recvBuf'[x][h] \in [1 .. groupRecvBufSize(x, h) -> Values \cup {Never}]
    <3>1. CASE x = p /\ h = g
      BY <1>6, <1>12, <3>1
    <3>2. CASE ~(x = p /\ h = g)
      <4>1. recvBuf'[x][h] = recvBuf[x][h]
        BY <1>4, <1>5, <3>2 DEF IInv, Typed
      <4> QED
        BY <4>1 DEF IInv, Typed
    <3> QED
      BY <3>1, <3>2
  <2>2. DOMAIN recvBuf' = Procs /\ \A x \in Procs : DOMAIN recvBuf'[x] = Groups
    BY <1>5 DEF IInv, Typed
  <2>3. wire' \in [Procs -> [Procs -> Seq(Seq(Values))]]
    <3>1. Tail(wire[q][p]) \in Seq(Seq(Values))
      BY <1>4, HeadTailProperties
    <3> QED
      BY <1>2, <1>5, <3>1 DEF IInv, Typed
  <2> QED
    BY <1>1, <2>1, <2>2, <2>3 DEF IInv, Typed
<1>16. RequestsFit(p)'
  BY <1>1, <1>2, <1>6, <1>10, <1>11 DEF RequestsFit
<1>17. BuffersFit(p)'
  <2>1. /\ pc'[p] = pc[p] /\ round'[p] = k /\ array'[p] = array[p] /\ sendBuf'[p] = sendBuf[p]
    BY <1>1
  <2>2. ASSUME NEW c \in completed'[p], NEW t \in Unpacked(p, g)[c.peer]
        PROVE  recvBuf'[p][g][t.at] = <<t.number, k>>
    BY <1>6, <1>13, <1>14
  <2> QED
    BY <1>10, <1>11, <2>1, <2>2 DEF BuffersFit
<1>18. ASSUME NEW x \in Procs PROVE RequestsFit(x)' /\ BuffersFit(x)'
  <2>1. CASE x = p
    BY <1>16, <1>17, <2>1
  <2>2. CASE x # p
    BY <1>8, <2>2, TaskFramed DEF IInv
  <2> QED
    BY <2>1, <2>2
<1>19. \A x \in Procs, y \in Procs : Sent(x, y)' = Sent(x, y)
  BY <1>1 DEF Sent
<1>20. Got(p, q)' = Got(p, q) \cup {k}
  <2>1. \A c \in recvRequests[p] : c # r => c.peer # q
    BY <1>2, <1>11 DEF LayoutsFit, SlicesFit
  <2>2. (\A c \in recvRequests[p] \ {r} : c.peer # q) /\ ~(\A c \in recvRequests[p] : c.peer # q)
    BY <2>1
  <2> QED
    BY <1>1, <1>2, <1>6, <2>2 DEF Got
<1>21. ASSUME NEW x \in Procs, NEW y \in Procs, ~(x = p /\ y = q)
       PROVE  Got(x, y)' = Got(x, y)
  <2>1. CASE x = p
    <3>1. (\A c \in recvRequests[p] \ {r} : c.peer # y) <=> (\A c \in recvRequests[p] : c.peer # y)
      BY <1>21, <2>1
    <3> QED
      BY <1>1, <1>6, <2>1, <3>1 DEF Got
  <2>2. CASE x # p
    BY <1>8, <2>2, GotFramed DEF Mine
  <2> QED
    BY <2>1, <2>2
<1>22. ASSUME NEW x \in Procs, NEW y \in Procs PROVE WireFits(x, y)'
  <2>1. WireFits(x, y)
    BY DEF IInv
  <2>2. CASE x = q /\ y = p
    <3>1. (Sent(q, p) \ Got(p, q)) \ {k} = Sent(q, p) \ (Got(p, q) \cup {k})
      OBVIOUS
    <3>2. Queue(q, p, wire'[q][p], Sent(q, p)' \ Got(p, q)')
      BY <1>2, <1>6, <1>19, <1>20, <3>1
    <3>3. Got(p, q)' \subseteq Sent(q, p)'
      BY <1>2, <1>19, <1>20, <2>1, <2>2 DEF WireFits
    <3> QED
      BY <2>2, <3>2, <3>3 DEF WireFits
  <2>3. CASE ~(x = q /\ y = p)
    BY <1>7, <1>19, <1>21, <2>1, <2>3, WireFramed
  <2> QED
    BY <2>2, <2>3
<1> QED
  BY <1>15, <1>18, <1>22 DEF IInv

\* Every step leaves the requests, the buffers and the messages under way as they are
\* to be.
LEMMA NextInv == LayoutsFit /\ IInv /\ [Next]_vars => IInv'
<1> SUFFICES ASSUME LayoutsFit, IInv, [Next]_vars PROVE IInv'
  OBVIOUS
<1>1. ASSUME UNCHANGED vars PROVE IInv'
  <2>1. UNCHANGED <<pc, round, array, sendBuf, recvBuf, sendRequests, recvRequests, completed, wire>>
    BY <1>1 DEF vars, requests
  <2>2. \A p \in Procs : UNCHANGED Mine(p)
    BY <2>1 DEF Mine
  <2>3. \A p \in Procs : RequestsFit(p)' /\ BuffersFit(p)'
    BY <2>2, TaskFramed DEF IInv
  <2>4. \A p, q \in Procs : WireFits(p, q)'
    BY <2>1, SentFramed, GotFramed, WireFramed DEF IInv
  <2>5. Typed'
    BY <2>1 DEF IInv, Typed
  <2> QED
    BY <2>3, <2>4, <2>5 DEF IInv
<1>2. ASSUME NEW p \in Procs, Task(p) PROVE IInv'
  BY <1>2, ComputeStep, PostReceivesStep, PackStep, PostSendsStep, UnpackStep, ReturnStep DEF Task
<1>3. ASSUME NEW p \in Procs, Deliver(p) PROVE IInv'
  BY <1>3, DeliverStep
<1>4. ASSUME NEW p \in Procs, NEW r \in sendRequests[p], Transmit(p, r) PROVE IInv'
  BY <1>4, TransmitStep
<1> QED
  BY <1>1, <1>2, <1>3, <1>4 DEF Next

-----------------------------------------------------------------------------
(* The exchanges are the ones module HaloUpdate promises. *)

\* A task whose place and requests are left alone waits for the same neighbours.
LEMMA PendingFramed ==
    ASSUME NEW p, pc'[p] = pc[p], round'[p] = round[p], recvRequests'[p] = recvRequests[p],
           completed'[p] = completed[p]
    PROVE  Pending(p)' = Pending(p)
<1>1. Group(p)' = Group(p)
  BY DEF Group
<1> QED
  BY <1>1 DEF Pending

\* What the exchanges bring, by exchange.
LEMMA BringsAre ==
    ASSUME LayoutsFit, NEW p \in Procs, NEW k \in 1 .. Len(Program)
    PROVE  /\ DOMAIN Brings[p][k] = DOMAIN Unpacked(p, Program[k])
           /\ \A q \in DOMAIN Brings[p][k] : Brings[p][k][q] = Brought(p, Program[k], q)
<1>1. k \in DOMAIN Program /\ Program[k] \in Groups
  BY ProgramFacts, SizesAssumption, LenProperties
<1>2. Brings[p][k] = [q \in {q \in Procs : Brought(p, Program[k], q) # {}} |-> Brought(p, Program[k], q)]
  BY <1>1 DEF Brings
<1>3. DOMAIN Unpacked(p, Program[k]) \subseteq Procs
  BY <1>1 DEF LayoutsFit, UnpackedFits
<1>4. \A q \in Procs : q \in DOMAIN Unpacked(p, Program[k]) <=> Brought(p, Program[k], q) # {}
  BY <1>1 DEF LayoutsFit, UnpackedFits
<1> QED
  BY <1>2, <1>3, <1>4

\* The initial states are those of HaloUpdate.
LEMMA InitRefines == Init => Update!Init
<1> SUFFICES ASSUME Init PROVE Update!Init
  OBVIOUS
<1>1. /\ round = [p \in Procs |-> 0] /\ \A p \in Procs : pc[p] = "compute"
      /\ array = [p \in Procs |-> [n \in Numbers |-> IF n[2] \in Owned[p] THEN <<n, 0>> ELSE Never]]
  BY DEF Init
<1>2. stillPending = [p \in Procs |-> {}]
  BY <1>1 DEF stillPending, Pending
<1>3. \A p \in Procs, n \in Numbers : n \in Owns[p] <=> n[2] \in Owned[p]
  BY DEF Owns
<1>4. array = [p \in Procs |-> [n \in Numbers |-> IF n \in Owns[p] THEN <<n, 0>> ELSE Update!Never]]
  BY <1>1, <1>3 DEF Never, Update!Never
<1> QED
  BY <1>1, <1>2, <1>4 DEF Update!Init

\* Compute is Begin.
LEMMA ComputeBegins ==
    ASSUME LayoutsFit, IInv, NEW p \in Procs, Compute(p)
    PROVE  Update!Begin(p)
<1>1. /\ pc[p] = "compute" /\ pc' = [pc EXCEPT ![p] = "receive"]
      /\ round[p] < Len(Program) /\ round' = [round EXCEPT ![p] = @ + 1]
      /\ array' = [array EXCEPT ![p] = [n \in Numbers |->
                      IF n[2] \in Owned[p] THEN <<n, round[p] + 1>> ELSE @[n]]]
      /\ UNCHANGED <<recvRequests, completed>>
  BY DEF Compute, Goto, requests
<1>2. round[p] + 1 \in 1 .. Len(Program)
  BY <1>1, InExchange
<1>3. pc'[p] = "receive" /\ round'[p] = round[p] + 1
  BY <1>1 DEF IInv, Typed
<1>4. Pending(p)' = DOMAIN Brings[p][round[p] + 1]
  <2>1. Pending(p)' = DOMAIN Unpacked(p, Program[round[p] + 1])
    BY <1>3 DEF Pending, Group, Unpacked
  <2> QED
    BY <1>2, <2>1, BringsAre
<1>5. \A x \in Procs \ {p} : Pending(x)' = Pending(x)
  BY <1>1, PendingFramed DEF IInv, Typed
<1>6. stillPending' = [stillPending EXCEPT ![p] = DOMAIN Brings[p][round[p] + 1]]
  BY <1>4, <1>5 DEF stillPending
<1>7. stillPending[p] = {}
  BY <1>1 DEF stillPending, Pending
<1>8. array' = [array EXCEPT ![p] = [n \in Numbers |->
                      IF n \in Owns[p] THEN <<n, round[p] + 1>> ELSE @[n]]]
  <2>1. \A n \in Numbers : n \in Owns[p] <=> n[2] \in Owned[p]
    BY DEF Owns
  <2> QED
    BY <1>1, <2>1
<1> QED
  BY <1>1, <1>6, <1>7, <1>8 DEF Update!Begin

\* Unpack is Receive.
LEMMA UnpackReceives ==
    ASSUME LayoutsFit, IInv, NEW p \in Procs, Unpack(p)
    PROVE  \E q \in Procs : Update!Receive(p, q)
<1>1. PICK r \in completed[p] :
        /\ array' = [array EXCEPT ![p] = AsUnpacked(p, r)]
        /\ completed' = [completed EXCEPT ![p] = @ \ {r}]
  BY DEF Unpack, AsUnpacked
<1>2. pc[p] = "unpack" /\ UNCHANGED <<pc, round, recvRequests>>
  BY DEF Unpack
<1>3. /\ r \in Receives(p, Group(p)) /\ r.peer \in Procs \ {p} /\ round[r.peer] >= round[p]
      /\ round[p] \in 1 .. Len(Program) /\ Group(p) \in Groups
      /\ recvRequests[p] \cup completed[p] \subseteq Receives(p, Group(p))
      /\ r \notin recvRequests[p]
  BY <1>2, PeerHasBegun, InExchange DEF IInv, RequestsFit
<1>4. completed'[p] = completed[p] \ {r}
  BY <1>1 DEF IInv, Typed
<1>5. Pending(p) = {s.peer : s \in recvRequests[p] \cup completed[p]}
      /\ Pending(p)' = {s.peer : s \in recvRequests[p] \cup (completed[p] \ {r})}
  BY <1>2, <1>4 DEF Pending
<1>6. \A s \in recvRequests[p] \cup completed[p] : s # r => s.peer # r.peer
  BY <1>3 DEF LayoutsFit, SlicesFit
<1>7. r.peer \in Pending(p) /\ Pending(p)' = Pending(p) \ {r.peer}
  BY <1>3, <1>5, <1>6
<1>8. stillPending' = [stillPending EXCEPT ![p] = @ \ {r.peer}]
  <2>1. \A x \in Procs \ {p} : Pending(x)' = Pending(x)
    BY <1>1, <1>2, PendingFramed DEF IInv, Typed
  <2> QED
    BY <1>7, <2>1 DEF stillPending
<1>9. array' = [array EXCEPT ![p] = AsBrought(p, r.peer)]
  BY <1>1, UnpackedAsBrought
<1>10. Brings[p][round[p]][r.peer] = Brought(p, Group(p), r.peer)
  <2>1. r.peer \in DOMAIN Unpacked(p, Group(p))
    BY <1>3 DEF LayoutsFit, UnpackedFits
  <2> QED
    BY <1>3, <2>1, BringsAre DEF Group
<1>11. array' = [array EXCEPT ![p] = [n \in Numbers |->
              IF n \in Brings[p][round[p]][r.peer] THEN <<n, round[p]>> ELSE @[n]]]
  BY <1>9, <1>10 DEF AsBrought
<1>12. r.peer \in stillPending[p]
  BY <1>7 DEF stillPending
<1>13. Update!Receive(p, r.peer)
  BY <1>2, <1>3, <1>8, <1>11, <1>12 DEF Update!Receive
<1> QED
  BY <1>3, <1>13

\* The other steps are not seen.
LEMMA OthersUnseen ==
    ASSUME LayoutsFit, IInv, NEW p \in Procs, UNCHANGED <<round, array>>,
           \A x \in Procs \ {p} : UNCHANGED Mine(x), Pending(p)' = Pending(p)
    PROVE  UNCHANGED Update!vars
<1>1. \A x \in Procs : Pending(x)' = Pending(x)
  BY PendingFramed DEF Mine
<1> QED
  BY <1>1 DEF Update!vars, stillPending

\* Every step of the exchanges is one of HaloUpdate, or is not seen.
LEMMA StepRefines == LayoutsFit /\ IInv /\ [Next]_vars => [Update!Next]_(Update!vars)
<1> SUFFICES ASSUME LayoutsFit, IInv, [Next]_vars PROVE [Update!Next]_(Update!vars)
  OBVIOUS
<1>1. ASSUME UNCHANGED vars PROVE UNCHANGED Update!vars
  <2>1. UNCHANGED <<pc, round, array, recvRequests, completed>>
    BY <1>1 DEF vars, requests
  <2>2. \A x \in Procs : Pending(x)' = Pending(x)
    BY <2>1, PendingFramed
  <2> QED
    BY <2>1, <2>2 DEF Update!vars, stillPending
<1>2. ASSUME NEW p \in Procs, Compute(p) PROVE Update!Next
  BY <1>2, ComputeBegins DEF Update!Next
<1>3. ASSUME NEW p \in Procs, Unpack(p) PROVE Update!Next
  BY <1>3, UnpackReceives DEF Update!Next
<1>4. ASSUME NEW p \in Procs, PostReceives(p) PROVE UNCHANGED Update!vars
  <2>1. /\ pc[p] = "receive" /\ pc' = [pc EXCEPT ![p] = "pack"]
        /\ recvRequests' = [recvRequests EXCEPT ![p] = @ \cup Receives(p, Group(p))]
        /\ UNCHANGED <<round, array, sendBuf, recvBuf, sendRequests, completed, wire>>
    BY <1>4 DEF PostReceives, Goto, Receives
  <2>2. /\ Group(p) \in Groups /\ recvRequests[p] = {} /\ completed[p] = {}
    BY <2>1, InExchange DEF IInv, RequestsFit
  <2>3. pc'[p] = "pack" /\ recvRequests'[p] = Receives(p, Group(p)) /\ completed'[p] = {}
    BY <2>1, <2>2 DEF IInv, Typed
  <2>4. Pending(p) = DOMAIN Unpacked(p, Group(p))
        /\ Pending(p)' = {r.peer : r \in Receives(p, Group(p))}
    BY <2>1, <2>3 DEF Pending, Unpacked
  <2>5. DOMAIN Unpacked(p, Group(p)) = {r.peer : r \in Receives(p, Group(p))}
    <3>1. DOMAIN Unpacked(p, Group(p)) \subseteq Procs
      BY <2>2 DEF LayoutsFit, UnpackedFits
    <3>2. \A r \in Receives(p, Group(p)) : r.peer \in Procs
      BY <2>2 DEF LayoutsFit, SlicesFit, Slices
    <3>3. \A q \in Procs : q \in DOMAIN Unpacked(p, Group(p)) <=>
                           \E r \in Receives(p, Group(p)) : r.peer = q
      BY <2>2 DEF LayoutsFit, UnpackedFits
    <3> QED
      BY <3>1, <3>2, <3>3
  <2>6. \A x \in Procs \ {p} : UNCHANGED Mine(x)
    BY <2>1 DEF IInv, Typed, Mine
  <2> QED
    BY <2>1, <2>4, <2>5, <2>6, OthersUnseen
<1>5. ASSUME NEW p \in Procs, Pack(p) \/ PostSends(p) \/ Return(p) PROVE UNCHANGED Update!vars
  <2>1. /\ UNCHANGED <<round, array, recvRequests, completed>>
        /\ \E l \in {"send", "unpack", "compute"} :
              /\ pc' = [pc EXCEPT ![p] = l]
              /\ l = "compute" => recvRequests[p] = {} /\ completed[p] = {}
        /\ pc[p] \in {"pack", "send", "unpack"}
    BY <1>5 DEF Pack, PostSends, Return, Goto, requests
  <2>2. \A x \in Procs \ {p} : pc'[x] = pc[x]
    BY <2>1 DEF IInv, Typed
  <2>3. /\ pc'[p] \in {"send", "unpack", "compute"}
        /\ pc'[p] = "compute" => recvRequests[p] = {} /\ completed[p] = {}
    BY <2>1 DEF IInv, Typed
  <2>4. Pending(p)' = Pending(p)
    BY <2>1, <2>3 DEF Pending
  <2>5. \A x \in Procs : Pending(x)' = Pending(x)
    BY <2>1, <2>2, <2>4, PendingFramed
  <2> QED
    BY <2>1, <2>5 DEF Update!vars, stillPending
<1>6. ASSUME NEW p \in Procs, Deliver(p) PROVE UNCHANGED Update!vars
  <2>1. PICK r \in recvRequests[p] :
           /\ recvRequests' = [recvRequests EXCEPT ![p] = @ \ {r}]
           /\ completed' = [completed EXCEPT ![p] = @ \cup {r}]
           /\ UNCHANGED <<pc, round, array>>
    BY <1>6 DEF Deliver
  <2>2. /\ recvRequests'[p] \cup completed'[p] = recvRequests[p] \cup completed[p]
        /\ \A x \in Procs \ {p} : recvRequests'[x] = recvRequests[x] /\ completed'[x] = completed[x]
    BY <2>1 DEF IInv, Typed
  <2>3. pc[p] \notin {"compute", "receive"}
    BY DEF IInv, RequestsFit
  <2>4. Pending(p)' = Pending(p)
    BY <2>1, <2>2, <2>3 DEF Pending
  <2>5. \A x \in Procs : Pending(x)' = Pending(x)
    BY <2>1, <2>2, <2>4, PendingFramed
  <2> QED
    BY <2>1, <2>5 DEF Update!vars, stillPending
<1>7. ASSUME NEW p \in Procs, NEW r \in sendRequests[p], Transmit(p, r)
      PROVE  UNCHANGED Update!vars
  <2>1. UNCHANGED <<pc, round, array, recvRequests, completed>>
    BY <1>7 DEF Transmit
  <2>2. \A x \in Procs : Pending(x)' = Pending(x)
    BY <2>1, PendingFramed
  <2> QED
    BY <2>1, <2>2 DEF Update!vars, stillPending
<1> QED
  BY <1>1, <1>2, <1>3, <1>4, <1>5, <1>6, <1>7 DEF Next, Task

-----------------------------------------------------------------------------
\* The exchange r has brought the number n to p: it is over, or the message it
\* comes in has been received.
Has(p, n, r) ==
    /\ r \in 1 .. round[p]
    /\ \E q \in DOMAIN Brings[p][r] :
          n \in Brings[p][r][q] /\ (r = round[p] => q \notin stillPending[p])

\* A number has the value of the last exchange that has brought it.
Current(p, n) ==
    \/ /\ \A r \in Nat : ~Has(p, n, r)
       /\ array[p][n] = Update!Never
    \/ \E r \in Nat :
          /\ Has(p, n, r) /\ \A s \in Nat : Has(p, n, s) => s <= r
          /\ Update!IsOf(p, n, r)

\* HaloIsCurrent speaks of the times between exchanges; what it takes in the middle
\* of one is that the messages received so far have been put in their place.
UpdateInv ==
    /\ round \in [Procs -> Nat] /\ DOMAIN stillPending = Procs /\ DOMAIN array = Procs
    /\ \A p \in Procs :
          /\ stillPending[p] # {} => /\ round[p] >= 1
                                /\ stillPending[p] \subseteq DOMAIN Brings[p][round[p]]
          /\ DOMAIN array[p] = Numbers
          /\ \A n \in Numbers \ Owns[p] : Current(p, n)

\* Before the first exchange no number has been brought.
LEMMA UpdateInitInv == Update!Init => UpdateInv
<1> SUFFICES ASSUME Update!Init PROVE UpdateInv
  OBVIOUS
<1>1. /\ round \in [Procs -> Nat] /\ DOMAIN stillPending = Procs /\ DOMAIN array = Procs
      /\ \A p \in Procs : round[p] = 0 /\ stillPending[p] = {} /\ DOMAIN array[p] = Numbers
  BY DEF Update!Init
<1>2. ASSUME NEW p \in Procs, NEW n \in Numbers \ Owns[p] PROVE Current(p, n)
  <2>1. array[p][n] = Update!Never
    BY DEF Update!Init
  <2>2. \A r \in Nat : ~Has(p, n, r)
    BY <1>1 DEF Has
  <2> QED
    BY <2>1, <2>2 DEF Current
<1> QED
  BY <1>1, <1>2 DEF UpdateInv

\* A task whose round, numbers and neighbours are left alone has what it had.
LEMMA CurrentFramed ==
    ASSUME NEW p, NEW n, Current(p, n), round'[p] = round[p], stillPending'[p] = stillPending[p],
           array'[p][n] = array[p][n]
    PROVE  Current(p, n)'
<1>1. \A r : Has(p, n, r)' <=> Has(p, n, r)
  BY DEF Has
<1> QED
  BY <1>1 DEF Current, Update!IsOf

\* Beginning an exchange brings nothing yet.
LEMMA BeginCurrent ==
    ASSUME UpdateInv, NEW p \in Procs, Update!Begin(p), NEW n \in Numbers \ Owns[p]
    PROVE  Current(p, n)'
<1>1. /\ Current(p, n) /\ stillPending[p] = {} /\ round[p] \in Nat
      /\ round'[p] = round[p] + 1 /\ stillPending'[p] = DOMAIN Brings[p][round[p] + 1]
      /\ array'[p][n] = array[p][n]
  BY DEF UpdateInv, Update!Begin
<1>2. ASSUME NEW r \in Nat PROVE Has(p, n, r)' <=> Has(p, n, r)
  <2>1. CASE r = round[p] + 1
    BY <1>1, <2>1 DEF Has
  <2>2. CASE r # round[p] + 1
    <3>1. r \in 1 .. round'[p] <=> r \in 1 .. round[p]
      BY <1>1, <2>2
    <3>2. r # round'[p]
      BY <1>1, <2>2
    <3> QED
      BY <1>1, <3>1, <3>2 DEF Has
  <2> QED
    BY <2>1, <2>2
<1> QED
  BY <1>1, <1>2 DEF Current, Update!IsOf

\* A message brings the numbers it is for, and no others.
LEMMA ReceiveCurrent ==
    ASSUME UpdateInv, NEW p \in Procs, NEW q \in Procs, Update!Receive(p, q),
           NEW n \in Numbers \ Owns[p]
    PROVE  Current(p, n)'
<1> DEFINE r0 == round[p]
<1>1. /\ Current(p, n) /\ r0 \in Nat /\ r0 >= 1
      /\ q \in stillPending[p] /\ q \in DOMAIN Brings[p][r0]
      /\ round' = round /\ stillPending'[p] = stillPending[p] \ {q}
  BY DEF UpdateInv, Update!Receive
<1>2. array'[p][n] = IF n \in Brings[p][r0][q] THEN <<n, r0>> ELSE array[p][n]
  BY DEF UpdateInv, Update!Receive
<1>3. CASE n \in Brings[p][r0][q]
  <2>1. Has(p, n, r0)'
    BY <1>1, <1>3 DEF Has
  <2>2. \A s \in Nat : Has(p, n, s)' => s <= r0
    BY <1>1 DEF Has
  <2>3. Update!IsOf(p, n, r0)'
    BY <1>1, <1>2, <1>3 DEF Update!IsOf
  <2> QED
    BY <1>1, <2>1, <2>2, <2>3 DEF Current
<1>4. CASE n \notin Brings[p][r0][q]
  <2>1. ASSUME NEW r \in Nat PROVE Has(p, n, r)' <=> Has(p, n, r)
    <3>1. CASE r = r0
      BY <1>1, <1>4, <3>1 DEF Has
    <3>2. CASE r # r0
      BY <1>1, <3>2 DEF Has
    <3> QED
      BY <3>1, <3>2
  <2> QED
    BY <1>1, <1>2, <1>4, <2>1 DEF Current, Update!IsOf
<1> QED
  BY <1>3, <1>4

\* Every step leaves the numbers of every task as the messages received so far
\* make them.
LEMMA UpdateNextInv == UpdateInv /\ [Update!Next]_(Update!vars) => UpdateInv'
<1> SUFFICES ASSUME UpdateInv, [Update!Next]_(Update!vars) PROVE UpdateInv'
  OBVIOUS
<1>1. ASSUME NEW p \in Procs, Update!Begin(p) PROVE UpdateInv'
  <2>1. /\ round' \in [Procs -> Nat] /\ DOMAIN stillPending' = Procs /\ DOMAIN array' = Procs
        /\ round'[p] = round[p] + 1 /\ stillPending'[p] = DOMAIN Brings[p][round[p] + 1]
        /\ \A x \in Procs : DOMAIN array'[x] = Numbers
    BY <1>1 DEF UpdateInv, Update!Begin
  <2>2. \A x \in Procs \ {p} : /\ round'[x] = round[x] /\ stillPending'[x] = stillPending[x]
                               /\ array'[x] = array[x]
    BY <1>1 DEF UpdateInv, Update!Begin
  <2>3. \A x \in Procs : stillPending'[x] # {} =>
           round'[x] >= 1 /\ stillPending'[x] \subseteq DOMAIN Brings[x][round'[x]]
    BY <2>1, <2>2 DEF UpdateInv
  <2>4. ASSUME NEW x \in Procs, NEW n \in Numbers \ Owns[x] PROVE Current(x, n)'
    <3>1. CASE x = p
      BY <1>1, <3>1, BeginCurrent
    <3>2. CASE x # p
      BY <2>2, <3>2, CurrentFramed DEF UpdateInv
    <3> QED
      BY <3>1, <3>2
  <2> QED
    BY <2>1, <2>3, <2>4 DEF UpdateInv
<1>2. ASSUME NEW p \in Procs, NEW q \in Procs, Update!Receive(p, q) PROVE UpdateInv'
  <2>1. /\ round' = round /\ DOMAIN stillPending' = Procs /\ DOMAIN array' = Procs
        /\ stillPending'[p] = stillPending[p] \ {q}
        /\ \A x \in Procs : DOMAIN array'[x] = Numbers
    BY <1>2 DEF UpdateInv, Update!Receive
  <2>2. \A x \in Procs \ {p} : stillPending'[x] = stillPending[x] /\ array'[x] = array[x]
    BY <1>2 DEF UpdateInv, Update!Receive
  <2>3. \A x \in Procs : stillPending'[x] # {} =>
           round'[x] >= 1 /\ stillPending'[x] \subseteq DOMAIN Brings[x][round'[x]]
    BY <2>1, <2>2 DEF UpdateInv
  <2>4. ASSUME NEW x \in Procs, NEW n \in Numbers \ Owns[x] PROVE Current(x, n)'
    <3>1. CASE x = p
      BY <1>2, <3>1, ReceiveCurrent
    <3>2. CASE x # p
      BY <2>1, <2>2, <3>2, CurrentFramed DEF UpdateInv
    <3> QED
      BY <3>1, <3>2
  <2> QED
    BY <2>1, <2>3, <2>4 DEF UpdateInv
<1>3. ASSUME UNCHANGED Update!vars PROVE UpdateInv'
  <2>1. round' = round /\ stillPending' = stillPending /\ array' = array
    BY <1>3 DEF Update!vars
  <2>2. ASSUME NEW x \in Procs, NEW n \in Numbers \ Owns[x] PROVE Current(x, n)'
    BY <2>1, CurrentFramed DEF UpdateInv
  <2> QED
    BY <2>1, <2>2 DEF UpdateInv
<1> QED
  BY <1>1, <1>2, <1>3 DEF Update!Next

\* Between exchanges the numbers are current.
LEMMA UpdateInvHolds == LayoutsFit /\ IInv /\ UpdateInv => HaloIsCurrent
<1> SUFFICES ASSUME LayoutsFit, IInv, UpdateInv, NEW p \in Procs, stillPending[p] = {},
                    NEW n \in Numbers \ Owns[p]
             PROVE  LET rs == Update!ExchangesOf(p, n)
                    IN  IF rs = {} THEN array[p][n] = Update!Never
                        ELSE \E r \in rs : (\A s \in rs : s <= r) /\ Update!IsOf(p, n, r)
  BY DEF HaloIsCurrent, Update!HaloIsCurrent
<1>1. Current(p, n) /\ round[p] \in Nat
  BY DEF UpdateInv
<1>2. \A r \in Nat : Has(p, n, r) <=> r \in Update!ExchangesOf(p, n)
  BY <1>1 DEF Has, Update!ExchangesOf
<1>3. Update!ExchangesOf(p, n) \subseteq Nat
  BY <1>1 DEF Update!ExchangesOf
<1> QED
  BY <1>1, <1>2, <1>3 DEF Current

-----------------------------------------------------------------------------
\* Refinement: whatever the fields, their layers (three at most, LayersAssumption) and the
\* order of the messages, the exchanges of mpas_halo_exch_group_full_halo_exch do what module HaloUpdate promises,
\* the fairness of the promise left aside.
THEOREM ExchangesUpdate ==
    Spec => Update!Init /\ [][Update!Next]_(Update!vars)
<1>1. Init => Update!Init /\ IInv
  BY LayoutsAgree, InitRefines, InitInv
<1>2. IInv /\ [Next]_vars => IInv' /\ [Update!Next]_(Update!vars)
  BY LayoutsAgree, NextInv, StepRefines
<1> QED
  BY <1>1, <1>2, PTL DEF Spec

\* HaloIsCurrent for every decomposition, group and program, up to the three active layers
\* of a field that the lists of refactor_lists have room for: between two exchanges every
\* halo element has the value its owner had given it before the last exchange for it.
THEOREM HaloStaysCurrent ==
    Spec => []HaloIsCurrent
<1>1. Init => IInv /\ UpdateInv
  BY LayoutsAgree, InitRefines, InitInv, UpdateInitInv
<1>2. IInv /\ UpdateInv /\ [Next]_vars => IInv' /\ UpdateInv'
  BY LayoutsAgree, NextInv, StepRefines, UpdateNextInv
<1>3. IInv /\ UpdateInv => HaloIsCurrent
  BY LayoutsAgree, UpdateInvHolds
<1> QED
  BY <1>1, <1>2, <1>3, PTL DEF Spec

\* MessagesFitReceives for every decomposition, program and group of fields of up to three
\* active layers: although all messages
\* from a task carry the same tag, no receive gets the message of another exchange.
THEOREM MessagesFit ==
    Spec => []MessagesFitReceives
<1>1. Init => IInv
  BY LayoutsAgree, InitInv
<1>2. IInv /\ [Next]_vars => IInv'
  BY LayoutsAgree, NextInv
<1>3. IInv => MessagesFitReceives
  BY LayoutsAgree, HeadIsOfThisExchange DEF MessagesFitReceives
<1> QED
  BY <1>1, <1>2, <1>3, PTL DEF Spec

\* A sequence of distinct exchanges in their order is no longer than the program.
LEMMA IncreasingIsShort ==
    ASSUME NEW n \in Nat, NEW N \in Nat, NEW f \in [1 .. n -> 1 .. N],
           \A i, j \in 1 .. n : i < j => f[i] < f[j]
    PROVE  n <= N
<1> DEFINE T == {i \in Nat : i + 1 <= n => i + 1 <= f[i + 1]}
<1>1. 0 \in T
  <2> SUFFICES ASSUME 1 <= n PROVE 1 <= f[1]
    OBVIOUS
  <2>1. f[1] \in 1 .. N
    OBVIOUS
  <2> QED
    BY <2>1
<1>2. ASSUME NEW i \in Nat, i \in T PROVE i + 1 \in T
  <2> SUFFICES ASSUME (i + 1) + 1 <= n PROVE (i + 1) + 1 <= f[(i + 1) + 1]
    OBVIOUS
  <2>1. i + 1 \in 1 .. n /\ (i + 1) + 1 \in 1 .. n /\ i + 1 < (i + 1) + 1
    OBVIOUS
  <2>2. f[i + 1] < f[(i + 1) + 1] /\ f[i + 1] \in 1 .. N /\ f[(i + 1) + 1] \in 1 .. N
    BY <2>1
  <2>3. i + 1 <= f[i + 1]
    BY <1>2, <2>1
  <2> QED
    BY <2>2, <2>3
<1> HIDE DEF T
<1>3. Nat \subseteq T
  BY <1>1, <1>2, SetInduction
<1>4. CASE n = 0
  BY <1>4
<1>5. CASE n # 0
  <2>1. n - 1 \in T /\ (n - 1) + 1 = n /\ n \in 1 .. n
    BY <1>3, <1>5
  <2>2. n <= f[n] /\ f[n] \in 1 .. N
    BY <2>1 DEF T
  <2> QED
    BY <2>2
<1> QED
  BY <1>4, <1>5

\* TypeOK for every decomposition, program and group of fields of up to three active
\* layers: what the requests to send refer to
\* are values of numbers, not what the buffer held before, and no more messages are
\* under way than there are exchanges.
THEOREM TypeCorrect == Spec => []TypeOK
<1>1. Init => IInv
  BY LayoutsAgree, InitInv
<1>2. IInv /\ [Next]_vars => IInv'
  BY LayoutsAgree, NextInv
<1>3. ASSUME IInv PROVE TypeOK
  <2> SUFFICES ASSUME NEW p \in Procs
               PROVE  /\ pc[p] \in {"compute", "receive", "pack", "send", "unpack"}
                      /\ round[p] \in 0 .. Len(Program)
                      /\ DOMAIN array[p] = Numbers
                      /\ \A r \in sendRequests[p] :
                            \A x \in r.before + 1 .. r.before + r.count :
                               sendBuf[p][r.group][x] \in Numbers \X (0 .. Len(Program))
                      /\ \A q \in Procs : Len(wire[p][q]) <= Len(Program)
    BY DEF TypeOK
  <2>1. /\ pc[p] \in {"compute", "receive", "pack", "send", "unpack"}
        /\ round[p] \in 0 .. Len(Program) /\ DOMAIN array[p] = Numbers
    BY <1>3 DEF IInv, Typed
  <2>2. RequestsFit(p) /\ BuffersFit(p)
    BY <1>3 DEF IInv
  <2>3. ASSUME NEW r \in sendRequests[p], NEW x \in r.before + 1 .. r.before + r.count
        PROVE  sendBuf[p][r.group][x] \in Numbers \X (0 .. Len(Program))
    <3> PICK g : g = Group(p)
      OBVIOUS
    <3>1. pc[p] = "unpack" /\ r \in Sends(p, g) /\ g \in Groups
      <4>1. pc[p] = "unpack" /\ r \in Sends(p, g) /\ round[p] >= 1
        BY <2>2 DEF RequestsFit
      <4>2. round[p] \in 1 .. Len(Program)
        BY <2>1, <4>1, ProgramFacts
      <4> QED
        BY <4>1, <4>2, ProgramFacts DEF Group
    <3>2. r \in Slices(p, g, groupSendBufSize(p, g)) /\ groupSendBufSize(p, g) \in Nat
      BY <3>1, LayoutsAgree DEF LayoutsFit, SlicesFit
    <3>3. r.before \in Nat /\ r.count \in Nat /\ r.group = g
      BY <3>2 DEF Slices
    <3>4. x - r.before \in 1 .. r.count /\ r.before + (x - r.before) = x
      BY <3>3
    <3>5. PICK t \in Packed(p, g) : t.at = x /\ t.number \in Numbers
      BY <3>1, <3>4, LayoutsAgree DEF LayoutsFit, PackedFits
    <3>6. sendBuf[p][g][t.at] = <<t.number, round[p]>>
      BY <2>2, <3>1 DEF BuffersFit
    <3> QED
      BY <2>1, <3>3, <3>5, <3>6
  <2>4. ASSUME NEW q \in Procs PROVE Len(wire[p][q]) <= Len(Program)
    <3>1. WireFits(p, q) /\ wire[p][q] \in Seq(Seq(Values))
      BY <1>3 DEF IInv, Typed
    <3>2. PICK f \in [1 .. Len(wire[p][q]) -> 1 .. Len(Program)] :
             \A i, j \in DOMAIN f : i < j => f[i] < f[j]
      BY <3>1 DEF WireFits, Queue
    <3>3. Len(wire[p][q]) \in Nat
      BY <3>1, LenProperties
    <3> QED
      BY <3>2, <3>3, ProgramFacts, IncreasingIsShort
  <2> QED
    BY <2>1, <2>3, <2>4
<1> QED
  BY <1>1, <1>2, <1>3, PTL DEF Spec
=============================================================================
