--------------------------- MODULE OperatorProofs ---------------------------
(***************************************************************************)
(* Facts about the pure algorithms the modules are built from, for all     *)
(* their arguments: remainders, series of times with a fixed interval and  *)
(* what the searches of the clock return; and the cut of a prism.          *)
(***************************************************************************)
EXTENDS TimeArithmetic, PrismSplit, SortedSets, Sequences, Functions, FiniteSetTheorems, WellFoundedInduction, TLAPS

-----------------------------------------------------------------------------
(* Arithmetic of remainders *)

\* A remainder is less than the number divided by.
LEMMA ModRange ==
    ASSUME NEW a \in Int, NEW d \in Nat \ {0}
    PROVE  a % d \in 0 .. d - 1
  BY SMT

\* Quotient and remainder make up the numerator.
LEMMA ModDiv ==
    ASSUME NEW a \in Int, NEW d \in Nat \ {0}
    PROVE  /\ a \div d \in Int
           /\ a = (d * (a \div d)) + (a % d)
  BY SMT

\* What is left of d * q + r, with r less than d, is r.
LEMMA ModUnique ==
    ASSUME NEW d \in Nat \ {0}, NEW q \in Int, NEW r \in 0 .. d - 1
    PROVE  ((d * q) + r) % d = r
  BY SMT

\* A multiple of d is not changed as such by adding or subtracting another.
LEMMA MultipleSum ==
    ASSUME NEW d \in Nat \ {0}, NEW a \in Int, NEW b \in Int,
           a % d = 0, b % d = 0
    PROVE  (a + b) % d = 0 /\ (a - b) % d = 0
<1>1. PICK p \in Int : a = d * p
  <2>1. a \div d \in Int /\ a = d * (a \div d)
    BY ModDiv, SMT
  <2> QED
    BY <2>1
<1>2. PICK q \in Int : b = d * q
  <2>1. b \div d \in Int /\ b = d * (b \div d)
    BY ModDiv, SMT
  <2> QED
    BY <2>1
<1>3. a + b = (d * (p + q)) + 0 /\ a - b = (d * (p - q)) + 0
  BY <1>1, <1>2, SMT
<1>4. p + q \in Int /\ p - q \in Int /\ 0 \in 0 .. d - 1
  OBVIOUS
<1> QED
  BY <1>3, <1>4, ModUnique

\* d, 0 and -d are multiples of d.
LEMMA MultipleSelf ==
    ASSUME NEW d \in Nat \ {0}
    PROVE  d % d = 0 /\ 0 % d = 0 /\ (0 - d) % d = 0
<1>1. d % d = 0 /\ 0 % d = 0
  BY SMT
<1> QED
  BY <1>1, MultipleSum, d \in Int, 0 \in Int

\* What is left of a without its remainder is a multiple, with either sign.
LEMMA MinusRemainder ==
    ASSUME NEW d \in Nat \ {0}, NEW a \in Int
    PROVE  /\ a % d \in 0 .. d - 1
           /\ (a - (a % d)) % d = 0
           /\ ((a % d) - a) % d = 0
<1>1. a % d \in 0 .. d - 1
  BY ModRange
<1>2. /\ a \div d \in Int /\ 0 - (a \div d) \in Int /\ 0 \in 0 .. d - 1
      /\ a - (a % d) = (d * (a \div d)) + 0
      /\ (a % d) - a = (d * (0 - (a \div d))) + 0
  BY ModDiv, ModRange, SMT
<1> QED
  BY <1>1, <1>2, ModUnique

\* A positive multiple of d is at least d: ring times are d apart.
LEMMA PositiveMultiple ==
    ASSUME NEW d \in Nat \ {0}, NEW a \in Int, a % d = 0, 0 < a
    PROVE  a >= d
  BY SMT

-----------------------------------------------------------------------------
(* The searches of the clock *)

\* mpas_calibrate_alarms moves a ring time within its series, to the last one
\* before n or to the first one after n.
LEMMA Neighbors ==
    ASSUME NEW prev \in Int, NEW iv \in Nat \ {0}, NEW n \in Int
    PROVE  LET lo == NegativeNeighbor(prev, iv, n)
               hi == PositiveNeighbor(prev, iv, n)
           IN  /\ lo \in Int /\ lo < n /\ n <= lo + iv /\ (lo - prev) % iv = 0
               /\ hi \in Int /\ n < hi /\ hi - iv <= n /\ (hi - prev) % iv = 0
<1> DEFINE x == n - 1 - prev
           y == prev - n - 1
<1>1. x \in Int /\ y \in Int
  OBVIOUS
<1>2. /\ NegativeNeighbor(prev, iv, n) = n - 1 - (x % iv)
      /\ PositiveNeighbor(prev, iv, n) = n + 1 + (y % iv)
  BY DEF NegativeNeighbor, PositiveNeighbor
<1>3. \A r \in Int : /\ (n - 1 - r) - prev = x - r
                     /\ (n + 1 + r) - prev = r - y
  OBVIOUS
<1> HIDE DEF x, y
<1>4. /\ x % iv \in 0 .. iv - 1 /\ (x - (x % iv)) % iv = 0
      /\ y % iv \in 0 .. iv - 1 /\ ((y % iv) - y) % iv = 0
  BY <1>1, MinusRemainder
<1>5. /\ ((n - 1 - (x % iv)) - prev) % iv = 0
      /\ ((n + 1 + (y % iv)) - prev) % iv = 0
  BY <1>1, <1>3, <1>4
<1> QED
  BY <1>2, <1>4, <1>5

\* The reset of a recurring alarm inside the envelope moves its previous ring
\* time to the last time of the series at or before the time n it looks at.
LEMMA ResetMovesWithinSeries ==
    ASSUME NEW prev \in Int, NEW iv \in Nat \ {0}, NEW n \in Int
    PROVE  /\ prev + iv <= n =>
                LET p == n - IntervalRemainder(n - prev, iv)
                IN  p \in Int /\ p <= n /\ n < p + iv /\ (p - prev) % iv = 0
           /\ prev - iv >= n =>
                LET p == n + IntervalRemainder(prev - n, iv)
                IN  p \in Int /\ p - iv < n /\ n <= p /\ (p - prev) % iv = 0
<1> DEFINE x == n - prev
           y == prev - n
<1>1. x \in Int /\ y \in Int
  OBVIOUS
<1>2. /\ prev + iv <= n => IntervalRemainder(n - prev, iv) = x % iv
      /\ prev - iv >= n => IntervalRemainder(prev - n, iv) = y % iv
  BY DEF IntervalRemainder
<1>3. \A r \in Int : (n - r) - prev = x - r /\ (n + r) - prev = r - y
  OBVIOUS
<1> HIDE DEF x, y
<1>4. /\ x % iv \in 0 .. iv - 1 /\ (x - (x % iv)) % iv = 0
      /\ y % iv \in 0 .. iv - 1 /\ ((y % iv) - y) % iv = 0
  BY <1>1, MinusRemainder
<1>5. /\ ((n - (x % iv)) - prev) % iv = 0
      /\ ((n + (y % iv)) - prev) % iv = 0
  BY <1>3, <1>4
<1> QED
  BY <1>2, <1>4, <1>5

\* A number of the series of o, moved by a multiple of the interval.
LEMMA SameSeries ==
    ASSUME NEW o \in Int, NEW p \in Int, NEW q \in Int, NEW iv \in Nat \ {0},
           (p - o) % iv = 0, (q - p) % iv = 0
    PROVE  (q - o) % iv = 0
<1>1. ((p - o) + (q - p)) % iv = 0
  BY MultipleSum, p - o \in Int, q - p \in Int
<1>2. (p - o) + (q - p) = q - o
  OBVIOUS
<1> QED
  BY <1>1, <1>2

\* The previous ring time stored for a reference time belongs to its series, and
\* is the last of its times before the rings that stay due.
LEMMA AdjustedWithinSeries ==
    ASSUME NEW n \in Int, NEW ref \in Int, NEW iv \in Nat \ {0}
    PROVE  /\ n > ref =>
                LET p == n - IntervalRemainder(n - ref, iv)
                IN  p \in Int /\ p <= n /\ n < p + iv /\ (p - ref) % iv = 0
           /\ n <= ref =>
                LET p == n - (iv - IntervalRemainder(ref - n, iv))
                IN  p \in Int /\ p < n /\ n <= p + iv /\ (p - ref) % iv = 0
           /\ n < ref => n - IntervalRemainder(n - ref, iv) = ref
           /\ n >= ref => n - (iv - IntervalRemainder(ref - n, iv)) = ref - iv
<1> DEFINE x == n - ref
           y == ref - n
<1>1. x \in Int /\ y \in Int
  OBVIOUS
<1>2. \A u \in Int : 0 <= u => IntervalRemainder(u, iv) = u % iv
  BY SMT DEF IntervalRemainder
<1>3. \A u \in Int : u <= 0 => IntervalRemainder(u, iv) = u
  BY DEF IntervalRemainder
<1>4. \A r \in Int : /\ (n - r) - ref = x - r
                     /\ (n - (iv - r)) - ref = (r - y) - iv
  OBVIOUS
<1>5. /\ n > ref => IntervalRemainder(n - ref, iv) = x % iv
      /\ n <= ref => IntervalRemainder(ref - n, iv) = y % iv
  BY <1>2
<1>6. /\ n < ref => IntervalRemainder(n - ref, iv) = n - ref
      /\ n >= ref => IntervalRemainder(ref - n, iv) = ref - n
  BY <1>3
<1> HIDE DEF x, y
<1>7. /\ x % iv \in 0 .. iv - 1 /\ (x - (x % iv)) % iv = 0
      /\ y % iv \in 0 .. iv - 1 /\ ((y % iv) - y) % iv = 0
  BY <1>1, MinusRemainder
<1>8. (((y % iv) - y) - iv) % iv = 0
  BY <1>1, <1>7, MultipleSelf, MultipleSum, (y % iv) - y \in Int, iv \in Int
<1>9. /\ ((n - (x % iv)) - ref) % iv = 0
      /\ ((n - (iv - (y % iv))) - ref) % iv = 0
  BY <1>4, <1>7, <1>8
<1> QED
  BY <1>5, <1>6, <1>7, <1>9

\* Between two members of a series there is room for an interval.
LEMMA NextOfSeries ==
    ASSUME NEW o \in Int, NEW p \in Int, NEW q \in Int, NEW iv \in Nat \ {0},
           (p - o) % iv = 0, (q - o) % iv = 0, p < q
    PROVE  p + iv <= q
<1>1. ((q - o) - (p - o)) % iv = 0
  BY MultipleSum, p - o \in Int, q - o \in Int
<1>2. (q - o) - (p - o) = q - p
  OBVIOUS
<1>3. q - p >= iv
  BY <1>1, <1>2, PositiveMultiple, q - p \in Int, 0 < q - p
<1> QED
  BY <1>3

\* The times one interval before and after a member of a series are members.
LEMMA StepOfSeries ==
    ASSUME NEW o \in Int, NEW p \in Int, NEW iv \in Nat \ {0}, (p - o) % iv = 0
    PROVE  /\ ((p + iv) - o) % iv = 0
           /\ ((p - iv) - o) % iv = 0
<1>1. ((p - o) + iv) % iv = 0 /\ ((p - o) - iv) % iv = 0
  BY MultipleSum, MultipleSelf, p - o \in Int, iv \in Int
<1>2. (p + iv) - o = (p - o) + iv /\ (p - iv) - o = (p - o) - iv
  OBVIOUS
<1> QED
  BY <1>1, <1>2

\* The remainder of a division by an interval is a number of ticks.
LEMMA RemainderType ==
    ASSUME NEW num \in Int, NEW den \in Nat \ {0}
    PROVE  IntervalRemainder(num, den) \in Int
  BY ModRange DEF IntervalRemainder

-----------------------------------------------------------------------------
(* Finite sets of numbers in order *)

\* What holds of 0, and of n + 1 whenever it holds of n, holds of all numbers.
LEMMA SetInduction ==
    ASSUME NEW T, 0 \in T, \A n \in Nat : n \in T => n + 1 \in T
    PROVE  Nat \subseteq T
<1> DEFINE Less == OpToRel(<, Nat)
<1>1. IsWellFoundedOn(Less, Nat)
  BY NatLessThanWellFounded
<1>2. \A x, y \in Nat : y < x => <<y, x>> \in Less
  BY DEF OpToRel
<1> HIDE DEF Less
<1>3. SUFFICES ASSUME Nat \ T # {} PROVE FALSE
  OBVIOUS
<1>4. PICK x \in Nat \ T : \A y \in Nat \ T : ~(<<y, x>> \in Less)
  BY <1>1, <1>3, WFMin
<1>5. x # 0 /\ x - 1 \in Nat /\ x - 1 < x /\ (x - 1) + 1 = x
  BY <1>4
<1>6. x - 1 \in T
  BY <1>2, <1>4, <1>5
<1> QED
  BY <1>4, <1>5, <1>6

\* Numbers up to a bound are finite in number.
LEMMA NumbersTo ==
    ASSUME NEW N \in Nat, NEW S \in SUBSET (0 .. N)
    PROVE  S \in SUBSET Int /\ IsFiniteSet(S)
<1>1. IsFiniteSet(0 .. N)
  BY FS_Interval
<1>2. IsFiniteSet(S)
  BY <1>1, FS_Subset
<1> QED
  BY <1>2

\* Every number of a finite set has a rank of its own,
LEMMA RanksDiffer ==
    ASSUME NEW S \in SUBSET Int, IsFiniteSet(S)
    PROVE  /\ \A x \in S : Rank(S, x) \in 1 .. Cardinality(S)
           /\ \A x, y \in S : Rank(S, x) = Rank(S, y) => x = y
<1> DEFINE Up(x) == {y \in S : y <= x}
<1>1. ASSUME NEW x \in S
      PROVE  /\ IsFiniteSet(Up(x)) /\ Cardinality(Up(x)) \in 1 .. Cardinality(S) /\ x \in Up(x)
             /\ Rank(S, x) = Cardinality(Up(x))
  <2>1. Up(x) \in SUBSET S /\ x \in Up(x)
    OBVIOUS
  <2>2. IsFiniteSet(Up(x)) /\ Cardinality(Up(x)) <= Cardinality(S)
    BY <2>1, FS_Subset
  <2>3. Cardinality(Up(x)) # 0
    BY <2>1, <2>2, FS_EmptySet
  <2>4. Rank(S, x) = Cardinality(Up(x))
    BY DEF Rank
  <2> HIDE DEF Up
  <2> QED
    BY <2>1, <2>2, <2>3, <2>4, FS_CardinalityType
<1>2. ASSUME NEW x \in S, NEW y \in S, x <= y, Cardinality(Up(x)) = Cardinality(Up(y)) PROVE x = y
  <2>0. \A z \in S : z \in Int
    OBVIOUS
  <2>1. \A z \in S : z <= x => z <= y
    BY <1>2, <2>0
  <2>2. Up(x) \in SUBSET Up(y)
    BY <2>1
  <2>3. Up(y) = Up(x)
    BY <1>1, <1>2, <2>2, FS_Subset
  <2>4. y <= x
    BY <1>1, <2>3
  <2> QED
    BY <1>2, <2>4
<1> HIDE DEF Up
<1>3. \A x, y \in S : x <= y \/ y <= x
  OBVIOUS
<1> QED
  BY <1>1, <1>2, <1>3

\* so Sorted has every number once.
LEMMA SortedEnumerates ==
    ASSUME NEW S \in SUBSET Int, IsFiniteSet(S)
    PROVE  /\ Cardinality(S) \in Nat /\ Sorted(S) \in [1 .. Cardinality(S) -> S]
           /\ \A x \in S : \E k \in 1 .. Cardinality(S) : Sorted(S)[k] = x
           /\ \A j, k \in 1 .. Cardinality(S) : Sorted(S)[j] = Sorted(S)[k] => j = k
<1> DEFINE f == [x \in S |-> Rank(S, x)]
           N == Cardinality(S)
<1>1. N \in Nat /\ IsFiniteSet(1 .. N) /\ Cardinality(1 .. N) = N
  BY FS_CardinalityType, FS_Interval
<1>2. f \in Injection(S, 1 .. N)
  BY RanksDiffer DEF Injection, IsInjective
<1>3. f \in Surjection(S, 1 .. N)
  BY <1>1, <1>2, FS_Injection
<1>4. \A k \in 1 .. N : \E x \in S : Rank(S, x) = k
  BY <1>3 DEF Surjection
<1>5. \A k \in 1 .. N : Sorted(S)[k] \in S /\ Rank(S, Sorted(S)[k]) = k
  BY <1>4 DEF Sorted
<1>6. Sorted(S) \in [1 .. N -> S]
  BY <1>5 DEF Sorted
<1>7. \A x \in S : Rank(S, x) \in 1 .. N /\ Sorted(S)[Rank(S, x)] = x
  <2> SUFFICES ASSUME NEW x \in S
               PROVE  Rank(S, x) \in 1 .. N /\ Sorted(S)[Rank(S, x)] = x
    OBVIOUS
  <2>1. Rank(S, x) \in 1 .. N
    BY RanksDiffer
  <2>2. Sorted(S)[Rank(S, x)] \in S /\ Rank(S, Sorted(S)[Rank(S, x)]) = Rank(S, x)
    BY <1>5, <2>1
  <2>3. PICK y \in S : y = Sorted(S)[Rank(S, x)]
    BY <2>2
  <2>4. Rank(S, y) = Rank(S, x)
    BY <2>2, <2>3
  <2>5. y = x
    BY <2>4, RanksDiffer
  <2> QED
    BY <2>1, <2>3, <2>5
<1> HIDE DEF N
<1>8. \A j, k \in 1 .. N : Sorted(S)[j] = Sorted(S)[k] => j = k
  BY <1>5
<1> QED
  BY <1>1, <1>6, <1>7, <1>8 DEF N

\* A function on the members of a sorted set takes the values it takes on the set.
LEMMA OverSorted ==
    ASSUME NEW S \in SUBSET Int, IsFiniteSet(S)
    PROVE  DOMAIN Sorted(S) = 1 .. Cardinality(S) /\ Range(Sorted(S)) = S
           /\ (\A k \in DOMAIN Sorted(S) : Sorted(S)[k] \in S)
           /\ (\A x \in S : \E k \in DOMAIN Sorted(S) : Sorted(S)[k] = x)
<1>1. /\ Sorted(S) \in [1 .. Cardinality(S) -> S]
      /\ \A x \in S : \E k \in 1 .. Cardinality(S) : Sorted(S)[k] = x
  BY SortedEnumerates
<1> QED
  BY <1>1 DEF Range

\* Every number up to the size of the set is the rank of a member.
LEMMA RanksFill ==
    ASSUME NEW S \in SUBSET Int, IsFiniteSet(S), NEW n \in 1 .. Cardinality(S)
    PROVE  \E x \in S : Rank(S, x) = n
<1> DEFINE f == [x \in S |-> Rank(S, x)]
           N == Cardinality(S)
<1>1. N \in Nat /\ IsFiniteSet(1 .. N) /\ Cardinality(1 .. N) = N
  BY FS_CardinalityType, FS_Interval
<1>2. f \in Injection(S, 1 .. N)
  BY RanksDiffer DEF Injection, IsInjective
<1>3. f \in Surjection(S, 1 .. N)
  BY <1>1, <1>2, FS_Injection
<1> QED
  BY <1>3 DEF Surjection

\* A number above all others is the last.
LEMMA RankOfLast ==
    ASSUME NEW S \in SUBSET Int, IsFiniteSet(S), NEW k \in Int, \A j \in S : j < k
    PROVE  /\ Cardinality(S \cup {k}) = Cardinality(S) + 1
           /\ Rank(S \cup {k}, k) = Cardinality(S) + 1
           /\ \A j \in S : Rank(S \cup {k}, j) = Rank(S, j)
<1>1. k \notin S
  <2>1. ~(k < k)
    OBVIOUS
  <2> QED
    BY <2>1
<1>2. Cardinality(S \cup {k}) = Cardinality(S) + 1
  BY <1>1, FS_AddElement
<1>3. {j \in S \cup {k} : j <= k} = S \cup {k}
  <2>1. \A j \in S : j \in Int /\ j < k
    OBVIOUS
  <2>2. \A j \in S \cup {k} : j <= k
    BY <2>1
  <2> QED
    BY <2>2
<1>4. ASSUME NEW j \in S PROVE {x \in S \cup {k} : x <= j} = {x \in S : x <= j}
  <2>1. j \in Int /\ j < k /\ ~(k <= j)
    OBVIOUS
  <2> QED
    BY <2>1
<1> QED
  BY <1>2, <1>3, <1>4 DEF Rank

\* Without a number below all others the ranks are one less.
LEMMA RankAfterFirst ==
    ASSUME NEW S \in SUBSET Int, IsFiniteSet(S), NEW k \in S, \A j \in S : k <= j
    PROVE  /\ Rank(S, k) = 1
           /\ Cardinality(S \ {k}) = Cardinality(S) - 1
           /\ \A j \in S \ {k} : Rank(S \ {k}, j) = Rank(S, j) - 1
<1>1. {j \in S : j <= k} = {k}
  <2>1. \A j \in S : j \in Int /\ k <= j
    OBVIOUS
  <2>2. \A j \in S : j <= k <=> j = k
    BY <2>1
  <2> QED
    BY <2>2
<1>2. Cardinality({k}) = 1
  BY FS_Singleton
<1>3. Cardinality(S \ {k}) = Cardinality(S) - 1
  BY FS_RemoveElement
<1>4. ASSUME NEW j \in S \ {k} PROVE Rank(S \ {k}, j) = Rank(S, j) - 1
  <2> DEFINE U == {x \in S : x <= j}
  <2>1. k \in U /\ U \in SUBSET S
    OBVIOUS
  <2>2. IsFiniteSet(U)
    BY <2>1, FS_Subset
  <2>3. {x \in S \ {k} : x <= j} = U \ {k}
    OBVIOUS
  <2>4. Cardinality(U \ {k}) = Cardinality(U) - 1
    BY <2>1, <2>2, FS_RemoveElement
  <2> QED
    BY <2>3, <2>4 DEF Rank
<1> QED
  BY <1>1, <1>2, <1>3, <1>4 DEF Rank

-----------------------------------------------------------------------------
(* The cuts of two neighbouring prisms fit for any global numbers of the   *)
(* columns: the diagonal of the face between them starts at the bottom of  *)
(* the column with the smaller number, whatever the third column of each   *)
(* prism and wherever the prism starts to count its corners.               *)

\* The numbers of the three columns of a prism are different integers.
DistinctNumbers(ids) ==
    /\ ids \in [Third -> Int]
    /\ \A j, k \in Third : j # k => ids[j] # ids[k]

Turned(m, tetra) == {Corner(m, i) : i \in tetra}

\* The corners of a triangle, by number.
LEMMA ThirdElements == Third = {0, 1, 2}
BY DEF Third

\* minIndex is the column with the smallest number.
LEMMA MinIndexIsLeast ==
    ASSUME NEW ids, DistinctNumbers(ids)
    PROVE  /\ MinIndex(ids) \in Third
           /\ \A j \in Third : ids[MinIndex(ids)] <= ids[j]
<1>1. \E k \in Third : \A j \in Third : ids[k] <= ids[j]
  BY ThirdElements DEF DistinctNumbers
<1> QED BY <1>1 DEF MinIndex

\* The corners counted from each column (PrismVerticesMap).
LEMMA Corners ==
    /\ Corner(0, 0) = 0 /\ Corner(0, 1) = 1 /\ Corner(0, 2) = 2
    /\ Corner(0, 3) = 3 /\ Corner(0, 4) = 4 /\ Corner(0, 5) = 5
    /\ Corner(1, 0) = 1 /\ Corner(1, 1) = 2 /\ Corner(1, 2) = 0
    /\ Corner(1, 3) = 4 /\ Corner(1, 4) = 5 /\ Corner(1, 5) = 3
    /\ Corner(2, 0) = 2 /\ Corner(2, 1) = 0 /\ Corner(2, 2) = 1
    /\ Corner(2, 3) = 5 /\ Corner(2, 4) = 3 /\ Corner(2, 5) = 4
BY DEF Corner

\* The three tetrahedra of a prism of each of the two types.
LEMMA TetrahedraOfType ==
    ASSUME NEW ids
    PROVE  LET m == MinIndex(ids)
               C(a, b, c, d) == {Corner(m, a), Corner(m, b), Corner(m, c), Corner(m, d)}
           IN  TetrasFromPrism(ids) =
                 IF PrismType(ids) THEN {C(0, 1, 2, 4), C(0, 4, 2, 5), C(0, 4, 5, 3)}
                                   ELSE {C(0, 1, 2, 5), C(0, 1, 5, 4), C(0, 4, 5, 3)}
<1> DEFINE m == MinIndex(ids)
           C(a, b, c, d) == {Corner(m, a), Corner(m, b), Corner(m, c), Corner(m, d)}
<1>1. ASSUME NEW a, NEW b, NEW c
      PROVE  {Turned(m, t) : t \in {a, b, c}} = {Turned(m, a), Turned(m, b), Turned(m, c)}
  BY Zenon
<1>2. TetrasFromPrism(ids) = {Turned(m, t) : t \in TetraOfPrism(PrismType(ids))}
  BY DEF TetrasFromPrism, Turned
<1>3. CASE PrismType(ids)
  <2>1. TetrasFromPrism(ids) = {Turned(m, t) : t \in {{0, 1, 2, 4}, {0, 4, 2, 5}, {0, 4, 5, 3}}}
    BY <1>2, <1>3, Zenon DEF TetraOfPrism
  <2>2. /\ Turned(m, {0, 1, 2, 4}) = C(0, 1, 2, 4)
        /\ Turned(m, {0, 4, 2, 5}) = C(0, 4, 2, 5)
        /\ Turned(m, {0, 4, 5, 3}) = C(0, 4, 5, 3)
    <3>1. Turned(m, {0, 1, 2, 4}) = C(0, 1, 2, 4)
      BY Zenon DEF Turned
    <3>2. Turned(m, {0, 4, 2, 5}) = C(0, 4, 2, 5)
      BY Zenon DEF Turned
    <3>3. Turned(m, {0, 4, 5, 3}) = C(0, 4, 5, 3)
      BY Zenon DEF Turned
    <3> QED BY <3>1, <3>2, <3>3
  <2>3. {Turned(m, t) : t \in {{0, 1, 2, 4}, {0, 4, 2, 5}, {0, 4, 5, 3}}}
          = {Turned(m, {0, 1, 2, 4}), Turned(m, {0, 4, 2, 5}), Turned(m, {0, 4, 5, 3})}
    BY <1>1, Zenon
  <2> QED BY <1>3, <2>1, <2>2, <2>3
<1>4. CASE ~PrismType(ids)
  <2>1. TetrasFromPrism(ids) = {Turned(m, t) : t \in {{0, 1, 2, 5}, {0, 1, 5, 4}, {0, 4, 5, 3}}}
    BY <1>2, <1>4, Zenon DEF TetraOfPrism
  <2>2. /\ Turned(m, {0, 1, 2, 5}) = C(0, 1, 2, 5)
        /\ Turned(m, {0, 1, 5, 4}) = C(0, 1, 5, 4)
        /\ Turned(m, {0, 4, 5, 3}) = C(0, 4, 5, 3)
    <3>1. Turned(m, {0, 1, 2, 5}) = C(0, 1, 2, 5)
      BY Zenon DEF Turned
    <3>2. Turned(m, {0, 1, 5, 4}) = C(0, 1, 5, 4)
      BY Zenon DEF Turned
    <3>3. Turned(m, {0, 4, 5, 3}) = C(0, 4, 5, 3)
      BY Zenon DEF Turned
    <3> QED BY <3>1, <3>2, <3>3
  <2>3. {Turned(m, t) : t \in {{0, 1, 2, 5}, {0, 1, 5, 4}, {0, 4, 5, 3}}}
          = {Turned(m, {0, 1, 2, 5}), Turned(m, {0, 1, 5, 4}), Turned(m, {0, 4, 5, 3})}
    BY <1>1, Zenon
  <2> QED BY <1>4, <2>1, <2>2, <2>3
<1> QED BY <1>3, <1>4

\* The cut of a prism whose columns stand, in the order of their numbers, at a, b and c.
CutInOrder(a, b, c) ==
    {{<<a, 0>>, <<b, 0>>, <<c, 0>>, <<c, 1>>}, {<<a, 0>>, <<b, 0>>, <<b, 1>>, <<c, 1>>},
     {<<a, 0>>, <<a, 1>>, <<b, 1>>, <<c, 1>>}}

\* The triangles of the face between the columns a and b, a the one with the smaller number.
Halves(a, b) == {{<<a, 0>>, <<b, 0>>, <<b, 1>>}, {<<a, 0>>, <<a, 1>>, <<b, 1>>}}

\* Each tetrahedron with its corners as corners of the mesh.
Placed(column, tetra) == {<<column[i % 3], i \div 3>> : i \in tetra}

\* Where the six corners stand.
LEMMA WhereCornersStand ==
    /\ 0 % 3 = 0 /\ 1 % 3 = 1 /\ 2 % 3 = 2 /\ 3 % 3 = 0 /\ 4 % 3 = 1 /\ 5 % 3 = 2
    /\ 0 \div 3 = 0 /\ 1 \div 3 = 0 /\ 2 \div 3 = 0 /\ 3 \div 3 = 1 /\ 4 \div 3 = 1 /\ 5 \div 3 = 1
BY SMT

\* A prism is cut in the order of the numbers of its columns, wherever it starts to count.
LEMMA CutByNumbers ==
    ASSUME NEW ids, DistinctNumbers(ids)
    PROVE  \E i, j, k \in Third : /\ ids[i] < ids[j] /\ ids[j] < ids[k]
                                  /\ Tetrahedra(ids, ids) = CutInOrder(ids[i], ids[j], ids[k])
<1> DEFINE m == MinIndex(ids)
           u == Corner(m, 1)
           v == Corner(m, 2)
           P(a, b, c, d) == Placed(ids, {Corner(m, a), Corner(m, b), Corner(m, c), Corner(m, d)})
           lo(x) == <<x, 0>>
           hi(x) == <<x, 1>>
<1>1. m \in {0, 1, 2} /\ \A l \in Third : ids[m] <= ids[l]
  BY MinIndexIsLeast, ThirdElements
<1>2. ids[0] \in Int /\ ids[1] \in Int /\ ids[2] \in Int /\ ids[0] # ids[1] /\ ids[0] # ids[2] /\ ids[1] # ids[2]
  BY ThirdElements DEF DistinctNumbers
<1>3. PrismType(ids) <=> ids[u] > ids[v]
  BY DEF PrismType
<1>4. u \in Third /\ v \in Third /\ u # v /\ ids[m] < ids[u] /\ ids[m] < ids[v] /\ ids[u] # ids[v]
  BY <1>1, <1>2, Corners, ThirdElements
<1>5. \A x \in {0, 1, 2} : /\ Corner(m, x) \in 0 .. 5 /\ Corner(m, x) % 3 = Corner(m, x) /\ Corner(m, x) \div 3 = 0
                           /\ Corner(m, x + 3) \in 0 .. 5 /\ Corner(m, x + 3) % 3 = Corner(m, x)
                           /\ Corner(m, x + 3) \div 3 = 1
  BY <1>1, Corners, WhereCornersStand
<1>6. /\ Corner(m, 0) = m /\ Corner(m, 0) % 3 = m /\ u % 3 = u /\ v % 3 = v
      /\ Corner(m, 3) % 3 = m /\ Corner(m, 4) % 3 = u /\ Corner(m, 5) % 3 = v
      /\ Corner(m, 0) \div 3 = 0 /\ u \div 3 = 0 /\ v \div 3 = 0
      /\ Corner(m, 3) \div 3 = 1 /\ Corner(m, 4) \div 3 = 1 /\ Corner(m, 5) \div 3 = 1
      /\ \A x \in 0 .. 5 : Corner(m, x) \in 0 .. 5
  BY <1>1, Corners, WhereCornersStand
<1>7. TetrasFromPrism(ids) =
        IF PrismType(ids)
        THEN {{Corner(m, 0), Corner(m, 1), Corner(m, 2), Corner(m, 4)}, {Corner(m, 0), Corner(m, 4), Corner(m, 2), Corner(m, 5)},
              {Corner(m, 0), Corner(m, 4), Corner(m, 5), Corner(m, 3)}}
        ELSE {{Corner(m, 0), Corner(m, 1), Corner(m, 2), Corner(m, 5)}, {Corner(m, 0), Corner(m, 1), Corner(m, 5), Corner(m, 4)},
              {Corner(m, 0), Corner(m, 4), Corner(m, 5), Corner(m, 3)}}
  BY TetrahedraOfType
<1>8. Tetrahedra(ids, ids) = {Placed(ids, t) : t \in TetrasFromPrism(ids)}
  BY DEF Tetrahedra, Placed
<1>9. ASSUME NEW a, NEW b, NEW c
      PROVE  {Placed(ids, t) : t \in {a, b, c}} = {Placed(ids, a), Placed(ids, b), Placed(ids, c)}
  BY Zenon
<1> DEFINE S(x) == <<ids[Corner(m, x) % 3], Corner(m, x) \div 3>>
<1>10. /\ S(0) = lo(ids[m]) /\ S(1) = lo(ids[u]) /\ S(2) = lo(ids[v])
       /\ S(3) = hi(ids[m]) /\ S(4) = hi(ids[u]) /\ S(5) = hi(ids[v])
  BY <1>6
<1>14. ASSUME NEW a, NEW b, NEW c, NEW d
       PROVE  P(a, b, c, d) = {S(a), S(b), S(c), S(d)}
  <2> DEFINE i == Corner(m, a)
             j == Corner(m, b)
             k == Corner(m, c)
             l == Corner(m, d)
  <2>1. P(a, b, c, d) = Placed(ids, {i, j, k, l})
    OBVIOUS
  <2>2. /\ S(a) = <<ids[i % 3], i \div 3>> /\ S(b) = <<ids[j % 3], j \div 3>>
        /\ S(c) = <<ids[k % 3], k \div 3>> /\ S(d) = <<ids[l % 3], l \div 3>>
    OBVIOUS
  <2> HIDE DEF i, j, k, l, S, P
  <2>3. Placed(ids, {i, j, k, l}) = {<<ids[i % 3], i \div 3>>, <<ids[j % 3], j \div 3>>,
                                     <<ids[k % 3], k \div 3>>, <<ids[l % 3], l \div 3>>}
    BY Zenon DEF Placed
  <2> QED
    BY <2>1, <2>2, <2>3
<1>13. /\ P(0, 4, 5, 3) = {lo(ids[m]), hi(ids[u]), hi(ids[v]), hi(ids[m])}
       /\ P(0, 1, 2, 4) = {lo(ids[m]), lo(ids[u]), lo(ids[v]), hi(ids[u])}
       /\ P(0, 4, 2, 5) = {lo(ids[m]), hi(ids[u]), lo(ids[v]), hi(ids[v])}
       /\ P(0, 1, 2, 5) = {lo(ids[m]), lo(ids[u]), lo(ids[v]), hi(ids[v])}
       /\ P(0, 1, 5, 4) = {lo(ids[m]), lo(ids[u]), hi(ids[v]), hi(ids[u])}
  <2> HIDE DEF P, S, m
  <2>1. P(0, 4, 5, 3) = {lo(ids[m]), hi(ids[u]), hi(ids[v]), hi(ids[m])}
    BY <1>10, <1>14
  <2>2. P(0, 1, 2, 4) = {lo(ids[m]), lo(ids[u]), lo(ids[v]), hi(ids[u])}
    BY <1>10, <1>14
  <2>3. P(0, 4, 2, 5) = {lo(ids[m]), hi(ids[u]), lo(ids[v]), hi(ids[v])}
    BY <1>10, <1>14
  <2>4. P(0, 1, 2, 5) = {lo(ids[m]), lo(ids[u]), lo(ids[v]), hi(ids[v])}
    BY <1>10, <1>14
  <2>5. P(0, 1, 5, 4) = {lo(ids[m]), lo(ids[u]), hi(ids[v]), hi(ids[u])}
    BY <1>10, <1>14
  <2> QED
    BY <2>1, <2>2, <2>3, <2>4, <2>5
<1>11. CASE PrismType(ids)
  <2>1. Tetrahedra(ids, ids) = {P(0, 1, 2, 4), P(0, 4, 2, 5), P(0, 4, 5, 3)}
    BY <1>7, <1>8, <1>9, <1>11
  <2>2. Tetrahedra(ids, ids) = CutInOrder(ids[m], ids[v], ids[u])
    BY <1>13, <2>1 DEF CutInOrder
  <2> QED
    BY <1>1, <1>2, <1>3, <1>4, <1>11, <2>2, ThirdElements
<1>12. CASE ~PrismType(ids)
  <2>1. Tetrahedra(ids, ids) = {P(0, 1, 2, 5), P(0, 1, 5, 4), P(0, 4, 5, 3)}
    BY <1>7, <1>8, <1>9, <1>12
  <2>2. Tetrahedra(ids, ids) = CutInOrder(ids[m], ids[u], ids[v])
    BY <1>13, <2>1 DEF CutInOrder
  <2> QED
    BY <1>1, <1>2, <1>3, <1>4, <1>12, <2>2, ThirdElements
<1> QED
  BY <1>11, <1>12

\* A set of two points is not a triangle, one of three is.
LEMMA TwoPoints ==
    ASSUME NEW x, NEW y
    PROVE  ~(\E a, b, c \in {x, y} : a # b /\ b # c /\ a # c)
OBVIOUS

\* Three different things taken from three.
LEMMA ThreePoints ==
    ASSUME NEW x, NEW y, NEW z, x # y, y # z, x # z
    PROVE  \E a, b, c \in {x, y, z} : a # b /\ b # c /\ a # c
OBVIOUS

\* The triangles of a face are those of the tetrahedra that meet it in three points.
LEMMA TwoOfThree ==
    ASSUME NEW face, NEW r, NEW s, NEW t,
           \E a, b, c \in r \cap face : a # b /\ b # c /\ a # c,
           \E a, b, c \in s \cap face : a # b /\ b # c /\ a # c,
           ~(\E a, b, c \in t \cap face : a # b /\ b # c /\ a # c)
    PROVE  FacesOn({r, s, t}, face) = {r \cap face, s \cap face}
<1> DEFINE Meets(x) == \E a, b, c \in x \cap face : a # b /\ b # c /\ a # c
<1>1. Meets(r) /\ Meets(s) /\ ~Meets(t)
  OBVIOUS
<1>2. FacesOn({r, s, t}, face) = {x \cap face : x \in {y \in {r, s, t} : Meets(y)}}
  BY DEF FacesOn
<1> HIDE DEF Meets
<1>3. {y \in {r, s, t} : Meets(y)} = {r, s}
  BY <1>1
<1>4. {x \cap face : x \in {r, s}} = {r \cap face, s \cap face}
  BY Zenon
<1> QED
  BY <1>2, <1>3, <1>4

\* So every face between two columns is cut along the diagonal from the bottom of the column
\* with the smaller number, and nowhere else (setBdFacesOnPrism).
THEOREM FaceCutByNumbers ==
    ASSUME NEW ids, DistinctNumbers(ids), NEW a \in Int, NEW b \in Int, a < b,
           a \in {ids[k] : k \in Third}, b \in {ids[k] : k \in Third}
    PROVE  FacesOn(Tetrahedra(ids, ids), LateralFace(a, b)) = Halves(a, b)
<1>1. PICK i, j, k \in Third : /\ ids[i] < ids[j] /\ ids[j] < ids[k]
                               /\ Tetrahedra(ids, ids) = CutInOrder(ids[i], ids[j], ids[k])
  BY CutByNumbers
<1> DEFINE x == ids[i]
           y == ids[j]
           z == ids[k]
<1>2. x \in Int /\ y \in Int /\ z \in Int /\ x < y /\ y < z
  BY <1>1 DEF DistinctNumbers
<1>3. a \in {x, y, z} /\ b \in {x, y, z}
  <2>1. i \in {0, 1, 2} /\ j \in {0, 1, 2} /\ k \in {0, 1, 2} /\ i # j /\ j # k /\ i # k
    BY <1>1, <1>2, ThirdElements
  <2>2. {i, j, k} = Third
    BY <2>1, ThirdElements
  <2> QED
    BY <2>2
<1> HIDE DEF x, y, z
<1>4. (a = x /\ b = y) \/ (a = x /\ b = z) \/ (a = y /\ b = z)
  BY <1>2, <1>3
<1> DEFINE r == {<<x, 0>>, <<y, 0>>, <<z, 0>>, <<z, 1>>}
           s == {<<x, 0>>, <<y, 0>>, <<y, 1>>, <<z, 1>>}
           t == {<<x, 0>>, <<x, 1>>, <<y, 1>>, <<z, 1>>}
<1>5. Tetrahedra(ids, ids) = {r, s, t}
  BY <1>1 DEF CutInOrder, x, y, z
<1>6. LateralFace(a, b) = {<<a, 0>>, <<a, 1>>, <<b, 0>>, <<b, 1>>}
  BY DEF LateralFace
<1> DEFINE face == {<<a, 0>>, <<a, 1>>, <<b, 0>>, <<b, 1>>}
<1>7. CASE a = x /\ b = y
  <2>1. /\ r \cap face = {<<x, 0>>, <<y, 0>>} /\ s \cap face = {<<x, 0>>, <<y, 0>>, <<y, 1>>}
        /\ t \cap face = {<<x, 0>>, <<x, 1>>, <<y, 1>>}
    BY <1>2, <1>7
  <2>2. <<x, 0>> # <<y, 0>> /\ <<y, 0>> # <<y, 1>> /\ <<x, 0>> # <<y, 1>> /\ <<x, 0>> # <<x, 1>> /\ <<x, 1>> # <<y, 1>>
    BY <1>2
  <2> HIDE DEF r, s, t, face
  <2>5. \E p1, p2, p3 \in s \cap face : p1 # p2 /\ p2 # p3 /\ p1 # p3
    BY <2>1, <2>2, ThreePoints
  <2>6. \E p1, p2, p3 \in t \cap face : p1 # p2 /\ p2 # p3 /\ p1 # p3
    BY <2>1, <2>2, ThreePoints
  <2>7. ~(\E p1, p2, p3 \in r \cap face : p1 # p2 /\ p2 # p3 /\ p1 # p3)
    BY <2>1, TwoPoints
  <2>3. FacesOn({s, t, r}, face) = {s \cap face, t \cap face}
    BY <2>5, <2>6, <2>7, TwoOfThree
  <2>4. {s, t, r} = {r, s, t}
    OBVIOUS
  <2> QED
    BY <1>5, <1>6, <1>7, <2>1, <2>3, <2>4 DEF Halves, face
<1>8. CASE a = x /\ b = z
  <2>1. /\ r \cap face = {<<x, 0>>, <<z, 0>>, <<z, 1>>} /\ s \cap face = {<<x, 0>>, <<z, 1>>}
        /\ t \cap face = {<<x, 0>>, <<x, 1>>, <<z, 1>>}
    BY <1>2, <1>8
  <2>2. <<x, 0>> # <<z, 0>> /\ <<z, 0>> # <<z, 1>> /\ <<x, 0>> # <<z, 1>> /\ <<x, 0>> # <<x, 1>> /\ <<x, 1>> # <<z, 1>>
    BY <1>2
  <2> HIDE DEF r, s, t, face
  <2>5. \E p1, p2, p3 \in r \cap face : p1 # p2 /\ p2 # p3 /\ p1 # p3
    BY <2>1, <2>2, ThreePoints
  <2>6. \E p1, p2, p3 \in t \cap face : p1 # p2 /\ p2 # p3 /\ p1 # p3
    BY <2>1, <2>2, ThreePoints
  <2>7. ~(\E p1, p2, p3 \in s \cap face : p1 # p2 /\ p2 # p3 /\ p1 # p3)
    BY <2>1, TwoPoints
  <2>3. FacesOn({r, t, s}, face) = {r \cap face, t \cap face}
    BY <2>5, <2>6, <2>7, TwoOfThree
  <2>4. {r, t, s} = {r, s, t}
    OBVIOUS
  <2> QED
    BY <1>5, <1>6, <1>8, <2>1, <2>3, <2>4 DEF Halves, face
<1>9. CASE a = y /\ b = z
  <2>1. /\ r \cap face = {<<y, 0>>, <<z, 0>>, <<z, 1>>} /\ s \cap face = {<<y, 0>>, <<y, 1>>, <<z, 1>>}
        /\ t \cap face = {<<y, 1>>, <<z, 1>>}
    BY <1>2, <1>9
  <2>2. <<y, 0>> # <<z, 0>> /\ <<z, 0>> # <<z, 1>> /\ <<y, 0>> # <<z, 1>> /\ <<y, 0>> # <<y, 1>> /\ <<y, 1>> # <<z, 1>>
    BY <1>2
  <2> HIDE DEF r, s, t, face
  <2>5. \E p1, p2, p3 \in r \cap face : p1 # p2 /\ p2 # p3 /\ p1 # p3
    BY <2>1, <2>2, ThreePoints
  <2>6. \E p1, p2, p3 \in s \cap face : p1 # p2 /\ p2 # p3 /\ p1 # p3
    BY <2>1, <2>2, ThreePoints
  <2>7. ~(\E p1, p2, p3 \in t \cap face : p1 # p2 /\ p2 # p3 /\ p1 # p3)
    BY <2>1, TwoPoints
  <2>3. FacesOn({r, s, t}, face) = {r \cap face, s \cap face}
    BY <2>5, <2>6, <2>7, TwoOfThree
  <2> QED
    BY <1>5, <1>6, <1>9, <2>1, <2>3 DEF Halves, face
<1> QED
  BY <1>4, <1>7, <1>8, <1>9

-----------------------------------------------------------------------------
(* Sequences of anything *)

IsList(s) == \E S : s \in Seq(S)

\* What is appended comes last.
LEMMA AppendedLast ==
    ASSUME NEW s, IsList(s), NEW e
    PROVE  /\ IsList(Append(s, e)) /\ Len(s) \in Nat /\ Len(Append(s, e)) = Len(s) + 1
           /\ Append(s, e)[Len(s) + 1] = e
           /\ \A i \in 1 .. Len(s) : Append(s, e)[i] = s[i]
<1>1. PICK S : s \in Seq(S)
  BY DEF IsList
<1>2. s \in Seq(S \cup {e}) /\ e \in S \cup {e}
  BY <1>1
<1>3. Append(s, e) \in Seq(S \cup {e})
  BY <1>2
<1> QED
  BY <1>2, <1>3 DEF IsList

\* What is taken off was the first.
LEMMA FirstTaken ==
    ASSUME NEW s, IsList(s), s # <<>>
    PROVE  /\ IsList(Tail(s)) /\ Len(s) \in Nat \ {0} /\ Len(Tail(s)) = Len(s) - 1 /\ Head(s) = s[1]
           /\ DOMAIN s = 1 .. Len(s) /\ DOMAIN Tail(s) = 1 .. Len(s) - 1
           /\ \A i \in 1 .. Len(s) - 1 : Tail(s)[i] = s[i + 1]
<1>1. PICK S : s \in Seq(S)
  BY DEF IsList
<1>2. Tail(s) \in Seq(S) /\ Len(s) \in Nat \ {0} /\ Len(Tail(s)) = Len(s) - 1
  BY <1>1
<1>3. DOMAIN s = 1 .. Len(s) /\ DOMAIN Tail(s) = 1 .. Len(s) - 1 /\ Head(s) = s[1]
  BY <1>1, <1>2
<1>4. \A i \in 1 .. Len(s) - 1 : Tail(s)[i] = s[i + 1]
  BY <1>1, <1>2
<1> QED
  BY <1>2, <1>3, <1>4 DEF IsList

\* The empty sequence, and a function from the numbers up to n.
LEMMA ListedFunctions ==
    /\ IsList(<<>>) /\ Len(<<>>) = 0
    /\ \A S, n : n \in Nat => \A f \in [1 .. n -> S] : IsList(f) /\ Len(f) = n
<1>1. ASSUME NEW S, NEW n \in Nat, NEW f \in [1 .. n -> S] PROVE f \in Seq(S) /\ Len(f) = n
  OBVIOUS
<1>2. <<>> \in Seq({}) /\ Len(<<>>) = 0
  OBVIOUS
<1> QED
  BY <1>1, <1>2 DEF IsList
=============================================================================
